---------------------------- MODULE FactoryProofs ----------------------------
(***************************************************************************)
(* Proofs about Factory, for any set of its workflows, any bounds on       *)
(* loops, repairs, runs and events, and any files the agents and the       *)
(* operator write.                                                         *)
(***************************************************************************)
EXTENDS Factory, TLAPS

-----------------------------------------------------------------------------
(* The inductive invariant.                                                *)

Statuses == {"none", "running", "success", "fail"}
Rows == [status : Statuses, phase : Statuses, open : BOOLEAN, total : SUBSET (1..Runs)]

Types ==
    /\ pc \in {"off"} \cup Live \cup Settling
    /\ flow \in Flows \cup {<<>>} /\ at \in 1..11 /\ stage \in AgentStage \cup CodeStage /\ round \in 1..MaxFixLoops
    /\ tries \in [json : 0..MaxJson, gate : 0..(Retries + 1)]
    /\ passed \in BOOLEAN /\ stale \in BOOLEAN /\ accepted \in BOOLEAN /\ child \in BOOLEAN /\ orphan \in BOOLEAN
    /\ untested \in BOOLEAN /\ unread \in BOOLEAN /\ hid \in BOOLEAN /\ cut \in BOOLEAN
    /\ work \in [File -> SUBSET Who] /\ index \in [File -> SUBSET Who] /\ \A f \in File : index[f] \subseteq work[f]
    /\ before \subseteq File /\ changed \subseteq before
    /\ wrote \subseteq File /\ begun \subseteq File /\ gone \subseteq begun
    /\ row \in Rows /\ total \subseteq 1..Runs /\ paid \subseteq 1..runs
    /\ runs \in 0..Runs /\ events \in 0..MaxEvents /\ exit \in {0, 1}

\* A process is at a phase its workflow opened, and a child is an agent at work.
Agents == {"send", "turn", "enforce"}

Placed ==
    /\ pc # "off" => runs > 0 /\ flow \in Flows /\ at \in 1..Len(flow)
    /\ pc \in Live => \/ stage = flow[at]
                      \/ flow[at] = "test" /\ stage = "fix"
                      \/ flow[at] = "review" /\ stage = "revise"
    /\ pc \in Agents => stage \in AgentStage
    /\ pc = "code" => stage \in CodeStage
    /\ child => pc = "turn" /\ row.open

\* A phase that goes on has repairs left.
Repairing ==
    /\ pc \in {"between", "send", "turn"} => tries.json < MaxJson
    /\ pc \in {"between", "code"} \cup Agents => tries.gate <= Retries

\* A phase inherits nothing from the one before it.
Anew ==
    /\ pc \in {"between", "code"} => wrote = {} /\ before = {}
    /\ pc = "between" => begun = {} /\ gone = {}

\* What an agent wrote differs from the snapshot, unless it committed it.
Seen == Introduced \cup Modified \cup Reverted
Watched == pc \in Agents /\ ~ hid => wrote \subseteq Seen

\* The operator's files were in the snapshot; the reverted ones the agent wrote.
Guarded ==
    /\ pc \in Agents => begun \subseteq before
    /\ pc \in Agents /\ ~ hid => gone \subseteq wrote

\* What the rows hold of the spends, and of a success on its way.
Told ==
    /\ pc # "off" => total = paid
    /\ pc \in Live \cup {"closing", "finishing"} => row.total = paid \ {runs}
    /\ pc = "over" => row.phase = "success"
    /\ pc \in {"finalize", "closing", "finishing", "banner"} /\ accepted => row.phase = "success"
    /\ pc \in {"finishing", "banner"} => ~ row.open
    /\ pc = "banner" => row.status = (IF accepted THEN "success" ELSE "fail") /\ row.total = total

\* What the code a phase meets has been through: after the suite it is tested,
\* until a revision that the retest is kept for; after the review it is read.
Past(by) == \E i \in 1..(at - 1) : flow[i] = by

Verdicts ==
    pc \in Live \ {"finalize"} /\ ~ hid =>
        /\ stage = "test" /\ pc = "over" /\ passed => ~ untested
        /\ Past("test") => \/ ~ untested
                           \/ stage = "retest" /\ ~ (pc = "over" /\ passed)
                           \/ stage = "review" /\ stale
                           \/ stage = "revise"
        /\ stage = "review" /\ pc = "over" /\ passed => ~ unread
        /\ Past("review") => ~ unread

IInv ==
    /\ Types /\ Placed /\ Repairing /\ Anew /\ Watched /\ Guarded /\ Told /\ Verdicts
    /\ BoundaryHeld /\ OperatorWorkKept /\ SessionTells

-----------------------------------------------------------------------------
(* The workflows.                                                          *)

\* Every workflow has some phases, no phase of a loop's second half among them.
LEMMA FlowIs ==
    ASSUME NEW f \in Flows
    PROVE  /\ Len(f) \in 1..11
           /\ \A i \in 1..Len(f) : f[i] \in (AgentStage \cup CodeStage) \ {"fix", "revise"}
<1>1. CASE f \in {PlanFlow, BuildFlow, ScoutFlow, PromptFlow("document"), QualityFlow}
    BY <1>1 DEF PlanFlow, BuildFlow, ScoutFlow, PromptFlow, QualityFlow, AgentStage, CodeStage
<1>2. CASE f \in {DocumentFlow, BuildTestFlow, BuildReviewFlow}
    BY <1>2 DEF DocumentFlow, BuildTestFlow, BuildReviewFlow, AgentStage, CodeStage
<1>3. CASE f = PlanBuildFlow \/ f = PlanBuildTestFlow
    BY <1>3 DEF PlanBuildFlow, PlanBuildTestFlow, AgentStage, CodeStage
<1>4. CASE f = SimpleSdlcFlow
    BY <1>4 DEF SimpleSdlcFlow, AgentStage, CodeStage
<1> QED BY <1>1, <1>2, <1>3, <1>4, FactoryAssumption

\* After a suite or a review no workflow changes code but in their loops, and a
\* review that follows a suite is followed by the suite again.
LEMMA FlowOrder ==
    ASSUME NEW f \in Flows, NEW i \in 1..Len(f), NEW j \in 1..Len(f), i < j
    PROVE  /\ f[i] = "test" => f[j] \in {"review", "retest", "commit", "changes", "document"}
           /\ f[i] = "review" => f[j] \in {"retest", "commit", "changes", "document"}
           /\ f[i] = "test" /\ f[j] = "review" => j + 1 <= Len(f) /\ f[j + 1] = "retest"
<1>1. CASE f \in {PlanFlow, BuildFlow, ScoutFlow, PromptFlow("document"), QualityFlow, DocumentFlow, PlanBuildFlow}
    <2>1. f[i] \notin {"test", "review"}
        BY <1>1 DEF PlanFlow, BuildFlow, ScoutFlow, PromptFlow, QualityFlow, DocumentFlow, PlanBuildFlow
    <2> QED BY <2>1
<1>2. CASE f = BuildTestFlow \/ f = BuildReviewFlow \/ f = PlanBuildTestFlow
    BY <1>2 DEF BuildTestFlow, BuildReviewFlow, PlanBuildTestFlow
<1>3. CASE f = SimpleSdlcFlow
    BY <1>3 DEF SimpleSdlcFlow
<1> QED BY <1>1, <1>2, <1>3, FactoryAssumption

\* What the workflow of a process has at its phase.
LEMMA Here ==
    ASSUME Types, Placed, pc # "off"
    PROVE  /\ flow \in Flows /\ at \in 1..Len(flow) /\ Len(flow) \in 1..11
           /\ flow[at] \in (AgentStage \cup CodeStage) \ {"fix", "revise"}
BY FlowIs DEF Placed

\* What a script does after a phase that succeeded: it stays in its loop, or
\* ends, or goes on, past a retest only if no revision moved the code.
Stays ==
    /\ pc' = "between" /\ UNCHANGED <<flow, at, passed, accepted>>
    /\ \/ stage = "test" /\ ~ passed /\ stage' = "fix" /\ UNCHANGED <<round, stale>>
       \/ stage = "review" /\ ~ passed /\ stage' = "revise" /\ UNCHANGED <<round, stale>>
       \/ stage = "fix" /\ stage' = "test" /\ round < MaxFixLoops /\ round' = round + 1 /\ UNCHANGED stale
       \/ stage = "revise" /\ stage' = "review" /\ round < MaxFixLoops /\ round' = round + 1 /\ stale' = TRUE

Ends == pc' = "finalize" /\ accepted' \in BOOLEAN /\ UNCHANGED flowing

GoesOn ==
    /\ pc' = "between" /\ stage \notin {"fix", "revise"} /\ UNCHANGED <<flow, stale, accepted>>
    /\ stage \in {"test", "review", "retest"} => passed
    /\ at' \in 1..Len(flow) /\ stage' = flow[at'] /\ round' = 1 /\ passed' = FALSE
    /\ at' = at + 1 \/ (at' = at + 2 /\ flow[at + 1] = "retest")
    /\ at' = at + 1 /\ flow[at'] = "retest" => stale
    /\ at' = at + 2 => ~ stale

\* How a workflow goes from one step to the next.
LEMMA AdvanceIs ==
    ASSUME Types, Placed, Advance
    PROVE  Stays \/ Ends \/ GoesOn
<1>1. pc = "over" /\ flow \in Flows /\ at \in 1..Len(flow) /\ Len(flow) \in 1..11
    BY Here DEF Advance
<1>2. CASE stage \in {"test", "review"} /\ ~ passed
    BY <1>2 DEF Advance, Turn, Stays
<1>3. CASE stage \in {"fix", "revise"}
    BY <1>3 DEF Advance, Turn, Stays, Finish, Ends, flowing
<1>4. CASE stage \in {"retest", "quality"} /\ ~ passed
    BY <1>4 DEF Advance, Finish, Ends, flowing
<1>5. CASE stage \notin {"fix", "revise"} /\ (stage \in {"test", "review", "retest", "quality"} => passed)
    <2>1. Proceed
        BY <1>5 DEF Advance
    <2>2. CASE After > Len(flow)
        BY <2>1, <2>2 DEF Proceed, Finish, Ends, flowing
    <2>3. CASE ~ (After > Len(flow))
        <3>1. /\ at' = After /\ stage' = flow[After] /\ round' = 1 /\ pc' = "between" /\ passed' = FALSE
              /\ UNCHANGED <<flow, stale, accepted>>
            BY <2>1, <2>3 DEF Proceed
        <3>2. After \in 1..Len(flow) /\ (After = at + 1 \/ (After = at + 2 /\ flow[at + 1] = "retest" /\ ~ stale))
            BY <1>1, <2>3 DEF After
        <3>3. After = at + 1 /\ flow[After] = "retest" => stale
            BY <1>1, <3>2 DEF After
        <3> QED BY <1>1, <1>5, <3>1, <3>2, <3>3 DEF GoesOn
    <2> QED BY <2>2, <2>3
<1> QED BY <1>2, <1>3, <1>4, <1>5

\* The steps that only the surroundings take leave the process where it is.
Around ==
    \/ \E f \in File : AgentWrites(f) \/ OperatorWrites(f) \/ OrphanWrites(f) \/ AgentStages(f) \/ AgentReverts(f)
    \/ OrphanEnds \/ AgentCommits

\* What the steps around the agents leave alone.
LEMMA AroundKeeps ==
    ASSUME Around
    PROVE  UNCHANGED <<pc, flowing, tries, accepted, before, child, trace, exit, runs, begun, untested, unread, paid, cut>>
BY DEF Around, AgentWrites, OperatorWrites, OrphanWrites, Write, Meddle, AgentStages, AgentReverts, OrphanEnds,
   AgentCommits, snap, tree, bounds, history, flowing, trace

-----------------------------------------------------------------------------
(* Types.                                                                  *)

\* The rows stay rows, whatever is written to them.
LEMMA RowIs ==
    ASSUME NEW r \in Rows
    PROVE  /\ SessionStart(r) \in Rows /\ PhaseStart(r) \in Rows /\ PhaseEnd(r) \in Rows
           /\ ProcessStart(r) \in Rows /\ ProcessEnd(r) \in Rows
BY DEF Rows, Statuses, SessionStart, PhaseStart, PhaseEnd, ProcessStart, ProcessEnd

\* What everything stands in is typed after every step.
LEMMA TypesStep ==
    ASSUME IInv, [Next]_vars
    PROVE  Types'
<1> USE DEF IInv, Live, Settling
<1>1. CASE Ensure
    <2>1. PICK f \in Flows, join \in BOOLEAN :
            /\ flow' = f /\ total' = ResumePoint(join) /\ row' = SessionStart(IF join THEN row ELSE NoRow)
            /\ paid' = IF join THEN paid ELSE {}
        BY <1>1 DEF Ensure
    <2>2. NoRow \in Rows
        BY DEF NoRow, Rows, Statuses
    <2>3. row' \in Rows
        BY <2>1, <2>2, RowIs DEF Types
    <2>4. row.total \subseteq 1..Runs /\ runs' \in 0..Runs /\ runs' = runs + 1
        BY <1>1, FactoryAssumption DEF Ensure, Types, Rows
    <2>5. total' \subseteq 1..Runs /\ paid' \subseteq 1..runs'
        BY <2>1, <2>4 DEF ResumePoint, Types
    <2>6. 1 \in 1..MaxFixLoops /\ [json |-> 0, gate |-> 0] \in [json : 0..MaxJson, gate : 0..(Retries + 1)]
        BY FactoryAssumption
    <2>7. round' \in 1..MaxFixLoops /\ tries' \in [json : 0..MaxJson, gate : 0..(Retries + 1)]
        BY <1>1, <2>6 DEF Ensure, Scope
    <2>8. /\ pc' = "between" /\ at' = 1 /\ stage' = "request" /\ passed' = FALSE /\ stale' = FALSE /\ accepted' = FALSE
          /\ exit' = 0 /\ untested' = FALSE /\ unread' = FALSE /\ hid' = FALSE /\ cut' = FALSE
          /\ before' = {} /\ changed' = {} /\ wrote' = {} /\ begun' = {} /\ gone' = {}
          /\ UNCHANGED <<work, index, child, orphan, events>>
        BY <1>1 DEF Ensure, Scope, tree
    <2>9. 1 \in 1..11 /\ "request" \in AgentStage \cup CodeStage
        BY DEF CodeStage
    <2> QED BY <2>1, <2>3, <2>4, <2>5, <2>7, <2>8, <2>9 DEF Types
<1>2. CASE OpenPhase
    <2>1. row' \in Rows
        BY <1>2, RowIs DEF OpenPhase, Types
    <2>2. /\ pc' \in {"code", "send"} /\ begun' \subseteq File /\ before' \subseteq File /\ changed' \subseteq before'
        BY <1>2 DEF OpenPhase, Snapshot, Dirty, snap, Types
    <2>3. gone' = {}
        BY <1>2 DEF OpenPhase, Anew
    <2> QED BY <1>2, <2>1, <2>2, <2>3 DEF OpenPhase, flowing, tree, bounds, Types
<1>3. CASE Send
    <2>1. row' \in Rows
        BY <1>3, RowIs DEF Send, Spawn, Types
    <2> QED BY <1>3, <2>1 DEF Send, Spawn, snap, flowing, tree, bounds, history, Types
<1>4. CASE Answered /\ (Unparsed \/ Refused \/ Refuted \/ Reported)
    <2>1. row' \in Rows
        BY <1>4, RowIs DEF Answered, BackendEnds, Types
    <2>2. pc = "turn" /\ runs \in 1..runs /\ runs \in 1..Runs
        BY <1>4 DEF Answered, Placed, Types
    <2>3. total' \subseteq 1..Runs /\ paid' \subseteq 1..runs
        BY <1>4, <2>2 DEF Answered, Types
    <2>4. tries' \in [json : 0..MaxJson, gate : 0..(Retries + 1)]
        <3>1. tries.json + 1 \in 0..MaxJson /\ tries.gate + 1 \in 0..(Retries + 1)
            <4>1. MaxJson \in Nat /\ Retries \in Nat
                BY FactoryAssumption
            <4>2. tries.json \in Nat /\ tries.gate \in Nat
                BY DEF Types
            <4> QED BY <2>2, <4>1, <4>2 DEF Repairing, Agents
        <3>2. tries' \in {tries, [tries EXCEPT !.json = @ + 1], [tries EXCEPT !.gate = @ + 1]}
            BY <1>4 DEF Unparsed, Refused, Refuted, Reported
        <3> QED BY <3>1, <3>2 DEF Types
    <2>5. pc' \in {"send", "enforce", "finalize"} /\ accepted' \in BOOLEAN /\ passed' \in BOOLEAN
        BY <1>4 DEF Unparsed, Refused, Refuted, Reported, Raise, Types
    <2> QED BY <1>4, <2>1, <2>2, <2>3, <2>4, <2>5 DEF Answered, BackendEnds, snap, tree, bounds, Types
<1>5. CASE Enforce
    <2>1. row' \in Rows /\ pc' \in {"over", "finalize"} /\ accepted' \in BOOLEAN
        BY <1>5, RowIs DEF Enforce, Earn, Fail, Raise, Types
    <2>2. PICK undone \in SUBSET RolledBack : work' = [f \in File |-> IF f \in undone THEN index[f] ELSE work[f]]
        BY <1>5 DEF Enforce
    <2>3. /\ work' \in [File -> SUBSET Who] /\ \A f \in File : index[f] \subseteq work'[f]
          /\ index' = index
        BY <1>5, <2>2 DEF Enforce, Types
    <2>4. untested' \in BOOLEAN /\ unread' \in BOOLEAN
        <3>1. /\ untested' = (untested \/ "code" \in wrote)
              /\ unread' = IF stage = "review" /\ passed THEN "code" \in wrote ELSE unread \/ "code" \in wrote
            BY <1>5 DEF Enforce
        <3>2. CASE stage = "review" /\ passed
            <4>1. unread' = ("code" \in wrote)
                BY <3>1, <3>2
            <4>2. unread' \in BOOLEAN
                <5>1. CASE "code" \in wrote
                    BY <4>1, <5>1
                <5>2. CASE "code" \notin wrote
                    BY <4>1, <5>2
                <5> QED BY <5>1, <5>2
            <4>3. untested' \in BOOLEAN
                BY <3>1, Zenon
            <4> QED BY <4>2, <4>3
        <3>3. CASE ~ (stage = "review" /\ passed)
            BY <3>1, <3>3, Zenon
        <3> QED BY <3>2, <3>3
    <2> QED BY <1>5, <2>1, <2>3, <2>4 DEF Enforce, snap, flowing, bounds, Types
<1>6. CASE CommitAll
    <2>1. row' \in Rows /\ pc' \in {"over", "finalize"} /\ accepted' \in BOOLEAN
        BY <1>6, RowIs DEF CommitAll, Earn, Fail, Raise, Types
    <2>2. UNCHANGED <<tree, gone>> \/ (gone' = begun /\ work' = [f \in File |-> {}] /\ index' = work')
        BY <1>6 DEF CommitAll
    <2> QED BY <1>6, <2>1, <2>2 DEF CommitAll, snap, flowing, tree, bounds, Types
<1>7. CASE RunQuality \/ Capture \/ Request
    <2>1. row' \in Rows /\ pc' \in {"over", "finalize"} /\ accepted' \in BOOLEAN /\ passed' \in BOOLEAN /\ untested' \in BOOLEAN
        BY <1>7, RowIs DEF RunQuality, Capture, Request, Earn, Fail, Raise, history, flowing, Types
    <2> QED BY <1>7, <2>1 DEF RunQuality, Capture, Request, snap, flowing, tree, bounds, history, Types
<1>8. CASE Advance
    <2>1. Scope /\ UNCHANGED <<tree, child, orphan, trace, exit, bounds, untested, unread, hid, paid, cut>>
        BY <1>8 DEF Advance
    <2>2. [json |-> 0, gate |-> 0] \in [json : 0..MaxJson, gate : 0..(Retries + 1)] /\ 1 \in 1..MaxFixLoops
        BY FactoryAssumption
    <2>3. /\ pc' \in {"between", "finalize"} /\ flow' = flow /\ at' \in 1..11
          /\ stage' \in AgentStage \cup CodeStage /\ round' \in 1..MaxFixLoops
          /\ passed' \in BOOLEAN /\ stale' \in BOOLEAN /\ accepted' \in BOOLEAN
        <3>1. CASE Stays
            <4>1. round' \in 1..MaxFixLoops
                BY <3>1, FactoryAssumption DEF Stays, Types
            <4>2. stage' \in {"fix", "revise", "test", "review"} /\ stale' \in BOOLEAN
                BY <3>1 DEF Stays, Types
            <4> QED BY <3>1, <4>1, <4>2 DEF Stays, Types, AgentStage, CodeStage
        <3>2. CASE Ends
            BY <3>2 DEF Ends, flowing, Types
        <3>3. CASE GoesOn
            <4>1. flow[at'] \in AgentStage \cup CodeStage /\ Len(flow) \in 1..11
                BY <1>8, <3>3, Here, FlowIs DEF GoesOn, Advance
            <4>2. at' \in 1..11
                BY <3>3, <4>1 DEF GoesOn
            <4> QED BY <2>2, <3>3, <4>1, <4>2 DEF GoesOn, Types
        <3> QED BY <1>8, <3>1, <3>2, <3>3, AdvanceIs
    <2> QED BY <2>1, <2>2, <2>3 DEF Scope, tree, trace, bounds, Types
<1>9. CASE Finalize \/ CloseProcesses \/ SessionFinish \/ Exit
    <2>1. [json |-> 0, gate |-> 0] \in [json : 0..MaxJson, gate : 0..(Retries + 1)]
        BY FactoryAssumption
    <2>2. row' \in Rows
        <3>1. CASE SessionFinish
            BY <3>1 DEF SessionFinish, Types, Rows, Statuses
        <3> QED BY <1>9, <3>1, RowIs DEF Finalize, CloseProcesses, Exit, trace, Types
    <2> QED BY <1>9, <2>1, <2>2 DEF Finalize, CloseProcesses, SessionFinish, Exit, Scope, snap, flowing, tree, trace,
                                    bounds, history, Types
<1>10. CASE Around
    <2>1. UNCHANGED <<pc, flowing, tries, accepted, before, child, trace, exit, runs, begun, untested, unread, paid, cut>>
        BY <1>10, AroundKeeps
    <2>2. events' \in 0..MaxEvents
        BY <1>10, FactoryAssumption DEF Around, AgentWrites, OperatorWrites, OrphanWrites, AgentStages, AgentReverts, OrphanEnds,
           AgentCommits, Event, bounds, Types
    <2>3. orphan' \in BOOLEAN /\ hid' \in BOOLEAN /\ wrote' \subseteq File /\ gone' \subseteq begun
        BY <1>10 DEF Around, AgentWrites, OperatorWrites, OrphanWrites, Write, Meddle, AgentStages, AgentReverts, OrphanEnds,
           AgentCommits, history, Types
    <2>4. changed' \subseteq before
        BY <1>10 DEF Around, AgentWrites, OperatorWrites, OrphanWrites, Write, Meddle, AgentStages, AgentReverts, OrphanEnds,
           AgentCommits, Rewritten, snap, Types
    <2>5. /\ work' \in [File -> SUBSET Who] /\ index' \in [File -> SUBSET Who]
          /\ \A f \in File : index'[f] \subseteq work'[f]
        <3>1. ASSUME NEW f \in File, AgentWrites(f) \/ OperatorWrites(f) \/ OrphanWrites(f)
              PROVE  index' = index /\ \E who \in Who : work' = [work EXCEPT ![f] = @ \cup {who}]
            BY <3>1 DEF AgentWrites, OperatorWrites, OrphanWrites, Write, Who
        <3>2. ASSUME NEW f \in File, AgentStages(f) PROVE work' = work /\ index' = [index EXCEPT ![f] = work[f]]
            BY <3>2 DEF AgentStages
        <3>3. ASSUME NEW f \in File, AgentReverts(f)
              PROVE  \E to \in {index[f], {}} : work' = [work EXCEPT ![f] = to] /\ index' = [index EXCEPT ![f] = to]
            BY <3>3 DEF AgentReverts
        <3>4. CASE OrphanEnds \/ AgentCommits
            BY <3>4 DEF OrphanEnds, AgentCommits, tree, Types
        <3>5. CASE \E f \in File : AgentWrites(f) \/ OperatorWrites(f) \/ OrphanWrites(f)
            BY <3>1, <3>5 DEF Types
        <3>6. CASE \E f \in File : AgentStages(f)
            BY <3>2, <3>6 DEF Types
        <3>7. CASE \E f \in File : AgentReverts(f)
            BY <3>3, <3>7 DEF Types
        <3> QED BY <1>10, <3>4, <3>5, <3>6, <3>7 DEF Around
    <2> QED BY <2>1, <2>2, <2>3, <2>4, <2>5 DEF flowing, trace, Types
<1>11. CASE Interrupt
    <2>1. row' \in Rows
        BY <1>11, RowIs DEF Interrupt, Types
    <2>2. events' \in 0..MaxEvents
        BY <1>11, FactoryAssumption DEF Interrupt, Event, Types
    <2>3. pc' \in {"finalize", "off"} /\ accepted' \in BOOLEAN /\ exit' \in {0, 1} /\ paid' \subseteq paid /\ cut' \in BOOLEAN
        BY <1>11 DEF Interrupt, Raise, Types
    <2> QED BY <1>11, <2>1, <2>2, <2>3 DEF Interrupt, snap, flowing, tree, Types
<1>12. CASE Killed
    <2>1. [json |-> 0, gate |-> 0] \in [json : 0..MaxJson, gate : 0..(Retries + 1)]
        BY FactoryAssumption
    <2>2. events' \in 0..MaxEvents
        BY <1>12, FactoryAssumption DEF Killed, Event, Types
    <2> QED BY <1>12, <2>1, <2>2 DEF Killed, Scope, flowing, tree, trace, Types
<1>13. CASE UNCHANGED vars
    BY <1>13 DEF vars, snap, flowing, tree, trace, bounds, history, Types
<1>14. Unparsed \/ Refused \/ Refuted \/ Reported => Answered
    BY DEF Unparsed, Refused, Refuted, Reported
<1> QED BY <1>1, <1>2, <1>3, <1>4, <1>5, <1>6, <1>7, <1>8, <1>9, <1>10, <1>11, <1>12, <1>13, <1>14 DEF Next, Step, Around

-----------------------------------------------------------------------------
(* Where the process is.                                                   *)

\* The steps of the process within a phase, and to settle a session.
Within ==
    OpenPhase \/ Send \/ Unparsed \/ Refused \/ Refuted \/ Reported \/ Enforce \/ CommitAll \/ RunQuality \/ Capture
    \/ Request
Settles == Finalize \/ CloseProcesses \/ SessionFinish \/ Exit
Stopped == Interrupt \/ Killed

\* Every step is one of these.
LEMMA Kinds ==
    ASSUME [Next]_vars
    PROVE  Ensure \/ Within \/ Advance \/ Settles \/ Stopped \/ Around \/ UNCHANGED vars
BY DEF Next, Step, Within, Settles, Stopped, Around

\* A phase is opened, worked on and ended.
LEMMA WithinIs ==
    ASSUME Types, Placed, Within
    PROVE  /\ UNCHANGED <<flow, at, stage, round, stale, runs, cut, hid, exit, begun>> \/ OpenPhase
           /\ UNCHANGED <<flow, at, stage, round, stale, runs, cut, hid, exit>>
           /\ \/ OpenPhase /\ pc = "between" /\ stage \in CodeStage /\ pc' = "code"
              \/ OpenPhase /\ pc = "between" /\ stage \in AgentStage /\ pc' = "send"
              \/ Send /\ pc = "send" /\ pc' = "turn"
              \/ Answered /\ pc = "turn" /\ pc' \in {"send", "enforce", "finalize"}
              \/ Enforce /\ pc = "enforce" /\ pc' \in {"over", "finalize"}
              \/ (CommitAll \/ RunQuality \/ Capture \/ Request) /\ pc = "code" /\ pc' \in {"over", "finalize"}
<1>1. CASE OpenPhase \/ Send
    BY <1>1 DEF OpenPhase, Send, flowing, bounds, history
<1>2. CASE Unparsed \/ Refused \/ Refuted \/ Reported
    BY <1>2 DEF Unparsed, Refused, Refuted, Reported, Raise, Answered, bounds
<1>3. CASE Enforce
    BY <1>3 DEF Enforce, Earn, Fail, Raise, flowing, bounds
<1>4. CASE CommitAll \/ RunQuality \/ Capture \/ Request
    BY <1>4 DEF CommitAll, RunQuality, Capture, Request, Earn, Fail, Raise, flowing, bounds, history
<1> QED BY <1>1, <1>2, <1>3, <1>4 DEF Within

\* A session is settled one step after the other.
LEMMA SettlesIs ==
    ASSUME Settles
    PROVE  /\ UNCHANGED <<flowing, accepted, tree, child, orphan, total, bounds, untested, unread, hid, paid, cut>>
           /\ \/ Finalize /\ pc = "finalize" /\ pc' = "closing" /\ UNCHANGED <<row, exit>>
              \/ CloseProcesses /\ pc = "closing" /\ pc' = "finishing" /\ UNCHANGED <<exit, snap, history>>
              \/ SessionFinish /\ pc = "finishing" /\ pc' = "banner" /\ UNCHANGED <<exit, snap, history>>
              \/ Exit /\ pc = "banner" /\ pc' = "off" /\ UNCHANGED <<row, snap, history>>
BY DEF Settles, Finalize, CloseProcesses, SessionFinish, Exit, trace, history

\* A run that is hit settles its session, or is gone.
LEMMA StoppedIs ==
    ASSUME Stopped
    PROVE  /\ pc \in Live \cup Settling /\ UNCHANGED <<flowing, total, runs, tree, untested, unread, hid>> /\ child' = FALSE
           /\ \/ Interrupt /\ pc \in Live /\ pc' = "finalize" /\ accepted' = FALSE /\ UNCHANGED <<exit, paid, cut, wrote, begun, gone>>
              \/ /\ pc' = "off" /\ exit' = 1 /\ cut' = TRUE /\ UNCHANGED accepted
                 /\ paid' = IF pc = "banner" THEN paid ELSE paid \ {runs}
           /\ row' = row \/ row' = ProcessEnd(row)
<1>1. CASE Interrupt
    BY <1>1 DEF Interrupt, Raise, flowing
<1>2. CASE Killed
    BY <1>2 DEF Killed, trace
<1> QED BY <1>1, <1>2 DEF Stopped

\* The process is at a phase its workflow opened.
LEMMA PlacedStep ==
    ASSUME IInv, [Next]_vars
    PROVE  Placed'
<1> USE DEF IInv, Live, Settling, Agents
<1>1. CASE Ensure
    <2>1. PICK f \in Flows : flow' = f
        BY <1>1 DEF Ensure
    <2>2. Len(f) \in 1..11 /\ runs + 1 > 0
        BY FlowIs DEF Types
    <2>3. f[1] = "request"
        BY <2>1, FactoryAssumption
        DEF PlanFlow, BuildFlow, ScoutFlow, PromptFlow, QualityFlow, DocumentFlow, BuildTestFlow, BuildReviewFlow,
            PlanBuildFlow, PlanBuildTestFlow, SimpleSdlcFlow
    <2>4. child = FALSE
        BY <1>1 DEF Ensure, Placed, Types
    <2> QED BY <1>1, <2>1, <2>2, <2>3, <2>4 DEF Ensure, Placed
<1>2. CASE Within
    <2>1. child' => pc' = "turn" /\ row'.open
        <3>1. CASE OpenPhase
            BY <3>1 DEF OpenPhase, Placed
        <3>2. CASE Send
            <4>1. row'.open = TRUE
                BY <3>2 DEF Send, Spawn, ProcessStart, Types, Rows
            <4> QED BY <3>2, <4>1 DEF Send
        <3>3. CASE Answered
            BY <3>3 DEF Answered, BackendEnds
        <3>4. CASE Enforce \/ CommitAll \/ RunQuality \/ Capture \/ Request
            BY <3>4 DEF Enforce, CommitAll, RunQuality, Capture, Request, Placed
        <3> QED BY <1>2, <3>1, <3>2, <3>3, <3>4, WithinIs
    <2>2. pc # "off" /\ pc \in Live
        BY <1>2, WithinIs
    <2> QED BY <1>2, <2>1, <2>2, WithinIs DEF Placed
<1>3. CASE Advance
    <2>1. child' = FALSE /\ UNCHANGED runs /\ pc = "over"
        BY <1>3 DEF Advance, Placed, Types, bounds
    <2>2. CASE Stays
        BY <1>3, <2>1, <2>2, Here DEF Stays, Placed
    <2>3. CASE Ends
        BY <2>1, <2>3 DEF Ends, flowing, Placed
    <2>4. CASE GoesOn
        BY <2>1, <2>4 DEF GoesOn, Placed
    <2> QED BY <1>3, <2>2, <2>3, <2>4, AdvanceIs
<1>4. CASE Settles \/ Stopped
    <2>1. child' = FALSE /\ pc' \in Settling \cup {"off", "finalize"} /\ pc # "off"
        BY <1>4, SettlesIs, StoppedIs DEF Placed, Types
    <2>2. UNCHANGED <<flow, at, stage, runs>> /\ (pc' = "finalize" => pc \in Live)
        BY <1>4, SettlesIs, StoppedIs DEF flowing, bounds
    <2> QED BY <2>1, <2>2 DEF Placed
<1>5. CASE Around \/ UNCHANGED vars
    <2>1. UNCHANGED <<pc, flow, at, stage, child, row, runs>>
        BY <1>5, AroundKeeps DEF vars, flowing, trace, bounds
    <2> QED BY <2>1 DEF Placed
<1> QED BY <1>1, <1>2, <1>3, <1>4, <1>5, Kinds

\* A phase that goes on has repairs left.
LEMMA RepairingStep ==
    ASSUME IInv, [Next]_vars
    PROVE  Repairing'
<1> USE DEF IInv, Live, Settling, Agents
<1>1. MaxJson \in Nat \ {0} /\ Retries \in Nat
    BY FactoryAssumption
<1>2. CASE Ensure \/ Advance
    <2>1. tries' = [json |-> 0, gate |-> 0]
        BY <1>2 DEF Ensure, Advance, Scope
    <2> QED BY <1>1, <2>1 DEF Repairing
<1>3. CASE Within
    <2>1. CASE Unparsed
        BY <2>1, <1>1 DEF Unparsed, Answered, Raise, Repairing, Types
    <2>2. CASE Refuted
        BY <2>2, <1>1 DEF Refuted, Answered, Raise, Repairing, Types
    <2>3. CASE Refused \/ Reported
        BY <2>3 DEF Refused, Reported, Answered, Raise, Repairing
    <2>4. CASE OpenPhase \/ Send
        BY <2>4 DEF OpenPhase, Send, Repairing
    <2>5. CASE Enforce \/ CommitAll \/ RunQuality \/ Capture \/ Request
        BY <2>5 DEF Enforce, CommitAll, RunQuality, Capture, Request, Earn, Fail, Raise, Repairing
    <2> QED BY <1>3, <2>1, <2>2, <2>3, <2>4, <2>5 DEF Within
<1>4. CASE Settles \/ Stopped
    <2>1. pc' \in Settling \cup {"off", "finalize"}
        BY <1>4, SettlesIs, StoppedIs
    <2> QED BY <2>1 DEF Repairing
<1>5. CASE Around \/ UNCHANGED vars
    <2>1. UNCHANGED <<pc, tries>>
        BY <1>5, AroundKeeps DEF vars
    <2> QED BY <2>1 DEF Repairing
<1> QED BY <1>2, <1>3, <1>4, <1>5, Kinds

\* A phase begins with nothing of the one before it.
LEMMA AnewStep ==
    ASSUME IInv, [Next]_vars
    PROVE  Anew'
<1> USE DEF IInv, Live, Settling, Agents
<1>1. CASE Ensure \/ Advance
    BY <1>1 DEF Ensure, Advance, Scope, Anew
<1>2. CASE Within
    <2>1. CASE OpenPhase /\ pc' = "code"
        BY <2>1 DEF OpenPhase, snap, Anew, Snapshot, AgentStage, CodeStage
    <2>2. pc' # "between" /\ (pc' = "code" => OpenPhase)
        BY <1>2, WithinIs
    <2> QED BY <2>1, <2>2 DEF Anew
<1>3. CASE Settles \/ Stopped
    <2>1. pc' \in Settling \cup {"off", "finalize"}
        BY <1>3, SettlesIs, StoppedIs
    <2> QED BY <2>1 DEF Anew
<1>4. CASE Around
    <2>1. UNCHANGED <<pc, before, begun>>
        BY <1>4, AroundKeeps
    <2>2. pc \in {"between", "code"} => ~ child
        BY DEF Placed
    <2>3. ~ child => UNCHANGED <<wrote, gone>>
        BY <1>4 DEF Around, AgentWrites, OperatorWrites, OrphanWrites, Write, Meddle, AgentStages, AgentReverts,
           OrphanEnds, AgentCommits, history
    <2> QED BY <2>1, <2>2, <2>3 DEF Anew
<1>5. CASE UNCHANGED vars
    BY <1>5 DEF Anew, vars, snap, history
<1> QED BY <1>1, <1>2, <1>3, <1>4, <1>5, Kinds

-----------------------------------------------------------------------------
(* The tree.                                                               *)

\* What a successful check of the boundary has seen.
LEMMA EnforceIs ==
    ASSUME IInv, Enforce
    PROVE  /\ \A f \in before : work'[f] = work[f]
           /\ pc' = "over" => Offending = {} /\ row' = PhaseEnd(row) /\ UNCHANGED accepted
           /\ pc' # "over" => pc' = "finalize" /\ accepted' = FALSE /\ UNCHANGED row
           /\ pc' = "over" /\ ~ hid => wrote \subseteq Permitted
<1> USE DEF IInv
<1>1. PICK undone \in SUBSET RolledBack : work' = [f \in File |-> IF f \in undone THEN index[f] ELSE work[f]]
    BY DEF Enforce
<1>2. \A f \in before : f \notin RolledBack /\ f \in File
    BY DEF RolledBack, Introduced, Types
<1>3. IF Offending = {} THEN Earn ELSE Fail
    BY DEF Enforce
<1>4. pc' = "over" => Offending = {}
    BY <1>3 DEF Fail, Raise
<1>5. Offending = Seen \ Permitted /\ (~ hid => wrote \subseteq Seen)
    BY DEF Offending, Seen, Watched, Enforce, Agents
<1>6. \A f \in before : work'[f] = work[f]
    BY <1>1, <1>2
<1> QED BY <1>3, <1>4, <1>5, <1>6 DEF Earn, Fail, Raise

\* What the surroundings do to a file leaves it as it was, or is seen.
LEMMA WatchedStep ==
    ASSUME IInv, [Next]_vars
    PROVE  Watched'
<1> USE DEF IInv, Live, Settling, Agents
<1>1. Seen = {f \in File : IF f \in before THEN work[f] = {} \/ f \in changed ELSE work[f] # {}}
    BY DEF Seen, Introduced, Modified, Reverted, Dirty, Types
<1>2. CASE Ensure \/ Advance \/ Settles \/ Stopped
    <2>1. pc' \notin Agents
        BY <1>2, AdvanceIs, SettlesIs, StoppedIs DEF Ensure, Stays, Ends, GoesOn
    <2> QED BY <2>1 DEF Watched
<1>3. CASE Within
    <2>1. CASE OpenPhase
        BY <2>1 DEF OpenPhase, Anew, Watched
    <2>2. CASE Send \/ Answered
        BY <1>3, <2>2, WithinIs
        DEF Send, Answered, snap, tree, history, Watched, Seen, Introduced, Modified, Reverted, Dirty
    <2>3. CASE pc' \notin Agents
        BY <2>3 DEF Watched
    <2> QED BY <1>3, <2>1, <2>2, <2>3, WithinIs
<1>4. CASE Around
    <2>1. UNCHANGED <<pc, before>>
        BY <1>4, AroundKeeps
    <2> SUFFICES ASSUME pc \in Agents, ~ hid, ~ hid', NEW f \in wrote'
                 PROVE  f \in File /\ IF f \in before THEN work'[f] = {} \/ f \in changed' ELSE work'[f] # {}
        <3>1. ~ hid' => ~ hid
            BY <1>4 DEF Around, AgentWrites, OperatorWrites, OrphanWrites, Write, Meddle, AgentStages, AgentReverts,
               OrphanEnds, AgentCommits, history
        <3>2. Types'
            BY TypesStep
        <3>3. Seen' = {f \in File : IF f \in before' THEN work'[f] = {} \/ f \in changed' ELSE work'[f] # {}}
            BY <3>2 DEF Seen, Introduced, Modified, Reverted, Dirty, Types
        <3> QED BY <2>1, <3>1, <3>3 DEF Watched
    <2>2. f \in File
        BY TypesStep DEF Types
    <2>3. \A g \in wrote : IF g \in before THEN work[g] = {} \/ g \in changed ELSE work[g] # {}
        BY <1>1 DEF Watched
    <2>4. ASSUME NEW g \in File, AgentWrites(g) \/ OperatorWrites(g) \/ OrphanWrites(g)
          PROVE  IF f \in before THEN work'[f] = {} \/ f \in changed' ELSE work'[f] # {}
        <3>1. PICK who \in Who : work' = [work EXCEPT ![g] = @ \cup {who}]
            BY <2>4 DEF AgentWrites, OperatorWrites, OrphanWrites, Write, Who
        <3>2. changed' = changed \cup ({g} \cap before) /\ wrote' \subseteq wrote \cup {g}
            BY <2>4 DEF AgentWrites, OperatorWrites, OrphanWrites, Write, Rewritten
        <3>3. CASE f = g
            BY <3>1, <3>2, <3>3 DEF Types
        <3>4. CASE f # g
            BY <2>2, <2>3, <3>1, <3>2, <3>4 DEF Types
        <3> QED BY <3>3, <3>4
    <2>5. ASSUME NEW g \in File, AgentReverts(g)
          PROVE  IF f \in before THEN work'[f] = {} \/ f \in changed' ELSE work'[f] # {}
        <3>1. PICK to \in {index[g], {}} :
                /\ work' = [work EXCEPT ![g] = to]
                /\ wrote' = IF g \in before \/ to # {} THEN wrote \cup {g} ELSE wrote \ {g}
            BY <2>5 DEF AgentReverts
        <3>2. changed' = changed \cup ({g} \cap before)
            BY <2>5 DEF AgentReverts, Rewritten
        <3>3. CASE f = g
            BY <3>1, <3>2, <3>3 DEF Types
        <3>4. CASE f # g
            BY <2>2, <2>3, <3>1, <3>2, <3>4 DEF Types
        <3> QED BY <3>3, <3>4
    <2>6. CASE OrphanEnds \/ \E g \in File : AgentStages(g)
        <3>1. UNCHANGED <<work, changed, wrote>>
            BY <2>6 DEF OrphanEnds, AgentStages, tree, snap, history
        <3> QED BY <2>2, <2>3, <3>1
    <2>7. ~ AgentCommits
        BY DEF AgentCommits
    <2> QED BY <1>4, <2>2, <2>4, <2>5, <2>6, <2>7 DEF Around
<1>5. CASE UNCHANGED vars
    BY <1>5 DEF Watched, Seen, Introduced, Modified, Reverted, Dirty, vars, snap, tree, history
<1> QED BY <1>2, <1>3, <1>4, <1>5, Kinds

\* What the operator had, the snapshot has, and what he lost the agent wrote.
LEMMA GuardedStep ==
    ASSUME IInv, [Next]_vars
    PROVE  Guarded'
<1> USE DEF IInv, Live, Settling, Agents
<1>1. CASE Ensure \/ Advance \/ Settles \/ Stopped
    <2>1. pc' \notin Agents
        BY <1>1, AdvanceIs, SettlesIs, StoppedIs DEF Ensure, Stays, Ends, GoesOn
    <2> QED BY <2>1 DEF Guarded
<1>2. CASE Within
    <2>1. CASE OpenPhase
        <3>1. pc' = "send" => before' = Dirty
            BY <2>1 DEF OpenPhase, Snapshot
        <3>2. begun' = {f \in File : "operator" \in work[f]} /\ gone' = {}
            BY <2>1 DEF OpenPhase, Anew
        <3>3. begun' \subseteq Dirty
            BY <3>2 DEF Dirty
        <3>4. pc' \in {"code", "send"}
            BY <2>1 DEF OpenPhase
        <3> QED BY <3>1, <3>2, <3>3, <3>4 DEF Guarded
    <2>2. CASE Send \/ Answered
        BY <1>2, <2>2, WithinIs DEF Send, Answered, snap, tree, history, Guarded
    <2>3. CASE pc' \notin Agents
        BY <2>3 DEF Guarded
    <2> QED BY <1>2, <2>1, <2>2, <2>3, WithinIs
<1>3. CASE Around
    <2>1. UNCHANGED <<pc, before, begun>>
        BY <1>3, AroundKeeps
    <2>2. ASSUME NEW f \in File, AgentReverts(f), pc \in Agents, ~ hid, ~ hid' PROVE gone' \subseteq wrote'
        <3>1. PICK to \in {index[f], {}} : wrote' = IF f \in before \/ to # {} THEN wrote \cup {f} ELSE wrote \ {f}
            BY <2>2 DEF AgentReverts
        <3>2. gone' = gone \cup ({f} \cap begun) /\ gone \subseteq wrote /\ gone \subseteq begun /\ begun \subseteq before
            BY <2>2 DEF AgentReverts, Guarded, Types
        <3> QED BY <3>1, <3>2
    <2>3. CASE ~ AgentCommits /\ ~ \E f \in File : AgentReverts(f)
        <3>1. UNCHANGED <<gone, hid>> /\ wrote \subseteq wrote'
            BY <1>3, <2>3 DEF Around, AgentWrites, OperatorWrites, OrphanWrites, Write, Meddle, AgentStages,
               OrphanEnds, history
        <3> QED BY <2>1, <3>1 DEF Guarded
    <2>4. AgentCommits => hid'
        BY DEF AgentCommits
    <2>5. (\E f \in File : AgentReverts(f)) => hid' = hid
        BY DEF AgentReverts
    <2> QED BY <2>1, <2>2, <2>3, <2>4, <2>5 DEF Guarded
<1>4. CASE UNCHANGED vars
    BY <1>4 DEF Guarded, vars, snap, history
<1> QED BY <1>1, <1>2, <1>3, <1>4, Kinds

\* A phase that succeeded kept within its write list.
LEMMA BoundaryHeldStep ==
    ASSUME IInv, [Next]_vars
    PROVE  BoundaryHeld'
<1> USE DEF IInv, Live, Settling, Agents
<1>1. CASE Ensure \/ Advance \/ Settles \/ Stopped
    <2>1. pc' # "over"
        BY <1>1, AdvanceIs, SettlesIs, StoppedIs DEF Ensure, Stays, Ends, GoesOn
    <2> QED BY <2>1 DEF BoundaryHeld
<1>2. CASE Within
    <2>1. CASE Enforce
        <3>1. UNCHANGED <<stage, hid, wrote>>
            BY <2>1 DEF Enforce, flowing
        <3> QED BY <2>1, <3>1, EnforceIs DEF BoundaryHeld, Permitted
    <2>2. CASE CommitAll \/ RunQuality \/ Capture \/ Request
        BY <1>2, <2>2, WithinIs DEF BoundaryHeld, CommitAll, RunQuality, Capture, Request, AgentStage, flowing
    <2>3. CASE pc' # "over"
        BY <2>3 DEF BoundaryHeld
    <2> QED BY <1>2, <2>1, <2>2, <2>3, WithinIs
<1>3. CASE Around
    <2>1. UNCHANGED <<pc, stage>>
        BY <1>3, AroundKeeps DEF flowing
    <2>2. pc = "over" => UNCHANGED <<wrote, hid>>
        BY <1>3 DEF Around, AgentWrites, OperatorWrites, OrphanWrites, Write, Meddle, AgentStages, AgentReverts,
           OrphanEnds, AgentCommits, history, Placed
    <2> QED BY <2>1, <2>2 DEF BoundaryHeld, Permitted
<1>4. CASE UNCHANGED vars
    BY <1>4 DEF BoundaryHeld, Permitted, vars, flowing, history
<1> QED BY <1>1, <1>2, <1>3, <1>4, Kinds

\* The operator keeps his files, or knows who took them.
LEMMA OperatorWorkStep ==
    ASSUME IInv, [Next]_vars
    PROVE  OperatorWorkKept'
<1> USE DEF IInv, Live, Settling, Agents
<1>1. CASE Ensure \/ Advance \/ Killed \/ Finalize
    <2>1. begun' = {}
        BY <1>1 DEF Ensure, Advance, Killed, Finalize, Scope
    <2> QED BY <2>1 DEF OperatorWorkKept
<1>2. CASE Within
    <2>1. CASE OpenPhase
        BY <2>1 DEF OpenPhase, tree, OperatorWorkKept
    <2>2. CASE Send \/ Answered
        <3>1. UNCHANGED <<work, begun, gone>> /\ pc' # "over"
            BY <1>2, <2>2, WithinIs DEF Send, Answered, tree, history
        <3> QED BY <3>1 DEF OperatorWorkKept
    <2>3. CASE Enforce
        <3>1. UNCHANGED <<begun, gone, stage, hid>> /\ begun \subseteq before
            BY <2>3 DEF Enforce, flowing, Guarded
        <3>2. \A f \in begun : work'[f] = work[f]
            BY <2>3, <3>1, EnforceIs
        <3>3. pc' = "over" /\ ~ hid => gone \subseteq Permitted
            BY <2>3, EnforceIs DEF Guarded, Enforce
        <3>4. Permitted' = Permitted
            BY <3>1 DEF Permitted
        <3>5. ASSUME NEW f \in begun PROVE "operator" \in work[f] \/ f \in gone
            BY DEF OperatorWorkKept
        <3> QED BY <3>1, <3>2, <3>3, <3>4, <3>5 DEF OperatorWorkKept
    <2>4. CASE CommitAll \/ RunQuality \/ Capture \/ Request
        <3>1. stage \notin AgentStage /\ UNCHANGED <<stage, begun>>
            <4>1. UNCHANGED <<stage, begun>>
                BY <2>4 DEF CommitAll, RunQuality, Capture, Request, flowing, history
            <4>2. stage \in CodeStage
                BY <2>4 DEF CommitAll, RunQuality, Capture, Request, CodeStage
            <4> QED BY <4>1, <4>2 DEF AgentStage, CodeStage
        <3>2. UNCHANGED <<work, gone>> \/ gone' = begun
            BY <2>4 DEF CommitAll, RunQuality, Capture, Request, tree, history
        <3> QED BY <3>1, <3>2 DEF OperatorWorkKept
    <2> QED BY <1>2, <2>1, <2>2, <2>3, <2>4, WithinIs
<1>3. CASE CloseProcesses \/ SessionFinish \/ Exit \/ Interrupt
    <2>1. UNCHANGED <<work, begun, gone>> /\ pc' # "over"
        BY <1>3 DEF CloseProcesses, SessionFinish, Exit, Interrupt, Raise, tree, history
    <2> QED BY <2>1 DEF OperatorWorkKept
<1>4. CASE Around
    <2>1. UNCHANGED <<pc, stage, begun>> /\ Permitted' = Permitted
        BY <1>4, AroundKeeps DEF flowing, Permitted
    <2>2. ASSUME NEW g \in File, AgentWrites(g) \/ OperatorWrites(g) \/ OrphanWrites(g)
          PROVE  OperatorWorkKept'
        <3>1. PICK who \in Who : work' = [work EXCEPT ![g] = @ \cup {who}]
            BY <2>2 DEF AgentWrites, OperatorWrites, OrphanWrites, Write, Who
        <3>2. UNCHANGED <<gone, hid>>
            BY <2>2 DEF AgentWrites, OperatorWrites, OrphanWrites, Write
        <3>3. \A f \in begun : work[f] \subseteq work'[f]
            BY <3>1 DEF Types
        <3> QED BY <2>1, <3>2, <3>3 DEF OperatorWorkKept
    <2>3. ASSUME NEW g \in File, AgentReverts(g) PROVE OperatorWorkKept'
        <3>1. PICK to \in {index[g], {}} : work' = [work EXCEPT ![g] = to]
            BY <2>3 DEF AgentReverts
        <3>2. gone' = gone \cup ({g} \cap begun) /\ pc = "turn"
            BY <2>3 DEF AgentReverts, Meddle, Placed
        <3>3. \A f \in begun : f # g => work'[f] = work[f]
            BY <3>1 DEF Types
        <3> QED BY <2>1, <3>2, <3>3 DEF OperatorWorkKept
    <2>4. ASSUME AgentCommits PROVE OperatorWorkKept'
        BY <2>1, <2>4 DEF AgentCommits, OperatorWorkKept
    <2>5. CASE OrphanEnds \/ \E g \in File : AgentStages(g)
        <3>1. UNCHANGED <<work, gone, hid>>
            BY <2>5 DEF OrphanEnds, AgentStages, tree, history
        <3> QED BY <2>1, <3>1 DEF OperatorWorkKept
    <2> QED BY <1>4, <2>2, <2>3, <2>4, <2>5 DEF Around
<1>5. CASE UNCHANGED vars
    BY <1>5 DEF OperatorWorkKept, Permitted, vars, flowing, tree, history
<1> QED BY <1>1, <1>2, <1>3, <1>4, <1>5, Kinds DEF Settles, Stopped

-----------------------------------------------------------------------------
(* The trace.                                                              *)

\* What a write makes of the columns.
LEMMA RowSays ==
    ASSUME NEW r \in Rows
    PROVE  /\ SessionStart(r).status = "running" /\ SessionStart(r).total = r.total /\ SessionStart(r).phase = r.phase
           /\ PhaseStart(r).phase = "fail" /\ PhaseStart(r).status = r.status /\ PhaseStart(r).total = r.total
           /\ PhaseEnd(r).phase = "success" /\ PhaseEnd(r).status = r.status /\ PhaseEnd(r).total = r.total
           /\ ProcessStart(r).phase = r.phase /\ ProcessStart(r).status = r.status /\ ProcessStart(r).total = r.total
           /\ ProcessEnd(r).phase = r.phase /\ ProcessEnd(r).status = r.status /\ ProcessEnd(r).total = r.total
           /\ ~ ProcessEnd(r).open
BY DEF Rows, SessionStart, PhaseStart, PhaseEnd, ProcessStart, ProcessEnd

\* The spends of the session's runs, and a success on its way, reach the rows.
LEMMA ToldStep ==
    ASSUME IInv, [Next]_vars
    PROVE  Told'
<1> USE DEF IInv, Live, Settling, Agents
<1>1. CASE Ensure
    <2>1. PICK f \in Flows, join \in BOOLEAN :
            /\ join => runs > 0
            /\ total' = ResumePoint(join) /\ row' = SessionStart(IF join THEN row ELSE NoRow)
            /\ paid' = IF join THEN paid ELSE {}
        BY <1>1 DEF Ensure
    <2>2. NoRow \in Rows /\ NoRow.total = {}
        BY DEF NoRow, Rows, Statuses
    <2>3. pc = "off" /\ runs' = runs + 1 /\ pc' = "between" /\ runs \in Nat
        BY <1>1, FactoryAssumption DEF Ensure, Types
    <2>4. CASE join
        <3>1. row'.total = row.total
            BY <2>1, <2>4, RowSays DEF Types
        <3>2. row.total = paid
            BY <2>1, <2>3, <2>4 DEF SessionTells
        <3>3. runs' \notin paid
            BY <2>3 DEF Types
        <3> QED BY <2>1, <2>3, <2>4, <3>1, <3>2, <3>3 DEF ResumePoint, Told
    <2>5. CASE ~ join
        <3>1. row'.total = {}
            BY <2>1, <2>2, <2>5, RowSays
        <3> QED BY <2>1, <2>3, <2>5, <3>1 DEF ResumePoint, Told
    <2> QED BY <2>4, <2>5
<1>2. CASE Within
    <2>1. CASE OpenPhase \/ Send
        <3>1. row' = PhaseStart(row) \/ row' = ProcessStart(row)
            BY <2>1 DEF OpenPhase, Send, Spawn
        <3>2. row'.total = row.total
            BY <3>1, RowSays DEF Types
        <3>3. UNCHANGED <<total, paid, runs>> /\ pc \in {"between", "send"} /\ pc' \in {"code", "send", "turn"}
            BY <2>1 DEF OpenPhase, Send, bounds, history
        <3> QED BY <3>2, <3>3 DEF Told
    <2>2. CASE Answered
        <3>1. row' = ProcessEnd(row) /\ total' = total \cup {runs} /\ paid' = paid \cup {runs} /\ UNCHANGED runs
            BY <2>2 DEF Answered, BackendEnds, bounds
        <3>2. row'.total = row.total
            BY <3>1, RowSays DEF Types
        <3>3. pc = "turn" /\ pc' \in {"send", "enforce", "finalize"} /\ (pc' = "finalize" => accepted' = FALSE)
            <4>1. CASE Unparsed \/ Refused \/ Refuted \/ Reported
                BY <4>1 DEF Unparsed, Refused, Refuted, Reported, Raise, Answered
            <4>2. CASE OpenPhase \/ Send \/ Enforce \/ CommitAll \/ RunQuality \/ Capture \/ Request
                BY <2>2, <4>2 DEF OpenPhase, Send, Enforce, CommitAll, RunQuality, Capture, Request, Answered
            <4> QED BY <1>2, <4>1, <4>2 DEF Within
        <3> QED BY <3>1, <3>2, <3>3 DEF Told
    <2>3. CASE Enforce \/ CommitAll \/ RunQuality \/ Capture \/ Request
        <3>1. Earn \/ Fail
            BY <2>3 DEF Enforce, CommitAll, RunQuality, Capture, Request
        <3>2. UNCHANGED <<total, paid, runs>> /\ pc \in {"enforce", "code"}
            BY <2>3 DEF Enforce, CommitAll, RunQuality, Capture, Request, bounds, history
        <3>3. row'.total = row.total /\ (Earn => row'.phase = "success")
            BY <3>1, RowSays DEF Types, Earn, Fail
        <3> QED BY <3>1, <3>2, <3>3 DEF Earn, Fail, Raise, Told
    <2> QED BY <1>2, <2>1, <2>2, <2>3, WithinIs
<1>3. CASE Advance
    <2>1. UNCHANGED <<total, row, runs, paid>> /\ pc = "over" /\ pc' \in {"between", "finalize"}
        BY <1>3, AdvanceIs DEF Advance, trace, bounds, Stays, Ends, GoesOn
    <2> QED BY <2>1 DEF Told
<1>4. CASE Settles
    <2>1. UNCHANGED <<total, paid, runs, accepted>>
        BY <1>4, SettlesIs DEF bounds
    <2>2. CASE CloseProcesses
        <3>1. row' = ProcessEnd(row) /\ pc = "closing" /\ pc' = "finishing"
            BY <2>2 DEF CloseProcesses
        <3>2. row'.phase = row.phase /\ row'.total = row.total /\ ~ row'.open
            BY <3>1, RowSays DEF Types
        <3> QED BY <2>1, <3>1, <3>2 DEF Told
    <2>3. CASE SessionFinish
        BY <2>1, <2>3 DEF SessionFinish, Told, Types, Rows
    <2>4. CASE Finalize
        BY <2>1, <2>4 DEF Finalize, trace, Told
    <2>5. CASE Exit
        BY <2>1, <2>5 DEF Exit, Told
    <2> QED BY <1>4, <2>2, <2>3, <2>4, <2>5 DEF Settles
<1>5. CASE Stopped
    <2>1. row'.total = row.total /\ paid' \subseteq 1..runs
        BY <1>5, StoppedIs, RowSays DEF Types
    <2> QED BY <1>5, <2>1, StoppedIs DEF Told
<1>6. CASE Around \/ UNCHANGED vars
    <2>1. UNCHANGED <<pc, total, row, runs, paid, accepted>>
        BY <1>6, AroundKeeps DEF vars, trace, bounds, history
    <2> QED BY <2>1 DEF Told
<1> QED BY <1>1, <1>2, <1>3, <1>4, <1>5, <1>6, Kinds

\* The rows tell what becomes of a run.
LEMMA SessionTellsStep ==
    ASSUME IInv, [Next]_vars
    PROVE  SessionTells'
<1> USE DEF IInv, Live, Settling, Agents
<1>1. CASE Ensure
    <2>1. PICK f \in Flows, join \in BOOLEAN : row' = SessionStart(IF join THEN row ELSE NoRow)
        BY <1>1 DEF Ensure
    <2>2. NoRow \in Rows
        BY DEF NoRow, Rows, Statuses
    <2>3. row'.status = "running"
        BY <2>1, <2>2, RowSays DEF Types
    <2> QED BY <1>1, <2>3 DEF Ensure, SessionTells
<1>2. CASE Within
    <2>1. CASE OpenPhase
        <3>1. row'.phase = "fail" /\ row'.status = "running" /\ pc' \in {"code", "send"}
            BY <2>1, RowSays DEF OpenPhase, Types, SessionTells
        <3> QED BY <3>1 DEF SessionTells
    <2>2. CASE Send \/ Answered
        <3>1. row' = ProcessStart(row) \/ row' = ProcessEnd(row)
            BY <2>2 DEF Send, Spawn, Answered, BackendEnds
        <3>2. row'.phase = row.phase /\ row'.status = row.status
            BY <3>1, RowSays DEF Types
        <3>3. pc \in {"send", "turn"} /\ pc' \in {"send", "turn", "enforce", "finalize"}
            BY <1>2, <2>2, WithinIs DEF Send, Answered
        <3> QED BY <3>2, <3>3 DEF SessionTells
    <2>3. CASE Enforce \/ CommitAll \/ RunQuality \/ Capture \/ Request
        <3>1. Earn \/ Fail
            BY <2>3 DEF Enforce, CommitAll, RunQuality, Capture, Request
        <3>2. row'.status = row.status /\ pc \in {"enforce", "code"} /\ pc' \in {"over", "finalize"}
            BY <2>3, <3>1, RowSays DEF Types, Earn, Fail, Raise, Enforce, CommitAll, RunQuality, Capture, Request
        <3> QED BY <3>2 DEF SessionTells
    <2> QED BY <1>2, <2>1, <2>2, <2>3, WithinIs
<1>3. CASE Advance
    <2>1. UNCHANGED row /\ pc = "over" /\ pc' \in {"between", "finalize"}
        BY <1>3, AdvanceIs DEF Advance, trace, Stays, Ends, GoesOn
    <2> QED BY <2>1 DEF SessionTells
<1>4. CASE Settles
    <2>1. CASE Finalize
        BY <2>1 DEF Finalize, trace, SessionTells
    <2>2. CASE CloseProcesses
        <3>1. row'.phase = row.phase /\ row'.status = row.status
            BY <2>2, RowSays DEF CloseProcesses, Types
        <3> QED BY <2>2, <3>1 DEF CloseProcesses, SessionTells
    <2>3. CASE SessionFinish
        <3>1. row'.status = (IF accepted THEN "success" ELSE "fail") /\ row'.phase = row.phase /\ pc' = "banner"
            BY <2>3 DEF SessionFinish, Types, Rows
        <3>2. accepted => row.phase = "success"
            BY <2>3 DEF SessionFinish, Told
        <3> QED BY <3>1, <3>2 DEF SessionTells
    <2>4. CASE Exit
        <3>1. /\ row.total = paid /\ ~ row.open /\ row.status = (IF accepted THEN "success" ELSE "fail")
              /\ pc' = "off" /\ exit' = (IF accepted THEN 0 ELSE 1) /\ UNCHANGED <<row, paid, runs, cut>>
            BY <2>4 DEF Exit, Told, trace, bounds, history
        <3>2. row.status = "success" => row.phase = "success"
            BY DEF SessionTells
        <3> QED BY <3>1, <3>2 DEF SessionTells
    <2> QED BY <1>4, <2>1, <2>2, <2>3, <2>4 DEF Settles
<1>5. CASE Stopped
    <2>1. row'.phase = row.phase /\ row'.status = row.status /\ row'.total = row.total
        BY <1>5, StoppedIs, RowSays DEF Types
    <2>2. CASE pc' = "finalize"
        <3>1. pc \in Live
            BY <1>5, <2>2, StoppedIs
        <3> QED BY <2>1, <2>2, <3>1 DEF SessionTells
    <2>3. CASE pc' = "off" /\ cut' = TRUE
        <3>1. row.total = paid'
            BY <1>5, <2>3, StoppedIs DEF Told
        <3> QED BY <2>1, <2>3, <3>1 DEF SessionTells
    <2> QED BY <1>5, <2>2, <2>3, StoppedIs
<1>6. CASE Around \/ UNCHANGED vars
    <2>1. UNCHANGED <<pc, row, runs, paid, exit, cut>>
        BY <1>6, AroundKeeps DEF vars, trace, bounds, history
    <2> QED BY <2>1 DEF SessionTells
<1> QED BY <1>1, <1>2, <1>3, <1>4, <1>5, <1>6, Kinds

-----------------------------------------------------------------------------
(* The verdicts.                                                           *)

\* What a phase leaves of the verdicts its workflow holds.
LEMMA VerdictsWithin ==
    ASSUME IInv, Within
    PROVE  Verdicts'
<1> USE DEF IInv, Live, Settling, Agents
<1>0. UNCHANGED <<flow, at, stage, stale, hid>> /\ Past("test")' = Past("test") /\ Past("review")' = Past("review")
    BY WithinIs DEF Past
<1>1. CASE OpenPhase \/ Send \/ Answered
    <2>1. UNCHANGED <<untested, unread>> /\ pc' # "over"
        BY <1>1, WithinIs DEF OpenPhase, Send, Answered, history
    <2>2. pc \in Live \ {"finalize", "over"}
        BY <1>1 DEF OpenPhase, Send, Answered
    <2>3. CASE hid
        BY <1>0, <2>3 DEF Verdicts
    <2>4. CASE ~ hid
        <3>1. Past("test") => ~ untested \/ stage = "retest" \/ (stage = "review" /\ stale) \/ stage = "revise"
            BY <2>2, <2>4 DEF Verdicts
        <3>2. Past("review") => ~ unread
            BY <2>2, <2>4 DEF Verdicts
        <3> QED BY <1>0, <2>1, <3>1, <3>2 DEF Verdicts
    <2> QED BY <2>3, <2>4
<1>2. CASE Enforce
    <2>1. CASE pc' = "over" /\ ~ hid
        <3>1. wrote \subseteq Permitted /\ pc = "enforce" /\ stage \in AgentStage
            BY <1>2, <2>1, EnforceIs DEF Enforce, Placed
        <3>2. stage \notin {"build", "fix", "revise"} => "code" \notin wrote
            BY <3>1 DEF Permitted
        <3>3. /\ stage \notin {"build", "fix", "revise"} /\ ~ untested => ~ untested'
              /\ stage \notin {"build", "fix", "revise"} /\ ~ unread => ~ unread'
              /\ stage = "review" /\ passed => ~ unread'
              /\ passed' = passed
            <4>1. UNCHANGED passed
                BY <1>2 DEF Enforce, flowing
            <4>2. CASE stage \in {"build", "fix", "revise"}
                BY <4>1, <4>2
            <4>3. CASE stage \notin {"build", "fix", "revise"}
                <5>1. "code" \notin wrote
                    BY <3>2, <4>3
                <5>2. /\ untested' = (untested \/ "code" \in wrote)
                      /\ unread' = IF stage = "review" /\ passed THEN "code" \in wrote ELSE unread \/ "code" \in wrote
                    BY <1>2 DEF Enforce
                <5>3. ~ untested => ~ untested'
                    BY <5>1, <5>2, Zenon
                <5>4. (stage = "review" /\ passed => ~ unread') /\ (~ unread => ~ unread')
                    BY <5>1, <5>2, Zenon
                <5> QED BY <4>1, <5>3, <5>4
            <4> QED BY <4>2, <4>3
        <3>4. flow \in Flows /\ at \in 1..Len(flow) /\ Len(flow) \in 1..11
            BY <3>1, Here
        <3>5. Past("test") => stage \notin {"build", "fix"}
            <4>1. ASSUME NEW i \in 1..(at - 1), flow[i] = "test"
                  PROVE  flow[at] \in {"review", "retest", "commit", "changes", "document"}
                <5>1. i \in 1..Len(flow) /\ i < at
                    BY <3>4
                <5> QED BY <3>4, <4>1, <5>1, FlowOrder
            <4> QED BY <3>1, <4>1 DEF Past, Placed
        <3>6. Past("review") => stage \notin {"build", "fix", "revise"}
            <4>1. ASSUME NEW i \in 1..(at - 1), flow[i] = "review"
                  PROVE  flow[at] \in {"retest", "commit", "changes", "document"}
                <5>1. i \in 1..Len(flow) /\ i < at
                    BY <3>4
                <5> QED BY <3>4, <4>1, <5>1, FlowOrder
            <4> QED BY <3>1, <4>1 DEF Past, Placed
        <3>7. stage \notin {"test", "retest"}
            BY <3>1 DEF AgentStage
        <3>8. Past("test") => ~ untested \/ (stage = "review" /\ stale) \/ stage = "revise"
            BY <2>1, <3>1, <3>7 DEF Verdicts
        <3>9. Past("review") => ~ unread
            BY <2>1, <3>1 DEF Verdicts
        <3> QED BY <1>0, <2>1, <3>3, <3>5, <3>6, <3>7, <3>8, <3>9 DEF Verdicts
    <2>2. CASE pc' = "finalize" \/ hid
        BY <1>0, <2>2 DEF Verdicts
    <2> QED BY <1>2, <2>1, <2>2, EnforceIs
<1>3. CASE CommitAll \/ Capture \/ Request
    <2>1. /\ UNCHANGED <<untested, unread>> /\ pc = "code" /\ stage \in {"commit", "changes", "request"}
        BY <1>3 DEF CommitAll, Capture, Request, history
    <2>2. CASE hid
        BY <1>0, <2>2 DEF Verdicts
    <2>3. CASE ~ hid
        <3>1. (Past("test") => ~ untested) /\ (Past("review") => ~ unread)
            BY <2>1, <2>3 DEF Verdicts
        <3> QED BY <1>0, <2>1, <3>1 DEF Verdicts
    <2> QED BY <2>2, <2>3
<1>4. CASE RunQuality
    <2>1. /\ pc = "code" /\ pc' = "over" /\ stage \in {"test", "retest", "quality"} /\ passed' \in BOOLEAN
          /\ unread' = unread /\ (passed' => ~ untested') /\ (~ untested => ~ untested')
        <3>1. untested' = (untested /\ ~ passed') /\ passed' \in BOOLEAN
            BY <1>4 DEF RunQuality
        <3>2. (passed' => ~ untested') /\ (~ untested => ~ untested')
            BY <3>1, Zenon
        <3> QED BY <1>4, <3>1, <3>2 DEF RunQuality, Earn
    <2>2. CASE hid
        BY <1>0, <2>2 DEF Verdicts
    <2>3. CASE ~ hid
        <3>1. (Past("test") => ~ untested \/ stage = "retest") /\ (Past("review") => ~ unread)
            BY <2>1, <2>3 DEF Verdicts
        <3> QED BY <1>0, <2>1, <3>1 DEF Verdicts
    <2> QED BY <2>2, <2>3
<1> QED BY <1>1, <1>2, <1>3, <1>4, WithinIs

\* What the script goes on to after a phase.
LEMMA VerdictsAdvance ==
    ASSUME IInv, Advance
    PROVE  Verdicts'
<1> USE DEF IInv, Live, Settling
<1>1. UNCHANGED <<untested, unread, hid>> /\ pc = "over"
    BY DEF Advance
<1>2. flow \in Flows /\ at \in 1..Len(flow) /\ Len(flow) \in 1..11
    BY <1>1, Here
<1>3. CASE hid
    BY <1>1, <1>3 DEF Verdicts
<1>4. CASE ~ hid /\ Stays
    <2>1. Past("test")' = Past("test") /\ Past("review")' = Past("review")
        BY <1>4 DEF Stays, Past
    <2>2. Past("review") => ~ unread
        BY <1>1, <1>4 DEF Verdicts
    <2>3. stage \in {"test", "fix"} /\ Past("test") => ~ untested
        BY <1>1, <1>4 DEF Verdicts
    <2>4. \/ stage \in {"test", "fix"}
          \/ stage' = "revise"
          \/ stage' = "review" /\ stale'
        BY <1>4 DEF Stays
    <2>5. pc' = "between"
        BY <1>4 DEF Stays
    <2> QED BY <1>1, <2>1, <2>2, <2>3, <2>4, <2>5 DEF Verdicts
<1>5. CASE Ends
    BY <1>5 DEF Ends, Verdicts
<1>6. CASE ~ hid /\ GoesOn
    <2>1. stage = flow[at] /\ stage # "revise" /\ pc' = "between" /\ flow' = flow
        BY <1>1, <1>6 DEF GoesOn, Placed
    <2>2. at \in 1..11 /\ (at' = at + 1 \/ (at' = at + 2 /\ flow[at + 1] = "retest"))
        BY <1>2, <1>6 DEF GoesOn, Types
    <2>3. \A i \in 1..(at' - 1) : i \in 1..(at - 1) \/ i = at \/ (i = at + 1 /\ flow[i] = "retest")
        <3>1. CASE at' = at + 1
            <4>1. at' - 1 = at
                BY <2>2, <3>1
            <4>2. \A i \in 1..at : i \in 1..(at - 1) \/ i = at
                BY <2>2
            <4> QED BY <4>1, <4>2
        <3>2. CASE at' = at + 2 /\ flow[at + 1] = "retest"
            <4>1. at' - 1 = at + 1
                BY <2>2, <3>2
            <4>2. \A i \in 1..(at + 1) : i \in 1..(at - 1) \/ i = at \/ i = at + 1
                BY <2>2
            <4> QED BY <3>2, <4>1, <4>2
        <3> QED BY <2>2, <3>1, <3>2
    <2>4. /\ Past("test")' => Past("test") \/ flow[at] = "test"
          /\ Past("review")' => Past("review") \/ flow[at] = "review"
        BY <2>1, <2>3 DEF Past
    <2>5. Past("review")' => ~ unread
        <3>1. stage = "review" => ~ unread
            BY <1>1, <1>6 DEF GoesOn, Verdicts
        <3>2. Past("review") => ~ unread
            BY <1>1, <1>6 DEF Verdicts
        <3> QED BY <2>1, <2>4, <3>1, <3>2
    <2>6. Past("test")' => ~ untested \/ stage' = "retest"
        <3>1. stage = "test" => ~ untested
            BY <1>1, <1>6 DEF GoesOn, Verdicts
        <3>2. Past("test") => ~ untested \/ (stage = "review" /\ stale)
            BY <1>1, <1>6, <2>1 DEF GoesOn, Verdicts
        <3>3. ASSUME Past("test"), stage = "review", stale
              PROVE  stage' = "retest"
            <4>1. PICK i \in 1..(at - 1) : flow[i] = "test"
                BY <3>3 DEF Past
            <4>2. i \in 1..Len(flow) /\ i < at
                BY <1>2
            <4>3. flow[i] = "test" /\ flow[at] = "review" => at + 1 <= Len(flow) /\ flow[at + 1] = "retest"
                BY <1>2, <4>2, FlowOrder
            <4>4. at' = at + 1
                BY <1>6, <3>3 DEF GoesOn
            <4> QED BY <1>6, <2>1, <3>3, <4>1, <4>3, <4>4 DEF GoesOn
        <3> QED BY <2>1, <2>4, <3>1, <3>2, <3>3
    <2> QED BY <1>1, <2>1, <2>5, <2>6 DEF Verdicts
<1> QED BY <1>3, <1>4, <1>5, <1>6, AdvanceIs

\* The verdicts hold for the code a phase meets, after every step.
LEMMA VerdictsStep ==
    ASSUME IInv, [Next]_vars
    PROVE  Verdicts'
<1> USE DEF IInv, Live, Settling
<1>1. CASE Ensure
    <2>1. at' = 1 /\ stage' = "request"
        BY <1>1 DEF Ensure
    <2>2. ~ Past("test")' /\ ~ Past("review")'
        BY <2>1 DEF Past
    <2> QED BY <2>1, <2>2 DEF Verdicts
<1>2. CASE Settles \/ Stopped
    <2>1. pc' \in {"closing", "finishing", "banner", "off", "finalize"}
        BY <1>2, SettlesIs, StoppedIs
    <2> QED BY <2>1 DEF Verdicts
<1>3. CASE Around \/ UNCHANGED vars
    <2>1. UNCHANGED <<pc, flow, at, stage, passed, stale, untested, unread>> /\ (hid' = hid \/ hid')
        <3>1. CASE Around
            <4>1. hid' = hid \/ hid'
                BY <3>1 DEF Around, AgentWrites, OperatorWrites, OrphanWrites, Write, Meddle, AgentStages, AgentReverts,
                   OrphanEnds, AgentCommits, history
            <4> QED BY <3>1, <4>1, AroundKeeps DEF flowing
        <3> QED BY <1>3, <3>1 DEF vars, flowing, history
    <2>2. Past("test")' = Past("test") /\ Past("review")' = Past("review")
        BY <2>1 DEF Past
    <2> QED BY <2>1, <2>2 DEF Verdicts
<1> QED BY <1>1, <1>2, <1>3, VerdictsWithin, VerdictsAdvance, Kinds

\* A commit meets what its workflow's suite and reviewer have passed.
LEMMA CommitVerified ==
    ASSUME IInv, [Next]_vars, stage = "commit", pc = "code", pc' = "over", ~ hid
    PROVE  (Preceded("test") => ~ untested) /\ (Preceded("review") => ~ unread)
<1> USE DEF IInv
<1>1. flow \in Flows /\ at \in 1..Len(flow) /\ Len(flow) \in 1..11 /\ flow[at] = "commit"
    BY Here DEF Placed, Live
<1>2. \A i \in 1..at : i \in 1..(at - 1) \/ i = at
    BY <1>1
<1>3. (Preceded("test") => Past("test")) /\ (Preceded("review") => Past("review"))
    BY <1>1, <1>2 DEF Preceded, Past
<1> QED BY <1>3 DEF Verdicts, Live

-----------------------------------------------------------------------------
(* The theorems.                                                           *)

\* Nothing runs and nothing is written.
LEMMA Starts == Init => IInv
<1> SUFFICES ASSUME Init PROVE IInv
    OBVIOUS
<1> USE DEF Live, Settling, Agents
<1>1. MaxFixLoops \in Nat \ {0} /\ Runs \in Nat /\ MaxJson \in Nat /\ Retries \in Nat /\ MaxEvents \in Nat
    BY FactoryAssumption
<1>2. Types
    <2>1. row \in Rows
        BY DEF Init, NoRow, Rows, Statuses
    <2>2. tries \in [json : 0..MaxJson, gate : 0..(Retries + 1)] /\ round \in 1..MaxFixLoops
        BY <1>1 DEF Init
    <2>3. /\ work \in [File -> SUBSET Who] /\ index \in [File -> SUBSET Who]
          /\ \A f \in File : index[f] \subseteq work[f]
        BY DEF Init
    <2>4. runs \in 0..Runs /\ events \in 0..MaxEvents /\ at \in 1..11 /\ stage \in CodeStage
        BY <1>1 DEF Init, CodeStage
    <2>5. flow \in Flows \cup {<<>>} /\ pc \in {"off"} \cup Live \cup Settling /\ exit \in {0, 1}
        BY DEF Init
    <2>6. /\ passed \in BOOLEAN /\ stale \in BOOLEAN /\ accepted \in BOOLEAN /\ child \in BOOLEAN /\ orphan \in BOOLEAN
          /\ untested \in BOOLEAN /\ unread \in BOOLEAN /\ hid \in BOOLEAN /\ cut \in BOOLEAN
          /\ before = {} /\ changed = {} /\ wrote = {} /\ begun = {} /\ gone = {} /\ total = {} /\ paid = {}
        BY DEF Init
    <2> QED BY <2>1, <2>2, <2>3, <2>4, <2>5, <2>6 DEF Types
<1>3. pc = "off" /\ child = FALSE /\ begun = {} /\ runs = 0 /\ row.status = "none"
    BY DEF Init, NoRow
<1>4. Placed /\ Repairing /\ Anew /\ Watched /\ Guarded /\ Told /\ Verdicts
    BY <1>3 DEF Placed, Repairing, Anew, Watched, Guarded, Told, Verdicts
<1>5. BoundaryHeld /\ OperatorWorkKept /\ SessionTells
    BY <1>3 DEF BoundaryHeld, OperatorWorkKept, SessionTells
<1> QED BY <1>2, <1>4, <1>5 DEF IInv

\* Every step keeps the invariant.
LEMMA Steps == IInv /\ [Next]_vars => IInv'
<1> SUFFICES ASSUME IInv, [Next]_vars PROVE IInv'
    OBVIOUS
<1>1. Types' /\ Placed' /\ Repairing' /\ Anew' /\ Watched' /\ Guarded' /\ Told' /\ Verdicts'
    BY TypesStep, PlacedStep, RepairingStep, AnewStep, WatchedStep, GuardedStep, ToldStep, VerdictsStep
<1>2. BoundaryHeld' /\ OperatorWorkKept' /\ SessionTells'
    BY BoundaryHeldStep, OperatorWorkStep, SessionTellsStep
<1> QED BY <1>1, <1>2 DEF IInv

\* The invariant contains the type invariant, with the bounds on the repairs.
LEMMA IInvTypes == IInv => TypeOK
<1> SUFFICES ASSUME IInv PROVE TypeOK
    OBVIOUS
<1>1. tries.json \in 0..MaxJson /\ tries.gate \in 0..Retries + 1
    BY DEF IInv, Types
<1>2. tries.gate > Retries => pc \notin {"send", "turn", "enforce"}
    BY <1>1, FactoryAssumption DEF IInv, Repairing, Agents
<1>3. {row.status, row.phase} \subseteq {"none", "running", "success", "fail"} /\ row.total \subseteq 1..Runs
    BY DEF IInv, Types, Rows, Statuses
<1> QED BY <1>1, <1>2, <1>3 DEF IInv, Types, Placed, TypeOK

\* The invariant holds in every state the factory reaches.
THEOREM Invariance == Spec => []IInv
BY Starts, Steps, PTL DEF Spec

\* Every phase stays within its repairs and every loop within its rounds; a
\* child is alive only while its turn is read.
THEOREM Typing == Spec => []TypeOK
BY Invariance, IInvTypes, PTL

\* An agent's phase succeeds only if all the agent changed and left changed is
\* within its write list, however often its replies were sent back to it.
THEOREM WriteListsHold == Spec => []BoundaryHeld
<1>1. IInv => BoundaryHeld
    BY DEF IInv
<1> QED BY <1>1, Invariance, PTL

\* The factory's own cleanup takes no work of the operator's.
THEOREM OperatorKeepsWork == Spec => []OperatorWorkKept
<1>1. IInv => OperatorWorkKept
    BY DEF IInv
<1> QED BY <1>1, Invariance, PTL

\* The trace tells how a run ended and what its session spent.
THEOREM TraceTells == Spec => []SessionTells
<1>1. IInv => SessionTells
    BY DEF IInv
<1> QED BY <1>1, Invariance, PTL

\* A commit takes no code the workflow's suite and reviewer have not passed.
THEOREM CommitsAreVerified == Spec => CommitsVerified
<1>1. IInv /\ [Next]_vars =>
        [stage = "commit" /\ pc = "code" /\ pc' = "over" /\ ~hid =>
             /\ Preceded("test") => ~untested
             /\ Preceded("review") => ~unread]_vars
    BY CommitVerified
<1> QED BY <1>1, Invariance, PTL DEF Spec, CommitsVerified
=============================================================================
