--------------------------- MODULE DeliveryProofs ---------------------------
(***************************************************************************)
(* Proofs about Delivery, for any number of criteria, threads, rounds,     *)
(* attempts, starts of the runner and events out of turn.                  *)
(***************************************************************************)
EXTENDS Delivery, SequenceTheorems, WellFoundedInduction, TLAPS

-----------------------------------------------------------------------------
(* The inductive invariant.                                                *)

Revising == {"revise", "agree", "commit", "committed", "push", "pushed", "answer", "request"}
Merging == {"pull", "merge", "confirm", "update", "resolve", "merged", "recorded", "republish", "rerequest"}

\* Where the runner is fits the stage; memory and disk agree.
Placed ==
    /\ d = disk
    /\ d.todo => d.stage = "built"
    /\ pc \notin {"off", "building"} => ~ d.todo
    /\ pc = "building" => d.stage = "built"
    /\ pc = "open" => d.stage = "accepted"
    /\ pc \in Reading => d.stage \in {"reviewing", "revising"}
    /\ pc \in Revising => d.stage = "revising"
    /\ pc \in Merging => d.stage = "merging"
    /\ pc \in {"watch", "dispatched"} => d.stage = "deploying"
    /\ pc \in {"verify", "check"} => d.stage = "verifying"

\* The accepted commits are not an agent's, and the branch ends with the last of
\* them, but for a commit the runner is about to save or a death left behind.
Branch ==
    /\ 1 <= d.last /\ d.last <= Tip /\ d.head <= d.last
    /\ \A i \in 1..d.last : made[i].by # "agent"
    /\ pc \notin {"off", "committed", "merged"} => Tip = d.last
    /\ pc = "committed" => Tip = d.last + 1 /\ made[Tip].by = "runner"
    /\ pc = "merged" => Tip = d.last + 1 /\ made[Tip].by = "update"
    /\ d.stage \in {"reviewing", "revising"} \/ pc \in {"republish", "rerequest"} => d.head = d.last

\* GitHub has accepted commits only, and every commit a thread was told of.
Published ==
    /\ hub.head \in Nat => hub.head <= d.last /\ \A t \in Threads : answered[t] <= hub.head
    /\ pc \in (Revising \ {"push", "request"}) \cup Reading /\ hub.head \in Nat => d.head <= hub.head

\* A round is begun only while one is left.
Rounds ==
    /\ pc \in Revising \/ d.pending # {} => d.round < MaxReviewRounds
    /\ pc = "agree" => work.left \subseteq Threads

\* A poll that has found nothing so far has met nothing out of order.
Polled == pc \in Reading \ {"poll"} /\ work.found = {} /\ ~ work.wait => work.sound

\* A head whose review had passed, and merges of the base branch up to last.
Reviewed(head, last) == \E h \in cleared : h <= head /\ \A i \in h + 1..last : made[i].by = "update"

\* What is being merged, and what was merged, had been reviewed.
Gated ==
    /\ d.stage = "merging" => Reviewed(d.head, d.last)
    /\ d.gates["merge"] = "pass" => hub.pull = "merged" /\ hub.merged \in Nat /\ hub.merged <= d.last
                                    /\ Reviewed(hub.merged, hub.merged)
    /\ pc = "confirm" => hub.pull = "merged" /\ hub.merged = d.head

\* Verdicts are what the files on disk say.
Judged ==
    /\ \A c \in DevCriteria : d.checks[c] = "none" <=> file[c] = "none"
    /\ \A c \in DevCriteria : d.checks[c] = "pass" => file[c] = "green" \/ c \in slipped
    /\ d.stage \notin {"built", "dev_checks"} => \A c \in DevCriteria : d.checks[c] # "none"
    /\ d.gates["criteria_tests"] = "pass" => d.stage # "built" /\ \A c \in TestCriteria : d.judged[c] = "met"
    /\ d.gates["criteria_dev"] = "pass" => d.stage = "done" /\ \A c \in DevCriteria : d.checks[c] = "pass"

\* The check that is being run is as it was hashed, or it slipped.
Checking ==
    /\ pc # "check" => work.now = {}
    /\ \A c \in work.now : file[c] = "edited" => c \in slipped

Success == [has |-> TRUE, state |-> "success"]

\* A deployment that succeeded stays: a run that ends reports on its own.
Deploying ==
    /\ live.run = "running" => live.deployments # <<>> /\ live.deployments[1].state = "busy"
    /\ d.gates["deploy"] = "pass" => \E i \in DOMAIN live.deployments : live.deployments[i] = Success

IInv ==
    TypeOK /\ Placed /\ Branch /\ Published /\ Rounds /\ Polled /\ Gated /\ Judged /\ Checking /\ Deploying
        /\ IssueTellsTruth

-----------------------------------------------------------------------------
(* The data.                                                               *)

\* What is known of a Delivery.
LEMMA DeliveryIs ==
    ASSUME NEW e \in DeliveryType
    PROVE  /\ e.stage \in Stage /\ e.failed \in Gate \cup {"none"} /\ e.gates \in [Gate -> {"none", "pass", "fail"}]
           /\ e.judged \in [TestCriteria -> {"none", "met", "unmet"}]
           /\ e.checks \in [DevCriteria -> {"none", "red", "pass", "fail"}]
           /\ e.around \in 0..MaxAcceptanceRounds /\ e.todo \in BOOLEAN /\ e.head \in Nat /\ e.last \in Nat
           /\ e.round \in 0..MaxReviewRounds /\ e.attempts \in 0..MaxMergeAttempts /\ e.stale \in BOOLEAN
           /\ e.pending \subseteq Threads /\ e.handled \subseteq Threads
           /\ e.dispatched \in BOOLEAN /\ e.closedOut \in BOOLEAN
BY DEF DeliveryType

\* A stage with a gate has one of the gates.
LEMMA GateIs == ASSUME NEW s \in Stage \ {"done"} PROVE StageGate[s] \in Gate
BY DEF Stage, Gate, StageGate

\* The branch: what is known of its commits.
LEMMA BranchIs ==
    ASSUME TypeOK
    PROVE  /\ Tip \in Nat /\ DOMAIN made = 1..Tip
           /\ \A i \in 1..Tip : made[i] \in [by : Author, base : Nat] /\ made[i].by \in Author /\ made[i].base \in Nat
<1>1. made \in Seq([by : Author, base : Nat])
    BY DEF TypeOK
<1>2. Len(made) \in Nat /\ DOMAIN made = 1..Len(made) /\ \A i \in 1..Len(made) : made[i] \in [by : Author, base : Nat]
    BY <1>1, LenProperties
<1> QED BY <1>2 DEF Tip

\* A nonempty set of numbers has a least one.
LEMMA MinIs ==
    ASSUME NEW S \in SUBSET Nat, S # {}
    PROVE  Min(S) \in S
<1>1. PICK m \in S : \A y \in S : ~ (<<y, m>> \in OpToRel(<, Nat))
    BY NatLessThanWellFounded, WFMin
<1>2. \A y \in S : m <= y
    <2>1. SUFFICES ASSUME NEW y \in S, ~ (m <= y) PROVE FALSE
        OBVIOUS
    <2>2. y < m /\ y \in Nat /\ m \in Nat
        BY <2>1
    <2>3. <<y, m>> \in OpToRel(<, Nat)
        BY <2>2 DEF OpToRel
    <2> QED BY <1>1, <2>3
<1> QED BY <1>2 DEF Min

\* What is closed out is as it was; a gate that has failed lets nothing be closed.
LEMMA CloseOutIs ==
    ASSUME NEW e \in DeliveryType, CloseOut(e)
    PROVE  /\ disk' = d'
           /\ \/ d' = e /\ issue' \in {issue, [issue EXCEPT !.ticked = @ \cup Passed(e)]}
              \/ /\ \A g \in Gate : e.gates[g] = "pass"
                 /\ d' = [e EXCEPT !.closedOut = TRUE]
                 /\ issue' = [ticked |-> issue.ticked \cup Passed(e), closed |-> TRUE]
BY DEF CloseOut, Save

\* A handler that fails: the stage stays, its gate does not pass, nothing is closed.
LEMMA FailIs ==
    ASSUME NEW e \in DeliveryType, e.stage # "done", FailWith(e)
    PROVE  /\ pc' = "off" /\ work' = Idle /\ disk' = d' /\ d' \in DeliveryType
           /\ d' = [e EXCEPT !.gates = d'.gates, !.failed = d'.failed]
           /\ \A g \in Gate : d'.gates[g] \in {e.gates[g], "fail"}
           /\ issue' \in {issue, [issue EXCEPT !.ticked = @ \cup Passed(d')]}
<1> DEFINE gate == StageGate[e.stage]
           failed == [e EXCEPT !.gates[gate] = "fail", !.failed = gate]
<1>1. CloseOut(failed) /\ pc' = "off" /\ work' = Idle
    BY DEF FailWith
<1>2. gate \in Gate
    BY DeliveryIs, GateIs
<1>3. /\ failed \in DeliveryType /\ failed.gates = [e.gates EXCEPT ![gate] = "fail"] /\ failed.failed = gate
      /\ failed = [e EXCEPT !.gates = failed.gates, !.failed = failed.failed]
    BY <1>2 DEF DeliveryType
<1>4. failed.gates[gate] = "fail" /\ \A g \in Gate : failed.gates[g] \in {e.gates[g], "fail"}
    BY <1>2, <1>3, DeliveryIs
<1> HIDE DEF failed
<1>5. disk' = d' /\ d' = failed /\ issue' \in {issue, [issue EXCEPT !.ticked = @ \cup Passed(failed)]}
    BY <1>1, <1>2, <1>3, <1>4, CloseOutIs
<1> QED BY <1>1, <1>3, <1>4, <1>5

-----------------------------------------------------------------------------
(* The steps.                                                              *)

\* Steps that ask GitHub about the review, and that hash a check.
Reads == ReadHead \/ ReadChecks \/ ReadReviews
FrozenChecks == \E c \in DevCriteria : FrozenCheck(c)

\* Steps that leave the Delivery as it is, in memory and on disk.
Calm ==
    \/ Publish \/ OpenPull \/ Reads \/ FrozenChecks \/ ResumeReplies \/ Edit \/ Revise \/ Agree
    \/ CommitFix \/ PushFix \/ MergeIn \/ FinishMerge \/ Republish \/ Follow \/ Dispatch \/ Verify \/ Others \/ Pause \/ Crash \/ UserResets
    \/ UNCHANGED vars

\* Handlers that fail.
Failing == Fails \/ ReviserFails \/ ResolverFails \/ (MergePull /\ Fail) \/ (Verified /\ Fail)

\* The outcomes of _built, for a verdict of the acceptor.
Accept(verdict) ==
    /\ pc = "loop" /\ d.stage = "built" /\ UNCHANGED <<git, github, file, issue, history, bounds>>
    /\ \A c \in TestCriteria : verdict[c] = "met"
    /\ Return([d EXCEPT !.judged = verdict, !.gates["criteria_tests"] = "pass", !.stage = "dev_checks"])
Extend(verdict) ==
    /\ pc = "loop" /\ d.stage = "built" /\ UNCHANGED <<work, git, github, file, issue, history, bounds>>
    /\ d.around < MaxAcceptanceRounds /\ pc' = "building"
    /\ Save([d EXCEPT !.judged = verdict, !.around = @ + 1, !.todo = TRUE])
Reject(verdict) ==
    /\ pc = "loop" /\ d.stage = "built" /\ UNCHANGED <<git, github, file, history, bounds>>
    /\ FailWith([d EXCEPT !.judged = verdict])

\* The checks have all passed in Dev.
Verifies ==
    /\ Verified /\ UNCHANGED issue /\ \A c \in DevCriteria : d.checks[c] = "pass"
    /\ Return([d EXCEPT !.gates["criteria_dev"] = "pass", !.stage = "done"])

\* Steps that save a Delivery the branch is no part of.
Saving ==
    \/ (\E c \in DevCriteria : WriteCheck(c)) \/ ChecksWritten \/ SyncPush \/ ReviewPasses \/ ReviewObjects
    \/ ReadFindings \/ ReadNothing \/ RecordPush \/ (\E t \in Threads : Answer(t)) \/ Answered \/ Requested \/ ReadPull
    \/ MergeRefused \/ Merged \/ Rereview \/ DeploymentSucceeds \/ RecordDispatch
    \/ (\E c \in DevCriteria : EditedCheck(c) \/ RunCheck(c)) \/ Start

\* Steps that take the branch's head.
Heading == BuildMore \/ Opened \/ RecordFix \/ RecordMerge \/ RecordHead

Verdict == [TestCriteria -> {"met", "unmet"}]

\* Every verdict of the acceptor is taken in one of three ways.
LEMMA JudgeIs ==
    ASSUME Judge
    PROVE  \E verdict \in Verdict : Accept(verdict) \/ Extend(verdict) \/ Reject(verdict)
BY DEF Judge, Accept, Extend, Reject, Verdict

\* Every step is one of these.
LEMMA Kinds ==
    ASSUME [Next]_vars
    PROVE  \/ Calm \/ Failing \/ (\E verdict \in Verdict : Accept(verdict) \/ Extend(verdict) \/ Reject(verdict))
           \/ Verifies \/ Saving \/ Heading \/ Close \/ (MergePull /\ UNCHANGED <<d, disk, work, issue>> /\ pc' = "confirm")
<1>1. CASE Judge
    BY <1>1, JudgeIs
<1>2. CASE MergePull
    BY <1>2 DEF MergePull, Failing
<1>3. CASE Verified
    BY <1>3 DEF Verified, Verifies, Failing
<1>4. CASE Step
    BY <1>1, <1>2, <1>3, <1>4 DEF Step, Calm, Reads, FrozenChecks, Failing, Saving, Heading
<1>5. CASE UNCHANGED vars
    BY <1>5 DEF Calm
<1> QED BY <1>4, <1>5 DEF Next, Calm, Saving

\* The environment leaves the runner and its branch alone.
LEMMA OthersIs ==
    ASSUME Others
    PROVE  UNCHANGED <<pc, d, disk, work, git, issue, cleared, answered, runs>>
BY DEF Others, ChecksStart, ChecksEnd, BotReviews, PersonReviews, BaseMoves, SomebodyPushes, SomebodyEnds, RunStarts, RunEnds,
   EditCheck, history, bounds

\* What a calm step leaves alone.
LEMMA CalmIs ==
    ASSUME d = disk, Calm
    PROVE  UNCHANGED <<d, disk, issue>>
<1>1. CASE Others
    BY <1>1, OthersIs
<1>2. CASE Publish \/ OpenPull \/ ResumeReplies \/ Edit \/ Revise \/ Agree \/ CommitFix \/ PushFix \/ MergeIn
           \/ FinishMerge \/ Republish \/ Follow \/ Dispatch \/ Verify
    BY <1>2 DEF Publish, OpenPull, ResumeReplies, Edit, Revise, Agree, CommitFix, PushFix, MergeIn, FinishMerge,
       Republish, Follow, Dispatch, Verify
<1>3. CASE Pause \/ Crash \/ UserResets \/ UNCHANGED vars
    BY <1>3 DEF Pause, Crash, UserResets, vars, Save
<1>4. CASE Reads \/ FrozenChecks
    BY <1>4 DEF Reads, ReadHead, ReadChecks, ReadReviews, FrozenChecks, FrozenCheck
<1> QED BY <1>1, <1>2, <1>3, <1>4 DEF Calm

\* Asking and hashing change what the runner knows, and nothing else.
LEMMA ReadsKeep ==
    ASSUME Reads \/ FrozenChecks
    PROVE  UNCHANGED <<d, disk, made, tree, hub, opinion, live, file, issue, cleared, answered, slipped, runs, events>>
BY DEF Reads, ReadHead, ReadChecks, ReadReviews, FrozenChecks, FrozenCheck, git, github, history, bounds

\* A failing handler.
LEMMA FailingIs ==
    ASSUME TypeOK, Placed, Failing
    PROVE  /\ pc' = "off" /\ work' = Idle /\ disk' = d' /\ d' \in DeliveryType
           /\ d' = [d EXCEPT !.gates = d'.gates, !.failed = d'.failed]
           /\ \A g \in Gate : d'.gates[g] \in {d.gates[g], "fail"}
           /\ issue' \in {issue, [issue EXCEPT !.ticked = @ \cup Passed(d')]}
<1>1. Fail
    BY DEF Failing, Fails, ReviserFails, ResolverFails
<1>2. d.stage # "done"
    BY DEF Failing, Fails, ReviserFails, ResolverFails, MergePull, Verified, Placed, Reading, Revising, Merging
<1> QED BY <1>1, <1>2, FailIs DEF Fail, TypeOK

\* A verdict that is refused fails the handler with the verdicts recorded.
LEMMA RejectIs ==
    ASSUME TypeOK, NEW verdict \in Verdict, Reject(verdict)
    PROVE  /\ pc' = "off" /\ work' = Idle /\ disk' = d' /\ d' \in DeliveryType
           /\ d' = [d EXCEPT !.judged = verdict, !.gates = d'.gates, !.failed = d'.failed]
           /\ \A g \in Gate : d'.gates[g] \in {d.gates[g], "fail"}
           /\ issue' \in {issue, [issue EXCEPT !.ticked = @ \cup Passed(d')]}
<1> DEFINE e == [d EXCEPT !.judged = verdict]
<1>1. d \in DeliveryType
    BY DEF TypeOK
<1>2. e \in DeliveryType /\ e.stage = d.stage /\ e.gates = d.gates
    BY <1>1 DEF DeliveryType, Verdict
<1>3. FailWith(e) /\ d.stage = "built"
    BY DEF Reject
<1>4. e = [d EXCEPT !.judged = verdict]
    OBVIOUS
<1> HIDE DEF e
<1>5. /\ pc' = "off" /\ work' = Idle /\ disk' = d' /\ d' \in DeliveryType
      /\ d' = [e EXCEPT !.gates = d'.gates, !.failed = d'.failed]
      /\ \A g \in Gate : d'.gates[g] \in {e.gates[g], "fail"}
      /\ issue' \in {issue, [issue EXCEPT !.ticked = @ \cup Passed(d')]}
    BY <1>2, <1>3, FailIs
<1>6. [e EXCEPT !.gates = d'.gates, !.failed = d'.failed] = [d EXCEPT !.judged = verdict, !.gates = d'.gates, !.failed = d'.failed]
    BY <1>4
<1>7. d' = [d EXCEPT !.judged = verdict, !.gates = d'.gates, !.failed = d'.failed]
    BY <1>5, <1>6
<1> QED BY <1>2, <1>5, <1>7

\* The Delivery stays one, and what is in memory is on disk.
LEMMA DeliveryStep ==
    ASSUME TypeOK, Placed, Branch, Rounds, [Next]_vars
    PROVE  d' \in DeliveryType /\ d' = disk'
<1>0. d \in DeliveryType /\ Tip \in Nat /\ d = disk /\ work.replies \subseteq Threads
    BY BranchIs DEF TypeOK, Placed
<1>1. CASE Calm
    BY <1>0, <1>1, CalmIs
<1>2. CASE Failing
    BY <1>2, FailingIs
<1>3. ASSUME NEW verdict \in Verdict, Accept(verdict) PROVE d' \in DeliveryType /\ d' = disk'
    <2>1. d' = [d EXCEPT !.judged = verdict, !.gates["criteria_tests"] = "pass", !.stage = "dev_checks"] /\ d' = disk'
        BY <1>3 DEF Accept, Return, Save
    <2> DEFINE gates == [d.gates EXCEPT !["criteria_tests"] = "pass"]
    <2>2. gates \in [Gate -> {"none", "pass", "fail"}] /\ verdict \in [TestCriteria -> {"none", "met", "unmet"}]
        BY <1>0, DeliveryIs DEF Verdict, Gate
    <2>3. d' = [d EXCEPT !.judged = verdict, !.gates = gates, !.stage = "dev_checks"]
        BY <1>0, <2>1 DEF DeliveryType
    <2> HIDE DEF gates
    <2>4. [d EXCEPT !.judged = verdict, !.gates = gates, !.stage = "dev_checks"] \in DeliveryType
        BY <1>0, <2>2 DEF DeliveryType, Stage
    <2> QED BY <2>1, <2>3, <2>4
<1>4. ASSUME NEW verdict \in Verdict, Extend(verdict) PROVE d' \in DeliveryType /\ d' = disk'
    <2>1. d' = [d EXCEPT !.judged = verdict, !.around = d.around + 1, !.todo = TRUE] /\ d' = disk'
        BY <1>0, <1>4 DEF Extend, Save, DeliveryType
    <2>2. d.around + 1 \in 0..MaxAcceptanceRounds
        BY <1>0, <1>4, DeliveryAssumption, DeliveryIs DEF Extend
    <2>3. verdict \in [TestCriteria -> {"none", "met", "unmet"}]
        BY DEF Verdict
    <2>4. ASSUME NEW n \in 0..MaxAcceptanceRounds
          PROVE  [d EXCEPT !.judged = verdict, !.around = n, !.todo = TRUE] \in DeliveryType
        BY <1>0, <2>3 DEF DeliveryType
    <2> QED BY <2>1, <2>2, <2>4
<1>5. ASSUME NEW verdict \in Verdict, Reject(verdict) PROVE d' \in DeliveryType /\ d' = disk'
    BY <1>5, RejectIs
<1>6. CASE Verifies
    BY <1>0, <1>6 DEF Verifies, Return, Save, DeliveryType, Stage
<1>7. CASE Saving
    <2>1. ASSUME NEW c \in DevCriteria, WriteCheck(c) \/ EditedCheck(c) \/ RunCheck(c) PROVE d' \in DeliveryType /\ d' = disk'
        BY <1>0, <2>1 DEF WriteCheck, EditedCheck, RunCheck, Save, DeliveryType
    <2>2. CASE ChecksWritten
        BY <1>0, <2>2 DEF ChecksWritten, Return, Save, DeliveryType, Stage
    <2>3. CASE ReviewObjects \/ ReadFindings \/ ReadNothing
        <3>1. d' \in {d, [d EXCEPT !.stage = "revising"], [d EXCEPT !.stage = "reviewing"]} /\ d' = disk'
            BY <1>0, <2>3 DEF ReviewObjects, ReadFindings, ReadNothing, Return, Save
        <3> QED BY <1>0, <3>1 DEF DeliveryType, Stage
    <2>4. CASE Merged
        BY <1>0, <2>4 DEF Merged, Return, Save, DeliveryType, Stage
    <2>5. CASE ReviewPasses
        BY <1>0, <2>5 DEF ReviewPasses, Return, Save, DeliveryType, Stage
    <2>6. CASE Rereview
        BY <1>0, <2>6 DEF Rereview, Return, Save, DeliveryType, Stage
    <2>7. CASE DeploymentSucceeds
        BY <1>0, <2>7 DEF DeploymentSucceeds, Return, Save, DeliveryType, Stage
    <2>8. CASE SyncPush
        <3>1. d' \in {d, [d EXCEPT !.stale = FALSE]} /\ d' = disk'
            BY <1>0, <2>8 DEF SyncPush, Save
        <3> QED BY <1>0, <3>1 DEF DeliveryType
    <2>9. CASE RecordPush
        <3>1. PICK stale \in BOOLEAN : d' = [d EXCEPT !.pending = {}, !.stale = stale] /\ d' = disk'
            BY <2>9 DEF RecordPush, Save
        <3>2. [d EXCEPT !.pending = {}, !.stale = stale] \in DeliveryType
            BY <1>0 DEF DeliveryType
        <3> QED BY <3>1, <3>2
    <2>10. CASE RecordDispatch
        BY <1>0, <2>10 DEF RecordDispatch, Save, DeliveryType
    <2>11. ASSUME NEW t \in Threads, Answer(t) PROVE d' \in DeliveryType /\ d' = disk'
        <3>1. d' \in {d, [d EXCEPT !.handled = d.handled \cup {t}]} /\ d' = disk'
            BY <1>0, <2>11 DEF Answer, Save, DeliveryType
        <3> QED BY <1>0, <3>1 DEF DeliveryType
    <2>12. CASE Answered \/ Requested
        <3>1. d.round + 1 \in 0..MaxReviewRounds
            BY <1>0, <2>12, DeliveryAssumption, DeliveryIs DEF Answered, Requested, Rounds, Revising
        <3>2. d' \in {d, [d EXCEPT !.pending = {}, !.round = d.round + 1, !.stage = "reviewing"]} /\ d' = disk'
            BY <1>0, <2>12 DEF Answered, Requested, Return, Save, DeliveryType
        <3>3. ASSUME NEW r \in 0..MaxReviewRounds PROVE [d EXCEPT !.pending = {}, !.round = r, !.stage = "reviewing"] \in DeliveryType
            BY <1>0 DEF DeliveryType, Stage
        <3> QED BY <1>0, <3>1, <3>2, <3>3
    <2>13. CASE ReadPull \/ MergeRefused
        <3>1. d' \in {d, [d EXCEPT !.attempts = d.attempts + 1]} /\ d' = disk' /\ (d' = d \/ d.attempts < MaxMergeAttempts)
            <4>1. [d EXCEPT !.attempts = @ + 1] = [d EXCEPT !.attempts = d.attempts + 1]
                BY <1>0 DEF DeliveryType
            <4> QED BY <1>0, <2>13, <4>1 DEF ReadPull, MergeRefused, Return, Save
        <3>2. d.attempts < MaxMergeAttempts => d.attempts + 1 \in 0..MaxMergeAttempts
            BY <1>0, DeliveryAssumption, DeliveryIs
        <3>3. ASSUME NEW n \in 0..MaxMergeAttempts PROVE [d EXCEPT !.attempts = n] \in DeliveryType
            BY <1>0 DEF DeliveryType
        <3> QED BY <1>0, <3>1, <3>2, <3>3
    <2>14. CASE Start
        <3> DEFINE gates == [g \in Gate |-> IF g = d.failed THEN "none" ELSE d.gates[g]]
        <3>1. d' = [d EXCEPT !.failed = "none", !.gates = gates] /\ d' = disk'
            BY <1>0, <2>14 DEF Start, Save, DeliveryType
        <3>2. gates \in [Gate -> {"none", "pass", "fail"}]
            BY <1>0, DeliveryIs
        <3> HIDE DEF gates
        <3>3. [d EXCEPT !.failed = "none", !.gates = gates] \in DeliveryType
            BY <1>0, <3>2 DEF DeliveryType
        <3> QED BY <3>1, <3>3
    <2> QED BY <1>7, <2>1, <2>2, <2>3, <2>4, <2>5, <2>6, <2>7, <2>8, <2>9, <2>10, <2>11, <2>12, <2>13, <2>14 DEF Saving
<1>8. CASE Heading
    <2>1. CASE BuildMore
        <3>1. d' = [d EXCEPT !.last = Tip + 1, !.todo = FALSE] /\ d' = disk' /\ Tip + 1 \in Nat
            BY <1>0, <2>1 DEF BuildMore, Return, Save
        <3>2. ASSUME NEW n \in Nat PROVE [d EXCEPT !.last = n, !.todo = FALSE] \in DeliveryType
            BY <1>0 DEF DeliveryType
        <3> QED BY <3>1, <3>2
    <2>2. CASE Opened
        BY <1>0, <2>2 DEF Opened, Return, Save, DeliveryType, Stage
    <2>3. CASE RecordFix
        BY <1>0, <2>3 DEF RecordFix, Save, DeliveryType
    <2>4. CASE RecordMerge \/ RecordHead
        BY <1>0, <2>4 DEF RecordMerge, RecordHead, Save, DeliveryType
    <2> QED BY <1>8, <2>1, <2>2, <2>3, <2>4 DEF Heading
<1>9. CASE Close
    <2>1. CloseOut(d)
        BY <1>9 DEF Close
    <2>2. d' \in {d, [d EXCEPT !.closedOut = TRUE]} /\ d' = disk'
        BY <1>0, <2>1, CloseOutIs
    <2>3. [d EXCEPT !.closedOut = TRUE] \in DeliveryType
        BY <1>0 DEF DeliveryType
    <2> QED BY <1>0, <2>2, <2>3
<1> QED BY <1>0, <1>1, <1>2, <1>3, <1>4, <1>5, <1>6, <1>7, <1>8, <1>9, Kinds

-----------------------------------------------------------------------------
(* What the steps do to the fields of the Delivery the invariant is about.  *)

KeepsHead == d'.head = d.head /\ d'.last = d.last
KeepsStage == d'.stage = d.stage
KeepsGates == d'.gates = d.gates
KeepsVerdicts == d'.judged = d.judged /\ d'.checks = d.checks /\ d'.todo = d.todo
KeepsRounds == d'.round = d.round /\ d'.pending = d.pending

\* Handlers that fail touch gates only.
LEMMA FailingFields ==
    ASSUME TypeOK, Placed, Failing
    PROVE  /\ KeepsHead /\ KeepsStage /\ KeepsVerdicts /\ KeepsRounds
           /\ \A g \in Gate : d'.gates[g] \in {d.gates[g], "fail"}
<1>1. \E gates, failed : d' = [d EXCEPT !.gates = gates, !.failed = failed]
    BY FailingIs
<1>2. PICK gates, failed : d' = [d EXCEPT !.gates = gates, !.failed = failed]
    BY <1>1
<1>3. KeepsHead /\ KeepsStage /\ KeepsVerdicts /\ KeepsRounds
    BY <1>2 DEF TypeOK, DeliveryType, KeepsHead, KeepsStage, KeepsVerdicts, KeepsRounds
<1> QED BY <1>3, FailingIs

\* What a verdict of the acceptor makes of the Delivery.
LEMMA JudgeFields ==
    ASSUME TypeOK, Placed, NEW verdict \in Verdict
    PROVE  /\ Accept(verdict) => /\ KeepsHead /\ KeepsRounds /\ d'.stage = "dev_checks" /\ d'.judged = verdict
                                 /\ d'.checks = d.checks /\ d'.todo = d.todo
                                 /\ d'.gates = [d.gates EXCEPT !["criteria_tests"] = "pass"]
           /\ Extend(verdict) => /\ KeepsHead /\ KeepsRounds /\ KeepsStage /\ KeepsGates /\ d'.judged = verdict
                                 /\ d'.checks = d.checks
           /\ Reject(verdict) => /\ KeepsHead /\ KeepsRounds /\ KeepsStage /\ d'.judged = verdict
                                 /\ d'.checks = d.checks /\ d'.todo = d.todo /\ \A g \in Gate : d'.gates[g] \in {d.gates[g], "fail"}
<1> USE DEF KeepsHead, KeepsStage, KeepsGates, KeepsRounds
<1>0. d \in DeliveryType
    BY DEF TypeOK
<1>1. ASSUME Accept(verdict)
      PROVE  /\ KeepsHead /\ KeepsRounds /\ d'.stage = "dev_checks" /\ d'.judged = verdict
             /\ d'.checks = d.checks /\ d'.todo = d.todo /\ d'.gates = [d.gates EXCEPT !["criteria_tests"] = "pass"]
    <2>1. d' = [d EXCEPT !.judged = verdict, !.gates["criteria_tests"] = "pass", !.stage = "dev_checks"]
        BY <1>1 DEF Accept, Return, Save
    <2> QED BY <1>0, <2>1 DEF DeliveryType
<1>2. ASSUME Extend(verdict)
      PROVE  /\ KeepsHead /\ KeepsRounds /\ KeepsStage /\ KeepsGates /\ d'.judged = verdict /\ d'.checks = d.checks
    <2>1. d' = [d EXCEPT !.judged = verdict, !.around = d.around + 1, !.todo = TRUE]
        BY <1>0, <1>2 DEF Extend, Save, DeliveryType
    <2> QED BY <1>0, <2>1 DEF DeliveryType
<1>3. ASSUME Reject(verdict)
      PROVE  /\ KeepsHead /\ KeepsRounds /\ KeepsStage /\ d'.judged = verdict /\ d'.checks = d.checks /\ d'.todo = d.todo
    <2>1. \E gates, failed : d' = [d EXCEPT !.judged = verdict, !.gates = gates, !.failed = failed]
        BY <1>3, RejectIs
    <2>2. PICK gates, failed : d' = [d EXCEPT !.judged = verdict, !.gates = gates, !.failed = failed]
        BY <2>1
    <2> QED BY <1>0, <2>2 DEF DeliveryType
<1> QED BY <1>1, <1>2, <1>3, RejectIs

\* What writing or running a Dev check makes of the Delivery and the file.
LEMMA CheckFields ==
    ASSUME TypeOK, NEW c \in DevCriteria, WriteCheck(c) \/ EditedCheck(c) \/ RunCheck(c)
    PROVE  /\ KeepsHead /\ KeepsStage /\ KeepsGates /\ KeepsRounds /\ d'.judged = d.judged /\ d'.todo = d.todo
           /\ \E result \in {"red", "pass", "fail"} :
                /\ d'.checks = [d.checks EXCEPT ![c] = result]
                /\ WriteCheck(c) => result = "red" /\ file' = [file EXCEPT ![c] = "red"]
                /\ EditedCheck(c) => result = "fail" /\ file' = file
                /\ RunCheck(c) => /\ result \in {"pass", "fail"}
                                  /\ file' = [file EXCEPT ![c] = IF result = "pass" /\ @ = "red" THEN "green" ELSE @]
<1> USE DEF KeepsHead, KeepsStage, KeepsGates, KeepsRounds
<1>0. d \in DeliveryType
    BY DEF TypeOK
<1>1. ~ (WriteCheck(c) /\ RunCheck(c)) /\ ~ (WriteCheck(c) /\ EditedCheck(c)) /\ ~ (EditedCheck(c) /\ RunCheck(c))
    BY DEF WriteCheck, EditedCheck, RunCheck
<1>2. \E result \in {"red", "pass", "fail"} :
                /\ d' = [d EXCEPT !.checks[c] = result]
                /\ WriteCheck(c) => result = "red" /\ file' = [file EXCEPT ![c] = "red"]
                /\ EditedCheck(c) => result = "fail" /\ file' = file
                /\ RunCheck(c) => /\ result \in {"pass", "fail"}
                                  /\ file' = [file EXCEPT ![c] = IF result = "pass" /\ @ = "red" THEN "green" ELSE @]
    <2>1. CASE WriteCheck(c)
        BY <1>1, <2>1 DEF WriteCheck, Save
    <2>2. CASE RunCheck(c)
        BY <1>1, <2>2 DEF RunCheck, Save
    <2>3. CASE EditedCheck(c)
        BY <1>1, <2>3 DEF EditedCheck, Save
    <2> QED BY <2>1, <2>2, <2>3
<1>3. ASSUME NEW result, d' = [d EXCEPT !.checks[c] = result]
      PROVE  /\ KeepsHead /\ KeepsStage /\ KeepsGates /\ KeepsRounds /\ d'.judged = d.judged /\ d'.todo = d.todo
             /\ d'.checks = [d.checks EXCEPT ![c] = result]
    BY <1>0, <1>3 DEF DeliveryType
<1> QED BY <1>2, <1>3

\* What the saving handlers make of the Delivery, and what they keep.
LEMMA SavingFields ==
    ASSUME TypeOK, Placed
    PROVE  /\ (\E t \in Threads : Answer(t)) \/ RecordDispatch \/ SyncPush \/ RecordPush \/ ReadPull \/ MergeRefused
                => KeepsHead /\ KeepsStage /\ KeepsGates /\ KeepsVerdicts /\ d'.round = d.round /\ d'.pending \in {d.pending, {}}
           /\ ChecksWritten => KeepsHead /\ KeepsGates /\ KeepsVerdicts /\ KeepsRounds /\ d'.stage = "accepted"
           /\ ReviewObjects => KeepsHead /\ KeepsGates /\ KeepsVerdicts /\ KeepsRounds /\ d'.stage = "revising"
           /\ ReadFindings => /\ KeepsHead /\ KeepsGates /\ KeepsVerdicts /\ KeepsRounds
                              /\ d'.stage = "reviewing" \/ UNCHANGED d
           /\ ReadNothing => KeepsHead /\ KeepsGates /\ KeepsVerdicts /\ KeepsRounds /\ d'.stage = "reviewing"
           /\ Answered \/ Requested => /\ KeepsHead /\ KeepsGates /\ KeepsVerdicts
                                       /\ UNCHANGED d \/ (d'.stage = "reviewing" /\ d'.pending = {})
           /\ ReviewPasses => KeepsHead /\ KeepsVerdicts /\ KeepsRounds /\ d'.stage = "merging" /\ d'.gates = [d.gates EXCEPT !["review"] = "pass"]
           /\ Merged => KeepsHead /\ KeepsVerdicts /\ KeepsRounds /\ d'.stage = "deploying" /\ d'.gates = [d.gates EXCEPT !["merge"] = "pass"]
           /\ Rereview => KeepsHead /\ KeepsVerdicts /\ KeepsRounds /\ d'.stage = "reviewing" /\ d'.gates = [d.gates EXCEPT !["review"] = "none"]
           /\ DeploymentSucceeds => KeepsHead /\ KeepsVerdicts /\ KeepsRounds /\ d'.stage = "verifying" /\ d'.gates = [d.gates EXCEPT !["deploy"] = "pass"]
           /\ Verifies => KeepsHead /\ KeepsVerdicts /\ KeepsRounds /\ d'.stage = "done" /\ d'.gates = [d.gates EXCEPT !["criteria_dev"] = "pass"]
           /\ Start => KeepsHead /\ KeepsVerdicts /\ KeepsRounds /\ KeepsStage /\ \A g \in Gate : d'.gates[g] \in {d.gates[g], "none"}
           /\ Close => KeepsHead /\ KeepsVerdicts /\ KeepsRounds /\ KeepsStage /\ KeepsGates
<1> USE DEF KeepsHead, KeepsStage, KeepsGates, KeepsVerdicts, KeepsRounds
<1>0. d \in DeliveryType /\ d = disk
    BY DEF TypeOK, Placed
<1>1. ASSUME (\E t \in Threads : Answer(t)) \/ RecordDispatch \/ SyncPush \/ RecordPush \/ ReadPull \/ MergeRefused
      PROVE  KeepsHead /\ KeepsStage /\ KeepsGates /\ KeepsVerdicts /\ d'.round = d.round /\ d'.pending \in {d.pending, {}}
    <2>1. CASE \E t \in Threads : Answer(t)
        <3>1. PICK t \in Threads : d' \in {d, [d EXCEPT !.handled = @ \cup {t}]}
            BY <1>0, <2>1 DEF Answer, Save
        <3> QED BY <1>0, <3>1 DEF DeliveryType
    <2>2. CASE RecordDispatch \/ SyncPush
        <3>1. d' \in {d, [d EXCEPT !.dispatched = TRUE], [d EXCEPT !.stale = FALSE]}
            BY <1>0, <2>2 DEF RecordDispatch, SyncPush, Save
        <3> QED BY <1>0, <3>1 DEF DeliveryType
    <2>3. CASE RecordPush
        <3>1. PICK stale \in BOOLEAN : d' = [d EXCEPT !.pending = {}, !.stale = stale]
            BY <2>3 DEF RecordPush, Save
        <3> QED BY <1>0, <3>1 DEF DeliveryType
    <2>4. CASE ReadPull \/ MergeRefused
        <3>1. d' \in {d, [d EXCEPT !.attempts = @ + 1]}
            BY <2>4 DEF ReadPull, MergeRefused, Return, Save
        <3> QED BY <1>0, <3>1 DEF DeliveryType
    <2> QED BY <1>1, <2>1, <2>2, <2>3, <2>4
<1>2. ASSUME ChecksWritten PROVE KeepsHead /\ KeepsGates /\ KeepsVerdicts /\ KeepsRounds /\ d'.stage = "accepted"
    BY <1>0, <1>2 DEF ChecksWritten, Return, Save, DeliveryType
<1>3. ASSUME ReviewObjects PROVE KeepsHead /\ KeepsGates /\ KeepsVerdicts /\ KeepsRounds /\ d'.stage = "revising"
    BY <1>0, <1>3 DEF ReviewObjects, Return, Save, DeliveryType
<1>4. ASSUME ReadFindings PROVE KeepsHead /\ KeepsGates /\ KeepsVerdicts /\ KeepsRounds /\ (d'.stage = "reviewing" \/ UNCHANGED d)
    <2>1. d' \in {d, [d EXCEPT !.stage = "reviewing"]}
        BY <1>4 DEF ReadFindings, Return, Save
    <2> QED BY <1>0, <2>1 DEF DeliveryType
<1>5. ASSUME Answered \/ Requested
      PROVE  KeepsHead /\ KeepsGates /\ KeepsVerdicts /\ (UNCHANGED d \/ (d'.stage = "reviewing" /\ d'.pending = {}))
    <2>1. d' \in {d, [d EXCEPT !.pending = {}, !.round = @ + 1, !.stage = "reviewing"]}
        BY <1>5 DEF Answered, Requested, Return, Save
    <2> QED BY <1>0, <2>1 DEF DeliveryType
<1>6. ASSUME ReviewPasses
      PROVE  KeepsHead /\ KeepsVerdicts /\ KeepsRounds /\ d'.stage = "merging" /\ d'.gates = [d.gates EXCEPT !["review"] = "pass"]
    BY <1>0, <1>6 DEF ReviewPasses, Return, Save, DeliveryType
<1>7. ASSUME Merged
      PROVE  KeepsHead /\ KeepsVerdicts /\ KeepsRounds /\ d'.stage = "deploying" /\ d'.gates = [d.gates EXCEPT !["merge"] = "pass"]
    BY <1>0, <1>7 DEF Merged, Return, Save, DeliveryType
<1>8. ASSUME Rereview
      PROVE  KeepsHead /\ KeepsVerdicts /\ KeepsRounds /\ d'.stage = "reviewing" /\ d'.gates = [d.gates EXCEPT !["review"] = "none"]
    BY <1>0, <1>8 DEF Rereview, Return, Save, DeliveryType
<1>9. ASSUME DeploymentSucceeds
      PROVE  KeepsHead /\ KeepsVerdicts /\ KeepsRounds /\ d'.stage = "verifying" /\ d'.gates = [d.gates EXCEPT !["deploy"] = "pass"]
    BY <1>0, <1>9 DEF DeploymentSucceeds, Return, Save, DeliveryType
<1>10. ASSUME Verifies
      PROVE  KeepsHead /\ KeepsVerdicts /\ KeepsRounds /\ d'.stage = "done" /\ d'.gates = [d.gates EXCEPT !["criteria_dev"] = "pass"]
    BY <1>0, <1>10 DEF Verifies, Return, Save, DeliveryType
<1>11. ASSUME Start
       PROVE  KeepsHead /\ KeepsVerdicts /\ KeepsRounds /\ KeepsStage /\ \A g \in Gate : d'.gates[g] \in {d.gates[g], "none"}
    <2>1. d' = [d EXCEPT !.failed = "none", !.gates = [g \in Gate |-> IF g = d.failed THEN "none" ELSE d.gates[g]]]
        BY <1>0, <1>11 DEF Start, Save, DeliveryType
    <2>2. KeepsHead /\ KeepsVerdicts /\ KeepsRounds /\ KeepsStage /\ d'.gates = [g \in Gate |-> IF g = d.failed THEN "none" ELSE d.gates[g]]
        BY <1>0, <2>1 DEF DeliveryType
    <2> QED BY <2>2
<1>12. ASSUME Close PROVE KeepsHead /\ KeepsVerdicts /\ KeepsRounds /\ KeepsStage /\ KeepsGates
    <2>1. d' \in {d, [d EXCEPT !.closedOut = TRUE]}
        BY <1>0, <1>12, CloseOutIs DEF Close
    <2> QED BY <1>0, <2>1 DEF DeliveryType
<1>13. ASSUME ReadNothing PROVE KeepsHead /\ KeepsGates /\ KeepsVerdicts /\ KeepsRounds /\ d'.stage = "reviewing"
    BY <1>0, <1>13 DEF ReadNothing, Return, Save, DeliveryType
<1> QED BY <1>1, <1>2, <1>3, <1>4, <1>5, <1>6, <1>7, <1>8, <1>9, <1>10, <1>11, <1>12, <1>13

\* What the handlers that take the head make of the Delivery.
LEMMA HeadingFields ==
    ASSUME TypeOK
    PROVE  /\ BuildMore => /\ KeepsStage /\ KeepsGates /\ KeepsRounds /\ d'.head = d.head /\ d'.last = Tip + 1
                           /\ d'.judged = d.judged /\ d'.checks = d.checks /\ d'.todo = FALSE
           /\ Opened => KeepsGates /\ KeepsVerdicts /\ KeepsRounds /\ d'.stage = "reviewing" /\ d'.head = Tip /\ d'.last = d.last
           /\ RecordFix => /\ KeepsStage /\ KeepsGates /\ KeepsVerdicts /\ d'.head = Tip /\ d'.last = Tip
                           /\ d'.round = d.round
           /\ RecordMerge => KeepsStage /\ KeepsGates /\ KeepsVerdicts /\ KeepsRounds /\ d'.head = d.head /\ d'.last = Tip
           /\ RecordHead => KeepsStage /\ KeepsGates /\ KeepsVerdicts /\ KeepsRounds /\ d'.head = Tip /\ d'.last = d.last
<1> USE DEF KeepsStage, KeepsGates, KeepsVerdicts, KeepsRounds
<1>0. d \in DeliveryType
    BY DEF TypeOK
<1>1. ASSUME BuildMore
      PROVE  /\ KeepsStage /\ KeepsGates /\ KeepsRounds /\ d'.head = d.head /\ d'.last = Tip + 1
             /\ d'.judged = d.judged /\ d'.checks = d.checks /\ d'.todo = FALSE
    <2>1. d' = [d EXCEPT !.last = Tip + 1, !.todo = FALSE]
        BY <1>1 DEF BuildMore, Return, Save
    <2> QED BY <1>0, <2>1 DEF DeliveryType
<1>2. ASSUME Opened PROVE KeepsGates /\ KeepsVerdicts /\ KeepsRounds /\ d'.stage = "reviewing" /\ d'.head = Tip /\ d'.last = d.last
    BY <1>0, <1>2 DEF Opened, Return, Save, DeliveryType
<1>3. ASSUME RecordFix PROVE KeepsStage /\ KeepsGates /\ KeepsVerdicts /\ d'.head = Tip /\ d'.last = Tip /\ d'.round = d.round
    BY <1>0, <1>3 DEF RecordFix, Save, DeliveryType
<1>4. ASSUME RecordMerge PROVE KeepsStage /\ KeepsGates /\ KeepsVerdicts /\ KeepsRounds /\ d'.head = d.head /\ d'.last = Tip
    BY <1>0, <1>4 DEF RecordMerge, Save, DeliveryType
<1>5. ASSUME RecordHead PROVE KeepsStage /\ KeepsGates /\ KeepsVerdicts /\ KeepsRounds /\ d'.head = Tip /\ d'.last = d.last
    BY <1>0, <1>5 DEF RecordHead, Save, DeliveryType
<1> QED BY <1>1, <1>2, <1>3, <1>4, <1>5

-----------------------------------------------------------------------------
(* Where the runner goes.                                                  *)

\* What each step finds and leaves of the runner's place.
LEMMA Moves ==
    ASSUME d = disk
    PROVE  /\ Others \/ UserResets \/ UNCHANGED vars \/ OpenPull \/ Edit \/ (\E t \in Threads : Answer(t)) => pc' = pc
           /\ (\E c \in DevCriteria : WriteCheck(c) \/ EditedCheck(c)) => pc' = pc
           /\ (\E c \in DevCriteria : RunCheck(c)) => pc = "check" /\ pc' = "verify"
           /\ FrozenChecks => pc = "verify" /\ pc' = "check"
           /\ Reads => pc \in Reading /\ pc' \in Reading
           /\ ReadNothing => pc \in Reading /\ d.stage = "revising" /\ pc' = "loop"
           /\ Pause \/ Crash \/ Failing \/ Close \/ (\E verdict \in Verdict : Reject(verdict)) => pc' = "off"
           /\ Publish => pc = "loop" /\ d.stage = "accepted" /\ pc' = "open"
           /\ ResumeReplies => pc \in Reading /\ d.stage = "revising" /\ pc' = "answer"
           /\ Revise => pc = "revise" /\ pc' \in {"agree", "commit", "answer"}
           /\ Agree => pc = "agree" /\ pc' \in {"commit", "answer"}
           /\ CommitFix => pc = "commit" /\ pc' = "committed"
           /\ PushFix => pc = "push" /\ pc' = "pushed"
           /\ MergeIn => pc = "update" /\ pc' = "resolve"
           /\ FinishMerge => pc = "resolve" /\ pc' = "merged"
           /\ Republish => pc = "republish" /\ pc' = "rerequest"
           /\ Follow => pc = "loop" /\ d.stage = "deploying" /\ pc' = "watch"
           /\ Dispatch => pc = "watch" /\ pc' = "dispatched"
           /\ Verify => pc = "loop" /\ d.stage = "verifying" /\ pc' = "verify"
           /\ MergePull => pc = "merge"
           /\ (\E verdict \in Verdict : Extend(verdict)) => pc = "loop" /\ d.stage = "built" /\ pc' = "building"
           /\ (\E verdict \in Verdict : Accept(verdict)) => pc = "loop" /\ d.stage = "built" /\ pc' = "loop"
           /\ Verifies => pc = "verify" /\ pc' = "loop"
           /\ ChecksWritten => pc = "loop" /\ d.stage = "dev_checks" /\ pc' = "loop"
           /\ SyncPush => /\ pc = "loop" /\ d.stage \in {"reviewing", "revising", "merging"}
                          /\ d.stage = "reviewing" => pc' = "poll"
                          /\ d.stage = "revising" => pc' = "poll"
                          /\ d.stage = "merging" => pc' = "pull"
           /\ ReviewPasses \/ ReviewObjects => pc = "threads" /\ d.stage = "reviewing" /\ pc' = "loop"
           /\ ReadFindings => pc = "threads" /\ d.stage = "revising" /\ (pc' = "loop" \/ (pc' = "revise" /\ d' = d /\ d.round < MaxReviewRounds))
           /\ RecordPush => pc = "pushed" /\ pc' = "answer"
           /\ Answered => pc = "answer" /\ ((pc' = "request" /\ d' = d) \/ pc' = "loop")
           /\ Requested => pc = "request" /\ pc' = "loop"
           /\ ReadPull => pc = "pull" /\ pc' \in {"update", "merge"}
           /\ MergeRefused => pc = "merge" /\ pc' = "loop"
           /\ Merged => pc \in {"confirm", "pull"} /\ pc' = "loop"
           /\ Rereview => pc = "rerequest" /\ pc' = "loop"
           /\ DeploymentSucceeds => pc = "watch" /\ pc' = "loop"
           /\ RecordDispatch => pc = "dispatched" /\ pc' = "watch"
           /\ Start => pc = "off" /\ pc' \in {"building", "loop"} /\ (pc' = "building" => disk.todo)
           /\ BuildMore => pc = "building" /\ pc' = "loop"
           /\ Opened => pc = "open" /\ pc' = "loop"
           /\ RecordFix => pc = "committed" /\ pc' = "push"
           /\ RecordMerge => pc = "merged" /\ pc' = "recorded"
           /\ RecordHead => pc = "recorded" /\ pc' = "republish"
<1>1. /\ Others \/ UserResets \/ UNCHANGED vars \/ OpenPull \/ Edit \/ (\E t \in Threads : Answer(t)) => pc' = pc
      /\ (\E c \in DevCriteria : WriteCheck(c) \/ EditedCheck(c)) => pc' = pc
      /\ Pause \/ Crash \/ Close => pc' = "off"
    BY OthersIs DEF UserResets, vars, OpenPull, Edit, Answer, WriteCheck, EditedCheck, Pause, Crash, Close
<1>2. Failing \/ (\E verdict \in Verdict : Reject(verdict)) => pc' = "off"
    BY DEF Failing, Fails, ReviserFails, ResolverFails, Fail, FailWith, Reject
<1>3. SyncPush => /\ pc = "loop" /\ d.stage \in {"reviewing", "revising", "merging"}
                  /\ d.stage = "reviewing" => pc' = "poll"
                  /\ d.stage = "revising" => pc' = "poll"
                  /\ d.stage = "merging" => pc' = "pull"
    BY DEF SyncPush
<1>4. /\ Publish => pc = "loop" /\ d.stage = "accepted" /\ pc' = "open"
      /\ ResumeReplies => pc \in Reading /\ d.stage = "revising" /\ pc' = "answer"
      /\ Revise => pc = "revise" /\ pc' \in {"agree", "commit", "answer"}
      /\ Agree => pc = "agree" /\ pc' \in {"commit", "answer"}
      /\ CommitFix => pc = "commit" /\ pc' = "committed"
      /\ PushFix => pc = "push" /\ pc' = "pushed"
      /\ MergeIn => pc = "update" /\ pc' = "resolve"
      /\ FinishMerge => pc = "resolve" /\ pc' = "merged"
      /\ Republish => pc = "republish" /\ pc' = "rerequest"
    BY DEF Publish, ResumeReplies, Revise, Agree, CommitFix, PushFix, MergeIn, FinishMerge, Republish
<1>5. /\ Follow => pc = "loop" /\ d.stage = "deploying" /\ pc' = "watch"
      /\ Dispatch => pc = "watch" /\ pc' = "dispatched"
      /\ Verify => pc = "loop" /\ d.stage = "verifying" /\ pc' = "verify"
      /\ MergePull => pc = "merge"
      /\ (\E verdict \in Verdict : Extend(verdict)) => pc = "loop" /\ d.stage = "built" /\ pc' = "building"
      /\ (\E verdict \in Verdict : Accept(verdict)) => pc = "loop" /\ d.stage = "built" /\ pc' = "loop"
      /\ Verifies => pc = "verify" /\ pc' = "loop"
      /\ ChecksWritten => pc = "loop" /\ d.stage = "dev_checks" /\ pc' = "loop"
    BY DEF Follow, Dispatch, Verify, MergePull, Extend, Accept, Verifies, Verified, ChecksWritten, Return
<1>6. ReadFindings => pc = "threads" /\ d.stage = "revising" /\ (pc' = "loop" \/ (pc' = "revise" /\ d' = d /\ d.round < MaxReviewRounds))
    <2>1. ASSUME ReadFindings PROVE pc = "threads" /\ d.stage = "revising" /\ (pc' = "loop" \/ (pc' = "revise" /\ d' = d /\ d.round < MaxReviewRounds))
        <3>1. PICK found \in {Findings, {}} :
                 \/ found = {} /\ Return([d EXCEPT !.stage = "reviewing"])
                 \/ found # {} /\ d.round < MaxReviewRounds /\ pc' = "revise" /\ UNCHANGED <<d, disk>>
            BY <2>1, Zenon DEF ReadFindings
        <3>2. pc = "threads" /\ d.stage = "revising"
            BY <2>1 DEF ReadFindings
        <3>3. CASE Return([d EXCEPT !.stage = "reviewing"])
            BY <3>2, <3>3 DEF Return
        <3>4. CASE d.round < MaxReviewRounds /\ pc' = "revise" /\ UNCHANGED <<d, disk>>
            BY <3>2, <3>4
        <3> QED BY <3>1, <3>3, <3>4
    <2> QED BY <2>1
<1>7. /\ ReviewPasses \/ ReviewObjects => pc = "threads" /\ d.stage = "reviewing" /\ pc' = "loop"
      /\ RecordPush => pc = "pushed" /\ pc' = "answer"
      /\ Answered => pc = "answer" /\ ((pc' = "request" /\ d' = d) \/ pc' = "loop")
      /\ Requested => pc = "request" /\ pc' = "loop"
      /\ ReadPull => pc = "pull" /\ pc' \in {"update", "merge"}
      /\ MergeRefused => pc = "merge" /\ pc' = "loop"
    BY DEF ReviewPasses, ReviewObjects, ReadNothing, RecordPush, Answered, Requested, ReadPull, MergeRefused, Return
<1>8. /\ Merged => pc \in {"confirm", "pull"} /\ pc' = "loop"
      /\ Rereview => pc = "rerequest" /\ pc' = "loop"
      /\ DeploymentSucceeds => pc = "watch" /\ pc' = "loop"
      /\ RecordDispatch => pc = "dispatched" /\ pc' = "watch"
      /\ Start => pc = "off" /\ pc' \in {"building", "loop"} /\ (pc' = "building" => disk.todo)
      /\ BuildMore => pc = "building" /\ pc' = "loop"
      /\ Opened => pc = "open" /\ pc' = "loop"
      /\ RecordFix => pc = "committed" /\ pc' = "push"
      /\ RecordMerge => pc = "merged" /\ pc' = "recorded"
      /\ RecordHead => pc = "recorded" /\ pc' = "republish"
    BY DEF Merged, Rereview, DeploymentSucceeds, RecordDispatch, Start, BuildMore, Opened, RecordFix, RecordMerge,
       RecordHead, Return
<1>9. /\ (\E c \in DevCriteria : RunCheck(c)) => pc = "check" /\ pc' = "verify"
      /\ FrozenChecks => pc = "verify" /\ pc' = "check"
      /\ Reads => pc \in Reading /\ pc' \in Reading
      /\ ReadNothing => pc \in Reading /\ d.stage = "revising" /\ pc' = "loop"
    BY DEF RunCheck, FrozenChecks, FrozenCheck, Reads, ReadHead, ReadChecks, ReadReviews, Reading, ReadNothing, Return
<1> QED BY <1>1, <1>2, <1>3, <1>4, <1>5, <1>6, <1>7, <1>8, <1>9

\* The runner's place fits the stage.
LEMMA PlacedStep ==
    ASSUME TypeOK, Placed, Branch, Rounds, [Next]_vars
    PROVE  Placed'
<1>0. d' = disk' /\ d = disk
    BY DeliveryStep DEF Placed
<1> DEFINE Fits ==
        /\ d'.todo => d'.stage = "built"
        /\ pc' \notin {"off", "building"} => ~ d'.todo
        /\ pc' = "building" => d'.stage = "built"
        /\ pc' = "open" => d'.stage = "accepted"
        /\ pc' \in Reading => d'.stage \in {"reviewing", "revising"}
        /\ pc' \in Revising => d'.stage = "revising"
        /\ pc' \in Merging => d'.stage = "merging"
        /\ pc' \in {"watch", "dispatched"} => d'.stage = "deploying"
        /\ pc' \in {"verify", "check"} => d'.stage = "verifying"
<1> SUFFICES Fits
    BY <1>0 DEF Placed
<1>1. CASE Calm
    <2>1. d' = d
        BY <1>0, <1>1, CalmIs
    <2>2. CASE Others \/ UserResets \/ UNCHANGED vars \/ OpenPull \/ Edit
        BY <1>0, <2>1, <2>2, Moves DEF Placed
    <2>3. CASE Pause \/ Crash
        BY <1>0, <2>1, <2>3, Moves DEF Placed, Reading, Revising, Merging
    <2>4. CASE Publish \/ ResumeReplies \/ Revise \/ Agree \/ CommitFix \/ PushFix \/ MergeIn
        BY <1>0, <2>1, <2>4, Moves DEF Placed, Reading, Revising, Merging
    <2>5. CASE FinishMerge \/ Republish \/ Follow \/ Dispatch \/ Verify
        BY <1>0, <2>1, <2>5, Moves DEF Placed, Reading, Revising, Merging
    <2>6. CASE Reads \/ FrozenChecks
        BY <1>0, <2>1, <2>6, Moves DEF Placed, Reading, Revising, Merging
    <2> QED BY <1>1, <2>2, <2>3, <2>4, <2>5, <2>6 DEF Calm
<1>2. CASE Failing
    BY <1>0, <1>2, Moves, FailingFields DEF Placed, KeepsStage, KeepsVerdicts, Reading, Revising, Merging
<1>3. CASE \E verdict \in Verdict : Accept(verdict)
    <2>1. d'.stage = "dev_checks" /\ d'.todo = d.todo
        BY <1>3, JudgeFields
    <2> QED BY <1>0, <1>3, <2>1, Moves DEF Placed, Reading, Revising, Merging
<1>4. CASE \E verdict \in Verdict : Extend(verdict)
    <2>1. d'.stage = d.stage
        BY <1>4, JudgeFields DEF KeepsStage
    <2> QED BY <1>0, <1>4, <2>1, Moves DEF Placed, Reading, Revising, Merging
<1>5. CASE \E verdict \in Verdict : Reject(verdict)
    <2>1. d'.stage = d.stage /\ d'.todo = d.todo
        BY <1>5, JudgeFields DEF KeepsStage
    <2> QED BY <1>0, <1>5, <2>1, Moves DEF Placed, Reading, Revising, Merging
<1>6. CASE Verifies \/ Close
    BY <1>0, <1>6, Moves, SavingFields DEF Placed, KeepsStage, KeepsVerdicts, Reading, Revising, Merging
<1>7. CASE Saving
    <2>1. CASE \E c \in DevCriteria : WriteCheck(c) \/ EditedCheck(c) \/ RunCheck(c)
        <3>1. d'.stage = d.stage /\ d'.todo = d.todo
            BY <2>1, CheckFields DEF KeepsStage
        <3> QED BY <1>0, <2>1, <3>1, Moves DEF Placed, Reading, Revising, Merging
    <2>2. CASE (\E t \in Threads : Answer(t)) \/ RecordDispatch \/ SyncPush \/ RecordPush \/ ReadPull \/ MergeRefused
        <3>1. d'.stage = d.stage /\ d'.todo = d.todo
            BY <2>2, SavingFields DEF KeepsStage, KeepsVerdicts
        <3> QED BY <1>0, <2>2, <3>1, Moves DEF Placed, Reading, Revising, Merging
    <2>3. CASE ChecksWritten \/ ReviewObjects \/ ReviewPasses \/ Merged \/ Rereview \/ DeploymentSucceeds
        <3>1. d'.todo = d.todo
            BY <2>3, SavingFields DEF KeepsVerdicts
        <3> QED BY <1>0, <2>3, <3>1, Moves, SavingFields DEF Placed, Reading, Revising, Merging
    <2>4. CASE ReadFindings \/ ReadNothing \/ Answered \/ Requested
        <3>1. d'.todo = d.todo
            BY <2>4, SavingFields DEF KeepsVerdicts
        <3> QED BY <1>0, <2>4, <3>1, Moves DEF Placed, Reading, Revising, Merging
    <2>5. CASE Start
        <3>1. d'.stage = d.stage /\ d'.todo = d.todo
            BY <2>5, SavingFields DEF KeepsStage, KeepsVerdicts
        <3>2. pc' = IF d.todo THEN "building" ELSE "loop"
            BY <1>0, <2>5 DEF Start
        <3> QED BY <1>0, <3>1, <3>2 DEF Placed, Reading, Revising, Merging
    <2> QED BY <1>7, <2>1, <2>2, <2>3, <2>4, <2>5 DEF Saving
<1>8. CASE Heading
    <2>1. CASE BuildMore
        BY <1>0, <2>1, Moves, HeadingFields DEF Placed, KeepsStage, Reading, Revising, Merging
    <2>2. CASE Opened \/ RecordFix \/ RecordMerge \/ RecordHead
        <3>1. d'.todo = d.todo
            BY <2>2, HeadingFields DEF KeepsVerdicts
        <3> QED BY <1>0, <2>2, <3>1, Moves, HeadingFields DEF Placed, KeepsStage, Reading, Revising, Merging
    <2> QED BY <1>8, <2>1, <2>2 DEF Heading
<1>9. CASE MergePull /\ UNCHANGED <<d, disk, work, issue>> /\ pc' = "confirm"
    BY <1>0, <1>9, Moves DEF Placed, Reading, Revising, Merging
<1> HIDE DEF Fits
<1> QED BY <1>1, <1>2, <1>3, <1>4, <1>5, <1>6, <1>7, <1>8, <1>9, Kinds

-----------------------------------------------------------------------------
(* What the steps do to the branch, to GitHub and to the files.            *)

\* One more commit, and whose it is.
Grows(by) == \E base \in Nat : made' = Append(made, [by |-> by, base |-> base])

\* One more commit: those before it stay.
LEMMA GrowsIs ==
    ASSUME TypeOK, NEW by \in Author, Grows(by)
    PROVE  /\ made' \in Seq([by : Author, base : Nat]) /\ Tip' = Tip + 1
           /\ \A i \in 1..Tip : made'[i] = made[i]
           /\ made'[Tip + 1].by = by
<1>1. made \in Seq([by : Author, base : Nat])
    BY DEF TypeOK
<1>2. PICK base \in Nat : made' = Append(made, [by |-> by, base |-> base])
    BY DEF Grows
<1>3. [by |-> by, base |-> base] \in [by : Author, base : Nat]
    OBVIOUS
<1> QED BY <1>1, <1>2, <1>3, AppendProperties DEF Tip

\* The user puts the branch back to the last accepted commit.
LEMMA ResetsIs ==
    ASSUME TypeOK, Placed, Branch, UserResets
    PROVE  /\ made' \in Seq([by : Author, base : Nat]) /\ Tip' = d.last
           /\ \A i \in 1..d.last : made'[i] = made[i]
<1>1. made' = SubSeq(made, 1, d.last) /\ 1 <= d.last /\ d.last <= Tip /\ d.last \in Nat
    BY DeliveryIs DEF UserResets, Placed, Branch, TypeOK
<1>2. \A i \in 1..d.last : made[i] \in [by : Author, base : Nat]
    BY <1>1, BranchIs
<1> QED BY <1>1, <1>2, SubSeqProperties DEF Tip

\* Steps that leave the branch alone.
Plain ==
    \/ Calm /\ ~ CommitFix /\ ~ FinishMerge /\ ~ UserResets
    \/ (\E verdict \in Verdict : Accept(verdict) \/ Extend(verdict) \/ Reject(verdict)) \/ Verifies \/ Close
    \/ MergePull \/ Saving \/ (Heading /\ ~ BuildMore)

\* Who commits.
LEMMA MadeIs ==
    ASSUME TypeOK, Branch
    PROVE  /\ BuildMore \/ CommitFix => Grows("runner")
           /\ FinishMerge => Grows("update")
           /\ Failing => made' = made \/ Grows("agent")
           /\ Plain => made' = made
<1>0. Tip \in Nat /\ made[Tip].base \in Nat /\ work.base \in Nat
    <2>1. 1 <= Tip /\ Tip \in Nat
        BY BranchIs, DeliveryIs DEF Branch, TypeOK
    <2>2. made[Tip].base \in Nat
        BY <2>1, BranchIs
    <2>3. work.base \in Nat
        BY DEF TypeOK
    <2> QED BY <2>1, <2>2, <2>3
<1>1. BuildMore \/ CommitFix => Grows("runner")
    BY <1>0 DEF BuildMore, CommitFix, Grows
<1>2. FinishMerge => Grows("update")
    BY <1>0 DEF FinishMerge, Grows
<1>3. ASSUME Failing PROVE made' = made \/ Grows("agent")
    <2>1. made' = made \/ made' = Append(made, [by |-> "agent", base |-> made[Tip].base])
            \/ made' = Append(made, [by |-> "agent", base |-> work.base])
        BY <1>3 DEF Failing, Fails, ReviserFails, ResolverFails, MergePull, Verified, git
    <2> QED BY <1>0, <2>1 DEF Grows
<1>4. ASSUME Calm /\ ~ CommitFix /\ ~ FinishMerge /\ ~ UserResets PROVE made' = made
    <2>1. CASE Others
        BY <2>1, OthersIs DEF git
    <2>2. CASE Reads \/ FrozenChecks
        BY <2>2, ReadsKeep
    <2>3. CASE ~ Others /\ ~ Reads /\ ~ FrozenChecks
        BY <1>4, <2>3 DEF Calm, Publish, OpenPull, ResumeReplies, Edit, Revise, Agree, PushFix, MergeIn,
           Republish, Follow, Dispatch, Verify, Pause, Crash, vars, git
    <2> QED BY <2>1, <2>2, <2>3
<1>5. ASSUME \/ (\E verdict \in Verdict : Accept(verdict) \/ Extend(verdict) \/ Reject(verdict))
             \/ Verifies \/ Close \/ MergePull
      PROVE  made' = made
    BY <1>5 DEF Accept, Extend, Reject, Verifies, Verified, Close, MergePull, git
<1>6. ASSUME Saving PROVE made' = made
    BY <1>6 DEF Saving, WriteCheck, ChecksWritten, SyncPush, ReviewPasses, ReviewObjects, ReadFindings, ReadNothing, RecordPush,
       Answer, Answered, Requested, ReadPull, MergeRefused, Merged, Rereview, DeploymentSucceeds, RecordDispatch,
       EditedCheck, RunCheck, Start, git
<1>7. ASSUME Heading /\ ~ BuildMore PROVE made' = made
    BY <1>7 DEF Heading, Opened, RecordFix, RecordMerge, RecordHead, git
<1> QED BY <1>1, <1>2, <1>3, <1>4, <1>5, <1>6, <1>7 DEF Plain

\* What the runner does to the pull request: push, open, merge.
Pushing == Publish \/ SyncPush \/ PushFix \/ Republish

\* What a push does to the pull request.
LEMMA PushIs ==
    ASSUME TypeOK, Push
    PROVE  /\ hub' = [hub EXCEPT !.head = Tip] /\ hub'.head = Tip /\ hub.head # Foreign
           /\ hub'.pull = hub.pull /\ hub'.merged = hub.merged /\ hub'.base = hub.base
           /\ opinion' \in {opinion, [opinion EXCEPT !.checks = "none", !.bot = "none"]}
           /\ UNCHANGED live
BY DEF Push, TypeOK

\* Steps that have nothing to do with GitHub.
LEMMA Offline ==
    ASSUME [Next]_vars, ~ Others, ~ Pushing, ~ OpenPull, ~ MergePull, ~ Dispatch, ~ (\E t \in Threads : Answer(t))
    PROVE  UNCHANGED github
<1>1. CASE Failing
    BY <1>1 DEF Failing, Fails, ReviserFails, ResolverFails, Verified
<1>2. CASE Calm
    <2>1. CASE ResumeReplies \/ Edit \/ Revise \/ Agree \/ CommitFix \/ MergeIn \/ FinishMerge \/ Follow \/ Verify
        BY <2>1 DEF ResumeReplies, Edit, Revise, Agree, CommitFix, MergeIn, FinishMerge, Follow, Verify
    <2>2. CASE Pause \/ Crash \/ UserResets \/ UNCHANGED vars
        BY <2>2 DEF Pause, Crash, UserResets, vars, github
    <2>3. CASE Reads \/ FrozenChecks
        BY <2>3, ReadsKeep DEF github
    <2> QED BY <1>2, <2>1, <2>2, <2>3 DEF Calm, Pushing
<1>3. CASE (\E verdict \in Verdict : Accept(verdict) \/ Extend(verdict) \/ Reject(verdict)) \/ Verifies \/ Close
    BY <1>3 DEF Accept, Extend, Reject, Verifies, Verified, Close
<1>4. CASE Saving
    BY <1>4 DEF Saving, Pushing, WriteCheck, ChecksWritten, ReviewPasses, ReviewObjects, ReadFindings, ReadNothing, RecordPush,
       Answered, Requested, ReadPull, MergeRefused, Merged, Rereview, DeploymentSucceeds, RecordDispatch, EditedCheck, RunCheck, Start
<1>5. CASE Heading
    BY <1>5 DEF Heading, BuildMore, Opened, RecordFix, RecordMerge, RecordHead
<1> QED BY <1>1, <1>2, <1>3, <1>4, <1>5, Kinds

\* What becomes of the pull request.
LEMMA HubIs ==
    ASSUME TypeOK, [Next]_vars
    PROVE  /\ hub' \in [pull : {"none", "open", "closed", "merged"}, head : Nat \cup {Foreign}, base : Nat,
                        merged : Nat \cup {Foreign}]
           /\ \/ hub'.head = hub.head
              \/ hub'.head = Foreign
              \/ Pushing /\ hub'.head = Tip /\ hub.head # Foreign
           /\ hub.pull = "merged" => hub'.pull = "merged" /\ hub'.merged = hub.merged
<1>0. Tip \in Nat /\ hub \in [pull : {"none", "open", "closed", "merged"}, head : Nat \cup {Foreign}, base : Nat,
                              merged : Nat \cup {Foreign}]
    BY BranchIs DEF TypeOK
<1>1. CASE Pushing
    <2>1. Push \/ UNCHANGED hub
        BY <1>1 DEF Pushing, Publish, SyncPush, PushFix, Republish, github
    <2> QED BY <1>0, <1>1, <2>1, PushIs
<1>2. CASE OpenPull \/ MergePull
    BY <1>0, <1>2 DEF OpenPull, MergePull, Unmoved
<1>3. CASE Others
    <2>1. CASE BaseMoves
        BY <1>0, <2>1 DEF BaseMoves
    <2>2. CASE SomebodyPushes \/ SomebodyEnds
        BY <1>0, <2>2 DEF SomebodyPushes, SomebodyEnds
    <2>3. CASE ~ BaseMoves /\ ~ SomebodyPushes /\ ~ SomebodyEnds
        <3>1. UNCHANGED hub
            BY <1>3, <2>3 DEF Others, ChecksStart, ChecksEnd, BotReviews, PersonReviews, RunStarts, RunEnds, EditCheck, github
        <3> QED BY <1>0, <3>1
    <2> QED BY <2>1, <2>2, <2>3
<1>4. CASE Dispatch \/ \E t \in Threads : Answer(t)
    <2>1. UNCHANGED hub
        BY <1>4 DEF Dispatch, Answer
    <2> QED BY <1>0, <2>1
<1>5. CASE UNCHANGED github
    BY <1>0, <1>5 DEF github
<1> QED BY <1>1, <1>2, <1>3, <1>4, <1>5, Offline

-----------------------------------------------------------------------------
(* Types.                                                                  *)

\* Steps in which the runner's work at hand is not just kept or dropped.
Working ==
    \/ Reads \/ FrozenChecks \/ ResumeReplies \/ ReadFindings \/ Revise \/ Agree \/ (\E t \in Threads : Answer(t)) \/ MergeIn \/ Verify
    \/ (\E c \in DevCriteria : EditedCheck(c) \/ RunCheck(c))

\* A handler that returns, fails or is stopped leaves no locals behind.
LEMMA Idles ==
    ASSUME TypeOK, Placed, [Next]_vars, ~ Working
    PROVE  work' \in {work, Idle}
<1>1. CASE Failing
    BY <1>1, FailingIs
<1>2. CASE Calm
    <2>1. CASE Publish \/ OpenPull \/ Edit \/ CommitFix \/ PushFix \/ FinishMerge \/ Republish \/ Follow \/ Dispatch
        BY <2>1 DEF Publish, OpenPull, Edit, CommitFix, PushFix, FinishMerge, Republish, Follow, Dispatch
    <2>2. CASE Pause \/ Crash \/ UserResets \/ UNCHANGED vars
        BY <2>2 DEF Pause, Crash, UserResets, vars
    <2> QED BY <1>2, <2>1, <2>2, OthersIs DEF Calm, Working
<1>3. CASE \E verdict \in Verdict : Accept(verdict) \/ Extend(verdict) \/ Reject(verdict)
    BY <1>3, RejectIs DEF Accept, Extend, Return
<1>4. CASE Verifies \/ Close
    BY <1>4 DEF Verifies, Close, Return
<1>5. CASE Saving
    BY <1>5 DEF Saving, Working, WriteCheck, ChecksWritten, SyncPush, ReviewPasses, ReviewObjects, ReadNothing, RecordPush,
       Answered, Requested, ReadPull, MergeRefused, Merged, Rereview, DeploymentSucceeds, RecordDispatch, Start, Return
<1>6. CASE Heading
    BY <1>6 DEF Heading, BuildMore, Opened, RecordFix, RecordMerge, RecordHead, Return
<1> QED BY <1>1, <1>2, <1>3, <1>4, <1>5, <1>6, Kinds

\* The work at hand is what the handlers expect.
LEMMA WorkTyped ==
    ASSUME TypeOK, Placed, Rounds, [Next]_vars
    PROVE  /\ work' \in [found : SUBSET Finding, wait : BOOLEAN, sound : BOOLEAN, replies : SUBSET Threads, changed : BOOLEAN, base : Nat,
                         left : SUBSET (Threads \cup DevCriteria), now : SUBSET DevCriteria]
           /\ pc' = "agree" => work'.left \subseteq Threads
<1> DEFINE Work == [found : SUBSET Finding, wait : BOOLEAN, sound : BOOLEAN, replies : SUBSET Threads, changed : BOOLEAN, base : Nat,
                    left : SUBSET (Threads \cup DevCriteria), now : SUBSET DevCriteria]
<1>0. /\ work \in Work /\ Idle \in Work /\ Idle.left = {} /\ hub.base \in Nat
      /\ pc = "agree" => work.left \subseteq Threads
    BY DEF TypeOK, Idle, Rounds
<1>1. CASE ResumeReplies
    <2>1. work' = [Idle EXCEPT !.changed = TRUE, !.replies = (d.pending \ d.handled) \cap OpenThreads]
          /\ pc' # "agree"
        BY <1>1 DEF ResumeReplies
    <2>2. (d.pending \ d.handled) \cap OpenThreads \subseteq Threads
        BY DeliveryIs DEF TypeOK
    <2> QED BY <2>1, <2>2 DEF Idle
<1>2. CASE ReadFindings
    <2>1. work' = Idle \/ \E found \in SUBSET Finding : work' = [Idle EXCEPT !.found = found]
        <3>1. Findings \subseteq Finding
            BY DEF Findings, OpenThreads, Finding, TypeOK
        <3>2. PICK found \in {Findings, {}} :
                 \/ Return([d EXCEPT !.stage = "reviewing"])
                 \/ work' = [Idle EXCEPT !.found = found]
            BY <1>2, Zenon DEF ReadFindings
        <3> QED BY <3>1, <3>2 DEF Return
    <2>2. pc' # "agree"
        BY <1>2, Moves DEF Placed
    <2> QED BY <1>0, <2>1, <2>2 DEF Idle
<1>3. CASE Revise
    <2>1. PICK fixed \in SUBSET (work.found \cap Threads), declined \in SUBSET (work.found \cap Threads) :
             work' = [work EXCEPT !.changed = tree = "dirty", !.replies = fixed, !.left = declined]
        BY <1>3 DEF Revise
    <2>2. (tree = "dirty") \in BOOLEAN
        OBVIOUS
    <2> QED BY <1>0, <2>1, <2>2
<1>4. CASE Agree
    <2>1. PICK agreed \in SUBSET work.left : work' = [work EXCEPT !.replies = @ \cup agreed, !.left = {}]
        BY <1>4 DEF Agree
    <2>2. work.left \subseteq Threads
        BY <1>0, <1>4 DEF Agree
    <2> QED BY <1>0, <2>1, <2>2
<1>5. CASE \E t \in Threads : Answer(t)
    <2>1. PICK t \in Threads : pc = "answer" /\ pc' = pc /\ work' = [work EXCEPT !.replies = @ \ {t}]
        BY <1>5 DEF Answer
    <2> QED BY <1>0, <2>1
<1>6. CASE MergeIn
    BY <1>0, <1>6 DEF MergeIn, Idle
<1>7. CASE Verify
    <2>1. work' = [Idle EXCEPT !.left = {c \in DevCriteria : d.checks[c] # "pass"}] /\ pc' = "verify"
        BY <1>7 DEF Verify
    <2> QED BY <1>0, <2>1 DEF Idle
<1>8. CASE \E c \in DevCriteria : EditedCheck(c) \/ RunCheck(c)
    <2>1. PICK c \in DevCriteria :
             /\ work' \in {[work EXCEPT !.left = @ \ {c}], [work EXCEPT !.left = @ \ {c}, !.now = {}]}
             /\ pc' = "verify"
        BY <1>8 DEF EditedCheck, RunCheck
    <2> QED BY <1>0, <2>1
<1>10. CASE ReadHead
    BY <1>0, <1>10 DEF ReadHead, Idle
<1>11. CASE ReadChecks \/ ReadReviews
    <2>1. PICK found \in SUBSET Finding, wait \in BOOLEAN, fine \in BOOLEAN : Learn(found, wait, fine)
        <3>1. CASE ReadChecks
            <4>1. (IF opinion.checks = "red" THEN {"check"} ELSE {}) \in SUBSET Finding
                BY DEF Finding
            <4>2. (opinion.checks = "running") \in BOOLEAN /\ (opinion.checks \in {"none", "green"}) \in BOOLEAN
                OBVIOUS
            <4>3. Learn(IF opinion.checks = "red" THEN {"check"} ELSE {}, opinion.checks = "running",
                        opinion.checks \in {"none", "green"})
                BY <3>1 DEF ReadChecks
            <4> QED BY <4>1, <4>2, <4>3, Zenon
        <3>2. CASE ReadReviews
            <4>1. ReviewFindings \subseteq Finding
                BY DEF ReviewFindings, Finding
            <4>2. (opinion.bot = "none" \/ Unapproved) \in BOOLEAN /\ NoObjection \in BOOLEAN
                BY DEF Unapproved, NoObjection
            <4> QED BY <3>2, <4>1, <4>2, Zenon DEF ReadReviews
        <3> QED BY <1>11, <3>1, <3>2
    <2>2. work' = [work EXCEPT !.found = @ \cup found, !.wait = @ \/ wait, !.sound = @ /\ fine]
        BY <2>1 DEF Learn
    <2>3. (work.wait \/ wait) \in BOOLEAN /\ (work.sound /\ fine) \in BOOLEAN
        OBVIOUS
    <2>4. pc' # "agree"
        BY <1>11 DEF ReadChecks, ReadReviews
    <2> QED BY <1>0, <2>2, <2>3, <2>4
<1>12. CASE FrozenChecks
    <2>1. PICK c \in DevCriteria : work' = [work EXCEPT !.now = {c}] /\ pc' = "check"
        BY <1>12 DEF FrozenChecks, FrozenCheck
    <2> QED BY <1>0, <2>1
<1>9. CASE ~ Working
    <2>1. work' \in {work, Idle}
        BY <1>9, Idles
    <2>2. pc' = "agree" => pc = "agree" \/ Revise
        <3>1. CASE Calm
            BY <3>1, Moves DEF Calm, Placed, Reading
        <3>2. CASE Saving
            <4>1. CASE SyncPush
                BY <4>1, Moves DEF Placed
            <4>2. CASE ~ SyncPush
                BY <3>2, <4>2, Moves DEF Saving, Placed
            <4> QED BY <4>1, <4>2
        <3>3. CASE ~ Calm /\ ~ Saving
            BY <3>3, Moves, Kinds DEF Heading, Placed
        <3> QED BY <3>1, <3>2, <3>3
    <2>3. pc' = "agree" => pc = "agree"
        BY <1>9, <2>2 DEF Working
    <2> QED BY <1>0, <2>1, <2>3
<1> QED BY <1>1, <1>2, <1>3, <1>4, <1>5, <1>6, <1>7, <1>8, <1>9, <1>10, <1>11, <1>12 DEF Working, Reads

\* Which steps write the worktree, the checks, the issue, the history and the counters.
LEMMA TreeIs ==
    ASSUME TypeOK, [Next]_vars
    PROVE  tree' \in {"clean", "dirty", "merging"}
<1>0. tree \in {"clean", "dirty", "merging"}
    BY DEF TypeOK
<1>1. CASE Failing
    BY <1>0, <1>1 DEF Failing, Fails, ReviserFails, ResolverFails, Verified, MergePull, git
<1>2. CASE Calm
    <2>1. CASE Publish \/ OpenPull \/ ResumeReplies \/ Edit \/ Revise \/ Agree \/ CommitFix \/ PushFix \/ MergeIn
        BY <1>0, <2>1 DEF Publish, OpenPull, ResumeReplies, Edit, Revise, Agree, CommitFix, PushFix, MergeIn, git
    <2>2. CASE FinishMerge \/ Republish \/ Follow \/ Dispatch \/ Verify \/ Pause \/ Crash \/ UserResets \/ UNCHANGED vars
        BY <1>0, <2>2 DEF FinishMerge, Republish, Follow, Dispatch, Verify, Pause, Crash, UserResets, vars, git
    <2>3. CASE Others
        BY <1>0, <2>3, OthersIs DEF git
    <2>4. CASE Reads \/ FrozenChecks
        BY <1>0, <2>4, ReadsKeep
    <2> QED BY <1>2, <2>1, <2>2, <2>3, <2>4 DEF Calm
<1>3. CASE (\E verdict \in Verdict : Accept(verdict) \/ Extend(verdict) \/ Reject(verdict)) \/ Verifies \/ Close \/ MergePull
    BY <1>0, <1>3 DEF Accept, Extend, Reject, Verifies, Verified, Close, MergePull, git
<1>4. CASE Saving
    BY <1>0, <1>4 DEF Saving, WriteCheck, ChecksWritten, SyncPush, ReviewPasses, ReviewObjects, ReadFindings, ReadNothing, RecordPush,
       Answer, Answered, Requested, ReadPull, MergeRefused, Merged, Rereview, DeploymentSucceeds, RecordDispatch,
       EditedCheck, RunCheck, Start, git
<1>5. CASE Heading
    BY <1>0, <1>5 DEF Heading, BuildMore, Opened, RecordFix, RecordMerge, RecordHead, git
<1> QED BY <1>1, <1>2, <1>3, <1>4, <1>5, Kinds

\* Who writes the Dev checks on disk.
LEMMA FileIs ==
    ASSUME TypeOK, [Next]_vars
    PROVE  \/ file' = file /\ ~ \E c \in DevCriteria : WriteCheck(c) \/ EditedCheck(c) \/ RunCheck(c)
           \/ \E c \in DevCriteria : WriteCheck(c) \/ EditedCheck(c) \/ RunCheck(c)
           \/ Others /\ \E c \in DevCriteria : /\ file[c] = "red" /\ file' = [file EXCEPT ![c] = "edited"]
                                             /\ slipped' = slipped \cup (work.now \cap {c})
<1>1. CASE Failing
    BY <1>1 DEF Failing, Fails, ReviserFails, ResolverFails, Verified, MergePull
<1>2. CASE Calm
    <2>1. CASE Publish \/ OpenPull \/ ResumeReplies \/ Edit \/ Revise \/ Agree \/ CommitFix \/ PushFix \/ MergeIn
        BY <2>1 DEF Publish, OpenPull, ResumeReplies, Edit, Revise, Agree, CommitFix, PushFix, MergeIn
    <2>2. CASE FinishMerge \/ Republish \/ Follow \/ Dispatch \/ Verify \/ Pause \/ Crash \/ UserResets \/ UNCHANGED vars
        BY <2>2 DEF FinishMerge, Republish, Follow, Dispatch, Verify, Pause, Crash, UserResets, vars
    <2>3. CASE Others
        BY <2>3 DEF Others, ChecksStart, ChecksEnd, BotReviews, PersonReviews, BaseMoves, SomebodyPushes, SomebodyEnds, RunStarts,
           RunEnds, EditCheck
    <2>4. CASE Reads \/ FrozenChecks
        BY <2>4, ReadsKeep
    <2> QED BY <1>2, <2>1, <2>2, <2>3, <2>4 DEF Calm
<1>3. CASE (\E verdict \in Verdict : Accept(verdict) \/ Extend(verdict) \/ Reject(verdict)) \/ Verifies \/ Close \/ MergePull
    BY <1>3 DEF Accept, Extend, Reject, Verifies, Verified, Close, MergePull
<1>4. CASE Saving
    BY <1>4 DEF Saving, ChecksWritten, SyncPush, ReviewPasses, ReviewObjects, ReadFindings, ReadNothing, RecordPush,
       Answer, Answered, Requested, ReadPull, MergeRefused, Merged, Rereview, DeploymentSucceeds, RecordDispatch, Start
<1>5. CASE Heading
    BY <1>5 DEF Heading, BuildMore, Opened, RecordFix, RecordMerge, RecordHead
<1> QED BY <1>1, <1>2, <1>3, <1>4, <1>5, Kinds

\* What the history of reviews and answers gains, and from whom.
LEMMA HistoryIs ==
    ASSUME TypeOK, [Next]_vars
    PROVE  /\ cleared' = cleared \/ (ReviewPasses /\ cleared' \in {cleared, cleared \cup {d.head}})
           /\ answered' = answered \/ \E t \in Threads : Answer(t) /\ answered' = [answered EXCEPT ![t] = d.head]
           /\ slipped' = slipped \/ Others
           /\ slipped \subseteq slipped' /\ slipped' \subseteq slipped \cup work.now
<1>1. CASE Failing
    BY <1>1 DEF Failing, Fails, ReviserFails, ResolverFails, Verified, MergePull, history
<1>2. CASE Calm
    <2>1. CASE Publish \/ OpenPull \/ ResumeReplies \/ Edit \/ Revise \/ Agree \/ CommitFix \/ PushFix \/ MergeIn
        BY <2>1 DEF Publish, OpenPull, ResumeReplies, Edit, Revise, Agree, CommitFix, PushFix, MergeIn, history
    <2>2. CASE FinishMerge \/ Republish \/ Follow \/ Dispatch \/ Verify \/ Pause \/ Crash \/ UserResets \/ UNCHANGED vars
        BY <2>2 DEF FinishMerge, Republish, Follow, Dispatch, Verify, Pause, Crash, UserResets, vars, history
    <2>3. CASE Others
        <3>1. UNCHANGED <<cleared, answered>>
            BY <2>3, OthersIs
        <3>2. slipped' = slipped \/ \E c \in DevCriteria : slipped' = slipped \cup (work.now \cap {c})
            BY <2>3 DEF Others, ChecksStart, ChecksEnd, BotReviews, PersonReviews, BaseMoves, SomebodyPushes, SomebodyEnds,
               RunStarts, RunEnds, EditCheck, history
        <3> QED BY <2>3, <3>1, <3>2
    <2>4. CASE Reads \/ FrozenChecks
        BY <2>4, ReadsKeep
    <2> QED BY <1>2, <2>1, <2>2, <2>3, <2>4 DEF Calm
<1>3. CASE (\E verdict \in Verdict : Accept(verdict) \/ Extend(verdict) \/ Reject(verdict)) \/ Verifies \/ Close \/ MergePull
    BY <1>3 DEF Accept, Extend, Reject, Verifies, Verified, Close, MergePull, history
<1>4. CASE Saving
    <2>1. CASE ReviewPasses
        BY <2>1 DEF ReviewPasses
    <2>2. CASE \E t \in Threads : Answer(t)
        BY <2>2 DEF Answer
    <2>3. CASE ~ ReviewPasses /\ ~ \E t \in Threads : Answer(t)
        BY <1>4, <2>3 DEF Saving, WriteCheck, EditedCheck, RunCheck, ChecksWritten, SyncPush, ReviewObjects, ReadFindings, ReadNothing, RecordPush,
           Answered, Requested, ReadPull, MergeRefused, Merged, Rereview, DeploymentSucceeds, RecordDispatch, Start, history
    <2> QED BY <2>1, <2>2, <2>3
<1>5. CASE Heading
    BY <1>5 DEF Heading, BuildMore, Opened, RecordFix, RecordMerge, RecordHead, history
<1> QED BY <1>1, <1>2, <1>3, <1>4, <1>5, Kinds

\* The counters are not passed.
LEMMA BoundsAre ==
    ASSUME TypeOK, [Next]_vars
    PROVE  runs' \in 0..MaxRuns /\ events' \in 0..MaxEvents
<1>0. runs \in 0..MaxRuns /\ events \in 0..MaxEvents /\ MaxRuns \in Nat /\ MaxEvents \in Nat
    BY DeliveryAssumption DEF TypeOK
<1> DEFINE Counted == /\ runs' = runs \/ (runs < MaxRuns /\ runs' = runs + 1)
                      /\ events' = events \/ (events < MaxEvents /\ events' = events + 1)
<1>1. CASE Failing
    <2>1. Counted
        BY <1>1 DEF Failing, Fails, ReviserFails, ResolverFails, Verified, MergePull, bounds
    <2> QED BY <1>0, <2>1
<1>2. CASE Calm
    <2>1. CASE Publish \/ OpenPull \/ ResumeReplies \/ Edit \/ Revise \/ Agree \/ CommitFix \/ PushFix \/ MergeIn
        BY <1>0, <2>1 DEF Publish, OpenPull, ResumeReplies, Edit, Revise, Agree, CommitFix, PushFix, MergeIn, bounds
    <2>2. CASE FinishMerge \/ Republish \/ Follow \/ Dispatch \/ Verify \/ Pause \/ Crash \/ UserResets \/ UNCHANGED vars
        BY <1>0, <2>2 DEF FinishMerge, Republish, Follow, Dispatch, Verify, Pause, Crash, UserResets, vars, bounds
    <2>3. CASE Others
        <3>1. Counted
            BY <2>3 DEF Others, ChecksStart, ChecksEnd, BotReviews, PersonReviews, BaseMoves, SomebodyPushes, SomebodyEnds, RunStarts,
               RunEnds, EditCheck, bounds
        <3> QED BY <1>0, <3>1
    <2>4. CASE Reads \/ FrozenChecks
        BY <1>0, <2>4, ReadsKeep
    <2> QED BY <1>2, <2>1, <2>2, <2>3, <2>4 DEF Calm
<1>3. CASE (\E verdict \in Verdict : Accept(verdict) \/ Extend(verdict) \/ Reject(verdict)) \/ Verifies \/ Close \/ MergePull
    BY <1>0, <1>3 DEF Accept, Extend, Reject, Verifies, Verified, Close, MergePull, bounds
<1>4. CASE Saving
    <2>1. CASE ReadFindings
        <3>1. UNCHANGED bounds
            BY <2>1 DEF ReadFindings
        <3>2. runs' = runs /\ events' = events
            BY <3>1 DEF bounds
        <3> QED BY <1>0, <3>2
    <2>2. CASE ~ ReadFindings
        <3>1. Counted
            BY <1>4, <2>2 DEF Saving, WriteCheck, EditedCheck, RunCheck, ChecksWritten, SyncPush, ReviewPasses, ReviewObjects, ReadNothing, RecordPush,
               Answer, Answered, Requested, ReadPull, MergeRefused, Merged, Rereview, DeploymentSucceeds, RecordDispatch, Start,
               bounds
        <3> QED BY <1>0, <3>1
    <2> QED BY <2>1, <2>2
<1>5. CASE Heading
    BY <1>0, <1>5 DEF Heading, BuildMore, Opened, RecordFix, RecordMerge, RecordHead, bounds
<1> QED BY <1>1, <1>2, <1>3, <1>4, <1>5, Kinds

\* What the issue says changes at the end of a run only.
LEMMA IssueIs ==
    ASSUME TypeOK, Placed, [Next]_vars
    PROVE  \/ issue' = issue
           \/ (Failing \/ (\E verdict \in Verdict : Reject(verdict)) \/ Close) /\ issue' = [issue EXCEPT !.ticked = @ \cup Passed(d')]
           \/ Close /\ (\A g \in Gate : d.gates[g] = "pass") /\ issue' = [ticked |-> issue.ticked \cup Passed(d), closed |-> TRUE]
<1>1. CASE Failing
    BY <1>1, FailingIs
<1>2. CASE Calm
    BY <1>2, CalmIs DEF Placed
<1>3. CASE \E verdict \in Verdict : Accept(verdict) \/ Extend(verdict) \/ Reject(verdict)
    BY <1>3, RejectIs DEF Accept, Extend
<1>4. CASE Verifies
    BY <1>4 DEF Verifies
<1>5. CASE Close
    <2>1. CloseOut(d) /\ d \in DeliveryType
        BY <1>5 DEF Close, TypeOK
    <2> QED BY <1>5, <2>1, CloseOutIs
<1>6. CASE Saving
    BY <1>6 DEF Saving, WriteCheck, EditedCheck, RunCheck, ChecksWritten, SyncPush, ReviewPasses, ReviewObjects, ReadFindings, ReadNothing, RecordPush,
       Answer, Answered, Requested, ReadPull, MergeRefused, Merged, Rereview, DeploymentSucceeds, RecordDispatch, Start
<1>7. CASE Heading
    BY <1>7 DEF Heading, BuildMore, Opened, RecordFix, RecordMerge, RecordHead
<1> QED BY <1>1, <1>2, <1>3, <1>4, <1>5, <1>6, <1>7, Kinds

\* Reviews are read, asked for and answered as reviews.
LEMMA OpinionTyped ==
    ASSUME TypeOK, [Next]_vars
    PROVE  opinion' \in [checks : {"none", "running", "green", "red"}, bot : {"none", "silent", "approves", "objects"},
                         person : {"none", "approves", "objects"}, threads : [Threads -> {"unseen", "open", "closed"}]]
<1> DEFINE Opinion == [checks : {"none", "running", "green", "red"}, bot : {"none", "silent", "approves", "objects"},
                       person : {"none", "approves", "objects"}, threads : [Threads -> {"unseen", "open", "closed"}]]
<1>0. opinion \in Opinion
    BY DEF TypeOK
<1>1. CASE Pushing
    <2>1. Push \/ UNCHANGED opinion
        BY <1>1 DEF Pushing, Publish, SyncPush, PushFix, Republish, github
    <2>2. opinion' \in {opinion, [opinion EXCEPT !.checks = "none", !.bot = "none"]}
        BY <2>1, PushIs
    <2> QED BY <1>0, <2>2
<1>2. CASE \E t \in Threads : Answer(t)
    <2>1. PICK t \in Threads : opinion' \in {opinion, [opinion EXCEPT !.threads[t] = "closed"]}
        BY <1>2 DEF Answer
    <2> QED BY <1>0, <2>1
<1>3. CASE Others
    <2>1. CASE ChecksStart \/ ChecksEnd
        BY <1>0, <2>1 DEF ChecksStart, ChecksEnd
    <2>2. CASE BotReviews
        <3>1. PICK bot \in {"approves", "objects", "silent"}, opens \in SUBSET {t \in Threads : opinion.threads[t] = "unseen"} :
                 opinion' = [opinion EXCEPT !.bot = bot, !.threads = [t \in Threads |-> IF t \in opens THEN "open" ELSE @[t]]]
            BY <2>2 DEF BotReviews
        <3> QED BY <1>0, <3>1
    <2>3. CASE PersonReviews
        BY <1>0, <2>3 DEF PersonReviews
    <2>4. CASE SomebodyPushes
        BY <1>0, <2>4 DEF SomebodyPushes
    <2>5. CASE ~ ChecksStart /\ ~ ChecksEnd /\ ~ BotReviews /\ ~ PersonReviews /\ ~ SomebodyPushes
        <3>1. UNCHANGED opinion
            BY <1>3, <2>5 DEF Others, BaseMoves, SomebodyEnds, RunStarts, RunEnds, EditCheck, github
        <3> QED BY <1>0, <3>1
    <2> QED BY <2>1, <2>2, <2>3, <2>4, <2>5
<1>4. CASE OpenPull \/ MergePull \/ Dispatch
    <2>1. UNCHANGED opinion
        BY <1>4 DEF OpenPull, MergePull, Dispatch
    <2> QED BY <1>0, <2>1
<1>5. CASE UNCHANGED github
    <2>1. UNCHANGED opinion
        BY <1>5 DEF github
    <2> QED BY <1>0, <2>1
<1> QED BY <1>1, <1>2, <1>3, <1>4, <1>5, Offline

Deployment == [has : BOOLEAN, state : {"busy", "success", "failure"}]

\* Deployments: one is added, or the first gets its outcome.
LEMMA LiveIs ==
    ASSUME TypeOK, [Next]_vars
    PROVE  \/ live' = live
           \/ live' = [run |-> "running", deployments |-> <<[has |-> TRUE, state |-> "busy"]>> \o live.deployments]
           \/ /\ live.run = "running"
              /\ \E result \in {"done", "failed", "cancelled"}, state \in {"busy", "success", "failure"} :
                    live' = [live EXCEPT !.run = result, !.deployments[1].state = state]
<1>1. CASE Pushing
    BY <1>1, PushIs DEF Pushing, Publish, SyncPush, PushFix, Republish, github
<1>2. CASE OpenPull \/ MergePull \/ Dispatch \/ \E t \in Threads : Answer(t)
    BY <1>2 DEF OpenPull, MergePull, Dispatch, Answer
<1>3. CASE Others
    <2>1. ASSUME NEW result \in {"done", "failed", "cancelled"}, RunEnds(result)
          PROVE  /\ live.run = "running"
                 /\ \E state \in {"busy", "success", "failure"} :
                      live' = [live EXCEPT !.run = result, !.deployments[1].state = state]
        <3> DEFINE state == [done |-> "success", failed |-> "failure", cancelled |-> "busy"][result]
        <3>1. live.run = "running" /\ live' = [live EXCEPT !.run = result, !.deployments[1].state = state]
            BY <2>1 DEF RunEnds
        <3>2. state \in {"busy", "success", "failure"}
            OBVIOUS
        <3> HIDE DEF state
        <3> QED BY <3>1, <3>2
    <2>2. CASE ~ \E result \in {"done", "failed", "cancelled"} : RunEnds(result)
        BY <1>3, <2>2 DEF Others, ChecksStart, ChecksEnd, BotReviews, PersonReviews, BaseMoves, SomebodyPushes, SomebodyEnds, RunStarts,
           EditCheck, github
    <2> QED BY <2>1, <2>2
<1>4. CASE UNCHANGED github
    BY <1>4 DEF github
<1> QED BY <1>1, <1>2, <1>3, <1>4, Offline

\* Runs and deployments stay ones.
LEMMA LiveTyped ==
    ASSUME TypeOK, Deploying, [Next]_vars
    PROVE  live' \in [run : {"none", "running", "done", "failed", "cancelled"}, deployments : Seq(Deployment)]
<1>0. live \in [run : {"none", "running", "done", "failed", "cancelled"}, deployments : Seq(Deployment)]
    BY DEF TypeOK, Deployment
<1>1. CASE live' = [run |-> "running", deployments |-> <<[has |-> TRUE, state |-> "busy"]>> \o live.deployments]
    <2>1. <<[has |-> TRUE, state |-> "busy"]>> \in Seq(Deployment)
        BY DEF Deployment
    <2>2. <<[has |-> TRUE, state |-> "busy"]>> \o live.deployments \in Seq(Deployment)
        BY <1>0, <2>1, ConcatProperties
    <2> QED BY <1>1, <2>2
<1>2. ASSUME live.run = "running", NEW result \in {"done", "failed", "cancelled"}, NEW state \in {"busy", "success", "failure"},
             live' = [live EXCEPT !.run = result, !.deployments[1].state = state]
      PROVE  live' \in [run : {"none", "running", "done", "failed", "cancelled"}, deployments : Seq(Deployment)]
    <2>1. live.deployments \in Seq(Deployment) /\ live.deployments # <<>>
        BY <1>0, <1>2 DEF Deploying
    <2>2. 1 \in 1..Len(live.deployments)
        BY <2>1, LenProperties
    <2>3. live.deployments[1] \in Deployment
        BY <2>1, <2>2, LenProperties
    <2>4. [live.deployments[1] EXCEPT !.state = state] \in Deployment
        BY <2>3 DEF Deployment
    <2>5. [live.deployments EXCEPT ![1] = [live.deployments[1] EXCEPT !.state = state]] \in Seq(Deployment)
        BY <2>1, <2>2, <2>4, ExceptSeq
    <2>6. live' = [live EXCEPT !.run = result, !.deployments = [live.deployments EXCEPT ![1] = [live.deployments[1] EXCEPT !.state = state]]]
        BY <1>0, <1>2
    <2> QED BY <1>0, <2>5, <2>6
<1> QED BY <1>0, <1>1, <1>2, LiveIs

\* Everything is typed after every step.
LEMMA TypesStep ==
    ASSUME IInv, [Next]_vars
    PROVE  TypeOK'
<1> USE DEF IInv
<1>1. d' \in DeliveryType /\ disk' \in DeliveryType
    <2>1. d' \in DeliveryType /\ d' = disk'
        BY DeliveryStep
    <2> QED BY <2>1
<1>2. pc' \in {"off", "loop", "building", "open", "revise", "agree", "commit", "committed",
               "push", "pushed", "answer", "request", "pull", "merge", "confirm", "update", "resolve",
               "merged", "recorded", "republish", "rerequest", "watch", "dispatched", "verify", "check"} \cup Reading
    <2> DEFINE P == Reading \cup {"off", "loop", "building", "open", "revise", "agree", "commit", "committed",
               "push", "pushed", "answer", "request", "pull", "merge", "confirm", "update", "resolve",
               "merged", "recorded", "republish", "rerequest", "watch", "dispatched", "verify", "check"}
    <2>1. pc \in P
        BY DEF TypeOK
    <2>2. d = disk
        BY DEF Placed
    <2>3. CASE Calm
        <3>1. CASE Others \/ UserResets \/ UNCHANGED vars \/ OpenPull \/ Edit \/ Pause \/ Crash
            BY <2>1, <2>2, <3>1, Moves
        <3>2. CASE ~ (Others \/ UserResets \/ UNCHANGED vars \/ OpenPull \/ Edit \/ Pause \/ Crash)
            BY <2>2, <2>3, <3>2, Moves DEF Calm
        <3> QED BY <3>1, <3>2
    <2>4. CASE Saving
        <3>1. CASE SyncPush
            BY <2>2, <3>1, Moves DEF Reading
        <3>2. CASE (\E c \in DevCriteria : WriteCheck(c) \/ EditedCheck(c) \/ RunCheck(c)) \/ \E t \in Threads : Answer(t)
            BY <2>1, <2>2, <3>2, Moves
        <3>3. CASE ~ SyncPush /\ ~ (\E c \in DevCriteria : WriteCheck(c) \/ EditedCheck(c) \/ RunCheck(c)) /\ ~ \E t \in Threads : Answer(t)
            BY <2>2, <2>4, <3>3, Moves DEF Saving
        <3> QED BY <3>1, <3>2, <3>3
    <2>5. CASE Heading
        BY <2>2, <2>5, Moves DEF Heading
    <2>6. CASE ~ Calm /\ ~ Saving /\ ~ Heading
        BY <2>2, <2>6, Moves, Kinds
    <2> QED BY <2>3, <2>4, <2>5, <2>6
<1>3. made' \in Seq([by : Author, base : Nat])
    <2>1. \A by \in {"runner", "update", "agent"} : Grows(by) => made' \in Seq([by : Author, base : Nat])
        BY GrowsIs DEF Author
    <2>2. made \in Seq([by : Author, base : Nat])
        BY DEF TypeOK
    <2> QED BY <2>1, <2>2, MadeIs, ResetsIs, Kinds DEF Calm, Heading, Plain
<1>4. file' \in [DevCriteria -> {"none", "red", "edited", "green"}]
    <2>1. file \in [DevCriteria -> {"none", "red", "edited", "green"}]
        BY DEF TypeOK
    <2>2. \A c \in DevCriteria : WriteCheck(c) \/ EditedCheck(c) \/ RunCheck(c) => file' \in [DevCriteria -> {"none", "red", "edited", "green"}]
        BY <2>1, CheckFields
    <2> QED BY <2>1, <2>2, FileIs
<1>5. issue' \in [ticked : SUBSET (TestCriteria \cup DevCriteria), closed : BOOLEAN]
    <2>1. issue \in [ticked : SUBSET (TestCriteria \cup DevCriteria), closed : BOOLEAN]
        BY DEF TypeOK
    <2>2. Passed(d) \subseteq TestCriteria \cup DevCriteria /\ Passed(d') \subseteq TestCriteria \cup DevCriteria
        BY DEF Passed
    <2>3. \/ issue' = issue
          \/ issue' = [issue EXCEPT !.ticked = @ \cup Passed(d')]
          \/ issue' = [ticked |-> issue.ticked \cup Passed(d), closed |-> TRUE]
        BY IssueIs
    <2>4. ASSUME NEW S \in SUBSET (TestCriteria \cup DevCriteria)
          PROVE  /\ [issue EXCEPT !.ticked = @ \cup S] \in [ticked : SUBSET (TestCriteria \cup DevCriteria), closed : BOOLEAN]
                 /\ [ticked |-> issue.ticked \cup S, closed |-> TRUE] \in [ticked : SUBSET (TestCriteria \cup DevCriteria), closed : BOOLEAN]
        BY <2>1
    <2> QED BY <2>1, <2>2, <2>3, <2>4
<1>6. cleared' \subseteq Nat /\ answered' \in [Threads -> Nat] /\ slipped' \subseteq DevCriteria
    <2>1. /\ cleared \subseteq Nat /\ answered \in [Threads -> Nat] /\ d.head \in Nat
          /\ slipped \subseteq DevCriteria /\ work.now \subseteq DevCriteria
        BY DeliveryIs DEF TypeOK
    <2> QED BY <2>1, HistoryIs
<1>7. live' \in [run : {"none", "running", "done", "failed", "cancelled"},
                 deployments : Seq([has : BOOLEAN, state : {"busy", "success", "failure"}])]
    BY LiveTyped DEF Deployment
<1> QED BY <1>1, <1>2, <1>3, <1>4, <1>5, <1>6, <1>7, WorkTyped, TreeIs, HubIs, OpinionTyped, BoundsAre DEF TypeOK

-----------------------------------------------------------------------------
(* The branch.                                                             *)

\* The accepted commits stay the runner's own, with the head among them.
LEMMA BranchStep ==
    ASSUME IInv, [Next]_vars
    PROVE  Branch'
<1> USE DEF IInv
<1>0. /\ Tip \in Nat /\ d.last \in Nat /\ d.head \in Nat /\ d = disk
      /\ made' = made => Tip' = Tip
      /\ \A by \in Author : Grows(by) => Tip' = Tip + 1 /\ (\A i \in 1..Tip : made'[i] = made[i]) /\ made'[Tip + 1].by = by
    BY BranchIs, DeliveryIs, GrowsIs DEF TypeOK, Placed, Tip
<1>1. CASE Failing
    <2>1. pc' = "off" /\ KeepsHead /\ KeepsStage
        BY <1>0, <1>1, Moves, FailingFields
    <2>2. Tip <= Tip' /\ Tip' \in Nat /\ \A i \in 1..Tip : made'[i] = made[i]
        BY <1>0, <1>1, MadeIs DEF Author
    <2> QED BY <1>0, <2>1, <2>2 DEF Branch, KeepsHead, KeepsStage
<1>2. CASE Calm
    <2>0. d' = d
        BY <1>2, CalmIs DEF Placed
    <2>1. CASE CommitFix
        <3>1. pc = "commit" /\ pc' = "committed" /\ Grows("runner")
            BY <1>0, <2>1, Moves, MadeIs
        <3>2. d.stage = "revising" /\ Tip = d.last
            BY <3>1 DEF Placed, Branch, Revising
        <3> QED BY <1>0, <2>0, <3>1, <3>2 DEF Branch, Author
    <2>2. CASE FinishMerge
        <3>1. pc = "resolve" /\ pc' = "merged" /\ Grows("update")
            BY <1>0, <2>2, Moves, MadeIs
        <3>2. d.stage = "merging" /\ Tip = d.last
            BY <3>1 DEF Placed, Branch, Merging
        <3> QED BY <1>0, <2>0, <3>1, <3>2 DEF Branch, Author
    <2>3. CASE UserResets
        <3>1. pc' = "off" /\ pc = "off"
            BY <2>3 DEF UserResets
        <3> QED BY <1>0, <2>0, <2>3, <3>1, ResetsIs DEF Branch
    <2>4. CASE ~ CommitFix /\ ~ FinishMerge /\ ~ UserResets
        <3>0. made' = made /\ Tip' = Tip
            BY <1>0, <1>2, <2>4, MadeIs DEF Plain
        <3>1. CASE Others \/ UNCHANGED vars \/ OpenPull \/ Edit
            <4>1. pc' = pc
                BY <1>0, <3>1, Moves
            <4> QED BY <2>0, <3>0, <4>1 DEF Branch
        <3>2. CASE Pause \/ Crash
            <4>1. pc' = "off"
                BY <1>0, <3>2, Moves
            <4> QED BY <2>0, <3>0, <4>1 DEF Branch
        <3>3. CASE Republish
            <4>1. pc = "republish" /\ pc' = "rerequest"
                BY <1>0, <3>3, Moves
            <4> QED BY <2>0, <3>0, <4>1 DEF Branch
        <3>4. CASE Publish \/ ResumeReplies \/ Revise \/ Agree \/ PushFix \/ MergeIn \/ Follow \/ Dispatch \/ Verify
            <4>1. /\ pc \in {"loop", "revise", "agree", "push", "update", "watch"} \cup Reading
                  /\ pc' \in {"open", "answer", "agree", "commit", "pushed", "resolve", "watch", "dispatched", "verify"}
                BY <1>0, <3>4, Moves
            <4> QED BY <2>0, <3>0, <4>1 DEF Branch, Reading
        <3>5. CASE Reads \/ FrozenChecks
            <4>1. pc \in {"verify"} \cup Reading /\ pc' \in {"check"} \cup Reading
                BY <1>0, <3>5, Moves
            <4> QED BY <2>0, <3>0, <4>1 DEF Branch, Reading
        <3> QED BY <1>2, <2>4, <3>1, <3>2, <3>3, <3>4, <3>5 DEF Calm
    <2> QED BY <2>1, <2>2, <2>3, <2>4
<1>3. CASE \E verdict \in Verdict : Accept(verdict) \/ Extend(verdict) \/ Reject(verdict)
    <2>1. made' = made /\ Tip' = Tip
        BY <1>0, <1>3, MadeIs DEF Plain
    <2>2. KeepsHead /\ d'.stage \in {"built", "dev_checks"} /\ pc = "loop" /\ pc' \in {"loop", "building", "off"}
        <3>1. PICK verdict \in Verdict : Accept(verdict) \/ Extend(verdict) \/ Reject(verdict)
            BY <1>3
        <3>2. d.stage = "built" /\ pc = "loop"
            BY <3>1 DEF Accept, Extend, Reject
        <3>3. KeepsHead /\ d'.stage \in {"built", "dev_checks"}
            BY <3>1, <3>2, JudgeFields DEF KeepsStage
        <3> QED BY <1>0, <3>1, <3>2, <3>3, Moves
    <2> QED BY <2>1, <2>2 DEF Branch, KeepsHead
<1>4. CASE Verifies \/ Close
    <2>1. made' = made /\ Tip' = Tip
        BY <1>0, <1>4, MadeIs DEF Plain
    <2>2. KeepsHead /\ pc \in {"verify", "loop"} /\ pc' \in {"loop", "off"} /\ (d'.stage = "done" \/ KeepsStage)
        BY <1>0, <1>4, Moves, SavingFields DEF Close
    <2> QED BY <2>1, <2>2 DEF Branch, KeepsHead, KeepsStage
<1>5. CASE Saving
    <2>1. made' = made /\ Tip' = Tip
        BY <1>0, <1>5, MadeIs DEF Plain
    <2>2. CASE \E c \in DevCriteria : WriteCheck(c) \/ EditedCheck(c) \/ RunCheck(c)
        <3>1. KeepsHead /\ KeepsStage /\ (pc' = pc \/ (pc = "check" /\ pc' = "verify"))
            BY <1>0, <2>2, Moves, CheckFields
        <3> QED BY <2>1, <3>1 DEF Branch, KeepsHead, KeepsStage
    <2>3. CASE (\E t \in Threads : Answer(t)) \/ RecordDispatch \/ SyncPush \/ RecordPush \/ ReadPull \/ MergeRefused
        <3>1. KeepsHead /\ KeepsStage
            BY <2>3, SavingFields
        <3>2. pc' = pc \/ (/\ pc \in {"dispatched", "loop", "pushed", "pull", "merge"}
                           /\ pc' \in {"watch", "poll", "pull", "answer", "update", "merge", "loop"})
            <4>1. CASE SyncPush
                BY <1>0, <4>1, Moves
            <4>2. CASE ~ SyncPush
                BY <1>0, <2>3, <4>2, Moves
            <4> QED BY <4>1, <4>2
        <3> QED BY <2>1, <3>1, <3>2 DEF Branch, KeepsHead, KeepsStage
    <2>4. CASE ChecksWritten \/ ReviewPasses \/ Merged \/ DeploymentSucceeds
        <3>1. KeepsHead /\ d'.stage \in {"accepted", "merging", "deploying", "verifying"}
            BY <2>4, SavingFields
        <3>2. pc \in {"loop", "threads", "confirm", "pull", "watch"} /\ pc' = "loop"
            BY <1>0, <2>4, Moves
        <3> QED BY <2>1, <3>1, <3>2 DEF Branch, KeepsHead
    <2>5. CASE ReviewObjects \/ ReadFindings \/ ReadNothing \/ Answered \/ Requested \/ Rereview
        <3>1. KeepsHead
            BY <2>5, SavingFields
        <3>2. pc \in {"answer", "request", "rerequest"} \cup Reading /\ pc' \in {"loop", "revise", "request"}
            BY <1>0, <2>5, Moves DEF Reading
        <3>3. d.head = d.last
            BY <3>2 DEF Placed, Branch, Revising
        <3> QED BY <2>1, <3>1, <3>2, <3>3 DEF Branch, KeepsHead, Reading
    <2>6. CASE Start
        <3>1. KeepsHead /\ KeepsStage /\ pc = "off" /\ pc' \in {"building", "loop"} /\ Tip = d.last
            BY <1>0, <2>6, Moves, SavingFields DEF Start
        <3> QED BY <2>1, <3>1 DEF Branch, KeepsHead, KeepsStage
    <2> QED BY <1>5, <2>2, <2>3, <2>4, <2>5, <2>6 DEF Saving
<1>6. CASE BuildMore
    <2>1. Grows("runner") /\ pc = "building" /\ pc' = "loop" /\ d'.stage = d.stage /\ d'.head = d.head /\ d'.last = Tip + 1
        BY <1>0, <1>6, Moves, MadeIs, HeadingFields DEF KeepsStage
    <2>2. Tip = d.last /\ d.stage = "built"
        BY <2>1 DEF Branch, Placed
    <2> QED BY <1>0, <2>1, <2>2 DEF Branch, Author
<1>7. CASE Heading /\ ~ BuildMore
    <2>1. made' = made /\ Tip' = Tip
        BY <1>0, <1>7, MadeIs DEF Plain
    <2>2. CASE Opened
        BY <1>0, <2>1, <2>2, Moves, HeadingFields DEF Branch
    <2>3. CASE RecordFix
        BY <1>0, <2>1, <2>3, Moves, HeadingFields DEF Branch
    <2>4. CASE RecordMerge
        <3>1. d.stage = "merging"
            BY <1>0, <2>4, Moves DEF Placed, Merging
        <3> QED BY <1>0, <2>1, <2>4, <3>1, Moves, HeadingFields DEF Branch, KeepsStage
    <2>5. CASE RecordHead
        BY <1>0, <2>1, <2>5, Moves, HeadingFields DEF Branch
    <2> QED BY <1>7, <2>2, <2>3, <2>4, <2>5 DEF Heading
<1>8. CASE MergePull /\ UNCHANGED <<d, disk, work, issue>> /\ pc' = "confirm"
    <2>1. made' = made /\ Tip' = Tip
        BY <1>0, <1>8, MadeIs DEF Plain
    <2>2. pc = "merge"
        BY <1>0, <1>8, Moves
    <2> QED BY <1>8, <2>1, <2>2 DEF Branch
<1> QED BY <1>1, <1>2, <1>3, <1>4, <1>5, <1>6, <1>7, <1>8, Kinds DEF Heading

\* Only the steps that take the branch's head change which commits are accepted.
LEMMA HeadStays ==
    ASSUME IInv, [Next]_vars, ~ Heading
    PROVE  KeepsHead
<1> USE DEF IInv
<1>1. CASE Calm
    BY <1>1, CalmIs DEF Placed, KeepsHead
<1>2. CASE \E verdict \in Verdict : Accept(verdict) \/ Extend(verdict) \/ Reject(verdict)
    BY <1>2, JudgeFields
<1>3. CASE Saving
    BY <1>3, CheckFields, SavingFields DEF Saving
<1>4. CASE MergePull /\ UNCHANGED <<d, disk, work, issue>>
    BY <1>4 DEF KeepsHead
<1> QED BY <1>1, <1>2, <1>3, <1>4, FailingFields, SavingFields, Kinds

\* What has been accepted stays so.
LEMMA AcceptedStays ==
    ASSUME IInv, [Next]_vars
    PROVE  /\ d.last \in Nat /\ d'.last \in Nat /\ d.last <= d'.last
           /\ \A i \in 1..d.last : made'[i] = made[i]
<1> USE DEF IInv
<1>0. Tip \in Nat /\ d.last \in Nat /\ d'.last \in Nat /\ d.last <= Tip
    BY BranchIs, DeliveryIs, DeliveryStep DEF TypeOK, Branch
<1>1. d'.last = d.last \/ d'.last = Tip \/ d'.last = Tip + 1
    BY HeadStays, HeadingFields DEF Heading, KeepsHead
<1>2. made' = made \/ UserResets \/ \E by \in Author : Grows(by)
    BY MadeIs, Kinds DEF Plain, Calm, Heading, Author
<1>3. \A i \in 1..d.last : made'[i] = made[i]
    <2>1. \A i \in 1..d.last : i \in 1..Tip
        BY <1>0
    <2> QED BY <1>2, <2>1, GrowsIs, ResetsIs
<1> QED BY <1>0, <1>1, <1>3

-----------------------------------------------------------------------------
(* What GitHub has.                                                        *)

\* Where the head is on GitHub unless somebody else pushes.
Seen == (Revising \ {"push", "request"}) \cup Reading

\* GitHub gets accepted commits only.
LEMMA PublishedStep ==
    ASSUME IInv, [Next]_vars
    PROVE  Published'
<1> USE DEF IInv
<1>0. /\ Tip \in Nat /\ d.last \in Nat /\ d.head \in Nat /\ d'.head \in Nat /\ d'.last \in Nat /\ d = disk
      /\ d.head <= d.last /\ d.last <= d'.last /\ Foreign \notin Nat
      /\ hub.head \in Nat \cup {Foreign} /\ answered \in [Threads -> Nat]
    <2>1. d' \in DeliveryType /\ d \in DeliveryType /\ d = disk
        BY DeliveryStep DEF TypeOK, Placed
    <2>2. d'.head \in Nat /\ d.head \in Nat
        BY <2>1, DeliveryIs
    <2>3. hub.head \in Nat \cup {Foreign} /\ answered \in [Threads -> Nat]
        BY DEF TypeOK
    <2> QED BY <2>1, <2>2, <2>3, BranchIs, AcceptedStays, DeliveryAssumption DEF Branch
<1>1. CASE Pushing /\ hub'.head = Tip /\ hub.head # Foreign
    <2>1. pc \in {"loop", "push", "republish"} /\ d'.head = d.head /\ d'.last = d.last
        <3>1. CASE SyncPush
            BY <1>0, <3>1, Moves, SavingFields DEF KeepsHead
        <3>2. CASE Publish \/ PushFix \/ Republish
            BY <1>0, <3>2, Moves, CalmIs DEF Calm
        <3> QED BY <1>1, <3>1, <3>2 DEF Pushing
    <2>2. Tip = d.last /\ answered' = answered
        <3>1. \A t \in Threads : Answer(t) => pc = "answer"
            BY DEF Answer
        <3> QED BY <2>1, <3>1, HistoryIs DEF Branch
    <2>3. hub.head \in Nat /\ hub.head <= d.last
        BY <1>0, <1>1 DEF Published
    <2>4. \A t \in Threads : answered'[t] <= hub'.head
        <3>1. \A t \in Threads : answered[t] \in Nat /\ answered[t] <= hub.head
            BY <1>0, <2>3 DEF Published
        <3> QED BY <1>0, <1>1, <2>2, <2>3, <3>1
    <2> QED BY <1>0, <1>1, <2>1, <2>2, <2>4 DEF Published
<1>2. CASE hub'.head = hub.head
    <2>1. ASSUME hub.head \in Nat PROVE hub'.head <= d'.last /\ \A t \in Threads : answered'[t] <= hub'.head
        <3>1. hub.head <= d.last /\ \A t \in Threads : answered[t] <= hub.head
            BY <2>1 DEF Published
        <3>2. (\E t \in Threads : Answer(t)) => d.head <= hub.head
            BY <2>1 DEF Answer, Published, Revising
        <3>3. \A t \in Threads : answered'[t] \in {answered[t], d.head}
            BY <1>0, HistoryIs
        <3>4. \A t \in Threads : answered'[t] <= hub.head
            BY <1>0, <3>1, <3>2, <3>3, HistoryIs
        <3> QED BY <1>0, <1>2, <2>1, <3>1, <3>4
    <2>2. ASSUME pc' \in Seen, hub.head \in Nat PROVE d'.head <= hub'.head
        <3>1. CASE SyncPush
            <4>1. d.stage \in {"reviewing", "revising"} /\ pc = "loop"
                BY <1>0, <2>2, <3>1, Moves DEF Seen, Reading, Revising
            <4>2. d.head = Tip
                BY <4>1 DEF Branch
            <4>3. hub'.head = Tip
                BY <3>1, <4>2, PushIs DEF SyncPush
            <4> QED BY <1>0, <3>1, <4>2, <4>3, SavingFields DEF KeepsHead
        <3>2. CASE PushFix
            <4>1. hub'.head = Tip /\ d'.head = d.head /\ d.head = d.last /\ Tip = d.last
                BY <1>0, <3>2, PushIs, CalmIs DEF Calm, PushFix, Placed, Branch, Revising
            <4> QED BY <1>0, <4>1
        <3>3. CASE ~ SyncPush /\ ~ PushFix
            <4>1. ~ Heading
                BY <1>0, <2>2, Moves DEF Heading, Seen, Reading, Revising
            <4>2. d'.head = d.head
                BY <4>1, HeadStays DEF KeepsHead
            <4>3. pc \in Seen
                <5>1. CASE Calm
                    <6>1. CASE Others \/ UserResets \/ UNCHANGED vars \/ OpenPull \/ Edit \/ Pause \/ Crash
                        BY <1>0, <2>2, <6>1, Moves DEF Seen, Reading, Revising
                    <6>2. CASE ~ (Others \/ UserResets \/ UNCHANGED vars \/ OpenPull \/ Edit \/ Pause \/ Crash)
                        BY <1>0, <2>2, <3>3, <5>1, <6>2, Moves DEF Calm, Seen, Reading, Revising
                    <6> QED BY <6>1, <6>2
                <5>2. CASE Saving
                    <6>1. CASE (\E c \in DevCriteria : WriteCheck(c) \/ EditedCheck(c) \/ RunCheck(c)) \/ \E t \in Threads : Answer(t)
                        BY <1>0, <2>2, <6>1, Moves DEF Seen, Reading, Revising
                    <6>2. CASE ~ (\E c \in DevCriteria : WriteCheck(c) \/ EditedCheck(c) \/ RunCheck(c)) /\ ~ \E t \in Threads : Answer(t)
                        BY <1>0, <2>2, <3>3, <5>2, <6>2, Moves DEF Saving, Seen, Reading, Revising
                    <6> QED BY <6>1, <6>2
                <5>3. CASE ~ Calm /\ ~ Saving
                    BY <1>0, <2>2, <4>1, <5>3, Moves, Kinds DEF Seen, Reading, Revising
                <5> QED BY <5>1, <5>2, <5>3
            <4> QED BY <1>2, <2>2, <4>2, <4>3 DEF Published, Seen
        <3> QED BY <3>1, <3>2, <3>3
    <2> QED BY <1>0, <1>2, <2>1, <2>2 DEF Published, Seen
<1>3. CASE hub'.head = Foreign
    BY <1>0, <1>3 DEF Published
<1> QED BY <1>1, <1>2, <1>3, HubIs

-----------------------------------------------------------------------------
(* Rounds of revision.                                                     *)

\* Rounds stay within their limit.
LEMMA RoundsStep ==
    ASSUME IInv, [Next]_vars
    PROVE  Rounds'
<1> USE DEF IInv
<1>0. d = disk /\ (pc' = "agree" => work'.left \subseteq Threads)
    BY WorkTyped DEF Placed
<1> DEFINE Tired == pc' \in Revising \/ d'.pending # {}
<1> SUFFICES ASSUME Tired PROVE d'.round < MaxReviewRounds
    BY <1>0 DEF Rounds
<1>1. CASE Calm
    <2>0. d' = d
        BY <1>0, <1>1, CalmIs
    <2>1. pc' \in Revising => pc \in Revising \/ d.pending # {}
        <3>1. CASE ResumeReplies
            BY <3>1 DEF ResumeReplies
        <3>2. CASE Others \/ UserResets \/ UNCHANGED vars \/ OpenPull \/ Edit \/ Pause \/ Crash
            BY <1>0, <3>2, Moves DEF Revising
        <3>3. CASE ~ (Others \/ UserResets \/ UNCHANGED vars \/ OpenPull \/ Edit \/ Pause \/ Crash \/ ResumeReplies)
            BY <1>0, <1>1, <3>3, Moves DEF Calm, Reading, Revising
        <3> QED BY <3>1, <3>2, <3>3
    <2> QED BY <2>0, <2>1 DEF Rounds
<1>2. CASE Failing
    <2>1. pc' = "off" /\ KeepsRounds
        BY <1>0, <1>2, Moves, FailingFields
    <2> QED BY <2>1 DEF Rounds, KeepsRounds, Revising
<1>3. CASE \E verdict \in Verdict : Accept(verdict) \/ Extend(verdict) \/ Reject(verdict)
    <2>1. pc' \notin Revising
        BY <1>0, <1>3, Moves DEF Revising
    <2>2. KeepsRounds
        BY <1>3, JudgeFields
    <2> QED BY <2>1, <2>2 DEF Rounds, KeepsRounds
<1>4. CASE Verifies \/ Close
    <2>1. pc' \notin Revising /\ KeepsRounds
        BY <1>0, <1>4, Moves, SavingFields DEF Revising
    <2> QED BY <2>1 DEF Rounds, KeepsRounds
<1>5. CASE Saving
    <2>1. CASE \E c \in DevCriteria : WriteCheck(c) \/ EditedCheck(c) \/ RunCheck(c)
        <3>1. KeepsRounds /\ (pc' = pc \/ pc' = "verify")
            BY <1>0, <2>1, Moves, CheckFields
        <3> QED BY <3>1 DEF Rounds, KeepsRounds, Revising
    <2>2. CASE (\E t \in Threads : Answer(t)) \/ RecordDispatch \/ SyncPush \/ RecordPush \/ ReadPull \/ MergeRefused
        <3>1. d'.round = d.round /\ d'.pending \in {d.pending, {}}
            BY <2>2, SavingFields
        <3>2. pc' \in Revising => pc \in Revising
            <4>1. CASE SyncPush
                BY <1>0, <4>1, Moves DEF Revising
            <4>2. CASE \E t \in Threads : Answer(t)
                BY <1>0, <4>2, Moves DEF Revising
            <4>3. CASE RecordDispatch \/ RecordPush \/ ReadPull \/ MergeRefused
                BY <1>0, <4>3, Moves DEF Revising
            <4> QED BY <2>2, <4>1, <4>2, <4>3
        <3> QED BY <3>1, <3>2 DEF Rounds
    <2>3. CASE ChecksWritten \/ ReviewPasses \/ ReviewObjects \/ Merged \/ Rereview \/ DeploymentSucceeds \/ Start
        <3>1. KeepsRounds
            BY <2>3, SavingFields
        <3>2. pc' \notin Revising
            BY <1>0, <2>3, Moves DEF Revising
        <3> QED BY <3>1, <3>2 DEF Rounds, KeepsRounds
    <2>4. CASE ReadFindings \/ ReadNothing
        <3>1. KeepsRounds /\ (pc' = "loop" \/ d.round < MaxReviewRounds)
            BY <1>0, <2>4, Moves, SavingFields
        <3> QED BY <3>1 DEF Rounds, KeepsRounds, Revising
    <2>5. CASE Answered \/ Requested
        <3>1. d' = d \/ (d'.pending = {} /\ pc' = "loop")
            BY <1>0, <2>5, Moves, SavingFields
        <3>2. pc \in Revising
            BY <1>0, <2>5, Moves DEF Revising
        <3> QED BY <3>1, <3>2 DEF Rounds, Revising
    <2> QED BY <1>5, <2>1, <2>2, <2>3, <2>4, <2>5 DEF Saving
<1>6. CASE Heading
    <2>1. CASE RecordFix
        <3>1. pc = "committed" /\ d'.round = d.round
            BY <1>0, <2>1, Moves, HeadingFields
        <3> QED BY <3>1 DEF Rounds, Revising
    <2>2. CASE BuildMore \/ Opened \/ RecordMerge \/ RecordHead
        <3>1. KeepsRounds /\ pc' \notin Revising
            BY <1>0, <2>2, Moves, HeadingFields DEF Revising
        <3> QED BY <3>1 DEF Rounds, KeepsRounds
    <2> QED BY <1>6, <2>1, <2>2 DEF Heading
<1>7. CASE MergePull /\ UNCHANGED <<d, disk, work, issue>> /\ pc' = "confirm"
    BY <1>7 DEF Rounds, Revising
<1> QED BY <1>1, <1>2, <1>3, <1>4, <1>5, <1>6, <1>7, Kinds

-----------------------------------------------------------------------------
(* What is merged.                                                         *)

\* Who reads: a poll goes on by asking, and otherwise is where it was.
LEMMA ReadsAre ==
    ASSUME IInv, [Next]_vars, pc' \in Reading \ {"poll"}, ~ Reads
    PROVE  pc' = pc /\ work' = work
<1> USE DEF IInv
<1>0. d = disk
    BY DEF Placed
<1>1. CASE Calm
    <2>1. CASE Others \/ UserResets \/ UNCHANGED vars \/ OpenPull \/ Edit
        <3>1. work' = work
            BY <2>1, OthersIs DEF UserResets, vars, OpenPull, Edit
        <3> QED BY <1>0, <2>1, <3>1, Moves
    <2>2. CASE Pause \/ Crash
        BY <1>0, <2>2, Moves DEF Reading
    <2>3. CASE ~ (Others \/ UserResets \/ UNCHANGED vars \/ OpenPull \/ Edit \/ Pause \/ Crash)
        BY <1>0, <1>1, <2>3, Moves DEF Calm, Reading
    <2> QED BY <2>1, <2>2, <2>3
<1>2. CASE Saving
    <2>1. CASE SyncPush
        BY <1>0, <2>1, Moves DEF Reading
    <2>2. CASE \E t \in Threads : Answer(t)
        BY <2>2 DEF Answer, Reading
    <2>3. CASE \E c \in DevCriteria : WriteCheck(c) \/ EditedCheck(c) \/ RunCheck(c)
        BY <2>3 DEF WriteCheck, EditedCheck, RunCheck, Reading
    <2>4. CASE ~ SyncPush /\ ~ (\E t \in Threads : Answer(t)) /\ ~ \E c \in DevCriteria : WriteCheck(c) \/ EditedCheck(c) \/ RunCheck(c)
        BY <1>0, <1>2, <2>4, Moves DEF Saving, Reading
    <2> QED BY <2>1, <2>2, <2>3, <2>4
<1>3. CASE Heading
    BY <1>0, <1>3, Moves DEF Heading, Reading
<1>4. CASE ~ Calm /\ ~ Saving /\ ~ Heading
    BY <1>0, <1>4, Moves, Kinds DEF Reading
<1> QED BY <1>1, <1>2, <1>3, <1>4

\* A poll that has found nothing has met nothing out of order.
LEMMA PolledStep ==
    ASSUME IInv, [Next]_vars
    PROVE  Polled'
<1> USE DEF IInv
<1> SUFFICES ASSUME pc' \in Reading \ {"poll"}, work'.found = {}, ~ work'.wait
             PROVE  work'.sound
    BY DEF Polled, Reading
<1>0. /\ work \in [found : SUBSET Finding, wait : BOOLEAN, sound : BOOLEAN, replies : SUBSET Threads, changed : BOOLEAN,
                   base : Nat, left : SUBSET (Threads \cup DevCriteria), now : SUBSET DevCriteria]
      /\ opinion.checks \in {"none", "running", "green", "red"}
      /\ opinion.bot \in {"none", "silent", "approves", "objects"}
    BY DEF TypeOK
<1>1. CASE ReadHead
    BY <1>1 DEF ReadHead, Idle
<1>2. CASE ReadChecks
    <2> DEFINE found == IF opinion.checks = "red" THEN {"check"} ELSE {}
               wait == opinion.checks = "running"
               fine == opinion.checks \in {"none", "green"}
    <2>1. work' = [work EXCEPT !.found = work.found \cup found, !.wait = work.wait \/ wait, !.sound = work.sound /\ fine]
        BY <1>2 DEF ReadChecks, Learn
    <2>2. work'.found = work.found \cup found /\ (work'.wait <=> work.wait \/ wait) /\ (work'.sound <=> work.sound /\ fine)
        BY <1>0, <2>1
    <2>3. fine
        BY <1>0, <2>2
    <2>4. work.found = {} /\ ~ work.wait /\ pc = "checks"
        BY <1>2, <2>2 DEF ReadChecks
    <2> QED BY <2>2, <2>3, <2>4 DEF Polled, Reading
<1>3. CASE ReadReviews
    <2> DEFINE wait == opinion.bot = "none" \/ Unapproved
    <2>1. work' = [work EXCEPT !.found = work.found \cup ReviewFindings, !.wait = work.wait \/ wait, !.sound = work.sound /\ NoObjection]
        BY <1>3 DEF ReadReviews, Learn
    <2>2. work'.found = work.found \cup ReviewFindings /\ (work'.wait <=> work.wait \/ wait) /\ (work'.sound <=> work.sound /\ NoObjection)
        BY <1>0, <2>1
    <2>3. opinion.bot # "none" /\ ~ Unapproved /\ opinion.bot # "objects" /\ opinion.person # "objects"
        BY <2>2 DEF ReviewFindings
    <2>4. NoObjection
        BY <1>0, <2>3 DEF NoObjection
    <2>5. work.found = {} /\ ~ work.wait /\ pc = "reviews"
        BY <1>3, <2>2 DEF ReadReviews
    <2> QED BY <2>2, <2>4, <2>5 DEF Polled, Reading
<1>4. CASE ~ Reads
    BY <1>4, ReadsAre DEF Polled
<1> QED BY <1>1, <1>2, <1>3, <1>4 DEF Reads

\* A head that had been reviewed stays reviewed.
LEMMA ReviewedStays ==
    ASSUME IInv, [Next]_vars, NEW head \in Nat, NEW last \in Nat, last <= d.last, Reviewed(head, last)
    PROVE  Reviewed(head, last)'
<1>1. PICK h \in cleared : h <= head /\ \A i \in h + 1..last : made[i].by = "update"
    BY DEF Reviewed
<1>2. h \in cleared' /\ h \in Nat
    BY <1>1, HistoryIs DEF IInv, TypeOK
<1>3. \A i \in h + 1..last : made'[i] = made[i]
    <2>1. \A i \in h + 1..last : i \in 1..d.last
        BY <1>2, AcceptedStays
    <2> QED BY <2>1, AcceptedStays
<1> QED BY <1>1, <1>2, <1>3 DEF Reviewed

\* The review gate passes a head that really had been reviewed.
LEMMA PassIsReview ==
    ASSUME IInv, ReviewPasses
    PROVE  d.head = d.last /\ cleared' = cleared \cup {d.head}
<1> USE DEF IInv
<1>1. pc = "threads" /\ d.stage = "reviewing" /\ ~ work.wait /\ work.found = {} /\ OpenThreads = {}
    BY DEF ReviewPasses, Findings
<1>2. work.sound
    BY <1>1 DEF Polled, Reading
<1>3. d.head = d.last
    BY <1>1 DEF Branch
<1> QED BY <1>1, <1>2, <1>3 DEF ReviewPasses

\* A gate passes only by the handler that passes it.
LEMMA GatesPass ==
    ASSUME IInv, [Next]_vars
    PROVE  /\ d'.gates["merge"] = "pass" => d.gates["merge"] = "pass" \/ Merged
           /\ d'.gates["deploy"] = "pass" => d.gates["deploy"] = "pass" \/ DeploymentSucceeds
           /\ d'.gates["criteria_dev"] = "pass" => d.gates["criteria_dev"] = "pass" \/ Verifies
           /\ d'.gates["criteria_tests"] = "pass" => d.gates["criteria_tests"] = "pass" \/ \E verdict \in Verdict : Accept(verdict)
<1> USE DEF IInv, Gate, KeepsGates
<1>0. d \in DeliveryType /\ d.gates \in [Gate -> {"none", "pass", "fail"}]
    BY DeliveryIs DEF TypeOK
<1>1. CASE Calm
    BY <1>1, CalmIs DEF Placed
<1>2. CASE Failing
    BY <1>2, FailingFields
<1>3. CASE \E verdict \in Verdict : Accept(verdict) \/ Extend(verdict) \/ Reject(verdict)
    <2>1. PICK verdict \in Verdict : Accept(verdict) \/ Extend(verdict) \/ Reject(verdict)
        BY <1>3
    <2>2. CASE Accept(verdict)
        BY <1>0, <2>2, JudgeFields
    <2>3. CASE Extend(verdict) \/ Reject(verdict)
        BY <1>0, <2>3, JudgeFields
    <2> QED BY <2>1, <2>2, <2>3
<1>4. CASE Saving \/ Verifies \/ Close
    <2>1. CASE \E c \in DevCriteria : WriteCheck(c) \/ EditedCheck(c) \/ RunCheck(c)
        BY <2>1, CheckFields
    <2>2. CASE ReviewPasses \/ Rereview
        BY <1>0, <2>2, SavingFields
    <2>3. CASE Merged \/ DeploymentSucceeds \/ Verifies
        BY <1>0, <2>3, SavingFields
    <2>4. CASE Start
        BY <1>0, <2>4, SavingFields
    <2>5. CASE (\E t \in Threads : Answer(t)) \/ RecordDispatch \/ SyncPush \/ RecordPush \/ ReadPull \/ MergeRefused
               \/ ChecksWritten \/ ReviewObjects \/ ReadFindings \/ ReadNothing \/ Answered \/ Requested \/ Close
        <3>1. d'.gates = d.gates
            BY <2>5, SavingFields
        <3> QED BY <3>1
    <2> QED BY <1>4, <2>1, <2>2, <2>3, <2>4, <2>5 DEF Saving
<1>5. CASE Heading
    <2>1. d'.gates = d.gates
        BY <1>5, HeadingFields DEF Heading
    <2> QED BY <2>1
<1>6. CASE MergePull /\ UNCHANGED <<d, disk, work, issue>>
    BY <1>6
<1> QED BY <1>1, <1>2, <1>3, <1>4, <1>5, <1>6, Kinds

\* The stages that matter: how each is entered.
LEMMA StagesEnter ==
    ASSUME IInv, [Next]_vars
    PROVE  /\ d'.stage = "merging" => d.stage = "merging" \/ ReviewPasses
           /\ d'.stage \notin {"built", "dev_checks"} => d.stage \notin {"built", "dev_checks"} \/ ChecksWritten
           /\ d'.stage # "built" => d.stage # "built" \/ \E verdict \in Verdict : Accept(verdict)
           /\ d.stage = "done" => d'.stage = "done"
           /\ d.stage # "built" => d'.stage # "built"
<1> USE DEF IInv, KeepsStage
<1>0. d = disk
    BY DEF Placed
<1>1. CASE Calm
    BY <1>1, CalmIs DEF Placed
<1>2. CASE Failing
    BY <1>2, FailingFields
<1>3. CASE \E verdict \in Verdict : Accept(verdict) \/ Extend(verdict) \/ Reject(verdict)
    <2>1. PICK verdict \in Verdict : Accept(verdict) \/ Extend(verdict) \/ Reject(verdict)
        BY <1>3
    <2>2. d.stage = "built"
        BY <2>1 DEF Accept, Extend, Reject
    <2> QED BY <2>1, <2>2, JudgeFields
<1>4. CASE Saving \/ Verifies \/ Close
    <2>1. CASE \E c \in DevCriteria : WriteCheck(c) \/ EditedCheck(c) \/ RunCheck(c)
        BY <2>1, CheckFields
    <2>2. CASE (\E t \in Threads : Answer(t)) \/ RecordDispatch \/ SyncPush \/ RecordPush \/ ReadPull \/ MergeRefused
               \/ Start \/ Close
        <3>1. d'.stage = d.stage
            BY <2>2, SavingFields
        <3> QED BY <3>1
    <2>3. CASE ReviewObjects \/ ReviewPasses \/ ReadFindings \/ ReadNothing \/ Answered \/ Requested \/ Rereview
        <3>1. d.stage \in {"reviewing", "revising", "merging"}
            BY <1>0, <2>3, Moves DEF Placed, Reading, Revising, Merging
        <3> QED BY <2>3, <3>1, SavingFields
    <2>4. CASE Merged \/ DeploymentSucceeds \/ Verifies
        <3>1. d.stage \in {"merging", "deploying", "verifying"}
            BY <1>0, <2>4, Moves DEF Placed, Merging
        <3> QED BY <2>4, <3>1, SavingFields
    <2>5. CASE ChecksWritten
        <3>1. d.stage = "dev_checks"
            BY <1>0, <2>5, Moves
        <3> QED BY <2>5, <3>1, SavingFields
    <2> QED BY <1>4, <2>1, <2>2, <2>3, <2>4, <2>5 DEF Saving
<1>5. CASE Heading
    <2>1. CASE Opened
        <3>1. d.stage = "accepted"
            BY <1>0, <2>1, Moves DEF Placed
        <3> QED BY <2>1, <3>1, HeadingFields
    <2>2. CASE ~ Opened
        BY <1>5, <2>2, HeadingFields DEF Heading
    <2> QED BY <2>1, <2>2
<1>6. CASE MergePull /\ UNCHANGED <<d, disk, work, issue>>
    BY <1>6
<1> QED BY <1>1, <1>2, <1>3, <1>4, <1>5, <1>6, Kinds

\* What is being merged, and what was merged, has been reviewed.
LEMMA GatedStep ==
    ASSUME IInv, [Next]_vars
    PROVE  Gated'
<1> USE DEF IInv
<1>0. /\ d = disk /\ Tip \in Nat /\ d.head \in Nat /\ d.last \in Nat /\ d'.head \in Nat /\ d'.last \in Nat
      /\ d.last <= d'.last /\ d.head <= d.last /\ cleared \subseteq Nat
    BY BranchIs, DeliveryIs, DeliveryStep, AcceptedStays DEF TypeOK, Placed, Branch
<1>1. ASSUME d'.stage = "merging" PROVE Reviewed(d.head, d.last)'
    <2>1. CASE ReviewPasses
        <3>1. d.head = d.last /\ d.head \in cleared'
            BY <2>1, PassIsReview
        <3>2. d'.head = d.head /\ d'.last = d.last
            BY <2>1, SavingFields DEF KeepsHead
        <3>3. \A i \in d'.head + 1..d'.last : made'[i].by = "update"
            BY <1>0, <3>1, <3>2
        <3> QED BY <1>0, <3>1, <3>2, <3>3 DEF Reviewed
    <2>2. CASE d.stage = "merging"
        <3>1. Reviewed(d.head, d.last)
            BY <2>2 DEF Gated
        <3>2. PICK head \in Nat, last \in Nat : head = d.head /\ last = d.last
            BY <1>0
        <3>3. Reviewed(head, last)'
            BY <1>0, <3>1, <3>2, ReviewedStays
        <3>4. PICK h \in cleared' : h <= head /\ \A i \in h + 1..last : made'[i].by = "update"
            BY <3>3 DEF Reviewed
        <3>5. h \in Nat
            BY <3>4, TypesStep DEF TypeOK
        <3>6. CASE ~ Heading
            BY <3>2, <3>4, <3>6, HeadStays DEF Reviewed, KeepsHead
        <3>7. CASE RecordMerge
            <4>1. Tip = d.last + 1 /\ made[Tip].by = "update" /\ d'.head = d.head /\ d'.last = Tip
                BY <1>0, <3>7, Moves, HeadingFields DEF Branch
            <4>2. made' = made
                BY <3>7, MadeIs DEF Plain, Heading, RecordMerge, BuildMore
            <4>3. \A i \in h + 1..d'.last : made'[i].by = "update"
                <5>1. \A i \in h + 1..d'.last : i \in h + 1..d.last \/ i = Tip
                    BY <1>0, <3>5, <4>1
                <5> QED BY <3>2, <3>4, <4>1, <4>2, <5>1
            <4> QED BY <3>2, <3>4, <4>1, <4>3 DEF Reviewed
        <3>8. CASE RecordHead
            <4>1. Tip = d.last /\ d'.head = Tip /\ d'.last = d.last
                BY <1>0, <3>8, Moves, HeadingFields DEF Branch
            <4>2. h <= d'.head
                BY <1>0, <3>2, <3>4, <3>5, <4>1
            <4> QED BY <3>2, <3>4, <4>1, <4>2 DEF Reviewed
        <3>9. CASE BuildMore \/ Opened \/ RecordFix
            BY <1>0, <2>2, <3>9, Moves DEF Placed, Revising
        <3> QED BY <3>6, <3>7, <3>8, <3>9 DEF Heading
    <2> QED BY <1>1, <2>1, <2>2, StagesEnter
<1>2. ASSUME d'.gates["merge"] = "pass"
      PROVE  hub'.pull = "merged" /\ hub'.merged \in Nat /\ hub'.merged <= d'.last /\ Reviewed(hub.merged, hub.merged)'
    <2>1. hub.pull = "merged" /\ hub.merged \in Nat /\ hub.merged <= d.last /\ Reviewed(hub.merged, hub.merged)
        <3>1. CASE d.gates["merge"] = "pass"
            BY <3>1 DEF Gated
        <3>2. CASE Merged
            <4>1. d.stage = "merging"
                BY <1>0, <3>2, Moves DEF Placed, Merging
            <4>2. hub.pull = "merged" /\ hub.merged = d.head
                BY <3>2 DEF Merged, Gated
            <4>3. PICK h \in cleared : h <= d.head /\ \A i \in h + 1..d.last : made[i].by = "update"
                BY <4>1 DEF Gated, Reviewed
            <4>4. \A i \in h + 1..d.head : made[i].by = "update"
                <5>1. \A i \in h + 1..d.head : i \in h + 1..d.last
                    BY <1>0, <4>3
                <5> QED BY <4>3, <5>1
            <4> QED BY <1>0, <4>2, <4>3, <4>4 DEF Reviewed
        <3> QED BY <1>2, <3>1, <3>2, GatesPass
    <2>2. hub'.pull = "merged" /\ hub'.merged = hub.merged
        BY <2>1, HubIs
    <2>3. PICK head \in Nat : head = hub.merged
        BY <2>1
    <2>4. Reviewed(head, head)'
        BY <2>1, <2>3, ReviewedStays
    <2>5. Reviewed(hub.merged, hub.merged)'
        BY <2>2, <2>3, <2>4 DEF Reviewed
    <2>6. hub'.merged <= d'.last
        BY <1>0, <2>1, <2>2
    <2> QED BY <2>1, <2>2, <2>5, <2>6
<1>3. ASSUME pc' = "confirm" PROVE hub'.pull = "merged" /\ hub'.merged = d'.head
    <2>1. CASE MergePull
        <3>1. hub' = [hub EXCEPT !.pull = "merged", !.merged = hub.head] /\ hub.head = d.head /\ d' = d
            <4>1. ~ Fail
                BY <1>3 DEF Fail, FailWith
            <4> QED BY <2>1, <4>1 DEF MergePull, Unmoved
        <3> QED BY <3>1 DEF TypeOK
    <2>2. CASE ~ MergePull
        <3>1. pc = "confirm" /\ ~ Heading
            <4>1. CASE Calm
                <5>1. CASE Others \/ UserResets \/ UNCHANGED vars \/ OpenPull \/ Edit \/ Pause \/ Crash
                    BY <1>0, <1>3, <5>1, Moves DEF Heading
                <5>2. CASE ~ (Others \/ UserResets \/ UNCHANGED vars \/ OpenPull \/ Edit \/ Pause \/ Crash)
                    BY <1>0, <1>3, <4>1, <5>2, Moves DEF Calm, Reading
                <5>3. ~ Heading
                    BY <1>0, <1>3, Moves DEF Heading
                <5> QED BY <5>1, <5>2, <5>3
            <4>2. CASE Saving
                <5>1. CASE (\E c \in DevCriteria : WriteCheck(c) \/ EditedCheck(c) \/ RunCheck(c)) \/ \E t \in Threads : Answer(t)
                    BY <1>0, <1>3, <5>1, Moves DEF Heading
                <5>2. CASE ~ (\E c \in DevCriteria : WriteCheck(c) \/ EditedCheck(c) \/ RunCheck(c)) /\ ~ \E t \in Threads : Answer(t)
                    BY <1>0, <1>3, <4>2, <5>2, Moves DEF Saving
                <5> QED BY <1>0, <1>3, <5>1, <5>2, Moves DEF Heading
            <4>3. CASE ~ Calm /\ ~ Saving
                BY <1>0, <1>3, <2>2, <4>3, Moves, Kinds DEF Heading
            <4> QED BY <4>1, <4>2, <4>3
        <3> QED BY <3>1, HubIs, HeadStays DEF Gated, KeepsHead
    <2> QED BY <2>1, <2>2
<1> QED BY <1>1, <1>2, <1>3 DEF Gated

-----------------------------------------------------------------------------
(* What the checks showed.                                                 *)

\* Verdicts of the acceptor are not touched after the tests gate.
LEMMA VerdictsStay ==
    ASSUME IInv, [Next]_vars
    PROVE  /\ d'.judged = d.judged \/ d.stage = "built"
           /\ d'.checks = d.checks \/ \E c \in DevCriteria : WriteCheck(c) \/ EditedCheck(c) \/ RunCheck(c)
<1> USE DEF IInv, KeepsVerdicts
<1>1. CASE Calm
    BY <1>1, CalmIs DEF Placed
<1>2. CASE \E verdict \in Verdict : Accept(verdict) \/ Extend(verdict) \/ Reject(verdict)
    <2>1. d.stage = "built"
        BY <1>2 DEF Accept, Extend, Reject
    <2> QED BY <1>2, <2>1, JudgeFields
<1>3. CASE Saving
    <2>1. CASE \E c \in DevCriteria : WriteCheck(c) \/ EditedCheck(c) \/ RunCheck(c)
        BY <2>1, CheckFields
    <2>2. CASE ~ \E c \in DevCriteria : WriteCheck(c) \/ EditedCheck(c) \/ RunCheck(c)
        BY <1>3, <2>2, SavingFields DEF Saving
    <2> QED BY <2>1, <2>2
<1>4. CASE Heading
    BY <1>4, HeadingFields DEF Heading
<1>5. CASE MergePull /\ UNCHANGED <<d, disk, work, issue>>
    BY <1>5
<1> QED BY <1>1, <1>2, <1>3, <1>4, <1>5, FailingFields, SavingFields, Kinds

\* A check that is being run is run to its end, unless the run is stopped or dies.
LEMMA Runs ==
    ASSUME IInv, [Next]_vars, pc = "check"
    PROVE  \/ pc' = "check" /\ UNCHANGED work
           \/ work'.now = {}
<1> USE DEF IInv
<1>0. d = disk /\ d.stage = "verifying"
    BY DEF Placed
<1>1. CASE Calm
    <2>1. CASE Others \/ UserResets \/ UNCHANGED vars \/ OpenPull \/ Edit
        BY <2>1, OthersIs DEF UserResets, vars, OpenPull, Edit
    <2>2. CASE Pause \/ Crash
        BY <2>2 DEF Pause, Crash, Idle
    <2>3. CASE ~ (Others \/ UserResets \/ UNCHANGED vars \/ OpenPull \/ Edit \/ Pause \/ Crash)
        BY <1>0, <1>1, <2>3, Moves DEF Calm, Reading
    <2> QED BY <2>1, <2>2, <2>3
<1>2. CASE Saving
    <2>1. CASE \E c \in DevCriteria : RunCheck(c)
        <3>1. PICK c \in DevCriteria : work' = [work EXCEPT !.left = @ \ {c}, !.now = {}]
            BY <2>1 DEF RunCheck
        <3> QED BY <3>1 DEF TypeOK
    <2>2. CASE (\E c \in DevCriteria : WriteCheck(c) \/ EditedCheck(c)) \/ (\E t \in Threads : Answer(t))
        BY <2>2 DEF WriteCheck, EditedCheck, Answer
    <2>3. CASE ~ (\E c \in DevCriteria : WriteCheck(c) \/ EditedCheck(c) \/ RunCheck(c)) /\ ~ \E t \in Threads : Answer(t)
        BY <1>0, <1>2, <2>3, Moves DEF Saving, Reading
    <2> QED BY <2>1, <2>2, <2>3
<1>3. CASE Heading \/ Verifies \/ Close \/ MergePull \/ \E verdict \in Verdict : Accept(verdict) \/ Extend(verdict) \/ Reject(verdict)
    <2>1. ~ Heading /\ ~ Verifies /\ ~ MergePull
        BY <1>0, Moves DEF Heading
    <2>2. ~ Close /\ ~ \E verdict \in Verdict : Accept(verdict) \/ Extend(verdict) \/ Reject(verdict)
        BY DEF Close, Accept, Extend, Reject
    <2> QED BY <1>3, <2>1, <2>2
<1>4. CASE Failing
    BY <1>4, FailingIs DEF Idle
<1> QED BY <1>1, <1>2, <1>3, <1>4, Kinds

\* A check that is being run is as it was hashed, or it slipped.
LEMMA CheckingStep ==
    ASSUME IInv, [Next]_vars
    PROVE  Checking'
<1> USE DEF IInv
<1>0. /\ work \in [found : SUBSET Finding, wait : BOOLEAN, sound : BOOLEAN, replies : SUBSET Threads, changed : BOOLEAN,
                   base : Nat, left : SUBSET (Threads \cup DevCriteria), now : SUBSET DevCriteria]
      /\ file \in [DevCriteria -> {"none", "red", "edited", "green"}]
    BY DEF TypeOK
<1>1. CASE FrozenChecks
    <2>1. PICK c \in DevCriteria : FrozenCheck(c)
        BY <1>1 DEF FrozenChecks
    <2>2. pc' = "check" /\ work'.now = {c} /\ file[c] # "edited" /\ file' = file
        BY <1>0, <2>1 DEF FrozenCheck
    <2> QED BY <2>2 DEF Checking
<1>2. CASE pc = "check" /\ pc' = "check" /\ UNCHANGED work
    <2>1. ~ \E c \in DevCriteria : WriteCheck(c) \/ EditedCheck(c) \/ RunCheck(c)
        BY <1>2 DEF WriteCheck, EditedCheck, RunCheck
    <2>2. CASE file' = file
        BY <1>2, <2>2, HistoryIs DEF Checking
    <2>3. ASSUME NEW c \in DevCriteria, file[c] = "red", file' = [file EXCEPT ![c] = "edited"],
                 slipped' = slipped \cup (work.now \cap {c})
          PROVE  Checking'
        BY <1>0, <1>2, <2>3 DEF Checking
    <2> QED BY <2>1, <2>2, <2>3, FileIs
<1>3. CASE pc # "check" /\ ~ FrozenChecks
    <2>1. work.now = {}
        BY <1>3 DEF Checking
    <2>2. work'.now = {}
        <3>1. CASE ~ Working
            BY <2>1, <3>1, Idles DEF Idle
        <3>2. CASE ReadChecks \/ ReadReviews
            BY <1>0, <2>1, <3>2 DEF ReadChecks, ReadReviews, Learn
        <3>3. CASE ReadHead \/ ResumeReplies \/ MergeIn \/ Verify
            BY <3>3 DEF ReadHead, ResumeReplies, MergeIn, Verify, Idle
        <3>4. CASE ReadFindings
            <4>1. work' = Idle \/ work' = [Idle EXCEPT !.found = Findings]
                BY <3>4, Zenon DEF ReadFindings, Return
            <4> QED BY <4>1 DEF Idle
        <3>5. CASE Revise \/ Agree \/ \E t \in Threads : Answer(t)
            <4>1. CASE Revise
                <5>1. PICK fixed, declined : work' = [work EXCEPT !.changed = tree = "dirty", !.replies = fixed, !.left = declined]
                    BY <4>1 DEF Revise
                <5> QED BY <1>0, <2>1, <5>1
            <4>2. CASE Agree
                <5>1. PICK agreed : work' = [work EXCEPT !.replies = @ \cup agreed, !.left = {}]
                    BY <4>2 DEF Agree
                <5> QED BY <1>0, <2>1, <5>1
            <4>3. CASE \E t \in Threads : Answer(t)
                BY <1>0, <2>1, <4>3 DEF Answer
            <4> QED BY <3>5, <4>1, <4>2, <4>3
        <3>6. CASE \E c \in DevCriteria : EditedCheck(c) \/ RunCheck(c)
            BY <1>0, <2>1, <3>6 DEF EditedCheck, RunCheck
        <3> QED BY <1>3, <3>1, <3>2, <3>3, <3>4, <3>5, <3>6 DEF Working, Reads
    <2> QED BY <2>2 DEF Checking
<1>4. CASE work'.now = {}
    BY <1>4 DEF Checking
<1> QED BY <1>1, <1>2, <1>3, <1>4, Runs

\* Verdicts go on saying what the files on disk say.
LEMMA JudgedStep ==
    ASSUME IInv, [Next]_vars
    PROVE  Judged'
<1> USE DEF IInv
<1>0. /\ d = disk /\ d.checks \in [DevCriteria -> {"none", "red", "pass", "fail"}]
      /\ file \in [DevCriteria -> {"none", "red", "edited", "green"}]
    BY DeliveryIs DEF TypeOK, Placed
<1>1. /\ \A c \in DevCriteria : d'.checks[c] = "none" <=> file'[c] = "none"
      /\ \A c \in DevCriteria : d'.checks[c] = "pass" => file'[c] = "green" \/ c \in slipped'
      /\ \A c \in DevCriteria : d.checks[c] # "none" => d'.checks[c] # "none"
    <2>1. ASSUME NEW c \in DevCriteria, WriteCheck(c) \/ EditedCheck(c) \/ RunCheck(c)
          PROVE  /\ \A b \in DevCriteria : d'.checks[b] = "none" <=> file'[b] = "none"
                 /\ \A b \in DevCriteria : d'.checks[b] = "pass" => file'[b] = "green" \/ b \in slipped'
                 /\ \A b \in DevCriteria : d.checks[b] # "none" => d'.checks[b] # "none"
        <3>1. PICK result \in {"red", "pass", "fail"} :
                 /\ d'.checks = [d.checks EXCEPT ![c] = result]
                 /\ WriteCheck(c) => result = "red" /\ file' = [file EXCEPT ![c] = "red"]
                 /\ EditedCheck(c) => result = "fail" /\ file' = file
                 /\ RunCheck(c) => /\ result \in {"pass", "fail"}
                                   /\ file' = [file EXCEPT ![c] = IF result = "pass" /\ @ = "red" THEN "green" ELSE @]
            BY <2>1, CheckFields
        <3>2. CASE WriteCheck(c)
            BY <1>0, <3>1, <3>2, HistoryIs DEF Judged
        <3>3. CASE RunCheck(c) \/ EditedCheck(c)
            <4>1. d.checks[c] # "none"
                <5>1. d.stage = "verifying"
                    BY <3>3 DEF EditedCheck, RunCheck, Placed
                <5> QED BY <5>1 DEF Judged
            <4>2. file[c] # "none"
                BY <4>1 DEF Judged
            <4>3. CASE EditedCheck(c)
                BY <1>0, <3>1, <4>1, <4>2, <4>3, HistoryIs DEF Judged
            <4>4. CASE RunCheck(c)
                <5>1. file[c] \in {"red", "green"} \/ c \in slipped
                    BY <1>0, <4>2, <4>4 DEF RunCheck, Checking
                <5> QED BY <1>0, <3>1, <4>1, <4>2, <4>4, <5>1, HistoryIs DEF Judged
            <4> QED BY <3>3, <4>3, <4>4
        <3> QED BY <2>1, <3>2, <3>3
    <2>2. CASE ~ \E c \in DevCriteria : WriteCheck(c) \/ EditedCheck(c) \/ RunCheck(c)
        <3>1. d'.checks = d.checks
            BY <2>2, VerdictsStay
        <3>2. CASE file' = file
            BY <3>1, <3>2, HistoryIs DEF Judged
        <3>3. ASSUME NEW c \in DevCriteria, file[c] = "red", file' = [file EXCEPT ![c] = "edited"]
              PROVE  /\ \A b \in DevCriteria : d'.checks[b] = "none" <=> file'[b] = "none"
                     /\ \A b \in DevCriteria : d'.checks[b] = "pass" => file'[b] = "green" \/ b \in slipped'
            BY <1>0, <3>1, <3>3, HistoryIs DEF Judged
        <3> QED BY <2>2, <3>1, <3>2, <3>3, FileIs
    <2> QED BY <2>1, <2>2
<1>2. d'.stage \notin {"built", "dev_checks"} => \A c \in DevCriteria : d'.checks[c] # "none"
    <2>1. ChecksWritten => \A c \in DevCriteria : d.checks[c] # "none"
        BY DEF ChecksWritten
    <2> QED BY <1>1, <2>1, StagesEnter DEF Judged
<1>3. d'.gates["criteria_tests"] = "pass" => d'.stage # "built" /\ \A c \in TestCriteria : d'.judged[c] = "met"
    <2>1. ASSUME NEW verdict \in Verdict, Accept(verdict)
          PROVE  d'.stage # "built" /\ \A c \in TestCriteria : d'.judged[c] = "met"
        <3>1. \A c \in TestCriteria : verdict[c] = "met"
            BY <2>1 DEF Accept
        <3> QED BY <2>1, <3>1, JudgeFields
    <2>2. CASE d.gates["criteria_tests"] = "pass"
        BY <2>2, VerdictsStay, StagesEnter DEF Judged
    <2> QED BY <2>1, <2>2, GatesPass
<1>4. d'.gates["criteria_dev"] = "pass" => d'.stage = "done" /\ \A c \in DevCriteria : d'.checks[c] = "pass"
    <2>1. CASE Verifies
        <3>1. d'.stage = "done" /\ d'.checks = d.checks /\ \A c \in DevCriteria : d.checks[c] = "pass"
            BY <2>1, SavingFields DEF Verifies, KeepsVerdicts
        <3> QED BY <3>1
    <2>2. CASE d.gates["criteria_dev"] = "pass"
        <3>1. d.stage = "done" /\ \A c \in DevCriteria : d.checks[c] = "pass"
            BY <2>2 DEF Judged
        <3>2. d'.stage = "done"
            BY <3>1, StagesEnter
        <3>3. d'.checks = d.checks
            <4>1. ASSUME NEW c \in DevCriteria, WriteCheck(c) \/ EditedCheck(c) \/ RunCheck(c) PROVE FALSE
                BY <3>1, <4>1 DEF WriteCheck, EditedCheck, RunCheck, Placed
            <4> QED BY <4>1, VerdictsStay
        <3> QED BY <3>1, <3>2, <3>3
    <2> QED BY <2>1, <2>2, GatesPass
<1> QED BY <1>1, <1>2, <1>3, <1>4 DEF Judged

-----------------------------------------------------------------------------
(* Deployments.                                                            *)

\* A deployment that has succeeded is never taken back.
LEMMA SuccessStays ==
    ASSUME IInv, [Next]_vars, NEW i \in DOMAIN live.deployments, live.deployments[i] = Success
    PROVE  \E j \in DOMAIN live'.deployments : live'.deployments[j] = Success
<1> DEFINE ds == live.deployments
           new == <<[has |-> TRUE, state |-> "busy"]>>
<1>0. /\ ds \in Seq(Deployment) /\ Len(ds) \in Nat /\ DOMAIN ds = 1..Len(ds) /\ i \in 1..Len(ds)
      /\ live \in [run : {"none", "running", "done", "failed", "cancelled"}, deployments : Seq(Deployment)]
    <2>1. live \in [run : {"none", "running", "done", "failed", "cancelled"}, deployments : Seq(Deployment)]
        BY DEF IInv, TypeOK, Deployment
    <2> QED BY <2>1, LenProperties
<1>1. CASE live' = [run |-> "running", deployments |-> new \o ds]
    <2>1. new \in Seq(Deployment) /\ Len(new) = 1
        BY DEF Deployment
    <2>2. /\ new \o ds \in Seq(Deployment) /\ Len(new \o ds) = 1 + Len(ds)
          /\ \A j \in 1..1 + Len(ds) : (new \o ds)[j] = IF j <= 1 THEN new[j] ELSE ds[j - 1]
        BY <1>0, <2>1, ConcatProperties
    <2>3. i + 1 \in 1..1 + Len(ds) /\ ~ (i + 1 <= 1) /\ (i + 1) - 1 = i
        BY <1>0
    <2>4. (new \o ds)[i + 1] = Success
        BY <2>2, <2>3
    <2>5. i + 1 \in DOMAIN (new \o ds)
        BY <2>2, <2>3, LenProperties
    <2>6. live'.deployments = new \o ds
        BY <1>1
    <2> QED BY <2>4, <2>5, <2>6
<1>2. ASSUME live.run = "running", NEW result, NEW state,
             live' = [live EXCEPT !.run = result, !.deployments[1].state = state]
      PROVE  i \in DOMAIN live'.deployments /\ live'.deployments[i] = Success
    <2>1. ds[1].state = "busy"
        BY <1>2 DEF IInv, Deploying
    <2>2. i # 1
        BY <2>1 DEF Success
    <2>3. live'.deployments = [ds EXCEPT ![1] = [ds[1] EXCEPT !.state = state]]
        BY <1>0, <1>2
    <2> QED BY <2>2, <2>3
<1>3. CASE live' = live
    BY <1>3
<1> QED BY <1>1, <1>2, <1>3, LiveIs DEF IInv

\* The deployment that the deploy gate has seen is on record.
LEMMA DeployingStep ==
    ASSUME IInv, [Next]_vars
    PROVE  Deploying'
<1>0. live \in [run : {"none", "running", "done", "failed", "cancelled"}, deployments : Seq(Deployment)]
    BY DEF IInv, TypeOK, Deployment
<1>1. live'.run = "running" => live'.deployments # <<>> /\ live'.deployments[1].state = "busy"
    <2>1. CASE live' = [run |-> "running", deployments |-> <<[has |-> TRUE, state |-> "busy"]>> \o live.deployments]
        <3> DEFINE new == <<[has |-> TRUE, state |-> "busy"]>>
        <3>1. new \in Seq(Deployment) /\ Len(new) = 1 /\ live.deployments \in Seq(Deployment)
            BY <1>0 DEF Deployment
        <3>2. /\ Len(new \o live.deployments) = 1 + Len(live.deployments)
              /\ \A j \in 1..1 + Len(live.deployments) : (new \o live.deployments)[j] = IF j <= 1 THEN new[j] ELSE live.deployments[j - 1]
            BY <3>1, ConcatProperties
        <3>3. Len(live.deployments) \in Nat /\ 1 \in 1..1 + Len(live.deployments)
            BY <3>1, LenProperties
        <3>4. (new \o live.deployments)[1] = new[1] /\ Len(new \o live.deployments) # 0
            BY <3>2, <3>3
        <3>5. new \o live.deployments # <<>>
            BY <3>4
        <3> QED BY <2>1, <3>4, <3>5
    <2>2. ASSUME NEW result \in {"done", "failed", "cancelled"}, NEW state,
                 live' = [live EXCEPT !.run = result, !.deployments[1].state = state]
          PROVE  live'.run # "running"
        BY <1>0, <2>2
    <2>3. CASE live' = live
        BY <2>3 DEF IInv, Deploying
    <2> QED BY <2>1, <2>2, <2>3, LiveIs DEF IInv
<1>2. d'.gates["deploy"] = "pass" => \E i \in DOMAIN live'.deployments : live'.deployments[i] = Success
    <2>1. CASE DeploymentSucceeds
        <3> DEFINE containing == {i \in DOMAIN live.deployments : live.deployments[i].has}
        <3>1. DOMAIN live.deployments \subseteq Nat
            <4>1. live.deployments \in Seq(Deployment)
                BY <1>0
            <4>2. DOMAIN live.deployments = 1..Len(live.deployments) /\ Len(live.deployments) \in Nat
                BY <4>1, LenProperties
            <4> QED BY <4>2
        <3>2. (IF containing = {} THEN "none" ELSE live.deployments[Min(containing)].state) = "success"
            BY <2>1 DEF DeploymentSucceeds, Deployed
        <3>3. containing # {} /\ containing \in SUBSET Nat
            BY <3>1, <3>2
        <3>4. Min(containing) \in containing
            BY <3>3, MinIs
        <3>5. PICK i \in containing : live.deployments[i].state = "success"
            BY <3>2, <3>3, <3>4
        <3>6. live.deployments[i] \in Deployment /\ live.deployments[i].has /\ i \in DOMAIN live.deployments
            BY <1>0, <3>5, LenProperties
        <3>7. live.deployments[i] = Success
            BY <3>5, <3>6 DEF Deployment, Success
        <3> QED BY <3>6, <3>7, SuccessStays
    <2>2. CASE d.gates["deploy"] = "pass"
        <3>1. PICK i \in DOMAIN live.deployments : live.deployments[i] = Success
            BY <2>2 DEF IInv, Deploying
        <3> QED BY <3>1, SuccessStays
    <2> QED BY <2>1, <2>2, GatesPass
<1> QED BY <1>1, <1>2 DEF Deploying

-----------------------------------------------------------------------------
(* What the issue says.                                                    *)

\* A criterion that has passed may be ticked.
LEMMA PassedIs ==
    ASSUME Gated, Judged
    PROVE  \A c \in Passed(d) : /\ c \in TestCriteria \cup DevCriteria
                                /\ IF c \in DevCriteria THEN file[c] = "green" \/ c \in slipped ELSE hub.pull = "merged"
<1> SUFFICES ASSUME NEW c \in Passed(d)
             PROVE  /\ c \in TestCriteria \cup DevCriteria
                    /\ IF c \in DevCriteria THEN file[c] = "green" \/ c \in slipped ELSE hub.pull = "merged"
    OBVIOUS
<1>1. CASE c \in TestCriteria /\ d.gates["merge"] = "pass"
    BY <1>1, DeliveryAssumption DEF Gated
<1>2. CASE c \in DevCriteria /\ d.checks[c] = "pass"
    BY <1>2 DEF Judged
<1> QED BY <1>1, <1>2 DEF Passed

\* When every gate has passed so have all criteria.
LEMMA AllPassed ==
    ASSUME Judged, \A g \in Gate : d.gates[g] = "pass"
    PROVE  TestCriteria \cup DevCriteria \subseteq Passed(d)
<1>1. /\ d.gates["criteria_tests"] = "pass" /\ d.gates["criteria_dev"] = "pass" /\ d.gates["merge"] = "pass"
    BY DEF Gate
<1>2. \A c \in TestCriteria : d.judged[c] = "met"
    BY <1>1 DEF Judged
<1>3. \A c \in DevCriteria : d.checks[c] = "pass"
    BY <1>1 DEF Judged
<1> QED BY <1>1, <1>2, <1>3 DEF Passed

\* A step ticks only what holds, and nothing that was ticked ceases to hold.
LEMMA IssueStep ==
    ASSUME IInv, [Next]_vars
    PROVE  IssueTellsTruth'
<1> USE DEF IInv
<1> DEFINE Holds(c) == IF c \in DevCriteria THEN file[c] = "green" \/ c \in slipped ELSE hub.pull = "merged"
           Deploys == \E i \in DOMAIN live.deployments : live.deployments[i] = Success
           All == TestCriteria \cup DevCriteria
<1>0. issue \in [ticked : SUBSET All, closed : BOOLEAN] /\ issue' \in [ticked : SUBSET All, closed : BOOLEAN]
    BY TypesStep DEF TypeOK
<1>1. \A c \in All : Holds(c) => Holds(c)'
    <2>1. \A c \in DevCriteria : file[c] = "green" => file'[c] = "green"
        <3> SUFFICES ASSUME NEW c \in DevCriteria, file[c] = "green" PROVE file'[c] = "green"
            OBVIOUS
        <3>0. file \in [DevCriteria -> {"none", "red", "edited", "green"}]
            BY DEF TypeOK
        <3>1. CASE file' = file
            BY <3>1
        <3>2. ASSUME NEW b \in DevCriteria, file[b] = "red", file' = [file EXCEPT ![b] = "edited"] PROVE file'[c] = "green"
            BY <3>0, <3>2
        <3>3. ASSUME NEW b \in DevCriteria, WriteCheck(b) PROVE file'[c] = "green"
            <4>1. file[b] = "none" /\ file' = [file EXCEPT ![b] = "red"]
                BY <3>3 DEF WriteCheck, Judged
            <4> QED BY <3>0, <4>1
        <3>4. ASSUME NEW b \in DevCriteria, RunCheck(b) PROVE file'[c] = "green"
            <4>1. PICK result \in {"pass", "fail"} :
                     file' = [file EXCEPT ![b] = IF result = "pass" /\ @ = "red" THEN "green" ELSE @]
                BY <3>4 DEF RunCheck
            <4> QED BY <3>0, <4>1
        <3>5. ASSUME NEW b \in DevCriteria, EditedCheck(b) PROVE file'[c] = "green"
            BY <3>5 DEF EditedCheck
        <3> QED BY <3>1, <3>2, <3>3, <3>4, <3>5, FileIs
    <2>2. hub.pull = "merged" => hub'.pull = "merged"
        BY HubIs
    <2>3. slipped \subseteq slipped'
        BY HistoryIs
    <2> QED BY <2>1, <2>2, <2>3
<1>2. Deploys => Deploys'
    BY SuccessStays
<1>3. \A c \in issue.ticked : Holds(c)
    BY DEF IssueTellsTruth
<1>4. issue.closed => issue.ticked = All /\ Deploys
    BY DEF IssueTellsTruth, Success
<1>5. \A c \in Passed(d)' : c \in All /\ Holds(c)'
    <2>1. Gated' /\ Judged'
        BY GatedStep, JudgedStep
    <2> SUFFICES ASSUME NEW c \in Passed(d)' PROVE c \in All /\ Holds(c)'
        OBVIOUS
    <2>2. CASE c \in TestCriteria /\ d'.gates["merge"] = "pass"
        BY <2>1, <2>2, DeliveryAssumption DEF Gated
    <2>3. CASE c \in DevCriteria /\ d'.checks[c] = "pass"
        BY <2>1, <2>3 DEF Judged
    <2> QED BY <2>2, <2>3 DEF Passed
<1>6. \A c \in issue'.ticked : Holds(c)'
    <2> HIDE DEF Holds
    <2>1. \A c \in issue.ticked \cup Passed(d) : c \in All /\ Holds(c)
        BY <1>0, <1>3, PassedIs DEF Holds
    <2>2. issue'.ticked \subseteq issue.ticked \cup Passed(d) \cup Passed(d')
        BY <1>0, IssueIs
    <2>3. \A c \in issue.ticked \cup Passed(d) : Holds(c)'
        BY <1>1, <2>1
    <2>4. \A c \in Passed(d') : Holds(c)'
        BY <1>5
    <2> QED BY <2>2, <2>3, <2>4
<1>7. issue'.closed => issue'.ticked = All /\ Deploys'
    <2>1. CASE issue' \in {issue, [issue EXCEPT !.ticked = @ \cup Passed(d')]}
        <3>1. issue'.closed => issue.closed /\ issue.ticked \subseteq issue'.ticked
            BY <1>0, <2>1
        <3> HIDE DEF Deploys
        <3> QED BY <1>0, <1>2, <1>4, <3>1
    <2>2. CASE (\A g \in Gate : d.gates[g] = "pass") /\ issue' = [ticked |-> issue.ticked \cup Passed(d), closed |-> TRUE]
        <3>1. Deploys
            BY <2>2 DEF Deploying, Gate
        <3>2. All \subseteq issue'.ticked
            BY <2>2, AllPassed
        <3> HIDE DEF Deploys
        <3> QED BY <1>0, <1>2, <3>1, <3>2
    <2> QED BY <2>1, <2>2, IssueIs
<1> QED BY <1>6, <1>7 DEF IssueTellsTruth, Success

-----------------------------------------------------------------------------
(* The theorems.                                                           *)

\* The runner starts in the invariant.
LEMMA Starts == Init => IInv
<1> SUFFICES ASSUME Init PROVE IInv
    OBVIOUS
<1> USE DEF Init
<1>1. /\ made = <<[by |-> "runner", base |-> 0]>> /\ Tip = 1 /\ made[1].by = "runner"
      /\ d = NewDelivery /\ disk = NewDelivery /\ pc = "off"
    BY DEF Tip
<1>2. /\ d.stage = "built" /\ d.todo = FALSE /\ d.last = 1 /\ d.head = 0 /\ d.pending = {}
      /\ \A g \in Gate : d.gates[g] = "none"
      /\ \A c \in DevCriteria : d.checks[c] = "none"
    BY <1>1 DEF NewDelivery
<1>3. TypeOK
    <2>1. d \in DeliveryType /\ disk \in DeliveryType
        BY <1>1, DeliveryAssumption DEF NewDelivery, DeliveryType, Stage
    <2>2. made \in Seq([by : Author, base : Nat])
        BY <1>1 DEF Author
    <2>3. live \in [run : {"none", "running", "done", "failed", "cancelled"},
                    deployments : Seq([has : BOOLEAN, state : {"busy", "success", "failure"}])]
        OBVIOUS
    <2>4. runs \in 0..MaxRuns /\ events \in 0..MaxEvents
        BY DeliveryAssumption
    <2> QED BY <1>1, <2>1, <2>2, <2>3, <2>4 DEF TypeOK, Idle, NoOpinion
<1>4. Placed
    BY <1>1, <1>2 DEF Placed, Reading, Revising, Merging
<1>5. Branch
    BY <1>1, <1>2 DEF Branch
<1>6. Published
    BY <1>1, <1>2 DEF Published, Reading, Revising
<1>7. Rounds
    BY <1>1, <1>2 DEF Rounds, Revising
<1>8. Gated /\ Judged /\ Deploying /\ IssueTellsTruth
    BY <1>1, <1>2 DEF Gated, Judged, Deploying, IssueTellsTruth, Gate
<1>9. Polled /\ Checking
    BY <1>1 DEF Polled, Reading, Checking, Idle
<1> QED BY <1>3, <1>4, <1>5, <1>6, <1>7, <1>8, <1>9 DEF IInv

\* Every step keeps it.
LEMMA Steps == IInv /\ [Next]_vars => IInv'
<1> SUFFICES ASSUME IInv, [Next]_vars PROVE IInv'
    OBVIOUS
<1> QED BY TypesStep, PlacedStep, BranchStep, PublishedStep, RoundsStep, PolledStep, GatedStep, JudgedStep, CheckingStep,
        DeployingStep, IssueStep
        DEF IInv

\* The inductive invariant holds, however often the runner is stopped, dies or
\* is started again, and whatever GitHub and other people do in between.
THEOREM Invariance == Spec => []IInv
BY Starts, Steps, PTL DEF Spec

\* Every variable keeps its type; no limit is exceeded.
THEOREM Typing == Spec => []TypeOK
<1>1. IInv => TypeOK
    BY DEF IInv
<1> QED BY <1>1, Invariance, PTL

\* What the merge gate passes had passed review, in one poll that found every
\* answer in order when it was given: between the head of that poll and the
\* merged one lie merges of the base branch by the runner and nothing else.
THEOREM MergesAreCleared == Spec => []MergedAsCleared
<1>1. IInv => MergedAsCleared
    BY DEF IInv, Gated, Reviewed, MergedAsCleared
<1> QED BY <1>1, Invariance, PTL

\* Only saved commits that the runner made itself reach GitHub, whatever a
\* killed run or an agent left on the branch.
THEOREM OnlySavedIsPublished == Spec => []PublishedIsSaved
<1>1. IInv => PublishedIsSaved
    <2> SUFFICES ASSUME IInv, hub.head \in Nat
                 PROVE  hub.head <= disk.last /\ \A i \in 1..hub.head : made[i].by # "agent"
        BY DEF PublishedIsSaved
    <2>1. d = disk /\ d.last \in Nat /\ hub.head <= d.last /\ \A i \in 1..d.last : made[i].by # "agent"
        BY DeliveryIs DEF IInv, TypeOK, Placed, Branch, Published
    <2>2. \A i \in 1..hub.head : i \in 1..d.last
        BY <2>1
    <2> QED BY <2>1, <2>2
<1> QED BY <1>1, Invariance, PTL

\* A thread that was told in which commit it is fixed finds it on the pull
\* request, also when an earlier run failed to push.
THEOREM AnswersAreTrue == Spec => []AnsweredWhenPublished
<1>1. IInv => AnsweredWhenPublished
    BY DEF IInv, Published, AnsweredWhenPublished
<1> QED BY <1>1, Invariance, PTL

\* Ticked criteria hold, but for a Dev check edited between its hash and its
\* attempts, and a closed issue has them all and is deployed.
THEOREM IssueIsTrue == Spec => []IssueTellsTruth
<1>1. IInv => IssueTellsTruth
    BY DEF IInv
<1> QED BY <1>1, Invariance, PTL
=============================================================================
