------------------------------- MODULE Factory -------------------------------
(***************************************************************************)
(* The factory: workflow scripts (src/factory/f_*.py) that run phases, one *)
(* after the other, in the operator's own working tree.  A phase is code   *)
(* (commit, suite, capture of the changes) or an agent: the executor takes *)
(* a snapshot of the tree, sends the prompt, repairs replies that do not   *)
(* parse and claims that gates refute, and at the end compares the tree    *)
(* with the snapshot, rolls forbidden edits back and fails the phase.  A   *)
(* run writes its session, its phases and its children to a trace; a later *)
(* run may join the session.                                               *)
(*                                                                         *)
(* One working tree, one process at a time, several runs of it; the agent, *)
(* the operator, an agent that outlives a killed run, signals and failing  *)
(* trace writes are the environment.  What a file holds beyond the last    *)
(* commit is seen as who wrote it.                                         *)
(***************************************************************************)
EXTENDS Integers, Sequences

CONSTANTS
    Flows,       \* the workflows that may be started
    MaxFixLoops, \* MAX_FIX_LOOPS
    Retries,     \* PhaseParams.retries: corrections of refuted claims
    MaxJson,     \* MAX_JSON_ATTEMPTS: replies that may fail to parse
    OperatorFile,\* files the operator edits
    AgentFile,   \* files any agent writes, beside the planner's and documenter's documents
    Runs,        \* bound on processes, one after the other
    MaxEvents    \* bound on edits of the operator, git commands of agents,
                 \* signals, failing trace writes and kills

-----------------------------------------------------------------------------
(* The workflows: the phases each script opens, in order.  "test" stands   *)
(* for the loop over test_n and fix_n, "review" for review_n and revise_n. *)

PlanFlow == <<"request", "plan">>
BuildFlow == <<"request", "build">>
ScoutFlow == <<"request", "scout">>
\* f_prompt; a reviewer it is given is one more reader, like the scout.
PromptFlow(agentStage) == <<"request", agentStage>>
QualityFlow == <<"request", "quality">>
DocumentFlow == <<"request", "changes", "document">>
BuildTestFlow == <<"request", "build", "test">>
BuildReviewFlow == <<"request", "build", "review">>
PlanBuildFlow == <<"request", "plan", "commit", "build", "commit">>
PlanBuildTestFlow == <<"request", "plan", "commit", "build", "test", "commit">>
SimpleSdlcFlow == <<"request", "plan", "commit", "build", "test", "review", "retest",
                    "commit", "changes", "document", "commit">>

AgentStage == {"plan", "build", "fix", "scout", "review", "revise", "document"}
CodeStage == {"request", "commit", "test", "retest", "quality", "changes"}

ASSUME FactoryAssumption ==
    /\ Flows \subseteq {PlanFlow, BuildFlow, ScoutFlow, PromptFlow("document"), QualityFlow, DocumentFlow,
                        BuildTestFlow, BuildReviewFlow, PlanBuildFlow, PlanBuildTestFlow, SimpleSdlcFlow}
    /\ {MaxFixLoops, MaxJson, Runs} \subseteq Nat \ {0}
    /\ {Retries, MaxEvents} \subseteq Nat
    /\ OperatorFile \cup AgentFile \subseteq {"text", "code", "guard"}

VARIABLES
    pc,        \* where the process is; "off" when none runs
    flow, at,  \* the workflow and the stage it has reached
    stage,     \* the phase: flow[at], or the fix or revise of its loop
    round,     \* attempt of that loop
    tries,     \* [json, gate]: repairs this phase has spent
    passed,    \* the last verdict of a suite or a reviewer
    stale,     \* f_simple_sdlc: a revision moved the code since the suite passed
    accepted,  \* the argument of finish, FALSE for abort
    work,      \* file -> who wrote what the tree holds beyond HEAD
    index,     \* file -> the part of it that is staged
    before,    \* the snapshot: the paths git called changed
    changed,   \* files whose content is no longer what the snapshot hashed
    child,     \* the agent's process is alive
    orphan,    \* an agent outlived the run that started it
    total,     \* Run.total_tokens, as the runs whose sends it counts
    row,       \* the trace: [status, total] of the session, [phase] the status of its
               \* latest phase, [open] a child believed alive
    exit,      \* the last exit code
    runs, events,  \* bounds
    wrote,     \* history: what the agent changed in this phase and left changed
    begun,     \* history: the operator's files when the phase began
    gone,      \* history: of those, the ones the agent reverted or anyone committed
    untested, unread,  \* history: agents moved the code since a green suite, an approval
    hid,       \* history: an agent made a commit of its own
    paid,      \* history: runs that paid for a send and lived to say so
    cut        \* history: the run was killed, or hit while it settled its session

tree == <<work, index>>
snap == <<before, changed>>
trace == <<total, row>>
flowing == <<flow, at, stage, round, passed, stale>>
history == <<wrote, begun, gone, untested, unread, hid, paid, cut>>
bounds == <<runs, events>>
vars == <<pc, flowing, tries, accepted, tree, snap, child, orphan, trace, exit, bounds, history>>

\* The workflow had such a phase already.
Preceded(by) == \E i \in 1..at : flow[i] = by

File == {"text", "code", "guard"}  \* documents, code, protected files
Who == {"operator", "agent"}
Dirty == {f \in File : work[f] # {}}
Live == {"between", "code", "send", "turn", "enforce", "over", "finalize"}
Settling == {"closing", "finishing", "banner"}

\* is_permitted with the roster's write lists.
Permitted ==
    CASE stage \in {"build", "fix", "revise"} -> {"text", "code"}
      [] stage \in {"plan", "document"} -> {"text"}
      [] OTHER -> {}

NoRow == [status |-> "none", phase |-> "none", open |-> FALSE, total |-> {}]

Init ==
    /\ pc = "off" /\ flow = <<>> /\ at = 1 /\ stage = "request" /\ round = 1
    /\ tries = [json |-> 0, gate |-> 0]
    /\ passed = FALSE /\ stale = FALSE /\ accepted = FALSE
    /\ work = [f \in File |-> {}] /\ index = work
    /\ before = {} /\ changed = {} /\ child = FALSE /\ orphan = FALSE
    /\ total = {} /\ row = NoRow /\ exit = 0
    /\ runs = 0 /\ events = 0
    /\ wrote = {} /\ begun = {} /\ gone = {} /\ untested = FALSE /\ unread = FALSE
    /\ hid = FALSE /\ paid = {} /\ cut = FALSE

-----------------------------------------------------------------------------
(* Tracer: what each write makes of the rows *)

SessionStart(r) == [r EXCEPT !.status = "running"]
PhaseStart(r) == [r EXCEPT !.phase = "fail"]  \* success has to be earned
PhaseEnd(r) == [r EXCEPT !.phase = "success"]
ProcessStart(r) == [r EXCEPT !.open = TRUE]
ProcessEnd(r) == [r EXCEPT !.open = FALSE]

-----------------------------------------------------------------------------
(* session.ensure *)

\* Mutant of ResumePoint: a joined run counts its own sends only.
ResumeAtZero(join) == {}

\* What the run carries forward from the session it joins.
ResumePoint(join) == IF join THEN row.total ELSE {}

\* What belongs to one phase only.
Scope == tries' = [json |-> 0, gate |-> 0] /\ before' = {} /\ changed' = {}
         /\ wrote' = {} /\ begun' = {} /\ gone' = {}

\* A script is started, with --f-id to join the session or without.
Ensure ==
    /\ pc = "off" /\ runs < Runs
    /\ \E f \in Flows, join \in BOOLEAN :
         /\ join => runs > 0
         /\ flow' = f
         /\ total' = ResumePoint(join)
         /\ row' = SessionStart(IF join THEN row ELSE NoRow)
         /\ paid' = IF join THEN paid ELSE {}
    /\ pc' = "between" /\ at' = 1 /\ stage' = "request" /\ round' = 1
    /\ passed' = FALSE /\ stale' = FALSE /\ accepted' = FALSE /\ exit' = 0
    /\ untested' = FALSE /\ unread' = FALSE /\ hid' = FALSE /\ cut' = FALSE
    /\ runs' = runs + 1 /\ Scope
    /\ UNCHANGED <<tree, child, orphan, events>>

-----------------------------------------------------------------------------
(* Run.phase *)

Snapshot == before' = Dirty /\ changed' = {}

\* A phase opens; an agent's phase begins with the snapshot.
OpenPhase ==
    /\ pc = "between"
    /\ \/ stage \in CodeStage /\ pc' = "code" /\ UNCHANGED snap
       \/ stage \in AgentStage /\ pc' = "send" /\ Snapshot
    /\ row' = PhaseStart(row)
    /\ begun' = {f \in File : "operator" \in work[f]}
    /\ UNCHANGED <<flowing, tries, accepted, tree, child, orphan, total, exit, bounds,
                   wrote, gone, untested, unread, hid, paid, cut>>

\* The body raised: the phase stays failed and abort settles the session.
Raise == pc' = "finalize" /\ accepted' = FALSE
Fail == Raise /\ UNCHANGED row

\* The body returned: the phase has earned its success.
Earn == pc' = "over" /\ row' = PhaseEnd(row) /\ UNCHANGED accepted

-----------------------------------------------------------------------------
(* The agent's phase: Executor *)

\* The backend is spawned and its row opened.
Spawn == child' = TRUE /\ row' = ProcessStart(row)

\* Mutant of Send: the snapshot is taken anew for every prompt.
SendAfresh ==
    /\ pc = "send" /\ pc' = "turn" /\ Snapshot
    /\ Spawn
    /\ UNCHANGED <<flowing, tries, accepted, tree, orphan, total, exit, bounds, history>>

\* One prompt goes out.
Send ==
    /\ pc = "send" /\ pc' = "turn"
    /\ Spawn
    /\ UNCHANGED <<flowing, tries, accepted, tree, snap, orphan, total, exit, bounds, history>>

\* The backend's process is read to its end, and its row closed.
BackendEnds == child' = FALSE /\ row' = ProcessEnd(row)

\* The turn's spend is recorded.
Answered ==
    /\ pc = "turn" /\ BackendEnds
    /\ total' = total \cup {runs} /\ paid' = paid \cup {runs}
    /\ UNCHANGED <<flow, at, stage, round, stale, tree, snap, orphan, exit, bounds,
                   wrote, begun, gone, untested, unread, hid, cut>>

\* Mutant of Unparsed: the repair is not counted.
UnparsedUncounted ==
    /\ Answered /\ pc' = "send" /\ UNCHANGED <<tries, accepted, passed>>

\* The reply does not parse.
Unparsed ==
    /\ Answered /\ tries' = [tries EXCEPT !.json = @ + 1]
    /\ IF tries'.json >= MaxJson THEN Raise ELSE pc' = "send" /\ UNCHANGED accepted
    /\ UNCHANGED passed

\* The reply says the agent failed.
Refused == Answered /\ Raise /\ UNCHANGED <<tries, passed>>

\* The gates a phase's claims go through; each holds or refutes them.
Gates ==
    CASE stage \in {"plan", "document"} -> {"artifacts_exist", "files_non_empty"}
      [] stage \in {"build", "fix", "revise"} -> {"diff_matches_claims"}
      [] stage = "review" -> {"verdict_consistent"}
      [] OTHER -> {}

\* Mutant of Refuted: it forgives one claim more.
RefutedOnceMore ==
    /\ Answered /\ Gates # {} /\ tries' = [tries EXCEPT !.gate = @ + 1]
    /\ IF tries'.gate > Retries + 1 THEN Raise ELSE pc' = "send" /\ UNCHANGED accepted
    /\ UNCHANGED passed

\* The reply makes claims a gate refutes.
Refuted ==
    /\ Answered /\ Gates # {} /\ tries' = [tries EXCEPT !.gate = @ + 1]
    /\ IF tries'.gate > Retries THEN Raise ELSE pc' = "send" /\ UNCHANGED accepted
    /\ UNCHANGED passed

\* The reply is accepted; a reviewer's approves or not.
Reported ==
    /\ Answered /\ pc' = "enforce" /\ UNCHANGED <<tries, accepted>>
    /\ IF stage = "review" THEN passed' \in BOOLEAN ELSE UNCHANGED passed

\* diff_snapshots, by kind.
Introduced == Dirty \ before
Modified == Dirty \cap before \cap changed
Reverted == before \ Dirty

Offending == (Introduced \cup Modified \cup Reverted) \ Permitted

\* Mutant of RolledBack: files that were dirty before are taken back too.
RolledBackToo == Offending

\* What enforce takes back: with `git checkout --`, which restores what is staged.
RolledBack == Offending \cap Introduced

\* enforce_or_raise; taking a path back may fail.
Enforce ==
    /\ pc = "enforce"
    /\ \E undone \in SUBSET RolledBack :
         work' = [f \in File |-> IF f \in undone THEN index[f] ELSE work[f]]
    /\ IF Offending = {} THEN Earn ELSE Fail
    /\ untested' = (untested \/ "code" \in wrote)
    /\ unread' = IF stage = "review" /\ passed THEN "code" \in wrote ELSE unread \/ "code" \in wrote
    /\ UNCHANGED <<flowing, tries, index, snap, child, orphan, total, exit, bounds,
                   wrote, begun, gone, hid, paid, cut>>

-----------------------------------------------------------------------------
(* Phases of code *)

\* git_helper.commit_all: everything in the tree, or NothingToCommit.
CommitAll ==
    /\ pc = "code" /\ stage = "commit"
    /\ \/ Dirty = {} /\ Fail /\ UNCHANGED <<tree, gone>>
       \/ /\ Dirty # {} /\ Earn /\ gone' = begun
          /\ work' = [f \in File |-> {}] /\ index' = work'
    /\ UNCHANGED <<flowing, tries, snap, child, orphan, total, exit, bounds,
                   wrote, begun, untested, unread, hid, paid, cut>>

\* quality.run_quality: a red suite is a phase that succeeded.
RunQuality ==
    /\ pc = "code" /\ stage \in {"test", "retest", "quality"} /\ Earn
    /\ passed' \in BOOLEAN /\ untested' = (untested /\ ~passed')
    /\ UNCHANGED <<flow, at, stage, round, stale, tries, tree, snap, child, orphan, total, exit, bounds,
                   wrote, begun, gone, unread, hid, paid, cut>>

\* changes.capture: it raises when nothing differs from the base it resolves.
Capture ==
    /\ pc = "code" /\ stage = "changes"
    /\ \/ Earn
       \/ Dirty = {} /\ ~Preceded("commit") /\ Fail
    /\ UNCHANGED <<flowing, tries, tree, snap, child, orphan, total, exit, bounds, history>>

Request ==
    /\ pc = "code" /\ stage = "request" /\ Earn
    /\ UNCHANGED <<flowing, tries, tree, snap, child, orphan, total, exit, bounds, history>>

-----------------------------------------------------------------------------
(* The scripts: what follows a phase that succeeded *)

\* Run.finish
Finish(ok) == pc' = "finalize" /\ accepted' = ok /\ UNCHANGED <<flow, at, stage, round, passed, stale>>

\* Mutant of After: the retest is forgotten.
AfterUntested ==
    LET next == at + 1
    IN  IF next <= Len(flow) /\ flow[next] = "retest" THEN next + 1 ELSE next

\* The next phase the script opens after flow[at]; a retest only if the code moved.
After ==
    LET next == at + 1
    IN  IF next <= Len(flow) /\ flow[next] = "retest" /\ ~stale THEN next + 1 ELSE next

Proceed ==
    IF After > Len(flow) THEN Finish(TRUE)
    ELSE /\ at' = After /\ stage' = flow[After] /\ round' = 1
         /\ pc' = "between" /\ passed' = FALSE /\ UNCHANGED <<flow, stale, accepted>>

\* The loop's other phase.
Turn(to) == pc' = "between" /\ stage' = to /\ UNCHANGED <<flow, at, passed, accepted>>

Advance ==
    /\ pc = "over"
    /\ \/ stage = "test" /\ ~passed /\ Turn("fix") /\ UNCHANGED <<round, stale>>
       \/ stage = "review" /\ ~passed /\ Turn("revise") /\ UNCHANGED <<round, stale>>
       \/ stage = "fix" /\ round < MaxFixLoops /\ Turn("test") /\ round' = round + 1 /\ UNCHANGED stale
       \/ stage = "revise" /\ round < MaxFixLoops /\ Turn("review") /\ round' = round + 1 /\ stale' = TRUE
       \/ stage \in {"fix", "revise"} /\ round = MaxFixLoops /\ Finish(FALSE)
       \/ stage \in {"retest", "quality"} /\ ~passed /\ Finish(FALSE)
       \/ stage \in {"test", "review", "retest", "quality"} /\ passed /\ Proceed
       \/ stage \notin {"test", "review", "retest", "quality", "fix", "revise"} /\ Proceed
    /\ Scope
    /\ UNCHANGED <<tree, child, orphan, trace, exit, bounds,
                   untested, unread, hid, paid, cut>>

-----------------------------------------------------------------------------
(* Run._finalize: one step of the process after the other *)

\* _finalized is set before anything is written.
Finalize ==
    /\ pc = "finalize" /\ pc' = "closing" /\ Scope
    /\ UNCHANGED <<flowing, accepted, tree, child, orphan, trace, exit, bounds,
                   untested, unread, hid, paid, cut>>

CloseProcesses ==
    /\ pc = "closing" /\ pc' = "finishing" /\ row' = ProcessEnd(row)
    /\ UNCHANGED <<flowing, tries, accepted, tree, snap, child, orphan, total, exit, bounds, history>>

SessionFinish ==
    /\ pc = "finishing" /\ pc' = "banner"
    /\ row' = [row EXCEPT !.status = IF accepted THEN "success" ELSE "fail", !.total = total]
    /\ UNCHANGED <<flowing, tries, accepted, tree, snap, child, orphan, total, exit, bounds, history>>

\* The banner, and the exit code.
Exit ==
    /\ pc = "banner" /\ pc' = "off" /\ exit' = IF accepted THEN 0 ELSE 1
    /\ UNCHANGED <<flowing, tries, accepted, tree, snap, child, orphan, trace, bounds, history>>

-----------------------------------------------------------------------------
(* The agent, the operator, signals and failing writes *)

Event == events < MaxEvents /\ events' = events + 1

\* A file no longer has the content the snapshot hashed.
Rewritten(f) == changed' = changed \cup ({f} \cap before)

\* Somebody writes a file.
Write(f, who) ==
    /\ work' = [work EXCEPT ![f] = @ \cup {who}]
    /\ Rewritten(f)
    /\ UNCHANGED <<pc, flowing, tries, accepted, index, before, child, orphan, trace, exit,
                   runs, begun, gone, untested, unread, hid, paid, cut>>

AgentWrites(f) ==
    /\ child /\ f \in AgentFile \cup (IF Permitted = {"text"} THEN {"text"} ELSE {}) /\ Write(f, "agent") /\ wrote' = wrote \cup {f} /\ UNCHANGED events

\* The operator saves a file, at any time.
OperatorWrites(f) ==
    /\ Event /\ f \in OperatorFile /\ Write(f, "operator") /\ UNCHANGED wrote

\* An agent nobody waits for goes on writing, and ends.
OrphanWrites(f) ==
    /\ orphan /\ f \in AgentFile /\ Write(f, "agent") /\ UNCHANGED <<events, wrote>>

OrphanEnds ==
    /\ orphan /\ orphan' = FALSE
    /\ UNCHANGED <<pc, flowing, tries, accepted, tree, snap, child, trace, exit, bounds, history>>

Meddle ==
    /\ child
    /\ UNCHANGED <<pc, flowing, tries, accepted, before, child, orphan, trace, exit,
                   runs, begun, untested, unread, paid, cut>>

\* The agent stages a file.
AgentStages(f) ==
    /\ Meddle /\ Event /\ work[f] # {} /\ index' = [index EXCEPT ![f] = work[f]]
    /\ UNCHANGED <<work, changed, wrote, gone, hid>>

\* The agent takes a file back to what is staged, or to HEAD.
AgentReverts(f) ==
    /\ Meddle /\ UNCHANGED events
    /\ \E to \in {index[f], {}} :
         /\ to # work[f]
         /\ work' = [work EXCEPT ![f] = to] /\ index' = [index EXCEPT ![f] = to]
         /\ wrote' = IF f \in before \/ to # {} THEN wrote \cup {f} ELSE wrote \ {f}
    /\ Rewritten(f) /\ gone' = gone \cup ({f} \cap begun)
    /\ UNCHANGED hid

\* The agent commits everything: what it changed is out of the snapshots' sight.
AgentCommits ==
    /\ Meddle /\ Event /\ Dirty # {}
    /\ work' = [f \in File |-> {}] /\ index' = work' /\ gone' = begun /\ hid' = TRUE
    /\ UNCHANGED <<changed, wrote>>

\* A signal or a failing trace write raises where the process is.  The backend
\* is not killed, but may die of the same signal.  Between phases atexit
\* settles the session; once it is being settled nothing does.
Interrupt ==
    /\ Event /\ pc \in Live \cup Settling
    /\ \/ /\ pc \in Live /\ Raise /\ UNCHANGED <<exit, paid, cut>>
       \/ /\ pc \in Settling /\ pc' = "off" /\ exit' = 1 /\ UNCHANGED accepted
          /\ cut' = TRUE /\ paid' = IF pc = "banner" THEN paid ELSE paid \ {runs}
    /\ child' = FALSE /\ orphan' \in {orphan, orphan \/ child}
    /\ row' = IF child THEN ProcessEnd(row) ELSE row
    /\ UNCHANGED <<flowing, tries, tree, snap, total, runs,
                   wrote, begun, gone, untested, unread, hid>>

\* The process is killed outright.
Killed ==
    /\ Event /\ pc \in Live \cup Settling /\ pc' = "off" /\ exit' = 1
    /\ child' = FALSE /\ orphan' \in {orphan, orphan \/ child}
    /\ cut' = TRUE /\ paid' = IF pc = "banner" THEN paid ELSE paid \ {runs}
    /\ Scope /\ UNCHANGED <<flowing, accepted, tree, trace, runs, untested, unread, hid>>

-----------------------------------------------------------------------------
\* The process itself.
Step ==
    \/ OpenPhase \/ Send \/ Unparsed \/ Refused \/ Refuted \/ Reported \/ Enforce
    \/ CommitAll \/ RunQuality \/ Capture \/ Request \/ Advance
    \/ Finalize \/ CloseProcesses \/ SessionFinish \/ Exit

Next ==
    \/ Ensure \/ Step
    \/ \E f \in File : AgentWrites(f) \/ OperatorWrites(f) \/ OrphanWrites(f)
                       \/ AgentStages(f) \/ AgentReverts(f)
    \/ OrphanEnds \/ AgentCommits \/ Interrupt \/ Killed

\* What the process waits for without a timeout: the backend of a turn (_stream
\* reads it to its end), and git: the snapshot, its comparison, a commit and its
\* hooks, the changes.  Suites have one, and the trace's database gives up.
InTurn == pc = "turn"
InGit ==
    \/ pc = "between" /\ stage \in AgentStage
    \/ pc = "enforce"
    \/ pc = "code" /\ stage \in {"commit", "changes"}

\* A process that runs goes on where it waits for nothing that may never end.
Spec == Init /\ [][Next]_vars /\ WF_vars(Step /\ ~ InTurn /\ ~ InGit)

-----------------------------------------------------------------------------
\* Every phase stays within its repairs, every loop within its rounds.
TypeOK ==
    /\ pc \in {"off"} \cup Live \cup Settling
    /\ flow \in Flows \cup {<<>>} /\ at \in 1..11 /\ stage \in AgentStage \cup CodeStage
    /\ round \in 1..MaxFixLoops
    /\ tries.json \in 0..MaxJson /\ tries.gate \in 0..Retries + 1
    /\ tries.gate > Retries => pc \notin {"send", "turn", "enforce"}
    /\ work \in [File -> SUBSET Who] /\ \A f \in File : index[f] \subseteq work[f]
    /\ before \subseteq File /\ changed \subseteq File
    /\ child => pc = "turn" /\ row.open
    /\ {row.status, row.phase} \subseteq {"none", "running", "success", "fail"}
    /\ row.total \subseteq 1..Runs /\ total \subseteq 1..Runs

\* A commit that follows a suite, or a review, in its workflow takes no code an
\* agent of the workflow changed since that suite passed, or that reviewer
\* approved ("the tree about to be committed is now the tree that was both
\* tested and approved").  Commits an agent makes itself are nobody's verdict.
CommitsVerified ==
    [][stage = "commit" /\ pc = "code" /\ pc' = "over" /\ ~hid =>
         /\ Preceded("test") => ~untested
         /\ Preceded("review") => ~unread]_vars

\* An agent's phase succeeds only if everything the agent changed and left
\* changed, over all its turns, lies within its write list; what it committed
\* itself the snapshots cannot see.
BoundaryHeld == pc = "over" /\ stage \in AgentStage /\ ~hid => wrote \subseteq Permitted

\* What the operator had not committed when a phase began is still in the tree,
\* or in a commit, or the agent reverted it: then it was the agent's to write,
\* or the phase does not succeed.  The factory's own cleanup never takes it.
OperatorWorkKept ==
    \A f \in begun : \/ "operator" \in work[f]
                     \/ f \in gone /\ (pc = "over" /\ stage \in AgentStage /\ ~hid => f \in Permitted)

\* The trace tells what became of a run: running while it runs, with a phase
\* that reads failed until it has earned its success; then success exactly when
\* the exit code says so and the last phase succeeded, with no child believed
\* alive and the spend of every run of the session, unless it was killed or hit
\* while it settled.
SessionTells ==
    /\ pc \in Live \cup {"closing", "finishing"} => row.status = "running"
    /\ pc \in {"code", "send", "turn", "enforce"} => row.phase = "fail"
    /\ row.status = "success" => row.phase = "success"
    /\ pc = "off" /\ runs > 0 => row.total = paid
    /\ pc = "off" /\ runs > 0 /\ ~cut =>
         /\ row.status \in {"success", "fail"} /\ ~row.open
         /\ row.status = "success" <=> exit = 0

\* Whatever agents reply, the last run ends, or waits for ever in one turn of a backend
\* or in one phase's call of git; none goes round its repairs and loops for ever.
RunEnds == <>[](pc = "off") \/ <>[]InTurn \/ <>[]InGit
=============================================================================
