---------------------------- MODULE RunScheduler ----------------------------
(***************************************************************************)
(* One issue from plan to pull request: run_issue, _run_issue and          *)
(* _build_tickets of orchestrator.py and prepr.step, over the state file   *)
(* and the run branch.  What happens inside a ticket is module             *)
(* TicketPipeline; here a ticket edits, commits, blocks, pauses or ends.   *)
(* The runner may be stopped, crash, run out of credits and be started     *)
(* again any number of times; the user works in the worktree in between.   *)
(*                                                                         *)
(* The branch is the sequence of its commits since the run began, each     *)
(* named by the ticket that made it or Foreign, so that a position in it   *)
(* is a sha.  The TicketStore and the state file are one variable: the     *)
(* runner saves every change of it before it takes another step.           *)
(***************************************************************************)
EXTENDS Integers, Sequences, FiniteSets, FiniteSetsExt, Functions

CONSTANTS
    Planned,        \* number of tickets in a plan; their ids are 1..Planned
    Fixes,          \* bound on pre-PR fix tickets; their ids follow
    Plans,          \* the plans there are: [deps, phase, gates, ticked, passed]
    None,           \* null
    Foreign,        \* the author of edits and commits no ticket made
    Final,          \* number of the final gate, above every phase
    MaxPrePrRounds, \* cfg.pre_pr.max_rounds
    UserActs,       \* what the user does between runs: "edit", "tidy" (such edits), "commit"
    MaxCommits      \* bound on the length of the branch for commits by others

Ids == 1..Planned + Fixes
GateStatus == {"pending", "pass", "fail", "skipped"}
Status == {"absent", "pending", "in_progress", "done", "blocked"}

ASSUME SchedulerAssumption ==
    /\ Planned \in Nat \ {0} /\ Fixes \in Nat /\ Final \in Nat
    /\ MaxPrePrRounds \in Nat /\ MaxCommits \in Nat
    /\ None \notin Nat \cup {Foreign} /\ Foreign \notin Ids
    /\ \A plan \in Plans :
         /\ plan.deps \in [Ids -> SUBSET Nat]
         /\ plan.phase \in [Ids -> 0..Final]
         /\ plan.passed \subseteq plan.gates /\ plan.gates \subseteq 1..Final
         /\ plan.ticked \subseteq 1..Planned
         /\ \A t \in Ids : plan.phase[t] # 0 => t <= Planned /\ plan.deps[t] = {}
         /\ \A t \in Ids : t > Planned => plan.deps[t] = {}
         /\ \A t, u \in 1..Planned : plan.phase[t] # 0 => plan.phase[u] # 0

VARIABLES
    plan,       \* what the issue asks for and has ticked; phase 0 is no phase
    store,      \* the TicketStore, as saved
    head,       \* commits of the run branch
    edits,      \* whose uncommitted edits are in the worktree, or None
    pc,         \* where the runner is; "idle" when none lives
    cur,        \* the ticket being processed
    commands,   \* --run-plan-commands was given
    exhausted,  \* report.budget_exhausted
    gateFailed, \* a plan gate counted in report.blocked
    approved,   \* approved_head of the publication under way
    outcome,    \* how the last process ended
    pushed,     \* position of the branch on the remote, or None
    opened,     \* a pull request is open
    suite       \* history: position the full suite last passed at

world == <<head, edits>>
report == <<commands, exhausted, gateFailed>>
remote == <<pushed, opened>>
vars == <<plan, store, world, pc, cur, report, approved, outcome, remote, suite>>

Store == [status : [Ids -> Status], base : [Ids -> Nat \cup {None}], full : [Ids -> Nat \cup {None}],
          last : Nat, gates : [1..Final -> GateStatus], rounds : Nat, pr : BOOLEAN]

Init ==
    /\ plan \in Plans
    /\ store = [status |-> [t \in Ids |-> "absent"], base |-> [t \in Ids |-> None],
                full |-> [t \in Ids |-> None], last |-> 0,
                gates |-> [g \in 1..Final |-> "pending"], rounds |-> 0, pr |-> FALSE]
    /\ head = <<>> /\ edits = None
    /\ pc = "idle" /\ cur = None
    /\ commands = FALSE /\ exhausted = FALSE /\ gateFailed = FALSE
    /\ approved = None /\ outcome = "none"
    /\ pushed = None /\ opened = FALSE /\ suite = None

Here == Len(head)
Dirty == edits # None

-----------------------------------------------------------------------------
(* The ticket store.                                                       *)

Tickets == {t \in Ids : store.status[t] # "absent"}
Done == {t \in Ids : store.status[t] = "done"}
Pending == {t \in Ids : store.status[t] \in {"pending", "in_progress"}}

\* Mutant of Ready: a blocked prerequisite counts as settled.
ReadyOnceSettled ==
    {t \in Pending : \A d \in plan.deps[t] : d \in Tickets /\ store.status[d] \in {"done", "blocked"}}

\* TicketStore.ready.
Ready == {t \in Pending : plan.deps[t] \subseteq Done}

\* TicketStore.dependency_failure: an unknown or blocked prerequisite.
DependencyFailure(t) == \E d \in plan.deps[t] : d \in Tickets => store.status[d] = "blocked"

\* _current_plan_phase: only the earliest unfinished phase of a plan issue builds.
CurrentPhase ==
    {t \in Ready : plan.phase[t] = 0 \/
        \A u \in Tickets \ Done : plan.phase[u] = 0 \/ plan.phase[t] <= plan.phase[u]}

\* Tickets that own unfinished changes; at most one of them is not blocked.
Owners == {t \in Ids : store.base[t] # None /\ store.status[t] # "done"}
Active == {t \in Owners : store.status[t] # "blocked"}

-----------------------------------------------------------------------------
Goto(place) == pc' = place /\ UNCHANGED <<cur, report, approved, outcome>>

\* The process ends, and its options and report with it.
End(how) ==
    /\ pc' = "idle" /\ outcome' = how /\ cur' = None /\ approved' = None
    /\ commands' = FALSE /\ exhausted' = FALSE /\ gateFailed' = FALSE

\* What a gate, suite or check command may do to the worktree, besides nothing.
Litter ==
    \/ edits = None /\ edits' = Foreign /\ UNCHANGED head
    \/ Here < MaxCommits /\ head' = Append(head, Foreign) /\ UNCHANGED edits

-----------------------------------------------------------------------------
(* Starting, stopping, and the user.                                       *)

StartRun ==
    /\ pc = "idle"
    /\ pc' = "plan" /\ outcome' = "none"
    /\ commands' \in BOOLEAN
    /\ UNCHANGED <<plan, store, world, cur, exhausted, gateFailed, approved, remote, suite>>

\* RunControl.check raises RunStopped; run_issue puts tickets in progress back.
Stop ==
    /\ pc \in {"plan", "schedule", "work", "suite", "checked", "prepr", "push", "open"}
    /\ store' = [store EXCEPT !.status =
           [t \in Ids |-> IF @[t] = "in_progress" THEN "pending" ELSE @[t]]]
    /\ End("stopped")
    /\ UNCHANGED <<plan, world, remote, suite>>

\* The process is killed, or an exception nobody handles ends it: nothing is saved.
Die ==
    /\ pc # "idle"
    /\ End("died")
    /\ UNCHANGED <<plan, store, world, remote, suite>>

UserWorks ==
    /\ pc = "idle"
    /\ \/ "tidy" \in UserActs /\ edits = Foreign /\ edits' = None /\ UNCHANGED head
       \/ "edit" \in UserActs /\ ~ Dirty /\ edits' = Foreign /\ UNCHANGED head
       \/ /\ "commit" \in UserActs /\ Here < MaxCommits
          /\ head' = Append(head, Foreign) /\ edits' = None
    /\ UNCHANGED <<plan, store, pc, cur, report, approved, outcome, remote, suite>>

-----------------------------------------------------------------------------
(* _run_issue up to its loop.                                              *)

PlanTickets ==
    /\ pc = "plan" /\ Tickets = {}
    /\ store' = [store EXCEPT
           !.status = [t \in Ids |-> IF t > Planned THEN "absent" ELSE IF t \in plan.ticked THEN "done" ELSE "pending"],
           !.gates = [g \in 1..Final |-> IF g \in plan.passed THEN "pass" ELSE "pending"]]
    /\ UNCHANGED <<plan, world, pc, cur, report, approved, outcome, remote, suite>>

PlanExhausted ==
    /\ pc = "plan" /\ Tickets = {}
    /\ End("finished")
    /\ UNCHANGED <<plan, store, world, remote, suite>>

\* Tickets loaded or planned; --retry-blocked reopens the blocked ones.
Resume(retryBlocked) ==
    /\ pc = "plan" /\ Tickets # {}
    /\ store' = [store EXCEPT !.status =
           [t \in Ids |-> IF retryBlocked /\ @[t] = "blocked" THEN "pending" ELSE @[t]]]
    /\ Goto("schedule")
    /\ UNCHANGED <<plan, world, remote, suite>>

-----------------------------------------------------------------------------
(* Plan gates: a phase gate once its phase and those before are done, the  *)
(* final gate before the pull request; a passed gate is not run again.     *)

DueGates(final) ==
    {g \in plan.gates :
        /\ store.gates[g] # "pass"
        /\ IF g = Final THEN final
           ELSE \A t \in Tickets : plan.phase[t] \in 1..g => t \in Done}

FailedBefore(due) == ~ commands /\ \E g \in due : store.gates[g] = "fail"

PassGates(final) ==
    LET due == DueGates(final)
    IN  /\ ~ FailedBefore(due)
        /\ store' = [store EXCEPT !.gates =
               [g \in 1..Final |-> IF g \in due THEN IF commands THEN "pass" ELSE "skipped" ELSE @[g]]]
        /\ Goto(IF final THEN "push" ELSE "choose")
        /\ UNCHANGED <<plan, world, remote, suite>>

\* The first gate that fails ends the round of gates.  Without permission to
\* run commands a gate that failed in an earlier run stays failed.
FailGate(final, g) ==
    LET due == DueGates(final)
    IN  /\ g \in due
        /\ IF commands THEN UNCHANGED world \/ Litter
           ELSE /\ store.gates[g] = "fail" /\ \A f \in due : f < g => store.gates[f] # "fail"
                /\ UNCHANGED world
        /\ store' = [store EXCEPT !.gates =
               [f \in 1..Final |-> IF f = g THEN "fail"
                                   ELSE IF f \in due /\ f < g
                                   THEN IF commands THEN "pass" ELSE "skipped" ELSE @[f]]]
        /\ gateFailed' = TRUE
        /\ pc' = IF final THEN "publish" ELSE "settle"
        /\ UNCHANGED <<plan, cur, commands, exhausted, approved, outcome, remote, suite>>

RunGates == pc = "schedule" /\ (PassGates(FALSE) \/ \E g \in plan.gates : FailGate(FALSE, g))

RunFinalGates == pc = "gates" /\ (PassGates(TRUE) \/ \E g \in plan.gates : FailGate(TRUE, g))

-----------------------------------------------------------------------------
(* The loop of _build_tickets.                                             *)

\* Nothing to build now, or an owner's edits are in the way.
Waiting == CurrentPhase = {} \/ (Owners # {} /\ Active = {} /\ Dirty)

Settle ==
    /\ pc = "choose"
    /\ CurrentPhase = {} \/ (Cardinality(Owners) <= 1 /\ Waiting)
    /\ Goto("settle")
    /\ UNCHANGED <<plan, store, world, remote, suite>>

\* Mutant of Choice: always the first ready ticket.
FirstReady == Min(CurrentPhase)

Choice == IF Active # {} THEN Min(Active) ELSE Min(CurrentPhase)

\* Mutant of BeginTicket: the base is not recorded before the work starts.
BeginUnrecorded ==
    /\ pc = "choose" /\ ~ Waiting
    /\ Cardinality(Owners) <= 1 /\ Choice \in CurrentPhase
    /\ store.base[Choice] = None => ~ Dirty /\ Here = store.last
    /\ cur' = Choice /\ pc' = "work"
    /\ store' = [store EXCEPT !.status[Choice] = "in_progress"]
    /\ UNCHANGED <<plan, world, report, approved, outcome, remote, suite>>

\* _process_ticket begins: the ticket takes HEAD as its base unless it has one.
BeginTicket ==
    /\ pc = "choose" /\ ~ Waiting
    /\ Cardinality(Owners) <= 1 /\ Choice \in CurrentPhase
    /\ store.base[Choice] = None => ~ Dirty /\ Here = store.last
    /\ cur' = Choice /\ pc' = "work"
    /\ store' = [store EXCEPT !.status[Choice] = "in_progress",
                              !.base[Choice] = IF @ = None THEN Here ELSE @]
    /\ UNCHANGED <<plan, world, report, approved, outcome, remote, suite>>

\* StateError: two owners, or an owner that is not ready; DevopsError: the
\* worktree is not where the runner left it.
RefuseTicket ==
    /\ pc = "choose" /\ CurrentPhase # {}
    /\ \/ Cardinality(Owners) > 1
       \/ ~ Waiting /\ Choice \notin CurrentPhase
       \/ ~ Waiting /\ store.base[Choice] = None /\ (Dirty \/ Here # store.last)
    /\ End("refused")
    /\ UNCHANGED <<plan, store, world, remote, suite>>

\* Commits since the base made for this ticket, and by others.
Made == {i \in DOMAIN head : i > store.base[cur] /\ head[i] = cur}

EditFiles ==
    /\ pc = "work" /\ edits # cur
    /\ edits' = cur
    /\ UNCHANGED <<plan, store, head, pc, cur, report, approved, outcome, remote, suite>>

CommitTicket ==
    /\ pc = "work" /\ edits = cur /\ Here = store.base[cur]
    /\ head' = Append(head, cur) /\ edits' = None
    /\ Goto("committed")
    /\ UNCHANGED <<plan, store, remote, suite>>

\* _finish_ticket, after the commit, after recovering it, or with none to make.
FinishTicket ==
    /\ \/ pc = "committed"
       \/ pc = "work" /\ ~ Dirty /\ Here = store.base[cur]
       \/ pc = "work" /\ ~ Dirty /\ Made = {Here} /\ Here = store.base[cur] + 1
    /\ \E full \in {None, Here} :
         /\ store' = [store EXCEPT !.status[cur] = "done", !.last = Here, !.full[cur] = full]
         /\ suite' = IF full = None THEN suite ELSE full
    /\ pc' = "schedule" /\ cur' = None
    /\ UNCHANGED <<plan, world, report, approved, outcome, remote>>

\* Mutant of AdoptCommits: the ticket's own commit is adopted like any other.
AdoptEverything ==
    /\ pc = "work" /\ Here > store.base[cur]
    /\ store' = [store EXCEPT !.base[cur] = Here, !.last = Here]
    /\ Goto("work")
    /\ UNCHANGED <<plan, world, remote, suite>>

AdoptCommits ==
    /\ pc = "work" /\ Here > store.base[cur] /\ Made = {}
    /\ store' = [store EXCEPT !.base[cur] = Here, !.last = Here]
    /\ Goto("work")
    /\ UNCHANGED <<plan, world, remote, suite>>

\* _block: the ticket keeps its base while edits are left.
BlockTicket ==
    /\ pc \in {"work", "committed"}
    /\ store' = [store EXCEPT !.status[cur] = "blocked", !.base[cur] = IF Dirty THEN @ ELSE None]
    /\ pc' = "schedule" /\ cur' = None
    /\ UNCHANGED <<plan, world, report, approved, outcome, remote, suite>>

BudgetExhausted ==
    /\ pc = "work"
    /\ store' = [store EXCEPT !.status[cur] = "pending"]
    /\ exhausted' = TRUE
    /\ pc' = "settle" /\ cur' = None
    /\ UNCHANGED <<plan, world, commands, gateFailed, approved, outcome, remote, suite>>

\* Mutant of BlockUnsatisfiable: dependents of what was just blocked are left.
BlockOnce(t) ==
    /\ pc = "settle" /\ ~ exhausted /\ Ready = {} /\ t \in Pending
    /\ DependencyFailure(t) \/ \A u \in Pending : ~ DependencyFailure(u)
    /\ store' = [store EXCEPT !.status[t] = "blocked", !.base[t] = IF Dirty THEN @ ELSE None]
    /\ Goto("publish")
    /\ UNCHANGED <<plan, world, remote, suite>>

\* _block_unsatisfiable: whoever depends on a blocked or unknown ticket is
\* blocked, until only cycles are left; they are blocked last.
BlockUnsatisfiable(t) ==
    /\ pc = "settle" /\ ~ exhausted /\ Ready = {} /\ t \in Pending
    /\ DependencyFailure(t) \/ \A u \in Pending : ~ DependencyFailure(u)
    /\ store' = [store EXCEPT !.status[t] = "blocked", !.base[t] = IF Dirty THEN @ ELSE None]
    /\ Goto("settle")
    /\ UNCHANGED <<plan, world, remote, suite>>

Settled ==
    /\ pc = "settle"
    /\ exhausted \/ Ready # {} \/ Pending = {}
    /\ Goto("publish")
    /\ UNCHANGED <<plan, store, world, remote, suite>>

-----------------------------------------------------------------------------
(* Publication.                                                            *)

Complete == Done # {} /\ Done = Tickets /\ ~ exhausted /\ ~ gateFailed

FinishRun ==
    /\ \/ pc = "publish" /\ ~ Complete
       \/ pc = "push" \* --no-pr, opened already, or the push failed
       \/ pc = "open" \* gh failed, or a pull request is open
    /\ End("finished")
    /\ UNCHANGED <<plan, store, world, remote, suite>>

\* The full suite is skipped if the last ticket's gate ran it on this tree.
Approve ==
    /\ pc = "publish" /\ Complete
    /\ ~ Dirty /\ Here = store.last
    /\ approved' = Here
    /\ pc' = IF store.full[Max(Done)] = Here THEN "checked" ELSE "suite"
    /\ UNCHANGED <<plan, store, world, cur, report, outcome, remote, suite>>

\* Dirty, or moved after the last accepted commit.
RefuseApproval ==
    /\ pc = "publish" /\ Complete /\ (Dirty \/ Here # store.last)
    /\ End("refused")
    /\ UNCHANGED <<plan, store, world, remote, suite>>

\* A suite that fails raises, like any command that cannot run (Die).
RunSuite ==
    /\ pc = "suite"
    /\ UNCHANGED world \/ Litter
    /\ suite' = Here
    /\ Goto("checked")
    /\ UNCHANGED <<plan, store, remote>>

\* Mutant of Recheck: what the suite did to the branch is not looked at.
RecheckFiles ==
    /\ pc = "checked" /\ ~ Dirty
    /\ Goto("prepr")
    /\ UNCHANGED <<plan, store, world, remote, suite>>

Recheck ==
    /\ pc = "checked" /\ ~ Dirty /\ Here = approved
    /\ Goto("prepr")
    /\ UNCHANGED <<plan, store, world, remote, suite>>

RefuseRecheck ==
    /\ pc = "checked" /\ (Dirty \/ Here # approved)
    /\ End("refused")
    /\ UNCHANGED <<plan, store, world, remote, suite>>

\* Mutant of PrePrChecks: the run goes on building even if there is nothing to fix.
PrePrAlwaysMore ==
    /\ pc = "prepr" /\ ~ store.pr
    /\ Goto("schedule")
    /\ UNCHANGED <<plan, store, world, remote, suite>>

\* prepr.step: every finding becomes a fix ticket, for max_rounds rounds.
PrePrChecks ==
    /\ pc = "prepr"
    /\ \/ store.pr /\ UNCHANGED store /\ Goto("gates")
       \/ /\ ~ store.pr
          /\ \E findings \in 0..Fixes :
               LET new == IF store.rounds < MaxPrePrRounds THEN Max(Tickets) + 1..Max(Tickets) + findings ELSE {}
               IN  /\ new \subseteq Ids
                   /\ store' = [store EXCEPT !.rounds = Min({@ + 1, MaxPrePrRounds}),
                                             !.status = [t \in Ids |-> IF t \in new THEN "pending" ELSE @[t]]]
                   /\ Goto(IF new = {} THEN "gates" ELSE "schedule")
    /\ UNCHANGED <<plan, world, remote, suite>>

\* A check that changed the worktree or moved the branch.
RefusePrePr ==
    /\ pc = "prepr" /\ ~ store.pr
    /\ Litter
    /\ End("refused")
    /\ UNCHANGED <<plan, store, remote, suite>>

Push ==
    /\ pc = "push" /\ ~ store.pr
    /\ pushed' = Here
    /\ Goto("open")
    /\ UNCHANGED <<plan, store, world, opened, suite>>

OpenPullRequest ==
    /\ pc = "open" /\ ~ opened
    /\ opened' = TRUE
    /\ Goto("record")
    /\ UNCHANGED <<plan, store, world, pushed, suite>>

RecordPullRequest ==
    /\ pc = "record"
    /\ store' = [store EXCEPT !.pr = TRUE]
    /\ End("finished")
    /\ UNCHANGED <<plan, world, remote, suite>>

-----------------------------------------------------------------------------
Step ==
    \/ PlanTickets \/ PlanExhausted \/ \E b \in BOOLEAN : Resume(b)
    \/ RunGates \/ Settle \/ BeginTicket \/ RefuseTicket
    \/ EditFiles \/ CommitTicket \/ FinishTicket \/ AdoptCommits \/ BlockTicket \/ BudgetExhausted
    \/ \E t \in Ids : BlockUnsatisfiable(t)
    \/ Settled \/ FinishRun \/ Approve \/ RefuseApproval \/ RunSuite \/ Recheck \/ RefuseRecheck
    \/ PrePrChecks \/ RefusePrePr \/ RunFinalGates \/ Push \/ OpenPullRequest \/ RecordPullRequest

Next == Step \/ StartRun \/ Stop \/ Die \/ UserWorks

\* Commands have timeouts and every ticket's run ends (TicketPipeline!RunEnds),
\* so a live runner keeps moving.  Nobody has to start, stop or kill it.
Spec == Init /\ [][Next]_vars /\ WF_vars(Step)

-----------------------------------------------------------------------------
(* What must hold.                                                         *)

\* Types; shas that are on the branch; and the ticket being worked on has
\* said so in the state file, with the commit it started from.
TypeOK ==
    /\ plan \in Plans /\ store \in Store
    /\ edits \in Ids \cup {None, Foreign} /\ Range(head) \subseteq Ids \cup {Foreign}
    /\ store.last <= Here /\ \A t \in Ids : store.base[t] \in 0..Here \cup {None}
    /\ pushed \in 0..Here \cup {None} /\ suite \in 0..Here \cup {None}
    /\ pc \in {"work", "committed"} <=> cur # None
    /\ cur # None => store.status[cur] = "in_progress" /\ store.base[cur] # None

\* Uncommitted work has one owner, which the state file knows: no run, stop,
\* crash or block makes two tickets own unfinished changes, which every later
\* run would refuse (_build_tickets).  The user may edit and commit, not tidy.
OneOwner == Cardinality(Owners) <= 1 /\ (edits \in Ids => edits \in Owners)

\* However often a run is killed between a commit and its record, no ticket is
\* committed twice (recover_commit, adopt_head).
OneCommitEach == \A i, j \in DOMAIN head : head[i] = head[j] /\ head[i] # Foreign => i = j

\* A ticket starts only on what it builds on: its dependencies are done, every
\* earlier phase of the plan is done, and the gates of those phases passed or
\* were skipped for want of permission.
BuiltInOrder ==
    [][\A t \in Ids :
         store.status[t] # "in_progress" /\ store'.status[t] = "in_progress"
         => /\ plan.deps[t] \subseteq Done
            /\ \A u \in Tickets : plan.phase[u] \in 1..plan.phase[t] - 1 => u \in Done
            /\ \A g \in plan.gates \cap 1..plan.phase[t] - 1 : store.gates[g] \in {"pass", "skipped"}]_vars

\* What is pushed is the last accepted commit, the full suite passed on it, no
\* edit is left out, every ticket is done, and no gate is pending or failed.
PublishedVetted ==
    [][pushed' # pushed
       => /\ pushed' = suite /\ pushed' = store.last /\ ~ Dirty
          /\ Done = Tickets
          /\ \A g \in plan.gates : store.gates[g] \in {"pass", "skipped"}]_vars

\* A run that ends in order leaves a ticket waiting only behind the edits of a
\* blocked one or behind an earlier phase; whatever can never run is blocked,
\* so that the report names it (_block_unsatisfiable).
NothingForgotten ==
    [][pc # "idle" /\ outcome' = "finished" /\ ~ exhausted /\ ~ gateFailed
       => \A t \in Pending :
            \/ Dirty /\ \E u \in Owners : store.status[u] = "blocked"
            \/ \E u \in Tickets \ Done : plan.phase[u] \in 1..plan.phase[t] - 1]_vars

\* Every run ends: blocked tickets, failed gates, dependency cycles and pre-PR
\* findings never keep the loops of _run_issue and _build_tickets turning.
RunEnds == pc # "idle" ~> pc = "idle"

\* README.md:513: after a user stop the same command resumes.  It does not
\* when two tickets own unfinished changes: _build_tickets refuses for good.
StopIsResumable == pc = "idle" /\ outcome = "stopped" => Cardinality(Owners) <= 1
=============================================================================
