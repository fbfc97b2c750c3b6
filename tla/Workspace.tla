------------------------------ MODULE Workspace ------------------------------
(***************************************************************************)
(* How a run gets hold of an issue, a branch and a worktree, and shares    *)
(* them.  run_issue takes three file locks one after the other, loads the  *)
(* state file, and _prepare_workspace makes, finishes or checks the run    *)
(* worktree; _prepare_toolchain installs into it; _mirror_tickets and      *)
(* PlanBodyMirror.sync tell the tracker; the ticket is built (its inside   *)
(* is module TicketPipeline, here edits and one commit).  --update-pr      *)
(* (phases/update_pr.py, merge.update_pr_branch) merges the base into the  *)
(* same branch from a worktree of its own and takes no lock.               *)
(*                                                                         *)
(* One issue, so one branch name; several runners, started in any source   *)
(* checkout with any state directory.  The sources are worktrees of one    *)
(* repository: they have a git dir each and share the common dir.  A       *)
(* runner may die anywhere; the kernel then frees its locks.  A history is *)
(* [base, own]: how many commits of the base branch it contains, and which *)
(* commits were made on the run branch.                                    *)
(***************************************************************************)
EXTENDS Integers, FiniteSets

CONSTANTS
    Runner,      \* issue-runner processes
    Source,      \* source checkouts (cfg.repo_dir)
    StateDir,    \* state directories, each with a place for a run worktree
    Pr,          \* the directory of the worktree of --update-pr
    None,        \* nothing
    Edit,        \* edits a person makes in the body of the plan issue
    SyncAttempts,\* attempts of PlanBodyMirror.sync
    MaxStarts,   \* bound on starts of runners and updates
    MaxEvents    \* bound on what the user and other people do

Histories == [base : Nat, own : SUBSET (StateDir \cup {Pr, "other"})]

ASSUME WorkspaceAssumption ==
    /\ SyncAttempts \in Nat \ {0} /\ MaxStarts \in Nat /\ MaxEvents \in Nat
    /\ Source # {} /\ Source \cap StateDir = {} /\ Pr \notin Source \cup StateDir
    /\ Edit \cap StateDir = {}
    /\ None \notin Source \cup StateDir \cup Runner \cup {Pr} \cup Histories
    /\ None \notin {"torn", "main", "run", "other"}

VARIABLES
    run,      \* the runners: [pc, src, dir, plan, isolate, before, seen, tries]
    lock,     \* the runner that holds a lock, or None
    disk,     \* the state file of each state directory
    at,       \* what is checked out at a place: None, "torn", "main", "run", "other"
    dirt,     \* uncommitted work at a place, by who made it
    main,     \* the history of each source's own branch: a number
    branch,   \* the run branch, or None
    origin,   \* the run branch on GitHub, or None
    tracker,  \* sub-issues opened for a state's ticket; the body of the plan issue
    update,   \* the --update-pr process: [pc, head, remote]
    touched,  \* history: states whose creation somebody else interfered with
    warned,   \* history: states whose setup was killed or refused over a ticket's file, or its undoing failed
    refused,  \* history: states whose creation a later start refused to finish
    lost,     \* history: sub-issues whose number never reached the state file
    late,     \* history: edits and commits that fell between a check and the overwrite it allows
    stray,    \* history: the update was killed, a clean-up or git call of its own failed half way,
              \* or its resolver switched branches
    starts, events

git == <<at, dirt, main, branch, origin>>
history == <<touched, warned, refused, lost, late, stray>>
bounds == <<starts, events>>
vars == <<run, lock, disk, git, tracker, update, history, bounds>>

Place == Source \cup StateDir \cup {Pr}
BranchLock == "branch"
Lock == StateDir \cup Source \cup {BranchLock}
History(base, own) == [base |-> base, own |-> own]

\* git merge-base --is-ancestor.
Within(h, k) == h.base <= k.base /\ h.own \subseteq k.own

Off == [pc |-> "off", src |-> None, dir |-> None, plan |-> FALSE, isolate |-> TRUE, before |-> {},
        seen |-> None, tries |-> 0]

\* TicketStore as saved: nothing, or a plan and a workspace.
NoState == [src |-> None, place |-> None, named |-> FALSE, init |-> None, last |-> None,
            ready |-> FALSE, planned |-> FALSE, sub |-> 0, done |-> FALSE]

\* Nothing is saved, or the state of a version without worktrees is, in a
\* source that has its branch checked out.
Init ==
    /\ run = [p \in Runner |-> Off] /\ lock = [l \in Lock |-> None]
    /\ \/ /\ disk = [s \in StateDir |-> NoState] /\ branch = None
          /\ at = [q \in Place |-> IF q \in Source THEN "main" ELSE None]
       \/ \E s \in StateDir, c \in Source :
            /\ disk = [x \in StateDir |-> IF x = s THEN [NoState EXCEPT !.named = TRUE] ELSE NoState]
            /\ branch = History(0, {})
            /\ at = [q \in Place |-> IF q = c THEN "run" ELSE IF q \in Source THEN "main" ELSE None]
    /\ dirt = [q \in Place |-> {}] /\ main = [c \in Source |-> 0] /\ origin = None
    /\ tracker = [opened |-> [s \in StateDir |-> 0], edits |-> {}, marks |-> [s \in StateDir |-> 0]]
    /\ update = [pc |-> "off", head |-> None, remote |-> None]
    /\ touched = {} /\ warned = {} /\ refused = {} /\ lost = [s \in StateDir |-> 0] /\ late = {} /\ stray = FALSE
    /\ starts = 0 /\ events = 0

Inside == {"prepare", "create", "settle", "mirror", "created", "reread", "write", "work"}
Mine(p) == disk[run[p].dir]

-----------------------------------------------------------------------------
(* Locks.  None of them waits.                                             *)

Goto(p, pc) == run' = [run EXCEPT ![p].pc = pc]

\* The way out of run_issue, and what the kernel does for a dead process.
Leave(p) ==
    /\ run' = [run EXCEPT ![p] = Off]
    /\ lock' = [l \in Lock |-> IF lock[l] = p THEN None ELSE lock[l]]

\* _file_lock, not blocking: taken, or "another issue-runner owns this".
Take(p, l, next) ==
    IF lock[l] = None THEN lock' = [lock EXCEPT ![l] = p] /\ Goto(p, next) ELSE Leave(p)

Start(p) ==
    /\ run[p].pc = "off" /\ starts < MaxStarts /\ starts' = starts + 1
    /\ \E src \in Source, dir \in StateDir, plan, isolate \in BOOLEAN :
         /\ plan => isolate   \* --plan-only makes no workspace
         /\ run' = [run EXCEPT ![p] = [Off EXCEPT !.pc = "state", !.src = src, !.dir = dir,
                                                  !.plan = plan, !.isolate = isolate]]
    /\ UNCHANGED <<lock, disk, git, tracker, update, history, events>>

\* Mutant of TakeState: --plan-only needs no lock.
TakeStateToBuild(p) ==
    /\ run[p].pc = "state"
    /\ IF run[p].plan THEN Goto(p, "load") /\ UNCHANGED lock ELSE Take(p, run[p].dir, "repo")
    /\ UNCHANGED <<disk, git, tracker, update, history, bounds>>

\* state_lock.
TakeState(p) ==
    /\ run[p].pc = "state"
    /\ Take(p, run[p].dir, IF run[p].plan THEN "load" ELSE "repo")
    /\ UNCHANGED <<disk, git, tracker, update, history, bounds>>

\* repository_lock: in the git dir of this source.
TakeRepository(p) ==
    /\ run[p].pc = "repo"
    /\ Take(p, run[p].src, "load")
    /\ UNCHANGED <<disk, git, tracker, update, history, bounds>>

\* TicketStore.load; a state belongs to the source it was saved for.
Load(p) ==
    /\ run[p].pc = "load"
    /\ IF Mine(p).src \in {None, run[p].src}
       THEN Goto(p, IF run[p].plan THEN "mirror" ELSE "branch") /\ UNCHANGED lock
       ELSE Leave(p)
    /\ UNCHANGED <<disk, git, tracker, update, history, bounds>>

\* Mutant of TakeBranch: the lock file is in the git dir, not in the common dir.
TakeBranchHere(p) ==
    /\ run[p].pc = "branch"
    /\ Goto(p, "prepare") /\ UNCHANGED lock
    /\ UNCHANGED <<disk, git, tracker, update, history, bounds>>

\* branch_lock: in the common dir of all worktrees.
TakeBranch(p) ==
    /\ run[p].pc = "branch"
    /\ Take(p, BranchLock, "prepare")
    /\ UNCHANGED <<disk, git, tracker, update, history, bounds>>

-----------------------------------------------------------------------------
(* _prepare_workspace                                                      *)

\* Git checks a branch out at one place only.
Free == \A q \in Place : at[q] # "run"

\* require_clean.
Clean(q) == dirt[q] = {}

\* TicketStore.save, source_repo included.
SaveState(p, new) == disk' = [disk EXCEPT ![run[p].dir] = [new EXCEPT !.src = run[p].src]]

\* The exceptions of the preparation; what was saved stays.
Refuse(p) ==
    /\ Leave(p)
    /\ refused' = IF Mine(p).place # None /\ ~ Mine(p).ready THEN refused \cup {run[p].dir} ELSE refused
    /\ UNCHANGED <<disk, git, tracker, update, touched, warned, lost, late, stray, bounds>>

\* A creation that another run, the user or half a git command got in the way of.
Interfere(dirs) == touched' = touched \cup dirs

Others(p) == StateDir \ {run[p].dir}

\* A new run: the source is clean and nobody has the branch; the choice is
\* saved before git is asked to create anything.
Record(p) ==
    /\ run[p].pc = "prepare" /\ Mine(p).place = None /\ ~ Mine(p).named
    /\ LET src == run[p].src IN
       IF Clean(src) /\ branch = None
       THEN /\ SaveState(p, [Mine(p) EXCEPT !.place = IF run[p].isolate THEN run[p].dir ELSE src, !.named = TRUE,
                               !.init = main[src], !.last = History(main[src], {})])
            /\ Goto(p, "create")
            /\ UNCHANGED <<lock, git, tracker, update, history, bounds>>
       ELSE Refuse(p)

\* create_worktree, create_branch: the source is clean, the place is free.
Create(p) ==
    /\ run[p].pc = "create"
    /\ LET src == run[p].src  place == Mine(p).place IN
       IF Clean(src) /\ branch = None /\ (place = src \/ at[place] = None)
       THEN /\ branch' = History(main[src], {}) /\ at' = [at EXCEPT ![place] = "run"]
            /\ Interfere(Others(p))
            /\ SaveState(p, [Mine(p) EXCEPT !.ready = TRUE])
            /\ Goto(p, "tool")
            /\ UNCHANGED <<lock, dirt, main, origin, tracker, update, warned, refused, lost, late, stray, bounds>>
       ELSE Refuse(p)

\* The process or its git dies meanwhile: the branch may exist, the directory
\* may exist in part or whole, and "ready" is not saved.
CutShort(p) ==
    /\ run[p].pc = "create" /\ branch = None /\ Clean(run[p].src)
    /\ LET src == run[p].src  place == Mine(p).place IN
       /\ place = src \/ at[place] = None
       /\ branch' = History(main[src], {})
       /\ \E left \in IF place = src THEN {"main", "run"} ELSE {None, "torn", "run"} :
            /\ at' = [at EXCEPT ![place] = left]
            /\ Interfere(IF left = "torn" THEN StateDir ELSE Others(p))
    /\ Leave(p)
    /\ UNCHANGED <<disk, dirt, main, origin, tracker, update, warned, refused, lost, late, stray, bounds>>

\* Mutant of Finish: a creation that was cut short starts over.
FinishAfresh(p) ==
    /\ run[p].pc = "prepare" /\ Mine(p).place \in StateDir /\ ~ Mine(p).ready
    /\ LET src == run[p].src  place == Mine(p).place IN
       IF /\ at[place] = None /\ branch = None
          /\ main[src] = Mine(p).init /\ Clean(src)
       THEN /\ branch' = History(Mine(p).init, {}) /\ at' = [at EXCEPT ![place] = "run"]
            /\ SaveState(p, [Mine(p) EXCEPT !.ready = TRUE]) /\ Goto(p, "tool")
            /\ UNCHANGED <<lock, dirt, main, origin, tracker, update, history, bounds>>
       ELSE Refuse(p)

\* finish_worktree_creation: whatever is missing of the recorded worktree is
\* made, and whatever is there must be as recorded.
Finish(p) ==
    /\ run[p].pc = "prepare" /\ Mine(p).place \in StateDir /\ ~ Mine(p).ready
    /\ LET src == run[p].src  place == Mine(p).place  fresh == History(Mine(p).init, {}) IN
       IF \/ at[place] = None /\ branch = fresh /\ Free
          \/ at[place] = None /\ branch = None /\ main[src] = Mine(p).init /\ Clean(src)
          \/ at[place] = "run" /\ branch = fresh /\ Clean(place)
       THEN /\ branch' = fresh /\ at' = [at EXCEPT ![place] = "run"]
            /\ Interfere(Others(p))
            /\ IF Clean(src)   \* require_clean(source)
               THEN SaveState(p, [Mine(p) EXCEPT !.ready = TRUE]) /\ Goto(p, "tool") /\ UNCHANGED lock
               ELSE SaveState(p, [Mine(p) EXCEPT !.ready = TRUE]) /\ Leave(p)
            /\ UNCHANGED <<dirt, main, origin, tracker, update, warned, refused, lost, late, stray, bounds>>
       ELSE Refuse(p)

\* The same for --in-place: create_branch switches to the branch or creates it.
FinishInPlace(p) ==
    /\ run[p].pc = "prepare" /\ Mine(p).place \in Source /\ ~ Mine(p).ready
    /\ LET src == run[p].src IN
       IF at[src] = "run" \/ (Clean(src) /\ Free)
       THEN /\ branch' = IF branch = None THEN History(main[src], {}) ELSE branch
            /\ at' = [at EXCEPT ![src] = "run"]
            /\ Interfere(Others(p))
            /\ SaveState(p, [Mine(p) EXCEPT !.ready = TRUE]) /\ Goto(p, "tool")
            /\ UNCHANGED <<lock, dirt, main, origin, tracker, update, warned, refused, lost, late, stray, bounds>>
       ELSE Refuse(p)

\* A saved workspace is still there, on its branch.
Resume(p) ==
    /\ run[p].pc = "prepare" /\ Mine(p).ready
    /\ IF at[Mine(p).place] = "run" /\ (Mine(p).place \in StateDir => Clean(run[p].src))
       THEN Goto(p, "tool") /\ UNCHANGED <<lock, disk, git, tracker, update, history, bounds>>
       ELSE Refuse(p)

\* State without worktree metadata resumes in its clean checkout only.
ResumeLegacy(p) ==
    /\ run[p].pc = "prepare" /\ Mine(p).place = None /\ Mine(p).named
    /\ LET src == run[p].src IN
       IF Clean(src) /\ at[src] = "run"
       THEN /\ SaveState(p, [Mine(p) EXCEPT !.place = src, !.ready = TRUE, !.init = branch.base, !.last = branch])
            /\ Goto(p, "tool")
            /\ UNCHANGED <<lock, git, tracker, update, history, bounds>>
       ELSE Refuse(p)

-----------------------------------------------------------------------------
(* _prepare_toolchain                                                      *)

\* Only a worktree of the runner is provisioned.
SkipSetup(p) ==
    /\ run[p].pc = "tool"
    /\ Goto(p, "mirror")
    /\ UNCHANGED <<lock, disk, git, tracker, update, history, bounds>>

\* toolchain.provision, run_setup: the steps may write code, new files or the
\* files of an unfinished ticket, before they end or fail.
Setup(p) ==
    /\ run[p].pc = "tool" /\ Mine(p).place \in StateDir
    /\ LET place == Mine(p).place IN
       \E writes \in SUBSET ({"setup"} \cup IF "ticket" \in dirt[place] THEN {"mixed"} ELSE {}) :
         /\ dirt' = [dirt EXCEPT ![place] = @ \cup writes]
         /\ run' = [run EXCEPT ![p].pc = "settle", ![p].before = dirt[place]]
    /\ UNCHANGED <<lock, disk, at, main, branch, origin, tracker, update, history, bounds>>

\* Mutant of Settle: a step that failed is reported without a look at the worktree.
SettleIfDone(p) ==
    /\ run[p].pc = "settle"
    /\ LET place == Mine(p).place IN
       \/ /\ dirt[place] = run[p].before
          /\ run' = [run EXCEPT ![p].pc = "mirror", ![p].before = {}]
          /\ UNCHANGED <<lock, disk, git, tracker, update, history, bounds>>
       \/ Refuse(p)

\* _refuse_provisioning_changes: code the setup wrote is undone if it is in new
\* paths, named and left if it is in files that were changed before.
Settle(p) ==
    /\ run[p].pc = "settle"
    /\ LET place == Mine(p).place IN
       \/ /\ dirt[place] = run[p].before
          /\ run' = [run EXCEPT ![p].pc = "mirror", ![p].before = {}]
          /\ UNCHANGED <<lock, disk, git, tracker, update, history, bounds>>
       \/ /\ dirt' = [dirt EXCEPT ![place] = @ \ ({"setup"} \ run[p].before)]
          /\ warned' = IF "mixed" \in dirt[place] THEN warned \cup {place} ELSE warned
          /\ Leave(p)
          /\ UNCHANGED <<disk, at, main, branch, origin, tracker, update, touched, refused, lost, late, stray, bounds>>

-----------------------------------------------------------------------------
(* The tracker.                                                            *)

\* The planner's answer is saved; a plan that is saved is resumed.
Plan(p) ==
    /\ run[p].pc = "mirror" /\ ~ Mine(p).planned
    /\ SaveState(p, [Mine(p) EXCEPT !.planned = TRUE])
    /\ UNCHANGED <<run, lock, git, tracker, update, history, bounds>>

\* _mirror_tickets: one sub-issue for a ticket that has none; the answer may be lost.
Open(p) ==
    /\ run[p].pc = "mirror" /\ Mine(p).planned /\ Mine(p).sub = 0
    /\ tracker' = [tracker EXCEPT !.opened[run[p].dir] = @ + 1]
    /\ \/ Goto(p, "created") /\ UNCHANGED <<lock, lost>>
       \/ Leave(p) /\ lost' = [lost EXCEPT ![run[p].dir] = @ + 1]
    /\ UNCHANGED <<disk, git, update, touched, warned, refused, late, stray, bounds>>

Number(p) ==
    /\ run[p].pc = "created"
    /\ SaveState(p, [Mine(p) EXCEPT !.sub = tracker.opened[run[p].dir]])
    /\ Goto(p, "mirror")
    /\ UNCHANGED <<lock, git, tracker, update, history, bounds>>

\* What rewrite() puts into the runner's markers: 1 planned, 2 done.
Marks(p) == IF Mine(p).done THEN 2 ELSE 1

\* Where the run goes on when the plan issue is up to date, or cannot be.
Synced(p) ==
    IF run[p].plan \/ Mine(p).done THEN Leave(p)
    ELSE run' = [run EXCEPT ![p].pc = "work", ![p].seen = None, ![p].tries = 0] /\ UNCHANGED lock

\* PlanBodyMirror.sync: the body is read and rewritten in memory.
Sync(p) ==
    /\ run[p].pc = "mirror" /\ Mine(p).planned /\ Mine(p).sub # 0
    /\ IF run[p].tries = SyncAttempts \/ tracker.marks[run[p].dir] = Marks(p)
       THEN Synced(p)
       ELSE /\ run' = [run EXCEPT ![p].pc = "reread", ![p].seen = tracker.edits, ![p].tries = @ + 1]
            /\ UNCHANGED lock
    /\ UNCHANGED <<disk, git, tracker, update, history, bounds>>

\* Mutant of Reread: it is written as it was read.
RereadNothing(p) ==
    /\ run[p].pc = "reread"
    /\ Goto(p, "write")
    /\ UNCHANGED <<lock, disk, git, tracker, update, history, bounds>>

\* Read again just before writing: an edit starts the attempt anew.
Reread(p) ==
    /\ run[p].pc = "reread"
    /\ Goto(p, IF tracker.edits = run[p].seen THEN "write" ELSE "mirror")
    /\ UNCHANGED <<lock, disk, git, tracker, update, history, bounds>>

Write(p) ==
    /\ run[p].pc = "write"
    /\ tracker' = [tracker EXCEPT !.edits = run[p].seen, !.marks[run[p].dir] = Marks(p)]
    /\ Goto(p, "mirror")
    /\ UNCHANGED <<lock, disk, git, update, history, bounds>>

-----------------------------------------------------------------------------
(* The build, as far as branch and worktree see it.                        *)

\* A ticket starts on a clean worktree at the last accepted commit, an
\* unfinished one goes on; its agents edit.
Build(p) ==
    /\ run[p].pc = "work" /\ branch = Mine(p).last /\ at[Mine(p).place] = "run"
    /\ Clean(Mine(p).place) \/ "ticket" \in dirt[Mine(p).place]
    /\ dirt' = [dirt EXCEPT ![Mine(p).place] = @ \cup {"ticket"}]
    /\ UNCHANGED <<run, lock, disk, at, main, branch, origin, tracker, update, history, bounds>>

\* commit_ticket, _finish_ticket, and the plan issue once more.
Commit(p) ==
    /\ run[p].pc = "work" /\ branch = Mine(p).last /\ at[Mine(p).place] = "run"
    /\ "ticket" \in dirt[Mine(p).place]
    /\ branch' = [branch EXCEPT !.own = @ \cup {run[p].dir}]
    /\ dirt' = [dirt EXCEPT ![Mine(p).place] = {}]
    /\ SaveState(p, [Mine(p) EXCEPT !.last = branch', !.done = TRUE])
    /\ late' = IF update.pc = "checkout" THEN late \cup {run[p].dir} ELSE late
    /\ Goto(p, "push")
    /\ UNCHANGED <<lock, at, main, origin, tracker, update, touched, warned, refused, lost, stray, bounds>>

\* push_branch; git refuses what is no fast-forward.
Push(p) ==
    /\ run[p].pc = "push"
    /\ origin' = IF origin = None \/ Within(origin, branch) THEN branch ELSE origin
    /\ Goto(p, "mirror")
    /\ UNCHANGED <<lock, disk, at, dirt, main, branch, tracker, update, history, bounds>>

\* Stopped, refused, blocked or at a limit: the state is saved already.
End(p) ==
    /\ run[p].pc \in {"mirror", "work"}
    /\ Leave(p)
    /\ UNCHANGED <<disk, git, tracker, update, history, bounds>>

\* Death at any point (within Create, CutShort).  What a setup wrote stays, as it
\* does if the setup raises anything but ProvisionError or discard_paths fails.
Die(p) ==
    /\ run[p].pc # "off"
    /\ Leave(p)
    /\ warned' = IF run[p].pc = "settle" THEN warned \cup {run[p].dir} ELSE warned
    /\ lost' = [lost EXCEPT ![run[p].dir] = IF run[p].pc = "created" THEN @ + 1 ELSE @]
    /\ UNCHANGED <<disk, git, tracker, update, touched, refused, late, stray, bounds>>

-----------------------------------------------------------------------------
(* --update-pr                                                             *)

Update(pc) == update' = [update EXCEPT !.pc = pc]

\* Mutant of CheckPull: the local branch is not compared with the one on GitHub.
CheckPullOnly ==
    /\ update.pc = "off" /\ starts < MaxStarts /\ starts' = starts + 1
    /\ origin # None /\ at[Pr] = None
    /\ update' = [update EXCEPT !.pc = "checkout", !.remote = origin]
    /\ UNCHANGED <<run, lock, disk, git, tracker, history, events>>

\* checkout_branch_worktree: no directory, and a local branch that has nothing
\* GitHub does not have.
CheckPull ==
    /\ update.pc = "off" /\ starts < MaxStarts /\ starts' = starts + 1
    /\ origin # None /\ at[Pr] = None
    /\ branch = None \/ Within(branch, origin)
    /\ update' = [update EXCEPT !.pc = "checkout", !.remote = origin]
    /\ UNCHANGED <<run, lock, disk, git, tracker, history, events>>

\* Mutant of Checkout: git worktree add --force -B.
CheckoutByForce ==
    /\ update.pc = "checkout"
    /\ branch' = update.remote /\ at' = [at EXCEPT ![Pr] = "run"]
    /\ update' = [update EXCEPT !.pc = "merge", !.head = update.remote]
    /\ touched' = StateDir
    /\ UNCHANGED <<run, lock, disk, dirt, main, origin, tracker, warned, refused, lost, late, stray, bounds>>

\* git worktree add -B: the branch is put where GitHub's is, unless it is
\* checked out somewhere.  It is outside the try: what a git that was killed or
\* timed out has made stays.
Checkout ==
    /\ update.pc = "checkout"
    /\ \/ /\ Free /\ branch' = update.remote /\ at' = [at EXCEPT ![Pr] = "run"]
          /\ update' = [update EXCEPT !.pc = "merge", !.head = update.remote]
          /\ touched' = StateDir /\ UNCHANGED stray
       \/ /\ Free /\ branch' = update.remote
          /\ \E left \in {None, "torn", "run"} : at' = [at EXCEPT ![Pr] = left]
          /\ Update("off") /\ touched' = StateDir /\ stray' = TRUE
       \/ Update("off") /\ UNCHANGED <<branch, at, touched, stray>>
    /\ UNCHANGED <<run, lock, disk, dirt, main, origin, tracker, warned, refused, lost, late, bounds>>

Newest == CHOOSE n \in {main[c] : c \in Source} : \A c \in Source : main[c] <= n

\* The branch with the base merged into it.
Merged == History(Newest, branch.own \cup {Pr})

\* _discard_changes ignores a git call that fails or times out: the merge, its
\* commit or what provisioning wrote may stay.
LeaveBehind(histories) ==
    /\ branch' \in histories /\ dirt' \in {dirt, [dirt EXCEPT ![Pr] = {"update"}]}
    /\ stray' = TRUE

\* Mutant of Merge: a failed merge is aborted, and its leftovers stay.
MergeAndAbort ==
    /\ update.pc = "merge"
    /\ \/ branch.base < Newest /\ branch' = Merged /\ Update("push") /\ UNCHANGED dirt
       \/ Update("remove") /\ dirt' \in {dirt, [dirt EXCEPT ![Pr] = {"update"}]} /\ UNCHANGED branch
    /\ UNCHANGED <<run, lock, disk, at, main, origin, tracker, history, bounds>>

\* _prepare_toolchain and update_pr_branch: merged and tested; nothing to merge,
\* or failed and put back; failed and not put back, as git failed once more or
\* the resolver has switched branches.
Merge ==
    /\ update.pc = "merge"
    /\ \/ /\ branch.base < Newest /\ branch' = Merged
          /\ Update("push") /\ UNCHANGED <<dirt, at, stray>>
       \/ Update("remove") /\ UNCHANGED <<branch, dirt, at, stray>>
       \/ /\ Update("remove") /\ LeaveBehind({branch, Merged})
          /\ at' \in {at, [at EXCEPT ![Pr] = "other"]}
    /\ UNCHANGED <<run, lock, disk, main, origin, tracker, touched, warned, refused, lost, late, bounds>>

\* The push is a fast-forward or refused; a merge that was refused, or pushed
\* without an answer, is taken back (reset_hard, _discard_changes) unless git fails.
PushMerge ==
    /\ update.pc = "push"
    /\ origin' \in {origin} \cup IF Within(origin, branch) THEN {branch} ELSE {}
    /\ \/ origin' = branch /\ UNCHANGED <<branch, dirt, stray>>
       \/ branch' = update.head /\ UNCHANGED <<dirt, stray>>
       \/ LeaveBehind({branch, update.head})
    /\ Update("remove")
    /\ UNCHANGED <<run, lock, disk, at, main, tracker, touched, warned, refused, lost, late, bounds>>

UpdateEnds == update' = [pc |-> "off", head |-> None, remote |-> None]

\* _remove_if_clean; nobody looks whether git removed it.
Remove ==
    /\ update.pc = "remove" /\ UpdateEnds
    /\ \/ at' = (IF Clean(Pr) THEN [at EXCEPT ![Pr] = None] ELSE at) /\ UNCHANGED stray
       \/ stray' = TRUE /\ UNCHANGED at
    /\ UNCHANGED <<run, lock, disk, dirt, main, branch, origin, tracker, touched, warned, refused, lost, late, bounds>>

\* Within git worktree add, Checkout.
UpdateDies ==
    /\ update.pc # "off" /\ UpdateEnds
    /\ IF update.pc = "merge" THEN LeaveBehind({branch, Merged}) ELSE stray' = TRUE /\ UNCHANGED <<branch, dirt>>
    /\ UNCHANGED <<run, lock, disk, at, main, origin, tracker, touched, warned, refused, lost, late, bounds>>

-----------------------------------------------------------------------------
(* The user and everybody else.                                            *)

Event == events < MaxEvents /\ events' = events + 1

\* The user commits on a source's own branch, and his colleagues get it.
CommitOnMain(c) ==
    /\ Event /\ at[c] = "main"
    /\ main' = [main EXCEPT ![c] = @ + 1] /\ touched' = StateDir
    /\ UNCHANGED <<run, lock, disk, at, dirt, branch, origin, tracker, update, warned, refused, lost, late, stray, starts>>

\* He edits a source, or throws his edits away.
EditSource(c) ==
    /\ Event
    /\ dirt' = [dirt EXCEPT ![c] = IF @ = {} THEN {"user"} ELSE {}] /\ touched' = StateDir
    /\ UNCHANGED <<run, lock, disk, at, main, branch, origin, tracker, update, warned, refused, lost, late, stray, starts>>

\* He switches a clean source to the run branch or away from it.
Switch(c) ==
    /\ Event /\ Clean(c)
    /\ \/ at[c] = "run" /\ at' = [at EXCEPT ![c] = "main"]
       \/ at[c] = "main" /\ branch # None /\ Free /\ at' = [at EXCEPT ![c] = "run"]
    /\ touched' = StateDir
    /\ UNCHANGED <<run, lock, disk, dirt, main, branch, origin, tracker, update, warned, refused, lost, late, stray, starts>>

\* He removes a worktree (git worktree remove --force); the branch stays.
RemoveWorktree(q) ==
    /\ Event /\ at[q] # None
    /\ q = Pr => update.pc = "off"
    /\ \A p \in Runner : run[p].pc # "off" => Mine(p).place # q
    /\ at' = [at EXCEPT ![q] = None] /\ dirt' = [dirt EXCEPT ![q] = {}] /\ touched' = StateDir
    /\ UNCHANGED <<run, lock, disk, main, branch, origin, tracker, update, warned, refused, lost, late, stray, starts>>

\* Somebody pushes the branch as it is, or a commit of his own.
SomebodyPushes ==
    /\ \/ origin = None /\ branch # None /\ origin' = branch /\ UNCHANGED events
       \/ origin # None /\ Event /\ origin' = [origin EXCEPT !.own = @ \cup {"other"}]
    /\ UNCHANGED <<run, lock, disk, at, dirt, main, branch, tracker, update, history, starts>>

EditPlan(e) ==
    /\ Event /\ e \notin tracker.edits
    /\ tracker' = [tracker EXCEPT !.edits = @ \cup {e}]
    /\ late' = IF \E p \in Runner : run[p].pc = "write" THEN late \cup {e} ELSE late
    /\ UNCHANGED <<run, lock, disk, git, update, touched, warned, refused, lost, stray, starts>>

-----------------------------------------------------------------------------
RunStep(p) ==
    \/ Start(p) \/ TakeState(p) \/ TakeRepository(p) \/ Load(p) \/ TakeBranch(p)
    \/ Record(p) \/ Create(p) \/ CutShort(p) \/ Finish(p) \/ FinishInPlace(p) \/ Resume(p) \/ ResumeLegacy(p)
    \/ SkipSetup(p) \/ Setup(p) \/ Settle(p)
    \/ Plan(p) \/ Open(p) \/ Number(p) \/ Sync(p) \/ Reread(p) \/ Write(p)
    \/ Build(p) \/ Commit(p) \/ Push(p) \/ End(p) \/ Die(p)

UpdateStep == CheckPull \/ Checkout \/ Merge \/ PushMerge \/ Remove \/ UpdateDies

Outside ==
    \/ \E c \in Source : CommitOnMain(c) \/ EditSource(c) \/ Switch(c)
    \/ \E q \in StateDir \cup {Pr} : RemoveWorktree(q)
    \/ SomebodyPushes \/ \E e \in Edit : EditPlan(e)

Next == (\E p \in Runner : RunStep(p)) \/ UpdateStep \/ Outside

Spec == Init /\ [][Next]_vars

-----------------------------------------------------------------------------
\* Types; and git checks the run branch out at one place only.
TypeOK ==
    /\ \A p \in Runner :
         /\ run[p].pc \in Inside \cup {"off", "state", "repo", "load", "branch", "tool", "push"}
         /\ run[p].src \in Source \cup {None} /\ run[p].dir \in StateDir \cup {None}
         /\ run[p].before \subseteq {"ticket", "setup", "mixed", "user"} /\ run[p].tries \in 0..SyncAttempts
    /\ lock \in [Lock -> Runner \cup {None}]
    /\ \A s \in StateDir :
         /\ disk[s].src \in Source \cup {None} /\ disk[s].place \in {s, None} \cup Source
         /\ disk[s].last \in Histories \cup {None} /\ disk[s].sub \in Nat
         /\ disk[s].ready => disk[s].place # None /\ disk[s].named
    /\ at \in [Place -> {None, "torn", "main", "run", "other"}]
    /\ Cardinality({q \in Place : at[q] = "run"}) <= 1
    /\ \A q \in Place : dirt[q] \subseteq {"user", "ticket", "setup", "mixed", "update"}
    /\ {branch, origin} \subseteq Histories \cup {None}
    /\ tracker.edits \subseteq Edit
    /\ update.pc \in {"off", "checkout", "merge", "push", "remove"}
    /\ starts \in 0..MaxStarts /\ events \in 0..MaxEvents

\* Two runners never use one state file, nor, when they build, one branch, from
\* whatever checkouts and with whatever state directories they were started.
OneWriter ==
    \A p, r \in Runner : p # r /\ {run[p].pc, run[r].pc} \subseteq Inside \cup {"tool", "push"} =>
        /\ run[p].dir # run[r].dir
        /\ run[p].plan \/ run[r].plan

\* A worktree whose creation was cut short anywhere is finished by a later
\* start; it is refused only if git left half a directory, or the user or
\* another run changed something meanwhile.
InterruptedIsFinished == refused \subseteq touched

\* Agents start in a worktree that holds none of the code provisioning wrote,
\* unless a setup was killed or was refused for editing an unfinished ticket's
\* file, which the user was told of, or undoing what it wrote failed.
AgentsStartClean ==
    \A p \in Runner : run[p].pc = "work" =>
        dirt[Mine(p).place] \cap {"setup", "mixed"} = {} \/ run[p].dir \in warned

\* No start, finish or --update-pr (which moves the branch) drops a commit that
\* a state file has accepted, unless the run committed it after --update-pr had
\* compared the branch with GitHub's and before it moved it: it takes no lock.
CommitsKept ==
    \A s \in StateDir \ late : disk[s].last # None /\ disk[s].last.own # {} =>
        \/ branch # None /\ disk[s].last.own \subseteq branch.own
        \/ origin # None /\ disk[s].last.own \subseteq origin.own

\* Every sub-issue is the one its state file names, unless the run was killed or
\* GitHub's answer lost before the number was saved.
SubIssuesKnown ==
    \A s \in StateDir :
        tracker.opened[s] = lost[s] + (IF disk[s].sub = 0 THEN 0 ELSE 1)
                              + Cardinality({p \in Runner : run[p].pc = "created" /\ run[p].dir = s})

\* Every person's edit of the plan issue survives the runner's own, unless it
\* falls between the last read and the write (the window sync documents).
EditsKept == [][\A e \in tracker.edits \ tracker.edits' : e \in late]_vars

\* An update that returns leaves nothing that makes the next one refuse: neither
\* its directory nor a merge of its own that is on the local branch and not on
\* GitHub's; unless it was killed, git failed half way through a step or the
\* clean-up, or its resolver switched branches (then somebody has to clean up by hand).
UpdateRepeatable ==
    update.pc = "off" /\ ~ stray =>
        /\ at[Pr] = None
        /\ branch # None /\ Pr \in branch.own =>
             origin # None /\ Pr \in origin.own /\ branch.base <= origin.base
=============================================================================
