--------------------------- MODULE WorkspaceProofs ---------------------------
(***************************************************************************)
(* Proofs about Workspace, for any number of runners, source checkouts,    *)
(* state directories and edits, and any bounds.                            *)
(***************************************************************************)
EXTENDS Workspace, FiniteSetTheorems, WellFoundedInduction, TLAPS

-----------------------------------------------------------------------------
(* Types of all that is stored.                                            *)

Pcs == Inside \cup {"off", "state", "repo", "load", "branch", "tool", "push"}
Work == {"user", "ticket", "setup", "mixed", "update"}

Runs == [pc : Pcs, src : Source \cup {None}, dir : StateDir \cup {None}, plan : BOOLEAN, isolate : BOOLEAN,
         before : SUBSET Work, seen : (SUBSET Edit) \cup {None}, tries : 0..SyncAttempts]
States == [src : Source \cup {None}, place : Source \cup StateDir \cup {None}, named : BOOLEAN,
           init : Nat \cup {None}, last : Histories \cup {None}, ready : BOOLEAN, planned : BOOLEAN,
           sub : Nat, done : BOOLEAN]
Trackers == [opened : [StateDir -> Nat], edits : SUBSET Edit, marks : [StateDir -> 0..2]]
Updates == [pc : {"off", "checkout", "merge", "push", "remove"}, head : Histories \cup {None},
            remote : Histories \cup {None}]

GitTypes ==
    /\ at \in [Place -> {None, "torn", "main", "run", "other"}] /\ dirt \in [Place -> SUBSET Work]
    /\ main \in [Source -> Nat] /\ (\A c \in Source : main[c] <= events)
    /\ branch \in Histories \cup {None} /\ origin \in Histories \cup {None}

HistoryTypes ==
    /\ touched \subseteq StateDir /\ warned \subseteq StateDir /\ refused \subseteq StateDir
    /\ lost \in [StateDir -> Nat] /\ late \subseteq StateDir \cup Edit /\ stray \in BOOLEAN
    /\ starts \in 0..MaxStarts /\ events \in 0..MaxEvents

Types ==
    /\ run \in [Runner -> Runs] /\ lock \in [Lock -> Runner \cup {None}] /\ disk \in [StateDir -> States]
    /\ GitTypes /\ tracker \in Trackers /\ update \in Updates /\ HistoryTypes

-----------------------------------------------------------------------------
(* The inductive invariant.                                                *)

\* Where a runner has its state, and where it builds.
Building == {"prepare", "create", "tool", "settle", "work", "push"}
Started(p) == run[p].pc # "off"
Prepared == (Inside \ {"prepare", "create"}) \cup {"tool", "push"}
Loaded(p) == run[p].pc \in Inside \cup {"branch", "tool", "push"}

\* A runner holds the locks it took: nobody else has its state, nor the branch.
Holding ==
    \A p \in Runner :
        /\ Started(p) => run[p].src \in Source /\ run[p].dir \in StateDir
        /\ run[p].pc \in {"repo", "branch"} \cup Building => ~ run[p].plan
        /\ run[p].pc \notin {"off", "state"} => lock[run[p].dir] = p
        /\ run[p].pc \in Inside \cup {"tool", "push"} /\ ~ run[p].plan => lock[BranchLock] = p

\* A saved workspace is whole, and of the source it was saved for.
Saved ==
    \A s \in StateDir :
        /\ disk[s].place \in Source \cup {s, None}
        /\ disk[s].ready => disk[s].place # None
        /\ disk[s].place # None => /\ disk[s].named /\ disk[s].src \in Source
                                   /\ disk[s].init \in Nat /\ disk[s].last # None
        /\ disk[s].place \in Source => disk[s].place = disk[s].src

\* What a runner knows of its state is still so: nobody else saves it.
Known ==
    \A p \in Runner :
        /\ Loaded(p) => Mine(p).src \in {None, run[p].src}
        /\ run[p].pc = "create" => Mine(p).place # None /\ ~ Mine(p).ready
        /\ run[p].pc \in Prepared /\ ~ run[p].plan => Mine(p).ready
        /\ run[p].pc = "settle" => Mine(p).place = run[p].dir
        /\ run[p].pc = "created" => Mine(p).sub = 0

\* The branch is checked out at one place, and never goes away.
OneCheckout ==
    /\ \A q, x \in Place : at[q] = "run" /\ at[x] = "run" => q = x
    /\ \A q \in Place : at[q] = "run" => branch # None
    /\ origin # None => branch # None
    /\ \A s \in StateDir : disk[s].ready => branch # None

\* A state of a version without worktrees is the only one, as its branch exists.
Legacy(s) == disk[s].named /\ disk[s].place = None

LegacyAlone ==
    \A s \in StateDir : Legacy(s) =>
        /\ branch # None /\ late \cap StateDir = {}
        /\ \A x \in StateDir \ {s} : disk[x].place = None /\ ~ disk[x].named

\* What a history the branch is about to be put at has: all that was accepted.
HasAccepted(h) ==
    h # None /\ \A s \in StateDir \ late : disk[s].last # None => disk[s].last.own \subseteq h.own

Pulled ==
    /\ update.pc = "checkout" =>
         /\ HasAccepted(update.remote)
         /\ branch # None => branch.own \subseteq update.remote.own \cup (late \cap StateDir)
    /\ update.pc \in {"merge", "push"} =>
         HasAccepted(update.head) /\ branch # None /\ at[Pr] = "run"
    /\ update.pc # "off" => origin # None
    /\ update.pc \in {"merge", "push", "remove"} => touched = StateDir

\* A workspace that is recorded and not ready, untouched: as one of the points
\* its creation can be cut short at left it.
Fresh(s) == disk[s].place # None /\ ~ disk[s].ready

AsLeft(s) ==
    LET src == disk[s].src  place == disk[s].place  fresh == History(disk[s].init, {}) IN
    /\ dirt[src] = {} /\ main[src] = disk[s].init
    /\ \A x \in StateDir \ {s} : ~ disk[x].ready
    /\ place \in Source => at[src] = "run" \/ Free
    /\ place = s => /\ dirt[s] = {}
                    /\ \/ at[s] = None /\ branch = None
                       \/ at[s] = None /\ branch = fresh /\ Free
                       \/ at[s] = "run" /\ branch = fresh

Untouched ==
    /\ \A s \in StateDir \ touched :
         /\ disk[s].place = None => at[s] = None /\ dirt[s] = {}
         /\ Fresh(s) => AsLeft(s)
    /\ \A p \in Runner : run[p].pc = "create" /\ run[p].dir \notin touched => branch = None

\* Code that provisioning wrote: in no source, in a worktree while it is settled.
Setups(q) == dirt[q] \cap {"setup", "mixed"}

SetupsKnown ==
    /\ \A c \in Source : Setups(c) = {}
    /\ \A s \in StateDir \ warned : Setups(s) = {} \/ \E p \in Runner : run[p].pc = "settle" /\ run[p].dir = s
    /\ \A p \in Runner : run[p].pc = "settle" /\ run[p].dir \notin warned => run[p].before \cap {"setup", "mixed"} = {}

\* What a runner is about to write: the edits it read, but for those that came late.
Rewriting ==
    \A p \in Runner :
        /\ run[p].pc \in {"reread", "write"} => run[p].seen \subseteq Edit /\ run[p].seen \ tracker.edits \subseteq late
        /\ run[p].pc = "write" => tracker.edits \ run[p].seen \subseteq late

\* An update that nothing disturbed leaves its worktree clean.
UpdateClean ==
    ~ stray => /\ dirt[Pr] = {}
               /\ update.pc \in {"off", "checkout"} => at[Pr] = None

\* A history has no merge of an update that GitHub's branch does not have.
Shared(h) == Pr \in h.own => origin # None /\ Pr \in origin.own /\ h.base <= origin.base

\* Nor has the branch, but for one that an update is about to push.
MergesShared ==
    ~ stray => /\ branch # None /\ update.pc # "push" => Shared(branch)
               /\ update.pc = "checkout" => Shared(update.remote)
               /\ update.pc \in {"merge", "push"} => Shared(update.head)

\* What an update leaves lies in its own worktree.
UpdateApart ==
    /\ \A q \in Source \cup StateDir : "update" \notin dirt[q]
    /\ \A p \in Runner : "update" \notin run[p].before

IInv ==
    /\ Types /\ Holding /\ Saved /\ Known /\ OneCheckout /\ LegacyAlone /\ Pulled /\ CommitsKept
    /\ Untouched /\ InterruptedIsFinished /\ SetupsKnown /\ SubIssuesKnown /\ Rewriting /\ UpdateClean
    /\ MergesShared /\ UpdateApart

-----------------------------------------------------------------------------
(* Operators.                                                              *)

\* There is a newest of the sources' own branches.
LEMMA NewestIs ==
    ASSUME Types
    PROVE  Newest \in Nat /\ \A c \in Source : main[c] <= Newest
<1> DEFINE Left == {MaxEvents - main[c] : c \in Source}
<1>1. Left \subseteq Nat /\ Left # {}
    BY WorkspaceAssumption DEF Types, GitTypes, HistoryTypes
<1>2. PICK m \in Left : \A n \in Left : ~ (<<n, m>> \in OpToRel(<, Nat))
    BY <1>1, NatLessThanWellFounded, WFMin
<1>3. PICK c \in Source : m = MaxEvents - main[c]
    BY <1>2
<1>4. ASSUME NEW d \in Source PROVE main[d] <= main[c]
    <2>1. MaxEvents - main[d] \in Left
        OBVIOUS
    <2>2. ~ (MaxEvents - main[d] < m)
        BY <1>1, <1>2, <2>1 DEF OpToRel
    <2> QED BY <2>2, <1>3, WorkspaceAssumption DEF Types, GitTypes
<1>5. \E n \in {main[d] : d \in Source} : \A d \in Source : main[d] <= n
    BY <1>4
<1>6. Newest \in {main[d] : d \in Source} /\ \A d \in Source : main[d] <= Newest
    BY <1>5 DEF Newest
<1> QED BY <1>6 DEF Types, GitTypes

-----------------------------------------------------------------------------
(* Types.                                                                  *)

\* Every kind of way out and of locking keeps runners and locks typed.
LEMMA LeaveTypes ==
    ASSUME Types, NEW p \in Runner, Leave(p)
    PROVE  run' \in [Runner -> Runs] /\ lock' \in [Lock -> Runner \cup {None}]
BY WorkspaceAssumption DEF Leave, Types, Runs, Off, Pcs

\* Going on keeps the runners typed.
LEMMA GotoTypes ==
    ASSUME Types, NEW p \in Runner, NEW pc \in Pcs, Goto(p, pc)
    PROVE  run' \in [Runner -> Runs]
BY DEF Goto, Types, Runs

\* So does taking a lock, or not getting it.
LEMMA TakeTypes ==
    ASSUME Types, NEW p \in Runner, NEW pc \in Pcs, NEW l \in Lock, Take(p, l, pc)
    PROVE  run' \in [Runner -> Runs] /\ lock' \in [Lock -> Runner \cup {None}]
<1>1. CASE lock[l] = None
    BY <1>1, GotoTypes DEF Take, Types
<1>2. CASE lock[l] # None
    BY <1>2, LeaveTypes DEF Take
<1> QED BY <1>1, <1>2

\* A saved state is one with its source.
LEMMA SaveTypes ==
    ASSUME Types, NEW p \in Runner, run[p].dir \in StateDir, run[p].src \in Source,
           NEW new \in States, SaveState(p, new)
    PROVE  disk' \in [StateDir -> States]
<1>1. [new EXCEPT !.src = run[p].src] \in States
    BY DEF States
<1> QED BY <1>1 DEF SaveState, Types

\* Locking and loading.
LEMMA LockingTypes ==
    ASSUME Types, Holding, NEW p \in Runner,
           Start(p) \/ TakeState(p) \/ TakeRepository(p) \/ Load(p) \/ TakeBranch(p)
    PROVE  Types'
<1> USE DEF Pcs, Inside
<1>1. CASE Start(p)
    <2>1. run' \in [Runner -> Runs]
        <3>1. PICK src \in Source, dir \in StateDir, plan \in BOOLEAN, isolate \in BOOLEAN :
                run' = [run EXCEPT ![p] = [Off EXCEPT !.pc = "state", !.src = src, !.dir = dir,
                                                      !.plan = plan, !.isolate = isolate]]
            BY <1>1 DEF Start
        <3>2. 0 \in 0..SyncAttempts
            BY WorkspaceAssumption
        <3>3. [Off EXCEPT !.pc = "state", !.src = src, !.dir = dir, !.plan = plan, !.isolate = isolate] \in Runs
            BY <3>2 DEF Off, Runs
        <3> QED BY <3>1, <3>3 DEF Types
    <2>2. starts' = starts + 1 /\ starts < MaxStarts
        BY <1>1 DEF Start
    <2>3. starts' \in 0..MaxStarts
        BY <2>2, WorkspaceAssumption DEF Types, HistoryTypes
    <2> QED BY <1>1, <2>1, <2>3 DEF Start, git, history, Types, GitTypes, HistoryTypes
<1>2. CASE TakeState(p)
    <2>1. run' \in [Runner -> Runs] /\ lock' \in [Lock -> Runner \cup {None}]
        BY <1>2, TakeTypes DEF TakeState, Holding, Started, Lock
    <2> QED BY <1>2, <2>1 DEF TakeState, git, history, bounds, Types, GitTypes, HistoryTypes
<1>3. CASE TakeRepository(p)
    <2>1. run' \in [Runner -> Runs] /\ lock' \in [Lock -> Runner \cup {None}]
        BY <1>3, TakeTypes DEF TakeRepository, Holding, Started, Lock
    <2> QED BY <1>3, <2>1 DEF TakeRepository, git, history, bounds, Types, GitTypes, HistoryTypes
<1>4. CASE Load(p)
    <2>1. run' \in [Runner -> Runs] /\ lock' \in [Lock -> Runner \cup {None}]
        BY <1>4, GotoTypes, LeaveTypes DEF Load, Types
    <2> QED BY <1>4, <2>1 DEF Load, git, history, bounds, Types, GitTypes, HistoryTypes
<1>5. CASE TakeBranch(p)
    <2>1. run' \in [Runner -> Runs] /\ lock' \in [Lock -> Runner \cup {None}]
        BY <1>5, TakeTypes DEF TakeBranch, Lock
    <2> QED BY <1>5, <2>1 DEF TakeBranch, git, history, bounds, Types, GitTypes, HistoryTypes
<1> QED BY <1>1, <1>2, <1>3, <1>4, <1>5

\* What is known of a runner that has started.
LEMMA MineIs ==
    ASSUME Types, Holding, NEW p \in Runner, Started(p)
    PROVE  /\ run[p] \in Runs /\ run[p].dir \in StateDir /\ run[p].src \in Source
           /\ Mine(p) \in States /\ Mine(p) = disk[run[p].dir]
BY DEF Types, Holding, Mine

\* What is known of a workspace that is recorded.
LEMMA PlaceIs ==
    ASSUME Types, Holding, Saved, NEW p \in Runner, Started(p)
    PROVE  /\ Mine(p).place \in Source \cup {run[p].dir, None}
           /\ Mine(p).place # None => /\ Mine(p).place \in Place /\ Mine(p).init \in Nat
                                      /\ Mine(p).place # Pr /\ Mine(p).last # None
BY MineIs, WorkspaceAssumption DEF Saved, Place

\* A refusal touches the runner, its locks and the list of refusals.
LEMMA RefuseTypes ==
    ASSUME Types, Holding, NEW p \in Runner, Started(p), Refuse(p)
    PROVE  Types'
<1>1. run' \in [Runner -> Runs] /\ lock' \in [Lock -> Runner \cup {None}]
    BY LeaveTypes DEF Refuse
<1>2. refused' \subseteq StateDir
    BY MineIs DEF Refuse, Types, HistoryTypes
<1> QED BY <1>1, <1>2 DEF Refuse, git, bounds, Types, GitTypes, HistoryTypes

\* Preparing a workspace.
LEMMA PreparingTypes ==
    ASSUME Types, Holding, Saved, OneCheckout, NEW p \in Runner,
           \/ Record(p) \/ Create(p) \/ CutShort(p) \/ Finish(p) \/ FinishInPlace(p) \/ Resume(p)
           \/ ResumeLegacy(p)
    PROVE  Types'
<1> USE DEF Pcs, Inside
<1> DEFINE src == run[p].src  place == Mine(p).place
<1>1. Started(p)
    BY DEF Record, Create, CutShort, Finish, FinishInPlace, Resume, ResumeLegacy, Started
<1>2. CASE Refuse(p)
    BY <1>1, <1>2, RefuseTypes
<1>3. src \in Source /\ run[p].dir \in StateDir /\ Mine(p) \in States /\ main[src] \in Nat
    BY <1>1, MineIs DEF Types, GitTypes
<1>4. History(main[src], {}) \in Histories
    BY <1>3 DEF History, Histories
<1>5. CASE Record(p) /\ ~ Refuse(p)
    <2>1. Goto(p, "create") /\ UNCHANGED <<lock, git, tracker, update, history, bounds>>
        BY <1>5 DEF Record
    <2>2. [Mine(p) EXCEPT !.place = IF run[p].isolate THEN run[p].dir ELSE src, !.named = TRUE,
                          !.init = main[src], !.last = History(main[src], {})] \in States
        BY <1>3, <1>4 DEF States
    <2>3. disk' \in [StateDir -> States]
        BY <1>3, <1>5, <2>2, SaveTypes DEF Record
    <2> QED BY <2>1, <2>3, GotoTypes DEF git, history, bounds, Types, GitTypes, HistoryTypes
<1>6. CASE Create(p) /\ ~ Refuse(p)
    <2>1. /\ branch' = History(main[src], {}) /\ at' = [at EXCEPT ![place] = "run"]
          /\ Interfere(Others(p)) /\ SaveState(p, [Mine(p) EXCEPT !.ready = TRUE]) /\ Goto(p, "tool")
          /\ UNCHANGED <<lock, dirt, main, origin, tracker, update, warned, refused, lost, late, stray, bounds>>
        BY <1>6 DEF Create
    <2>2. [Mine(p) EXCEPT !.ready = TRUE] \in States
        BY <1>3 DEF States
    <2>3. disk' \in [StateDir -> States]
        BY <1>3, <2>1, <2>2, SaveTypes
    <2>4. at' \in [Place -> {None, "torn", "main", "run", "other"}] /\ touched' \subseteq StateDir
        BY <2>1 DEF Types, GitTypes, HistoryTypes, Interfere, Others
    <2>5. run' \in [Runner -> Runs]
        BY <2>1, GotoTypes
    <2> QED BY <1>4, <2>1, <2>3, <2>4, <2>5 DEF bounds, Types, GitTypes, HistoryTypes
<1>7. CASE CutShort(p)
    <2>1. /\ branch' = History(main[src], {}) /\ Leave(p)
          /\ UNCHANGED <<disk, dirt, main, origin, tracker, update, warned, refused, lost, late, stray, bounds>>
        BY <1>7 DEF CutShort
    <2>2. PICK left \in {None, "torn", "main", "run"} :
            /\ at' = [at EXCEPT ![place] = left] /\ Interfere(IF left = "torn" THEN StateDir ELSE Others(p))
        BY <1>7 DEF CutShort
    <2>3. at' \in [Place -> {None, "torn", "main", "run", "other"}] /\ touched' \subseteq StateDir
        BY <2>2 DEF Types, GitTypes, HistoryTypes, Interfere, Others
    <2>4. run' \in [Runner -> Runs] /\ lock' \in [Lock -> Runner \cup {None}]
        BY <2>1, LeaveTypes
    <2> QED BY <1>4, <2>1, <2>3, <2>4 DEF bounds, Types, GitTypes, HistoryTypes
<1>8. CASE Finish(p) /\ ~ Refuse(p)
    <2>1. /\ place \in StateDir /\ branch' = History(Mine(p).init, {}) /\ at' = [at EXCEPT ![place] = "run"]
          /\ Interfere(Others(p)) /\ SaveState(p, [Mine(p) EXCEPT !.ready = TRUE])
          /\ (Goto(p, "tool") /\ UNCHANGED lock) \/ Leave(p)
          /\ UNCHANGED <<dirt, main, origin, tracker, update, warned, refused, lost, late, stray, bounds>>
        BY <1>8 DEF Finish
    <2>2. [Mine(p) EXCEPT !.ready = TRUE] \in States
        BY <1>3 DEF States
    <2>3. disk' \in [StateDir -> States]
        BY <1>3, <2>1, <2>2, SaveTypes
    <2>4. at' \in [Place -> {None, "torn", "main", "run", "other"}] /\ touched' \subseteq StateDir
        BY <2>1 DEF Types, GitTypes, HistoryTypes, Interfere, Others
    <2>5. run' \in [Runner -> Runs] /\ lock' \in [Lock -> Runner \cup {None}]
        BY <2>1, GotoTypes, LeaveTypes DEF Types
    <2>6. branch' \in Histories
        BY <1>1, <2>1, PlaceIs, WorkspaceAssumption DEF History, Histories
    <2> QED BY <2>1, <2>3, <2>4, <2>5, <2>6 DEF bounds, Types, GitTypes, HistoryTypes
<1>9. CASE FinishInPlace(p) /\ ~ Refuse(p)
    <2>1. /\ branch' = IF branch = None THEN History(main[src], {}) ELSE branch
          /\ at' = [at EXCEPT ![src] = "run"]
          /\ Interfere(Others(p)) /\ SaveState(p, [Mine(p) EXCEPT !.ready = TRUE]) /\ Goto(p, "tool")
          /\ UNCHANGED <<lock, dirt, main, origin, tracker, update, warned, refused, lost, late, stray, bounds>>
        BY <1>9 DEF FinishInPlace
    <2>2. [Mine(p) EXCEPT !.ready = TRUE] \in States
        BY <1>3 DEF States
    <2>3. disk' \in [StateDir -> States]
        BY <1>3, <2>1, <2>2, SaveTypes
    <2>4. at' \in [Place -> {None, "torn", "main", "run", "other"}] /\ touched' \subseteq StateDir
        BY <2>1 DEF Types, GitTypes, HistoryTypes, Interfere, Others
    <2>5. run' \in [Runner -> Runs]
        BY <2>1, GotoTypes
    <2> QED BY <1>4, <2>1, <2>3, <2>4, <2>5 DEF bounds, Types, GitTypes, HistoryTypes
<1>10. CASE Resume(p) /\ ~ Refuse(p)
    <2>1. Goto(p, "tool") /\ UNCHANGED <<lock, disk, git, tracker, update, history, bounds>>
        BY <1>10 DEF Resume
    <2> QED BY <2>1, GotoTypes DEF git, history, bounds, Types, GitTypes, HistoryTypes
<1>11. CASE ResumeLegacy(p) /\ ~ Refuse(p)
    <2>1. /\ at[src] = "run" /\ Goto(p, "tool") /\ UNCHANGED <<lock, git, tracker, update, history, bounds>>
          /\ SaveState(p, [Mine(p) EXCEPT !.place = src, !.ready = TRUE, !.init = branch.base, !.last = branch])
        BY <1>11 DEF ResumeLegacy
    <2>2. branch \in Histories /\ branch.base \in Nat
        BY <1>3, <2>1 DEF OneCheckout, Place, Types, GitTypes, Histories
    <2>3. [Mine(p) EXCEPT !.place = src, !.ready = TRUE, !.init = branch.base, !.last = branch] \in States
        BY <1>3, <2>2 DEF States
    <2>4. disk' \in [StateDir -> States]
        BY <1>3, <2>1, <2>3, SaveTypes
    <2> QED BY <2>1, <2>4, GotoTypes DEF git, history, bounds, Types, GitTypes, HistoryTypes
<1> QED BY <1>2, <1>5, <1>6, <1>7, <1>8, <1>9, <1>10, <1>11

\* Provisioning.
LEMMA SetupTypes ==
    ASSUME Types, Holding, Saved, Known, NEW p \in Runner, SkipSetup(p) \/ Setup(p) \/ Settle(p)
    PROVE  Types'
<1> USE DEF Pcs, Inside
<1> DEFINE place == Mine(p).place
<1>1. Started(p)
    BY DEF SkipSetup, Setup, Settle, Started
<1>2. run[p] \in Runs
    BY <1>1, MineIs
<1>3. CASE SkipSetup(p)
    BY <1>3, GotoTypes DEF SkipSetup, git, history, bounds, Types, GitTypes, HistoryTypes
<1>4. CASE Setup(p)
    <2>1. place \in Place /\ dirt[place] \subseteq Work
        BY <1>4 DEF Setup, Place, Types, GitTypes
    <2>2. PICK writes \in SUBSET {"setup", "mixed"} :
            /\ dirt' = [dirt EXCEPT ![place] = @ \cup writes]
            /\ run' = [run EXCEPT ![p].pc = "settle", ![p].before = dirt[place]]
        BY <1>4 DEF Setup
    <2>3. dirt' \in [Place -> SUBSET Work]
        BY <2>1, <2>2 DEF Types, GitTypes, Work
    <2>4. run' \in [Runner -> Runs]
        BY <1>2, <2>1, <2>2 DEF Types, Runs
    <2> QED BY <1>4, <2>3, <2>4 DEF Setup, history, bounds, Types, GitTypes, HistoryTypes
<1>5. CASE Settle(p)
    <2>1. place = run[p].dir /\ place \in StateDir
        BY <1>1, <1>5, MineIs DEF Settle, Known
    <2>2. CASE run' = [run EXCEPT ![p].pc = "mirror", ![p].before = {}] /\
               UNCHANGED <<lock, disk, git, tracker, update, history, bounds>>
        <3>1. run' \in [Runner -> Runs]
            BY <1>2, <2>2 DEF Types, Runs
        <3> QED BY <2>2, <3>1 DEF git, history, bounds, Types, GitTypes, HistoryTypes
    <2>3. CASE /\ dirt' = [dirt EXCEPT ![place] = @ \ ({"setup"} \ run[p].before)]
               /\ warned' = IF "mixed" \in dirt[place] THEN warned \cup {place} ELSE warned
               /\ Leave(p)
               /\ UNCHANGED <<disk, at, main, branch, origin, tracker, update, touched, refused, lost, late, stray, bounds>>
        <3>1. dirt' \in [Place -> SUBSET Work] /\ warned' \subseteq StateDir
            BY <2>1, <2>3 DEF Types, GitTypes, HistoryTypes
        <3>2. run' \in [Runner -> Runs] /\ lock' \in [Lock -> Runner \cup {None}]
            BY <2>3, LeaveTypes
        <3> QED BY <2>3, <3>1, <3>2 DEF bounds, Types, GitTypes, HistoryTypes
    <2> QED BY <1>5, <2>2, <2>3 DEF Settle
<1> QED BY <1>3, <1>4, <1>5

\* The tracker.
LEMMA TrackerTypes ==
    ASSUME Types, Holding, Rewriting, NEW p \in Runner,
           Plan(p) \/ Open(p) \/ Number(p) \/ Sync(p) \/ Reread(p) \/ Write(p)
    PROVE  Types'
<1> USE DEF Pcs, Inside
<1>1. Started(p)
    BY DEF Plan, Open, Number, Sync, Reread, Write, Started
<1>2. /\ run[p] \in Runs /\ run[p].dir \in StateDir /\ run[p].src \in Source /\ Mine(p) \in States
      /\ tracker \in Trackers
    BY <1>1, MineIs DEF Types
<1>3. CASE Plan(p)
    <2>1. [Mine(p) EXCEPT !.planned = TRUE] \in States
        BY <1>2 DEF States
    <2>2. disk' \in [StateDir -> States]
        BY <1>2, <1>3, <2>1, SaveTypes DEF Plan
    <2> QED BY <1>3, <2>2 DEF Plan, git, history, bounds, Types, GitTypes, HistoryTypes
<1>4. CASE Open(p)
    <2>1. tracker' \in Trackers
        BY <1>2, <1>4 DEF Open, Trackers
    <2>2. lost' \in [StateDir -> Nat]
        BY <1>2, <1>4 DEF Open, Types, HistoryTypes
    <2>3. run' \in [Runner -> Runs] /\ lock' \in [Lock -> Runner \cup {None}]
        BY <1>4, GotoTypes, LeaveTypes DEF Open, Types
    <2> QED BY <1>4, <2>1, <2>2, <2>3 DEF Open, git, bounds, Types, GitTypes, HistoryTypes
<1>5. CASE Number(p)
    <2>1. [Mine(p) EXCEPT !.sub = tracker.opened[run[p].dir]] \in States
        BY <1>2 DEF States, Trackers
    <2>2. disk' \in [StateDir -> States]
        BY <1>2, <1>5, <2>1, SaveTypes DEF Number
    <2>3. run' \in [Runner -> Runs]
        BY <1>5, GotoTypes DEF Number
    <2> QED BY <1>5, <2>2, <2>3 DEF Number, git, history, bounds, Types, GitTypes, HistoryTypes
<1>6. CASE Sync(p)
    <2>1. UNCHANGED <<disk, git, tracker, update, history, bounds>>
        BY <1>6 DEF Sync
    <2>2. CASE Leave(p)
        BY <2>1, <2>2, LeaveTypes DEF git, history, bounds, Types, GitTypes, HistoryTypes
    <2>3. CASE run' = [run EXCEPT ![p].pc = "work", ![p].seen = None, ![p].tries = 0] /\ UNCHANGED lock
        <3>1. 0 \in 0..SyncAttempts
            BY WorkspaceAssumption
        <3>2. run' \in [Runner -> Runs]
            BY <1>2, <2>3, <3>1 DEF Types, Runs
        <3> QED BY <2>1, <2>3, <3>2 DEF git, history, bounds, Types, GitTypes, HistoryTypes
    <2>4. CASE /\ run' = [run EXCEPT ![p].pc = "reread", ![p].seen = tracker.edits, ![p].tries = @ + 1]
               /\ run[p].tries # SyncAttempts /\ UNCHANGED lock
        <3>1. run[p].tries + 1 \in 0..SyncAttempts
            BY <1>2, <2>4, WorkspaceAssumption DEF Runs
        <3>2. run' \in [Runner -> Runs]
            BY <1>2, <2>4, <3>1 DEF Types, Runs, Trackers
        <3> QED BY <2>1, <2>4, <3>2 DEF git, history, bounds, Types, GitTypes, HistoryTypes
    <2> QED BY <1>6, <2>2, <2>3, <2>4 DEF Sync, Synced
<1>7. CASE Reread(p)
    BY <1>7, GotoTypes DEF Reread, git, history, bounds, Types, GitTypes, HistoryTypes
<1>8. CASE Write(p)
    <2>1. run[p].seen \subseteq Edit /\ Marks(p) \in 0..2
        BY <1>8 DEF Write, Rewriting, Marks
    <2>2. tracker' \in Trackers
        BY <1>2, <1>8, <2>1 DEF Write, Trackers
    <2>3. run' \in [Runner -> Runs]
        BY <1>8, GotoTypes DEF Write
    <2> QED BY <1>8, <2>2, <2>3 DEF Write, git, history, bounds, Types, GitTypes, HistoryTypes
<1> QED BY <1>3, <1>4, <1>5, <1>6, <1>7, <1>8

\* The build, and the ends of a run.
LEMMA BuildTypes ==
    ASSUME Types, Holding, Saved, Known, OneCheckout, NEW p \in Runner,
           Build(p) \/ Commit(p) \/ Push(p) \/ End(p) \/ Die(p)
    PROVE  Types'
<1> USE DEF Pcs, Inside
<1> DEFINE place == Mine(p).place
<1>1. Started(p)
    BY DEF Build, Commit, Push, End, Die, Started
<1>2. /\ run[p] \in Runs /\ run[p].dir \in StateDir /\ run[p].src \in Source /\ Mine(p) \in States
      /\ Mine(p) = disk[run[p].dir]
    BY <1>1, MineIs
<1>3. ASSUME run[p].pc = "work" PROVE place \in Place /\ Mine(p).last \in Histories
    BY <1>1, <1>2, <1>3, PlaceIs DEF Known, Prepared, Holding, Building, Saved, States
<1>4. CASE Build(p)
    <2>1. dirt' \in [Place -> SUBSET Work]
        BY <1>3, <1>4 DEF Build, Work, Types, GitTypes
    <2> QED BY <1>4, <2>1 DEF Build, history, bounds, Types, GitTypes, HistoryTypes
<1>5. CASE Commit(p)
    <2>1. branch' \in Histories
        BY <1>2, <1>3, <1>5 DEF Commit, Histories
    <2>2. [Mine(p) EXCEPT !.last = branch', !.done = TRUE] \in States
        BY <1>2, <2>1 DEF States
    <2>3. disk' \in [StateDir -> States]
        BY <1>2, <1>5, <2>2, SaveTypes DEF Commit
    <2>4. dirt' \in [Place -> SUBSET Work] /\ late' \subseteq StateDir \cup Edit
        BY <1>2, <1>3, <1>5 DEF Commit, Types, GitTypes, HistoryTypes
    <2>5. run' \in [Runner -> Runs]
        BY <1>5, GotoTypes DEF Commit
    <2> QED BY <1>5, <2>1, <2>3, <2>4, <2>5 DEF Commit, bounds, Types, GitTypes, HistoryTypes
<1>6. CASE Push(p)
    <2>1. origin' \in Histories \cup {None}
        BY <1>6 DEF Push, Types, GitTypes
    <2> QED BY <1>6, <2>1, GotoTypes DEF Push, history, bounds, Types, GitTypes, HistoryTypes
<1>7. CASE End(p)
    BY <1>7, LeaveTypes DEF End, git, history, bounds, Types, GitTypes, HistoryTypes
<1>8. CASE Die(p)
    <2>1. lost' \in [StateDir -> Nat] /\ warned' \subseteq StateDir
        BY <1>2, <1>8 DEF Die, Types, HistoryTypes
    <2> QED BY <1>8, <2>1, LeaveTypes DEF Die, git, bounds, Types, GitTypes, HistoryTypes
<1> QED BY <1>4, <1>5, <1>6, <1>7, <1>8

\* The merge of an update goes on top of the branch.
LEMMA MergedIs ==
    ASSUME Types, Pulled, update.pc = "merge"
    PROVE  /\ branch \in Histories /\ Merged \in Histories
           /\ Merged.own = branch.own \cup {Pr} /\ Merged.base = Newest
<1>1. branch \in Histories
    BY DEF Pulled, Types, GitTypes
<1>2. Merged \in Histories
    BY <1>1, NewestIs DEF Merged, History, Histories
<1> QED BY <1>1, <1>2 DEF Merged, History

\* The branch after a merge, be it put back or not.
LEMMA MergeIs ==
    ASSUME Types, Pulled, Merge
    PROVE  branch' \in {branch, Merged} /\ branch' \in Histories /\ branch' # None /\ branch.own \subseteq branch'.own
<1>1. branch' \in {branch, Merged} /\ update.pc = "merge"
    BY DEF Merge, LeaveBehind
<1> QED BY <1>1, MergedIs, WorkspaceAssumption

\* An update writes to its own worktree.
LEMMA UpdateDirt ==
    ASSUME Types, UpdateStep
    PROVE  /\ UNCHANGED dirt \/ dirt' = [dirt EXCEPT ![Pr] = {"update"}]
           /\ dirt' \in [Place -> SUBSET Work]
<1>1. UNCHANGED dirt \/ dirt' = [dirt EXCEPT ![Pr] = {"update"}]
    BY DEF UpdateStep, CheckPull, Checkout, Merge, PushMerge, Remove, UpdateDies, LeaveBehind, git
<1> QED BY <1>1 DEF Work, Place, Types, GitTypes

\* The update of the pull request.
LEMMA UpdateTypes ==
    ASSUME Types, Pulled, UpdateStep
    PROVE  Types'
<1> USE DEF History
<1>1. update \in Updates /\ Pr \in Place /\ Newest \in Nat
    BY NewestIs DEF Types, Place
<1>2. CASE CheckPull
    <2>1. starts' = starts + 1 /\ starts < MaxStarts
        BY <1>2 DEF CheckPull
    <2>2. starts' \in 0..MaxStarts
        BY <2>1, WorkspaceAssumption DEF Types, HistoryTypes
    <2>3. update' \in Updates
        BY <1>1, <1>2 DEF CheckPull, Updates, Types, GitTypes
    <2> QED BY <1>2, <2>2, <2>3 DEF CheckPull, git, history, Types, GitTypes, HistoryTypes
<1>3. CASE Checkout
    <2>1. update.remote \in Histories
        BY <1>1, <1>3 DEF Checkout, Pulled, HasAccepted, Updates
    <2>2. update' \in Updates
        BY <1>1, <1>3, <2>1 DEF Checkout, Update, Updates
    <2>3. branch' \in Histories \cup {None} /\ touched' \subseteq StateDir /\ stray' \in BOOLEAN
        BY <1>3, <2>1 DEF Checkout, Types, GitTypes, HistoryTypes
    <2>4. at' \in [Place -> {None, "torn", "main", "run", "other"}]
        <3>1. UNCHANGED at \/ \E left \in {None, "torn", "run"} : at' = [at EXCEPT ![Pr] = left]
            BY <1>3 DEF Checkout
        <3> QED BY <1>1, <3>1 DEF Types, GitTypes
    <2> QED BY <1>3, <2>2, <2>3, <2>4 DEF Checkout, bounds, Types, GitTypes, HistoryTypes
<1>4. CASE Merge
    <2>1. branch' \in Histories
        BY <1>4, MergeIs
    <2>2. update' \in Updates
        BY <1>1, <1>4 DEF Merge, Update, Updates
    <2>3. dirt' \in [Place -> SUBSET Work] /\ stray' \in BOOLEAN
        BY <1>4, UpdateDirt DEF Merge, LeaveBehind, Types, HistoryTypes
    <2>4. at' \in [Place -> {None, "torn", "main", "run", "other"}]
        BY <1>1, <1>4 DEF Merge, Types, GitTypes
    <2> QED BY <1>4, <2>1, <2>2, <2>3, <2>4 DEF Merge, bounds, Types, GitTypes, HistoryTypes
<1>5. CASE PushMerge
    <2>1. update' \in Updates
        BY <1>1, <1>5 DEF PushMerge, Update, Updates
    <2>2. branch' \in Histories \cup {None}
        BY <1>1, <1>5 DEF PushMerge, LeaveBehind, Updates, Types, GitTypes
    <2>3. origin' \in Histories \cup {None}
        BY <1>5 DEF PushMerge, Types, GitTypes
    <2>4. dirt' \in [Place -> SUBSET Work] /\ stray' \in BOOLEAN
        BY <1>5, UpdateDirt DEF PushMerge, LeaveBehind, Types, HistoryTypes
    <2> QED BY <1>5, <2>1, <2>2, <2>3, <2>4 DEF PushMerge, bounds, Types, GitTypes, HistoryTypes
<1>6. CASE Remove
    <2>1. update' \in Updates /\ at' \in [Place -> {None, "torn", "main", "run", "other"}] /\ stray' \in BOOLEAN
        BY <1>1, <1>6 DEF Remove, UpdateEnds, Updates, Types, GitTypes, HistoryTypes
    <2> QED BY <1>6, <2>1 DEF Remove, bounds, Types, GitTypes, HistoryTypes
<1>7. CASE UpdateDies
    <2>1. update' \in Updates /\ stray' \in BOOLEAN
        BY <1>1, <1>7 DEF UpdateDies, UpdateEnds, LeaveBehind, Updates
    <2>2. branch' \in Histories \cup {None}
        <3>1. CASE update.pc = "merge"
            <4>1. branch' \in {branch, Merged} /\ Merged \in Histories
                BY <1>7, <3>1, MergedIs DEF UpdateDies, LeaveBehind
            <4> QED BY <4>1 DEF Types, GitTypes
        <3>2. CASE update.pc # "merge"
            BY <1>7, <3>2 DEF UpdateDies, Types, GitTypes
        <3> QED BY <3>1, <3>2
    <2>3. dirt' \in [Place -> SUBSET Work]
        BY <1>7, UpdateDirt
    <2> QED BY <1>7, <2>1, <2>2, <2>3 DEF UpdateDies, bounds, Types, GitTypes, HistoryTypes
<1> QED BY <1>2, <1>3, <1>4, <1>5, <1>6, <1>7 DEF UpdateStep

\* The user and everybody else.
LEMMA OutsideTypes ==
    ASSUME Types, Outside
    PROVE  Types'
<1>1. ASSUME Event PROVE events' = events + 1 /\ events' \in 0..MaxEvents
    BY <1>1, WorkspaceAssumption DEF Event, Types, HistoryTypes
<1>2. events \in Int
    BY DEF Types, HistoryTypes
<1>3. ASSUME NEW c \in Source, CommitOnMain(c) PROVE Types'
    <2>1. events' = events + 1 /\ events' \in 0..MaxEvents /\ touched' \subseteq StateDir
        BY <1>1, <1>3 DEF CommitOnMain
    <2>2. main' \in [Source -> Nat] /\ \A d \in Source : main'[d] <= events'
        BY <1>2, <1>3, <2>1 DEF CommitOnMain, Types, GitTypes
    <2> QED BY <1>3, <2>1, <2>2 DEF CommitOnMain, Types, GitTypes, HistoryTypes
<1>4. ASSUME UNCHANGED main, Event PROVE \A d \in Source : main'[d] <= events'
    BY <1>1, <1>2, <1>4 DEF Types, GitTypes
<1>5. ASSUME NEW c \in Source, EditSource(c) PROVE Types'
    <2>1. dirt' \in [Place -> SUBSET Work]
        BY <1>5 DEF EditSource, Work, Place, Types, GitTypes
    <2> QED BY <1>1, <1>4, <1>5, <2>1 DEF EditSource, Types, GitTypes, HistoryTypes
<1>6. ASSUME NEW c \in Source, Switch(c) PROVE Types'
    <2>1. at' \in [Place -> {None, "torn", "main", "run", "other"}]
        BY <1>6 DEF Switch, Place, Types, GitTypes
    <2> QED BY <1>1, <1>4, <1>6, <2>1 DEF Switch, Types, GitTypes, HistoryTypes
<1>7. ASSUME NEW q \in StateDir \cup {Pr}, RemoveWorktree(q) PROVE Types'
    <2>1. at' \in [Place -> {None, "torn", "main", "run", "other"}] /\ dirt' \in [Place -> SUBSET Work]
        BY <1>7 DEF RemoveWorktree, Types, GitTypes
    <2> QED BY <1>1, <1>4, <1>7, <2>1 DEF RemoveWorktree, Types, GitTypes, HistoryTypes
<1>8. ASSUME SomebodyPushes PROVE Types'
    <2>1. origin' \in Histories \cup {None}
        BY <1>8 DEF SomebodyPushes, Histories, Types, GitTypes
    <2>2. events' \in 0..MaxEvents /\ \A d \in Source : main'[d] <= events'
        BY <1>1, <1>4, <1>8 DEF SomebodyPushes, Types, GitTypes, HistoryTypes
    <2> QED BY <1>8, <2>1, <2>2 DEF SomebodyPushes, history, Types, GitTypes, HistoryTypes
<1>9. ASSUME NEW e \in Edit, EditPlan(e) PROVE Types'
    <2>1. tracker' \in Trackers
        BY <1>9 DEF EditPlan, Types, Trackers
    <2>2. late' \subseteq StateDir \cup Edit
        BY <1>9 DEF EditPlan, Types, HistoryTypes
    <2> QED BY <1>1, <1>4, <1>9, <2>1, <2>2 DEF EditPlan, git, Types, GitTypes, HistoryTypes
<1> QED BY <1>3, <1>5, <1>6, <1>7, <1>8, <1>9 DEF Outside

\* The types of all steps.
LEMMA TypesStep ==
    ASSUME IInv, [Next]_vars
    PROVE  Types'
<1> USE DEF IInv
<1>1. ASSUME NEW p \in Runner, RunStep(p) PROVE Types'
    BY <1>1, LockingTypes, PreparingTypes, SetupTypes, TrackerTypes, BuildTypes DEF RunStep
<1>2. CASE UNCHANGED vars
    BY <1>2 DEF vars, git, history, bounds, Types, GitTypes, HistoryTypes
<1> QED BY <1>1, <1>2, UpdateTypes, OutsideTypes DEF Next

-----------------------------------------------------------------------------
(* Locks: what a step of one runner leaves to the others.                  *)

OnlyMine(p) ==
    /\ \A r \in Runner \ {p} : run'[r] = run[r]
    /\ \A l \in Lock : lock[l] \in Runner \ {p} => lock'[l] = lock[l]
    /\ \/ run'[p] = Off
       \/ /\ run'[p].pc # "off" /\ \A l \in Lock : lock[l] = p => lock'[l] = p
          /\ Started(p) => run'[p].src = run[p].src /\ run'[p].dir = run[p].dir /\ run'[p].plan = run[p].plan

MyState(p) ==
    \/ disk' = disk
    \/ /\ Loaded(p) /\ disk'[run[p].dir].src = run[p].src
       /\ \A s \in StateDir \ {run[p].dir} : disk'[s] = disk[s]

\* Ways out, ways on and locks are a runner's own.
LEMMA LeaveMine ==
    ASSUME Types, NEW p \in Runner, Leave(p)
    PROVE  OnlyMine(p)
BY DEF Leave, OnlyMine, Types

\* Going on is a runner's own affair.
LEMMA GotoMine ==
    ASSUME Types, NEW p \in Runner, NEW pc \in Pcs \ {"off"}, Goto(p, pc), UNCHANGED lock
    PROVE  OnlyMine(p) /\ run'[p].pc = pc
BY DEF Goto, OnlyMine, Types, Runs, Started

\* So is taking a lock: who takes it holds it.
LEMMA TakeMine ==
    ASSUME Types, NEW p \in Runner, NEW pc \in Pcs \ {"off"}, NEW l \in Lock, Take(p, l, pc)
    PROVE  OnlyMine(p) /\ (run'[p] = Off \/ (run'[p].pc = pc /\ lock'[l] = p))
<1>1. CASE lock[l] = None
    BY <1>1, WorkspaceAssumption DEF Take, Goto, OnlyMine, Types, Runs, Started
<1>2. CASE lock[l] # None
    BY <1>2, LeaveMine DEF Take, Leave, Types
<1> QED BY <1>1, <1>2

\* Every step of a runner is one of these.
LEMMA StepMine ==
    ASSUME Types, Holding, Saved, Known, OneCheckout, Rewriting, NEW p \in Runner, RunStep(p)
    PROVE  OnlyMine(p)
<1> USE DEF Pcs, Inside
<1>1. CASE Start(p)
    BY <1>1 DEF Start, OnlyMine, Types, Runs, Off, Started
<1>2. CASE TakeState(p) \/ TakeRepository(p) \/ TakeBranch(p)
    BY <1>2, TakeMine DEF TakeState, TakeRepository, TakeBranch, Holding, Started, Lock
<1>3. CASE Load(p)
    BY <1>3, GotoMine, LeaveMine DEF Load
<1>4. CASE Refuse(p)
    BY <1>4, LeaveMine DEF Refuse
<1>5. CASE (Record(p) \/ Create(p) \/ FinishInPlace(p) \/ Resume(p) \/ ResumeLegacy(p)) /\ ~ Refuse(p)
    <2>1. (Goto(p, "create") \/ Goto(p, "tool")) /\ UNCHANGED lock
        BY <1>5 DEF Record, Create, FinishInPlace, Resume, ResumeLegacy
    <2> QED BY <2>1, GotoMine
<1>6. CASE CutShort(p)
    BY <1>6, LeaveMine DEF CutShort
<1>7. CASE Finish(p) /\ ~ Refuse(p)
    <2>1. Leave(p) \/ (Goto(p, "tool") /\ UNCHANGED lock)
        BY <1>7 DEF Finish
    <2> QED BY <2>1, GotoMine, LeaveMine
<1>8. CASE SkipSetup(p)
    BY <1>8, GotoMine DEF SkipSetup
<1>9. CASE Setup(p)
    <2>1. run' = [run EXCEPT ![p].pc = "settle", ![p].before = dirt[Mine(p).place]] /\ UNCHANGED lock
        BY <1>9 DEF Setup
    <2> QED BY <2>1 DEF OnlyMine, Types, Runs, Started
<1>10. CASE Settle(p)
    <2>1. Leave(p) \/ (run' = [run EXCEPT ![p].pc = "mirror", ![p].before = {}] /\ UNCHANGED lock)
        BY <1>10 DEF Settle
    <2> QED BY <2>1, LeaveMine DEF OnlyMine, Types, Runs, Started
<1>11. CASE Plan(p)
    BY <1>11 DEF Plan, OnlyMine, Started
<1>12. CASE Open(p) \/ Number(p) \/ Reread(p) \/ Write(p) \/ Push(p)
    <2>1. Leave(p) \/ \E pc \in {"created", "mirror", "write"} : Goto(p, pc) /\ UNCHANGED lock
        BY <1>12 DEF Open, Number, Reread, Write, Push
    <2> QED BY <2>1, GotoMine, LeaveMine
<1>13. CASE Sync(p)
    <2>1. \/ Leave(p)
          \/ run' = [run EXCEPT ![p].pc = "work", ![p].seen = None, ![p].tries = 0] /\ UNCHANGED lock
          \/ run' = [run EXCEPT ![p].pc = "reread", ![p].seen = tracker.edits, ![p].tries = @ + 1] /\ UNCHANGED lock
        BY <1>13 DEF Sync, Synced
    <2> QED BY <2>1, LeaveMine DEF OnlyMine, Types, Runs, Started
<1>14. CASE Build(p)
    BY <1>14 DEF Build, OnlyMine, Started
<1>15. CASE Commit(p)
    BY <1>15, GotoMine DEF Commit
<1>16. CASE End(p) \/ Die(p)
    BY <1>16, LeaveMine DEF End, Die
<1> QED BY <1>1, <1>2, <1>3, <1>4, <1>5, <1>6, <1>7, <1>8, <1>9, <1>10, <1>11, <1>12, <1>13, <1>14, <1>15, <1>16
       DEF RunStep

\* What a step of a runner saves, it saves in its own state file.
LEMMA SaveMine ==
    ASSUME Types, Holding, NEW p \in Runner, Loaded(p), Started(p), NEW new \in States, SaveState(p, new)
    PROVE  MyState(p) /\ disk'[run[p].dir] = [new EXCEPT !.src = run[p].src]
BY MineIs DEF SaveState, MyState, States, Types

\* A step of a runner saves nothing but its own state.
LEMMA StepSaves ==
    ASSUME Types, Holding, Saved, Known, OneCheckout, NEW p \in Runner, RunStep(p)
    PROVE  MyState(p)
<1> USE DEF Loaded, Inside, Started
<1> DEFINE src == run[p].src
<1>1. CASE disk' = disk
    BY <1>1 DEF MyState
<1>2. CASE Record(p) /\ disk' # disk
    <2>1. SaveState(p, [Mine(p) EXCEPT !.place = IF run[p].isolate THEN run[p].dir ELSE src, !.named = TRUE,
                          !.init = main[src], !.last = History(main[src], {})])
        BY <1>2 DEF Record, Refuse
    <2>2. [Mine(p) EXCEPT !.place = IF run[p].isolate THEN run[p].dir ELSE src, !.named = TRUE,
                          !.init = main[src], !.last = History(main[src], {})] \in States
        <3>1. Mine(p) \in States /\ run[p].dir \in StateDir /\ src \in Source
            BY <1>2, MineIs DEF Record
        <3>2. main[src] \in Nat /\ History(main[src], {}) \in Histories
            BY <3>1 DEF History, Histories, Types, GitTypes
        <3> QED BY <3>1, <3>2 DEF States
    <2> QED BY <1>2, <2>1, <2>2, SaveMine DEF Record
<1>3. CASE (Create(p) \/ Finish(p) \/ FinishInPlace(p)) /\ disk' # disk
    <2>1. SaveState(p, [Mine(p) EXCEPT !.ready = TRUE])
        BY <1>3 DEF Create, Finish, FinishInPlace, Refuse
    <2>2. [Mine(p) EXCEPT !.ready = TRUE] \in States /\ Started(p) /\ Loaded(p)
        BY <1>3, MineIs DEF Create, Finish, FinishInPlace, States
    <2> QED BY <2>1, <2>2, SaveMine
<1>4. CASE ResumeLegacy(p) /\ disk' # disk
    <2>1. /\ at[src] = "run" /\ run[p].pc = "prepare"
          /\ SaveState(p, [Mine(p) EXCEPT !.place = src, !.ready = TRUE, !.init = branch.base, !.last = branch])
        BY <1>4 DEF ResumeLegacy, Refuse
    <2>2. branch \in Histories /\ branch.base \in Nat
        BY <2>1, MineIs DEF OneCheckout, Place, Types, GitTypes, Histories
    <2>3. [Mine(p) EXCEPT !.place = src, !.ready = TRUE, !.init = branch.base, !.last = branch] \in States
        BY <2>1, <2>2, MineIs DEF States
    <2> QED BY <2>1, <2>3, SaveMine
<1>5. CASE Plan(p)
    <2>1. [Mine(p) EXCEPT !.planned = TRUE] \in States
        BY <1>5, MineIs DEF Plan, States
    <2> QED BY <1>5, <2>1, SaveMine DEF Plan
<1>6. CASE Number(p)
    <2>1. [Mine(p) EXCEPT !.sub = tracker.opened[run[p].dir]] \in States
        BY <1>6, MineIs DEF Number, States, Trackers, Types
    <2> QED BY <1>6, <2>1, SaveMine DEF Number
<1>7. CASE Commit(p)
    <2>1. Mine(p).last \in Histories \cup {None} /\ run[p].pc = "work"
        BY <1>7, MineIs DEF Commit, States
    <2>2. branch' \in Histories \cup {None}
        BY <1>7, BuildTypes DEF Types, GitTypes
    <2>3. [Mine(p) EXCEPT !.last = branch', !.done = TRUE] \in States
        BY <1>7, <2>1, <2>2, MineIs DEF States
    <2> QED BY <1>7, <2>1, <2>3, SaveMine DEF Commit
<1>8. CASE \/ Start(p) \/ TakeState(p) \/ TakeRepository(p) \/ Load(p) \/ TakeBranch(p) \/ CutShort(p) \/ Resume(p)
           \/ SkipSetup(p) \/ Setup(p) \/ Settle(p) \/ Open(p) \/ Sync(p) \/ Reread(p) \/ Write(p)
           \/ Build(p) \/ Push(p) \/ End(p) \/ Die(p)
    <2>1. disk' = disk
        BY <1>8 DEF Start, TakeState, TakeRepository, Load, TakeBranch, CutShort, Resume, Refuse,
                    SkipSetup, Setup, Settle, Open, Sync, Reread, Write, Build, Push, End, Die
    <2> QED BY <2>1, <1>1
<1> QED BY <1>1, <1>2, <1>3, <1>4, <1>5, <1>6, <1>7, <1>8 DEF RunStep

\* Two runners that are past their locks have states of their own.
LEMMA OwnState ==
    ASSUME Types, Holding, NEW p \in Runner, NEW r \in Runner, r # p,
           run[p].pc \notin {"off", "state"}, run[r].pc \notin {"off", "state"}
    PROVE  run[p].dir # run[r].dir
BY DEF Holding

\* So a step of one leaves another's state alone.
LEMMA OtherState ==
    ASSUME Types, Holding, Saved, Known, OneCheckout, NEW p \in Runner, RunStep(p),
           NEW r \in Runner, r # p, run[r].pc \notin {"off", "state"}
    PROVE  disk'[run[r].dir] = disk[run[r].dir]
<1>1. CASE disk' = disk
    BY <1>1
<1>2. CASE Loaded(p) /\ \A s \in StateDir \ {run[p].dir} : disk'[s] = disk[s]
    <2>1. run[p].dir # run[r].dir
        BY <1>2, OwnState DEF Loaded, Inside
    <2> QED BY <1>2, <2>1 DEF Holding, Started
<1> QED BY <1>1, <1>2, StepSaves DEF MyState

-----------------------------------------------------------------------------
(* Holding, Saved and Known.                                               *)

\* Where a step takes a runner that does not leave.
LEMMA Goes ==
    ASSUME Types, Holding, Saved, Known, OneCheckout, Rewriting, NEW p \in Runner, RunStep(p), run'[p] # Off
    PROVE  \/ run[p].pc = "off" /\ run'[p].pc = "state" /\ run'[p].src \in Source /\ run'[p].dir \in StateDir
           \/ run[p].pc = "state" /\ run'[p].pc = "repo" /\ ~ run[p].plan /\ lock'[run[p].dir] = p
           \/ run[p].pc = "state" /\ run'[p].pc = "load" /\ lock'[run[p].dir] = p
           \/ run[p].pc = "repo" /\ run'[p].pc = "load"
           \/ /\ run[p].pc = "load" /\ Mine(p).src \in {None, run[p].src}
              /\ run'[p].pc = (IF run[p].plan THEN "mirror" ELSE "branch")
           \/ run[p].pc = "branch" /\ run'[p].pc = "prepare" /\ lock'[BranchLock] = p
           \/ run[p].pc = "prepare" /\ run'[p].pc = "create" /\ Record(p)
           \/ /\ run[p].pc \in {"prepare", "create"} /\ run'[p].pc = "tool"
              /\ Create(p) \/ Finish(p) \/ FinishInPlace(p) \/ Resume(p) \/ ResumeLegacy(p)
           \/ run[p].pc = "tool" /\ run'[p].pc = "settle" /\ Setup(p)
           \/ run[p].pc \in {"tool", "settle"} /\ run'[p].pc = "mirror" /\ disk' = disk
           \/ run[p].pc = "mirror" /\ run'[p].pc = "mirror"
           \/ run[p].pc = "mirror" /\ run'[p].pc = "created" /\ Mine(p).sub = 0 /\ disk' = disk
           \/ run[p].pc = "mirror" /\ run'[p].pc = "reread" /\ disk' = disk
           \/ run[p].pc \in {"created", "write"} /\ run'[p].pc = "mirror"
           \/ run[p].pc = "reread" /\ run'[p].pc \in {"write", "mirror"} /\ disk' = disk
           \/ run[p].pc = "mirror" /\ run'[p].pc = "work" /\ ~ run[p].plan /\ disk' = disk
           \/ run[p].pc = "work" /\ run'[p].pc = "work" /\ disk' = disk
           \/ run[p].pc = "work" /\ run'[p].pc = "push" /\ Commit(p)
           \/ run[p].pc = "push" /\ run'[p].pc = "mirror" /\ disk' = disk
<1> USE DEF Pcs, Inside
<1>1. ASSUME Leave(p) PROVE FALSE
    BY <1>1 DEF Leave, Types
<1>2. ASSUME NEW pc \in Pcs, Goto(p, pc) PROVE run'[p].pc = pc
    BY <1>2 DEF Goto, Types, Runs
<1>3. CASE Start(p)
    BY <1>3 DEF Start, Types, Off
<1>4. CASE TakeState(p) \/ TakeRepository(p) \/ TakeBranch(p)
    BY <1>1, <1>4, TakeMine DEF TakeState, TakeRepository, TakeBranch, Holding, Started, Lock
<1>5. CASE Load(p)
    BY <1>1, <1>2, <1>5 DEF Load
<1>6. CASE Record(p)
    BY <1>1, <1>2, <1>6 DEF Record, Refuse
<1>7. CASE Create(p) \/ Finish(p) \/ FinishInPlace(p) \/ Resume(p) \/ ResumeLegacy(p)
    BY <1>1, <1>2, <1>7 DEF Create, Finish, FinishInPlace, Resume, ResumeLegacy, Refuse
<1>8. CASE CutShort(p) \/ End(p) \/ Die(p)
    BY <1>1, <1>8 DEF CutShort, End, Die
<1>9. CASE SkipSetup(p)
    BY <1>2, <1>9 DEF SkipSetup
<1>10. CASE Setup(p)
    <2>1. run[p].pc = "tool" /\ run'[p].pc = "settle"
        BY <1>10 DEF Setup, Types, Runs
    <2> QED BY <1>10, <2>1
<1>11. CASE Settle(p)
    BY <1>1, <1>11 DEF Settle, Types, Runs
<1>12. CASE Plan(p) \/ Build(p)
    BY <1>12 DEF Plan, Build
<1>13. CASE Open(p) \/ Number(p) \/ Reread(p) \/ Write(p) \/ Push(p)
    BY <1>1, <1>2, <1>13 DEF Open, Number, Reread, Write, Push
<1>14. CASE Sync(p)
    BY <1>1, <1>14 DEF Sync, Synced, Types, Runs
<1>15. CASE Commit(p)
    BY <1>2, <1>15 DEF Commit
<1> QED BY <1>3, <1>4, <1>5, <1>6, <1>7, <1>8, <1>9, <1>10, <1>11, <1>12, <1>13, <1>14, <1>15 DEF RunStep

\* Locks are held from where they are taken to the way out.
LEMMA HoldingStep ==
    ASSUME IInv, [Next]_vars
    PROVE  Holding'
<1> USE DEF IInv
<1>1. CASE UNCHANGED <<run, lock>>
    BY <1>1 DEF Holding, Started, Building
<1>2. ASSUME NEW p \in Runner, RunStep(p) PROVE Holding'
    <2>1. OnlyMine(p)
        BY <1>2, StepMine
    <2>2. ASSUME NEW r \in Runner \ {p}
          PROVE  /\ Started(r)' => run'[r].src \in Source /\ run'[r].dir \in StateDir
                 /\ run'[r].pc \in {"repo", "branch"} \cup Building => ~ run'[r].plan
                 /\ run'[r].pc \notin {"off", "state"} => lock'[run'[r].dir] = r
                 /\ run'[r].pc \in Inside \cup {"tool", "push"} /\ ~ run'[r].plan => lock'[BranchLock] = r
        <3>1. run'[r] = run[r] /\ \A l \in Lock : lock[l] = r => lock'[l] = r
            BY <2>1, WorkspaceAssumption DEF OnlyMine
        <3> QED BY <3>1 DEF Holding, Started, Lock
    <2>3. CASE run'[p] = Off
        BY <2>2, <2>3 DEF Holding, Started, Off, Inside, Building
    <2>4. CASE run'[p] # Off /\ Started(p)
        <3>1. /\ run'[p].src = run[p].src /\ run'[p].dir = run[p].dir /\ run'[p].plan = run[p].plan
              /\ \A l \in Lock : lock[l] = p => lock'[l] = p
            BY <2>1, <2>4 DEF OnlyMine
        <3>2. /\ run[p].src \in Source /\ run[p].dir \in StateDir /\ run[p].dir \in Lock /\ BranchLock \in Lock
            BY <2>4 DEF Holding, Lock
        <3>3. run'[p].pc \in {"repo", "branch"} \cup Building => ~ run'[p].plan
            BY <1>2, <2>4, <3>1, Goes DEF Holding, Building, Started
        <3>4. run'[p].pc \notin {"off", "state"} => lock'[run'[p].dir] = p
            BY <1>2, <2>4, <3>1, <3>2, Goes DEF Holding, Started
        <3>5. run'[p].pc \in Inside \cup {"tool", "push"} /\ ~ run'[p].plan => lock'[BranchLock] = p
            BY <1>2, <2>4, <3>1, <3>2, Goes DEF Holding, Started, Inside
        <3> QED BY <2>2, <3>1, <3>2, <3>3, <3>4, <3>5 DEF Holding, Started
    <2>5. CASE run'[p] # Off /\ ~ Started(p)
        <3>1. run'[p].pc = "state" /\ run'[p].src \in Source /\ run'[p].dir \in StateDir
            BY <1>2, <2>5, Goes DEF Started
        <3> QED BY <2>2, <3>1 DEF Holding, Started, Inside, Building
    <2> QED BY <2>3, <2>4, <2>5
<1>3. CASE UpdateStep
    BY <1>1, <1>3 DEF UpdateStep, CheckPull, Checkout, Merge, PushMerge, Remove, UpdateDies
<1>4. CASE Outside
    BY <1>1, <1>4 DEF Outside, CommitOnMain, EditSource, Switch, RemoveWorktree, SomebodyPushes, EditPlan
<1> QED BY <1>1, <1>2, <1>3, <1>4 DEF Next, vars

\* What a step of a runner saves.
Keeps(s, t) == t.place = s.place /\ t.named = s.named /\ t.init = s.init

\* What a step of a runner may save, field by field.
LEMMA Written ==
    ASSUME Types, Holding, Saved, Known, OneCheckout, NEW p \in Runner, RunStep(p)
    PROVE  LET s == Mine(p)  t == disk'[run[p].dir]  src == run[p].src IN
           \/ disk' = disk
           \/ /\ Record(p) /\ s.place = None /\ ~ s.named /\ branch = None /\ dirt[src] = {} /\ git' = git
              /\ t.place \in {run[p].dir, src} /\ t.named /\ t.src = src
              /\ t.init = main[src] /\ t.last = History(main[src], {}) /\ t.ready = s.ready /\ t.sub = s.sub
           \/ /\ Create(p) \/ Finish(p) \/ FinishInPlace(p)
              /\ Keeps(s, t) /\ t.place # None /\ t.ready /\ t.last = s.last /\ t.sub = s.sub /\ t.src = src
           \/ /\ ResumeLegacy(p) /\ s.place = None /\ s.named /\ at[src] = "run" /\ git' = git
              /\ t.place = src /\ t.named /\ t.init = branch.base /\ t.last = branch /\ t.ready /\ t.sub = s.sub
              /\ t.src = src
           \/ /\ Plan(p) /\ Keeps(s, t) /\ t.ready = s.ready /\ t.last = s.last /\ t.sub = s.sub /\ t.src = src
           \/ /\ Number(p) /\ Keeps(s, t) /\ t.ready = s.ready /\ t.last = s.last /\ t.src = src
              /\ t.sub = tracker.opened[run[p].dir]
           \/ /\ Commit(p) /\ Keeps(s, t) /\ t.ready = s.ready /\ t.last = branch' /\ t.sub = s.sub /\ t.src = src
<1> DEFINE s == Mine(p)
           t == disk'[run[p].dir]
           src == run[p].src
           dir == run[p].dir
<1> USE DEF Keeps
<1>1. CASE \/ Start(p) \/ TakeState(p) \/ TakeRepository(p) \/ Load(p) \/ TakeBranch(p) \/ CutShort(p) \/ Resume(p)
           \/ SkipSetup(p) \/ Setup(p) \/ Settle(p) \/ Open(p) \/ Sync(p) \/ Reread(p) \/ Write(p)
           \/ Build(p) \/ Push(p) \/ End(p) \/ Die(p) \/ Refuse(p)
    <2>1. disk' = disk
        BY <1>1 DEF Start, TakeState, TakeRepository, Load, TakeBranch, CutShort, Resume, Refuse,
                    SkipSetup, Setup, Settle, Open, Sync, Reread, Write, Build, Push, End, Die
    <2> QED BY <2>1
<1>2. ASSUME Started(p)
      PROVE  s \in States /\ src \in Source /\ dir \in StateDir /\ disk \in [StateDir -> States]
      BY <1>2, MineIs DEF Types
<1>3. CASE Record(p) /\ ~ Refuse(p)
    <2>1. /\ SaveState(p, [s EXCEPT !.place = IF run[p].isolate THEN dir ELSE src, !.named = TRUE,
                             !.init = main[src], !.last = History(main[src], {})])
          /\ s.place = None /\ ~ s.named /\ branch = None /\ dirt[src] = {} /\ git' = git /\ Started(p)
        BY <1>3 DEF Record, Clean, git, Started
    <2>2. /\ t.place \in {dir, src} /\ t.named /\ t.src = src /\ t.init = main[src]
          /\ t.last = History(main[src], {}) /\ t.ready = s.ready /\ t.sub = s.sub
        BY <1>2, <2>1 DEF SaveState, States
    <2> QED BY <1>3, <2>1, <2>2
<1>4. CASE (Create(p) \/ Finish(p) \/ FinishInPlace(p)) /\ ~ Refuse(p)
    <2>1. SaveState(p, [s EXCEPT !.ready = TRUE]) /\ Started(p) /\ s.place # None
        BY <1>4, WorkspaceAssumption DEF Create, Finish, FinishInPlace, Started, Known
    <2>2. t.place = s.place /\ t.named = s.named /\ t.init = s.init /\ t.ready /\ t.last = s.last /\ t.sub = s.sub
          /\ t.src = src
        BY <1>2, <2>1 DEF SaveState, States
    <2> QED BY <1>4, <2>1, <2>2
<1>5. CASE ResumeLegacy(p) /\ ~ Refuse(p)
    <2>1. /\ SaveState(p, [s EXCEPT !.place = src, !.ready = TRUE, !.init = branch.base, !.last = branch])
          /\ s.place = None /\ s.named /\ at[src] = "run" /\ git' = git /\ Started(p)
        BY <1>5 DEF ResumeLegacy, git, Started
    <2>2. /\ t.place = src /\ t.named = s.named /\ t.init = branch.base /\ t.last = branch /\ t.ready
          /\ t.sub = s.sub /\ t.src = src
        BY <1>2, <2>1 DEF SaveState, States
    <2> QED BY <1>5, <2>1, <2>2
<1>6. CASE Plan(p)
    <2>1. SaveState(p, [s EXCEPT !.planned = TRUE]) /\ Started(p)
        BY <1>6 DEF Plan, Started
    <2>2. /\ t.place = s.place /\ t.named = s.named /\ t.init = s.init /\ t.ready = s.ready /\ t.last = s.last
          /\ t.sub = s.sub /\ t.src = src
        BY <1>2, <2>1 DEF SaveState, States
    <2> QED BY <1>6, <2>2
<1>7. CASE Number(p)
    <2>1. SaveState(p, [s EXCEPT !.sub = tracker.opened[dir]]) /\ Started(p)
        BY <1>7 DEF Number, Started
    <2>2. /\ t.place = s.place /\ t.named = s.named /\ t.init = s.init /\ t.ready = s.ready /\ t.last = s.last
          /\ t.sub = tracker.opened[dir] /\ t.src = src
        BY <1>2, <2>1 DEF SaveState, States
    <2> QED BY <1>7, <2>2
<1>8. CASE Commit(p)
    <2>1. SaveState(p, [s EXCEPT !.last = branch', !.done = TRUE]) /\ Started(p)
        BY <1>8 DEF Commit, Started
    <2>2. /\ t.place = s.place /\ t.named = s.named /\ t.init = s.init /\ t.ready = s.ready /\ t.last = branch'
          /\ t.sub = s.sub /\ t.src = src
        BY <1>2, <2>1 DEF SaveState, States
    <2> QED BY <1>8, <2>2
<1> QED BY <1>1, <1>3, <1>4, <1>5, <1>6, <1>7, <1>8 DEF RunStep

\* What a commit adds to the branch.
LEMMA CommitIs ==
    ASSUME Types, Holding, Saved, Known, NEW p \in Runner, Commit(p)
    PROVE  /\ branch \in Histories /\ branch' \in Histories /\ Mine(p).ready /\ Mine(p).last = branch
           /\ branch'.own = branch.own \cup {run[p].dir} /\ branch'.base = branch.base
           /\ Mine(p).place \in Place /\ Mine(p).place # Pr /\ at[Mine(p).place] = "run"
           /\ run[p].dir \in StateDir /\ Started(p)
<1>1. Started(p) /\ run[p].pc = "work" /\ Mine(p).last = branch /\ at[Mine(p).place] = "run"
    BY DEF Commit, Started
<1>2. Mine(p).ready /\ Mine(p) \in States /\ run[p].dir \in StateDir
    BY <1>1, MineIs DEF Known, Prepared, Inside, Holding, Building
<1>3. /\ Mine(p).place \in Place /\ Mine(p).place # Pr /\ Mine(p).last # None
    BY <1>1, <1>2, PlaceIs DEF Saved, Mine
<1>4. branch \in Histories
    BY <1>1, <1>2, <1>3 DEF States
<1>5. branch' = [branch EXCEPT !.own = @ \cup {run[p].dir}]
    BY DEF Commit
<1>6. branch' \in Histories /\ branch'.own = branch.own \cup {run[p].dir} /\ branch'.base = branch.base
    BY <1>2, <1>4, <1>5 DEF Histories
<1> QED BY <1>1, <1>2, <1>3, <1>4, <1>6

\* Only runners save.
LEMMA OthersSaveNothing ==
    ASSUME UpdateStep \/ Outside \/ UNCHANGED vars
    PROVE  UNCHANGED <<run, lock, disk>>
BY DEF UpdateStep, CheckPull, Checkout, Merge, PushMerge, Remove, UpdateDies,
       Outside, CommitOnMain, EditSource, Switch, RemoveWorktree, SomebodyPushes, EditPlan, vars

\* A workspace is saved whole.
LEMMA SavedStep ==
    ASSUME IInv, [Next]_vars
    PROVE  Saved'
<1> USE DEF IInv
<1>1. CASE UNCHANGED disk
    BY <1>1 DEF Saved
<1>2. ASSUME NEW p \in Runner, RunStep(p), disk' # disk PROVE Saved'
    <2> DEFINE s == Mine(p)
               t == disk'[run[p].dir]
               src == run[p].src
    <2>1. /\ Loaded(p) /\ \A x \in StateDir \ {run[p].dir} : disk'[x] = disk[x]
        BY <1>2, StepSaves DEF MyState
    <2>2. Started(p) /\ s.src \in {None, src}
        BY <2>1 DEF Loaded, Inside, Started, Known
    <2>3. /\ s = disk[run[p].dir] /\ run[p].dir \in StateDir /\ src \in Source /\ s \in States
        BY <2>2, MineIs
    <2>4. /\ s.place \in Source \cup {run[p].dir, None} /\ (s.ready => s.place # None)
          /\ s.place # None => s.named /\ s.src \in Source /\ s.init \in Nat /\ s.last # None
          /\ s.place \in Source => s.place = s.src
        BY <2>3 DEF Saved
    <2>5. /\ t.place \in Source \cup {run[p].dir, None} /\ (t.ready => t.place # None)
          /\ t.place # None => t.named /\ t.src \in Source /\ t.init \in Nat /\ t.last # None
          /\ t.place \in Source => t.place = t.src
        <3>1. CASE /\ t.place \in {run[p].dir, src} /\ t.named /\ t.src = src /\ t.init = main[src]
                   /\ t.last = History(main[src], {})
            <4>1. main[src] \in Nat /\ History(main[src], {}) \in Histories
                BY <2>3 DEF Types, GitTypes, History, Histories
            <4>2. run[p].dir \notin Source /\ None \notin Histories /\ src # None /\ run[p].dir # None
                BY <2>3, WorkspaceAssumption
            <4> QED BY <2>3, <2>4, <3>1, <4>1, <4>2
        <3>2. CASE /\ at[src] = "run" /\ t.place = src /\ t.named /\ t.init = branch.base /\ t.last = branch
                   /\ t.src = src
            <4>1. branch # None /\ branch.base \in Nat
                BY <2>3, <3>2 DEF OneCheckout, Place, Types, GitTypes, Histories
            <4> QED BY <2>3, <3>2, <4>1, WorkspaceAssumption
        <3>3. CASE Commit(p) /\ Keeps(s, t) /\ t.ready = s.ready /\ t.last = branch' /\ t.src = src
            <4>1. branch' \in Histories
                BY <3>3, CommitIs
            <4> QED BY <2>2, <2>3, <2>4, <3>3, <4>1, WorkspaceAssumption DEF Keeps
        <3>4. CASE Keeps(s, t) /\ t.src = src /\ t.last = s.last /\ (t.ready = s.ready \/ t.place # None)
            BY <2>2, <2>3, <2>4, <3>4, WorkspaceAssumption DEF Keeps
        <3> QED BY <1>2, <3>1, <3>2, <3>3, <3>4, Written
    <2> QED BY <2>1, <2>5 DEF Saved
<1> QED BY <1>1, <1>2, OthersSaveNothing DEF Next

\* What a runner knows of its state stays so.
LEMMA KnownStep ==
    ASSUME IInv, [Next]_vars
    PROVE  Known'
<1> USE DEF IInv
<1>1. CASE UNCHANGED <<run, disk>>
    BY <1>1 DEF Known, Loaded, Mine
<1>2. ASSUME NEW p \in Runner, RunStep(p) PROVE Known'
    <2> DEFINE s == Mine(p)
               t == disk'[run[p].dir]
               src == run[p].src
    <2>1. OnlyMine(p)
        BY <1>2, StepMine
    <2>2. ASSUME NEW r \in Runner \ {p}
          PROVE  /\ Loaded(r)' => Mine(r)'.src \in {None, run'[r].src}
                 /\ run'[r].pc = "create" => Mine(r)'.place # None /\ ~ Mine(r)'.ready
                 /\ run'[r].pc \in Prepared /\ ~ run'[r].plan => Mine(r)'.ready
                 /\ run'[r].pc = "settle" => Mine(r)'.place = run'[r].dir
                 /\ run'[r].pc = "created" => Mine(r)'.sub = 0
        <3>1. run'[r] = run[r]
            BY <2>1 DEF OnlyMine
        <3>2. CASE run[r].pc \in {"off", "state"}
            BY <3>1, <3>2 DEF Loaded, Prepared, Inside
        <3>3. CASE run[r].pc \notin {"off", "state"}
            <4>1. Mine(r)' = Mine(r)
                BY <1>2, <3>1, <3>3, OtherState DEF Mine
            <4> QED BY <3>1, <4>1 DEF Known, Loaded
        <3> QED BY <3>2, <3>3
    <2>3. CASE run'[p] = Off
        BY <2>2, <2>3 DEF Known, Loaded, Prepared, Off, Inside
    <2>4. CASE run'[p] # Off
        <3>1. ~ Leave(p)
            BY <2>4 DEF Leave, Types
        <3>2. CASE ~ Started(p)
            <4>1. run'[p].pc = "state"
                BY <1>2, <2>4, <3>2, Goes DEF Started
            <4> QED BY <2>2, <4>1 DEF Known, Loaded, Prepared, Inside
        <3>3. CASE Started(p)
            <4>1. s = disk[run[p].dir] /\ s \in States /\ run[p].dir \in StateDir /\ src \in Source
                BY <3>3, MineIs
            <4>2. run'[p].src = src /\ run'[p].dir = run[p].dir /\ run'[p].plan = run[p].plan
                  /\ Mine(p)' = t
                BY <2>1, <2>4, <3>3 DEF OnlyMine, Mine
            <4>3. Loaded(p)' => t.src \in {None, src}
                <5>1. CASE disk' = disk
                    BY <1>2, <2>4, <3>3, <5>1, Goes DEF Known, Loaded, Inside, Mine, Started
                <5>2. CASE disk' # disk
                    BY <1>2, <5>2, StepSaves DEF MyState
                <5> QED BY <5>1, <5>2
            <4>4. run'[p].pc = "create" => t.place # None /\ ~ t.ready
                <5>1. ASSUME run'[p].pc = "create" PROVE Record(p) /\ run[p].pc = "prepare"
                    BY <1>2, <2>4, <5>1, Goes
                <5>2. ASSUME Record(p) PROVE t.place # None /\ ~ t.ready
                    <6>1. /\ SaveState(p, [s EXCEPT !.place = IF run[p].isolate THEN run[p].dir ELSE src,
                                              !.named = TRUE, !.init = main[src], !.last = History(main[src], {})])
                          /\ s.place = None
                        BY <2>4, <3>1, <5>2 DEF Record, Refuse
                    <6>2. t.place \in {run[p].dir, src} /\ t.ready = s.ready
                        BY <4>1, <6>1 DEF SaveState, States, Types
                    <6> QED BY <4>1, <6>1, <6>2, WorkspaceAssumption DEF Saved
                <5> QED BY <5>1, <5>2
            <4>5. run'[p].pc \in Prepared /\ ~ run'[p].plan => t.ready
                <5>1. CASE s.ready
                    BY <1>2, <4>1, <5>1, Written
                <5>2. CASE ~ s.ready /\ run'[p].pc \in Prepared /\ ~ run[p].plan
                    <6>1. run[p].pc \notin Prepared
                        BY <5>2 DEF Known
                    <6>2. Create(p) \/ Finish(p) \/ FinishInPlace(p) \/ Resume(p) \/ ResumeLegacy(p)
                        BY <1>2, <2>4, <5>2, <6>1, Goes DEF Prepared, Inside
                    <6>3. \/ SaveState(p, [s EXCEPT !.ready = TRUE])
                          \/ SaveState(p, [s EXCEPT !.place = src, !.ready = TRUE, !.init = branch.base, !.last = branch])
                        BY <2>4, <3>1, <5>2, <6>2 DEF Create, Finish, FinishInPlace, Resume, ResumeLegacy, Refuse
                    <6> QED BY <4>1, <6>3 DEF SaveState, States, Types
                <5> QED BY <4>2, <5>1, <5>2
            <4>6. run'[p].pc = "settle" => t.place = run[p].dir
                <5>1. ASSUME run'[p].pc = "settle" PROVE Setup(p)
                    BY <1>2, <2>4, <5>1, Goes
                <5>2. ASSUME Setup(p) PROVE s.place \in StateDir /\ disk' = disk
                    BY <5>2 DEF Setup
                <5> QED BY <4>1, <5>1, <5>2, WorkspaceAssumption DEF Saved
            <4>7. run'[p].pc = "created" => t.sub = 0
                BY <1>2, <2>4, Goes DEF Mine
            <4> QED BY <2>2, <4>2, <4>3, <4>4, <4>5, <4>6, <4>7 DEF Known
        <3> QED BY <3>2, <3>3
    <2> QED BY <2>3, <2>4
<1> QED BY <1>1, <1>2, OthersSaveNothing DEF Next

\* So no two runners write one state file, and no two build at a time.
LEMMA HoldingOneWriter ==
    ASSUME Types, Holding
    PROVE  OneWriter
BY DEF OneWriter, Holding, Inside

-----------------------------------------------------------------------------
(* The branch and its checkout.                                            *)

\* What a step of a runner does to the branch: it pushes it, makes it where
\* there is none, checks it out where it is free, or commits.
LEMMA RunMoves ==
    ASSUME Types, Holding, Saved, Known, OneCheckout, NEW p \in Runner, RunStep(p)
    PROVE  \/ UNCHANGED <<at, branch, origin>>
           \/ UNCHANGED <<at, branch>> /\ origin' = branch /\ (origin = None \/ Within(origin, branch))
           \/ /\ UNCHANGED origin /\ StateDir \ {run[p].dir} \subseteq touched' /\ branch' \in Histories
              /\ Fresh(run[p].dir)
              /\ \E place \in Source \cup StateDir, left \in {None, "torn", "main", "run"} :
                    /\ at' = [at EXCEPT ![place] = left]
                    /\ left = "run" => Free \/ at[place] = "run"
                    /\ branch # None => left = "run" /\ branch' = branch
                    /\ branch = None => branch'.own = {}
           \/ Commit(p) /\ UNCHANGED <<at, origin>>
<1> DEFINE src == run[p].src  place == Mine(p).place
<1>1. CASE \/ Start(p) \/ TakeState(p) \/ TakeRepository(p) \/ Load(p) \/ TakeBranch(p) \/ Refuse(p)
           \/ Record(p) \/ Resume(p) \/ ResumeLegacy(p)
           \/ SkipSetup(p) \/ Setup(p) \/ Settle(p) \/ Plan(p) \/ Open(p) \/ Number(p) \/ Sync(p) \/ Reread(p)
           \/ Write(p) \/ Build(p) \/ End(p) \/ Die(p)
    <2>1. UNCHANGED <<at, branch, origin>>
        BY <1>1 DEF Start, TakeState, TakeRepository, Load, TakeBranch, Record, Resume, ResumeLegacy, Refuse,
                    SkipSetup, Setup, Settle, Plan, Open, Number, Sync, Reread, Write, Build, End, Die, git
    <2> QED BY <2>1
<1>2. CASE Push(p)
    <2>1. UNCHANGED <<at, branch>> /\ (origin' = origin \/ (origin' = branch /\ (origin = None \/ Within(origin, branch))))
        BY <1>2 DEF Push
    <2> QED BY <2>1
<1>3. CASE Commit(p)
    BY <1>3 DEF Commit
<1>4. Started(p) /\ place # None => place \in Source \cup StateDir /\ Mine(p).init \in Nat
    BY MineIs, PlaceIs
<1>5. Started(p) => src \in Source /\ History(main[src], {}) \in Histories
    BY MineIs DEF Types, GitTypes, History, Histories
<1>6. branch = None => Free
    BY DEF OneCheckout, Free
<1>7. CASE Create(p) /\ ~ Refuse(p)
    <2>1. Started(p) /\ place # None /\ Fresh(run[p].dir)
        BY <1>7 DEF Create, Started, Known, Fresh, Mine
    <2>2. /\ branch = None /\ branch' = History(main[src], {}) /\ at' = [at EXCEPT ![place] = "run"]
          /\ touched' = touched \cup Others(p) /\ UNCHANGED origin
        BY <1>7 DEF Create, Interfere
    <2> QED BY <1>4, <1>5, <1>6, <2>1, <2>2 DEF History, Others
<1>8. CASE CutShort(p)
    <2>1. Started(p) /\ place # None /\ Fresh(run[p].dir)
        BY <1>8 DEF CutShort, Started, Known, Fresh, Mine
    <2>2. branch = None /\ branch' = History(main[src], {}) /\ UNCHANGED origin
        BY <1>8 DEF CutShort
    <2>3. PICK left \in {None, "torn", "main", "run"} :
            /\ at' = [at EXCEPT ![place] = left] /\ touched' = touched \cup (IF left = "torn" THEN StateDir ELSE Others(p))
        BY <1>8 DEF CutShort, Interfere
    <2>4. StateDir \ {run[p].dir} \subseteq touched'
        BY <2>3 DEF Others
    <2> QED BY <1>4, <1>5, <1>6, <2>1, <2>2, <2>3, <2>4 DEF History
<1>9. CASE Finish(p) /\ ~ Refuse(p)
    <2>1. Started(p) /\ place # None /\ Fresh(run[p].dir)
        BY <1>9, WorkspaceAssumption DEF Finish, Started, Fresh, Mine
    <2>2. /\ branch' = History(Mine(p).init, {}) /\ at' = [at EXCEPT ![place] = "run"]
          /\ branch \in {None, History(Mine(p).init, {})} /\ (branch # None => Free \/ at[place] = "run")
          /\ touched' = touched \cup Others(p) /\ UNCHANGED origin
        BY <1>9 DEF Finish, Interfere
    <2>3. branch' \in Histories
        BY <1>4, <2>1, <2>2 DEF History, Histories
    <2> QED BY <1>4, <1>6, <2>1, <2>2, <2>3 DEF History, Others
<1>10. CASE FinishInPlace(p) /\ ~ Refuse(p)
    <2>1. Started(p) /\ Fresh(run[p].dir)
        BY <1>10, WorkspaceAssumption DEF FinishInPlace, Started, Fresh, Mine
    <2>2. /\ branch' = IF branch = None THEN History(main[src], {}) ELSE branch
          /\ at' = [at EXCEPT ![src] = "run"] /\ (Free \/ at[src] = "run")
          /\ touched' = touched \cup Others(p) /\ UNCHANGED origin
        BY <1>10 DEF FinishInPlace, Interfere
    <2>3. branch' \in Histories
        BY <1>5, <2>1, <2>2 DEF Types, GitTypes
    <2> QED BY <1>5, <2>1, <2>2, <2>3 DEF History, Others
<1> QED BY <1>1, <1>2, <1>3, <1>7, <1>8, <1>9, <1>10 DEF RunStep

\* The branch is checked out once at most, and stays.
LEMMA OneCheckoutStep ==
    ASSUME IInv, [Next]_vars
    PROVE  OneCheckout'
<1> USE DEF IInv
<1>1. Pr \in Place /\ Source \subseteq Place /\ StateDir \subseteq Place
    BY DEF Place
<1>2. ASSUME NEW p \in Runner, RunStep(p) PROVE OneCheckout'
    <2>1. branch # None => branch' # None
        BY <1>2, RunMoves, CommitIs, WorkspaceAssumption
    <2>2. \A s \in StateDir : disk'[s].ready => branch' # None
        <3>1. ASSUME NEW s \in StateDir, disk'[s].ready, ~ disk[s].ready PROVE branch' # None
            <4>1. s = run[p].dir /\ Loaded(p) /\ disk' # disk
                BY <1>2, <3>1, StepSaves DEF MyState
            <4>2. Started(p) /\ Mine(p) = disk[s]
                BY <4>1 DEF Loaded, Inside, Started, Mine
            <4>3. CASE ResumeLegacy(p) /\ at[run[p].src] = "run"
                BY <1>1, <2>1, <4>2, <4>3, MineIs DEF OneCheckout
            <4>4. CASE (Create(p) \/ Finish(p) \/ FinishInPlace(p)) /\ disk' # disk
                <5>1. \A n \in Nat : History(n, {}) \in Histories
                    BY DEF History, Histories
                <5>2. ~ Refuse(p) /\ main[run[p].src] \in Nat
                    BY <4>2, <4>4, MineIs DEF Refuse, Types, GitTypes
                <5>3. Finish(p) => Mine(p).init \in Nat
                    BY <4>2, PlaceIs, WorkspaceAssumption DEF Finish
                <5>4. branch' \in Histories
                    BY <4>4, <5>1, <5>2, <5>3 DEF Create, Finish, FinishInPlace, Types, GitTypes
                <5> QED BY <5>4, WorkspaceAssumption
            <4> QED BY <1>2, <3>1, <4>1, <4>2, <4>3, <4>4, Written
        <3> QED BY <2>1, <3>1 DEF OneCheckout
    <2>3. CASE UNCHANGED <<at, branch>>
        BY <1>2, <2>1, <2>2, <2>3, RunMoves DEF OneCheckout
    <2>4. CASE /\ UNCHANGED origin /\ branch' \in Histories
               /\ \E place \in Source \cup StateDir, left \in {None, "torn", "main", "run"} :
                    /\ at' = [at EXCEPT ![place] = left]
                    /\ left = "run" => Free \/ at[place] = "run"
        <3>1. PICK place \in Source \cup StateDir, left \in {None, "torn", "main", "run"} :
                /\ at' = [at EXCEPT ![place] = left]
                /\ left = "run" => Free \/ at[place] = "run"
            BY <2>4
        <3>2. \A q \in Place : at'[q] = IF q = place THEN left ELSE at[q]
            BY <1>1, <3>1 DEF Types, GitTypes
        <3>3. \A q, x \in Place : at'[q] = "run" /\ at'[x] = "run" => q = x
            BY <1>1, <3>1, <3>2 DEF OneCheckout, Free
        <3>4. branch' # None
            BY <2>4, WorkspaceAssumption
        <3> QED BY <2>2, <3>3, <3>4 DEF OneCheckout
    <2>5. CASE Commit(p) /\ UNCHANGED <<at, origin>>
        <3>1. branch' # None
            BY <2>5, CommitIs, WorkspaceAssumption
        <3> QED BY <2>2, <2>5, <3>1 DEF OneCheckout
    <2> QED BY <1>2, <2>3, <2>4, <2>5, RunMoves
<1>3. CASE UpdateStep
    <2>1. CASE CheckPull
        BY <2>1 DEF CheckPull, git, OneCheckout
    <2>2. CASE Checkout
        <3>1. UNCHANGED <<origin, disk>>
            BY <2>2 DEF Checkout
        <3>2. CASE UNCHANGED <<at, branch>>
            BY <3>1, <3>2 DEF OneCheckout
        <3>3. ASSUME Free, branch' = update.remote, NEW left \in {None, "torn", "run"}, at' = [at EXCEPT ![Pr] = left]
              PROVE  OneCheckout'
            <4>1. branch' # None
                BY <2>2, <3>3 DEF Checkout, Pulled, HasAccepted
            <4>2. \A q \in Place : at'[q] = IF q = Pr THEN left ELSE at[q]
                BY <1>1, <3>3 DEF Types, GitTypes
            <4>3. \A q \in Place : at'[q] = "run" => q = Pr
                BY <3>3, <4>2 DEF Free
            <4> QED BY <3>1, <4>1, <4>3 DEF OneCheckout
        <3>4. \/ UNCHANGED <<at, branch>>
              \/ Free /\ branch' = update.remote /\ \E left \in {None, "torn", "run"} : at' = [at EXCEPT ![Pr] = left]
            BY <2>2 DEF Checkout
        <3> QED BY <3>2, <3>3, <3>4
    <2>3. CASE Merge
        <3>1. branch' # None /\ UNCHANGED <<origin, disk>>
            BY <2>3, MergeIs DEF Merge
        <3>2. at' = at \/ at' = [at EXCEPT ![Pr] = "other"]
            BY <2>3 DEF Merge
        <3>3. \A q \in Place : at'[q] = "run" => at[q] = "run"
            BY <1>1, <3>2 DEF Types, GitTypes
        <3> QED BY <3>1, <3>3 DEF OneCheckout
    <2>4. CASE PushMerge
        <3>1. branch' # None /\ UNCHANGED <<at, disk>>
            BY <2>4 DEF PushMerge, LeaveBehind, Pulled, HasAccepted
        <3> QED BY <3>1 DEF OneCheckout
    <2>5. CASE Remove
        <3>1. \A q \in Place : at'[q] = "run" => at[q] = "run"
            BY <1>1, <2>5, WorkspaceAssumption DEF Remove, Types, GitTypes
        <3> QED BY <2>5, <3>1 DEF Remove, OneCheckout
    <2>6. CASE UpdateDies
        <3>1. UNCHANGED <<at, origin, disk>> /\ (branch # None => branch' # None)
            BY <2>6, MergedIs, WorkspaceAssumption DEF UpdateDies, LeaveBehind
        <3> QED BY <3>1 DEF OneCheckout
    <2> QED BY <1>3, <2>1, <2>2, <2>3, <2>4, <2>5, <2>6 DEF UpdateStep
<1>4. CASE Outside
    <2>1. ASSUME NEW c \in Source, CommitOnMain(c) \/ EditSource(c) PROVE OneCheckout'
        BY <2>1 DEF CommitOnMain, EditSource, OneCheckout
    <2>2. ASSUME NEW c \in Source, Switch(c) PROVE OneCheckout'
        <3>1. CASE at[c] = "run" /\ at' = [at EXCEPT ![c] = "main"]
            <4>1. \A q \in Place : at'[q] = "run" => at[q] = "run"
                BY <1>1, <3>1 DEF Types, GitTypes
            <4> QED BY <2>2, <4>1 DEF Switch, OneCheckout
        <3>2. CASE branch # None /\ Free /\ at' = [at EXCEPT ![c] = "run"]
            <4>1. \A q \in Place : at'[q] = IF q = c THEN "run" ELSE at[q]
                BY <1>1, <3>2 DEF Types, GitTypes
            <4> QED BY <2>2, <3>2, <4>1 DEF Switch, OneCheckout, Free
        <3> QED BY <2>2, <3>1, <3>2 DEF Switch
    <2>3. ASSUME NEW q \in StateDir \cup {Pr}, RemoveWorktree(q) PROVE OneCheckout'
        <3>1. \A x \in Place : at'[x] = "run" => at[x] = "run"
            BY <1>1, <2>3, WorkspaceAssumption DEF RemoveWorktree, Types, GitTypes
        <3> QED BY <2>3, <3>1 DEF RemoveWorktree, OneCheckout
    <2>4. ASSUME SomebodyPushes PROVE OneCheckout'
        BY <2>4 DEF SomebodyPushes, OneCheckout
    <2>5. ASSUME NEW e \in Edit, EditPlan(e) PROVE OneCheckout'
        BY <2>5 DEF EditPlan, git, OneCheckout
    <2> QED BY <1>4, <2>1, <2>2, <2>3, <2>4, <2>5 DEF Outside
<1>5. CASE UNCHANGED vars
    BY <1>5 DEF vars, git, OneCheckout
<1> QED BY <1>2, <1>3, <1>4, <1>5 DEF Next

-----------------------------------------------------------------------------
(* Accepted commits.                                                       *)

\* What never shrinks.
Grows(h, k) == h # None => k # None /\ h.own \subseteq k.own

\* A step of a runner loses nothing of the branch, here or on GitHub.
LEMMA RunGrows ==
    ASSUME Types, Holding, Saved, Known, OneCheckout, NEW p \in Runner, RunStep(p)
    PROVE  Grows(branch, branch') /\ Grows(origin, origin')
<1>1. CASE UNCHANGED <<branch, origin>>
    BY <1>1 DEF Grows
<1>2. CASE UNCHANGED branch /\ origin' = branch /\ (origin = None \/ Within(origin, branch))
    BY <1>2 DEF Grows, Within, OneCheckout
<1>3. CASE UNCHANGED origin /\ branch' \in Histories /\ (branch # None => branch' = branch)
    BY <1>3 DEF Grows
<1>4. CASE Commit(p) /\ UNCHANGED origin
    BY <1>4, CommitIs, WorkspaceAssumption DEF Grows
<1> QED BY <1>1, <1>2, <1>3, <1>4, RunMoves

\* Nor does anything else end the branch.
LEMMA BranchStays ==
    ASSUME IInv, [Next]_vars, branch # None
    PROVE  branch' # None
<1> USE DEF IInv
<1>1. ASSUME NEW p \in Runner, RunStep(p) PROVE branch' # None
    BY <1>1, RunGrows DEF Grows
<1>2. CASE Checkout \/ PushMerge
    BY <1>2 DEF Checkout, PushMerge, LeaveBehind, Pulled, HasAccepted
<1>3. CASE Merge
    BY <1>3, MergeIs
<1>4. CASE UpdateDies
    BY <1>4, MergedIs, WorkspaceAssumption DEF UpdateDies, LeaveBehind
<1>5. CASE CheckPull \/ Remove \/ Outside \/ UNCHANGED vars
    BY <1>5 DEF CheckPull, Remove, git, vars,
                Outside, CommitOnMain, EditSource, Switch, RemoveWorktree, SomebodyPushes, EditPlan
<1> QED BY <1>1, <1>2, <1>3, <1>4, <1>5 DEF Next, UpdateStep

\* What came late stays known, and what a step adds to it.
LEMMA RunLate ==
    ASSUME NEW p \in Runner, RunStep(p)
    PROVE  /\ late' = late \/ Commit(p)
           /\ Commit(p) => late' = IF update.pc = "checkout" THEN late \cup {run[p].dir} ELSE late
           /\ UNCHANGED update /\ touched \subseteq touched'
BY DEF RunStep, Start, TakeState, TakeRepository, Load, TakeBranch, Record, Create, CutShort, Finish, FinishInPlace,
       Resume, ResumeLegacy, Refuse, Interfere, SkipSetup, Setup, Settle, Plan, Open, Number, Sync, Reread, Write,
       Build, Commit, Push, End, Die, history

\* Edits of the plan issue may come late, too.
LEMMA OthersLate ==
    ASSUME UpdateStep \/ Outside \/ UNCHANGED vars
    PROVE  late' = late \/ \E e \in Edit : late' = late \cup {e}
BY DEF UpdateStep, CheckPull, Checkout, Merge, PushMerge, Remove, UpdateDies, history,
       Outside, CommitOnMain, EditSource, Switch, RemoveWorktree, SomebodyPushes, EditPlan, vars

\* What a step of a runner accepts: nothing, the branch as it is, or its commit.
LEMMA Accepts ==
    ASSUME Types, Holding, Saved, Known, OneCheckout, NEW p \in Runner, RunStep(p), NEW s \in StateDir
    PROVE  \/ disk'[s].last = disk[s].last
           \/ s = run[p].dir /\ branch = None /\ disk'[s].last # None /\ disk'[s].last.own = {}
           \/ /\ s = run[p].dir /\ Legacy(s) /\ at[run[p].src] = "run" /\ run[p].src \in Source /\ git' = git
              /\ disk'[s].last = branch /\ branch # None
           \/ s = run[p].dir /\ Commit(p) /\ disk'[s].last = branch'
<1>1. CASE disk'[s] = disk[s]
    BY <1>1
<1>2. CASE disk'[s] # disk[s]
    <2>1. s = run[p].dir /\ Loaded(p) /\ disk' # disk
        BY <1>2, StepSaves DEF MyState
    <2>2. Mine(p) = disk[s] /\ run[p].src \in Source /\ Started(p)
        BY <2>1, MineIs DEF Loaded, Inside, Started
    <2>3. History(main[run[p].src], {}) \in Histories /\ History(main[run[p].src], {}).own = {}
        BY <2>2 DEF History, Histories, Types, GitTypes
    <2>4. at[run[p].src] = "run" => branch # None
        BY <2>2 DEF OneCheckout, Place
    <2> QED BY <2>1, <2>2, <2>3, <2>4, Written, WorkspaceAssumption DEF Legacy
<1> QED BY <1>1, <1>2

\* A state from before worktrees stays the only one.
LEMMA LegacyAloneStep ==
    ASSUME IInv, [Next]_vars
    PROVE  LegacyAlone'
<1> USE DEF IInv
<1>1. ASSUME UNCHANGED disk, UpdateStep \/ Outside \/ UNCHANGED vars PROVE LegacyAlone'
    <2>1. late' \cap StateDir = late \cap StateDir
        BY <1>1, OthersLate, WorkspaceAssumption
    <2> QED BY <1>1, <2>1, BranchStays DEF LegacyAlone, Legacy, Next
<1>2. ASSUME NEW p \in Runner, RunStep(p) PROVE LegacyAlone'
    <2> SUFFICES ASSUME NEW s \in StateDir, Legacy(s)'
                 PROVE  /\ branch' # None /\ late' \cap StateDir = {}
                        /\ \A x \in StateDir \ {s} : disk'[x].place = None /\ ~ disk'[x].named
        BY DEF LegacyAlone
    <2>1. \/ disk' = disk
          \/ /\ run[p].dir \in StateDir /\ Mine(p) = disk[run[p].dir]
             /\ \A x \in StateDir \ {run[p].dir} : disk'[x] = disk[x]
        BY <1>2, StepSaves, MineIs DEF MyState, Loaded, Inside, Started
    <2>2. ASSUME Commit(p) PROVE disk[run[p].dir].place # None /\ run[p].dir \in StateDir /\ disk'[run[p].dir].place # None
        <3>1. Mine(p) = disk[run[p].dir] /\ run[p].dir \in StateDir /\ disk[run[p].dir].place # None
            BY <2>2, CommitIs, MineIs DEF Saved
        <3>2. disk'[run[p].dir].place = disk[run[p].dir].place
            BY <2>2, <3>1, MineIs, CommitIs DEF Commit, SaveState, States, Types
        <3> QED BY <3>1, <3>2
    <2>3. Legacy(s)
        <3>1. CASE disk'[s] = disk[s]
            BY <3>1 DEF Legacy
        <3>2. CASE disk'[s] # disk[s]
            <4>1. s = run[p].dir /\ disk' # disk /\ Mine(p) = disk[s] /\ Started(p)
                BY <1>2, <2>1, <3>2, StepSaves DEF MyState, Loaded, Inside, Started
            <4>2. run[p].src \in Source /\ run[p].src # None /\ s # None
                BY <4>1, MineIs, WorkspaceAssumption
            <4>3. disk'[s].place = None /\ disk'[s].named
                BY DEF Legacy
            <4> QED BY <1>2, <4>1, <4>2, <4>3, Written DEF Legacy, Keeps
        <3> QED BY <3>1, <3>2
    <2>4. /\ branch # None /\ late \cap StateDir = {}
          /\ \A x \in StateDir \ {s} : disk[x].place = None /\ ~ disk[x].named
        BY <2>3 DEF LegacyAlone
    <2>5. ~ Commit(p)
        BY <2>2, <2>3, <2>4 DEF Legacy
    <2>6. ASSUME NEW x \in StateDir \ {s} PROVE disk'[x].place = None /\ ~ disk'[x].named
        <3>1. CASE disk'[x] = disk[x]
            BY <2>4, <3>1
        <3>2. CASE disk'[x] # disk[x]
            <4>1. x = run[p].dir /\ disk' # disk /\ Mine(p) = disk[x]
                BY <2>1, <3>2
            <4> QED BY <1>2, <2>4, <2>5, <4>1, Written DEF Keeps
        <3> QED BY <3>1, <3>2
    <2> QED BY <1>2, <2>4, <2>5, <2>6, RunLate, BranchStays DEF Next
<1> QED BY <1>1, <1>2, OthersSaveNothing DEF Next

\* No step drops a commit that a state file has accepted.
LEMMA CommitsKeptStep ==
    ASSUME IInv, [Next]_vars
    PROVE  CommitsKept'
<1> USE DEF IInv
<1>1. ASSUME UNCHANGED disk, late \subseteq late', Grows(branch, branch'), Grows(origin, origin')
      PROVE  CommitsKept'
    BY <1>1 DEF CommitsKept, Grows
<1>2. ASSUME NEW p \in Runner, RunStep(p) PROVE CommitsKept'
    <2>1. Grows(branch, branch') /\ Grows(origin, origin')
        BY <1>2, RunGrows
    <2>2. late \subseteq late'
        BY <1>2, RunLate
    <2> SUFFICES ASSUME NEW s \in StateDir \ late', disk'[s].last # None, disk'[s].last.own # {}
                 PROVE  \/ branch' # None /\ disk'[s].last.own \subseteq branch'.own
                        \/ origin' # None /\ disk'[s].last.own \subseteq origin'.own
        BY DEF CommitsKept
    <2>3. CASE disk'[s].last = disk[s].last
        BY <2>1, <2>2, <2>3 DEF CommitsKept, Grows
    <2>4. CASE git' = git /\ disk'[s].last = branch /\ branch # None
        BY <2>4 DEF git
    <2>5. CASE Commit(p) /\ disk'[s].last = branch'
        BY <2>5, CommitIs, WorkspaceAssumption
    <2> QED BY <1>2, <2>3, <2>4, <2>5, Accepts
<1>3. CASE UpdateStep
    <2>1. UNCHANGED <<disk, late>>
        BY <1>3 DEF UpdateStep, CheckPull, Checkout, Merge, PushMerge, Remove, UpdateDies, history
    <2>2. CASE Checkout
        <3>1. UNCHANGED <<branch, origin>> \/ (branch' = update.remote /\ HasAccepted(update.remote))
            BY <2>2 DEF Checkout, Pulled
        <3> QED BY <2>1, <3>1 DEF CommitsKept, HasAccepted
    <2>3. CASE Merge
        <3>1. Grows(branch, branch') /\ UNCHANGED origin
            BY <2>3, MergeIs DEF Merge, Grows
        <3> QED BY <1>1, <2>1, <3>1 DEF Grows
    <2>4. CASE PushMerge
        <3>1. /\ branch # None /\ HasAccepted(update.head)
              /\ origin' = origin \/ (Within(origin, branch) /\ origin' = branch)
              /\ branch' \in {branch, update.head}
            BY <2>4 DEF PushMerge, LeaveBehind, Pulled
        <3>2. CASE branch' = update.head
            BY <2>1, <3>1, <3>2 DEF CommitsKept, HasAccepted
        <3>3. CASE branch' = branch
            BY <2>1, <3>1, <3>3 DEF CommitsKept, Within
        <3> QED BY <3>1, <3>2, <3>3
    <2>5. CASE CheckPull \/ Remove
        BY <2>1, <2>5 DEF CheckPull, Remove, git, CommitsKept
    <2>6. CASE UpdateDies
        <3>1. Grows(branch, branch') /\ UNCHANGED origin
            BY <2>6, MergedIs, WorkspaceAssumption DEF UpdateDies, LeaveBehind, Grows
        <3> QED BY <1>1, <2>1, <3>1 DEF Grows
    <2> QED BY <1>3, <2>2, <2>3, <2>4, <2>5, <2>6 DEF UpdateStep
<1>4. CASE Outside
    <2>1. UNCHANGED <<disk, branch>> /\ late \subseteq late'
        BY <1>4, OthersSaveNothing, OthersLate
           DEF git, Outside, CommitOnMain, EditSource, Switch, RemoveWorktree, SomebodyPushes, EditPlan
    <2>2. Grows(origin, origin')
        <3>1. \/ origin' = origin \/ origin = None
              \/ origin' = [origin EXCEPT !.own = @ \cup {"other"}]
            BY <1>4 DEF git, Outside, CommitOnMain, EditSource, Switch, RemoveWorktree, SomebodyPushes, EditPlan
        <3>2. CASE origin # None /\ origin' = [origin EXCEPT !.own = @ \cup {"other"}]
            <4>1. origin \in Histories
                BY <3>2 DEF Types, GitTypes
            <4>2. origin' \in Histories /\ origin.own \subseteq origin'.own
                BY <3>2, <4>1 DEF Histories
            <4> QED BY <4>2, WorkspaceAssumption DEF Grows
        <3> QED BY <3>1, <3>2 DEF Grows
    <2> QED BY <1>1, <2>1, <2>2 DEF Grows
<1>5. CASE UNCHANGED vars
    BY <1>5 DEF vars, git, history, CommitsKept
<1> QED BY <1>2, <1>3, <1>4, <1>5 DEF Next

\* While --update-pr has the branch checked out, no runner moves it or takes it.
LEMMA PulledAlone ==
    ASSUME IInv, NEW p \in Runner, RunStep(p), at[Pr] = "run"
    PROVE  UNCHANGED <<at, branch>> /\ ~ Commit(p)
<1> USE DEF IInv
<1>1. Pr \in Place /\ Pr \notin Source \cup StateDir /\ branch # None /\ ~ Free
    BY WorkspaceAssumption DEF Place, OneCheckout, Free
<1>2. ~ Commit(p)
    BY <1>1, CommitIs DEF OneCheckout
<1>3. ASSUME NEW place \in Source \cup StateDir, at[place] = "run" PROVE FALSE
    BY <1>1, <1>3 DEF OneCheckout, Place
<1> QED BY <1>1, <1>2, <1>3, RunMoves

\* What --update-pr is about to put the branch at has all that was accepted.
LEMMA PulledStep ==
    ASSUME IInv, [Next]_vars
    PROVE  Pulled'
<1> USE DEF IInv
<1>1. ASSUME NEW h, HasAccepted(h), UNCHANGED disk, late \subseteq late'
      PROVE  h # None /\ \A s \in StateDir \ late' : disk'[s].last # None => disk'[s].last.own \subseteq h.own
    BY <1>1 DEF HasAccepted
<1>2. ASSUME NEW p \in Runner, RunStep(p) PROVE Pulled'
    <2>1. /\ Grows(branch, branch') /\ Grows(origin, origin') /\ UNCHANGED update /\ touched \subseteq touched'
          /\ touched' \subseteq StateDir /\ late \subseteq late'
        BY <1>2, RunGrows, RunLate, TypesStep DEF Next, Types, HistoryTypes
    <2>2. CASE update.pc = "checkout"
        <3>1. HasAccepted(update.remote) /\ (branch # None => branch.own \subseteq update.remote.own \cup (late \cap StateDir))
            BY <2>2 DEF Pulled
        <3>2. Commit(p) => late' = late \cup {run[p].dir} /\ run[p].dir \in StateDir
            BY <1>2, <2>2, RunLate, CommitIs
        <3>3. ASSUME NEW s \in StateDir \ late', disk'[s].last # None
              PROVE  disk'[s].last.own \subseteq update.remote.own
            <4>1. CASE disk'[s].last = disk[s].last
                BY <2>1, <3>1, <3>3, <4>1 DEF HasAccepted
            <4>2. CASE Legacy(s) /\ disk'[s].last = branch /\ branch # None
                BY <3>1, <4>2 DEF LegacyAlone
            <4>3. CASE s = run[p].dir /\ Commit(p)
                BY <3>2, <3>3, <4>3
            <4> QED BY <1>2, <3>3, <4>1, <4>2, <4>3, Accepts
        <3>4. branch' # None => branch'.own \subseteq update.remote.own \cup (late' \cap StateDir)
            <4>1. CASE branch # None /\ branch' = branch
                BY <2>1, <3>1, <4>1
            <4>2. CASE branch = None /\ branch'.own = {}
                BY <4>2
            <4>3. CASE Commit(p)
                BY <3>1, <3>2, <4>3, CommitIs, WorkspaceAssumption
            <4> QED BY <1>2, <4>1, <4>2, <4>3, RunMoves
        <3>5. HasAccepted(update.remote)'
            BY <2>1, <3>1, <3>3 DEF HasAccepted
        <3>6. update'.pc = "checkout" /\ update'.remote = update.remote /\ origin' # None
            BY <2>1, <2>2 DEF Pulled, Grows
        <3> QED BY <2>1, <2>2, <3>4, <3>5, <3>6 DEF Pulled
    <2>3. CASE update.pc \in {"merge", "push"}
        <3>1. HasAccepted(update.head) /\ branch # None /\ at[Pr] = "run" /\ origin # None /\ touched = StateDir
            BY <2>3 DEF Pulled
        <3>2. UNCHANGED <<at, branch>> /\ ~ Commit(p)
            BY <1>2, <3>1, PulledAlone
        <3>3. ASSUME NEW s \in StateDir \ late', disk'[s].last # None
              PROVE  disk'[s].last.own \subseteq update.head.own
            <4>1. run[p].src \in Source => at[run[p].src] # "run"
                BY <3>1, WorkspaceAssumption DEF OneCheckout, Place
            <4>2. disk'[s].last = disk[s].last
                BY <1>2, <3>1, <3>2, <4>1, Accepts
            <4> QED BY <2>1, <3>1, <3>3, <4>2 DEF HasAccepted
        <3>4. HasAccepted(update.head)'
            BY <2>1, <3>1, <3>3 DEF HasAccepted
        <3>5. origin' # None /\ touched' = StateDir
            BY <2>1, <3>1 DEF Grows
        <3> QED BY <2>1, <2>3, <3>1, <3>2, <3>4, <3>5 DEF Pulled
    <2>4. CASE update.pc \notin {"checkout", "merge", "push"}
        BY <2>1, <2>4 DEF Pulled, Grows
    <2> QED BY <2>2, <2>3, <2>4
<1>3. CASE UpdateStep
    <2>1. UNCHANGED <<disk, late>>
        BY <1>3 DEF UpdateStep, CheckPull, Checkout, Merge, PushMerge, Remove, UpdateDies, history
    <2>2. CASE CheckPull
        <3>1. /\ origin # None /\ (branch = None \/ Within(branch, origin)) /\ UNCHANGED <<branch, origin, touched>>
              /\ update' = [update EXCEPT !.pc = "checkout", !.remote = origin]
            BY <2>2 DEF CheckPull, git, history
        <3>2. update'.pc = "checkout" /\ update'.remote = origin
            BY <3>1 DEF Types, Updates
        <3>3. HasAccepted(origin)
            BY <3>1 DEF CommitsKept, HasAccepted, Within
        <3> QED BY <2>1, <3>1, <3>2, <3>3 DEF Pulled, HasAccepted, Within
    <2>3. CASE Checkout
        <3>1. CASE Update("off")
            <4>1. update'.pc = "off"
                BY <3>1 DEF Update, Types, Updates
            <4> QED BY <4>1 DEF Pulled
        <3>2. CASE /\ branch' = update.remote /\ at' = [at EXCEPT ![Pr] = "run"]
                   /\ update' = [update EXCEPT !.pc = "merge", !.head = update.remote]
                   /\ touched' = StateDir /\ UNCHANGED origin
            <4>1. update'.pc = "merge" /\ update'.head = update.remote /\ at'[Pr] = "run"
                BY <3>2 DEF Types, Updates, GitTypes, Place
            <4>2. HasAccepted(update.remote) /\ origin # None
                BY <2>3 DEF Checkout, Pulled
            <4> QED BY <2>1, <3>2, <4>1, <4>2 DEF Pulled, HasAccepted
        <3> QED BY <2>3, <3>1, <3>2 DEF Checkout
    <2>4. CASE Merge
        <3>1. /\ HasAccepted(update.head) /\ at[Pr] = "run" /\ origin # None /\ touched = StateDir
            BY <2>4 DEF Merge, Pulled
        <3>2. UNCHANGED <<origin, touched>> /\ branch' # None
            BY <2>4, MergeIs DEF Merge
        <3>3. (Update("push") /\ UNCHANGED at) \/ Update("remove")
            BY <2>4 DEF Merge
        <3>4. update'.head = update.head /\ ((update'.pc = "push" /\ UNCHANGED at) \/ update'.pc = "remove")
            BY <3>3 DEF Update, Types, Updates
        <3> QED BY <2>1, <3>1, <3>2, <3>4 DEF Pulled, HasAccepted
    <2>5. CASE PushMerge
        <3>1. update'.pc = "remove" /\ touched = StateDir /\ UNCHANGED touched
            BY <2>5 DEF PushMerge, Update, Types, Updates, Pulled
        <3>2. origin' # None
            BY <2>5 DEF PushMerge, Pulled
        <3> QED BY <3>1, <3>2 DEF Pulled
    <2>6. CASE Remove \/ UpdateDies
        BY <2>6 DEF Remove, UpdateDies, UpdateEnds, Pulled
    <2> QED BY <1>3, <2>2, <2>3, <2>4, <2>5, <2>6 DEF UpdateStep
<1>4. CASE Outside
    <2>1. UNCHANGED <<disk, branch, update>> /\ late \subseteq late' /\ (late \cap StateDir) \subseteq (late' \cap StateDir)
          /\ (touched' = touched \/ touched' = StateDir)
        BY <1>4, OthersSaveNothing, OthersLate
           DEF git, history, Outside, CommitOnMain, EditSource, Switch, RemoveWorktree, SomebodyPushes, EditPlan
    <2>2. origin # None => origin' # None
        <3>1. origin' = origin \/ origin' = [origin EXCEPT !.own = @ \cup {"other"}] \/ origin = None
            BY <1>4 DEF git, Outside, CommitOnMain, EditSource, Switch, RemoveWorktree, SomebodyPushes, EditPlan
        <3>2. ASSUME origin # None, origin' = [origin EXCEPT !.own = @ \cup {"other"}] PROVE origin' \in Histories
            BY <3>2 DEF Types, GitTypes, Histories
        <3> QED BY <3>1, <3>2, WorkspaceAssumption
    <2>3. update.pc \in {"merge", "push"} => at'[Pr] = at[Pr]
        <3>1. CASE UNCHANGED at
            BY <3>1
        <3>2. ASSUME NEW c \in Source, Switch(c) PROVE at'[Pr] = at[Pr]
            <4>1. \E v \in {"main", "run"} : at' = [at EXCEPT ![c] = v]
                BY <3>2 DEF Switch
            <4>2. Pr \in Place /\ c # Pr
                BY WorkspaceAssumption DEF Place
            <4> QED BY <4>1, <4>2 DEF Types, GitTypes
        <3>3. ASSUME NEW q \in StateDir \cup {Pr}, RemoveWorktree(q), update.pc # "off" PROVE at'[Pr] = at[Pr]
            BY <3>3, WorkspaceAssumption DEF RemoveWorktree, Types, GitTypes
        <3> QED BY <1>4, <3>1, <3>2, <3>3 DEF Outside, CommitOnMain, EditSource, SomebodyPushes, EditPlan, git
    <2> QED BY <2>1, <2>2, <2>3 DEF Pulled, HasAccepted, Types, HistoryTypes
<1>5. CASE UNCHANGED vars
    BY <1>5 DEF vars, git, history, Pulled, HasAccepted
<1> QED BY <1>2, <1>3, <1>4, <1>5 DEF Next

-----------------------------------------------------------------------------
(* Creations that were cut short.                                          *)

\* A step of a runner makes or removes uncommitted work in its own workspace.
LEMMA RunDirt ==
    ASSUME Types, Holding, Saved, Known, NEW p \in Runner, RunStep(p)
    PROVE  /\ UNCHANGED main
           /\ \/ UNCHANGED dirt
              \/ /\ Mine(p).ready /\ Mine(p).place \in Source \cup {run[p].dir} /\ run[p].dir \in StateDir
                 /\ Started(p) /\ \E v : dirt' = [dirt EXCEPT ![Mine(p).place] = v]
<1>1. CASE Setup(p) \/ Settle(p) \/ Build(p) \/ Commit(p)
    <2>1. /\ UNCHANGED main /\ run[p].pc \in {"tool", "settle", "work"}
          /\ UNCHANGED dirt \/ \E v : dirt' = [dirt EXCEPT ![Mine(p).place] = v]
        BY <1>1 DEF Setup, Settle, Build, Commit, git
    <2>2. Started(p) /\ Mine(p).ready /\ run[p].dir \in StateDir
        BY <2>1, MineIs DEF Started, Holding, Building, Known, Prepared, Inside
    <2>3. Mine(p).place # None
        BY <2>2, MineIs DEF Saved
    <2> QED BY <2>1, <2>2, <2>3, PlaceIs
<1>2. CASE ~ (Setup(p) \/ Settle(p) \/ Build(p) \/ Commit(p))
    BY <1>2 DEF RunStep, Start, TakeState, TakeRepository, Load, TakeBranch, Record, Create, CutShort, Finish,
           FinishInPlace, Resume, ResumeLegacy, Refuse, SkipSetup, Plan, Open, Number, Sync, Reread,
           Write, Push, End, Die, git
<1> QED BY <1>1, <1>2

\* Whatever else changes a place or the branch touches every creation.
LEMMA OthersTouch ==
    ASSUME IInv, UpdateStep \/ Outside \/ UNCHANGED vars
    PROVE  touched' = StateDir \/ UNCHANGED <<run, disk, at, dirt, main, branch, touched>>
<1> USE DEF IInv
<1>1. CASE Merge \/ PushMerge \/ Remove
    BY <1>1 DEF Merge, PushMerge, Remove, Pulled
<1>2. CASE UpdateDies
    BY <1>2 DEF UpdateDies, LeaveBehind, Pulled
<1>3. CASE CheckPull \/ Checkout
    BY <1>3 DEF CheckPull, Checkout, git, history
<1>4. CASE Outside
    BY <1>4 DEF Outside, CommitOnMain, EditSource, Switch, RemoveWorktree, SomebodyPushes, EditPlan, git, history
<1> QED BY <1>1, <1>2, <1>3, <1>4 DEF UpdateStep, vars, git, history

\* A creation that dies leaves one of the points it can be finished from.
LEMMA CutShortLeaves ==
    ASSUME IInv, NEW p \in Runner, CutShort(p), NEW s \in StateDir \ touched', s = run[p].dir
    PROVE  AsLeft(s)'
<1> USE DEF IInv
<1> DEFINE src == run[p].src
           place == Mine(p).place
<1>1. Started(p) /\ run[p].pc = "create" /\ branch = None /\ UNCHANGED <<disk, dirt, main>>
    BY DEF CutShort, Started
<1>2. s \in StateDir /\ src \in Source /\ Mine(p) = disk[s]
    BY <1>1, MineIs
<1>3. place # None /\ ~ disk[s].ready /\ disk[s].src = src /\ disk[s].init \in Nat
    BY <1>1, <1>2, WorkspaceAssumption DEF Known, Loaded, Inside, Saved
<1>4. touched \subseteq touched'
    BY RunLate DEF RunStep
<1>5. AsLeft(s)
    BY <1>2, <1>3, <1>4 DEF Untouched, Fresh
<1>6. dirt[src] = {} /\ main[src] = disk[s].init /\ (\A x \in StateDir \ {s} : ~ disk[x].ready)
      /\ (place = s => dirt[s] = {})
    BY <1>2, <1>3, <1>5 DEF AsLeft
<1>7. branch' = History(disk[s].init, {})
    BY <1>6 DEF CutShort
<1>8. PICK left \in (IF place = src THEN {"main", "run"} ELSE {None, "torn", "run"}) :
        /\ at' = [at EXCEPT ![place] = left]
        /\ touched' = touched \cup (IF left = "torn" THEN StateDir ELSE Others(p))
    BY DEF CutShort, Interfere
<1>9. left # "torn"
    BY <1>2, <1>8
<1>10. place \in Source \cup {s} /\ place \in Place /\ (place \in Source => place = src) /\ s \notin Source
    BY <1>2, <1>3, WorkspaceAssumption DEF Saved, Place
<1>11. \A q \in Place : at'[q] = IF q = place THEN left ELSE at[q]
    BY <1>8, <1>10 DEF Types, GitTypes
<1>12. \A q \in Place : at[q] # "run"
    BY <1>1 DEF OneCheckout
<1>13. CASE place = src
    <2>1. left \in {"main", "run"} /\ at'[src] = left
        BY <1>8, <1>10, <1>11, <1>13
    <2>2. left = "main" => \A q \in Place : at'[q] # "run"
        BY <1>11, <1>12
    <2>3. place # s
        BY <1>2, <1>10, <1>13
    <2> QED BY <1>1, <1>2, <1>3, <1>6, <1>13, <2>1, <2>2, <2>3 DEF AsLeft, Free
<1>14. CASE place = s
    <2>1. left \in {None, "run"} /\ at'[s] = left
        BY <1>2, <1>8, <1>9, <1>10, <1>11, <1>14
    <2>2. left = None => \A q \in Place : at'[q] # "run"
        BY <1>11, <1>12, WorkspaceAssumption
    <2> QED BY <1>1, <1>2, <1>3, <1>6, <1>7, <1>10, <1>14, <2>1, <2>2 DEF AsLeft, Free
<1> QED BY <1>10, <1>13, <1>14

\* A workspace that is recorded in an untouched place can be made there.
LEMMA RecordLeaves ==
    ASSUME IInv, NEW p \in Runner, RunStep(p), Started(p), git' = git,
           NEW s \in StateDir \ touched', s = run[p].dir,
           Mine(p).place = None, branch = None, dirt[run[p].src] = {},
           disk'[s].place \in {s, run[p].src}, disk'[s].src = run[p].src, disk'[s].init = main[run[p].src],
           \A x \in StateDir \ {s} : disk'[x] = disk[x]
    PROVE  AsLeft(s)'
<1> USE DEF IInv
<1> DEFINE src == run[p].src
<1>1. s \in StateDir /\ src \in Source /\ Mine(p) = disk[s] /\ s \notin Source /\ src # s
    BY MineIs, WorkspaceAssumption
<1>2. at[s] = None /\ dirt[s] = {}
    BY <1>1, RunLate DEF Untouched
<1>3. \A x \in StateDir \ {s} : ~ disk'[x].ready
    BY <1>1 DEF OneCheckout
<1>4. \A q \in Place : at[q] # "run"
    BY DEF OneCheckout
<1> QED BY <1>1, <1>2, <1>3, <1>4 DEF AsLeft, Free, git

\* A creation nobody comes near stays as it was left.
LEMMA StaysAsLeft ==
    ASSUME NEW s \in StateDir, AsLeft(s), UNCHANGED <<at, dirt, main, branch>>,
           disk'[s].place = disk[s].place, disk'[s].src = disk[s].src, disk'[s].init = disk[s].init,
           \A x \in StateDir \ {s} : ~ disk'[x].ready
    PROVE  AsLeft(s)'
BY DEF AsLeft, Free

\* A step of one runner, seen from the state of another.
LEMMA UntouchedByOthers ==
    ASSUME IInv, NEW p \in Runner, RunStep(p), NEW s \in StateDir \ touched', s # run[p].dir
    PROVE  /\ disk'[s].place = None => at'[s] = None /\ dirt'[s] = {}
           /\ Fresh(s)' => AsLeft(s)'
<1> USE DEF IInv
<1>1. s \notin touched /\ disk'[s] = disk[s] /\ s \in Place /\ s \notin Source /\ UNCHANGED main
    BY RunLate, RunDirt, StepSaves, WorkspaceAssumption DEF MyState, Place
<1>2. UNCHANGED at /\ (UNCHANGED branch \/ Commit(p))
    BY RunMoves
<1>3. disk'[s].place = None => at'[s] = None /\ dirt'[s] = {}
    <2>1. dirt'[s] = dirt[s]
        BY <1>1, RunDirt DEF Types, GitTypes
    <2> QED BY <1>1, <1>2, <2>1 DEF Untouched
<1>4. ASSUME Fresh(s)' PROVE AsLeft(s)'
    <2>1. Fresh(s) /\ AsLeft(s)
        BY <1>1, <1>4 DEF Fresh, Untouched
    <2>2. \A x \in StateDir \ {s} : ~ disk[x].ready
        BY <2>1 DEF AsLeft
    <2>3. Started(p) => run[p].dir \in StateDir \ {s} /\ Mine(p) = disk[run[p].dir]
        BY MineIs
    <2>4. ~ Commit(p) /\ UNCHANGED dirt
        BY <2>2, <2>3, CommitIs, RunDirt
    <2>5. ASSUME NEW x \in StateDir \ {s}, disk'[x].ready PROVE FALSE
        <3>1. x = run[p].dir /\ disk' # disk /\ Loaded(p) /\ Started(p)
            BY <2>2, <2>5, StepSaves DEF MyState, Loaded, Inside, Started
        <3>2. Mine(p) = disk[x] /\ ~ Mine(p).ready
            BY <2>2, <3>1, MineIs
        <3>3. CASE ResumeLegacy(p) /\ Mine(p).place = None /\ Mine(p).named
            BY <2>1, <3>2, <3>3, <3>1 DEF LegacyAlone, Legacy, Fresh
        <3>4. CASE Create(p) \/ Finish(p) \/ FinishInPlace(p)
            <4>1. ~ Refuse(p)
                BY <3>1 DEF Refuse
            <4>2. touched' = touched \cup Others(p)
                BY <3>4, <4>1 DEF Create, Finish, FinishInPlace, Interfere
            <4> QED BY <2>3, <3>1, <4>2 DEF Others
        <3> QED BY <2>5, <3>1, <3>2, <3>3, <3>4, Written
    <2> QED BY <1>1, <1>2, <2>1, <2>4, <2>5, StaysAsLeft
<1> QED BY <1>3, <1>4

\* A step of a runner, seen from its own state.
LEMMA UntouchedByMine ==
    ASSUME IInv, NEW p \in Runner, RunStep(p), Started(p), NEW s \in StateDir \ touched', s = run[p].dir
    PROVE  /\ disk'[s].place = None => at'[s] = None /\ dirt'[s] = {}
           /\ Fresh(s)' => AsLeft(s)'
<1> USE DEF IInv
<1>1. s \notin touched /\ Mine(p) = disk[s] /\ run[p].src \in Source /\ UNCHANGED main /\ s # None /\ run[p].src # None
    BY RunLate, MineIs, RunDirt, WorkspaceAssumption
<1>2. ASSUME disk'[s].place = None PROVE at'[s] = None /\ dirt'[s] = {}
    <2>1. disk[s].place = None
        <3>1. CASE disk' = disk
            BY <1>2, <3>1
        <3>2. CASE disk' # disk
            BY <1>1, <1>2, <3>2, Written DEF Keeps
        <3> QED BY <3>1, <3>2
    <2>2. ~ disk[s].ready /\ ~ Fresh(s)
        BY <2>1 DEF Saved, Fresh
    <2>3. UNCHANGED <<at, dirt>>
        BY <1>1, <2>2, RunMoves, RunDirt
    <2> QED BY <1>1, <2>1, <2>3 DEF Untouched
<1>3. ASSUME Fresh(s)' PROVE AsLeft(s)'
    <2>1. CASE CutShort(p)
        BY <2>1, CutShortLeaves
    <2>2. CASE disk[s].place = None
        <3>1. disk' # disk
            BY <1>3, <2>2 DEF Fresh
        <3>2. \A x \in StateDir \ {s} : disk'[x] = disk[x]
            BY <3>1, StepSaves DEF MyState
        <3>3. /\ git' = git /\ branch = None /\ dirt[run[p].src] = {} /\ disk'[s].place \in {s, run[p].src}
              /\ disk'[s].src = run[p].src /\ disk'[s].init = main[run[p].src]
            BY <1>1, <1>3, <2>2, <3>1, Written DEF Fresh, Keeps
        <3> QED BY <1>1, <2>2, <3>2, <3>3, RecordLeaves
    <2>3. CASE disk[s].place # None /\ ~ CutShort(p)
        <3>1. /\ disk'[s].place = disk[s].place /\ disk'[s].init = disk[s].init /\ ~ disk[s].ready
              /\ (disk' = disk \/ disk'[s].src = run[p].src)
              /\ disk' = disk \/ Plan(p) \/ Number(p) \/ Commit(p)
            BY <1>1, <1>3, <2>3, Written DEF Fresh, Keeps
        <3>2. disk'[s].src = disk[s].src
            BY <1>1, <2>3, <3>1, StepSaves, WorkspaceAssumption DEF Known, MyState, Saved
        <3>3. AsLeft(s) /\ ~ Commit(p) /\ UNCHANGED dirt
            BY <1>1, <2>3, <3>1, CommitIs, RunDirt DEF Untouched, Fresh
        <3>4. UNCHANGED <<at, branch>>
            <4>1. CASE disk' # disk
                BY <3>1, <3>3, <4>1 DEF Plan, Number, git
            <4>2. CASE disk' = disk
                <5>1. ~ (Create(p) \/ Finish(p) \/ FinishInPlace(p)) \/ Refuse(p)
                    <6>1. ASSUME (Create(p) \/ Finish(p) \/ FinishInPlace(p)) /\ ~ Refuse(p) PROVE disk'[s].ready
                        <7>1. SaveState(p, [Mine(p) EXCEPT !.ready = TRUE])
                            BY <6>1 DEF Create, Finish, FinishInPlace
                        <7> QED BY <1>1, <7>1, MineIs DEF SaveState, States, Types
                    <6> QED BY <1>3, <6>1 DEF Fresh
                <5> QED BY <2>3, <3>3, <5>1 DEF RunStep, Start, TakeState, TakeRepository, Load, TakeBranch, Record,
                           Refuse, Resume, ResumeLegacy, SkipSetup, Setup, Settle, Plan, Open, Number, Sync, Reread,
                           Write, Build, Push, End, Die, git
            <4> QED BY <4>1, <4>2
        <3>5. \A x \in StateDir \ {s} : ~ disk'[x].ready
            BY <3>3, StepSaves DEF AsLeft, MyState
        <3> QED BY <1>1, <3>1, <3>2, <3>3, <3>4, <3>5, StaysAsLeft
    <2> QED BY <2>1, <2>2, <2>3
<1> QED BY <1>2, <1>3

\* What nobody touched stays as its creation left it.
LEMMA UntouchedStep ==
    ASSUME IInv, [Next]_vars
    PROVE  Untouched'
<1> USE DEF IInv
<1>1. CASE touched' = StateDir
    <2>1. Holding'
        BY HoldingStep
    <2> QED BY <1>1, <2>1 DEF Untouched, Holding, Started
<1>2. CASE UNCHANGED <<run, disk, at, dirt, main, branch, touched>>
    BY <1>2 DEF Untouched, Fresh, AsLeft, Free
<1>3. ASSUME NEW p \in Runner, RunStep(p) PROVE Untouched'
    <2>1. ASSUME NEW s \in StateDir \ touched'
          PROVE  /\ disk'[s].place = None => at'[s] = None /\ dirt'[s] = {}
                 /\ Fresh(s)' => AsLeft(s)'
        <3>1. CASE s # run[p].dir
            BY <1>3, <3>1, UntouchedByOthers
        <3>2. CASE s = run[p].dir /\ Started(p)
            BY <1>3, <3>2, UntouchedByMine
        <3>3. CASE ~ Started(p)
            <4>1. UNCHANGED <<disk, at, dirt, main, branch, touched>>
                BY <1>3, <3>3 DEF Started, RunStep, Start, TakeState, TakeRepository, Load, TakeBranch, Record, Create,
                       CutShort, Finish, FinishInPlace, Resume, ResumeLegacy, Refuse, SkipSetup, Setup, Settle, Plan,
                       Open, Number, Sync, Reread, Write, Build, Commit, Push, End, Die, git, history
            <4> QED BY <4>1 DEF Untouched, Fresh, AsLeft, Free
        <3> QED BY <3>1, <3>2, <3>3
    <2>2. ASSUME NEW r \in Runner, run'[r].pc = "create", run'[r].dir \notin touched' PROVE branch' = None
        <3>1. CASE r # p
            <4>1. run'[r] = run[r] /\ run[r].dir \in StateDir
                BY <1>3, <2>2, <3>1, StepMine DEF OnlyMine, Holding, Started
            <4>2. branch = None
                BY <1>3, <2>2, <4>1, RunLate DEF Untouched
            <4>3. run[p].dir # run[r].dir \/ ~ Started(p) \/ run[p].pc = "state"
                BY <2>2, <3>1, <4>1, OwnState DEF Started
            <4>4. ~ Commit(p)
                BY <4>2, CommitIs, WorkspaceAssumption
            <4>5. CASE run[p].dir # run[r].dir
                BY <1>3, <2>2, <4>1, <4>2, <4>4, <4>5, RunMoves
            <4>6. CASE run[p].pc \in {"off", "state"}
                <5>1. UNCHANGED branch
                    BY <1>3, <4>4, <4>6 DEF RunStep, Start, TakeState, TakeRepository, Load, TakeBranch, Record, Create,
                           CutShort, Finish, FinishInPlace, Resume, ResumeLegacy, Refuse, SkipSetup, Setup, Settle, Plan,
                           Open, Number, Sync, Reread, Write, Build, Push, End, Die, git
                <5> QED BY <4>2, <5>1
            <4> QED BY <4>3, <4>5, <4>6 DEF Started
        <3>2. CASE r = p
            <4>1. Record(p) /\ ~ Refuse(p)
                BY <1>3, <2>2, <3>2, Goes DEF Off, Refuse, Leave, Types
            <4> QED BY <4>1 DEF Record, git
        <3> QED BY <3>1, <3>2
    <2> QED BY <2>1, <2>2 DEF Untouched
<1> QED BY <1>1, <1>2, <1>3, OthersTouch DEF Next

\* Nor is it refused.
LEMMA InterruptedStep ==
    ASSUME IInv, [Next]_vars
    PROVE  InterruptedIsFinished'
<1> USE DEF IInv, InterruptedIsFinished
<1>1. ASSUME NEW p \in Runner, RunStep(p) PROVE refused' \subseteq touched'
    <2> DEFINE src == run[p].src
               place == Mine(p).place
    <2>1. touched \subseteq touched'
        BY <1>1, RunLate
    <2>2. CASE refused' = refused
        BY <2>1, <2>2
    <2>3. CASE refused' # refused
        <3>1. Refuse(p) /\ (Create(p) \/ Finish(p) \/ FinishInPlace(p)) /\ place # None /\ ~ Mine(p).ready
            BY <1>1, <2>3 DEF RunStep, Start, TakeState, TakeRepository, Load, TakeBranch, Record, Create, CutShort,
               Finish, FinishInPlace, Resume, ResumeLegacy, Refuse, SkipSetup, Setup, Settle, Plan, Open, Number, Sync,
               Reread, Write, Build, Commit, Push, End, Die, history
        <3>2. Started(p) /\ run[p].pc \in {"prepare", "create"}
            BY <3>1 DEF Create, Finish, FinishInPlace, Started
        <3>3. /\ run[p].dir \in StateDir /\ src \in Source /\ Mine(p) = disk[run[p].dir] /\ src # None
              /\ run[p].dir \notin Source /\ run[p].dir # None
            BY <3>2, MineIs, WorkspaceAssumption
        <3>4. /\ Mine(p).src = src /\ place \in Source \cup {run[p].dir} /\ (place \in Source => place = src)
            BY <3>1, <3>2, <3>3, WorkspaceAssumption DEF Saved, Known, Loaded, Inside
        <3>5. refused' = refused \cup {run[p].dir}
            BY <3>1 DEF Refuse
        <3>6. ASSUME run[p].dir \notin touched PROVE FALSE
            <4>1. AsLeft(run[p].dir)
                BY <3>1, <3>3, <3>6 DEF Untouched, Fresh
            <4>2. /\ Clean(src) /\ main[src] = Mine(p).init
                  /\ place \in Source => at[src] = "run" \/ Free
                  /\ place = run[p].dir =>
                        /\ dirt[place] = {}
                        /\ \/ at[place] = None /\ branch = None
                           \/ at[place] = None /\ branch = History(Mine(p).init, {}) /\ Free
                           \/ at[place] = "run" /\ branch = History(Mine(p).init, {})
                BY <3>3, <3>4, <4>1 DEF AsLeft, Clean
            <4>3. CASE Create(p)
                <5>1. branch = None
                    BY <3>6, <4>3 DEF Create, Untouched
                <5>2. History(Mine(p).init, {}) # None
                    BY <3>1, <3>3, WorkspaceAssumption DEF Saved, History, Histories
                <5>3. place = src \/ at[place] = None
                    BY <3>4, <4>2, <5>1, <5>2
                <5>4. refused' = refused
                    BY <4>2, <4>3, <5>1, <5>3 DEF Create
                <5> QED BY <2>3, <5>4
            <4>4. CASE Finish(p)
                <5>1. place = run[p].dir
                    BY <3>4, <4>4, WorkspaceAssumption DEF Finish
                <5>2. refused' = refused
                    BY <4>2, <4>4, <5>1 DEF Finish, Clean
                <5> QED BY <2>3, <5>2
            <4>5. CASE FinishInPlace(p)
                <5>1. refused' = refused
                    BY <4>2, <4>5 DEF FinishInPlace
                <5> QED BY <2>3, <5>1
            <4> QED BY <3>1, <4>3, <4>4, <4>5
        <3> QED BY <2>1, <3>5, <3>6
    <2> QED BY <2>2, <2>3
<1>2. CASE UpdateStep \/ Outside \/ UNCHANGED vars
    <2>1. refused' = refused
        BY <1>2 DEF UpdateStep, CheckPull, Checkout, Merge, PushMerge, Remove, UpdateDies, history,
           Outside, CommitOnMain, EditSource, Switch, RemoveWorktree, SomebodyPushes, EditPlan, vars
    <2> QED BY <1>2, <2>1, OthersTouch DEF Types, HistoryTypes
<1> QED BY <1>1, <1>2 DEF Next

-----------------------------------------------------------------------------
(* Provisioning.                                                           *)

\* What provisioning writes is undone, or the user was told of it.
LEMMA SetupsKnownStep ==
    ASSUME IInv, [Next]_vars
    PROVE  SetupsKnown'
<1> USE DEF IInv, Setups
<1> DEFINE Bad == {"setup", "mixed"}
<1>1. ASSUME UNCHANGED <<run, warned>>, \A q \in Source \cup StateDir : dirt'[q] = dirt[q] \/ dirt'[q] \cap Bad = {}
      PROVE  SetupsKnown'
    BY <1>1 DEF SetupsKnown
<1>2. ASSUME NEW p \in Runner, RunStep(p) PROVE SetupsKnown'
    <2> DEFINE place == Mine(p).place  dir == run[p].dir
    <2>1. \A r \in Runner \ {p} : run'[r] = run[r]
        BY <1>2, StepMine DEF OnlyMine
    <2>2. CASE Setup(p)
        <3>1. Started(p) /\ run[p].pc = "tool"
            BY <2>2 DEF Setup, Started
        <3>2. place = dir /\ dir \in StateDir /\ dir \notin Source /\ dir \in Place
            BY <2>2, <3>1, MineIs, WorkspaceAssumption DEF Setup, Saved, Place
        <3>3. PICK v : dirt' = [dirt EXCEPT ![place] = v]
            BY <2>2 DEF Setup
        <3>4. \A q \in Source \cup StateDir : q # dir => dirt'[q] = dirt[q]
            BY <3>2, <3>3 DEF Types, GitTypes, Place
        <3>5. run'[p].pc = "settle" /\ run'[p].dir = dir /\ run'[p].before = dirt[place] /\ UNCHANGED warned
            BY <2>2 DEF Setup, Types, Runs, history
        <3>6. dir \notin warned => dirt[place] \cap Bad = {}
            <4>1. ASSUME NEW r \in Runner, run[r].pc = "settle", run[r].dir = dir PROVE FALSE
                BY <3>1, <4>1, OwnState
            <4> QED BY <3>2, <4>1 DEF SetupsKnown
        <3>7. \A c \in Source : dirt'[c] \cap Bad = {}
            BY <3>2, <3>4 DEF SetupsKnown
        <3>8. ASSUME NEW s \in StateDir \ warned'
              PROVE  dirt'[s] \cap Bad = {} \/ \E r \in Runner : run'[r].pc = "settle" /\ run'[r].dir = s
            <4>1. CASE s = dir
                BY <3>5, <4>1
            <4>2. CASE s # dir
                <5>1. dirt[s] \cap Bad = {} \/ \E r \in Runner \ {p} : run[r].pc = "settle" /\ run[r].dir = s
                    BY <3>1, <3>5, <3>8 DEF SetupsKnown
                <5> QED BY <2>1, <3>4, <4>2, <5>1
            <4> QED BY <4>1, <4>2
        <3>9. ASSUME NEW r \in Runner, run'[r].pc = "settle", run'[r].dir \notin warned'
              PROVE  run'[r].before \cap Bad = {}
            BY <2>1, <3>5, <3>6, <3>9 DEF SetupsKnown
        <3> QED BY <3>7, <3>8, <3>9 DEF SetupsKnown
    <2>3. CASE Settle(p)
        <3>1. Started(p) /\ run[p].pc = "settle"
            BY <2>3 DEF Settle, Started
        <3>2. place = dir /\ dir \in StateDir /\ dir \notin Source /\ dir \in Place
            BY <3>1, MineIs, WorkspaceAssumption DEF Known, Place
        <3>3. \A q \in Source \cup StateDir : q # dir => dirt'[q] = dirt[q]
            <4>1. UNCHANGED dirt \/ dirt' = [dirt EXCEPT ![place] = @ \ ({"setup"} \ run[p].before)]
                BY <2>3 DEF Settle, git
            <4> QED BY <3>2, <4>1 DEF Types, GitTypes, Place
        <3>4. warned \subseteq warned' /\ (dir \in warned' \/ dirt'[dir] \cap Bad = {})
            <4>1. CASE dir \in warned
                BY <2>3, <4>1 DEF Settle, history
            <4>2. CASE dir \notin warned /\ dirt[place] = run[p].before /\ UNCHANGED <<dirt, warned>>
                BY <3>1, <3>2, <4>2 DEF SetupsKnown
            <4>3. CASE /\ dir \notin warned /\ dirt' = [dirt EXCEPT ![place] = @ \ ({"setup"} \ run[p].before)]
                       /\ warned' = IF "mixed" \in dirt[place] THEN warned \cup {place} ELSE warned
                <5>1. dirt'[dir] = dirt[dir] \ ({"setup"} \ run[p].before)
                    BY <3>2, <4>3 DEF Types, GitTypes
                <5>2. "setup" \notin run[p].before
                    BY <3>1, <4>3 DEF SetupsKnown
                <5> QED BY <3>2, <4>3, <5>1, <5>2
            <4> QED BY <2>3, <4>1, <4>2, <4>3 DEF Settle, git, history
        <3>5. run'[p].pc # "settle"
            BY <2>3 DEF Settle, Leave, Off, Types, Runs
        <3>6. \A c \in Source : dirt'[c] \cap Bad = {}
            BY <3>2, <3>3 DEF SetupsKnown
        <3>7. ASSUME NEW s \in StateDir \ warned'
              PROVE  dirt'[s] \cap Bad = {} \/ \E r \in Runner : run'[r].pc = "settle" /\ run'[r].dir = s
            <4>1. CASE s = dir
                BY <3>4, <3>7, <4>1
            <4>2. CASE s # dir
                <5>1. dirt[s] \cap Bad = {} \/ \E r \in Runner \ {p} : run[r].pc = "settle" /\ run[r].dir = s
                    BY <3>4, <3>7, <4>2 DEF SetupsKnown
                <5> QED BY <2>1, <3>3, <4>2, <5>1
            <4> QED BY <4>1, <4>2
        <3>8. ASSUME NEW r \in Runner, run'[r].pc = "settle", run'[r].dir \notin warned'
              PROVE  run'[r].before \cap Bad = {}
            BY <2>1, <3>4, <3>5, <3>8 DEF SetupsKnown
        <3> QED BY <3>6, <3>7, <3>8 DEF SetupsKnown
    <2>4. CASE Die(p)
        <3>1. /\ warned' = (IF run[p].pc = "settle" THEN warned \cup {dir} ELSE warned) /\ UNCHANGED dirt
              /\ run'[p].pc = "off"
            BY <2>4 DEF Die, Leave, Off, Types, git
        <3>2. ASSUME NEW s \in StateDir \ warned'
              PROVE  dirt'[s] \cap Bad = {} \/ \E r \in Runner : run'[r].pc = "settle" /\ run'[r].dir = s
            <4>1. dirt[s] \cap Bad = {} \/ \E r \in Runner \ {p} : run[r].pc = "settle" /\ run[r].dir = s
                BY <3>1, <3>2 DEF SetupsKnown
            <4> QED BY <2>1, <3>1, <4>1
        <3>3. ASSUME NEW r \in Runner, run'[r].pc = "settle", run'[r].dir \notin warned'
              PROVE  run'[r].before \cap Bad = {}
            BY <2>1, <3>1, <3>3 DEF SetupsKnown
        <3> QED BY <3>1, <3>2, <3>3 DEF SetupsKnown
    <2>5. CASE ~ (Setup(p) \/ Settle(p) \/ Die(p))
        <3>1. UNCHANGED warned /\ run[p].pc # "settle"
            BY <1>2, <2>5 DEF RunStep, Start, TakeState, TakeRepository, Load, TakeBranch, Record, Create, CutShort,
               Finish, FinishInPlace, Resume, ResumeLegacy, Refuse, SkipSetup, Plan, Open, Number, Sync,
               Reread, Write, Build, Commit, Push, End, history
        <3>2. run'[p].pc # "settle"
            <4>1. CASE run'[p] = Off
                BY <4>1 DEF Off
            <4>2. CASE run'[p] # Off
                BY <1>2, <2>5, <3>1, <4>2, Goes
            <4> QED BY <4>1, <4>2
        <3>3. \A q \in Source \cup StateDir : dirt'[q] \cap Bad \subseteq dirt[q]
            <4>1. CASE UNCHANGED dirt
                BY <4>1
            <4>2. CASE Build(p) \/ Commit(p)
                <5>1. dirt' = [dirt EXCEPT ![place] = @ \cup {"ticket"}] \/ dirt' = [dirt EXCEPT ![place] = {}]
                    BY <4>2 DEF Build, Commit
                <5> QED BY <5>1 DEF Types, GitTypes, Place
            <4>3. CASE ~ (Build(p) \/ Commit(p))
                <5>1. UNCHANGED dirt
                    BY <1>2, <2>5, <4>3 DEF RunStep, Start, TakeState, TakeRepository, Load, TakeBranch, Record, Create,
                       CutShort, Finish, FinishInPlace, Resume, ResumeLegacy, Refuse, SkipSetup, Plan, Open, Number,
                       Sync, Reread, Write, Push, End, git
                <5> QED BY <5>1
            <4> QED BY <4>1, <4>2, <4>3
        <3>4. ASSUME NEW s \in StateDir \ warned'
              PROVE  dirt'[s] \cap Bad = {} \/ \E r \in Runner : run'[r].pc = "settle" /\ run'[r].dir = s
            <4>1. dirt[s] \cap Bad = {} \/ \E r \in Runner \ {p} : run[r].pc = "settle" /\ run[r].dir = s
                BY <3>1, <3>4 DEF SetupsKnown
            <4> QED BY <2>1, <3>3, <4>1
        <3>5. ASSUME NEW r \in Runner, run'[r].pc = "settle", run'[r].dir \notin warned'
              PROVE  run'[r].before \cap Bad = {}
            BY <2>1, <3>1, <3>2, <3>5 DEF SetupsKnown
        <3>6. \A c \in Source : dirt'[c] \cap Bad = {}
            BY <3>3 DEF SetupsKnown
        <3> QED BY <3>4, <3>5, <3>6 DEF SetupsKnown
    <2> QED BY <2>2, <2>3, <2>4, <2>5
<1>3. CASE UpdateStep
    <2>1. UNCHANGED <<run, warned>> /\ (UNCHANGED dirt \/ dirt' = [dirt EXCEPT ![Pr] = {"update"}])
        BY <1>3, UpdateDirt DEF UpdateStep, CheckPull, Checkout, Merge, PushMerge, Remove, UpdateDies, history
    <2> QED BY <1>1, <2>1, WorkspaceAssumption DEF Types, GitTypes, Place
<1>4. CASE Outside
    <2>1. UNCHANGED <<run, warned>>
        BY <1>4 DEF Outside, CommitOnMain, EditSource, Switch, RemoveWorktree, SomebodyPushes, EditPlan, history
    <2>2. ASSUME NEW c \in Source, EditSource(c)
          PROVE  \A q \in Source \cup StateDir : dirt'[q] = dirt[q] \/ dirt'[q] \cap Bad = {}
        <3>1. dirt' = [dirt EXCEPT ![c] = {"user"}] \/ dirt' = [dirt EXCEPT ![c] = {}]
            BY <2>2 DEF EditSource
        <3> QED BY <3>1 DEF Types, GitTypes, Place
    <2>3. ASSUME NEW x \in StateDir \cup {Pr}, RemoveWorktree(x)
          PROVE  \A q \in Source \cup StateDir : dirt'[q] = dirt[q] \/ dirt'[q] \cap Bad = {}
        BY <2>3 DEF RemoveWorktree, Types, GitTypes, Place
    <2>4. UNCHANGED dirt \/ (\E c \in Source : EditSource(c)) \/ \E x \in StateDir \cup {Pr} : RemoveWorktree(x)
        BY <1>4 DEF Outside, CommitOnMain, Switch, SomebodyPushes, EditPlan, git
    <2> QED BY <1>1, <2>1, <2>2, <2>3, <2>4
<1>5. CASE UNCHANGED vars
    BY <1>1, <1>5 DEF vars, git, history
<1> QED BY <1>2, <1>3, <1>4, <1>5 DEF Next

\* So the agents of a ticket start without it.
LEMMA SetupsKnownStart ==
    ASSUME IInv
    PROVE  AgentsStartClean
<1> USE DEF IInv, Setups
<1> SUFFICES ASSUME NEW p \in Runner, run[p].pc = "work", run[p].dir \notin warned
             PROVE  dirt[Mine(p).place] \cap {"setup", "mixed"} = {}
    BY DEF AgentsStartClean
<1>1. Started(p) /\ run[p].dir \in StateDir
    BY DEF Started, Holding
<1>2. Mine(p).place \in Source \cup {run[p].dir}
    BY <1>1, MineIs, PlaceIs DEF Holding, Building, Known, Prepared, Inside, Saved
<1>3. ASSUME NEW r \in Runner, run[r].pc = "settle", run[r].dir = run[p].dir PROVE FALSE
    BY <1>3, OwnState
<1> QED BY <1>1, <1>2, <1>3 DEF SetupsKnown

-----------------------------------------------------------------------------
(* The tracker.                                                            *)

\* A sub-issue whose number is not saved yet has one runner that will.
Creating(s) == {p \in Runner : run[p].pc = "created" /\ run[p].dir = s}

\* There is one such runner at most.
LEMMA CreatingIs ==
    ASSUME Types, Holding, NEW s
    PROVE  /\ (\A p \in Runner : ~ (run[p].pc = "created" /\ run[p].dir = s)) => Cardinality(Creating(s)) = 0
           /\ \A p \in Runner : run[p].pc = "created" /\ run[p].dir = s => Cardinality(Creating(s)) = 1
<1>1. ASSUME \A p \in Runner : ~ (run[p].pc = "created" /\ run[p].dir = s) PROVE Cardinality(Creating(s)) = 0
    <2>1. Creating(s) = {}
        BY <1>1 DEF Creating
    <2> QED BY <2>1, FS_EmptySet
<1>2. ASSUME NEW p \in Runner, run[p].pc = "created", run[p].dir = s PROVE Cardinality(Creating(s)) = 1
    <2>1. \A r \in Runner \ {p} : ~ (run[r].pc = "created" /\ run[r].dir = s)
        BY <1>2, OwnState
    <2>2. Creating(s) = {p}
        BY <1>2, <2>1 DEF Creating
    <2> QED BY <2>2, FS_Singleton
<1> QED BY <1>1, <1>2

\* Sub-issues in the number of their own state, of a step that opens, saves or
\* loses none for it.
LEMMA SubIssuesStay ==
    ASSUME SubIssuesKnown, NEW s \in StateDir, tracker'.opened[s] = tracker.opened[s], lost'[s] = lost[s],
           disk'[s].sub = disk[s].sub, Creating(s)' = Creating(s)
    PROVE  tracker'.opened[s] = lost'[s] + (IF disk'[s].sub = 0 THEN 0 ELSE 1) + Cardinality(Creating(s)')
BY DEF SubIssuesKnown, Creating

\* Every sub-issue is numbered, about to be, or lost.
LEMMA SubIssuesStep ==
    ASSUME IInv, [Next]_vars
    PROVE  SubIssuesKnown'
<1> USE DEF IInv
<1>1. Types' /\ Holding'
    BY TypesStep, HoldingStep
<1>2. SUFFICES ASSUME NEW s \in StateDir
      PROVE  tracker'.opened[s] = lost'[s] + (IF disk'[s].sub = 0 THEN 0 ELSE 1) + Cardinality(Creating(s)')
    BY DEF SubIssuesKnown, Creating
<1>3. /\ tracker.opened[s] = lost[s] + (IF disk[s].sub = 0 THEN 0 ELSE 1) + Cardinality(Creating(s))
      /\ tracker.opened[s] \in Nat /\ lost[s] \in Nat /\ tracker \in Trackers
    BY DEF SubIssuesKnown, Creating, Types, Trackers, HistoryTypes
<1>4. CASE UpdateStep \/ Outside \/ UNCHANGED vars
    <2>1. UNCHANGED <<run, disk, lost>> /\ tracker'.opened = tracker.opened
        BY <1>3, <1>4 DEF UpdateStep, CheckPull, Checkout, Merge, PushMerge, Remove, UpdateDies, history, Trackers,
           Outside, CommitOnMain, EditSource, Switch, RemoveWorktree, SomebodyPushes, EditPlan, vars
    <2>2. Creating(s)' = Creating(s)
        BY <2>1 DEF Creating
    <2> QED BY <2>1, <2>2, SubIssuesStay
<1>5. ASSUME NEW p \in Runner, RunStep(p)
      PROVE  tracker'.opened[s] = lost'[s] + (IF disk'[s].sub = 0 THEN 0 ELSE 1) + Cardinality(Creating(s)')
    <2>1. \A r \in Runner \ {p} : run'[r] = run[r]
        BY <1>5, StepMine DEF OnlyMine
    <2>2. ASSUME run[p].pc # "created" \/ run[p].dir # s, run'[p].pc # "created" \/ run'[p].dir # s
          PROVE  Creating(s)' = Creating(s)
        BY <2>1, <2>2 DEF Creating
    <2>3. disk' # disk => disk'[s].sub = disk[s].sub \/ (Number(p) /\ s = run[p].dir)
        <3>1. CASE disk' # disk /\ s = run[p].dir
            <4>1. Mine(p) = disk[s]
                BY <3>1 DEF Mine
            <4> QED BY <1>5, <3>1, <4>1, Written
        <3> QED BY <1>5, <3>1, StepSaves DEF MyState
    <2>4. CASE Open(p)
        <3>1. Started(p) /\ run[p].pc = "mirror" /\ Mine(p).sub = 0 /\ UNCHANGED disk
            BY <2>4 DEF Open, Started
        <3>2. run[p].dir \in StateDir /\ Mine(p) = disk[run[p].dir]
            BY <3>1, MineIs
        <3>3. tracker'.opened = [tracker.opened EXCEPT ![run[p].dir] = @ + 1]
            BY <1>3, <2>4 DEF Open, Trackers
        <3>4. CASE s # run[p].dir
            <4>1. tracker'.opened[s] = tracker.opened[s] /\ lost'[s] = lost[s]
                BY <2>4, <3>3, <3>4, <1>3 DEF Open, Types, HistoryTypes, Trackers
            <4>2. run'[p].dir # s \/ run'[p].pc = "off"
                BY <2>4, <3>4 DEF Open, Goto, Leave, Off, Types, Runs
            <4> QED BY <2>2, <3>1, <3>4, <4>1, <4>2, SubIssuesStay
        <3>5. CASE s = run[p].dir
            <4>1. tracker'.opened[s] = tracker.opened[s] + 1
                BY <1>3, <3>3, <3>5 DEF Trackers
            <4>2. ASSUME NEW r \in Runner, run[r].pc = "created", run[r].dir = s PROVE FALSE
                BY <3>1, <3>5, <4>2, OwnState
            <4>3. Cardinality(Creating(s)) = 0
                BY <4>2, CreatingIs
            <4>4. CASE Goto(p, "created") /\ UNCHANGED lost
                <5>1. run'[p].pc = "created" /\ run'[p].dir = s
                    BY <3>5, <4>4 DEF Goto, Types, Runs
                <5>2. Cardinality(Creating(s)') = 1
                    <6>1. \A q \in Runner : run'[q].pc = "created" /\ run'[q].dir = s => q = p
                        BY <2>1, <4>2
                    <6>2. Creating(s)' = {p}
                        BY <5>1, <6>1 DEF Creating
                    <6> QED BY <6>2, FS_Singleton
                <5> QED BY <1>3, <3>1, <3>2, <3>5, <4>1, <4>3, <4>4, <5>2
            <4>5. CASE Leave(p) /\ lost' = [lost EXCEPT ![run[p].dir] = @ + 1]
                <5>1. lost'[s] = lost[s] + 1
                    BY <3>5, <4>5 DEF Types, HistoryTypes
                <5>2. run'[p].pc = "off"
                    BY <4>5 DEF Leave, Off, Types
                <5>3. Creating(s)' = {}
                    BY <2>1, <4>2, <5>2 DEF Creating
                <5> QED BY <1>3, <3>1, <3>2, <3>5, <4>1, <4>3, <5>1, <5>3, FS_EmptySet
            <4> QED BY <2>4, <4>4, <4>5 DEF Open
        <3> QED BY <3>4, <3>5
    <2>5. CASE Number(p)
        <3>1. Started(p) /\ run[p].pc = "created" /\ UNCHANGED <<tracker, lost>>
            BY <2>5 DEF Number, Started, history
        <3>2. run[p].dir \in StateDir /\ Mine(p) = disk[run[p].dir] /\ Mine(p) \in States
            BY <3>1, MineIs
        <3>3. run'[p].pc = "mirror"
            BY <2>5 DEF Number, Goto, Types, Runs
        <3>4. CASE s # run[p].dir
            BY <2>2, <2>3, <3>1, <3>3, <3>4, SubIssuesStay
        <3>5. CASE s = run[p].dir
            <4>1. disk[s].sub = 0 /\ Cardinality(Creating(s)) = 1
                BY <3>1, <3>2, <3>5, CreatingIs DEF Known
            <4>2. disk'[s].sub = tracker.opened[s]
                BY <2>5, <3>2, <3>5 DEF Number, SaveState, States, Types
            <4>3. ASSUME NEW r \in Runner, run'[r].pc = "created", run'[r].dir = s PROVE FALSE
                BY <2>1, <3>1, <3>3, <3>5, <4>3, OwnState
            <4>4. Creating(s)' = {}
                BY <4>3 DEF Creating
            <4> QED BY <1>3, <3>1, <4>1, <4>2, <4>4, FS_EmptySet
        <3> QED BY <3>4, <3>5
    <2>6. CASE Die(p)
        <3>1. Started(p) /\ UNCHANGED <<disk, tracker>> /\ run'[p].pc = "off"
            BY <2>6 DEF Die, Started, Leave, Off, Types
        <3>2. run[p].dir \in StateDir
            BY <3>1, MineIs
        <3>3. lost'[s] = IF run[p].pc = "created" /\ run[p].dir = s THEN lost[s] + 1 ELSE lost[s]
            BY <2>6, <3>2 DEF Die, Types, HistoryTypes
        <3>4. CASE run[p].pc = "created" /\ run[p].dir = s
            <4>1. Cardinality(Creating(s)) = 1
                BY <3>4, CreatingIs
            <4>2. ASSUME NEW r \in Runner, run'[r].pc = "created", run'[r].dir = s PROVE FALSE
                BY <2>1, <3>1, <3>4, <4>2, OwnState
            <4>3. Creating(s)' = {}
                BY <4>2 DEF Creating
            <4> QED BY <1>3, <3>1, <3>3, <3>4, <4>1, <4>3, FS_EmptySet
        <3>5. CASE ~ (run[p].pc = "created" /\ run[p].dir = s)
            BY <2>2, <3>1, <3>3, <3>5, SubIssuesStay
        <3> QED BY <3>4, <3>5
    <2>7. CASE ~ (Open(p) \/ Number(p) \/ Die(p))
        <3>1. UNCHANGED lost /\ run[p].pc # "created"
            BY <1>5, <2>7 DEF RunStep, Start, TakeState, TakeRepository, Load, TakeBranch, Record, Create, CutShort,
               Finish, FinishInPlace, Resume, ResumeLegacy, Refuse, SkipSetup, Setup, Settle, Plan, Sync,
               Reread, Write, Build, Commit, Push, End, history
        <3>2. UNCHANGED tracker \/ Write(p)
            BY <1>5, <2>7 DEF RunStep, Start, TakeState, TakeRepository, Load, TakeBranch, Record, Create, CutShort,
               Finish, FinishInPlace, Resume, ResumeLegacy, Refuse, SkipSetup, Setup, Settle, Plan, Sync,
               Reread, Build, Commit, Push, End
        <3>3. tracker'.opened[s] = tracker.opened[s]
            BY <1>3, <3>2 DEF Write, Trackers
        <3>4. run'[p].pc # "created"
            <4>1. CASE run'[p] = Off
                BY <4>1 DEF Off
            <4>2. CASE run'[p] # Off
                <5>1. CASE run[p].pc = "mirror" /\ (Plan(p) \/ Sync(p) \/ End(p))
                    BY <4>2, <5>1 DEF Plan, Sync, Synced, End, Leave, Types, Runs
                <5>2. CASE run[p].pc # "mirror"
                    BY <1>5, <3>1, <4>2, <5>2, Goes
                <5>3. run[p].pc = "mirror" => Plan(p) \/ Sync(p) \/ End(p)
                    BY <1>5, <2>7 DEF RunStep, Start, TakeState, TakeRepository, Load, TakeBranch, Record, Create,
                       CutShort, Finish, FinishInPlace, Resume, ResumeLegacy, SkipSetup, Setup, Settle,
                       Reread, Write, Build, Commit, Push
                <5> QED BY <5>1, <5>2, <5>3
            <4> QED BY <4>1, <4>2
        <3> QED BY <2>2, <2>3, <2>7, <3>1, <3>3, <3>4, SubIssuesStay
    <2> QED BY <2>4, <2>5, <2>6, <2>7
<1> QED BY <1>4, <1>5 DEF Next

\* A step of a runner rewrites nothing and reads nothing but for these.
LEMMA RunTracker ==
    ASSUME NEW p \in Runner, RunStep(p), ~ Open(p), ~ Write(p)
    PROVE  UNCHANGED tracker
<1>1. CASE Start(p) \/ TakeState(p) \/ TakeRepository(p) \/ Load(p) \/ TakeBranch(p)
    BY <1>1 DEF Start, TakeState, TakeRepository, Load, TakeBranch
<1>2. CASE \/ Record(p) \/ Create(p) \/ CutShort(p) \/ Finish(p) \/ FinishInPlace(p) \/ Resume(p) \/ ResumeLegacy(p)
    BY <1>2 DEF Record, Create, CutShort, Finish, FinishInPlace, Resume, ResumeLegacy, Refuse
<1>3. CASE SkipSetup(p) \/ Setup(p) \/ Settle(p) \/ Plan(p) \/ Number(p) \/ Sync(p) \/ Reread(p)
    BY <1>3 DEF SkipSetup, Setup, Settle, Refuse, Plan, Number, Sync, Reread
<1>4. CASE Build(p) \/ Commit(p) \/ Push(p) \/ End(p) \/ Die(p)
    BY <1>4 DEF Build, Commit, Push, End, Die
<1> QED BY <1>1, <1>2, <1>3, <1>4 DEF RunStep

\* A runner that is about to write the plan issue has just read it.
LEMMA RunReads ==
    ASSUME Types, NEW p \in Runner, RunStep(p), run'[p].pc \in {"reread", "write"}
    PROVE  \/ Sync(p) /\ run'[p].pc = "reread" /\ run'[p].seen = tracker.edits
           \/ Reread(p) /\ run'[p].pc = "write" /\ run'[p].seen = tracker.edits
           \/ UNCHANGED run
<1>1. CASE \/ Start(p) \/ TakeState(p) \/ TakeRepository(p) \/ Load(p) \/ TakeBranch(p)
    <2>1. CASE Start(p)
        <3>1. PICK src \in Source, dir \in StateDir, plan \in BOOLEAN, isolate \in BOOLEAN :
                run' = [run EXCEPT ![p] = [Off EXCEPT !.pc = "state", !.src = src, !.dir = dir,
                                                      !.plan = plan, !.isolate = isolate]]
            BY <2>1 DEF Start
        <3>2. run'[p].pc = "state"
            BY <3>1 DEF Off, Types
        <3> QED BY <3>2
    <2>2. CASE ~ Start(p)
        <3>1. Leave(p) \/ \E pc \in {"repo", "load", "mirror", "branch", "prepare"} : Goto(p, pc)
            BY <1>1, <2>2 DEF TakeState, TakeRepository, Load, TakeBranch, Take
        <3>2. run'[p].pc \in {"off", "repo", "load", "mirror", "branch", "prepare"}
            BY <3>1 DEF Goto, Leave, Off, Types, Runs
        <3> QED BY <3>2
    <2> QED BY <2>1, <2>2
<1>2. CASE \/ Record(p) \/ Create(p) \/ CutShort(p) \/ Finish(p) \/ FinishInPlace(p) \/ Resume(p) \/ ResumeLegacy(p)
    BY <1>2 DEF Record, Create, CutShort, Finish, FinishInPlace, Resume, ResumeLegacy, Refuse, Goto, Leave, Off,
                Types, Runs
<1>3. CASE SkipSetup(p) \/ Setup(p) \/ Settle(p) \/ Plan(p) \/ Open(p) \/ Number(p) \/ Write(p)
    BY <1>3 DEF SkipSetup, Setup, Settle, Plan, Open, Number, Write, Goto, Leave, Off, Types, Runs
<1>4. CASE Sync(p)
    <2>1. \/ Leave(p)
          \/ run' = [run EXCEPT ![p].pc = "work", ![p].seen = None, ![p].tries = 0]
          \/ run' = [run EXCEPT ![p].pc = "reread", ![p].seen = tracker.edits, ![p].tries = @ + 1]
        BY <1>4 DEF Sync, Synced
    <2> QED BY <1>4, <2>1 DEF Leave, Off, Types, Runs
<1>5. CASE Reread(p)
    BY <1>5 DEF Reread, Goto, Types, Runs
<1>6. CASE Build(p) \/ Commit(p) \/ Push(p) \/ End(p) \/ Die(p)
    BY <1>6 DEF Build, Commit, Push, End, Die, Goto, Leave, Off, Types, Runs
<1> QED BY <1>1, <1>2, <1>3, <1>4, <1>5, <1>6 DEF RunStep

\* What is written differs from what is there only by what came late.
LEMMA RewritingStep ==
    ASSUME IInv, [Next]_vars
    PROVE  Rewriting'
<1> USE DEF IInv
<1> DEFINE Kept(r, edits, l) ==
        /\ run[r].pc \in {"reread", "write"} => run[r].seen \subseteq Edit /\ run[r].seen \ edits \subseteq l
        /\ run[r].pc = "write" => edits \ run[r].seen \subseteq l
<1>1. ASSUME NEW p \in Runner, RunStep(p) PROVE Rewriting'
    <2>1. \A r \in Runner \ {p} : run'[r] = run[r]
        BY <1>1, StepMine DEF OnlyMine
    <2>2. late \subseteq late' /\ tracker.edits \subseteq Edit
        BY <1>1, RunLate DEF Types, Trackers
    <2>3. CASE Write(p)
        <3>1. run[p].pc = "write" /\ tracker'.edits = run[p].seen /\ late' = late /\ run'[p].pc = "mirror"
            BY <2>3 DEF Write, history, Goto, Types, Runs, Trackers
        <3>2. run[p].seen \ tracker.edits \subseteq late /\ tracker.edits \ run[p].seen \subseteq late
            BY <3>1 DEF Rewriting
        <3>3. ASSUME NEW r \in Runner \ {p} PROVE Kept(r, run[p].seen, late)
            BY <3>2 DEF Rewriting
        <3> QED BY <2>1, <3>1, <3>3 DEF Rewriting
    <2>4. CASE ~ Write(p)
        <3>1. tracker'.edits = tracker.edits
            <4>1. CASE Open(p)
                BY <4>1 DEF Open, Types, Trackers
            <4> QED BY <1>1, <2>4, <4>1, RunTracker
        <3>2. ASSUME NEW r \in Runner \ {p} PROVE Kept(r, tracker.edits, late')
            BY <2>2 DEF Rewriting
        <3>3. run'[p].pc \in {"reread", "write"} => run'[p].seen = tracker.edits \/ UNCHANGED run
            BY <1>1, RunReads
        <3>4. UNCHANGED run => Kept(p, tracker.edits, late')
            BY <2>2 DEF Rewriting
        <3> QED BY <2>1, <2>2, <3>1, <3>2, <3>3, <3>4 DEF Rewriting
    <2> QED BY <2>3, <2>4
<1>2. CASE UpdateStep \/ UNCHANGED vars
    <2>1. UNCHANGED <<run, late, tracker>>
        BY <1>2 DEF UpdateStep, CheckPull, Checkout, Merge, PushMerge, Remove, UpdateDies, history, vars
    <2> QED BY <2>1 DEF Rewriting
<1>3. CASE Outside
    <2>1. UNCHANGED run
        BY <1>3 DEF Outside, CommitOnMain, EditSource, Switch, RemoveWorktree, SomebodyPushes, EditPlan
    <2>2. ASSUME NEW e \in Edit, EditPlan(e) PROVE Rewriting'
        <3>1. tracker'.edits = tracker.edits \cup {e}
            BY <2>2 DEF EditPlan, Types, Trackers
        <3>2. late \subseteq late' /\ \A r \in Runner : run[r].pc = "write" => e \in late'
            BY <2>2 DEF EditPlan
        <3> QED BY <2>1, <3>1, <3>2 DEF Rewriting
    <2>3. (\E e \in Edit : EditPlan(e)) \/ UNCHANGED <<late, tracker>>
        BY <1>3 DEF Outside, CommitOnMain, EditSource, Switch, RemoveWorktree, SomebodyPushes, history
    <2> QED BY <2>1, <2>2, <2>3 DEF Rewriting
<1> QED BY <1>1, <1>2, <1>3 DEF Next

\* So an edit that goes away came late.
LEMMA EditsKeptStep ==
    ASSUME IInv, [Next]_vars
    PROVE  \A e \in tracker.edits \ tracker'.edits : e \in late
<1> USE DEF IInv
<1>1. ASSUME NEW p \in Runner, Write(p) PROVE tracker.edits \ tracker'.edits \subseteq late
    <2>1. run[p].pc = "write" /\ tracker'.edits = run[p].seen
        BY <1>1 DEF Write, Types, Trackers
    <2> QED BY <2>1 DEF Rewriting
<1>2. ASSUME NEW p \in Runner, RunStep(p), ~ Write(p) PROVE tracker'.edits = tracker.edits
    <2>1. CASE Open(p)
        BY <2>1 DEF Open, Types, Trackers
    <2> QED BY <1>2, <2>1, RunTracker
<1>3. CASE UpdateStep \/ UNCHANGED vars
    BY <1>3 DEF UpdateStep, CheckPull, Checkout, Merge, PushMerge, Remove, UpdateDies, vars
<1>4. CASE Outside
    <2>1. tracker.edits \subseteq tracker'.edits
        BY <1>4 DEF Outside, CommitOnMain, EditSource, Switch, RemoveWorktree, SomebodyPushes, EditPlan, Types, Trackers
    <2> QED BY <2>1
<1> QED BY <1>1, <1>2, <1>3, <1>4 DEF Next

-----------------------------------------------------------------------------
(* The worktree of --update-pr.                                            *)

\* No runner comes near it.
LEMMA RunKeepsPr ==
    ASSUME IInv, NEW p \in Runner, RunStep(p)
    PROVE  at'[Pr] = at[Pr] /\ dirt'[Pr] = dirt[Pr] /\ UNCHANGED <<update, stray>>
<1> USE DEF IInv
<1>1. dirt'[Pr] = dirt[Pr]
    <2>1. CASE \E q \in Source \cup StateDir : \E v : dirt' = [dirt EXCEPT ![q] = v]
        BY <2>1, WorkspaceAssumption DEF Types, GitTypes
    <2> QED BY <2>1, RunDirt
<1>2. at'[Pr] = at[Pr]
    <2>1. CASE \E q \in Source \cup StateDir, left \in {None, "torn", "main", "run"} : at' = [at EXCEPT ![q] = left]
        BY <2>1, WorkspaceAssumption DEF Types, GitTypes
    <2> QED BY <2>1, RunMoves
<1>3. UNCHANGED stray
    <2>1. CASE Start(p) \/ TakeState(p) \/ TakeRepository(p) \/ Load(p) \/ TakeBranch(p)
        BY <2>1 DEF Start, TakeState, TakeRepository, Load, TakeBranch, history
    <2>2. CASE \/ Record(p) \/ Create(p) \/ CutShort(p) \/ Finish(p) \/ FinishInPlace(p) \/ Resume(p)
               \/ ResumeLegacy(p)
        BY <2>2 DEF Record, Create, CutShort, Finish, FinishInPlace, Resume, ResumeLegacy, Refuse, history
    <2>3. CASE SkipSetup(p) \/ Setup(p) \/ Settle(p) \/ Plan(p) \/ Open(p) \/ Number(p) \/ Sync(p) \/ Reread(p)
        BY <2>3 DEF SkipSetup, Setup, Settle, Plan, Open, Number, Sync, Reread, history
    <2>4. CASE Write(p) \/ Build(p) \/ Commit(p) \/ Push(p) \/ End(p) \/ Die(p)
        BY <2>4 DEF Write, Build, Commit, Push, End, Die, history
    <2> QED BY <2>1, <2>2, <2>3, <2>4 DEF RunStep
<1> QED BY <1>1, <1>2, <1>3, RunLate

\* An update ends with its worktree gone, or as stray.
LEMMA UpdateCleanStep ==
    ASSUME IInv, [Next]_vars
    PROVE  UpdateClean'
<1> USE DEF IInv
<1>1. ASSUME NEW p \in Runner, RunStep(p) PROVE UpdateClean'
    BY <1>1, RunKeepsPr DEF UpdateClean
<1>2. Pr \in Place /\ update \in Updates
    BY DEF Place, Types
<1>3. CASE CheckPull \/ PushMerge \/ UpdateDies
    BY <1>2, <1>3 DEF CheckPull, PushMerge, UpdateDies, LeaveBehind, Update, UpdateClean, Updates, git, history
<1>4. CASE Checkout \/ Merge
    <2>1. /\ stray' \/ UNCHANGED <<dirt, stray>>
          /\ \/ update'.pc \in {"merge", "push", "remove"}
             \/ stray'
             \/ update.pc = "checkout" /\ UNCHANGED <<at, stray>>
        BY <1>2, <1>4 DEF Checkout, Merge, LeaveBehind, Update, Updates
    <2> QED BY <2>1 DEF UpdateClean
<1>5. CASE Remove
    <2>1. stray' \/ (UNCHANGED <<dirt, stray>> /\ (Clean(Pr) => at' = [at EXCEPT ![Pr] = None]))
        BY <1>5 DEF Remove
    <2> QED BY <1>2, <2>1 DEF Clean, UpdateClean, Types, GitTypes
<1>6. ASSUME NEW q \in StateDir \cup {Pr}, RemoveWorktree(q) PROVE UpdateClean'
    <2>1. at' = [at EXCEPT ![q] = None] /\ dirt' = [dirt EXCEPT ![q] = {}] /\ UNCHANGED <<update, stray>>
        BY <1>6 DEF RemoveWorktree
    <2> QED BY <1>2, <2>1 DEF UpdateClean, Types, GitTypes
<1>7. ASSUME NEW c \in Source, CommitOnMain(c) \/ EditSource(c) \/ Switch(c) PROVE UpdateClean'
    <2>1. /\ UNCHANGED <<update, stray>>
          /\ at' = at \/ \E v : at' = [at EXCEPT ![c] = v]
          /\ dirt' = dirt \/ \E v : dirt' = [dirt EXCEPT ![c] = v]
        BY <1>7 DEF CommitOnMain, EditSource, Switch
    <2>2. ASSUME NEW v, at' = [at EXCEPT ![c] = v] PROVE at'[Pr] = at[Pr]
        BY <1>2, <2>2, WorkspaceAssumption DEF Types, GitTypes
    <2>3. ASSUME NEW v, dirt' = [dirt EXCEPT ![c] = v] PROVE dirt'[Pr] = dirt[Pr]
        BY <1>2, <2>3, WorkspaceAssumption DEF Types, GitTypes
    <2> QED BY <2>1, <2>2, <2>3 DEF UpdateClean
<1>8. CASE SomebodyPushes \/ (\E e \in Edit : EditPlan(e)) \/ UNCHANGED vars
    BY <1>8 DEF SomebodyPushes, EditPlan, UpdateClean, git, history, vars
<1> QED BY <1>1, <1>3, <1>4, <1>5, <1>6, <1>7, <1>8 DEF Next, UpdateStep, Outside

SharedNext(h) == Pr \in h.own => origin' # None /\ Pr \in origin'.own /\ h.base <= origin'.base

\* A merge that is not pushed is taken back, or lost sight of as stray.
LEMMA MergesSharedStep ==
    ASSUME IInv, [Next]_vars
    PROVE  MergesShared'
<1> USE DEF IInv
<1> DEFINE Advances == origin' = origin \/ (origin' # None /\ (origin # None => Within(origin, origin')))
<1>1. update \in Updates /\ branch \in Histories \cup {None} /\ origin \in Histories \cup {None}
      /\ branch' \in Histories \cup {None} /\ origin' \in Histories \cup {None}
    BY TypesStep DEF Types, GitTypes
<1>2. ASSUME NEW h \in Histories, Shared(h), Advances PROVE SharedNext(h)
    BY <1>1, <1>2 DEF Shared, SharedNext, Within, Histories
<1>3. ASSUME UNCHANGED <<update, stray>>, Advances,
             branch' # None /\ ~ stray /\ update.pc # "push" => SharedNext(branch')
      PROVE  MergesShared'
    <2>1. update.pc = "checkout" => update.remote \in Histories
        BY <1>1 DEF Pulled, HasAccepted, Updates
    <2>2. update.pc \in {"merge", "push"} => update.head \in Histories
        BY <1>1 DEF Pulled, HasAccepted, Updates
    <2>3. ~ stray /\ update.pc = "checkout" => SharedNext(update.remote)
        BY <1>2, <1>3, <2>1 DEF MergesShared
    <2>4. ~ stray /\ update.pc \in {"merge", "push"} => SharedNext(update.head)
        BY <1>2, <1>3, <2>2 DEF MergesShared
    <2> QED BY <1>3, <2>3, <2>4 DEF MergesShared, Shared, SharedNext
<1>4. ASSUME NEW p \in Runner, RunStep(p) PROVE MergesShared'
    <2>1. UNCHANGED <<update, stray>>
        BY <1>4, RunKeepsPr
    <2>2. ASSUME Advances, Pr \in branch'.own /\ branch # None => Pr \in branch.own /\ branch'.base = branch.base,
                 branch = None /\ branch' # None => branch'.own = {}
          PROVE  MergesShared'
        <3>1. ASSUME branch' # None, ~ stray, update.pc # "push" PROVE SharedNext(branch')
            <4>1. branch # None => SharedNext(branch)
                BY <1>1, <1>2, <2>2, <3>1 DEF MergesShared
            <4> QED BY <2>2, <3>1, <4>1 DEF SharedNext
        <3> QED BY <1>3, <2>1, <2>2, <3>1
    <2>3. CASE UNCHANGED <<branch, origin>>
        BY <2>2, <2>3
    <2>4. CASE UNCHANGED branch /\ origin' = branch /\ (origin = None \/ Within(origin, branch))
        <3>1. branch # None => Advances
            BY <2>4
        <3>2. branch = None => Advances
            BY <2>4, <3>1 DEF OneCheckout
        <3> QED BY <2>2, <2>4, <3>1, <3>2
    <2>5. CASE UNCHANGED origin /\ (branch # None => branch' = branch) /\ (branch = None => branch'.own = {})
        BY <2>2, <2>5
    <2>6. CASE Commit(p) /\ UNCHANGED origin
        <3>1. branch # None /\ branch' = [branch EXCEPT !.own = @ \cup {run[p].dir}] /\ run[p].dir \in StateDir
            BY <1>4, <2>6, CommitIs DEF Commit, OneCheckout
        <3>2. branch'.base = branch.base /\ branch'.own = branch.own \cup {run[p].dir}
            BY <1>1, <3>1 DEF Histories
        <3> QED BY <2>2, <2>6, <3>1, <3>2, WorkspaceAssumption
    <2> QED BY <1>4, <2>3, <2>4, <2>5, <2>6, RunMoves
<1>5. CASE CheckPull
    <2>1. /\ update'.pc = "checkout" /\ update'.remote = origin /\ origin # None /\ update.pc = "off"
          /\ UNCHANGED <<branch, origin, stray>>
        BY <1>1, <1>5 DEF CheckPull, Updates, git, history
    <2> QED BY <1>1, <2>1 DEF MergesShared, Shared, Histories
<1>6. CASE Checkout
    <2>1. CASE stray'
        BY <2>1 DEF MergesShared
    <2>2. CASE Update("off") /\ UNCHANGED <<branch, origin, stray>>
        <3>1. update'.pc = "off" /\ update.pc = "checkout"
            BY <1>1, <1>6, <2>2 DEF Checkout, Update, Updates
        <3> QED BY <2>2, <3>1 DEF MergesShared, Shared
    <2>3. CASE /\ branch' = update.remote /\ UNCHANGED <<origin, stray>>
               /\ update' = [update EXCEPT !.pc = "merge", !.head = update.remote]
        <3>1. update'.pc = "merge" /\ update'.head = update.remote /\ update.pc = "checkout"
            BY <1>1, <1>6, <2>3 DEF Checkout, Updates
        <3> QED BY <2>3, <3>1 DEF MergesShared, Shared
    <2> QED BY <1>6, <2>1, <2>2, <2>3 DEF Checkout
<1>7. CASE Merge
    <2>1. CASE stray'
        BY <2>1 DEF MergesShared
    <2>2. CASE UNCHANGED stray /\ ~ stray
        <3>1. /\ update.pc = "merge" /\ update'.head = update.head /\ UNCHANGED <<origin, stray>>
              /\ update'.pc = "push" \/ (update'.pc = "remove" /\ UNCHANGED branch)
            BY <1>1, <1>7, <2>2 DEF Merge, LeaveBehind, Update, Updates
        <3> QED BY <3>1 DEF MergesShared, Shared
    <2> QED BY <1>7, <2>1, <2>2 DEF Merge, LeaveBehind
<1>8. CASE PushMerge
    <2>1. CASE stray'
        BY <2>1 DEF MergesShared
    <2>2. CASE UNCHANGED stray /\ ~ stray
        <3>1. update'.pc = "remove" /\ update.pc = "push" /\ branch # None
            BY <1>1, <1>8 DEF PushMerge, Update, Updates, Pulled
        <3>2. Advances /\ (branch' = update.head \/ (branch' = branch /\ origin' = branch))
            BY <1>8, <2>2, <3>1 DEF PushMerge, LeaveBehind
        <3>3. CASE branch' = update.head
            <4>1. update.head \in Histories /\ Shared(update.head)
                BY <1>1, <2>2, <3>1 DEF Pulled, HasAccepted, Updates, MergesShared
            <4>2. SharedNext(update.head)
                BY <1>2, <3>2, <4>1
            <4> QED BY <3>1, <3>3, <4>2 DEF MergesShared, Shared, SharedNext
        <3>4. CASE branch' = branch /\ origin' = branch
            <4>1. SharedNext(branch')
                BY <1>1, <3>1, <3>4 DEF SharedNext, Histories
            <4> QED BY <3>1, <4>1 DEF MergesShared, Shared, SharedNext
        <3> QED BY <3>2, <3>3, <3>4
    <2> QED BY <1>8, <2>1, <2>2 DEF PushMerge, LeaveBehind
<1>9. CASE Remove
    <2>1. update'.pc = "off" /\ update.pc = "remove" /\ UNCHANGED <<branch, origin>> /\ (stray' \/ UNCHANGED stray)
        BY <1>9 DEF Remove, UpdateEnds
    <2> QED BY <2>1 DEF MergesShared, Shared
<1>10. CASE UpdateDies
    BY <1>10 DEF UpdateDies, LeaveBehind, MergesShared
<1>11. CASE Outside \/ UNCHANGED vars
    <2>1. UNCHANGED <<update, stray, branch>>
        BY <1>11 DEF Outside, CommitOnMain, EditSource, Switch, RemoveWorktree, SomebodyPushes, EditPlan, git, history,
                     vars
    <2>2. Advances
        <3>1. \/ UNCHANGED origin
              \/ origin = None /\ branch # None /\ origin' = branch
              \/ origin # None /\ origin' = [origin EXCEPT !.own = @ \cup {"other"}]
            BY <1>11 DEF Outside, CommitOnMain, EditSource, Switch, RemoveWorktree, SomebodyPushes, EditPlan, git, vars
        <3>2. CASE origin # None /\ origin' = [origin EXCEPT !.own = @ \cup {"other"}]
            <4>1. origin'.base = origin.base /\ origin'.own = origin.own \cup {"other"} /\ origin.base \in Nat
                BY <1>1, <3>2 DEF Histories
            <4>2. origin' # None
                <5>1. origin' \in Histories
                    BY <1>1, <3>2 DEF Histories
                <5> QED BY <5>1, WorkspaceAssumption
            <4> QED BY <3>2, <4>1, <4>2 DEF Within
        <3> QED BY <3>1, <3>2
    <2>3. branch' # None /\ ~ stray /\ update.pc # "push" => SharedNext(branch')
        <3>1. branch # None /\ ~ stray /\ update.pc # "push" => SharedNext(branch)
            BY <1>1, <1>2, <2>2 DEF MergesShared
        <3> QED BY <2>1, <3>1
    <2> QED BY <1>3, <2>1, <2>2, <2>3
<1> QED BY <1>4, <1>5, <1>6, <1>7, <1>8, <1>9, <1>10, <1>11 DEF Next, UpdateStep

\* What it leaves lies in no other place.
LEMMA UpdateApartStep ==
    ASSUME IInv, [Next]_vars
    PROVE  UpdateApart'
<1> USE DEF IInv
<1>1. ASSUME NEW p \in Runner, RunStep(p) PROVE UpdateApart'
    <2> DEFINE place == Mine(p).place
    <2>1. \A r \in Runner \ {p} : run'[r] = run[r]
        BY <1>1, StepMine DEF OnlyMine
    <2>2. CASE Setup(p)
        <3>1. place \in StateDir /\ "update" \notin dirt[place]
            BY <2>2 DEF Setup, UpdateApart
        <3>2. PICK writes \in SUBSET {"setup", "mixed"} :
                /\ dirt' = [dirt EXCEPT ![place] = @ \cup writes]
                /\ run' = [run EXCEPT ![p].pc = "settle", ![p].before = dirt[place]]
            BY <2>2 DEF Setup
        <3>3. run'[p].before = dirt[place]
            BY <3>2 DEF Types, Runs
        <3>4. ASSUME NEW q \in Source \cup StateDir PROVE "update" \notin dirt'[q]
            BY <3>1, <3>2 DEF UpdateApart, Types, GitTypes, Place
        <3> QED BY <2>1, <3>1, <3>3, <3>4 DEF UpdateApart
    <2>3. CASE ~ Setup(p)
        <3>1. ASSUME NEW q \in Source \cup StateDir PROVE dirt'[q] \subseteq dirt[q] \cup {"ticket"}
            <4>1. CASE Settle(p)
                BY <4>1 DEF Settle, Types, GitTypes, Place, git
            <4>2. CASE Build(p) \/ Commit(p)
                BY <4>2 DEF Build, Commit, Types, GitTypes, Place
            <4>3. CASE ~ (Settle(p) \/ Build(p) \/ Commit(p))
                <5>1. UNCHANGED dirt
                    BY <1>1, <2>3, <4>3 DEF RunStep, Start, TakeState, TakeRepository, Load, TakeBranch, Record, Create,
                       CutShort, Finish, FinishInPlace, Resume, ResumeLegacy, Refuse, SkipSetup, Plan, Open, Number,
                       Sync, Reread, Write, Push, End, Die, git
                <5> QED BY <5>1
            <4> QED BY <4>1, <4>2, <4>3
        <3>2. run'[p].before \in {{}, run[p].before}
            <4>1. CASE Start(p)
                <5>1. PICK src \in Source, dir \in StateDir, plan \in BOOLEAN, isolate \in BOOLEAN :
                        run' = [run EXCEPT ![p] = [Off EXCEPT !.pc = "state", !.src = src, !.dir = dir,
                                                              !.plan = plan, !.isolate = isolate]]
                    BY <4>1 DEF Start
                <5> QED BY <5>1 DEF Off, Types
            <4>2. CASE TakeState(p) \/ TakeRepository(p) \/ Load(p) \/ TakeBranch(p)
                <5>1. Leave(p) \/ \E pc \in {"repo", "load", "mirror", "branch", "prepare"} : Goto(p, pc)
                    BY <4>2 DEF TakeState, TakeRepository, Load, TakeBranch, Take
                <5> QED BY <5>1 DEF Leave, Goto, Off, Types, Runs
            <4>3. CASE \/ Record(p) \/ Create(p) \/ CutShort(p) \/ Finish(p) \/ FinishInPlace(p) \/ Resume(p)
                       \/ ResumeLegacy(p)
                <5>1. Leave(p) \/ \E pc \in {"create", "tool"} : Goto(p, pc)
                    BY <4>3 DEF Record, Create, CutShort, Finish, FinishInPlace, Resume, ResumeLegacy, Refuse
                <5> QED BY <5>1 DEF Leave, Goto, Off, Types, Runs
            <4>4. CASE Settle(p)
                <5>1. Leave(p) \/ run' = [run EXCEPT ![p].pc = "mirror", ![p].before = {}]
                    BY <4>4 DEF Settle
                <5> QED BY <5>1 DEF Leave, Off, Types, Runs
            <4>5. CASE Sync(p)
                <5>1. \/ Leave(p)
                      \/ run' = [run EXCEPT ![p].pc = "work", ![p].seen = None, ![p].tries = 0]
                      \/ run' = [run EXCEPT ![p].pc = "reread", ![p].seen = tracker.edits, ![p].tries = @ + 1]
                    BY <4>5 DEF Sync, Synced
                <5> QED BY <5>1 DEF Leave, Off, Types, Runs
            <4>6. CASE \/ SkipSetup(p) \/ Plan(p) \/ Open(p) \/ Number(p) \/ Reread(p) \/ Write(p) \/ Build(p)
                       \/ Commit(p) \/ Push(p) \/ End(p) \/ Die(p)
                BY <4>6 DEF SkipSetup, Plan, Open, Number, Reread, Write, Build, Commit, Push, End, Die, Leave, Goto,
                            Off, Types, Runs
            <4> QED BY <1>1, <2>3, <4>1, <4>2, <4>3, <4>4, <4>5, <4>6 DEF RunStep
        <3> QED BY <2>1, <3>1, <3>2 DEF UpdateApart
    <2> QED BY <2>2, <2>3
<1>2. CASE UpdateStep
    <2>1. UNCHANGED run /\ (UNCHANGED dirt \/ dirt' = [dirt EXCEPT ![Pr] = {"update"}])
        BY <1>2, UpdateDirt, OthersSaveNothing
    <2> QED BY <2>1, WorkspaceAssumption DEF UpdateApart, Types, GitTypes, Place
<1>3. CASE Outside
    <2>1. UNCHANGED run
        BY <1>3 DEF Outside, CommitOnMain, EditSource, Switch, RemoveWorktree, SomebodyPushes, EditPlan
    <2>2. UNCHANGED dirt \/ \E q \in Place, v \in {{}, {"user"}} : dirt' = [dirt EXCEPT ![q] = v]
        <3>1. ASSUME NEW c \in Source, EditSource(c)
              PROVE  \E q \in Place, v \in {{}, {"user"}} : dirt' = [dirt EXCEPT ![q] = v]
            BY <3>1 DEF EditSource, Place
        <3>2. ASSUME NEW q \in StateDir \cup {Pr}, RemoveWorktree(q)
              PROVE  \E x \in Place, v \in {{}, {"user"}} : dirt' = [dirt EXCEPT ![x] = v]
            BY <3>2 DEF RemoveWorktree, Place
        <3>3. \/ UNCHANGED dirt \/ (\E c \in Source : EditSource(c))
              \/ (\E q \in StateDir \cup {Pr} : RemoveWorktree(q))
            BY <1>3 DEF Outside, CommitOnMain, Switch, SomebodyPushes, EditPlan, git
        <3> QED BY <3>1, <3>2, <3>3
    <2> QED BY <2>1, <2>2 DEF UpdateApart, Types, GitTypes, Place
<1>4. CASE UNCHANGED vars
    BY <1>4 DEF UpdateApart, vars, git
<1> QED BY <1>1, <1>2, <1>3, <1>4 DEF Next

-----------------------------------------------------------------------------
(* The theorems.                                                           *)

\* The first states are as the invariant says.
LEMMA Starts ==
    ASSUME Init
    PROVE  IInv
<1>1. \A p \in Runner : run[p] = Off
    BY DEF Init
<1>2. Types
    <2>1. run \in [Runner -> Runs]
        BY WorkspaceAssumption DEF Init, Off, Runs, Pcs
    <2>2. NoState \in States /\ [NoState EXCEPT !.named = TRUE] \in States
        BY DEF NoState, States
    <2>3. disk \in [StateDir -> States] /\ at \in [Place -> {None, "torn", "main", "run", "other"}]
        BY <2>2 DEF Init
    <2>4. branch \in Histories \cup {None}
        BY DEF Init, History, Histories
    <2>5. main \in [Source -> Nat] /\ (\A c \in Source : main[c] <= events) /\ dirt \in [Place -> SUBSET Work]
        BY DEF Init
    <2>6. tracker \in Trackers /\ update \in Updates
        BY DEF Init, Trackers, Updates
    <2>7. HistoryTypes /\ lock \in [Lock -> Runner \cup {None}] /\ origin \in Histories \cup {None}
        <3>1. 0 \in 0..MaxStarts /\ 0 \in 0..MaxEvents
            BY WorkspaceAssumption
        <3> QED BY <3>1 DEF Init, HistoryTypes
    <2> QED BY <2>1, <2>3, <2>4, <2>5, <2>6, <2>7 DEF Types, GitTypes
<1>3. Holding /\ Rewriting
    BY <1>1 DEF Holding, Rewriting, Started, Building, Inside, Off
<1>4. /\ \A s \in StateDir : /\ disk[s].src = None /\ disk[s].place = None /\ ~ disk[s].ready /\ disk[s].last = None
                             /\ disk[s].sub = 0
      /\ dirt = [q \in Place |-> {}] /\ touched = {} /\ refused = {} /\ origin = None
    BY DEF Init, NoState
<1>5. Saved /\ Known /\ InterruptedIsFinished /\ CommitsKept
    BY <1>1, <1>4, WorkspaceAssumption
    DEF Saved, Known, InterruptedIsFinished, CommitsKept, Loaded, Inside, Prepared, Off
<1>6. OneCheckout
    <2>1. CASE branch = None
        <3>1. \A q \in Place : at[q] # "run"
            BY <2>1, WorkspaceAssumption DEF Init, History, Histories
        <3> QED BY <1>4, <3>1 DEF OneCheckout
    <2>2. CASE branch # None
        <3>1. PICK c \in Source :
                at = [q \in Place |-> IF q = c THEN "run" ELSE IF q \in Source THEN "main" ELSE None]
            BY <2>2 DEF Init
        <3> QED BY <1>4, <2>2, <3>1, WorkspaceAssumption DEF OneCheckout
    <2> QED BY <2>1, <2>2
<1>7. LegacyAlone
    <2>1. late = {}
        BY DEF Init
    <2>2. CASE disk = [s \in StateDir |-> NoState]
        BY <2>2 DEF LegacyAlone, Legacy, NoState
    <2>3. CASE \E s \in StateDir : /\ disk = [x \in StateDir |-> IF x = s THEN [NoState EXCEPT !.named = TRUE] ELSE NoState]
                                   /\ branch = History(0, {})
        <3>1. History(0, {}) \in Histories
            BY DEF History, Histories
        <3> QED BY <2>1, <2>3, <3>1, WorkspaceAssumption DEF LegacyAlone, Legacy, NoState
    <2> QED BY <2>2, <2>3 DEF Init
<1>8. Pulled /\ UpdateClean /\ MergesShared /\ UpdateApart
    <2>1. at[Pr] = None /\ update.pc = "off"
        BY WorkspaceAssumption DEF Init, Place
    <2>2. branch # None => branch.own = {}
        BY DEF Init, History
    <2> QED BY <1>1, <1>4, <2>1, <2>2 DEF Pulled, UpdateClean, MergesShared, Shared, UpdateApart, Place, Off
<1>9. Untouched
    <2>1. \A s \in StateDir : at[s] = None
        BY WorkspaceAssumption DEF Init, Place
    <2> QED BY <1>1, <1>4, <2>1 DEF Untouched, Fresh, Place, Off
<1>10. SetupsKnown
    BY <1>1, <1>4 DEF SetupsKnown, Setups, Place, Off
<1>11. SubIssuesKnown
    <2> SUFFICES ASSUME NEW s \in StateDir
                 PROVE  tracker.opened[s] = lost[s] + (IF disk[s].sub = 0 THEN 0 ELSE 1) + Cardinality(Creating(s))
        BY DEF SubIssuesKnown, Creating
    <2>1. Creating(s) = {}
        BY <1>1 DEF Creating, Off
    <2>2. tracker.opened[s] = 0 /\ lost[s] = 0
        BY DEF Init
    <2> QED BY <1>4, <2>1, <2>2, FS_EmptySet
<1> QED BY <1>2, <1>3, <1>5, <1>6, <1>7, <1>8, <1>9, <1>10, <1>11 DEF IInv

\* Every step keeps the invariant.
LEMMA Steps ==
    ASSUME IInv, [Next]_vars
    PROVE  IInv'
BY TypesStep, HoldingStep, SavedStep, KnownStep, OneCheckoutStep, LegacyAloneStep, PulledStep, CommitsKeptStep,
   UntouchedStep, InterruptedStep, SetupsKnownStep, SubIssuesStep, RewritingStep, UpdateCleanStep, MergesSharedStep,
   UpdateApartStep
DEF IInv

\* Runners and places are typed.
LEMMA IInvTypes ==
    ASSUME IInv
    PROVE  TypeOK
<1> USE DEF IInv
<1>1. ASSUME NEW p \in Runner
      PROVE  /\ run[p].pc \in Inside \cup {"off", "state", "repo", "load", "branch", "tool", "push"}
             /\ run[p].src \in Source \cup {None} /\ run[p].dir \in StateDir \cup {None}
             /\ run[p].before \subseteq {"ticket", "setup", "mixed", "user"} /\ run[p].tries \in 0..SyncAttempts
    <2>1. run[p] \in Runs
        BY DEF Types
    <2> QED BY <2>1 DEF Runs, Pcs, Work, UpdateApart
<1>2. ASSUME NEW s \in StateDir
      PROVE  /\ disk[s].src \in Source \cup {None} /\ disk[s].place \in {s, None} \cup Source
             /\ disk[s].last \in Histories \cup {None} /\ disk[s].sub \in Nat
             /\ disk[s].ready => disk[s].place # None /\ disk[s].named
    <2>1. disk[s] \in States
        BY DEF Types
    <2> QED BY <2>1 DEF States, Saved
<1>3. Cardinality({q \in Place : at[q] = "run"}) <= 1
    <2>1. CASE \A q \in Place : at[q] # "run"
        <3>1. {q \in Place : at[q] = "run"} = {}
            BY <2>1
        <3> QED BY <3>1, FS_EmptySet
    <2>2. ASSUME NEW q \in Place, at[q] = "run"
          PROVE  Cardinality({x \in Place : at[x] = "run"}) <= 1
        <3>1. {x \in Place : at[x] = "run"} = {q}
            BY <2>2 DEF OneCheckout
        <3>2. Cardinality({q}) = 1
            BY FS_Singleton
        <3> QED BY <3>1, <3>2
    <2> QED BY <2>1, <2>2
<1>4. tracker.edits \subseteq Edit /\ update.pc \in {"off", "checkout", "merge", "push", "remove"}
    BY DEF Types, Trackers, Updates
<1> QED BY <1>1, <1>2, <1>3, <1>4 DEF TypeOK, Types, GitTypes, HistoryTypes, Work

\* The invariant holds in every state that can be reached.
THEOREM Invariance == Spec => []IInv
<1>1. IInv /\ [Next]_vars => IInv'
    BY Steps
<1> QED BY Starts, <1>1, PTL DEF Spec

\* Runners, locks, state files, checkouts and histories are always typed, and
\* git has the run branch checked out at one place at most.
THEOREM Typing == Spec => []TypeOK
<1>1. IInv => TypeOK
    BY IInvTypes
<1> QED BY Invariance, <1>1, PTL

\* The three file locks of run_issue keep runners apart: no two use one state
\* file, and no two that build are at work on the branch at the same time.
THEOREM LocksSeparate == Spec => []OneWriter
<1>1. IInv => OneWriter
    BY HoldingOneWriter DEF IInv
<1> QED BY Invariance, <1>1, PTL

\* A creation of the worktree that was cut short is finished by the next start,
\* unless something else than the runner that made it changed what it left.
THEOREM CreationResumes == Spec => []InterruptedIsFinished
<1>1. IInv => InterruptedIsFinished
    BY DEF IInv
<1> QED BY Invariance, <1>1, PTL

\* No agent starts among files that provisioning wrote and nobody was told of.
THEOREM ProvisioningUndone == Spec => []AgentsStartClean
<1>1. IInv => AgentsStartClean
    BY SetupsKnownStart
<1> QED BY Invariance, <1>1, PTL

\* No creation, resumption, push or --update-pr drops an accepted commit from
\* both the branch and GitHub's, but for the commits made during the pull.
THEOREM AcceptedCommitsStay == Spec => []CommitsKept
<1>1. IInv => CommitsKept
    BY DEF IInv
<1> QED BY Invariance, <1>1, PTL

\* A ticket has the one sub-issue its state file names, but for numbers that
\* were lost before they were saved.
THEOREM SubIssuesNamed == Spec => []SubIssuesKnown
<1>1. IInv => SubIssuesKnown
    BY DEF IInv
<1> QED BY Invariance, <1>1, PTL

\* PlanBodyMirror.sync takes away no edit but one that came between its last
\* read and its write.
THEOREM PlanEditsKept == Spec => EditsKept
<1>1. IInv /\ [Next]_vars => [\A e \in tracker.edits \ tracker.edits' : e \in late]_vars
    BY EditsKeptStep
<1> QED BY Invariance, <1>1, PTL DEF Spec, EditsKept

\* An --update-pr that returned leaves no directory and no merge of its own that
\* is not on GitHub, the two reasons checkout_branch_worktree refuses for, but for
\* a kill, a git call or clean-up that failed half way, or a switched branch.
THEOREM UpdateLeavesNothing == Spec => []UpdateRepeatable
<1>1. IInv => UpdateRepeatable
    BY DEF IInv, UpdateClean, MergesShared, Shared, UpdateRepeatable
<1> QED BY Invariance, <1>1, PTL
=============================================================================
