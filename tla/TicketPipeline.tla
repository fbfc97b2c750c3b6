--------------------------- MODULE TicketPipeline ---------------------------
(***************************************************************************)
(* One ticket on its way through the build pipeline of orchestrator.py:    *)
(* `_process_ticket` and everything it calls in build.py, verify.py,       *)
(* prepr.py and devops.py, over the run worktree, its git history and the  *)
(* state file.  The runner may crash between any two steps, be stopped or  *)
(* run out of credits, and is started again any number of times.           *)
(*                                                                         *)
(* The worktree, the index and a commit's tree are each a Content: which   *)
(* test is in the test file, which code is in the rest, and whether an     *)
(* untracked tool byproduct (uv.lock) lies about.  A commit is its whole   *)
(* history, as a sha is, so "descends from" is "is a prefix of".           *)
(***************************************************************************)
EXTENDS Integers, Sequences, SequencesExt

CONSTANTS
    Tests,          \* versions of the ticket's test file
    NoTest,         \* the test file does not exist
    Code,           \* versions of everything else
    OldCode,        \* the code the run branch starts from
    None,           \* a field of the state file that holds null
    Byproducts,     \* values of Content.lock the tools produce
    Kinds,          \* kinds of ticket: "tdd", "pre_pr"
    Meddling,       \* what agents, commands, hooks and the user may do wrong
    TesterRetries,  \* cfg.tester_retries
    CoderRetries,   \* cfg.coder_retries
    MaxRounds,      \* cfg.max_rounds
    MaxOverrun,     \* bound on rounds a crash lets a ticket take past MaxRounds
    MaxCommits      \* bound on commits made by others than the runner

Content == [test : Tests \cup {NoTest}, code : Code, lock : Byproducts]
BaseTree == [test |-> NoTest, code |-> OldCode, lock |-> FALSE]
Commit == [tree : Content, mark : BOOLEAN, here : BOOLEAN]
History == Seq(Commit)
Digest == [head : History, branch : BOOLEAN, index : Content \cup {None}, files : Content]
Suite == [files : Content, full : BOOLEAN]
Part == {"test", "code", "lock"}
Phase == {"tester", "refine_test", "coder", "verifier", "regression", "commit"}
Status == {"pending", "in_progress", "done", "blocked"}

Ticket == [kind : {"tdd", "pre_pr"}, status : Status, phase : Phase, rounds : Nat,
           base : History \cup {None}, last : History, sha : History \cup {None},
           test : Tests \cup {None}, feedback : BOOLEAN, satisfied : BOOLEAN,
           adopted : BOOLEAN, digest : Digest \cup {None},
           index : Content \cup {None}, tree : Content \cup {None},
           files : SUBSET Part, full : Content \cup {None}]

ASSUME PipelineAssumption ==
    /\ NoTest \notin Tests
    /\ None # NoTest /\ None \notin Tests /\ None \notin Content /\ None \notin History /\ None \notin Digest
    /\ None \notin Suite /\ None \notin [test : Tests \cup {NoTest}, code : Code]
    /\ OldCode \in Code
    /\ FALSE \in Byproducts /\ Byproducts \subseteq BOOLEAN
    /\ Kinds \subseteq {"tdd", "pre_pr"} /\ Kinds # {}
    /\ TesterRetries \in Nat /\ CoderRetries \in Nat /\ MaxRounds \in Nat
    /\ MaxOverrun \in Nat /\ MaxCommits \in Nat

VARIABLES
    disk,       \* the ticket as the state file holds it
    mem,        \* the ticket as the running process holds it
    head,       \* HEAD of the run worktree
    wt,         \* the files of the run worktree
    idx,        \* the index of the run worktree
    onBranch,   \* the run branch is checked out there
    pc,         \* where the runner is; "idle" when no runner lives
    tries,      \* attempts used up by the current tester or coder step
    before,     \* the digest taken before the verifier was called
    fullRun,    \* the regression gate ran the full suite
    verified,   \* history: the files the verifier (or pre-PR check) passed this round
    gated       \* history: the files the regression gate passed since, and how

git == <<head, wt, idx, onBranch>>
local == <<tries, before, fullRun>>
history == <<verified, gated>>
vars == <<disk, mem, git, pc, local, history>>

NewTicket(kind) ==
    [kind |-> kind, status |-> "pending",
     phase |-> IF kind = "pre_pr" THEN "coder" ELSE "tester",
     rounds |-> 0, base |-> None, last |-> <<>>, sha |-> None, test |-> None,
     feedback |-> FALSE, satisfied |-> FALSE, adopted |-> FALSE, digest |-> None,
     index |-> None, tree |-> None, files |-> {}, full |-> None]

Init ==
    /\ \E kind \in Kinds : disk = NewTicket(kind)
    /\ mem = disk
    /\ head = <<>> /\ wt = BaseTree /\ idx = BaseTree /\ onBranch = TRUE
    /\ pc = "idle" /\ tries = 0 /\ before = None /\ fullRun = FALSE
    /\ verified = None /\ gated = None

-----------------------------------------------------------------------------
(* What git answers.                                                       *)

Tree(h) == IF h = <<>> THEN BaseTree ELSE h[Len(h)].tree

\* devops.changed_paths: tracked, staged and untracked differences from HEAD.
Changed == {p \in Part : wt[p] # Tree(head)[p] \/ idx[p] # Tree(head)[p]}
Dirty == Changed # {}

\* devops.workspace_digest, with and without the index.
FullDigest == [head |-> head, branch |-> onBranch, index |-> idx, files |-> wt]
WorkDigest == [head |-> head, branch |-> onBranch, index |-> None, files |-> wt]

\* Commits of head that base does not reach (git log base..HEAD).
NewCommits(base) == {i \in DOMAIN head : ~ IsPrefix(SubSeq(head, 1, i), base)}

-----------------------------------------------------------------------------
(* Saving, and the ways out of _process_ticket.                            *)

\* TicketStore.save: the file is replaced atomically with the ticket in memory.
Save(t) == mem' = t /\ disk' = t

Goto(place) == pc' = place /\ UNCHANGED local

\* The next round of the loop, or the end of the process: the local variables
\* of the step at hand are gone.
Leave(place) == pc' = place /\ tries' = 0 /\ before' = None /\ fullRun' = FALSE

\* run_issue's handler of RunStopped: the ticket goes back to pending.
Pause == Save([mem EXCEPT !.status = "pending"]) /\ Leave("idle")

\* Mutant of HandBack: the round is not counted.
HandBackUncounted(t) ==
    /\ Save(t) /\ Leave("top")
    /\ verified' = None /\ gated' = None

\* _hand_back: counts the round, saves, and blocks past max_rounds.
HandBack(t) ==
    LET back == [t EXCEPT !.rounds = @ + 1]
    IN  /\ Save(back)
        /\ Leave(IF back.rounds > MaxRounds THEN "blocking" ELSE "top")
        /\ verified' = None /\ gated' = None

\* _finish_ticket.
Finish(commit) ==
    /\ Save([mem EXCEPT !.sha = commit, !.status = "done", !.last = commit])
    /\ Leave("idle")

-----------------------------------------------------------------------------
(* The rest of the world: agents, commands they or the tests run, commit   *)
(* hooks, and the user between two runs.                                   *)

EditFiles ==
    /\ wt' \in Content
    /\ idx' \in {idx} \cup (IF "stage" \in Meddling THEN {wt'} ELSE {})
    /\ UNCHANGED <<head, onBranch>>

\* A commit made in the worktree, or one fast-forwarded from elsewhere.
AddCommit ==
    /\ "commit" \in Meddling /\ Len(head) < MaxCommits
    /\ \E made \in Content \ {Tree(head)}, here \in BOOLEAN :
         /\ head' = Append(head, [tree |-> made, mark |-> FALSE, here |-> here])
         /\ wt' = made /\ idx' = made
    /\ UNCHANGED onBranch

ResetHard ==
    /\ "reset" \in Meddling
    /\ \E n \in 0..Len(head) - 1 :
         /\ head' = SubSeq(head, 1, n)
         /\ wt' = Tree(SubSeq(head, 1, n)) /\ idx' = Tree(SubSeq(head, 1, n))
    /\ UNCHANGED onBranch

SwitchBranch ==
    /\ "branch" \in Meddling
    /\ onBranch' = ~ onBranch
    /\ UNCHANGED <<head, wt, idx>>

Disturb == EditFiles \/ AddCommit \/ ResetHard \/ SwitchBranch

-----------------------------------------------------------------------------
(* Starting and stopping.                                                  *)

\* run_issue loads the state file; --retry-blocked reopens a blocked ticket.
\* _prepare_workspace refuses a worktree that is not on the run branch.  A run
\* that dies between the two saves of an exhausted hand-back leaves the ticket
\* open past MaxRounds, for one more round each time: MaxOverrun bounds how often.
StartRun(retryBlocked) ==
    /\ pc = "idle" /\ onBranch
    /\ IF retryBlocked
       THEN /\ disk.status = "blocked"
            /\ Save([disk EXCEPT !.status = "pending", !.rounds = 0])
       ELSE /\ disk.status \in {"pending", "in_progress"}
            /\ disk.rounds <= MaxRounds + MaxOverrun
            /\ Save(disk)
    /\ Goto("start")
    /\ UNCHANGED <<git, history>>

\* _process_ticket before its loop: the ticket takes HEAD as its base, unless
\* the worktree is dirty or HEAD is not where the runner left it.
Begin ==
    /\ pc = "start"
    /\ mem.base = None => ~ Dirty /\ head = mem.last
    /\ Save([mem EXCEPT !.base = IF @ = None THEN head ELSE @, !.status = "in_progress"])
    /\ Goto("top")
    /\ UNCHANGED <<git, history>>

\* ... in which case DevopsError ends the run.
RefuseToBegin ==
    /\ pc = "start"
    /\ mem.base = None /\ (Dirty \/ head # mem.last)
    /\ Leave("idle")
    /\ UNCHANGED <<disk, mem, git, history>>

\* RunControl.check raises RunStopped at the loop top, around a model call and
\* around the regression gate, and before a failure blocks the ticket.
Stop ==
    /\ pc \in {"start", "top", "tester", "tested", "coder", "coded", "verifier", "judged",
               "gate", "gated", "failed"}
    /\ Pause
    /\ UNCHANGED <<git, history>>

\* BudgetExhausted: no call was made, the ticket is pending in its phase.
BudgetExhausted ==
    /\ pc \in {"tester", "coder", "verifier"}
    /\ Pause
    /\ UNCHANGED <<git, history>>

\* Mutant of Block: base_commit is forgotten although edits are left.
BlockAndRelease ==
    /\ pc \in {"failed", "blocking"}
    /\ Save([mem EXCEPT !.status = "blocked", !.base = None])
    /\ Leave("idle")
    /\ UNCHANGED <<git, history>>

\* _block: unfinished edits stay owned by the ticket through base_commit.
Block ==
    /\ pc \in {"failed", "blocking"}
    /\ Save([mem EXCEPT !.status = "blocked", !.base = IF Dirty THEN @ ELSE None])
    /\ Leave("idle")
    /\ UNCHANGED <<git, history>>

\* The process dies; memory is lost, files and git stay as they are.
Crash ==
    /\ pc # "idle"
    /\ Leave("idle")
    /\ mem' = disk
    /\ UNCHANGED <<disk, git, history>>

\* Between two runs the user works in the run worktree.
UserWorks ==
    /\ "user" \in Meddling
    /\ pc = "idle" /\ disk.status # "done"
    /\ Disturb
    /\ UNCHANGED <<disk, mem, pc, local, history>>

-----------------------------------------------------------------------------
(* The top of the loop.                                                    *)

\* A commit carrying this ticket's token, made before state could be saved.
Marked == {i \in NewCommits(mem.base) : head[i].mark}

LeftBranch ==
    /\ pc = "top" /\ ~ onBranch
    /\ Goto("failed")
    /\ UNCHANGED <<disk, mem, git, history>>

Recoverable ==
    /\ Len(head) \in Marked
    /\ Front(head) = mem.base
    /\ Tree(head) = mem.tree
    /\ ~ Dirty

RecoverCommit ==
    /\ pc = "top" /\ onBranch /\ mem.phase = "commit" /\ Marked # {}
    /\ IF Recoverable
       THEN Finish(head)
       ELSE Goto("failed") /\ UNCHANGED <<disk, mem>>
    /\ UNCHANGED <<git, history>>

\* adopt_head: HEAD moved on by commits made in this worktree, or not at all.
AdoptHead ==
    /\ pc = "top" /\ onBranch /\ head # mem.base
    /\ mem.phase = "commit" => Marked = {}
    /\ IF IsPrefix(mem.base, head) /\ \A i \in NewCommits(mem.base) : head[i].here
       THEN /\ Save([mem EXCEPT !.base = head, !.last = head, !.adopted = TRUE])
            /\ Goto("top")
       ELSE Goto("failed") /\ UNCHANGED <<disk, mem>>
    /\ UNCHANGED <<git, history>>

\* _require_accepted_test guards every later phase of a TDD ticket.
TestIntact == mem.kind = "tdd" => wt.test = mem.test

EnterPhase ==
    /\ pc = "top" /\ onBranch /\ head = mem.base
    /\ IF mem.phase \in {"tester", "refine_test"}
       THEN mem' = [mem EXCEPT !.satisfied = FALSE] /\ Goto("tester")
       ELSE UNCHANGED mem /\ Goto(IF TestIntact THEN mem.phase ELSE "failed")
    /\ UNCHANGED <<disk, git, history>>

-----------------------------------------------------------------------------
(* Tester: a new test must be seen to fail; a refined one need not.        *)

CallTester ==
    /\ pc = "tester" /\ Disturb
    /\ Goto("tested")
    /\ UNCHANGED <<disk, mem, history>>

\* Mutant of RejectTest: one retry too many.
RejectTestOnceMore ==
    /\ pc = "tested"
    /\ IF tries <= TesterRetries
       THEN pc' = "tester" /\ tries' = tries + 1 /\ UNCHANGED <<before, fullRun>>
       ELSE Goto("failed")
    /\ UNCHANGED <<disk, mem, git, history>>

RejectTest ==
    /\ pc = "tested"
    /\ IF tries < TesterRetries
       THEN pc' = "tester" /\ tries' = tries + 1 /\ UNCHANGED <<before, fullRun>>
       ELSE Goto("failed")
    /\ UNCHANGED <<disk, mem, git, history>>

AcceptTest(passesAlready) ==
    /\ pc = "tested" /\ wt.test # NoTest
    /\ passesAlready => mem.phase = "tester" /\ tries = TesterRetries
    /\ Save([mem EXCEPT !.test = wt.test, !.satisfied = passesAlready,
                        !.phase = IF passesAlready THEN "verifier" ELSE "coder",
                        !.feedback = FALSE])
    /\ Leave("top")
    /\ UNCHANGED <<git, history>>

-----------------------------------------------------------------------------
(* Coder: makes the accepted test pass, or the pre-PR finding go away.     *)

\* The test already passes and nobody asked for rework: no coder call.
SkipCoder ==
    /\ pc = "coder" /\ mem.kind = "tdd" /\ tries = 0 /\ ~ mem.feedback
    /\ Save([mem EXCEPT !.phase = "verifier"])
    /\ Goto("top")
    /\ UNCHANGED <<git, history>>

CallCoder ==
    /\ pc = "coder" /\ Disturb
    /\ Goto("coded")
    /\ UNCHANGED <<disk, mem, history>>

\* The accepted test is put back if the coder changed it; out of attempts the
\* ticket returns to the tester (to the coder itself for a pre-PR fix).
RejectCode ==
    /\ pc = "coded"
    /\ wt' = IF mem.kind = "tdd" THEN [wt EXCEPT !.test = mem.test] ELSE wt
    /\ IF tries < CoderRetries
       THEN /\ pc' = "coder" /\ tries' = tries + 1
            /\ UNCHANGED <<disk, mem, before, fullRun, history>>
       ELSE HandBack([mem EXCEPT !.phase = IF mem.kind = "tdd" THEN "refine_test" ELSE "coder",
                                 !.feedback = mem.kind = "pre_pr"])
    /\ UNCHANGED <<head, idx, onBranch>>

AcceptCode ==
    /\ pc = "coded" /\ mem.kind = "tdd" /\ TestIntact
    /\ Save([mem EXCEPT !.phase = "verifier", !.feedback = FALSE])
    /\ Leave("top")
    /\ UNCHANGED <<git, history>>

AcceptFix ==
    /\ pc = "coded" /\ mem.kind = "pre_pr"
    /\ Save([mem EXCEPT !.phase = "regression", !.feedback = FALSE,
                        !.digest = FullDigest, !.satisfied = ~ Dirty])
    /\ Leave("top")
    /\ verified' = wt /\ gated' = None
    /\ UNCHANGED git

\* A model call, a test command, a pre-PR check or a git command that fails or
\* cannot run raises; a commit hook that refuses is one of them.
StepError ==
    /\ pc \in {"top", "tester", "tested", "coder", "coded", "verifier", "judged", "regression",
               "gate", "gated", "approving", "commit", "staged", "committed", "blocking"}
    /\ Goto("failed")
    /\ UNCHANGED <<disk, mem, git, history>>

-----------------------------------------------------------------------------
(* Verifier: a read-only judgement of exactly this worktree.               *)

CallVerifier ==
    /\ pc = "verifier"
    /\ IF "verifier" \in Meddling THEN Disturb \/ UNCHANGED git ELSE UNCHANGED git
    /\ pc' = "judged" /\ before' = FullDigest /\ UNCHANGED <<tries, fullRun>>
    /\ UNCHANGED <<disk, mem, history>>

Meddled ==
    /\ \/ pc = "judged" /\ FullDigest # before
       \/ pc \in {"regression", "gated"} /\ FullDigest # mem.digest
    /\ Goto("failed")
    /\ UNCHANGED <<disk, mem, git, history>>

Pass ==
    /\ pc = "judged" /\ FullDigest = before
    /\ Save([mem EXCEPT !.digest = before, !.phase = "regression"])
    /\ Leave("top")
    /\ verified' = wt /\ gated' = None
    /\ UNCHANGED git

Rework(phase) ==
    /\ pc = "judged" /\ FullDigest = before
    /\ \E feedback \in BOOLEAN : HandBack([mem EXCEPT !.phase = phase, !.feedback = feedback])
    /\ UNCHANGED git

-----------------------------------------------------------------------------
(* Regression gate and approval of the change set.                         *)

StartGate ==
    /\ pc = "regression" /\ FullDigest = mem.digest
    /\ Goto("gate")
    /\ UNCHANGED <<disk, mem, git, history>>

RunGate ==
    /\ pc = "gate"
    /\ IF "gate" \in Meddling THEN Disturb \/ UNCHANGED git ELSE UNCHANGED git
    /\ Goto("gated")
    /\ UNCHANGED <<disk, mem, history>>

FailGate ==
    /\ pc = "gated"
    /\ HandBack([mem EXCEPT !.phase = "coder", !.feedback = TRUE])
    /\ UNCHANGED git

\* Mutant of PassGate: the workspace is not compared again after the gate.
PassGateUnchecked(full) ==
    /\ pc = "gated"
    /\ full => mem.kind = "tdd"
    /\ gated' = [files |-> wt, full |-> full]
    /\ pc' = "approving" /\ fullRun' = full /\ UNCHANGED <<tries, before>>
    /\ UNCHANGED <<disk, mem, git, verified>>

\* approve_changes first deletes an untracked byproduct nobody asked for.
PassGate(full) ==
    /\ pc = "gated" /\ FullDigest = mem.digest
    /\ full => mem.kind = "tdd"
    /\ LET stray == "lock" \in Changed /\ ~ Tree(head).lock
       IN  /\ wt' = IF stray THEN [wt EXCEPT !.lock = FALSE] ELSE wt
           /\ idx' = IF stray THEN [idx EXCEPT !.lock = FALSE] ELSE idx
    /\ gated' = [files |-> wt, full |-> full]
    /\ pc' = "approving" /\ fullRun' = full /\ UNCHANGED <<tries, before>>
    /\ UNCHANGED <<disk, mem, head, onBranch, verified>>

\* ... and then records what the commit must contain.  A file that exists only
\* in the index cannot be added: `git add` fails (StepError).
Approve ==
    /\ pc = "approving"
    /\ ~ (wt.test = NoTest /\ Tree(head).test = NoTest /\ idx.test # NoTest)
    /\ Save([mem EXCEPT !.digest = WorkDigest, !.index = idx, !.tree = wt, !.files = Changed,
                        !.full = IF fullRun THEN wt ELSE None, !.phase = "commit"])
    /\ Leave("top")
    /\ UNCHANGED <<git, history>>

-----------------------------------------------------------------------------
(* Commit.                                                                 *)

\* Mutant of Approved: forgets that an interrupted commit leaves the approved
\* tree staged.
ApprovedUnstaged ==
    onBranch /\ head = mem.base /\ WorkDigest = mem.digest /\ idx = mem.index

Approved ==
    /\ onBranch /\ head = mem.base
    /\ WorkDigest = mem.digest
    /\ idx \in {mem.index, mem.tree}

\* Mutant of Stage: nothing to commit is always taken for done.
StageOrDone ==
    /\ pc = "commit" /\ Approved
    /\ idx' = wt
    /\ IF wt = Tree(head) THEN Finish(head) ELSE Goto("staged") /\ UNCHANGED <<disk, mem>>
    /\ UNCHANGED <<head, wt, onBranch, history>>

\* commit_ticket up to `git commit`: check, stage every changed path, compare.
Stage ==
    /\ pc = "commit" /\ Approved
    /\ idx' = wt
    /\ LET staged == {p \in Part : wt[p] # Tree(head)[p]}
       IN  IF staged = mem.files /\ staged # {}
           THEN Goto("staged") /\ UNCHANGED <<disk, mem>>
           ELSE IF staged = mem.files /\ (mem.satisfied \/ mem.adopted)
           THEN Finish(head)
           ELSE Goto("failed") /\ UNCHANGED <<disk, mem>>
    /\ UNCHANGED <<head, wt, onBranch, history>>

RefuseStage ==
    /\ pc = "commit" /\ ~ Approved
    /\ Goto("failed")
    /\ UNCHANGED <<disk, mem, git, history>>

\* `git commit`; a hook may refuse it, or commit and leave something else.
GitCommit ==
    /\ pc = "staged"
    /\ \E made \in (IF "hook" \in Meddling THEN Content ELSE {idx}) :
         /\ head' = Append(head, [tree |-> made, mark |-> TRUE, here |-> TRUE])
         /\ idx' = made
         /\ wt' \in {wt, made}
    /\ Goto("committed")
    /\ UNCHANGED <<disk, mem, onBranch, history>>

\* Mutant of AcceptCommit: what a hook made of the commit is not looked at.
AcceptAnyCommit ==
    /\ pc = "committed" /\ Finish(head)
    /\ UNCHANGED <<git, history>>

\* The commit counts only if it holds the approved tree and left nothing over.
AcceptCommit ==
    /\ pc = "committed"
    /\ IF Tree(head) = mem.tree /\ ~ Dirty
       THEN Finish(head)
       ELSE Goto("failed") /\ UNCHANGED <<disk, mem>>
    /\ UNCHANGED <<git, history>>

-----------------------------------------------------------------------------
Step ==
    \/ Begin \/ RefuseToBegin
    \/ LeftBranch \/ RecoverCommit \/ AdoptHead \/ EnterPhase
    \/ CallTester \/ RejectTest \/ \E b \in BOOLEAN : AcceptTest(b)
    \/ SkipCoder \/ CallCoder \/ RejectCode \/ AcceptCode \/ AcceptFix \/ StepError
    \/ CallVerifier \/ Meddled \/ Pass \/ Rework("refine_test") \/ Rework("coder")
    \/ StartGate \/ RunGate \/ FailGate \/ \E b \in BOOLEAN : PassGate(b)
    \/ Approve \/ Stage \/ RefuseStage \/ GitCommit \/ AcceptCommit
    \/ Block

Next ==
    \/ Step
    \/ \E b \in BOOLEAN : StartRun(b)
    \/ Stop \/ BudgetExhausted \/ Crash \/ UserWorks

\* Every model call, test command and git command has a timeout, so a live
\* runner keeps moving.  Nobody has to start it, stop it or let it live.
Spec == Init /\ [][Next]_vars /\ WF_vars(Step)

-----------------------------------------------------------------------------
(* Properties.                                                             *)

Places == {"idle", "start", "top", "tester", "tested", "coder", "coded", "verifier", "judged",
           "regression", "gate", "gated", "approving", "commit", "staged", "committed",
           "failed", "blocking"}

TicketTypes == disk \in Ticket /\ mem \in Ticket

GitTypes == head \in History /\ wt \in Content /\ idx \in Content /\ onBranch \in BOOLEAN

LocalTypes ==
    /\ pc \in Places
    /\ tries \in Int /\ before \in Digest \cup {None} /\ fullRun \in BOOLEAN

HistoryTypes ==
    /\ verified \in Content \cup {None}
    /\ gated \in Suite \cup {None}

\* No attempt and no round is taken beyond its limit; a ticket beyond it is on
\* its way to being blocked.
WithinLimits ==
    /\ tries \in 0..TesterRetries \cup 0..CoderRetries
    /\ mem.rounds <= MaxRounds + MaxOverrun + 1
    /\ pc \notin {"idle", "failed", "blocking"} => mem.rounds <= MaxRounds + MaxOverrun

\* Every variable has its type, and every counter keeps within its limit.
TypeOK == TicketTypes /\ GitTypes /\ LocalTypes /\ HistoryTypes /\ WithinLimits

\* The part of a tree a ticket answers for: not the tools' byproduct.
WorkOf(content) == [test |-> content.test, code |-> content.code]

\* A ticket is done only with the very work that the verifier passed and the
\* regression gate then passed, with its accepted test in it, no matter what
\* agents, commands, hooks or the user changed meanwhile and how often the run
\* was interrupted.  full_regression_tree, which lets publication skip the
\* full suite, names the landed tree only if the full suite ran on this work.
LandedAsVetted ==
    disk.status = "done" =>
        LET landed == Tree(disk.sha)
        IN  /\ verified # None /\ WorkOf(landed) = WorkOf(verified)
            /\ gated # None /\ WorkOf(landed) = WorkOf(gated.files)
            /\ disk.kind = "tdd" => landed.test = disk.test
            /\ disk.full # None => gated.full /\ disk.full = landed

\* Interruptions between `git commit` and the save neither lose nor repeat the
\* ticket's commit: a finished ticket put exactly one commit on its base, and
\* none at all only if its work was there already or came in adopted commits.
CommittedOnItsBase ==
    disk.status = "done" =>
        \/ disk.sha = disk.base /\ (disk.satisfied \/ disk.adopted)
        \/ /\ Len(disk.sha) = Len(disk.base) + 1
           /\ IsPrefix(disk.base, disk.sha)
           /\ disk.sha[Len(disk.sha)].mark

\* Edits left in the worktree when the runner is gone belong to an unfinished
\* ticket that remembers its base: the scheduler finds the owner by that, and
\* no other ticket may commit them.  (Nobody but the runner touches the tree.)
OwnedEdits ==
    pc = "idle" /\ Dirty => disk.base # None /\ disk.status # "done"

\* If nobody meddles, a ticket approved for commit is never refused by the
\* checks that guard against meddling: resuming it commits the approved
\* work, or recovers the commit already made.
CommitSurvives ==
    /\ pc = "commit" => Approved
    /\ pc = "top" /\ mem.phase = "commit" /\ Marked # {} => Recoverable

\* The same for a ticket waiting for its regression gate (overview.md: a
\* re-run continues from the last accepted phase).
VerdictSurvives == pc = "regression" => FullDigest = mem.digest

\* An approved change set is empty only if the ticket may finish without a
\* commit (the comment in _process_ticket: nothing to commit, still done).
EmptyFixMayFinish ==
    pc = "commit" /\ mem.files = {} => mem.satisfied \/ mem.adopted

\* Every run of a ticket ends: the pipeline cannot hand a ticket back and
\* forth, or retry an agent, for ever.
RunEnds == pc # "idle" ~> pc = "idle"

\* The pipeline implements what a ticket's life promises.
Lifecycle ==
    INSTANCE TicketLifecycle WITH
        Work <- [test : Tests \cup {NoTest}, code : Code],
        NoWork <- None,
        status <- IF disk.status \in {"blocked", "done"} THEN disk.status ELSE "open",
        vetted <- IF /\ verified # None /\ gated # None
                     /\ WorkOf(verified) = WorkOf(gated.files)
                  THEN WorkOf(verified) ELSE None,
        landed <- IF disk.status = "done" THEN WorkOf(Tree(disk.sha)) ELSE None

ImplementsLifecycle == Lifecycle!Spec
=============================================================================
