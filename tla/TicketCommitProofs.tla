------------------------- MODULE TicketCommitProofs -------------------------
(***************************************************************************)
(* Proofs about TicketPipeline: what the commits of a ticket rest on, who  *)
(* owns the edits left behind, what an approved change set survives, and   *)
(* that the pipeline implements TicketLifecycle.  For any tests, code,     *)
(* byproducts and limits; the kinds of meddling are what each theorem says.*)
(***************************************************************************)
EXTENDS TicketPipelineProofs, SequenceTheorems

-----------------------------------------------------------------------------
(* The inductive invariants.                                               *)

\* A ticket at work has a base; its commit is one commit on it.
OnBase ==
    /\ pc \notin {"idle", "start"} => mem.base # None
    /\ pc = "staged" => head = mem.base
    /\ pc = "committed" => IsPrefix(mem.base, head) /\ Len(head) = Len(mem.base) + 1 /\ head[Len(head)].mark
    /\ CommittedOnItsBase

\* Before a ticket has a base nobody has left edits.
Owned == pc \in {"idle", "start"} /\ Dirty => mem.base # None /\ mem.status # "done"

\* The worktree holds what was approved, with the ticket's commit or without.
Made == [tree |-> mem.tree, mark |-> TRUE, here |-> TRUE]

Ready ==
    mem.phase = "commit" /\ mem.status # "done" =>
        /\ onBranch /\ wt = mem.tree
        /\ mem.digest = [head |-> mem.last, branch |-> TRUE, index |-> None, files |-> mem.tree]
        /\ \/ head = mem.last /\ idx \in {mem.index, mem.tree}
           \/ head = Append(mem.last, Made) /\ idx = mem.tree

\* Approval and commit happen on the base, which is where the runner left HEAD.
Approving ==
    /\ mem.status # "done" => mem.base \in {None, mem.last}
    /\ pc = "regression" => onBranch /\ head = mem.base
    /\ pc \in {"gate", "gated"} => mem.digest.branch /\ mem.digest.head = mem.base
    /\ pc = "approving" => onBranch /\ head = mem.base
    /\ pc \in {"commit", "staged"} => head = mem.base
    /\ pc = "staged" => idx = wt
    /\ Ready

-----------------------------------------------------------------------------
(* The steps.                                                              *)

\* Steps that leave a ticket its base, and an approval what it was.
Keeps ==
    /\ mem'.base = mem.base /\ mem'.last = mem.last
    /\ "done" \notin {mem.status, mem'.status, disk'.status}
    /\ \/ mem'.phase # "commit"
       \/ /\ mem'.phase = mem.phase /\ mem'.digest = mem.digest
          /\ mem'.tree = mem.tree /\ mem'.index = mem.index

Adopts ==
    /\ AdoptHead /\ Goto("top") /\ IsPrefix(mem.base, head)
    /\ Save([mem EXCEPT !.base = head, !.last = head, !.adopted = TRUE])

Finishes == ((RecoverCommit /\ Recoverable) \/ Stage \/ AcceptCommit) /\ Finish(head)

\* The runner at work, with its ticket in memory and on disk.
LEMMA AtWork ==
    ASSUME Invariant
    PROVE  /\ mem \in Ticket /\ disk \in Ticket
           /\ disk.base = mem.base /\ disk.last = mem.last /\ disk.status = mem.status
           /\ disk.phase = mem.phase /\ disk.digest = mem.digest /\ disk.tree = mem.tree /\ disk.index = mem.index
           /\ disk.sha = mem.sha /\ disk.adopted = mem.adopted
           /\ pc # "idle" => mem.status # "done"
<1>1. mem \in Ticket /\ disk \in Ticket /\ Saved /\ InPhase
    BY DEF Invariant, TypeOK, TicketTypes, Vetting
<1> QED BY <1>1 DEF Saved, InPhase, Ticket

\* Every step keeps the ticket's base and approval, or is one of these.
LEMMA KindsOfStep ==
    ASSUME Invariant, [Next]_vars
    PROVE  Keeps \/ UNCHANGED <<disk, mem>> \/ Begin \/ Adopts \/ Approve \/ Block \/ Finishes
<1>0. /\ mem \in Ticket /\ disk \in Ticket /\ (pc # "idle" => mem.status # "done" /\ disk.status # "done")
      /\ disk.base = mem.base /\ disk.last = mem.last /\ disk.phase = mem.phase /\ disk.digest = mem.digest
      /\ disk.tree = mem.tree /\ disk.index = mem.index /\ disk.status = mem.status
    BY AtWork
<1>1. CASE RefuseToBegin \/ LeftBranch \/ CallTester \/ RejectTest \/ CallCoder \/ StepError \/ CallVerifier \/ Meddled
           \/ StartGate \/ RunGate \/ (\E b \in BOOLEAN : PassGate(b)) \/ RefuseStage \/ GitCommit \/ UserWorks \/ UNCHANGED vars
    BY <1>1 DEF RefuseToBegin, LeftBranch, CallTester, RejectTest, CallCoder, StepError, CallVerifier, Meddled, StartGate,
       RunGate, PassGate, RefuseStage, GitCommit, UserWorks, vars
<1>2. CASE RecoverCommit \/ AdoptHead \/ Stage \/ AcceptCommit
    BY <1>2 DEF RecoverCommit, AdoptHead, Stage, AcceptCommit, Finishes, Adopts
<1>3. CASE EnterPhase
    <2>1. mem' \in {mem, [mem EXCEPT !.satisfied = FALSE]} /\ disk' = disk /\ pc = "top"
        BY <1>3 DEF EnterPhase
    <2> QED BY <1>0, <2>1 DEF Keeps, Ticket
<1>4. CASE \E b \in BOOLEAN : AcceptTest(b)
    BY <1>0, <1>4 DEF AcceptTest, Save, Keeps, Ticket
<1>5. CASE SkipCoder \/ AcceptCode
    BY <1>0, <1>5 DEF SkipCoder, AcceptCode, Save, Keeps, Ticket
<1>6. CASE RejectCode
    <2>1. \/ UNCHANGED <<disk, mem>>
          \/ \E p \in {"refine_test", "coder"}, feedback \in BOOLEAN :
               mem' = [[mem EXCEPT !.phase = p, !.feedback = feedback] EXCEPT !.rounds = @ + 1] /\ disk' = mem' /\ pc = "coded"
        BY <1>6 DEF RejectCode, HandBack, Save
    <2>2. ASSUME NEW p \in {"refine_test", "coder"}, NEW feedback \in BOOLEAN, pc = "coded", disk' = mem',
                 mem' = [[mem EXCEPT !.phase = p, !.feedback = feedback] EXCEPT !.rounds = @ + 1]
          PROVE  Keeps
        BY <1>0, <2>2 DEF Keeps, Ticket
    <2> QED BY <2>1, <2>2
<1>7. CASE AcceptFix
    BY <1>0, <1>7 DEF AcceptFix, Save, Keeps, Ticket
<1>8. CASE Pass
    BY <1>0, <1>8 DEF Pass, Save, Keeps, Ticket
<1>9. ASSUME NEW phase \in {"refine_test", "coder"}, Rework(phase) \/ FailGate PROVE Keeps
    <2>1. \E p \in {"refine_test", "coder"}, feedback \in BOOLEAN :
             mem' = [[mem EXCEPT !.phase = p, !.feedback = feedback] EXCEPT !.rounds = @ + 1] /\ disk' = mem'
             /\ pc \in {"judged", "gated"}
        BY <1>9 DEF Rework, FailGate, HandBack, Save
    <2> QED BY <1>0, <2>1 DEF Keeps, Ticket
<1>10. CASE \E b \in BOOLEAN : StartRun(b)
    <2>1. /\ mem' = disk' /\ disk' \in {disk, [disk EXCEPT !.status = "pending", !.rounds = 0]}
          /\ disk.status # "done"
        BY <1>10 DEF StartRun, Save
    <2>2. CASE disk' = disk
        BY <1>0, <2>1, <2>2 DEF Keeps
    <2>3. CASE disk' = [disk EXCEPT !.status = "pending", !.rounds = 0]
        BY <1>0, <2>1, <2>3 DEF Keeps, Ticket
    <2> QED BY <2>1, <2>2, <2>3
<1>11. CASE Stop \/ BudgetExhausted
    <2>1. mem' = [mem EXCEPT !.status = "pending"] /\ disk' = mem' /\ pc # "idle"
        BY <1>11 DEF Stop, BudgetExhausted, Pause, Save
    <2> QED BY <1>0, <2>1 DEF Keeps, Ticket
<1>12. CASE Crash
    BY <1>0, <1>12 DEF Crash, Keeps
<1> QED BY <1>1, <1>2, <1>3, <1>4, <1>5, <1>6, <1>7, <1>8, <1>9, <1>10, <1>11, <1>12 DEF Next, Step

\* How the places near the commit are entered, and that only Begin leaves the start.
LEMMA Entered ==
    ASSUME Invariant, [Next]_vars, ~ UNCHANGED vars
    PROVE  /\ pc \in {"idle", "start"} /\ pc' \notin {"idle", "start"} => Begin
           /\ pc' = "regression" => EnterPhase /\ UNCHANGED mem
           /\ pc' = "gate" => StartGate
           /\ pc' = "gated" => RunGate
           /\ pc' = "approving" => \E b \in BOOLEAN : PassGate(b)
           /\ pc' = "commit" => EnterPhase /\ UNCHANGED mem
           /\ pc' = "staged" => Stage /\ UNCHANGED mem
           /\ pc' = "committed" => GitCommit
<1> USE DEF Goto, Leave
<1>1. CASE Begin \/ RefuseToBegin \/ LeftBranch \/ CallTester \/ RejectTest \/ (\E b \in BOOLEAN : AcceptTest(b)) \/ SkipCoder
    BY <1>1 DEF Begin, RefuseToBegin, LeftBranch, CallTester, RejectTest, AcceptTest, SkipCoder
<1>2. CASE CallCoder \/ RejectCode \/ AcceptCode \/ AcceptFix \/ StepError \/ CallVerifier \/ Meddled \/ Pass
    BY <1>2 DEF CallCoder, RejectCode, HandBack, AcceptCode, AcceptFix, StepError, CallVerifier, Meddled, Pass
<1>3. CASE Rework("refine_test") \/ Rework("coder") \/ StartGate \/ RunGate \/ FailGate \/ \E b \in BOOLEAN : PassGate(b)
    BY <1>3 DEF Rework, HandBack, StartGate, RunGate, FailGate, PassGate
<1>4. CASE RecoverCommit \/ AdoptHead
    BY <1>4 DEF RecoverCommit, AdoptHead, Finish
<1>5. CASE EnterPhase
    <2>1. mem.phase \in Phase
        BY AtWork DEF Ticket
    <2> QED BY <1>5, <2>1 DEF EnterPhase, Phase
<1>6. CASE Approve \/ Stage \/ RefuseStage \/ GitCommit \/ AcceptCommit \/ Block
    BY <1>6 DEF Approve, Stage, RefuseStage, GitCommit, AcceptCommit, Block, Finish
<1>7. CASE (\E b \in BOOLEAN : StartRun(b)) \/ Stop \/ BudgetExhausted \/ Crash \/ UserWorks
    BY <1>7 DEF StartRun, Stop, BudgetExhausted, Pause, Crash, UserWorks
<1> QED BY <1>1, <1>2, <1>3, <1>4, <1>5, <1>6, <1>7 DEF Next, Step

-----------------------------------------------------------------------------
(* Histories.                                                              *)

\* A commit on top of a history.
LEMMA OnTop ==
    ASSUME NEW h \in History, NEW x \in Commit
    PROVE  /\ Append(h, x) \in History /\ Len(Append(h, x)) = Len(h) + 1 /\ Append(h, x)[Len(h) + 1] = x
           /\ IsPrefix(h, Append(h, x)) /\ Tree(Append(h, x)) = x.tree /\ Front(Append(h, x)) = h
<1>1. /\ Append(h, x) \in History /\ Len(h) \in Nat /\ Len(Append(h, x)) = Len(h) + 1
      /\ Append(h, x)[Len(h) + 1] = x /\ \A i \in 1..Len(h) : Append(h, x)[i] = h[i]
    BY AppendProperties, LenProperties DEF History
<1>2. SubSeq(h, 1, Len(h)) = SubSeq(Append(h, x), 1, Len(h)) /\ SubSeq(h, 1, Len(h)) = h
    BY <1>1 DEF History
<1>3. IsPrefix(h, Append(h, x)) /\ Front(Append(h, x)) = h
    BY <1>1, <1>2 DEF IsPrefix, Front
<1>4. Append(h, x) # <<>>
    BY <1>1
<1> QED BY <1>1, <1>3, <1>4 DEF Tree

\* What comes before the last commit.
LEMMA FrontIs ==
    ASSUME NEW h \in History, Len(h) > 0
    PROVE  Len(h) = Len(Front(h)) + 1 /\ IsPrefix(Front(h), h) /\ Front(h) \in History
<1>1. Len(h) \in Nat /\ Len(h) - 1 \in Nat
    BY LenProperties DEF History
<1>2. Front(h) \in History /\ Len(Front(h)) = Len(h) - 1 /\ Front(h) = SubSeq(h, 1, Len(h) - 1)
    <2>1. SubSeq(h, 1, Len(h) - 1) \in Seq(Commit) /\ Len(SubSeq(h, 1, Len(h) - 1)) = Len(h) - 1
        <3>1. \A i \in 1..Len(h) - 1 : h[i] \in Commit
            BY <1>1 DEF History
        <3>2. 1 <= Len(h) - 1 \/ Len(h) - 1 = 0
            BY <1>1
        <3> QED BY <1>1, <3>1, <3>2, SubSeqProperties
    <2> QED BY <2>1 DEF Front, History
<1>3. SubSeq(Front(h), 1, Len(Front(h))) = Front(h)
    BY <1>2 DEF History
<1> QED BY <1>1, <1>2, <1>3 DEF IsPrefix

\* The commits of a history are all reached from it.
LEMMA NothingNew == ASSUME NEW h \in History PROVE \A i \in DOMAIN h : IsPrefix(SubSeq(h, 1, i), h)
<1> SUFFICES ASSUME NEW i \in DOMAIN h PROVE IsPrefix(SubSeq(h, 1, i), h)
    OBVIOUS
<1>1. Len(h) \in Nat /\ i \in 1..Len(h)
    BY LenProperties DEF History
<1>2. SubSeq(h, 1, i) \in History /\ Len(SubSeq(h, 1, i)) = i
    BY <1>1 DEF History
<1>3. SubSeq(SubSeq(h, 1, i), 1, i) = SubSeq(h, 1, i)
    BY <1>2 DEF History
<1> QED BY <1>1, <1>2, <1>3 DEF IsPrefix

\* A longer history is no part of a shorter one.
LEMMA NotReached ==
    ASSUME NEW h \in History, NEW x \in Commit
    PROVE  ~ IsPrefix(SubSeq(Append(h, x), 1, Len(h) + 1), h)
<1>1. Append(h, x) \in History /\ Len(Append(h, x)) = Len(h) + 1 /\ Len(h) \in Nat
    BY OnTop, LenProperties DEF History
<1>2. Len(SubSeq(Append(h, x), 1, Len(h) + 1)) = Len(h) + 1
    BY <1>1 DEF History
<1> QED BY <1>1, <1>2 DEF IsPrefix

-----------------------------------------------------------------------------
(* Commits rest on their base.                                             *)

\* What is finished has its one commit on its base, or an excuse for none.
LEMMA FinishedOnBase ==
    ASSUME Invariant, OnBase, Finishes
    PROVE  CommittedOnItsBase'
<1>0. mem \in Ticket /\ mem' = [mem EXCEPT !.sha = head, !.status = "done", !.last = head] /\ disk' = mem'
    BY AtWork DEF Finishes, Finish, Save
<1>1. /\ disk'.base = mem.base /\ disk'.sha = head
      /\ disk'.satisfied = mem.satisfied /\ disk'.adopted = mem.adopted
    BY <1>0 DEF Ticket
<1>2. CASE Stage /\ Finish(head)
    <2>1. pc' = "idle" /\ pc = "commit" /\ head = mem.base
        BY <1>2 DEF Stage, Approved, Finish, Leave
    <2>2. mem.satisfied \/ mem.adopted
        BY <1>2, <2>1 DEF Stage, Goto
    <2> QED BY <1>1, <2>1, <2>2 DEF CommittedOnItsBase
<1>3. CASE AcceptCommit /\ Finish(head)
    <2>1. IsPrefix(mem.base, head) /\ Len(head) = Len(mem.base) + 1 /\ head[Len(head)].mark
        BY <1>3 DEF AcceptCommit, OnBase
    <2> QED BY <1>1, <2>1 DEF CommittedOnItsBase
<1>4. CASE RecoverCommit /\ Recoverable
    <2>1. head \in History /\ Len(head) \in DOMAIN head /\ head[Len(head)].mark /\ Front(head) = mem.base
        BY <1>4 DEF Invariant, TypeOK, GitTypes, Recoverable, Marked, NewCommits
    <2>2. Len(head) > 0
        BY <2>1 DEF History
    <2> QED BY <1>1, <2>1, <2>2, FrontIs DEF CommittedOnItsBase
<1> QED BY <1>2, <1>3, <1>4 DEF Finishes

\* Every step keeps it, whoever meddles.
LEMMA OnBaseStep ==
    ASSUME Invariant, OnBase, [Next]_vars
    PROVE  OnBase'
<1> USE DEF OnBase
<1>0. /\ mem \in Ticket /\ disk \in Ticket /\ disk.status = mem.status /\ (pc # "idle" => mem.status # "done")
      /\ head \in History /\ idx \in Content
    BY AtWork DEF Invariant, TypeOK, GitTypes
<1>1. pc' \notin {"idle", "start"} => mem'.base # None
    <2>1. CASE Begin
        <3>1. mem' = [mem EXCEPT !.base = IF @ = None THEN head ELSE @, !.status = "in_progress"]
            BY <2>1 DEF Begin, Save
        <3>2. mem'.base = IF mem.base = None THEN head ELSE mem.base
            BY <1>0, <3>1 DEF Ticket
        <3> QED BY <1>0, <3>2, PipelineAssumption
    <2>2. CASE Adopts
        <3>1. mem'.base = head
            BY <1>0, <2>2 DEF Adopts, Save, Ticket
        <3> QED BY <1>0, <3>1, PipelineAssumption
    <2>3. CASE Approve
        <3>1. mem'.base = mem.base /\ pc = "approving"
            BY <1>0, <2>3 DEF Approve, Save, Ticket
        <3> QED BY <3>1
    <2>4. CASE Block \/ Finishes
        BY <2>4 DEF Block, Finishes, Finish, Leave
    <2>5. CASE Keeps \/ UNCHANGED <<disk, mem>>
        <3>1. mem'.base = mem.base
            BY <2>5 DEF Keeps
        <3>2. CASE ~ UNCHANGED vars /\ ~ Begin
            BY <3>1, <3>2, Entered
        <3> QED BY <2>1, <3>1, <3>2 DEF vars
    <2> QED BY <2>1, <2>2, <2>3, <2>4, <2>5, KindsOfStep
<1>2. pc' = "staged" => head' = mem'.base
    <2>1. CASE Stage /\ UNCHANGED mem
        BY <2>1 DEF Stage, Approved
    <2> QED BY <2>1, Entered DEF vars, git
<1>3. pc' = "committed" => IsPrefix(mem.base, head)' /\ Len(head') = Len(mem'.base) + 1 /\ head'[Len(head')].mark
    <2>1. CASE GitCommit
        <3>1. PICK made \in Content : head' = Append(head, [tree |-> made, mark |-> TRUE, here |-> TRUE])
            BY <1>0, <2>1 DEF GitCommit
        <3>2. [tree |-> made, mark |-> TRUE, here |-> TRUE] \in Commit
            BY DEF Commit
        <3>3. mem' = mem /\ head = mem.base
            BY <2>1 DEF GitCommit
        <3>4. PICK x \in Commit : head' = Append(head, x) /\ x.mark
            BY <3>1, <3>2
        <3>5. Len(head') = Len(head) + 1 /\ head'[Len(head')] = x /\ IsPrefix(head, head')
            BY <1>0, <3>4, OnTop
        <3> QED BY <3>3, <3>4, <3>5
    <2>2. CASE UNCHANGED vars
        BY <2>2 DEF vars, git
    <2> QED BY <2>1, <2>2, Entered
<1>4. CommittedOnItsBase'
    <2>1. CASE Keeps
        BY <2>1 DEF Keeps, CommittedOnItsBase
    <2>2. CASE UNCHANGED <<disk, mem>>
        BY <2>2 DEF CommittedOnItsBase
    <2>3. CASE Begin
        <3>1. disk'.status = "in_progress"
            BY <1>0, <2>3 DEF Begin, Save, Ticket
        <3> QED BY <3>1 DEF CommittedOnItsBase
    <2>4. CASE Adopts
        <3>1. disk'.status = mem.status /\ pc = "top"
            BY <1>0, <2>4 DEF Adopts, AdoptHead, Save, Ticket
        <3> QED BY <1>0, <3>1 DEF CommittedOnItsBase
    <2>5. CASE Approve
        <3>1. disk'.status = mem.status /\ pc = "approving"
            BY <1>0, <2>5 DEF Approve, Save, Ticket
        <3> QED BY <1>0, <3>1 DEF CommittedOnItsBase
    <2>6. CASE Block
        <3>1. disk'.status = "blocked"
            BY <1>0, <2>6 DEF Block, Save, Ticket
        <3> QED BY <3>1 DEF CommittedOnItsBase
    <2> QED BY <2>1, <2>2, <2>3, <2>4, <2>5, <2>6, FinishedOnBase, KindsOfStep
<1> QED BY <1>1, <1>2, <1>3, <1>4

\* A finished ticket has put exactly one commit on its base, however it was
\* interrupted and whoever meddled; or none, because its work was there already.
THEOREM CommitsRestOnBase == Spec => []CommittedOnItsBase
<1>1. Init => OnBase
    <2> SUFFICES ASSUME Init PROVE OnBase
        OBVIOUS
    <2>1. pc = "idle" /\ disk.status = "pending"
        BY DEF Init, NewTicket
    <2> QED BY <2>1 DEF OnBase, CommittedOnItsBase
<1>2. Invariant /\ OnBase /\ [Next]_vars => OnBase'
    BY OnBaseStep
<1>3. OnBase => CommittedOnItsBase
    BY DEF OnBase
<1> QED BY <1>1, <1>2, <1>3, InvariantHolds, PTL DEF Spec

-----------------------------------------------------------------------------
(* Edits have an owner.                                                    *)

\* What writes to the worktree of a runner that is left alone between its runs.
Writing ==
    \/ CallTester \/ CallCoder \/ RejectCode \/ CallVerifier \/ RunGate
    \/ (\E b \in BOOLEAN : PassGate(b)) \/ Stage \/ GitCommit

\* Nothing else changes HEAD or the files.
LEMMA OnlyWritingWrites ==
    ASSUME [Next]_vars, "user" \notin Meddling, ~ Writing
    PROVE  UNCHANGED git
<1>1. CASE Begin \/ RefuseToBegin \/ LeftBranch \/ RecoverCommit \/ AdoptHead \/ EnterPhase \/ RejectTest
           \/ (\E b \in BOOLEAN : AcceptTest(b)) \/ SkipCoder \/ AcceptCode \/ AcceptFix \/ StepError
    BY <1>1 DEF Begin, RefuseToBegin, LeftBranch, RecoverCommit, AdoptHead, EnterPhase, RejectTest, AcceptTest, SkipCoder,
       AcceptCode, AcceptFix, StepError
<1>2. CASE Meddled \/ Pass \/ Rework("refine_test") \/ Rework("coder") \/ StartGate \/ FailGate \/ Approve \/ RefuseStage
           \/ AcceptCommit \/ Block
    BY <1>2 DEF Meddled, Pass, Rework, StartGate, FailGate, Approve, RefuseStage, AcceptCommit, Block
<1>3. CASE (\E b \in BOOLEAN : StartRun(b)) \/ Stop \/ BudgetExhausted \/ Crash \/ UserWorks \/ UNCHANGED vars
    BY <1>3 DEF StartRun, Stop, BudgetExhausted, Crash, UserWorks, vars
<1> QED BY <1>1, <1>2, <1>3 DEF Next, Step, Writing

\* A ticket is finished only in a clean worktree.
LEMMA FinishedClean ==
    ASSUME Invariant, Finishes
    PROVE  ~ Dirty'
<1>1. CASE RecoverCommit /\ Recoverable
    BY <1>1 DEF RecoverCommit, Recoverable, Dirty, Changed, git
<1>2. CASE AcceptCommit /\ Finish(head)
    <2>1. ~ Dirty
        <3>1. pc' = "idle"
            BY <1>2 DEF Finish, Leave
        <3> QED BY <1>2, <3>1 DEF AcceptCommit, Goto
    <2> QED BY <1>2, <2>1 DEF AcceptCommit, Dirty, Changed, git
<1>3. CASE Stage /\ Finish(head)
    <2>1. pc' = "idle" /\ idx' = wt /\ UNCHANGED <<head, wt>>
        BY <1>3 DEF Stage, Finish, Leave
    <2>2. {p \in Part : wt[p] # Tree(head)[p]} = {}
        BY <1>3, <2>1 DEF Stage, Goto
    <2> QED BY <2>1, <2>2 DEF Dirty, Changed
<1> QED BY <1>1, <1>2, <1>3 DEF Finishes

\* Every step keeps it, if the user keeps his hands off the worktree.
LEMMA OwnedStep ==
    ASSUME Invariant, OnBase, Owned, "user" \notin Meddling, [Next]_vars
    PROVE  Owned'
<1>0. mem \in Ticket /\ disk.status = mem.status /\ (pc # "idle" => mem.status # "done")
    BY AtWork
<1> SUFFICES ASSUME pc' \in {"idle", "start"}, Dirty' PROVE mem'.base # None /\ mem'.status # "done"
    BY DEF Owned
<1>1. ~ Finishes
    BY FinishedClean
<1>2. UNCHANGED git
    <2>1. CASE Writing
        <3>1. ~ Stage
            BY <1>1 DEF Stage, Finishes, Goto
        <3>2. ~ (CallTester \/ CallCoder \/ CallVerifier \/ RunGate \/ GitCommit \/ \E b \in BOOLEAN : PassGate(b))
            BY DEF CallTester, CallCoder, CallVerifier, RunGate, GitCommit, PassGate, Goto
        <3>3. ~ RejectCode
            BY DEF RejectCode, HandBack, Leave
        <3> QED BY <2>1, <3>1, <3>2, <3>3 DEF Writing
    <2> QED BY <2>1, OnlyWritingWrites
<1>3. Dirty
    BY <1>2 DEF Dirty, Changed, git
<1>4. mem.base # None /\ mem.status # "done"
    BY <1>0, <1>3 DEF OnBase, Owned
<1>5. CASE Keeps \/ UNCHANGED <<disk, mem>>
    BY <1>4, <1>5 DEF Keeps
<1>6. CASE Block
    <2>1. mem' = [mem EXCEPT !.status = "blocked", !.base = mem.base]
        BY <1>0, <1>3, <1>6 DEF Block, Save, Ticket
    <2> QED BY <1>0, <1>4, <2>1 DEF Ticket
<1>7. CASE Begin \/ Adopts \/ Approve
    BY <1>7 DEF Begin, Adopts, Approve, Goto, Leave
<1> QED BY <1>1, <1>5, <1>6, <1>7, KindsOfStep

\* Edits left behind belong to an unfinished ticket that remembers its base,
\* whatever agents, commands and hooks do: only the user could leave others.
THEOREM EditsHaveAnOwner ==
    ASSUME "user" \notin Meddling
    PROVE  Spec => []OwnedEdits
<1>1. Init => OnBase /\ Owned
    <2> SUFFICES ASSUME Init PROVE OnBase /\ Owned
        OBVIOUS
    <2>1. pc = "idle" /\ disk.status = "pending"
        BY DEF Init, NewTicket
    <2>2. ~ Dirty
        BY DEF Init, Dirty, Changed, Tree
    <2> QED BY <2>1, <2>2 DEF OnBase, CommittedOnItsBase, Owned
<1>2. Invariant /\ OnBase /\ Owned /\ [Next]_vars => (OnBase /\ Owned)'
    BY OnBaseStep, OwnedStep
<1>3. Invariant /\ Owned => OwnedEdits
    BY AtWork DEF Owned, OwnedEdits
<1> QED BY <1>1, <1>2, <1>3, InvariantHolds, PTL DEF Spec

-----------------------------------------------------------------------------
(* What was approved survives.                                             *)

\* The commit that is made of what was approved, and when it counts as new.
LEMMA MadeIs ==
    ASSUME Invariant, Ready, mem.phase = "commit", mem.status # "done"
    PROVE  Made \in Commit /\ mem.last \in History /\ mem.tree \in Content
<1>1. mem \in Ticket /\ wt \in Content /\ wt = mem.tree
    BY AtWork DEF Invariant, TypeOK, GitTypes, Ready
<1> QED BY <1>1 DEF Made, Commit, Ticket

\* The runner finds no commit of its own on the base, and finds the one it just made.
LEMMA MarkedIs ==
    ASSUME Invariant, Ready, mem.phase = "commit", mem.status # "done", mem.base = mem.last
    PROVE  /\ head = mem.last => Marked = {}
           /\ head = Append(mem.last, Made) => Len(head) \in Marked
<1>1. CASE head = mem.last
    BY <1>1, MadeIs, NothingNew DEF Marked, NewCommits
<1>2. CASE head = Append(mem.last, Made)
    <2>1. Len(head) = Len(mem.last) + 1 /\ head[Len(mem.last) + 1] = Made /\ head \in History /\ Len(mem.last) \in Nat
        BY <1>2, MadeIs, OnTop, LenProperties DEF History
    <2>2. Len(head) \in DOMAIN head
        BY <2>1, LenProperties DEF History
    <2>3. SubSeq(head, 1, Len(head)) = SubSeq(Append(mem.last, Made), 1, Len(mem.last) + 1)
        BY <1>2, <2>1
    <2>4. ~ IsPrefix(SubSeq(head, 1, Len(head)), mem.base)
        BY <2>3, MadeIs, NotReached
    <2>5. head[Len(head)].mark
        BY <2>1 DEF Made
    <2> QED BY <1>2, <2>1, <2>2, <2>4, <2>5 DEF Marked, NewCommits
<1> QED BY <1>1, <1>2

\* HEAD is where the runner left it, on the run branch, while the gate is ahead.
LEMMA PlacesStep ==
    ASSUME Invariant, OnBase, Approving, [Next]_vars
    PROVE  /\ mem'.status # "done" => mem'.base \in {None, mem'.last}
           /\ pc' = "regression" => onBranch' /\ head' = mem'.base
           /\ pc' \in {"gate", "gated"} => mem'.digest.branch /\ mem'.digest.head = mem'.base
           /\ pc' = "approving" => onBranch' /\ head' = mem'.base
           /\ pc' \in {"commit", "staged"} => head' = mem'.base
           /\ pc' = "staged" => idx' = wt'
<1> USE DEF Approving
<1>0. mem \in Ticket
    BY AtWork
<1>1. mem'.status # "done" => mem'.base \in {None, mem'.last}
    <2>1. CASE Keeps \/ UNCHANGED <<disk, mem>>
        BY <2>1 DEF Keeps
    <2>2. CASE Begin
        <3>1. mem' = [mem EXCEPT !.base = IF @ = None THEN head ELSE @, !.status = "in_progress"] /\ pc = "start"
            BY <2>2 DEF Begin, Save
        <3>2. mem'.last = mem.last /\ mem'.base = IF mem.base = None THEN head ELSE mem.base
            BY <1>0, <3>1 DEF Ticket
        <3>3. mem.status # "done" /\ (mem.base = None => head = mem.last)
            BY <2>2, <3>1, AtWork DEF Begin
        <3> QED BY <3>2, <3>3
    <2>3. CASE Adopts
        BY <1>0, <2>3 DEF Adopts, Save, Ticket
    <2>4. CASE Approve
        <3>1. mem'.base = mem.base /\ mem'.last = mem.last /\ mem'.status = mem.status
            BY <1>0, <2>4 DEF Approve, Save, Ticket
        <3> QED BY <3>1
    <2>5. CASE Block
        <3>1. mem'.base \in {mem.base, None} /\ mem'.last = mem.last /\ mem.status # "done"
            BY <1>0, <2>5, AtWork DEF Block, Save, Ticket
        <3> QED BY <3>1
    <2>6. CASE Finishes
        <3>1. mem'.status = "done"
            BY <1>0, <2>6 DEF Finishes, Finish, Save, Ticket
        <3> QED BY <3>1
    <2> QED BY <2>1, <2>2, <2>3, <2>4, <2>5, <2>6, KindsOfStep
<1>2. CASE UNCHANGED vars
    BY <1>1, <1>2 DEF vars, git
<1>3. pc' \in {"regression", "commit"} /\ ~ UNCHANGED vars => onBranch' /\ head' = mem'.base
    BY Entered DEF EnterPhase, git
<1>4. pc' \in {"gate", "gated"} /\ ~ UNCHANGED vars => mem'.digest.branch /\ mem'.digest.head = mem'.base
    <2>1. CASE StartGate
        BY <2>1 DEF StartGate, FullDigest
    <2>2. CASE RunGate
        BY <2>2 DEF RunGate
    <2> QED BY <2>1, <2>2, Entered
<1>5. pc' = "approving" /\ ~ UNCHANGED vars => onBranch' /\ head' = mem'.base
    <2>1. ASSUME NEW b \in BOOLEAN, PassGate(b) PROVE onBranch' /\ head' = mem'.base
        BY <2>1 DEF PassGate, FullDigest
    <2> QED BY <2>1, Entered
<1>6. pc' = "staged" /\ ~ UNCHANGED vars => head' = mem'.base /\ idx' = wt'
    BY Entered DEF Stage
<1> QED BY <1>1, <1>2, <1>3, <1>4, <1>5, <1>6

\* The worktree keeps what was approved.
LEMMA ReadyStep ==
    ASSUME Invariant, OnBase, Approving, {"user", "hook"} \cap Meddling = {}, [Next]_vars
    PROVE  Ready'
<1> USE DEF Approving
<1>0. mem \in Ticket /\ (pc # "idle" => mem.status # "done") /\ Vetting /\ InPhase
    BY AtWork DEF Invariant, Vetting
<1>1. ASSUME UNCHANGED git, mem'.last = mem.last, mem.status # "done" \/ mem'.status = "done", mem'.phase = mem.phase,
             mem'.digest = mem.digest, mem'.tree = mem.tree, mem'.index = mem.index
      PROVE  Ready'
    BY <1>1 DEF Ready, Made, git
<1>2. CASE Finishes
    <2>1. mem'.status = "done"
        BY <1>0, <1>2 DEF Finishes, Finish, Save, Ticket
    <2> QED BY <2>1 DEF Ready
<1>3. CASE Approve
    <2>1. /\ mem'.digest = [head |-> head, branch |-> onBranch, index |-> None, files |-> wt] /\ mem'.index = idx
          /\ mem'.tree = wt /\ mem'.last = mem.last /\ pc = "approving" /\ UNCHANGED git
        BY <1>0, <1>3 DEF Approve, Save, WorkDigest, Ticket
    <2>2. head = mem.last /\ onBranch
        BY <1>0, <2>1 DEF OnBase
    <2> QED BY <2>1, <2>2 DEF Ready, git
<1>4. CASE Begin \/ Block
    <2>1. \E base, status : mem' = [mem EXCEPT !.base = base, !.status = status]
        <3>1. CASE Begin
            BY <3>1 DEF Begin, Save
        <3>2. CASE Block
            <4>1. mem' = [mem EXCEPT !.status = "blocked", !.base = IF Dirty THEN @ ELSE None]
                BY <3>2 DEF Block, Save
            <4>2. mem' = [mem EXCEPT !.base = IF Dirty THEN mem.base ELSE None, !.status = "blocked"]
                BY <1>0, <4>1 DEF Ticket
            <4> QED BY <4>2
        <3> QED BY <1>4, <3>1, <3>2
    <2>2. UNCHANGED git /\ pc # "idle"
        BY <1>4 DEF Begin, Block
    <2>3. /\ mem'.last = mem.last /\ mem'.phase = mem.phase /\ mem'.digest = mem.digest
          /\ mem'.tree = mem.tree /\ mem'.index = mem.index
        BY <1>0, <2>1 DEF Ticket
    <2> QED BY <1>0, <1>1, <2>2, <2>3
<1>5. CASE Adopts
    <2>1. mem'.phase = mem.phase /\ pc = "top" /\ head # mem.base /\ (mem.phase = "commit" => Marked = {})
        BY <1>0, <1>5 DEF Adopts, AdoptHead, Save, Ticket
    <2>2. mem.base = mem.last /\ mem.status # "done"
        BY <1>0, <2>1 DEF OnBase
    <2>3. mem.phase # "commit"
        BY <2>1, <2>2, MarkedIs DEF Ready
    <2> QED BY <2>1, <2>3 DEF Ready
<1>6. CASE (Keeps \/ UNCHANGED <<disk, mem>>) /\ ~ Writing
    <2>1. UNCHANGED git
        BY <1>6, OnlyWritingWrites
    <2>2. CASE mem'.phase # "commit"
        BY <2>2 DEF Ready
    <2>3. CASE mem'.phase = "commit"
        BY <1>1, <1>6, <2>1, <2>3 DEF Keeps
    <2> QED BY <2>2, <2>3
<1>7. CASE (Keeps \/ UNCHANGED <<disk, mem>>) /\ Writing /\ ~ Stage /\ ~ GitCommit
    <2>1. mem.phase # "commit"
        BY <1>0, <1>7 DEF Writing, CallTester, CallCoder, RejectCode, CallVerifier, RunGate, PassGate, InPhase
    <2>2. mem'.phase # "commit"
        BY <1>7, <2>1 DEF Keeps
    <2> QED BY <2>2 DEF Ready
<1>8. CASE Stage /\ ~ Finishes
    <2>1. pc = "commit" /\ Approved /\ idx' = wt /\ UNCHANGED <<mem, head, wt, onBranch>>
        BY <1>8 DEF Stage, Finishes
    <2>2. mem.phase = "commit" /\ mem.status # "done" /\ mem.base = mem.last /\ head = mem.base
        BY <1>0, <2>1 DEF InPhase, OnBase, Approved
    <2> QED BY <2>1, <2>2 DEF Ready, Made
<1>9. CASE GitCommit
    <2>1. pc = "staged" /\ UNCHANGED <<mem, onBranch>>
        BY <1>9 DEF GitCommit
    <2>2. /\ mem.phase = "commit" /\ mem.status # "done" /\ mem.base = mem.last /\ head = mem.base /\ idx = wt
          /\ onBranch /\ wt = mem.tree
        BY <1>0, <2>1 DEF InPhase, OnBase, Ready
    <2>3. head' = Append(head, [tree |-> idx, mark |-> TRUE, here |-> TRUE]) /\ idx' = idx /\ wt' = wt
        BY <1>9, <2>2 DEF GitCommit
    <2> QED BY <2>1, <2>2, <2>3 DEF Ready, Made
<1> QED BY <1>2, <1>3, <1>4, <1>5, <1>6, <1>7, <1>8, <1>9, KindsOfStep

\* What was approved for commit passes the checks that guard against meddling:
\* a run that is resumed commits it, or recovers the commit already made. The
\* checks before approval answer for agents and commands; hooks and the user act
\* after it.
THEOREM ApprovalSurvives ==
    ASSUME {"user", "hook"} \cap Meddling = {}
    PROVE  Spec => []CommitSurvives
<1>1. Init => OnBase /\ Approving
    <2> SUFFICES ASSUME Init PROVE OnBase /\ Approving
        OBVIOUS
    <2>1. PICK kind \in Kinds : mem = NewTicket(kind) /\ disk = mem
        BY DEF Init
    <2>2. pc = "idle" /\ disk.status = "pending" /\ mem.base = None /\ mem.phase \in {"coder", "tester"}
        BY <2>1 DEF Init, NewTicket
    <2> QED BY <2>2 DEF OnBase, CommittedOnItsBase, Approving, Ready
<1>2. Invariant /\ OnBase /\ Approving /\ [Next]_vars => (OnBase /\ Approving)'
    BY OnBaseStep, PlacesStep, ReadyStep DEF Approving
<1>3. Invariant /\ OnBase /\ Approving => CommitSurvives
    <2> SUFFICES ASSUME Invariant, OnBase, Approving, mem.phase = "commit", pc \in {"top", "commit"}
                 PROVE  /\ pc = "commit" => Approved
                        /\ Marked # {} => Recoverable
        BY DEF CommitSurvives, Invariant, Vetting, InPhase
    <2>1. mem.status # "done" /\ mem.base = mem.last /\ Ready
        BY AtWork DEF OnBase, Approving
    <2>2. pc = "commit" => Approved
        BY <2>1 DEF Approving, Ready, Approved, WorkDigest
    <2>3. ASSUME Marked # {} PROVE Recoverable
        <3>1. head = Append(mem.last, Made) /\ idx = mem.tree /\ wt = mem.tree
            BY <2>1, <2>3, MarkedIs DEF Ready
        <3>2. Len(head) \in Marked /\ Front(head) = mem.base /\ Tree(head) = mem.tree
            BY <2>1, <3>1, MarkedIs, MadeIs, OnTop DEF Made
        <3> QED BY <3>1, <3>2 DEF Recoverable, Dirty, Changed
    <2> QED BY <2>2, <2>3
<1> QED BY <1>1, <1>2, <1>3, InvariantHolds, PTL DEF Spec

-----------------------------------------------------------------------------
(* The pipeline implements the life of a ticket.                           *)

\* A ticket at work is neither blocked nor done.
Open == pc # "idle" => mem.status \in {"pending", "in_progress"}

\* In the eyes of its life a step judges open work, finishes or blocks the
\* ticket, starts a run, or is nothing at all.
LEMMA LifeOfStep ==
    ASSUME Invariant, Open, [Next]_vars
    PROVE  \/ pc # "idle" /\ mem'.status \in {"pending", "in_progress"}
           \/ UNCHANGED <<disk, mem, history>> /\ (pc' # "idle" => pc # "idle")
           \/ Finishes /\ UNCHANGED history
           \/ Block
           \/ \E b \in BOOLEAN : StartRun(b)
<1>0. mem \in Ticket /\ disk \in Ticket /\ disk.status = mem.status
    BY AtWork
<1>1. CASE RefuseToBegin \/ LeftBranch \/ CallTester \/ RejectTest \/ CallCoder \/ StepError \/ CallVerifier \/ Meddled
           \/ StartGate \/ RunGate \/ (\E b \in BOOLEAN : PassGate(b)) \/ RefuseStage \/ GitCommit
    <2>1. mem' = mem /\ pc # "idle"
        BY <1>1 DEF RefuseToBegin, LeftBranch, CallTester, RejectTest, CallCoder, StepError, CallVerifier, Meddled, StartGate,
           RunGate, PassGate, RefuseStage, GitCommit
    <2> QED BY <2>1 DEF Open
<1>2. CASE UserWorks \/ UNCHANGED vars
    BY <1>2 DEF UserWorks, vars
<1>3. CASE RecoverCommit \/ Stage \/ AcceptCommit
    <2>1. pc # "idle" /\ UNCHANGED history /\ (mem' = mem \/ Finishes)
        BY <1>3 DEF RecoverCommit, Stage, AcceptCommit, Finishes
    <2> QED BY <2>1 DEF Open
<1>4. CASE Begin
    <2>1. mem'.status = "in_progress" /\ pc # "idle"
        BY <1>0, <1>4 DEF Begin, Save, Ticket
    <2> QED BY <2>1
<1>5. CASE AdoptHead \/ EnterPhase \/ (\E b \in BOOLEAN : AcceptTest(b)) \/ SkipCoder \/ AcceptCode \/ AcceptFix \/ Pass \/ Approve
    <2>1. mem'.status = mem.status /\ pc # "idle"
        BY <1>0, <1>5 DEF AdoptHead, EnterPhase, AcceptTest, SkipCoder, AcceptCode, AcceptFix, Pass, Approve, Save, Ticket
    <2> QED BY <2>1 DEF Open
<1>6. CASE RejectCode \/ Rework("refine_test") \/ Rework("coder") \/ FailGate
    <2>1. /\ pc # "idle"
          /\ \/ mem' = mem
             \/ \E p \in {"refine_test", "coder"}, feedback \in BOOLEAN :
                  mem' = [[mem EXCEPT !.phase = p, !.feedback = feedback] EXCEPT !.rounds = @ + 1]
        BY <1>6 DEF RejectCode, Rework, FailGate, HandBack, Save
    <2>2. ASSUME NEW p \in {"refine_test", "coder"}, NEW feedback \in BOOLEAN,
                 mem' = [[mem EXCEPT !.phase = p, !.feedback = feedback] EXCEPT !.rounds = @ + 1]
          PROVE  mem'.status = mem.status
        BY <1>0, <2>2 DEF Ticket
    <2> QED BY <2>1, <2>2 DEF Open
<1>7. CASE Stop \/ BudgetExhausted
    <2>1. mem'.status = "pending" /\ pc # "idle"
        BY <1>0, <1>7 DEF Stop, BudgetExhausted, Pause, Save, Ticket
    <2> QED BY <2>1
<1>8. CASE Crash
    <2>1. mem' = disk /\ pc # "idle"
        BY <1>8 DEF Crash
    <2> QED BY <1>0, <2>1 DEF Open
<1>9. CASE Block \/ \E b \in BOOLEAN : StartRun(b)
    BY <1>9
<1> QED BY <1>1, <1>2, <1>3, <1>4, <1>5, <1>6, <1>7, <1>8, <1>9 DEF Next, Step

\* A run starts with an open ticket, and only blocking and finishing end it otherwise.
LEMMA OpenStep ==
    ASSUME Invariant, Open, [Next]_vars
    PROVE  Open'
<1>0. mem \in Ticket /\ disk \in Ticket
    BY AtWork
<1>1. CASE Finishes \/ Block
    BY <1>1 DEF Finishes, Finish, Block, Leave, Open
<1>2. CASE \E b \in BOOLEAN : StartRun(b)
    <2>1. \/ mem' = [disk EXCEPT !.status = "pending", !.rounds = 0]
          \/ mem' = disk /\ disk.status \in {"pending", "in_progress"}
        BY <1>2 DEF StartRun, Save
    <2> QED BY <1>0, <2>1 DEF Open, Ticket
<1>3. CASE UNCHANGED <<disk, mem, history>> /\ (pc' # "idle" => pc # "idle")
    BY <1>3 DEF Open
<1>4. CASE mem'.status \in {"pending", "in_progress"}
    BY <1>4 DEF Open
<1> QED BY <1>1, <1>2, <1>3, <1>4, LifeOfStep

\* A finishing step lands the work that was vetted.
LEMMA FinishLands ==
    ASSUME Invariant, Invariant', Open, Finishes, UNCHANGED history
    PROVE  Lifecycle!Land
<1>1. mem \in Ticket /\ pc # "idle" /\ disk.status = mem.status
    BY AtWork DEF Finishes, RecoverCommit, Stage, AcceptCommit
<1>2. disk' = [mem EXCEPT !.sha = head, !.status = "done", !.last = head]
    BY DEF Finishes, Finish, Save
<1>3. disk.status \in {"pending", "in_progress"} /\ disk'.status = "done"
    BY <1>1, <1>2 DEF Open, Ticket
<1>4. /\ WorkOf(Tree(disk'.sha)) = WorkOf(verified) /\ WorkOf(Tree(disk'.sha)) = WorkOf(gated.files)
      /\ verified # None /\ gated # None /\ verified' = verified /\ gated' = gated
    <2>1. LandedAsVetted'
        BY VettedByInvariant, PTL
    <2> QED BY <1>3, <2>1 DEF LandedAsVetted, history
<1>5. WorkOf(verified) # None
    <2>1. verified \in Content
        BY <1>4 DEF Invariant, TypeOK, HistoryTypes
    <2>2. WorkOf(verified) \in [test : Tests \cup {NoTest}, code : Code]
        BY <2>1 DEF WorkOf, Content
    <2> QED BY <2>2, PipelineAssumption
<1> QED BY <1>3, <1>4, <1>5 DEF Lifecycle!Land

\* Every step of the pipeline is a step in the life of the ticket, or none.
LEMMA LifeStep ==
    ASSUME Invariant, Invariant', Open, [Next]_vars
    PROVE  [Lifecycle!Next]_Lifecycle!vars
<1> DEFINE Judged(v, g) == IF v # None /\ g # None /\ WorkOf(v) = WorkOf(g.files) THEN WorkOf(v) ELSE None
<1>0. mem \in Ticket /\ disk \in Ticket /\ disk.status = mem.status /\ disk'.status = mem'.status
    BY AtWork DEF Invariant, TypeOK, TicketTypes, Vetting, Saved, Ticket
<1>1. CASE pc # "idle" /\ mem'.status \in {"pending", "in_progress"}
    <2>1. disk.status \in {"pending", "in_progress"} /\ disk'.status \in {"pending", "in_progress"}
        BY <1>0, <1>1 DEF Open
    <2>2. Judged(verified', gated') \in [test : Tests \cup {NoTest}, code : Code] \cup {None}
        <3>1. verified' \in Content \cup {None}
            BY DEF Invariant, TypeOK, HistoryTypes
        <3> QED BY <3>1 DEF WorkOf, Content
    <2>3. Lifecycle!Judge
        BY <2>1, <2>2 DEF Lifecycle!Judge
    <2> QED BY <2>3 DEF Lifecycle!Next
<1>2. CASE UNCHANGED <<disk, mem, history>>
    BY <1>2 DEF Lifecycle!vars, history
<1>3. CASE Finishes /\ UNCHANGED history
    BY <1>3, FinishLands DEF Lifecycle!Next
<1>4. CASE Block
    <2>1. /\ disk' = [mem EXCEPT !.status = "blocked", !.base = IF Dirty THEN @ ELSE None]
          /\ pc # "idle" /\ UNCHANGED history
        BY <1>4 DEF Block, Save
    <2>2. disk.status \in {"pending", "in_progress"} /\ disk'.status = "blocked"
        BY <1>0, <2>1 DEF Open, Ticket
    <2>3. Lifecycle!Block
        BY <2>1, <2>2 DEF Lifecycle!Block, history
    <2> QED BY <2>3 DEF Lifecycle!Next
<1>5. ASSUME NEW retryBlocked \in BOOLEAN, StartRun(retryBlocked)
      PROVE  [Lifecycle!Next]_Lifecycle!vars
    <2>1. UNCHANGED history
        BY <1>5 DEF StartRun
    <2>2. CASE retryBlocked
        <3>1. disk.status = "blocked" /\ disk' = [disk EXCEPT !.status = "pending", !.rounds = 0]
            BY <1>5, <2>2 DEF StartRun, Save
        <3>2. disk'.status = "pending"
            BY <1>0, <3>1 DEF Ticket
        <3>3. Lifecycle!Reopen
            BY <2>1, <3>1, <3>2 DEF Lifecycle!Reopen, history
        <3> QED BY <3>3 DEF Lifecycle!Next
    <2>3. CASE ~ retryBlocked
        BY <1>5, <2>1, <2>3 DEF StartRun, Save, Lifecycle!vars, history
    <2> QED BY <2>2, <2>3
<1> QED BY <1>1, <1>2, <1>3, <1>4, <1>5, LifeOfStep

\* Seen through vetted and landed work, the pipeline is the ticket's life:
\* only vetted work lands, exactly as vetted, and landing is final.
THEOREM PipelineIsALife == Spec => ImplementsLifecycle
<1>1. Init => Open /\ Lifecycle!Init
    <2> SUFFICES ASSUME Init PROVE Open /\ Lifecycle!Init
        OBVIOUS
    <2>1. pc = "idle" /\ disk.status = "pending" /\ verified = None
        BY DEF Init, NewTicket
    <2> QED BY <2>1 DEF Open, Lifecycle!Init
<1>2. Invariant /\ Open /\ [Next]_vars => Open'
    BY OpenStep
<1>3. Invariant /\ Invariant' /\ Open /\ [Next]_vars => [Lifecycle!Next]_Lifecycle!vars
    BY LifeStep
<1> QED BY <1>1, <1>2, <1>3, InvariantHolds, PTL DEF Spec, ImplementsLifecycle, Lifecycle!Spec
=============================================================================
