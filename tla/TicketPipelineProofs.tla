------------------------ MODULE TicketPipelineProofs ------------------------
(***************************************************************************)
(* Proofs about TicketPipeline, for any tests, code, byproducts, kinds of  *)
(* meddling and limits.                                                    *)
(***************************************************************************)
EXTENDS TicketPipeline, TLAPS

-----------------------------------------------------------------------------
(* The inductive invariants.                                               *)

\* The coder works against an accepted test, which is there to be restored.
AcceptedTest == pc \in {"coder", "coded"} /\ mem.kind = "tdd" => mem.test \in Tests

\* What is in memory but not yet saved is at most already_satisfied.
Saved == disk = [mem EXCEPT !.satisfied = disk.satisfied]

\* The runner is where the phase of the ticket says, and never at a done one.
InPhase ==
    /\ pc \in {"tester", "tested"} => mem.phase \in {"tester", "refine_test"}
    /\ pc \in {"coder", "coded"} => mem.phase = "coder"
    /\ pc \in {"verifier", "judged"} => mem.phase = "verifier"
    /\ pc \in {"regression", "gate", "gated", "approving"} => mem.phase = "regression"
    /\ pc \in {"commit", "staged", "committed"} => mem.phase = "commit"
    /\ pc # "idle" => mem.status # "done"

\* What a ticket past its verifier claims of the work it describes.
Verified(t) ==
    /\ verified \in Content /\ t.digest \in Digest /\ t.digest.files = verified
    /\ t.kind = "tdd" => verified.test = t.test

Approval(t) ==
    /\ t.tree \in Content /\ t.digest \in Digest /\ t.digest.files = t.tree
    /\ verified \in Content /\ WorkOf(t.tree) = WorkOf(verified)
    /\ gated \in Suite /\ WorkOf(t.tree) = WorkOf(gated.files)
    /\ t.kind = "tdd" => t.tree.test = t.test
    /\ t.full # None => gated.full /\ t.full = t.tree

Claims(t) ==
    /\ t.phase = "regression" => Verified(t)
    /\ t.phase = "commit" => Approval(t)
    /\ t.status = "done" => t.phase = "commit" /\ t.sha \in History /\ Tree(t.sha) = t.tree

\* What holds in between the saves.
Underway ==
    /\ pc = "verifier" /\ mem.kind = "tdd" => wt.test = mem.test
    /\ pc = "judged" => before \in Digest /\ (mem.kind = "tdd" => before.files.test = mem.test)
    /\ pc = "approving" =>
         /\ gated \in Suite /\ gated.full = fullRun
         /\ gated.files = verified /\ WorkOf(wt) = WorkOf(verified)

Vetting == Saved /\ InPhase /\ Claims(mem) /\ Underway

-----------------------------------------------------------------------------
(* Types.                                                                  *)

\* A commit, and the start of the run branch, has a tree.
LEMMA TreeIsContent ==
    ASSUME NEW h \in History
    PROVE  Tree(h) \in Content
<1>1. BaseTree \in Content
    BY PipelineAssumption DEF BaseTree, Content
<1>2. CASE h = <<>>
    BY <1>1, <1>2 DEF Tree
<1>3. CASE h # <<>>
    <2>1. Len(h) \in DOMAIN h /\ h[Len(h)] \in Commit
        BY <1>3 DEF History
    <2> QED BY <2>1, <1>3 DEF Tree, Commit
<1> QED BY <1>2, <1>3

\* Whatever the rest of the world does, git stays git.
LEMMA DisturbKeepsGit ==
    ASSUME GitTypes, Disturb
    PROVE  GitTypes'
<1>1. CASE EditFiles
    BY <1>1 DEF EditFiles, GitTypes
<1>2. CASE AddCommit
    <2>1. PICK made \in Content, here \in BOOLEAN :
            /\ head' = Append(head, [tree |-> made, mark |-> FALSE, here |-> here])
            /\ wt' = made /\ idx' = made
        BY <1>2 DEF AddCommit
    <2>2. [tree |-> made, mark |-> FALSE, here |-> here] \in Commit
        BY DEF Commit
    <2> QED BY <1>2, <2>1, <2>2 DEF AddCommit, GitTypes, History
<1>3. CASE ResetHard
    <2>1. PICK n \in 0..Len(head) - 1 :
            /\ head' = SubSeq(head, 1, n)
            /\ wt' = Tree(SubSeq(head, 1, n)) /\ idx' = Tree(SubSeq(head, 1, n))
        BY <1>3 DEF ResetHard
    <2>2. SubSeq(head, 1, n) \in History
        BY DEF GitTypes, History
    <2> QED BY <1>3, <2>1, <2>2, TreeIsContent DEF ResetHard, GitTypes
<1>4. CASE SwitchBranch
    BY <1>4 DEF SwitchBranch, GitTypes
<1> QED BY <1>1, <1>2, <1>3, <1>4 DEF Disturb

\* The digests are digests.
LEMMA DigestTypes ==
    ASSUME GitTypes
    PROVE  FullDigest \in Digest /\ WorkDigest \in Digest
BY DEF GitTypes, FullDigest, WorkDigest, Digest

\* Opening a ticket keeps it a ticket, and its rounds.
LEMMA BaseUpdate ==
    ASSUME NEW t \in Ticket, NEW base \in History \cup {None}, NEW status \in Status
    PROVE  LET u == [t EXCEPT !.base = base, !.status = status]
           IN  u \in Ticket /\ u.rounds = t.rounds
BY DEF Ticket

\* Nor does blocking it.
LEMMA BlockUpdate ==
    ASSUME NEW t \in Ticket, NEW base \in History \cup {None}, NEW status \in Status
    PROVE  LET u == [t EXCEPT !.status = status, !.base = base]
           IN  u \in Ticket /\ u.rounds = t.rounds
BY DEF Ticket

\* Nor does handing it to an agent with feedback.
LEMMA FeedbackUpdate ==
    ASSUME NEW t \in Ticket, NEW phase \in Phase, NEW feedback \in BOOLEAN
    PROVE  LET u == [t EXCEPT !.phase = phase, !.feedback = feedback]
           IN  u \in Ticket /\ u.rounds = t.rounds
BY DEF Ticket

\* Nor does recording what the verifier passed.
LEMMA VerdictUpdate ==
    ASSUME NEW t \in Ticket, NEW digest \in Digest
    PROVE  LET u == [t EXCEPT !.digest = digest, !.phase = "regression"]
           IN  u \in Ticket /\ u.rounds = t.rounds
BY DEF Ticket, Phase

\* Nor does recording a pre-PR fix.
LEMMA FixUpdate ==
    ASSUME NEW t \in Ticket, NEW digest \in Digest, NEW satisfied \in BOOLEAN
    PROVE  LET u == [t EXCEPT !.phase = "regression", !.feedback = FALSE,
                              !.digest = digest, !.satisfied = satisfied]
           IN  u \in Ticket /\ u.rounds = t.rounds
BY DEF Ticket, Phase

\* Leaving a step resets the local variables.
LEMMA LeaveTypes ==
    ASSUME NEW place \in Places, Leave(place)
    PROVE  LocalTypes' /\ tries' = 0 /\ pc' = place
<1>1. pc' = place /\ tries' = 0 /\ before' = None
    BY DEF Leave
<1>2. fullRun' \in BOOLEAN
    BY DEF Leave
<1> QED BY <1>1, <1>2 DEF LocalTypes

\* Moving on within a step keeps them.
LEMMA GotoTypes ==
    ASSUME NEW place \in Places, Goto(place), LocalTypes
    PROVE  LocalTypes' /\ tries' = tries /\ pc' = place
BY DEF Goto, local, LocalTypes

\* Saving a ticket with as many rounds as before, and leaving with no attempt
\* counted, is within the limits anywhere.
LEMMA SavedWithinLimits ==
    ASSUME WithinLimits, tries' = tries \/ tries' = 0, mem'.rounds = mem.rounds,
           pc \notin {"idle", "failed", "blocking"} \/ pc' \in {"idle", "failed", "blocking"}
    PROVE  WithinLimits'
BY PipelineAssumption DEF WithinLimits

\* A hand-back saves a ticket, and blocks it before it has a round too many.
LEMMA HandBackTypes ==
    ASSUME TypeOK, pc \notin {"idle", "failed", "blocking"},
           NEW t \in Ticket, t.rounds = mem.rounds, HandBack(t), GitTypes'
    PROVE  TypeOK'
<1> DEFINE back == [t EXCEPT !.rounds = @ + 1]
           place == IF back.rounds > MaxRounds THEN "blocking" ELSE "top"
<1>1. back \in Ticket /\ back.rounds = mem.rounds + 1 /\ mem.rounds \in Nat
    BY DEF TypeOK, TicketTypes, Ticket
<1>2. mem' = back /\ disk' = back
    BY DEF HandBack, Save
<1>3. LocalTypes' /\ tries' = 0 /\ pc' = place
    <2>1. place \in Places
        BY DEF Places
    <2>2. Leave(place)
        BY DEF HandBack
    <2> QED BY ONLY <2>1, <2>2, LeaveTypes
<1>4. WithinLimits'
    BY <1>1, <1>2, <1>3, PipelineAssumption DEF TypeOK, WithinLimits
<1>5. TicketTypes'
    BY <1>1, <1>2 DEF TicketTypes
<1>6. HistoryTypes'
    BY DEF HandBack, HistoryTypes
<1> QED BY <1>3, <1>4, <1>5, <1>6 DEF TypeOK

-----------------------------------------------------------------------------
(* Every action keeps the types.                                           *)

\* A step that saves a well-typed ticket with as many rounds as before.
LEMMA SavingStep ==
    ASSUME TypeOK, mem' \in Ticket, mem'.rounds = mem.rounds, disk' \in Ticket,
           GitTypes', HistoryTypes', LocalTypes', tries' = tries \/ tries' = 0,
           pc \notin {"idle", "failed", "blocking"} \/ pc' \in {"idle", "failed", "blocking"}
    PROVE  TypeOK'
BY SavedWithinLimits DEF TypeOK, TicketTypes

\* A step that moves on from one place to the next and saves nothing.
LEMMA QuietStep ==
    ASSUME TypeOK, NEW place \in Places, Goto(place), UNCHANGED <<disk, mem, history>>, GitTypes',
           pc \notin {"idle", "failed", "blocking"} \/ place \in {"idle", "failed", "blocking"}
    PROVE  TypeOK'
<1>1. LocalTypes' /\ tries' = tries /\ pc' = place
    BY GotoTypes DEF TypeOK
<1>2. mem' \in Ticket /\ disk' \in Ticket /\ mem'.rounds = mem.rounds
    BY DEF TypeOK, TicketTypes
<1>3. HistoryTypes'
    BY DEF TypeOK, HistoryTypes, history
<1> QED BY <1>1, <1>2, <1>3, SavingStep

\* A step that saves a ticket and leaves for another place.
LEMMA LeavingStep ==
    ASSUME TypeOK, NEW place \in Places, Leave(place), mem' \in Ticket, disk' \in Ticket,
           mem'.rounds = mem.rounds, GitTypes', HistoryTypes',
           pc \notin {"idle", "failed", "blocking"} \/ place \in {"idle", "failed", "blocking"}
    PROVE  TypeOK'
<1>1. LocalTypes' /\ tries' = 0 /\ pc' = place
    BY LeaveTypes
<1> QED BY <1>1, SavingStep

\* Finishing a ticket.
LEMMA FinishTypes ==
    ASSUME TypeOK, Finish(head), GitTypes', UNCHANGED history
    PROVE  TypeOK'
<1> DEFINE t == [mem EXCEPT !.sha = head, !.status = "done", !.last = head]
<1>1. t \in Ticket /\ t.rounds = mem.rounds
    <2>1. mem \in Ticket /\ head \in History
        BY DEF TypeOK, TicketTypes, GitTypes
    <2> QED BY <2>1 DEF Ticket, Status
<1>2. mem' = t /\ disk' = t /\ Leave("idle")
    BY DEF Finish, Save
<1>3. HistoryTypes' /\ "idle" \in Places
    BY DEF TypeOK, HistoryTypes, history, Places
<1> QED BY <1>1, <1>2, <1>3, LeavingStep

\* Pausing a ticket.
LEMMA PauseTypes ==
    ASSUME TypeOK, Pause, UNCHANGED <<git, history>>
    PROVE  TypeOK'
<1> DEFINE t == [mem EXCEPT !.status = "pending"]
<1>1. t \in Ticket /\ t.rounds = mem.rounds
    BY DEF TypeOK, TicketTypes, Ticket, Status
<1>2. mem' = t /\ disk' = t /\ Leave("idle")
    BY DEF Pause, Save
<1>3. HistoryTypes' /\ GitTypes' /\ "idle" \in Places
    BY DEF TypeOK, HistoryTypes, GitTypes, git, history, Places
<1> QED BY <1>1, <1>2, <1>3, LeavingStep

\* Every step of the runner keeps the types and the limits.
LEMMA StepKeepsTypes ==
    ASSUME TypeOK, AcceptedTest, Step
    PROVE  TypeOK'
<1>0. /\ mem \in Ticket /\ disk \in Ticket /\ GitTypes /\ LocalTypes /\ HistoryTypes
      /\ head \in History /\ wt \in Content /\ idx \in Content /\ Tree(head) \in Content
    BY TreeIsContent DEF TypeOK, TicketTypes, GitTypes
<1>1. CASE Begin
    <2> DEFINE base == IF mem.base = None THEN head ELSE mem.base
               t == [mem EXCEPT !.base = base, !.status = "in_progress"]
    <2>1. t \in Ticket /\ t.rounds = mem.rounds
        <3>1. base \in History \cup {None} /\ "in_progress" \in Status
            BY <1>0 DEF Ticket, Status
        <3> QED BY <1>0, <3>1, BaseUpdate
    <2>2. mem' = t /\ disk' = t /\ Goto("top") /\ "top" \in Places
        BY <1>1 DEF Begin, Save, Places
    <2>3. GitTypes' /\ HistoryTypes'
        BY <1>1, <1>0 DEF Begin, git, history, GitTypes, HistoryTypes
    <2> QED BY <1>0, <1>1, <2>1, <2>2, <2>3, GotoTypes, SavingStep DEF Begin
<1>2. CASE RefuseToBegin
    <2>1. Leave("idle") /\ "idle" \in Places /\ mem' = mem /\ disk' = disk
        BY <1>2 DEF RefuseToBegin, Places
    <2>2. GitTypes' /\ HistoryTypes'
        BY <1>2, <1>0 DEF RefuseToBegin, git, history, GitTypes, HistoryTypes
    <2> QED BY <1>0, <2>1, <2>2, LeavingStep
<1>3. CASE LeftBranch
    <2>1. Goto("failed") /\ "failed" \in Places
        BY <1>3 DEF LeftBranch, Places
    <2>2. GitTypes'
        BY <1>3, <1>0 DEF LeftBranch, git, GitTypes
    <2> QED BY <1>3, <2>1, <2>2, QuietStep DEF LeftBranch
<1>4. CASE RecoverCommit
    <2>1. UNCHANGED <<git, history>> /\ GitTypes'
        BY <1>4, <1>0 DEF RecoverCommit, git, GitTypes
    <2>2. CASE Recoverable
        BY <1>4, <2>1, <2>2, FinishTypes DEF RecoverCommit
    <2>3. CASE ~ Recoverable
        <3>1. Goto("failed") /\ "failed" \in Places /\ UNCHANGED <<disk, mem>>
            BY <1>4, <2>3 DEF RecoverCommit, Places
        <3> QED BY <2>1, <3>1, QuietStep
    <2> QED BY <2>2, <2>3
<1>5. CASE AdoptHead
    <2>1. UNCHANGED <<git, history>> /\ GitTypes' /\ HistoryTypes' /\ pc = "top"
        BY <1>5, <1>0 DEF AdoptHead, git, history, GitTypes, HistoryTypes
    <2> DEFINE t == [mem EXCEPT !.base = head, !.last = head, !.adopted = TRUE]
    <2>2. CASE Save(t) /\ Goto("top")
        <3>1. t \in Ticket /\ t.rounds = mem.rounds
            BY <1>0 DEF Ticket
        <3>2. mem' = t /\ disk' = t /\ "top" \in Places
            BY <2>2 DEF Save, Places
        <3> QED BY <1>0, <2>1, <2>2, <3>1, <3>2, GotoTypes, SavingStep
    <2>3. CASE Goto("failed") /\ UNCHANGED <<disk, mem>>
        <3>1. "failed" \in Places
            BY DEF Places
        <3> QED BY <2>1, <2>3, <3>1, QuietStep
    <2> QED BY <1>5, <2>2, <2>3 DEF AdoptHead
<1>6. CASE EnterPhase
    <2>1. UNCHANGED <<disk, git, history>> /\ GitTypes' /\ HistoryTypes' /\ pc = "top"
        BY <1>6, <1>0 DEF EnterPhase, git, history, GitTypes, HistoryTypes
    <2>2. CASE mem.phase \in {"tester", "refine_test"}
        <3>1. mem' = [mem EXCEPT !.satisfied = FALSE] /\ Goto("tester") /\ "tester" \in Places
            BY <1>6, <2>2 DEF EnterPhase, Places
        <3>2. mem' \in Ticket /\ mem'.rounds = mem.rounds
            BY <1>0, <3>1 DEF Ticket
        <3> QED BY <1>0, <2>1, <3>1, <3>2, GotoTypes, SavingStep
    <2>3. CASE mem.phase \notin {"tester", "refine_test"}
        <3> DEFINE place == IF TestIntact THEN mem.phase ELSE "failed"
        <3>1. UNCHANGED mem /\ Goto(place)
            BY <1>6, <2>3 DEF EnterPhase
        <3>2. mem.phase \in Phase
            BY <1>0 DEF Ticket
        <3>3. place \in Places
            BY <2>3, <3>2 DEF Phase, Places
        <3> QED BY <2>1, <3>1, <3>3, QuietStep
    <2> QED BY <2>2, <2>3
<1>7. CASE CallTester
    <2>1. Goto("tested") /\ "tested" \in Places
        BY <1>7 DEF CallTester, Places
    <2>2. GitTypes'
        BY <1>7, <1>0, DisturbKeepsGit DEF CallTester, git, GitTypes
    <2> QED BY <1>7, <2>1, <2>2, QuietStep DEF CallTester
<1>8. CASE RejectTest
    <2>1. UNCHANGED <<disk, mem, git, history>> /\ pc = "tested" /\ GitTypes' /\ HistoryTypes'
        BY <1>8, <1>0 DEF RejectTest, git, history, GitTypes, HistoryTypes
    <2>2. CASE tries < TesterRetries
        <3>1. pc' = "tester" /\ tries' = tries + 1 /\ UNCHANGED <<before, fullRun>>
            BY <1>8, <2>2 DEF RejectTest
        <3>2. LocalTypes'
            BY <1>0, <3>1 DEF LocalTypes, Places
        <3>3. WithinLimits'
            BY <1>0, <2>1, <2>2, <3>1, PipelineAssumption DEF TypeOK, WithinLimits
        <3> QED BY <2>1, <3>2, <3>3 DEF TypeOK, TicketTypes
    <2>3. CASE ~ (tries < TesterRetries)
        <3>1. Goto("failed") /\ "failed" \in Places
            BY <1>8, <2>3 DEF RejectTest, Places
        <3> QED BY <2>1, <3>1, QuietStep
    <2> QED BY <2>2, <2>3
<1>9. ASSUME NEW b \in BOOLEAN, AcceptTest(b) PROVE TypeOK'
    <2> DEFINE phase == IF b THEN "verifier" ELSE "coder"
               test == wt.test
               t == [mem EXCEPT !.test = test, !.satisfied = b, !.phase = phase,
                                !.feedback = FALSE]
    <2>1. test \in Tests
        BY <1>9, <1>0 DEF AcceptTest, Content
    <2>2. t \in Ticket /\ t.rounds = mem.rounds
        <3>1. phase \in Phase
            BY DEF Phase
        <3> HIDE DEF phase, test
        <3>2. mem \in Ticket
            BY <1>0
        <3> QED BY ONLY <2>1, <3>1, <3>2, b \in BOOLEAN DEF Ticket
    <2>3. mem' = t /\ disk' = t /\ Leave("top") /\ "top" \in Places /\ pc = "tested"
        BY <1>9 DEF AcceptTest, Save, Places
    <2>4. GitTypes' /\ HistoryTypes'
        BY <1>9, <1>0 DEF AcceptTest, git, history, GitTypes, HistoryTypes
    <2> QED BY <2>2, <2>3, <2>4, LeavingStep
<1>10. CASE SkipCoder
    <2> DEFINE t == [mem EXCEPT !.phase = "verifier"]
    <2>1. t \in Ticket /\ t.rounds = mem.rounds
        BY <1>0 DEF Ticket, Phase
    <2>2. mem' = t /\ disk' = t /\ Goto("top") /\ "top" \in Places /\ pc = "coder"
        BY <1>10 DEF SkipCoder, Save, Places
    <2>3. GitTypes' /\ HistoryTypes'
        BY <1>10, <1>0 DEF SkipCoder, git, history, GitTypes, HistoryTypes
    <2> QED BY <1>0, <2>1, <2>2, <2>3, GotoTypes, SavingStep
<1>11. CASE CallCoder
    <2>1. Goto("coded") /\ "coded" \in Places
        BY <1>11 DEF CallCoder, Places
    <2>2. GitTypes'
        BY <1>11, <1>0, DisturbKeepsGit DEF CallCoder, git, GitTypes
    <2> QED BY <1>11, <2>1, <2>2, QuietStep DEF CallCoder
<1>12. CASE RejectCode
    <2>1. head' = head /\ idx' = idx /\ onBranch' = onBranch /\ pc = "coded"
        BY <1>12 DEF RejectCode
    <2>2. wt' \in Content
        BY <1>12, <1>0, <2>1 DEF RejectCode, Content, AcceptedTest
    <2>3. GitTypes'
        BY <1>0, <2>1, <2>2 DEF GitTypes
    <2>4. CASE tries < CoderRetries
        <3>1. /\ pc' = "coder" /\ tries' = tries + 1
              /\ UNCHANGED <<disk, mem, before, fullRun, history>>
            BY <1>12, <2>4 DEF RejectCode
        <3>2. LocalTypes' /\ HistoryTypes'
            BY <1>0, <3>1 DEF LocalTypes, Places, HistoryTypes, history
        <3>3. WithinLimits'
            BY <1>0, <2>1, <2>4, <3>1, PipelineAssumption DEF TypeOK, WithinLimits, LocalTypes
        <3>4. mem' \in Ticket /\ disk' \in Ticket
            BY <1>0, <3>1
        <3> QED BY <2>3, <3>2, <3>3, <3>4 DEF TypeOK, TicketTypes
    <2>5. CASE ~ (tries < CoderRetries)
        <3> DEFINE phase == IF mem.kind = "tdd" THEN "refine_test" ELSE "coder"
                   feedback == mem.kind = "pre_pr"
                   t == [mem EXCEPT !.phase = phase, !.feedback = feedback]
        <3>1. HandBack(t)
            BY <1>12, <2>5 DEF RejectCode
        <3>2. t \in Ticket /\ t.rounds = mem.rounds
            <4>1. phase \in Phase /\ feedback \in BOOLEAN
                BY DEF Phase
            <4> QED BY <1>0, <4>1, FeedbackUpdate
        <3> QED BY <2>1, <2>3, <3>1, <3>2, HandBackTypes
    <2> QED BY <2>4, <2>5
<1>13. CASE AcceptCode
    <2> DEFINE t == [mem EXCEPT !.phase = "verifier", !.feedback = FALSE]
    <2>1. t \in Ticket /\ t.rounds = mem.rounds
        BY <1>0, FeedbackUpdate DEF Phase
    <2>2. mem' = t /\ disk' = t /\ Leave("top") /\ "top" \in Places /\ pc = "coded"
        BY <1>13 DEF AcceptCode, Save, Places
    <2>3. GitTypes' /\ HistoryTypes'
        BY <1>13, <1>0 DEF AcceptCode, git, history, GitTypes, HistoryTypes
    <2> QED BY <2>1, <2>2, <2>3, LeavingStep
<1>14. CASE AcceptFix
    <2> DEFINE satisfied == ~ Dirty
               t == [mem EXCEPT !.phase = "regression", !.feedback = FALSE,
                                !.digest = FullDigest, !.satisfied = satisfied]
    <2>1. t \in Ticket /\ t.rounds = mem.rounds
        <3>1. satisfied \in BOOLEAN /\ FullDigest \in Digest
            BY <1>0, DigestTypes
        <3> HIDE DEF satisfied
        <3> QED BY <1>0, <3>1, FixUpdate
    <2>2. mem' = t /\ disk' = t /\ Leave("top") /\ "top" \in Places /\ pc = "coded"
        BY <1>14 DEF AcceptFix, Save, Places
    <2>3. GitTypes' /\ HistoryTypes'
        BY <1>14, <1>0 DEF AcceptFix, git, GitTypes, HistoryTypes
    <2> QED BY <2>1, <2>2, <2>3, LeavingStep
<1>15. CASE StepError
    <2>1. Goto("failed") /\ "failed" \in Places
        BY <1>15 DEF StepError, Places
    <2>2. GitTypes'
        BY <1>15, <1>0 DEF StepError, git, GitTypes
    <2> QED BY <1>15, <2>1, <2>2, QuietStep DEF StepError
<1>16. CASE CallVerifier
    <2>1. GitTypes'
        BY <1>16, <1>0, DisturbKeepsGit DEF CallVerifier, git, GitTypes
    <2>2. /\ pc' = "judged" /\ before' = FullDigest /\ UNCHANGED <<tries, fullRun>>
          /\ UNCHANGED <<disk, mem, history>> /\ pc = "verifier"
        BY <1>16 DEF CallVerifier
    <2>3. LocalTypes' /\ HistoryTypes'
        BY <1>0, <2>2, DigestTypes DEF LocalTypes, Places, HistoryTypes, history
    <2> QED BY <1>0, <2>1, <2>2, <2>3, SavingStep
<1>17. CASE Meddled
    <2>1. Goto("failed") /\ "failed" \in Places
        BY <1>17 DEF Meddled, Places
    <2>2. GitTypes'
        BY <1>17, <1>0 DEF Meddled, git, GitTypes
    <2> QED BY <1>17, <2>1, <2>2, QuietStep DEF Meddled
<1>18. CASE Pass
    <2> DEFINE t == [mem EXCEPT !.digest = before, !.phase = "regression"]
    <2>1. t \in Ticket /\ t.rounds = mem.rounds
        <3>1. before \in Digest
            BY <1>0, <1>18, DigestTypes DEF Pass
        <3> QED BY <1>0, <3>1, VerdictUpdate
    <2>2. mem' = t /\ disk' = t /\ Leave("top") /\ "top" \in Places /\ pc = "judged"
        BY <1>18 DEF Pass, Save, Places
    <2>3. GitTypes' /\ HistoryTypes'
        BY <1>18, <1>0 DEF Pass, git, GitTypes, HistoryTypes
    <2> QED BY <2>1, <2>2, <2>3, LeavingStep
<1>19. ASSUME NEW phase \in {"refine_test", "coder"}, Rework(phase) PROVE TypeOK'
    <2>1. PICK feedback \in BOOLEAN : HandBack([mem EXCEPT !.phase = phase, !.feedback = feedback])
        BY <1>19 DEF Rework
    <2> DEFINE t == [mem EXCEPT !.phase = phase, !.feedback = feedback]
    <2>2. phase \in Phase
        BY <1>19 DEF Phase
    <2>3. t \in Ticket /\ t.rounds = mem.rounds
        BY <1>0, <2>2, FeedbackUpdate
    <2>4. GitTypes' /\ pc = "judged"
        BY <1>0, <1>19 DEF Rework, git, GitTypes
    <2> HIDE DEF t
    <2> QED BY <2>1, <2>3, <2>4, HandBackTypes DEF t
<1>20. CASE StartGate
    <2>1. Goto("gate") /\ "gate" \in Places
        BY <1>20 DEF StartGate, Places
    <2>2. GitTypes'
        BY <1>20, <1>0 DEF StartGate, git, GitTypes
    <2> QED BY <1>20, <2>1, <2>2, QuietStep DEF StartGate
<1>21. CASE RunGate
    <2>1. Goto("gated") /\ "gated" \in Places
        BY <1>21 DEF RunGate, Places
    <2>2. GitTypes'
        BY <1>21, <1>0, DisturbKeepsGit DEF RunGate, git, GitTypes
    <2> QED BY <1>21, <2>1, <2>2, QuietStep DEF RunGate
<1>22. CASE FailGate
    <2> DEFINE t == [mem EXCEPT !.phase = "coder", !.feedback = TRUE]
    <2>1. t \in Ticket /\ t.rounds = mem.rounds
        BY <1>0, FeedbackUpdate DEF Phase
    <2>2. GitTypes' /\ pc = "gated" /\ HandBack(t)
        BY <1>0, <1>22 DEF FailGate, git, GitTypes
    <2> HIDE DEF t
    <2> QED BY <2>1, <2>2, HandBackTypes
<1>23. ASSUME NEW full \in BOOLEAN, PassGate(full) PROVE TypeOK'
    <2>1. wt' \in Content /\ idx' \in Content
        BY <1>0, <1>23, PipelineAssumption DEF PassGate, Content
    <2>2. /\ pc = "gated" /\ pc' = "approving" /\ fullRun' = full /\ UNCHANGED <<tries, before>>
          /\ UNCHANGED <<disk, mem, head, onBranch, verified>> /\ gated' = [files |-> wt, full |-> full]
        BY <1>23 DEF PassGate
    <2>3. GitTypes'
        BY <1>0, <2>1, <2>2 DEF GitTypes
    <2>4. LocalTypes'
        BY <1>0, <1>23, <2>2 DEF LocalTypes, Places
    <2>5. HistoryTypes'
        BY <1>0, <1>23, <2>2 DEF HistoryTypes, Suite
    <2> QED BY <1>0, <2>2, <2>3, <2>4, <2>5, SavingStep
<1>24. CASE Approve
    <2> DEFINE full == IF fullRun THEN wt ELSE None
               t == [mem EXCEPT !.digest = WorkDigest, !.index = idx, !.tree = wt,
                                !.files = Changed, !.full = full, !.phase = "commit"]
    <2>1. t \in Ticket /\ t.rounds = mem.rounds
        <3>1. full \in Content \cup {None} /\ WorkDigest \in Digest /\ Changed \in SUBSET Part
            BY <1>0, DigestTypes DEF Changed
        <3> HIDE DEF full
        <3> QED BY <1>0, <3>1 DEF Ticket, Phase
    <2>2. mem' = t /\ disk' = t /\ Leave("top") /\ "top" \in Places /\ pc = "approving"
        BY <1>24 DEF Approve, Save, Places
    <2>3. GitTypes' /\ HistoryTypes'
        BY <1>24, <1>0 DEF Approve, git, history, GitTypes, HistoryTypes
    <2> HIDE DEF t
    <2> QED BY <2>1, <2>2, <2>3, LeavingStep
<1>25. CASE Stage
    <2>1. UNCHANGED history /\ GitTypes' /\ pc = "commit" /\ UNCHANGED <<head, wt, onBranch>>
        BY <1>25, <1>0 DEF Stage, GitTypes
    <2>2. \/ Finish(head)
          \/ Goto("staged") /\ UNCHANGED <<disk, mem>>
          \/ Goto("failed") /\ UNCHANGED <<disk, mem>>
        BY <1>25 DEF Stage
    <2>3. {"staged", "failed"} \subseteq Places
        BY DEF Places
    <2> QED BY <2>1, <2>2, <2>3, FinishTypes, QuietStep
<1>26. CASE RefuseStage
    <2>1. Goto("failed") /\ "failed" \in Places
        BY <1>26 DEF RefuseStage, Places
    <2>2. GitTypes'
        BY <1>26, <1>0 DEF RefuseStage, git, GitTypes
    <2> QED BY <1>26, <2>1, <2>2, QuietStep DEF RefuseStage
<1>27. CASE GitCommit
    <2>1. Goto("committed") /\ "committed" \in Places /\ UNCHANGED <<disk, mem, onBranch, history>>
        BY <1>27 DEF GitCommit, Places
    <2>2. PICK made \in Content :
            /\ head' = Append(head, [tree |-> made, mark |-> TRUE, here |-> TRUE])
            /\ idx' = made /\ wt' \in {wt, made}
        BY <1>27, <1>0 DEF GitCommit
    <2>3. head' \in History
        <3>1. [tree |-> made, mark |-> TRUE, here |-> TRUE] \in Commit
            BY DEF Commit
        <3> QED BY <1>0, <2>2, <3>1 DEF History
    <2>4. GitTypes'
        BY <1>0, <2>1, <2>2, <2>3 DEF GitTypes
    <2> QED BY <1>27, <2>1, <2>4, QuietStep DEF GitCommit
<1>28. CASE AcceptCommit
    <2>1. UNCHANGED history /\ GitTypes' /\ pc = "committed"
        BY <1>28, <1>0 DEF AcceptCommit, git, GitTypes
    <2>2. Finish(head) \/ (Goto("failed") /\ UNCHANGED <<disk, mem>>)
        BY <1>28 DEF AcceptCommit
    <2>3. "failed" \in Places
        BY DEF Places
    <2> QED BY <2>1, <2>2, <2>3, FinishTypes, QuietStep
<1>29. CASE Block
    <2> DEFINE base == IF Dirty THEN mem.base ELSE None
               t == [mem EXCEPT !.status = "blocked", !.base = base]
    <2>1. t \in Ticket /\ t.rounds = mem.rounds
        <3>1. base \in History \cup {None} /\ "blocked" \in Status
            BY <1>0 DEF Ticket, Status
        <3> HIDE DEF base
        <3> QED BY <1>0, <3>1, BlockUpdate
    <2>2. mem' = t /\ disk' = t /\ Leave("idle") /\ "idle" \in Places
        BY <1>29 DEF Block, Save, Places
    <2>3. GitTypes' /\ HistoryTypes'
        BY <1>29, <1>0 DEF Block, git, history, GitTypes, HistoryTypes
    <2> HIDE DEF t
    <2> QED BY <2>1, <2>2, <2>3, LeavingStep
<1> QED BY <1>1, <1>2, <1>3, <1>4, <1>5, <1>6, <1>7, <1>8, <1>9, <1>10, <1>11, <1>12,
    <1>13, <1>14, <1>15, <1>16, <1>17, <1>18, <1>19, <1>20, <1>21, <1>22, <1>23, <1>24,
    <1>25, <1>26, <1>27, <1>28, <1>29 DEF Step

-----------------------------------------------------------------------------
(* What holds of a ticket past its verifier keeps holding.                 *)

\* Two tickets that claim the same.
SameClaims(u, t) ==
    /\ u.phase = t.phase /\ u.kind = t.kind /\ u.test = t.test /\ u.digest = t.digest
    /\ u.tree = t.tree /\ u.full = t.full /\ u.sha = t.sha

\* The state file claims what memory claims.
LEMMA SavedFields ==
    ASSUME Saved, mem \in Ticket
    PROVE  SameClaims(disk, mem) /\ disk.status = mem.status
BY DEF Saved, SameClaims, Ticket

\* Saving makes file and memory agree.
LEMMA SaveSaves ==
    ASSUME mem' \in Ticket, disk' = mem'
    PROVE  Saved'
BY DEF Saved, Ticket

\* A ticket that changes in nothing it claims keeps its claims.
LEMMA ClaimsCarried ==
    ASSUME Claims(mem), SameClaims(mem', mem), UNCHANGED history,
           mem'.status = "done" => mem.status = "done"
    PROVE  Claims(mem)'
BY DEF Claims, SameClaims, Verified, Approval, history

\* A ticket before its verifier claims nothing.
LEMMA NothingClaimed ==
    ASSUME mem'.phase \notin {"regression", "commit"}, mem'.status # "done"
    PROVE  Claims(mem)'
BY DEF Claims

\* Steps to a place where nothing is under way.
LEMMA CalmPlace ==
    ASSUME pc' \in {"idle", "start", "top", "failed", "blocking"},
           pc' = "idle" \/ mem'.status # "done"
    PROVE  InPhase' /\ Underway'
BY DEF InPhase, Underway

\* A step that changes no claim and leads to such a place.
LEMMA CalmStep ==
    ASSUME Vetting, SameClaims(mem', mem), UNCHANGED history, Saved',
           pc' \in {"idle", "start", "top", "failed", "blocking"},
           mem'.status # "done"
    PROVE  Vetting'
BY ClaimsCarried, CalmPlace DEF Vetting

\* A step that touches no ticket.
LEMMA TicketUntouched ==
    ASSUME Vetting, UNCHANGED <<disk, mem, history>>, InPhase', Underway'
    PROVE  Vetting'
<1>1. Saved' /\ SameClaims(mem', mem) /\ mem'.status = mem.status
    BY DEF Vetting, Saved, SameClaims
<1> QED BY <1>1, ClaimsCarried DEF Vetting

\* ... on its way to failing.
LEMMA FailingStep ==
    ASSUME Vetting, UNCHANGED <<disk, mem, history>>, pc' = "failed", pc # "idle"
    PROVE  Vetting'
<1>1. mem'.status # "done"
    BY DEF Vetting, InPhase
<1> QED BY <1>1, CalmPlace, TicketUntouched

\* A hand-back withdraws the claims.
LEMMA HandBackVetting ==
    ASSUME NEW t \in Ticket, t.phase \in {"refine_test", "coder"}, t.status # "done", HandBack(t)
    PROVE  Vetting'
<1> DEFINE back == [t EXCEPT !.rounds = @ + 1]
<1>1. back \in Ticket /\ back.phase = t.phase /\ back.status = t.status
    BY DEF Ticket
<1>2. mem' = back /\ disk' = back /\ pc' \in {"blocking", "top"}
    BY DEF HandBack, Save, Leave
<1> HIDE DEF back
<1> QED BY <1>1, <1>2, SaveSaves, NothingClaimed, CalmPlace DEF Vetting

\* A ticket finishes at a commit with the tree it was approved with.
LEMMA FinishVetting ==
    ASSUME TypeOK, Vetting, Finish(head), UNCHANGED history,
           mem.phase = "commit", Tree(head) = mem.tree
    PROVE  Vetting'
<1> DEFINE t == [mem EXCEPT !.sha = head, !.status = "done", !.last = head]
<1>1. mem \in Ticket /\ head \in History
    BY DEF TypeOK, TicketTypes, GitTypes
<1>2. /\ t \in Ticket /\ t.phase = "commit" /\ t.sha = head /\ t.status = "done"
      /\ t.kind = mem.kind /\ t.test = mem.test /\ t.digest = mem.digest
      /\ t.tree = mem.tree /\ t.full = mem.full
    BY <1>1 DEF Ticket, Status
<1>3. mem' = t /\ disk' = t /\ pc' = "idle"
    BY DEF Finish, Save, Leave
<1> HIDE DEF t
<1>4. Saved' /\ InPhase' /\ Underway'
    BY <1>2, <1>3, SaveSaves, CalmPlace
<1>5. Approval(mem)'
    BY <1>2, <1>3 DEF Vetting, Claims, Approval, history
<1>6. Claims(mem)'
    BY <1>1, <1>2, <1>3, <1>5 DEF Claims
<1> QED BY <1>4, <1>6 DEF Vetting

\* Every step of the runner keeps what vetted tickets claim.
LEMMA StepKeepsVetting ==
    ASSUME TypeOK, TypeOK', Vetting, Step
    PROVE  Vetting'
<1>0. /\ mem \in Ticket /\ mem' \in Ticket /\ GitTypes /\ LocalTypes /\ HistoryTypes
      /\ head \in History /\ wt \in Content /\ idx \in Content /\ Tree(head) \in Content
      /\ wt' \in Content /\ Saved /\ InPhase /\ Claims(mem) /\ Underway
    BY TreeIsContent DEF TypeOK, TicketTypes, GitTypes, Vetting
<1>1. CASE Begin
    <2> DEFINE base == IF mem.base = None THEN head ELSE mem.base
               t == [mem EXCEPT !.base = base, !.status = "in_progress"]
    <2>1. SameClaims(t, mem) /\ t.status = "in_progress"
        BY <1>0 DEF SameClaims, Ticket
    <2>2. mem' = t /\ disk' = t /\ pc' = "top" /\ UNCHANGED history
        BY <1>1 DEF Begin, Save, Goto
    <2> HIDE DEF t
    <2> QED BY <1>0, <2>1, <2>2, SaveSaves, CalmStep
<1>2. CASE RefuseToBegin
    <2>1. UNCHANGED <<disk, mem, history>> /\ pc' = "idle"
        BY <1>2 DEF RefuseToBegin, Leave
    <2> QED BY <2>1, CalmPlace, TicketUntouched
<1>3. CASE LeftBranch
    BY <1>3, FailingStep DEF LeftBranch, Goto
<1>4. CASE RecoverCommit
    <2>1. CASE Recoverable
        BY <1>4, <2>1, FinishVetting DEF RecoverCommit, Recoverable
    <2>2. CASE ~ Recoverable
        BY <1>4, <2>2, FailingStep DEF RecoverCommit, Goto
    <2> QED BY <2>1, <2>2
<1>5. CASE AdoptHead
    <2> DEFINE t == [mem EXCEPT !.base = head, !.last = head, !.adopted = TRUE]
    <2>1. CASE Save(t) /\ Goto("top")
        <3>1. SameClaims(t, mem) /\ t.status # "done"
            BY <1>5, <1>0 DEF AdoptHead, SameClaims, Ticket, InPhase
        <3>2. mem' = t /\ disk' = t /\ pc' = "top" /\ UNCHANGED history
            BY <1>5, <2>1 DEF AdoptHead, Save, Goto
        <3> HIDE DEF t
        <3> QED BY <1>0, <3>1, <3>2, SaveSaves, CalmStep
    <2>2. CASE Goto("failed") /\ UNCHANGED <<disk, mem>>
        BY <1>5, <2>2, FailingStep DEF AdoptHead, Goto
    <2> QED BY <1>5, <2>1, <2>2 DEF AdoptHead
<1>6. CASE EnterPhase
    <2>1. pc = "top" /\ UNCHANGED <<disk, git, history>> /\ mem.phase \in Phase
        BY <1>6, <1>0 DEF EnterPhase, Ticket
    <2>2. CASE mem.phase \in {"tester", "refine_test"}
        <3>1. mem' = [mem EXCEPT !.satisfied = FALSE] /\ pc' = "tester"
            BY <1>6, <2>2 DEF EnterPhase, Goto
        <3>2. SameClaims(mem', mem) /\ mem'.status = mem.status
            BY <1>0, <3>1 DEF SameClaims, Ticket
        <3>3. Saved'
            BY <1>0, <2>1, <3>1 DEF Saved, Ticket
        <3>4. InPhase' /\ Underway'
            BY <1>0, <2>1, <2>2, <3>1, <3>2 DEF InPhase, Underway, SameClaims
        <3> QED BY <1>0, <2>1, <3>2, <3>3, <3>4, ClaimsCarried DEF Vetting
    <2>3. CASE mem.phase \notin {"tester", "refine_test"}
        <3>1. UNCHANGED mem /\ pc' = IF TestIntact THEN mem.phase ELSE "failed"
            BY <1>6, <2>3 DEF EnterPhase, Goto
        <3>2. CASE TestIntact
            <4>1. InPhase' /\ Underway'
                BY <1>0, <2>1, <2>3, <3>1, <3>2 DEF InPhase, Underway, Phase, TestIntact, git
            <4> QED BY <2>1, <3>1, <4>1, TicketUntouched
        <3>3. CASE ~ TestIntact
            BY <2>1, <3>1, <3>3, FailingStep
        <3> QED BY <3>2, <3>3
    <2> QED BY <2>2, <2>3
<1>7. CASE CallTester
    <2>1. UNCHANGED <<disk, mem, history>> /\ InPhase' /\ Underway'
        BY <1>7, <1>0 DEF CallTester, Goto, InPhase, Underway
    <2> QED BY <2>1, TicketUntouched
<1>8. CASE RejectTest
    <2>1. UNCHANGED <<disk, mem, history>> /\ InPhase' /\ Underway'
        BY <1>8, <1>0 DEF RejectTest, Goto, InPhase, Underway
    <2> QED BY <2>1, TicketUntouched
<1>9. ASSUME NEW b \in BOOLEAN, AcceptTest(b) PROVE Vetting'
    <2>1. mem'.phase \in {"verifier", "coder"} /\ mem'.status = mem.status
        BY <1>9, <1>0 DEF AcceptTest, Save, Ticket
    <2>2. disk' = mem' /\ pc' = "top" /\ pc = "tested"
        BY <1>9 DEF AcceptTest, Save, Leave
    <2> QED BY <1>0, <2>1, <2>2, SaveSaves, NothingClaimed, CalmPlace DEF Vetting, InPhase
<1>10. CASE SkipCoder
    <2>1. mem'.phase = "verifier" /\ mem'.status = mem.status
        BY <1>10, <1>0 DEF SkipCoder, Save, Ticket
    <2>2. disk' = mem' /\ pc' = "top" /\ pc = "coder"
        BY <1>10 DEF SkipCoder, Save, Goto
    <2> QED BY <1>0, <2>1, <2>2, SaveSaves, NothingClaimed, CalmPlace DEF Vetting, InPhase
<1>11. CASE CallCoder
    <2>1. UNCHANGED <<disk, mem, history>> /\ InPhase' /\ Underway'
        BY <1>11, <1>0 DEF CallCoder, Goto, InPhase, Underway
    <2> QED BY <2>1, TicketUntouched
<1>12. CASE RejectCode
    <2>1. pc = "coded"
        BY <1>12 DEF RejectCode
    <2>2. CASE tries < CoderRetries
        <3>1. pc' = "coder" /\ UNCHANGED <<disk, mem, history>>
            BY <1>12, <2>2 DEF RejectCode
        <3>2. InPhase' /\ Underway'
            BY <1>0, <2>1, <3>1 DEF InPhase, Underway
        <3> QED BY <3>1, <3>2, TicketUntouched
    <2>3. CASE ~ (tries < CoderRetries)
        <3> DEFINE phase == IF mem.kind = "tdd" THEN "refine_test" ELSE "coder"
                   feedback == mem.kind = "pre_pr"
                   t == [mem EXCEPT !.phase = phase, !.feedback = feedback]
        <3>1. HandBack(t)
            BY <1>12, <2>3 DEF RejectCode
        <3>2. phase \in Phase /\ phase \in {"refine_test", "coder"} /\ feedback \in BOOLEAN
            BY DEF Phase
        <3>3. t \in Ticket
            BY <1>0, <3>2, FeedbackUpdate
        <3>4. t.phase = phase /\ t.status # "done"
            BY <1>0, <2>1 DEF Ticket, InPhase
        <3> HIDE DEF t
        <3> QED BY <3>1, <3>2, <3>3, <3>4, HandBackVetting
    <2> QED BY <2>2, <2>3
<1>13. CASE AcceptCode
    <2>1. mem'.phase = "verifier" /\ mem'.status = mem.status
        BY <1>13, <1>0 DEF AcceptCode, Save, Ticket
    <2>2. disk' = mem' /\ pc' = "top" /\ pc = "coded"
        BY <1>13 DEF AcceptCode, Save, Leave
    <2> QED BY <1>0, <2>1, <2>2, SaveSaves, NothingClaimed, CalmPlace DEF Vetting, InPhase
<1>14. CASE AcceptFix
    <2>1. /\ mem'.phase = "regression" /\ mem'.status = mem.status /\ mem'.kind = "pre_pr"
          /\ mem'.digest = FullDigest
        BY <1>14, <1>0 DEF AcceptFix, Save, Ticket
    <2>2. disk' = mem' /\ pc' = "top" /\ pc = "coded" /\ verified' = wt
        BY <1>14 DEF AcceptFix, Save, Leave
    <2>3. FullDigest \in Digest /\ FullDigest.files = wt
        BY <1>0, DigestTypes DEF FullDigest
    <2>4. Claims(mem)'
        BY <1>0, <2>1, <2>2, <2>3 DEF Claims, Verified, InPhase
    <2> QED BY <1>0, <2>1, <2>2, <2>4, SaveSaves, CalmPlace DEF Vetting, InPhase
<1>15. CASE StepError
    BY <1>15, FailingStep DEF StepError, Goto
<1>16. CASE CallVerifier
    <2>1. UNCHANGED <<disk, mem, history>> /\ pc = "verifier" /\ pc' = "judged" /\ before' = FullDigest
        BY <1>16 DEF CallVerifier
    <2>2. FullDigest \in Digest /\ FullDigest.files = wt
        BY <1>0, DigestTypes DEF FullDigest
    <2>3. InPhase' /\ Underway'
        BY <1>0, <2>1, <2>2 DEF InPhase, Underway
    <2> QED BY <2>1, <2>3, TicketUntouched
<1>17. CASE Meddled
    BY <1>17, FailingStep DEF Meddled, Goto
<1>18. CASE Pass
    <2>1. pc = "judged" /\ FullDigest = before
        BY <1>18 DEF Pass
    <2>2. /\ mem'.phase = "regression" /\ mem'.status = mem.status /\ mem'.kind = mem.kind
          /\ mem'.test = mem.test /\ mem'.digest = FullDigest
        BY <1>18, <1>0 DEF Pass, Save, Ticket
    <2>3. disk' = mem' /\ pc' = "top" /\ verified' = wt
        BY <1>18 DEF Pass, Save, Leave
    <2>4. FullDigest \in Digest /\ FullDigest.files = wt
        BY <1>0, DigestTypes DEF FullDigest
    <2>5. mem.kind = "tdd" => wt.test = mem.test
        BY <1>0, <2>1, <2>4 DEF Underway, Suite
    <2>6. Claims(mem)'
        BY <1>0, <2>1, <2>2, <2>3, <2>4, <2>5 DEF Claims, Verified, InPhase
    <2> QED BY <1>0, <2>1, <2>2, <2>3, <2>6, SaveSaves, CalmPlace DEF Vetting, InPhase
<1>19. ASSUME NEW phase \in {"refine_test", "coder"}, Rework(phase) PROVE Vetting'
    <2>1. PICK feedback \in BOOLEAN : HandBack([mem EXCEPT !.phase = phase, !.feedback = feedback])
        BY <1>19 DEF Rework
    <2> DEFINE t == [mem EXCEPT !.phase = phase, !.feedback = feedback]
    <2>2. phase \in Phase /\ pc = "judged"
        BY <1>19 DEF Phase, Rework
    <2>3. t \in Ticket
        BY <1>0, <2>2, FeedbackUpdate
    <2>4. t.phase = phase /\ t.status # "done"
        BY <1>0, <2>2 DEF Ticket, InPhase
    <2> HIDE DEF t
    <2> QED BY <2>1, <2>3, <2>4, HandBackVetting DEF t
<1>20. CASE StartGate
    <2>1. UNCHANGED <<disk, mem, history>> /\ InPhase' /\ Underway'
        BY <1>20, <1>0 DEF StartGate, Goto, InPhase, Underway
    <2> QED BY <2>1, TicketUntouched
<1>21. CASE RunGate
    <2>1. UNCHANGED <<disk, mem, history>> /\ InPhase' /\ Underway'
        BY <1>21, <1>0 DEF RunGate, Goto, InPhase, Underway
    <2> QED BY <2>1, TicketUntouched
<1>22. CASE FailGate
    <2> DEFINE t == [mem EXCEPT !.phase = "coder", !.feedback = TRUE]
    <2>1. t \in Ticket /\ pc = "gated" /\ HandBack(t)
        BY <1>0, <1>22, FeedbackUpdate DEF FailGate, Phase
    <2>2. t.phase = "coder" /\ t.status # "done"
        BY <1>0, <2>1 DEF Ticket, InPhase
    <2> HIDE DEF t
    <2> QED BY <2>1, <2>2, HandBackVetting
<1>23. ASSUME NEW full \in BOOLEAN, PassGate(full) PROVE Vetting'
    <2>1. /\ pc = "gated" /\ FullDigest = mem.digest /\ UNCHANGED <<disk, mem, verified>>
          /\ pc' = "approving" /\ fullRun' = full /\ gated' = [files |-> wt, full |-> full]
        BY <1>23 DEF PassGate
    <2>2. mem.phase = "regression" /\ mem.status # "done"
        BY <1>0, <2>1 DEF InPhase
    <2>3. verified = wt
        BY <1>0, <2>1, <2>2 DEF Claims, Verified, FullDigest
    <2>4. WorkOf(wt') = WorkOf(wt)
        BY <1>0, <1>23 DEF PassGate, WorkOf, Content
    <2>5. Underway'
        BY <1>0, <1>23, <2>1, <2>3, <2>4 DEF Underway, Suite
    <2>6. Claims(mem)'
        BY <1>0, <2>1, <2>2 DEF Claims, Verified
    <2>7. Saved' /\ InPhase'
        BY <1>0, <2>1, <2>2 DEF Saved, InPhase
    <2> QED BY <2>5, <2>6, <2>7 DEF Vetting
<1>24. CASE Approve
    <2> DEFINE full == IF fullRun THEN wt ELSE None
    <2>1. mem.phase = "regression" /\ mem.status # "done" /\ Verified(mem) /\ pc = "approving"
        BY <1>0, <1>24 DEF Approve, InPhase, Claims
    <2>2. /\ gated \in Suite /\ gated.full = fullRun
          /\ gated.files = verified /\ WorkOf(wt) = WorkOf(verified)
        BY <1>0, <2>1 DEF Underway
    <2>3. /\ mem'.phase = "commit" /\ mem'.status = mem.status /\ mem'.kind = mem.kind
          /\ mem'.test = mem.test /\ mem'.digest = WorkDigest /\ mem'.tree = wt
          /\ mem'.full = full
        BY <1>24, <1>0 DEF Approve, Save, Ticket
    <2>4. disk' = mem' /\ pc' = "top" /\ UNCHANGED history
        BY <1>24 DEF Approve, Save, Leave
    <2>5. WorkDigest \in Digest /\ WorkDigest.files = wt
        BY <1>0, DigestTypes DEF WorkDigest
    <2>6. wt.test = verified.test
        BY <2>2 DEF WorkOf
    <2>7. full # None => gated.full /\ full = wt
        BY <1>0, <2>2
    <2> HIDE DEF full
    <2>8. Approval(mem)'
        BY <1>0, <2>1, <2>2, <2>3, <2>4, <2>5, <2>6, <2>7 DEF Approval, Verified, history
    <2>9. Claims(mem)'
        BY <2>1, <2>3, <2>8 DEF Claims
    <2> QED BY <1>0, <2>1, <2>3, <2>4, <2>9, SaveSaves, CalmPlace DEF Vetting
<1>25. CASE Stage
    <2>1. pc = "commit" /\ Approved /\ UNCHANGED history /\ mem.phase = "commit"
        BY <1>25, <1>0 DEF Stage, InPhase
    <2> DEFINE staged == {p \in Part : wt[p] # Tree(head)[p]}
    <2>2. CASE staged = {} /\ Finish(head)
        <3>1. \A p \in Part : wt[p] = Tree(head)[p]
            BY <2>2
        <3>2. wt = Tree(head)
            BY <1>0, <3>1 DEF Content, Part
        <3>3. mem.tree = wt
            BY <1>0, <2>1 DEF Claims, Approval, Approved, WorkDigest
        <3> QED BY <2>1, <2>2, <3>2, <3>3, FinishVetting
    <2>3. CASE Goto("staged") /\ UNCHANGED <<disk, mem>>
        <3>1. InPhase' /\ Underway'
            BY <1>0, <2>1, <2>3 DEF InPhase, Underway, Goto
        <3> QED BY <2>1, <2>3, <3>1, TicketUntouched
    <2>4. CASE Goto("failed") /\ UNCHANGED <<disk, mem>>
        BY <2>1, <2>4, FailingStep DEF Goto
    <2> QED BY <1>25, <2>2, <2>3, <2>4 DEF Stage
<1>26. CASE RefuseStage
    BY <1>26, FailingStep DEF RefuseStage, Goto
<1>27. CASE GitCommit
    <2>1. UNCHANGED <<disk, mem, history>> /\ InPhase' /\ Underway'
        BY <1>27, <1>0 DEF GitCommit, Goto, InPhase, Underway
    <2> QED BY <2>1, TicketUntouched
<1>28. CASE AcceptCommit
    <2>1. pc = "committed" /\ UNCHANGED history /\ mem.phase = "commit"
        BY <1>28, <1>0 DEF AcceptCommit, InPhase
    <2>2. CASE Tree(head) = mem.tree /\ Finish(head)
        BY <2>1, <2>2, FinishVetting
    <2>3. CASE Goto("failed") /\ UNCHANGED <<disk, mem>>
        BY <2>1, <2>3, FailingStep DEF Goto
    <2> QED BY <1>28, <2>2, <2>3 DEF AcceptCommit
<1>29. CASE Block
    <2>1. SameClaims(mem', mem) /\ mem'.status = "blocked"
        BY <1>29, <1>0 DEF Block, Save, SameClaims, Ticket
    <2>2. disk' = mem' /\ pc' = "idle" /\ UNCHANGED history
        BY <1>29 DEF Block, Save, Leave
    <2> QED BY <1>0, <2>1, <2>2, SaveSaves, CalmStep
<1> QED BY <1>0, <1>1, <1>2, <1>3, <1>4, <1>5, <1>6, <1>7, <1>8, <1>9, <1>10, <1>11,
    <1>12, <1>13, <1>14, <1>15, <1>16, <1>17, <1>18, <1>19, <1>20, <1>21, <1>22, <1>23,
    <1>24, <1>25, <1>26, <1>27, <1>28, <1>29 DEF Step

-----------------------------------------------------------------------------
(* The steps of the others, and the theorems.                              *)

Invariant == TypeOK /\ AcceptedTest /\ Vetting

\* The invariant holds of a fresh ticket, and ...
LEMMA InitEstablishes == Init => Invariant
<1> SUFFICES ASSUME Init PROVE Invariant
    OBVIOUS
<1>1. PICK kind \in Kinds : disk = NewTicket(kind)
    BY DEF Init
<1>2. disk \in Ticket
    <2>1. kind \in {"tdd", "pre_pr"} /\ <<>> \in History
        BY PipelineAssumption DEF History
    <2> QED BY <1>1, <2>1 DEF NewTicket, Ticket, Status, Phase
<1>3. /\ mem = disk /\ mem.rounds = 0 /\ mem.status = "pending"
      /\ mem.phase \notin {"regression", "commit"}
    BY <1>1 DEF Init, NewTicket
<1>4. GitTypes
    <2>1. BaseTree \in Content /\ <<>> \in History
        <3>1. BaseTree \in Content
            BY PipelineAssumption DEF BaseTree, Content
        <3>2. <<>> \in History
            BY DEF History
        <3> QED BY <3>1, <3>2
    <2> QED BY <2>1 DEF Init, GitTypes
<1>5. LocalTypes /\ HistoryTypes
    <2>1. pc \in Places /\ tries \in Int /\ before = None /\ fullRun = FALSE
        BY DEF Init, Places
    <2>2. verified = None /\ gated = None
        BY DEF Init
    <2>3. fullRun \in BOOLEAN
        BY <2>1
    <2> QED BY <2>1, <2>2, <2>3 DEF LocalTypes, HistoryTypes
<1>6. WithinLimits
    BY <1>3, PipelineAssumption DEF Init, WithinLimits
<1>7. AcceptedTest /\ InPhase /\ Underway
    BY DEF Init, AcceptedTest, InPhase, Underway
<1>8. Saved /\ Claims(mem)
    BY <1>2, <1>3 DEF Saved, Claims, Ticket
<1> QED BY <1>2, <1>3, <1>4, <1>5, <1>6, <1>7, <1>8 DEF Invariant, TypeOK, TicketTypes, Vetting

\* Starting a run reopens the ticket of the state file.
LEMMA StartKeepsInvariant ==
    ASSUME Invariant, NEW retry \in BOOLEAN, StartRun(retry)
    PROVE  Invariant'
<1>0. /\ mem \in Ticket /\ disk \in Ticket /\ GitTypes /\ LocalTypes /\ HistoryTypes
      /\ Saved /\ Claims(mem) /\ WithinLimits
    BY DEF Invariant, TypeOK, TicketTypes, Vetting
<1>1. SameClaims(disk, mem) /\ disk.status = mem.status
    BY <1>0, SavedFields
<1>2. pc = "idle" /\ Goto("start") /\ "start" \in Places /\ UNCHANGED <<git, history>>
    BY DEF StartRun, Places
<1>3. GitTypes' /\ HistoryTypes' /\ LocalTypes' /\ tries' = tries /\ pc' = "start"
    BY <1>0, <1>2, GotoTypes DEF GitTypes, HistoryTypes, git, history
<1>4. /\ mem' \in Ticket /\ disk' = mem' /\ SameClaims(mem', disk)
      /\ mem'.status # "done" /\ mem'.rounds <= MaxRounds + MaxOverrun
    <2>1. CASE retry
        <3> DEFINE t == [disk EXCEPT !.status = "pending", !.rounds = 0]
        <3>1. mem' = t /\ disk' = t
            BY <2>1 DEF StartRun, Save
        <3>2. t \in Ticket /\ SameClaims(t, disk) /\ t.status = "pending" /\ t.rounds = 0
            <4>1. disk \in Ticket
                BY <1>0
            <4>2. t \in Ticket /\ t.status = "pending" /\ t.rounds = 0
                BY ONLY <4>1 DEF Ticket, Status
            <4> QED BY ONLY <4>1, <4>2 DEF Ticket, SameClaims
        <3> HIDE DEF t
        <3> QED BY <3>1, <3>2, PipelineAssumption
    <2>2. CASE ~ retry
        BY <1>0, <2>2 DEF StartRun, Save, SameClaims
    <2> QED BY <2>1, <2>2
<1>5. WithinLimits'
    BY <1>0, <1>2, <1>3, <1>4, PipelineAssumption DEF WithinLimits, Ticket
<1>6. SameClaims(mem', mem) /\ Saved' /\ AcceptedTest'
    BY <1>1, <1>3, <1>4, SaveSaves DEF SameClaims, AcceptedTest
<1>7. Vetting'
    BY <1>2, <1>3, <1>4, <1>6, CalmStep DEF Invariant
<1> QED BY <1>3, <1>4, <1>5, <1>6, <1>7 DEF Invariant, TypeOK, TicketTypes

\* So does pausing it.
LEMMA PauseKeepsInvariant ==
    ASSUME Invariant, Pause, UNCHANGED <<git, history>>
    PROVE  Invariant'
<1>1. TypeOK' /\ mem \in Ticket /\ mem' \in Ticket
    BY PauseTypes DEF Invariant, TypeOK, TicketTypes
<1>2. disk' = mem' /\ pc' = "idle" /\ SameClaims(mem', mem) /\ mem'.status = "pending"
    BY <1>1 DEF Pause, Save, Leave, SameClaims, Ticket
<1>3. Vetting' /\ AcceptedTest'
    BY <1>1, <1>2, SaveSaves, CalmStep DEF Invariant, AcceptedTest
<1> QED BY <1>1, <1>3 DEF Invariant

\* A crash forgets what was not saved, which is no claim.
LEMMA CrashKeepsInvariant ==
    ASSUME Invariant, Crash
    PROVE  Invariant'
<1>0. mem \in Ticket /\ disk \in Ticket /\ Saved
    BY DEF Invariant, TypeOK, TicketTypes, Vetting
<1>1. SameClaims(disk, mem) /\ disk.status = mem.status /\ disk.rounds = mem.rounds
    BY <1>0, SavedFields DEF Saved, Ticket
<1>2. /\ mem' = disk /\ disk' = disk /\ Leave("idle") /\ "idle" \in Places
      /\ UNCHANGED <<git, history>> /\ pc # "idle" /\ pc' = "idle"
    BY DEF Crash, Leave, Places
<1>3. GitTypes' /\ HistoryTypes'
    BY <1>2 DEF Invariant, TypeOK, GitTypes, HistoryTypes, git, history
<1>4. TypeOK'
    BY <1>0, <1>1, <1>2, <1>3, LeavingStep DEF Invariant
<1>5. mem.status # "done"
    BY <1>2 DEF Invariant, Vetting, InPhase
<1>6. Vetting' /\ AcceptedTest'
    BY <1>0, <1>1, <1>2, <1>5, SaveSaves, CalmStep DEF Invariant, AcceptedTest
<1> QED BY <1>4, <1>6 DEF Invariant

\* The user cannot touch what the state file claims.
LEMMA UserKeepsInvariant ==
    ASSUME Invariant, UserWorks
    PROVE  Invariant'
<1>1. UNCHANGED <<disk, mem, pc, local, history>> /\ pc = "idle" /\ Disturb
    BY DEF UserWorks
<1>2. GitTypes'
    BY <1>1, DisturbKeepsGit DEF Invariant, TypeOK
<1>3. TypeOK'
    BY <1>1, <1>2 DEF Invariant, TypeOK, TicketTypes, LocalTypes, HistoryTypes, WithinLimits,
                      local, history
<1>4. InPhase' /\ Underway' /\ AcceptedTest'
    BY <1>1 DEF InPhase, Underway, AcceptedTest
<1>5. Vetting'
    BY <1>1, <1>4, TicketUntouched DEF Invariant
<1> QED BY <1>3, <1>4, <1>5 DEF Invariant

\* Only entering the coder phase has to establish that there is a test.
LEMMA StepKeepsAcceptedTest ==
    ASSUME Invariant, Step
    PROVE  AcceptedTest'
<1>0. mem \in Ticket /\ wt \in Content /\ InPhase /\ AcceptedTest
    BY DEF Invariant, TypeOK, TicketTypes, GitTypes, Vetting
<1>1. CASE EnterPhase
    <2>1. CASE mem.phase \in {"tester", "refine_test"}
        BY <1>1, <2>1 DEF EnterPhase, Goto, AcceptedTest
    <2>2. CASE mem.phase \notin {"tester", "refine_test"} /\ TestIntact
        <3>1. UNCHANGED mem
            BY <1>1, <2>2 DEF EnterPhase
        <3>2. mem.kind = "tdd" => mem.test \in Tests
            BY <1>0, <2>2, PipelineAssumption DEF TestIntact, Content, Ticket
        <3> QED BY <3>1, <3>2 DEF AcceptedTest
    <2>3. CASE mem.phase \notin {"tester", "refine_test"} /\ ~ TestIntact
        BY <1>1, <2>3 DEF EnterPhase, Goto, AcceptedTest
    <2> QED BY <2>1, <2>2, <2>3
<1>2. CASE CallCoder
    BY <1>0, <1>2 DEF CallCoder, Goto, AcceptedTest
<1>3. CASE RejectCode
    <2>1. CASE tries < CoderRetries
        BY <1>0, <1>3, <2>1 DEF RejectCode, AcceptedTest
    <2>2. CASE ~ (tries < CoderRetries)
        <3>1. pc' \in {"blocking", "top"}
            BY <1>3, <2>2 DEF RejectCode, HandBack, Leave
        <3> QED BY <3>1 DEF AcceptedTest
    <2> QED BY <2>1, <2>2
<1>4. CASE ~ (EnterPhase \/ CallCoder \/ RejectCode)
    <2>1. pc' \notin {"coder", "coded"}
        BY <1>4 DEF Step, Begin, RefuseToBegin, LeftBranch, RecoverCommit, AdoptHead, CallTester,
            RejectTest, AcceptTest, SkipCoder, AcceptCode, AcceptFix, StepError, CallVerifier,
            Meddled, Pass, Rework, StartGate, RunGate, FailGate, PassGate, Approve, Stage,
            RefuseStage, GitCommit, AcceptCommit, Block, Goto, Leave, Finish, HandBack
    <2> QED BY <2>1 DEF AcceptedTest
<1> QED BY <1>1, <1>2, <1>3, <1>4

\* ... every step of the runner, its agents and the user keeps it.
LEMMA NextKeepsInvariant == Invariant /\ [Next]_vars => Invariant'
<1> SUFFICES ASSUME Invariant, [Next]_vars PROVE Invariant'
    OBVIOUS
<1>1. CASE Step
    <2>1. TypeOK'
        BY <1>1, StepKeepsTypes DEF Invariant
    <2> QED BY <1>1, <2>1, StepKeepsVetting, StepKeepsAcceptedTest DEF Invariant
<1>2. CASE \E b \in BOOLEAN : StartRun(b)
    BY <1>2, StartKeepsInvariant
<1>3. CASE Stop \/ BudgetExhausted
    BY <1>3, PauseKeepsInvariant DEF Stop, BudgetExhausted
<1>4. CASE Crash
    BY <1>4, CrashKeepsInvariant
<1>5. CASE UserWorks
    BY <1>5, UserKeepsInvariant
<1>6. CASE UNCHANGED vars
    BY <1>6 DEF vars, git, local, history, Invariant, TypeOK, TicketTypes, GitTypes, LocalTypes,
        HistoryTypes, WithinLimits, AcceptedTest, Vetting, Saved, InPhase, Claims, Verified,
        Approval, Underway
<1> QED BY <1>1, <1>2, <1>3, <1>4, <1>5, <1>6 DEF Next

\* The inductive invariant: types, limits, the accepted test, and what every
\* phase of a ticket may assume of verifier and gate.
THEOREM InvariantHolds == Spec => []Invariant
BY InitEstablishes, NextKeepsInvariant, PTL DEF Spec

\* The ticket, the worktree, the index and the history always have their
\* types, and no agent is tried and no ticket handed back beyond its limit.
THEOREM TypesAndLimits == Spec => []TypeOK
<1>1. Invariant => TypeOK
    BY DEF Invariant
<1> QED BY <1>1, InvariantHolds, PTL

\* What a done ticket claims is that it landed as it was vetted.
LEMMA VettedByInvariant == Invariant => LandedAsVetted
<1> SUFFICES ASSUME Invariant, disk.status = "done" PROVE LandedAsVetted
    BY DEF LandedAsVetted
<1>1. mem \in Ticket /\ Saved /\ Claims(mem)
    BY DEF Invariant, TypeOK, TicketTypes, Vetting
<1>2. SameClaims(disk, mem) /\ disk.status = mem.status
    BY <1>1, SavedFields
<1>3. Approval(disk) /\ Tree(disk.sha) = disk.tree
    BY <1>1, <1>2 DEF Claims, Approval, SameClaims
<1>4. verified # None /\ gated # None
    BY <1>3, PipelineAssumption DEF Approval
<1> QED BY <1>3, <1>4 DEF Approval, LandedAsVetted

\* A ticket is done only with the work that the verifier and then the
\* regression gate passed, whatever anybody does to the worktree meanwhile.
THEOREM DoneWorkWasVetted == Spec => []LandedAsVetted
BY VettedByInvariant, InvariantHolds, PTL
=============================================================================
