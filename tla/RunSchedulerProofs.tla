------------------------- MODULE RunSchedulerProofs -------------------------
(***************************************************************************)
(* Proofs about RunScheduler, for any number of tickets, any plans with    *)
(* any dependencies, phases and gates, and any interference between runs.  *)
(* What needs the user to leave a ticket's edits alone assumes so.         *)
(***************************************************************************)
EXTENDS RunScheduler, FiniteSetTheorems, WellFoundedInduction, TLAPS

-----------------------------------------------------------------------------
(* The inductive invariant, whatever the user does.                        *)

Busy == {"work", "committed"}
Publishing == {"suite", "checked", "prepr", "gates", "push", "open", "record"}
Places == {"idle", "plan", "schedule", "choose", "settle", "publish"} \cup Busy \cup Publishing

Types ==
    /\ plan \in Plans /\ store \in Store
    /\ head \in Seq(Ids \cup {Foreign}) /\ edits \in Ids \cup {None, Foreign}
    /\ pc \in Places /\ cur \in Ids \cup {None}
    /\ approved \in Nat \cup {None} /\ pushed \in 0..Here \cup {None} /\ suite \in 0..Here \cup {None}
    /\ store.last <= Here /\ \A t \in Ids : store.base[t] \in 0..Here \cup {None}

\* The ticket being worked on is so in the state file; after its commit the
\* branch ends with it.
Working ==
    /\ pc \in Busy <=> cur # None
    /\ cur # None => store.status[cur] = "in_progress" /\ store.base[cur] # None
    /\ pc = "committed" => ~ Dirty /\ Here > 0 /\ head[Here] = cur

\* A ticket that is not there owns nothing; a gate's suite was a suite.
Stored ==
    /\ \A t \in Ids : store.status[t] = "absent" => store.base[t] = None
    /\ \A t \in Ids : store.full[t] # None => suite # None /\ store.full[t] <= suite

\* When a ticket is chosen no gate that is due has been left out.
Scheduled == pc = "choose" => \A g \in DueGates(FALSE) : store.gates[g] = "skipped"

\* What is under publication stays the last accepted commit: the suite may
\* move the branch, and then the check that follows refuses.
Published ==
    /\ pc \in Publishing => Done = Tickets /\ Tickets # {} /\ approved = store.last
    /\ pc = "suite" => Here = approved
    /\ pc = "checked" => suite = approved
    /\ pc \in {"prepr", "gates", "push", "open", "record"} => Here = approved /\ suite = Here /\ ~ Dirty
    /\ pc = "push" => \A g \in plan.gates : store.gates[g] \in {"pass", "skipped"}

IInv == Types /\ Working /\ Stored /\ Scheduled /\ Published

-----------------------------------------------------------------------------
(* Sets of tickets.                                                        *)

\* Ids are positive numbers up to a bound, and neither null nor an author.
LEMMA IdsAre ==
    /\ Ids \subseteq Nat /\ Planned + Fixes \in Nat /\ (\A t \in Ids : t <= Planned + Fixes)
    /\ None \notin Nat /\ None \notin Ids /\ Foreign \notin Ids /\ None # Foreign
BY SchedulerAssumption DEF Ids

\* A bounded set of numbers has a greatest one.
LEMMA MaxIs ==
    ASSUME NEW S \in SUBSET Ids, S # {}
    PROVE  Max(S) \in S /\ \A y \in S : y <= Max(S)
<1>1. PICK n \in Nat : S \subseteq Nat /\ \A s \in S : s <= n
    BY IdsAre
<1> DEFINE T == {n - s : s \in S}
<1>2. T \subseteq Nat /\ T # {}
    <2>1. ASSUME NEW s \in S PROVE n - s \in Nat
        BY <1>1
    <2> QED BY <2>1
<1>3. PICK m \in T : \A y \in T : ~ (<<y, m>> \in OpToRel(<, Nat))
    BY <1>2, NatLessThanWellFounded, WFMin
<1>4. PICK x \in S : m = n - x
    BY <1>3
<1>5. \A y \in S : x >= y
    <2>1. SUFFICES ASSUME NEW y \in S, ~ (x >= y) PROVE FALSE
        OBVIOUS
    <2>2. n - y \in T /\ m \in T
        BY <1>3
    <2>3. x \in Nat /\ y \in Nat
        BY <1>1
    <2>4. n - y < m
        BY <1>4, <2>1, <2>3
    <2>5. <<n - y, m>> \in OpToRel(<, Nat)
        BY <1>2, <2>2, <2>4 DEF OpToRel
    <2> QED BY <1>3, <2>2, <2>5
<1>6. \E z \in S : \A y \in S : z >= y
    BY <1>5
<1>7. Max(S) \in S /\ \A y \in S : Max(S) >= y
    BY <1>6 DEF Max
<1> QED BY <1>1, <1>7

\* The least of one and of two.
LEMMA MinOne == ASSUME NEW x \in Nat PROVE Min({x}) = x
BY DEF Min

\* The lesser of two numbers is one of them.
LEMMA MinTwo == ASSUME NEW x \in Nat, NEW y \in Nat PROVE Min({x, y}) \in {x, y}
<1>1. \E z \in {x, y} : \A w \in {x, y} : z =< w
    OBVIOUS
<1> QED BY <1>1 DEF Min

\* A set of tickets has at most one member when all its members are one.
LEMMA AtMostOne ==
    ASSUME NEW S \in SUBSET Ids
    PROVE  Cardinality(S) <= 1 <=> \A t, u \in S : t = u
<1>1. IsFiniteSet(S)
    <2>1. IsFiniteSet(Ids)
        BY SchedulerAssumption, FS_Interval DEF Ids
    <2> QED BY <2>1, FS_Subset
<1>2. Cardinality(S) \in Nat
    BY <1>1, FS_CardinalityType
<1>3. Cardinality(S) <= 1 <=> Cardinality(S) = 0 \/ Cardinality(S) = 1
    BY <1>2
<1>4. Cardinality(S) = 0 <=> S = {}
    BY <1>1, FS_EmptySet
<1>5. Cardinality(S) = 1 <=> \E x : S = {x}
    BY <1>1, FS_Singleton
<1>6. (\A t, u \in S : t = u) <=> S = {} \/ \E x : S = {x}
    <2>1. ASSUME \A t, u \in S : t = u, S # {} PROVE \E x : S = {x}
        <3>1. PICK x \in S : TRUE
            BY <2>1
        <3>2. S = {x}
            BY <2>1, <3>1
        <3> QED BY <3>2
    <2> QED BY <2>1
<1> QED BY <1>3, <1>4, <1>5, <1>6

-----------------------------------------------------------------------------
(* The steps.                                                              *)

\* Steps that leave the state file alone.
Quiet ==
    \/ PlanExhausted \/ Settle \/ RefuseTicket \/ EditFiles \/ CommitTicket \/ Settled \/ FinishRun
    \/ Approve \/ RefuseApproval \/ RunSuite \/ Recheck \/ RefuseRecheck \/ RefusePrePr \/ Push \/ OpenPullRequest
    \/ StartRun \/ Die \/ UserWorks \/ UNCHANGED vars

\* Steps that put tickets back to pending.
Reopens == Stop \/ \E b \in BOOLEAN : Resume(b)

\* Steps of the ticket being chosen or worked on.
Works == BeginTicket \/ FinishTicket \/ AdoptCommits \/ BlockTicket \/ BudgetExhausted

\* Every step is one of these.
LEMMA Kinds ==
    ASSUME [Next]_vars
    PROVE  \/ Quiet \/ Reopens \/ Works \/ RunGates \/ RunFinalGates
           \/ PlanTickets \/ (\E t \in Ids : BlockUnsatisfiable(t)) \/ PrePrChecks \/ RecordPullRequest
BY DEF Next, Step, Quiet, Reopens, Works

\* A quiet step leaves the plan and the state file alone.
LEMMA QuietIs == ASSUME Quiet PROVE UNCHANGED <<plan, store>>
BY DEF Quiet, PlanExhausted, Settle, RefuseTicket, EditFiles, CommitTicket, Settled, FinishRun, Approve, RefuseApproval,
   RunSuite, Recheck, RefuseRecheck, RefusePrePr, Push, OpenPullRequest, StartRun, Die, UserWorks, vars

\* A step that writes the state file leaves the branch alone, but for a gate's command.
LEMMA WorldStays ==
    ASSUME [Next]_vars, ~ Quiet, ~ RunGates, ~ RunFinalGates
    PROVE  UNCHANGED <<head, edits>>
<1>1. CASE Reopens
    BY <1>1 DEF Reopens, Stop, Resume, world
<1>2. CASE Works
    BY <1>2 DEF Works, BeginTicket, FinishTicket, AdoptCommits, BlockTicket, BudgetExhausted, world
<1>3. CASE PlanTickets \/ (\E t \in Ids : BlockUnsatisfiable(t)) \/ PrePrChecks \/ RecordPullRequest
    BY <1>3 DEF PlanTickets, BlockUnsatisfiable, PrePrChecks, RecordPullRequest, world
<1> QED BY <1>1, <1>2, <1>3, Kinds

\* What a step does to the branch and its edits: at most one commit, by the
\* ticket being worked on or by nobody the state file knows.
Commits(x) == head' = Append(head, x)

\* A step on the branch or its edits, and who may take it.
LEMMA WorldIs ==
    ASSUME [Next]_vars
    PROVE  \/ UNCHANGED head /\ edits' = edits
           \/ UNCHANGED head /\ edits = None /\ edits' = Foreign /\ ~ (pc = "work" \/ pc = "committed")
           \/ UNCHANGED head /\ edits' = cur /\ pc = "work" /\ Quiet
           \/ UNCHANGED head /\ edits = Foreign /\ edits' = None /\ "tidy" \in UserActs /\ pc = "idle" /\ Quiet
           \/ Commits(Foreign) /\ edits' = None /\ pc = "idle" /\ Quiet
           \/ Commits(Foreign) /\ edits' = edits /\ ~ (pc = "work" \/ pc = "committed")
           \/ Commits(cur) /\ CommitTicket
<1>1. CASE Quiet
    <2>1. CASE EditFiles \/ CommitTicket
        BY <1>1, <2>1 DEF EditFiles, CommitTicket, Commits
    <2>2. CASE UserWorks
        BY <1>1, <2>2 DEF UserWorks, Commits, Dirty
    <2>3. CASE RunSuite \/ RefusePrePr
        BY <2>3 DEF RunSuite, RefusePrePr, Litter, Commits, world
    <2>4. CASE ~ (EditFiles \/ CommitTicket \/ UserWorks \/ RunSuite \/ RefusePrePr)
        BY <1>1, <2>4 DEF Quiet, PlanExhausted, Settle, RefuseTicket, Settled, FinishRun, Approve, RefuseApproval,
           Recheck, RefuseRecheck, Push, OpenPullRequest, StartRun, Die, vars, world
    <2> QED BY <2>1, <2>2, <2>3, <2>4
<1>2. CASE RunGates \/ RunFinalGates
    <2>1. PICK final \in BOOLEAN : PassGates(final) \/ \E g \in plan.gates : FailGate(final, g)
        BY <1>2 DEF RunGates, RunFinalGates
    <2>2. CASE PassGates(final)
        BY <2>2 DEF PassGates, world
    <2>3. CASE \E g \in plan.gates : FailGate(final, g)
        <3>1. UNCHANGED world \/ Litter
            BY <2>3 DEF FailGate
        <3>2. pc \in {"schedule", "gates"}
            BY <1>2 DEF RunGates, RunFinalGates
        <3> QED BY <3>1, <3>2 DEF Litter, Commits, world
    <2> QED BY <2>1, <2>2, <2>3
<1>3. CASE ~ Quiet /\ ~ RunGates /\ ~ RunFinalGates
    BY <1>3, WorldStays
<1> QED BY <1>1, <1>2, <1>3

\* The branch only grows.
LEMMA BranchGrows ==
    ASSUME Types, [Next]_vars
    PROVE  /\ Here \in Nat /\ Here' \in Nat /\ Here <= Here'
           /\ \A i \in DOMAIN head : i \in DOMAIN head' /\ head'[i] = head[i]
           /\ \A i \in DOMAIN head' : i \in DOMAIN head \/ (i = Here + 1 /\ Here' = Here + 1)
           /\ DOMAIN head = 1..Here
<1>1. head \in Seq(Ids \cup {Foreign}) /\ Here \in Nat /\ DOMAIN head = 1..Here
    BY DEF Types, Here
<1>2. ASSUME head' = head PROVE Here' = Here /\ DOMAIN head' = DOMAIN head
    BY <1>2 DEF Here
<1>3. ASSUME NEW x, Commits(x)
      PROVE  /\ Here' = Here + 1 /\ DOMAIN head' = 1..(Here + 1)
             /\ \A i \in DOMAIN head : head'[i] = head[i]
    BY <1>1, <1>3 DEF Commits, Here
<1>4. head' = head \/ Commits(Foreign) \/ Commits(cur)
    BY WorldIs
<1>5. \A i \in 1..(Here + 1) : i \in 1..Here \/ i = Here + 1
    BY <1>1
<1> QED BY <1>1, <1>2, <1>3, <1>4, <1>5

-----------------------------------------------------------------------------
(* Types.                                                                  *)

\* What is known of the state file.
LEMMA StoreIs ==
    ASSUME store \in Store
    PROVE  /\ store.status \in [Ids -> Status] /\ store.base \in [Ids -> Nat \cup {None}]
           /\ store.full \in [Ids -> Nat \cup {None}] /\ store.gates \in [1..Final -> GateStatus]
           /\ store.last \in Nat /\ store.rounds \in Nat /\ store.pr \in BOOLEAN
BY DEF Store

\* The state file stays one.
LEMMA StoreStep ==
    ASSUME Types, Working, [Next]_vars
    PROVE  /\ plan' = plan /\ store' \in Store
           /\ store'.last \in {store.last, Here}
           /\ \A t \in Ids : store'.base[t] \in {store.base[t], Here, None}
<1>1. CASE Quiet
    <2>1. store' = store /\ plan' = plan
        BY <1>1, QuietIs
    <2> QED BY <2>1 DEF Types
<1>2. CASE Reopens
    <2>1. PICK S \in SUBSET Ids : store' = [store EXCEPT !.status = [t \in Ids |-> IF t \in S THEN "pending" ELSE @[t]]]
        <3>1. CASE Stop
            <4>1. store' = [store EXCEPT !.status =
                      [t \in Ids |-> IF t \in {u \in Ids : store.status[u] = "in_progress"} THEN "pending" ELSE @[t]]]
                BY <3>1 DEF Stop
            <4> QED BY <4>1
        <3>2. ASSUME NEW b \in BOOLEAN, Resume(b)
              PROVE  \E S \in SUBSET Ids : store' = [store EXCEPT !.status = [t \in Ids |-> IF t \in S THEN "pending" ELSE @[t]]]
            <4>1. store' = [store EXCEPT !.status =
                      [t \in Ids |-> IF t \in {u \in Ids : b /\ store.status[u] = "blocked"} THEN "pending" ELSE @[t]]]
                BY <3>2 DEF Resume
            <4> QED BY <4>1
        <3> QED BY <1>2, <3>1, <3>2 DEF Reopens
    <2>2. plan' = plan
        BY <1>2 DEF Reopens, Stop, Resume
    <2> QED BY <2>1, <2>2 DEF Types, Store, Status
<1>3. CASE RunGates \/ RunFinalGates
    <2>1. PICK final \in BOOLEAN : PassGates(final) \/ \E g \in plan.gates : FailGate(final, g)
        BY <1>3 DEF RunGates, RunFinalGates
    <2>2. \E gates \in [1..Final -> GateStatus] : store' = [store EXCEPT !.gates = gates]
        <3>1. CASE PassGates(final)
            <4>1. store' = [store EXCEPT !.gates =
                      [g \in 1..Final |-> IF g \in DueGates(final) THEN IF commands THEN "pass" ELSE "skipped" ELSE store.gates[g]]]
                BY <3>1 DEF PassGates
            <4>2. [g \in 1..Final |-> IF g \in DueGates(final) THEN IF commands THEN "pass" ELSE "skipped" ELSE store.gates[g]]
                      \in [1..Final -> GateStatus]
                BY StoreIs DEF Types, GateStatus
            <4> QED BY <4>1, <4>2
        <3>2. ASSUME NEW g \in plan.gates, FailGate(final, g)
              PROVE  \E gates \in [1..Final -> GateStatus] : store' = [store EXCEPT !.gates = gates]
            <4> DEFINE new == [f \in 1..Final |-> IF f = g THEN "fail"
                                   ELSE IF f \in DueGates(final) /\ f < g
                                   THEN IF commands THEN "pass" ELSE "skipped" ELSE store.gates[f]]
            <4>1. store' = [store EXCEPT !.gates = new]
                BY <3>2 DEF FailGate
            <4>2. new \in [1..Final -> GateStatus]
                BY StoreIs DEF Types, GateStatus
            <4> QED BY <4>1, <4>2
        <3> QED BY <2>1, <3>1, <3>2
    <2>3. plan' = plan
        BY <2>1 DEF PassGates, FailGate
    <2> QED BY <2>2, <2>3 DEF Types, Store
<1>4. CASE PlanTickets
    <2>1. plan' = plan
        BY <1>4 DEF PlanTickets
    <2>2. store' = [store EXCEPT
           !.status = [t \in Ids |-> IF t > Planned THEN "absent" ELSE IF t \in plan.ticked THEN "done" ELSE "pending"],
           !.gates = [g \in 1..Final |-> IF g \in plan.passed THEN "pass" ELSE "pending"]]
        BY <1>4 DEF PlanTickets
    <2>3. /\ [t \in Ids |-> IF t > Planned THEN "absent" ELSE IF t \in plan.ticked THEN "done" ELSE "pending"] \in [Ids -> Status]
          /\ [g \in 1..Final |-> IF g \in plan.passed THEN "pass" ELSE "pending"] \in [1..Final -> GateStatus]
        BY DEF Status, GateStatus
    <2> QED BY <2>1, <2>2, <2>3 DEF Types, Store
<1>5. CASE BeginTicket
    <2>1. plan' = plan /\ Choice \in Ids
        BY <1>5 DEF BeginTicket, CurrentPhase, Ready, Pending
    <2>2. PICK c \in Ids : store' = [store EXCEPT !.status[c] = "in_progress", !.base[c] = IF @ = None THEN Here ELSE @]
        BY <1>5, <2>1 DEF BeginTicket
    <2>3. Here \in Nat
        BY DEF Types, Here
    <2> QED BY <2>1, <2>2, <2>3 DEF Types, Store, Status
<1>6. CASE FinishTicket
    <2>1. plan' = plan /\ cur \in Ids /\ Here \in Nat
        BY <1>6, IdsAre DEF FinishTicket, Working, Types, Busy, Here
    <2>2. PICK full \in {None, Here} :
              store' = [store EXCEPT !.status[cur] = "done", !.last = Here, !.full[cur] = full]
        BY <1>6 DEF FinishTicket
    <2> QED BY <2>1, <2>2 DEF Types, Store, Status
<1>7. CASE AdoptCommits
    <2>1. plan' = plan /\ cur \in Ids /\ Here \in Nat
        BY <1>7, IdsAre DEF AdoptCommits, Working, Types, Busy, Here
    <2> QED BY <1>7, <2>1 DEF AdoptCommits, Types, Store, Status
<1>8. CASE BlockTicket \/ BudgetExhausted
    <2>1. plan' = plan /\ cur \in Ids
        BY <1>8, IdsAre DEF BlockTicket, BudgetExhausted, Working, Types, Busy
    <2>2. CASE BlockTicket
        BY <2>1, <2>2 DEF BlockTicket, Types, Store, Status
    <2>3. CASE BudgetExhausted
        BY <2>1, <2>3 DEF BudgetExhausted, Types, Store, Status
    <2> QED BY <1>8, <2>2, <2>3
<1>9. CASE \E t \in Ids : BlockUnsatisfiable(t)
    <2>1. PICK t \in Ids : BlockUnsatisfiable(t)
        BY <1>9
    <2> QED BY <2>1 DEF BlockUnsatisfiable, Types, Store, Status
<1>10. CASE PrePrChecks
    <2>1. plan' = plan
        BY <1>10 DEF PrePrChecks
    <2>2. CASE UNCHANGED store
        BY <2>1, <2>2 DEF Types
    <2>3. CASE ~ UNCHANGED store
        <3>1. PICK new \in SUBSET Ids :
                  store' = [store EXCEPT !.rounds = Min({@ + 1, MaxPrePrRounds}),
                                         !.status = [t \in Ids |-> IF t \in new THEN "pending" ELSE @[t]]]
            <4>1. PICK findings \in 0..Fixes :
                    LET new == IF store.rounds < MaxPrePrRounds THEN Max(Tickets) + 1..Max(Tickets) + findings ELSE {}
                    IN  /\ new \subseteq Ids
                        /\ store' = [store EXCEPT !.rounds = Min({@ + 1, MaxPrePrRounds}),
                                                  !.status = [t \in Ids |-> IF t \in new THEN "pending" ELSE @[t]]]
                BY <1>10, <2>3 DEF PrePrChecks
            <4> DEFINE new == IF store.rounds < MaxPrePrRounds THEN Max(Tickets) + 1..Max(Tickets) + findings ELSE {}
            <4>2. /\ new \in SUBSET Ids
                  /\ store' = [store EXCEPT !.rounds = Min({@ + 1, MaxPrePrRounds}),
                                            !.status = [t \in Ids |-> IF t \in new THEN "pending" ELSE @[t]]]
                BY <4>1
            <4> HIDE DEF new
            <4> QED BY <4>2
        <3>2. Min({store.rounds + 1, MaxPrePrRounds}) \in Nat
            <4>1. store.rounds + 1 \in Nat /\ MaxPrePrRounds \in Nat
                BY StoreIs, SchedulerAssumption DEF Types
            <4>2. Min({store.rounds + 1, MaxPrePrRounds}) \in {store.rounds + 1, MaxPrePrRounds}
                BY <4>1, MinTwo
            <4> QED BY <4>1, <4>2
        <3> QED BY <2>1, <3>1, <3>2 DEF Types, Store, Status
    <2> QED BY <2>2, <2>3
<1>11. CASE RecordPullRequest
    BY <1>11 DEF RecordPullRequest, Types, Store
<1> QED BY <1>1, <1>2, <1>3, <1>4, <1>5, <1>6, <1>7, <1>8, <1>9, <1>10, <1>11, Kinds DEF Works

\* Where a step leads, and the shas it takes.
LEMMA Control ==
    ASSUME Types, [Next]_vars
    PROVE  /\ pc' \in Places /\ cur' \in Ids \cup {None} /\ approved' \in {approved, None, Here}
           /\ pushed' \in {pushed, Here} /\ suite' \in {suite, Here}
<1> USE DEF Types, Places, Busy, Publishing
<1>1. CASE Quiet
    <2>1. CASE PlanExhausted \/ RefuseTicket \/ FinishRun \/ RefuseApproval \/ RefuseRecheck \/ RefusePrePr \/ Die
        BY <2>1 DEF PlanExhausted, RefuseTicket, FinishRun, RefuseApproval, RefuseRecheck, RefusePrePr, Die, End, remote
    <2>2. CASE Settle \/ EditFiles \/ CommitTicket \/ Settled
        BY <2>2 DEF Settle, EditFiles, CommitTicket, Settled, Goto, remote
    <2>3. CASE Approve \/ RunSuite \/ Recheck \/ Push \/ OpenPullRequest
        BY <2>3 DEF Approve, RunSuite, Recheck, Push, OpenPullRequest, Goto, remote
    <2>4. CASE StartRun \/ UserWorks \/ UNCHANGED vars
        BY <2>4 DEF StartRun, UserWorks, vars, remote
    <2> QED BY <1>1, <2>1, <2>2, <2>3, <2>4 DEF Quiet
<1>2. CASE Reopens
    BY <1>2 DEF Reopens, Stop, Resume, End, Goto, remote
<1>3. CASE BeginTicket
    <2>1. Choice \in Ids
        BY <1>3 DEF BeginTicket, CurrentPhase, Ready, Pending
    <2> QED BY <1>3, <2>1 DEF BeginTicket, remote
<1>4. CASE FinishTicket \/ AdoptCommits \/ BlockTicket \/ BudgetExhausted
    BY <1>4 DEF FinishTicket, AdoptCommits, BlockTicket, BudgetExhausted, Goto, remote
<1>5. CASE RunGates \/ RunFinalGates
    BY <1>5 DEF RunGates, RunFinalGates, PassGates, FailGate, Goto, remote
<1>6. CASE PlanTickets \/ (\E t \in Ids : BlockUnsatisfiable(t)) \/ RecordPullRequest
    BY <1>6 DEF PlanTickets, BlockUnsatisfiable, RecordPullRequest, Goto, End, remote
<1>7. CASE PrePrChecks
    <2>1. UNCHANGED <<remote, suite, cur, approved>> /\ pc' \in {"gates", "schedule"}
        BY <1>7 DEF PrePrChecks, Goto
    <2> QED BY <2>1 DEF remote
<1> QED BY <1>1, <1>2, <1>3, <1>4, <1>5, <1>6, <1>7, Kinds DEF Works

\* Everything is typed after every step.
LEMMA TypesStep ==
    ASSUME Types, Working, [Next]_vars
    PROVE  Types'
<1>1. Here \in Nat /\ Here' \in Nat /\ Here <= Here'
    BY BranchGrows
<1>2. head' \in Seq(Ids \cup {Foreign}) /\ edits' \in Ids \cup {None, Foreign}
    <2>1. CommitTicket => cur \in Ids
        BY DEF CommitTicket, Working, Types, Busy
    <2>2. head' = head \/ Commits(Foreign) \/ (Commits(cur) /\ CommitTicket)
        BY WorldIs
    <2>3. head' \in Seq(Ids \cup {Foreign})
        BY <2>1, <2>2 DEF Types, Commits
    <2>4. edits' \in {edits, Foreign, cur, None}
        BY WorldIs DEF CommitTicket
    <2> QED BY <2>3, <2>4 DEF Types
<1>3. plan' \in Plans /\ store' \in Store
    BY StoreStep DEF Types
<1>4. store'.last \in Nat /\ store'.last <= Here'
    <2>1. store'.last \in {store.last, Here} /\ store.last \in Nat /\ store.last <= Here
        BY StoreStep, StoreIs DEF Types
    <2> QED BY <1>1, <2>1
<1>5. \A t \in Ids : store'.base[t] \in 0..Here' \cup {None}
    <2>1. ASSUME NEW t \in Ids PROVE store'.base[t] \in 0..Here' \cup {None}
        <3>1. store'.base[t] \in {store.base[t], Here, None} /\ store.base[t] \in 0..Here \cup {None}
            BY StoreStep DEF Types
        <3> QED BY <1>1, <3>1
    <2> QED BY <2>1
<1>6. pushed' \in 0..Here' \cup {None} /\ suite' \in 0..Here' \cup {None} /\ approved' \in Nat \cup {None}
    <2>1. /\ pushed' \in {pushed, Here} /\ suite' \in {suite, Here} /\ approved' \in {approved, None, Here}
          /\ pushed \in 0..Here \cup {None} /\ suite \in 0..Here \cup {None} /\ approved \in Nat \cup {None}
        BY Control DEF Types
    <2> QED BY <1>1, <2>1
<1> QED BY <1>2, <1>3, <1>4, <1>5, <1>6, Control DEF Types

\* The ticket being worked on stays so until the runner leaves it.
LEMMA WorkingStep ==
    ASSUME IInv, [Next]_vars
    PROVE  Working'
<1> USE DEF IInv, Busy
<1>0. None \notin Ids /\ Here \in Nat
    BY IdsAre, BranchGrows
<1>1. CASE Quiet
    <2>0. store' = store
        BY <1>1, QuietIs
    <2>1. CASE PlanExhausted \/ RefuseTicket \/ FinishRun \/ RefuseApproval \/ RefuseRecheck \/ RefusePrePr \/ Die
        BY <2>1 DEF PlanExhausted, RefuseTicket, FinishRun, RefuseApproval, RefuseRecheck, RefusePrePr, Die, End, Working
    <2>2. CASE CommitTicket
        <3>1. head' = Append(head, cur) /\ edits' = None /\ pc = "work" /\ pc' = "committed" /\ cur' = cur
            BY <2>2 DEF CommitTicket, Goto
        <3>2. Here' = Here + 1 /\ head'[Here'] = cur
            BY <1>0, <3>1 DEF Here, Types
        <3> QED BY <1>0, <2>0, <3>1, <3>2 DEF Working, Dirty
    <2>3. CASE EditFiles
        BY <2>0, <2>3 DEF EditFiles, Working
    <2>4. CASE Settle \/ Settled \/ Approve \/ RunSuite \/ Recheck \/ Push \/ OpenPullRequest \/ StartRun
        <3>1. cur' = cur /\ pc \notin Busy /\ pc' \notin Busy
            BY <2>4 DEF Settle, Settled, Approve, RunSuite, Recheck, Push, OpenPullRequest, StartRun, Goto
        <3> QED BY <3>1 DEF Working
    <2>5. CASE UserWorks
        BY <2>5 DEF UserWorks, Working
    <2>6. CASE UNCHANGED vars
        BY <2>6 DEF vars, world, Working, Dirty, Here
    <2> QED BY <1>1, <2>1, <2>2, <2>3, <2>4, <2>5, <2>6 DEF Quiet
<1>2. CASE Reopens \/ PlanTickets \/ (\E t \in Ids : BlockUnsatisfiable(t)) \/ RecordPullRequest \/ RunGates \/ RunFinalGates
    <2>1. cur' = None /\ pc' \notin Busy
        BY <1>2 DEF Reopens, Stop, Resume, PlanTickets, BlockUnsatisfiable, RecordPullRequest, RunGates, RunFinalGates,
           PassGates, FailGate, End, Goto, Working
    <2> QED BY <2>1 DEF Working
<1>3. CASE PrePrChecks
    <2>1. cur' = cur /\ pc = "prepr" /\ pc' \in {"gates", "schedule"}
        BY <1>3 DEF PrePrChecks, Goto
    <2> QED BY <2>1 DEF Working
<1>4. CASE BeginTicket
    <2>1. Choice \in Ids
        BY <1>4 DEF BeginTicket, CurrentPhase, Ready, Pending
    <2>2. PICK c \in Ids : /\ cur' = c /\ pc' = "work"
                           /\ store' = [store EXCEPT !.status[c] = "in_progress", !.base[c] = IF @ = None THEN Here ELSE @]
        BY <1>4, <2>1 DEF BeginTicket
    <2>3. store'.status[c] = "in_progress" /\ store'.base[c] = IF store.base[c] = None THEN Here ELSE store.base[c]
        BY <2>2, StoreIs DEF Types
    <2>4. Here # None
        BY <1>0, IdsAre
    <2> QED BY <1>0, <2>2, <2>3, <2>4 DEF Working
<1>5. CASE AdoptCommits
    <2>1. /\ cur \in Ids /\ cur' = cur /\ pc' = "work" /\ pc = "work"
          /\ store' = [store EXCEPT !.base[cur] = Here, !.last = Here]
        BY <1>5 DEF AdoptCommits, Goto, Working, Types
    <2>2. store'.status[cur] = store.status[cur] /\ store'.base[cur] = Here
        BY <2>1, StoreIs DEF Types
    <2>3. Here # None
        BY <1>0, IdsAre
    <2> QED BY <2>1, <2>2, <2>3 DEF Working
<1>6. CASE FinishTicket \/ BlockTicket \/ BudgetExhausted
    <2>1. cur' = None /\ pc' \in {"schedule", "settle"}
        BY <1>6 DEF FinishTicket, BlockTicket, BudgetExhausted
    <2> QED BY <2>1 DEF Working
<1> QED BY <1>1, <1>2, <1>3, <1>4, <1>5, <1>6, Kinds DEF Works

-----------------------------------------------------------------------------
(* What a step makes of the tickets, ticket by ticket.                     *)

Leaves(t) == store'.status[t] = store.status[t] /\ store'.base[t] = store.base[t]

\* Everything but one ticket stays.
OnlyOf(c) == c \in Ids /\ \A t \in Ids \ {c} : Leaves(t)

SameLast == store'.last = store.last
SameFull == \A t \in Ids : store'.full[t] = store.full[t]

Unchanging == (\A t \in Ids : Leaves(t)) /\ SameLast /\ SameFull

Reopened ==
    /\ \A t \in Ids : \/ Leaves(t)
                      \/ /\ store.status[t] \in {"in_progress", "blocked"} /\ store'.status[t] = "pending"
                         /\ store'.base[t] = store.base[t]
    /\ SameLast /\ SameFull

\* Tickets that were not there are planned, or added by the pre-PR checks.
Added ==
    /\ \A t \in Ids : \/ Leaves(t)
                      \/ /\ store.status[t] = "absent" /\ store'.base[t] = store.base[t]
                         /\ store'.status[t] \in {"pending", "done"}
    /\ SameLast /\ SameFull

Begun(c) ==
    /\ BeginTicket /\ c = Choice /\ c \in CurrentPhase /\ OnlyOf(c) /\ cur' = c
    /\ store'.status[c] = "in_progress"
    /\ store'.base[c] = IF store.base[c] = None THEN Here ELSE store.base[c]
    /\ SameLast /\ SameFull

Adopted ==
    /\ AdoptCommits /\ OnlyOf(cur) /\ store'.status[cur] = store.status[cur]
    /\ store'.base[cur] = Here /\ store'.last = Here /\ SameFull

Finished ==
    /\ FinishTicket /\ OnlyOf(cur) /\ store'.status[cur] = "done" /\ store'.last = Here
    /\ \A t \in Ids \ {cur} : store'.full[t] = store.full[t]
    /\ \/ store'.full[cur] = None /\ suite' = suite
       \/ store'.full[cur] = Here /\ suite' = Here

Blocked(t) ==
    /\ OnlyOf(t) /\ store.status[t] \in {"pending", "in_progress"} /\ store'.status[t] = "blocked"
    /\ store'.base[t] = (IF Dirty THEN store.base[t] ELSE None)
    /\ SameLast /\ SameFull
    /\ t = cur \/ cur = None

\* New tickets follow all there are.
LEMMA NewOnes ==
    ASSUME Tickets # {}, NEW findings \in Nat, NEW t \in Max(Tickets) + 1..Max(Tickets) + findings
    PROVE  t \notin Tickets
<1>1. Tickets \in SUBSET Ids
    BY DEF Tickets
<1>2. Max(Tickets) \in Nat /\ \A y \in Tickets : y <= Max(Tickets)
    BY <1>1, MaxIs, IdsAre
<1>3. t > Max(Tickets)
    BY <1>2
<1> QED BY <1>2, <1>3

\* What a step of the runner makes of the state file.
LEMMA Effects ==
    ASSUME IInv, [Next]_vars
    PROVE  \/ Unchanging /\ (Quiet \/ ((RunGates \/ RunFinalGates \/ PrePrChecks \/ RecordPullRequest) /\ UNCHANGED suite))
           \/ Reopened /\ (Reopens \/ BudgetExhausted) /\ UNCHANGED suite
           \/ Added /\ (PlanTickets \/ PrePrChecks) /\ UNCHANGED suite
           \/ (\E c \in Ids : Begun(c)) /\ UNCHANGED suite
           \/ Adopted /\ UNCHANGED suite
           \/ Finished
           \/ BlockTicket /\ Blocked(cur) /\ UNCHANGED suite
           \/ (\E t \in Ids : BlockUnsatisfiable(t) /\ Blocked(t)) /\ UNCHANGED suite
<1> USE DEF IInv
<1>0. store \in Store
    BY DEF Types
<1>1. CASE Quiet
    BY <1>1, QuietIs DEF Unchanging, Leaves, SameLast, SameFull
<1>2. CASE Stop
    <2>1. store' = [store EXCEPT !.status = [t \in Ids |-> IF @[t] = "in_progress" THEN "pending" ELSE @[t]]] /\ UNCHANGED suite
        BY <1>2 DEF Stop
    <2>2. Reopened
        BY <1>0, <2>1, StoreIs DEF Reopened, Leaves, SameLast, SameFull
    <2> QED BY <1>2, <2>1, <2>2 DEF Reopens
<1>3. CASE \E b \in BOOLEAN : Resume(b)
    <2>1. PICK b \in BOOLEAN :
            /\ store' = [store EXCEPT !.status = [t \in Ids |-> IF b /\ @[t] = "blocked" THEN "pending" ELSE @[t]]]
            /\ UNCHANGED suite
        BY <1>3 DEF Resume
    <2>2. Reopened
        BY <1>0, <2>1, StoreIs DEF Reopened, Leaves, SameLast, SameFull
    <2> QED BY <1>3, <2>1, <2>2 DEF Reopens
<1>4. CASE BudgetExhausted
    <2>1. cur \in Ids /\ store.status[cur] = "in_progress"
        BY <1>4 DEF BudgetExhausted, Working, Types, Busy
    <2>2. store' = [store EXCEPT !.status[cur] = "pending"] /\ UNCHANGED suite
        BY <1>4 DEF BudgetExhausted
    <2>3. Reopened
        BY <1>0, <2>1, <2>2, StoreIs DEF Reopened, Leaves, SameLast, SameFull
    <2> QED BY <1>4, <2>2, <2>3
<1>5. CASE RunGates \/ RunFinalGates \/ RecordPullRequest
    <2>1. \/ \E gates \in [1..Final -> GateStatus] : store' = [store EXCEPT !.gates = gates]
          \/ store' = [store EXCEPT !.pr = TRUE]
        <3>1. CASE RecordPullRequest
            BY <3>1 DEF RecordPullRequest
        <3>2. CASE RunGates \/ RunFinalGates
            <4>1. PICK final \in BOOLEAN : PassGates(final) \/ \E g \in plan.gates : FailGate(final, g)
                BY <3>2 DEF RunGates, RunFinalGates
            <4>2. CASE PassGates(final)
                <5> DEFINE new == [g \in 1..Final |-> IF g \in DueGates(final) THEN IF commands THEN "pass" ELSE "skipped" ELSE store.gates[g]]
                <5>1. store' = [store EXCEPT !.gates = new]
                    BY <4>2 DEF PassGates
                <5>2. new \in [1..Final -> GateStatus]
                    BY <1>0, StoreIs DEF GateStatus
                <5> QED BY <5>1, <5>2
            <4>3. ASSUME NEW g \in plan.gates, FailGate(final, g)
                  PROVE  \E gates \in [1..Final -> GateStatus] : store' = [store EXCEPT !.gates = gates]
                <5> DEFINE new == [f \in 1..Final |-> IF f = g THEN "fail"
                                       ELSE IF f \in DueGates(final) /\ f < g
                                       THEN IF commands THEN "pass" ELSE "skipped" ELSE store.gates[f]]
                <5>1. store' = [store EXCEPT !.gates = new]
                    BY <4>3 DEF FailGate
                <5>2. new \in [1..Final -> GateStatus]
                    BY <1>0, StoreIs DEF GateStatus
                <5> QED BY <5>1, <5>2
            <4> QED BY <4>1, <4>2, <4>3
        <3> QED BY <1>5, <3>1, <3>2
    <2>2. Unchanging
        <3>1. ASSUME NEW gates, store' = [store EXCEPT !.gates = gates] PROVE Unchanging
            BY <1>0, <3>1 DEF Store, Unchanging, Leaves, SameLast, SameFull
        <3>2. CASE store' = [store EXCEPT !.pr = TRUE]
            BY <1>0, <3>2 DEF Store, Unchanging, Leaves, SameLast, SameFull
        <3> QED BY <2>1, <3>1, <3>2
    <2>3. UNCHANGED suite
        BY <1>5 DEF RunGates, RunFinalGates, PassGates, FailGate, RecordPullRequest
    <2> QED BY <1>5, <2>2, <2>3
<1>6. CASE PlanTickets
    <2>1. store' = [store EXCEPT
           !.status = [t \in Ids |-> IF t > Planned THEN "absent" ELSE IF t \in plan.ticked THEN "done" ELSE "pending"],
           !.gates = [g \in 1..Final |-> IF g \in plan.passed THEN "pass" ELSE "pending"]]
        BY <1>6 DEF PlanTickets
    <2>2. \A t \in Ids : store.status[t] = "absent"
        BY <1>6 DEF PlanTickets, Tickets
    <2>3. /\ \A t \in Ids : store'.base[t] = store.base[t] /\ store'.full[t] = store.full[t]
          /\ store'.last = store.last
          /\ \A t \in Ids : store'.status[t] \in {"absent", "pending", "done"}
        BY <1>0, <2>1, StoreIs
    <2>4. Added
        BY <2>2, <2>3 DEF Added, Leaves, SameLast, SameFull
    <2> QED BY <1>6, <2>4 DEF PlanTickets
<1>7. CASE PrePrChecks
    <2>1. UNCHANGED suite
        BY <1>7 DEF PrePrChecks
    <2>2. CASE UNCHANGED store
        BY <1>7, <2>1, <2>2 DEF Unchanging, Leaves, SameLast, SameFull
    <2>3. CASE ~ UNCHANGED store
        <3>1. PICK findings \in 0..Fixes :
                LET new == IF store.rounds < MaxPrePrRounds THEN Max(Tickets) + 1..Max(Tickets) + findings ELSE {}
                IN  /\ new \subseteq Ids
                    /\ store' = [store EXCEPT !.rounds = Min({@ + 1, MaxPrePrRounds}),
                                              !.status = [t \in Ids |-> IF t \in new THEN "pending" ELSE @[t]]]
            BY <1>7, <2>3 DEF PrePrChecks
        <3> DEFINE new == IF store.rounds < MaxPrePrRounds THEN Max(Tickets) + 1..Max(Tickets) + findings ELSE {}
        <3>2. store' = [store EXCEPT !.rounds = Min({@ + 1, MaxPrePrRounds}),
                                     !.status = [t \in Ids |-> IF t \in new THEN "pending" ELSE @[t]]]
            BY <3>1
        <3>3. ASSUME NEW t \in Ids, t \in new PROVE store.status[t] = "absent"
            <4>1. t \in Max(Tickets) + 1..Max(Tickets) + findings /\ findings \in Nat
                BY <3>3, SchedulerAssumption
            <4>2. Tickets # {}
                BY <1>7 DEF PrePrChecks, Published, Publishing, Tickets, Done
            <4>3. t \notin Tickets
                BY <4>1, <4>2, NewOnes
            <4> QED BY <4>3 DEF Tickets
        <3> HIDE DEF new
        <3>4. Added
            BY <1>0, <3>2, <3>3, StoreIs DEF Added, Leaves, SameLast, SameFull
        <3> QED BY <1>7, <2>1, <3>4
    <2> QED BY <2>2, <2>3
<1>8. CASE BeginTicket
    <2>1. Choice \in Ids /\ Choice \in CurrentPhase
        BY <1>8 DEF BeginTicket, CurrentPhase, Ready, Pending
    <2>2. PICK c \in Ids : /\ c = Choice /\ cur' = c /\ UNCHANGED suite
                           /\ store' = [store EXCEPT !.status[c] = "in_progress", !.base[c] = IF @ = None THEN Here ELSE @]
        BY <1>8, <2>1 DEF BeginTicket
    <2>3. \A t \in Ids \ {c} : Leaves(t)
        BY <1>0, <2>2, StoreIs DEF Leaves
    <2>4. /\ store'.status[c] = "in_progress"
          /\ store'.base[c] = IF store.base[c] = None THEN Here ELSE store.base[c]
          /\ SameLast /\ SameFull
        BY <1>0, <2>2, StoreIs DEF SameLast, SameFull
    <2> QED BY <1>8, <2>1, <2>2, <2>3, <2>4 DEF Begun, OnlyOf
<1>9. CASE FinishTicket
    <2>1. cur \in Ids
        BY <1>9, IdsAre DEF FinishTicket, Working, Types, Busy
    <2>2. PICK full \in {None, Here} :
              /\ store' = [store EXCEPT !.status[cur] = "done", !.last = Here, !.full[cur] = full]
              /\ suite' = IF full = None THEN suite ELSE full
        BY <1>9 DEF FinishTicket
    <2>3. /\ \A t \in Ids \ {cur} : Leaves(t) /\ store'.full[t] = store.full[t]
          /\ store'.status[cur] = "done" /\ store'.last = Here /\ store'.full[cur] = full
        BY <1>0, <2>1, <2>2, StoreIs DEF Leaves
    <2> QED BY <1>9, <2>1, <2>2, <2>3 DEF Finished, OnlyOf
<1>10. CASE AdoptCommits
    <2>1. cur \in Ids /\ store' = [store EXCEPT !.base[cur] = Here, !.last = Here] /\ UNCHANGED suite
        BY <1>10, IdsAre DEF AdoptCommits, Working, Types, Busy
    <2>2. Adopted
        BY <1>0, <1>10, <2>1, StoreIs DEF Adopted, OnlyOf, Leaves, SameFull
    <2> QED BY <2>1, <2>2
<1>11. CASE BlockTicket
    <2>1. cur \in Ids /\ store.status[cur] = "in_progress"
        BY <1>11, IdsAre DEF BlockTicket, Working, Types, Busy
    <2>2. store' = [store EXCEPT !.status[cur] = "blocked", !.base[cur] = IF Dirty THEN @ ELSE None] /\ UNCHANGED suite
        BY <1>11 DEF BlockTicket
    <2>3. Blocked(cur)
        BY <1>0, <2>1, <2>2, StoreIs DEF Blocked, OnlyOf, Leaves, SameLast, SameFull
    <2> QED BY <1>11, <2>2, <2>3
<1>12. CASE \E t \in Ids : BlockUnsatisfiable(t)
    <2>1. PICK t \in Ids : BlockUnsatisfiable(t)
        BY <1>12
    <2>2. /\ store' = [store EXCEPT !.status[t] = "blocked", !.base[t] = IF Dirty THEN @ ELSE None] /\ UNCHANGED suite
          /\ store.status[t] \in {"pending", "in_progress"} /\ pc = "settle"
        BY <2>1 DEF BlockUnsatisfiable, Pending
    <2>3. cur = None
        BY <2>2 DEF Working, Busy
    <2>4. Blocked(t)
        BY <1>0, <2>2, <2>3, StoreIs DEF Blocked, OnlyOf, Leaves, SameLast, SameFull
    <2> QED BY <2>1, <2>2, <2>4
<1> QED BY <1>1, <1>2, <1>3, <1>4, <1>5, <1>6, <1>7, <1>8, <1>9, <1>10, <1>11, <1>12, Kinds DEF Works, Reopens

-----------------------------------------------------------------------------
(* Gates, suites and the order of work.                                    *)

\* What is absent owns nothing, and a gate's suite was one.
LEMMA StoredStep ==
    ASSUME IInv, [Next]_vars
    PROVE  Stored'
<1> USE DEF IInv
<1>0. None \notin Nat /\ Here \in Nat /\ suite \in 0..Here \cup {None} /\ (\A t \in Ids : store.full[t] \in Nat \cup {None})
    BY IdsAre, BranchGrows, StoreIs DEF Types
<1>1. \A t \in Ids : store'.status[t] = "absent" => store'.base[t] = None
    <2>1. ASSUME NEW t \in Ids, store'.status[t] = "absent"
          PROVE  store.status[t] = "absent" /\ store'.base[t] \in {store.base[t], None}
        <3>1. CASE Unchanging \/ Reopened \/ Added
            BY <2>1, <3>1 DEF Unchanging, Reopened, Added, Leaves
        <3>2. CASE \E c \in Ids : Begun(c)
            BY <2>1, <3>2 DEF Begun, OnlyOf, Leaves
        <3>3. CASE Adopted
            <4>1. store.status[cur] = "in_progress"
                BY <3>3 DEF Adopted, AdoptCommits, Working, Busy
            <4> QED BY <2>1, <3>3, <4>1 DEF Adopted, OnlyOf, Leaves
        <3>4. CASE Finished
            BY <2>1, <3>4 DEF Finished, OnlyOf, Leaves
        <3>5. CASE Blocked(cur) \/ \E u \in Ids : Blocked(u)
            BY <2>1, <3>5 DEF Blocked, OnlyOf, Leaves
        <3> QED BY <3>1, <3>2, <3>3, <3>4, <3>5, Effects
    <2> QED BY <2>1 DEF Stored
<1>2. \A t \in Ids : store'.full[t] # None => suite' # None /\ store'.full[t] <= suite'
    <2>1. CASE SameFull
        <3>1. suite' \in {suite, Here}
            BY Control
        <3> QED BY <1>0, <2>1, <3>1 DEF SameFull, Stored
    <2>2. CASE Finished
        BY <1>0, <2>2 DEF Finished, Stored
    <2> QED BY <2>1, <2>2, Effects DEF Unchanging, Reopened, Added, Begun, Adopted, Blocked
<1> QED BY <1>1, <1>2 DEF Stored

\* The loop comes to choose a ticket from the gates alone.
LEMMA ChooseFrom ==
    ASSUME Working, [Next]_vars, pc' = "choose"
    PROVE  (RunGates /\ PassGates(FALSE)) \/ UNCHANGED vars
<1>1. CASE Quiet
    BY <1>1 DEF Quiet, PlanExhausted, Settle, RefuseTicket, EditFiles, CommitTicket, Settled, FinishRun, Approve,
       RefuseApproval, RunSuite, Recheck, RefuseRecheck, RefusePrePr, Push, OpenPullRequest, StartRun, Die, UserWorks,
       End, Goto
<1>2. CASE Reopens \/ Works
    BY <1>2 DEF Reopens, Stop, Resume, Works, BeginTicket, FinishTicket, AdoptCommits, BlockTicket, BudgetExhausted,
       End, Goto
<1>3. CASE PlanTickets \/ (\E t \in Ids : BlockUnsatisfiable(t)) \/ PrePrChecks \/ RecordPullRequest
    BY <1>3 DEF PlanTickets, BlockUnsatisfiable, PrePrChecks, RecordPullRequest, End, Goto
<1>4. CASE RunGates \/ RunFinalGates
    BY <1>4 DEF RunGates, RunFinalGates, PassGates, FailGate, Goto
<1> QED BY <1>1, <1>2, <1>3, <1>4, Kinds

\* No due gate is left out when a ticket is chosen.
LEMMA ScheduledStep ==
    ASSUME IInv, [Next]_vars
    PROVE  Scheduled'
<1> USE DEF IInv
<1>1. SUFFICES ASSUME pc' = "choose" PROVE \A g \in DueGates(FALSE)' : store'.gates[g] = "skipped"
    BY DEF Scheduled
<1>2. CASE PassGates(FALSE)
    <2>1. store' = [store EXCEPT !.gates =
               [g \in 1..Final |-> IF g \in DueGates(FALSE) THEN IF commands THEN "pass" ELSE "skipped" ELSE @[g]]]
          /\ plan' = plan
        BY <1>2 DEF PassGates
    <2>2. store'.status = store.status
        BY <2>1 DEF Types, Store
    <2>3. Tickets' = Tickets /\ Done' = Done
        BY <2>2 DEF Tickets, Done
    <2>4. \A g \in 1..Final : store'.gates[g] =
              IF g \in DueGates(FALSE) THEN IF commands THEN "pass" ELSE "skipped" ELSE store.gates[g]
        BY <2>1 DEF Types, Store
    <2>5. ASSUME NEW g \in DueGates(FALSE)' PROVE store'.gates[g] = "skipped"
        <3>1. g \in plan.gates /\ store'.gates[g] # "pass"
            BY <2>1, <2>5 DEF DueGates
        <3>2. g \in 1..Final
            BY <3>1, SchedulerAssumption DEF Types
        <3>3. store.gates[g] # "pass"
            BY <2>4, <3>1, <3>2 DEF DueGates
        <3>4. g \in DueGates(FALSE)
            BY <2>1, <2>3, <2>5, <3>1, <3>3 DEF DueGates
        <3> QED BY <2>4, <3>1, <3>2, <3>4
    <2> QED BY <2>5
<1>3. CASE UNCHANGED vars
    BY <1>1, <1>3 DEF vars, Scheduled, DueGates, Tickets, Done
<1> QED BY <1>1, <1>2, <1>3, ChooseFrom

\* How a publication goes on.
LEMMA PublishFrom ==
    ASSUME Working, [Next]_vars, pc' \in Publishing
    PROVE  \/ Approve /\ pc' \in {"suite", "checked"}
           \/ RunSuite /\ pc' = "checked"
           \/ Recheck /\ pc' = "prepr"
           \/ PrePrChecks /\ pc' = "gates"
           \/ RunFinalGates /\ PassGates(TRUE) /\ pc' = "push"
           \/ Push /\ pc' = "open"
           \/ OpenPullRequest /\ pc' = "record"
           \/ UNCHANGED vars
<1> USE DEF Publishing
<1>1. CASE Quiet
    <2>1. CASE PlanExhausted \/ RefuseTicket \/ FinishRun \/ RefuseApproval \/ RefuseRecheck \/ RefusePrePr \/ Die
        BY <2>1 DEF PlanExhausted, RefuseTicket, FinishRun, RefuseApproval, RefuseRecheck, RefusePrePr, Die, End
    <2>2. CASE Settle \/ EditFiles \/ CommitTicket \/ Settled \/ StartRun \/ UserWorks
        BY <2>2 DEF Settle, EditFiles, CommitTicket, Settled, StartRun, UserWorks, Goto
    <2>3. CASE Approve
        BY <2>3 DEF Approve
    <2>4. CASE RunSuite \/ Recheck \/ Push \/ OpenPullRequest
        BY <2>4 DEF RunSuite, Recheck, Push, OpenPullRequest, Goto
    <2> QED BY <1>1, <2>1, <2>2, <2>3, <2>4 DEF Quiet
<1>2. CASE Reopens \/ Works
    BY <1>2 DEF Reopens, Stop, Resume, Works, BeginTicket, FinishTicket, AdoptCommits, BlockTicket, BudgetExhausted,
       End, Goto
<1>3. CASE PlanTickets \/ (\E t \in Ids : BlockUnsatisfiable(t)) \/ PrePrChecks \/ RecordPullRequest
    BY <1>3 DEF PlanTickets, BlockUnsatisfiable, PrePrChecks, RecordPullRequest, End, Goto
<1>4. CASE RunGates \/ RunFinalGates
    BY <1>4 DEF RunGates, RunFinalGates, PassGates, FailGate, Goto
<1> QED BY <1>1, <1>2, <1>3, <1>4, Kinds

\* What is published stays what was accepted and tested.
LEMMA PublishedStep ==
    ASSUME IInv, [Next]_vars
    PROVE  Published'
<1> USE DEF IInv
<1>0. /\ None \notin Nat /\ Here \in Nat /\ suite \in 0..Here \cup {None}
      /\ (\A t \in Ids : store.full[t] \in Nat \cup {None})
    BY IdsAre, BranchGrows, StoreIs DEF Types
<1>1. CASE Approve /\ pc' \in {"suite", "checked"}
    <2>1. /\ store' = store /\ UNCHANGED <<head, edits, suite>> /\ ~ Dirty /\ Here = store.last /\ approved' = Here
          /\ Done # {} /\ Done = Tickets /\ pc' = IF store.full[Max(Done)] = Here THEN "checked" ELSE "suite"
        BY <1>1 DEF Approve, Complete, world
    <2>2. Max(Done) \in Ids
        <3>1. Done \in SUBSET Ids
            BY DEF Done
        <3> QED BY <2>1, <3>1, MaxIs
    <2>3. store.full[Max(Done)] = Here => suite = Here
        BY <1>0, <2>2 DEF Stored
    <2>4. Done' = Done /\ Tickets' = Tickets /\ Here' = Here
        BY <2>1 DEF Done, Tickets, Here
    <2> QED BY <2>1, <2>3, <2>4 DEF Published, Publishing
<1>2. CASE RunSuite /\ pc' = "checked"
    <2>1. store' = store /\ suite' = Here /\ pc = "suite" /\ approved' = approved
        BY <1>2 DEF RunSuite, Goto
    <2>2. Done' = Done /\ Tickets' = Tickets
        BY <2>1 DEF Done, Tickets
    <2> QED BY <1>2, <2>1, <2>2 DEF Published, Publishing
<1>3. CASE (Recheck /\ pc' = "prepr") \/ (Push /\ pc' = "open") \/ (OpenPullRequest /\ pc' = "record")
    <2>1. store' = store /\ UNCHANGED <<head, edits, suite, approved>>
        BY <1>3 DEF Recheck, Push, OpenPullRequest, Goto, world
    <2>2. Done' = Done /\ Tickets' = Tickets /\ Here' = Here /\ Dirty' = Dirty
        BY <2>1 DEF Done, Tickets, Here, Dirty
    <2>3. pc \in Publishing /\ Here = approved /\ suite = approved /\ ~ Dirty
        BY <1>3 DEF Recheck, Push, OpenPullRequest, Published, Publishing
    <2> QED BY <1>3, <2>1, <2>2, <2>3 DEF Published
<1>4. CASE PrePrChecks /\ pc' = "gates"
    <2>1. pc = "prepr" /\ UNCHANGED <<head, edits, suite, approved>>
        BY <1>4 DEF PrePrChecks, Goto, world
    <2>2. store'.status = store.status /\ store'.last = store.last
        <3>1. CASE UNCHANGED store
            BY <3>1
        <3>2. CASE ~ UNCHANGED store
            <4>1. PICK findings \in 0..Fixes :
                    LET new == IF store.rounds < MaxPrePrRounds THEN Max(Tickets) + 1..Max(Tickets) + findings ELSE {}
                    IN  /\ store' = [store EXCEPT !.rounds = Min({@ + 1, MaxPrePrRounds}),
                                                  !.status = [t \in Ids |-> IF t \in new THEN "pending" ELSE @[t]]]
                        /\ Goto(IF new = {} THEN "gates" ELSE "schedule")
                BY <1>4, <3>2 DEF PrePrChecks
            <4> DEFINE new == IF store.rounds < MaxPrePrRounds THEN Max(Tickets) + 1..Max(Tickets) + findings ELSE {}
            <4>2. /\ store' = [store EXCEPT !.rounds = Min({@ + 1, MaxPrePrRounds}),
                                            !.status = [t \in Ids |-> IF t \in new THEN "pending" ELSE @[t]]]
                  /\ pc' = IF new = {} THEN "gates" ELSE "schedule"
                BY <4>1 DEF Goto
            <4> HIDE DEF new
            <4>3. new = {}
                BY <1>4, <4>2
            <4>4. store' = [store EXCEPT !.rounds = Min({@ + 1, MaxPrePrRounds}), !.status = [t \in Ids |-> @[t]]]
                BY <4>2, <4>3
            <4> QED BY <4>4 DEF Types, Store
        <3> QED BY <3>1, <3>2
    <2>3. Done' = Done /\ Tickets' = Tickets /\ Here' = Here /\ Dirty' = Dirty
        BY <2>1, <2>2 DEF Done, Tickets, Here, Dirty
    <2> QED BY <1>4, <2>1, <2>2, <2>3 DEF Published, Publishing
<1>5. CASE RunFinalGates /\ PassGates(TRUE) /\ pc' = "push"
    <2>1. /\ store' = [store EXCEPT !.gates =
               [g \in 1..Final |-> IF g \in DueGates(TRUE) THEN IF commands THEN "pass" ELSE "skipped" ELSE @[g]]]
          /\ plan' = plan /\ pc = "gates" /\ UNCHANGED <<head, edits, suite, approved>>
        BY <1>5 DEF PassGates, RunFinalGates, Goto, world
    <2>2. store'.status = store.status /\ store'.last = store.last
        BY <2>1 DEF Types, Store
    <2>3. Tickets' = Tickets /\ Done' = Done /\ Here' = Here /\ Dirty' = Dirty
        BY <2>1, <2>2 DEF Tickets, Done, Here, Dirty
    <2>4. \A g \in 1..Final : store'.gates[g] =
              IF g \in DueGates(TRUE) THEN IF commands THEN "pass" ELSE "skipped" ELSE store.gates[g]
        BY <2>1 DEF Types, Store
    <2>5. ASSUME NEW g \in plan.gates PROVE store'.gates[g] \in {"pass", "skipped"}
        <3>1. g \in 1..Final
            BY SchedulerAssumption DEF Types
        <3>2. Done = Tickets
            BY <2>1 DEF Published, Publishing
        <3>3. g \in DueGates(TRUE) \/ store.gates[g] = "pass"
            BY <3>2 DEF DueGates
        <3> QED BY <2>4, <3>1, <3>3
    <2> QED BY <1>5, <2>1, <2>2, <2>3, <2>5 DEF Published, Publishing
<1>6. CASE UNCHANGED vars
    <2>1. UNCHANGED <<store, head, edits, pc, suite, approved, plan>>
        BY <1>6 DEF vars, world
    <2>2. Done' = Done /\ Tickets' = Tickets /\ Here' = Here /\ Dirty' = Dirty
        BY <2>1 DEF Done, Tickets, Here, Dirty
    <2> QED BY <2>1, <2>2 DEF Published
<1>7. CASE pc' \notin Publishing
    BY <1>7 DEF Published, Publishing
<1> QED BY <1>1, <1>2, <1>3, <1>4, <1>5, <1>6, <1>7, PublishFrom

\* A ticket starts on what it builds on.
LEMMA BuiltStep ==
    ASSUME IInv, [Next]_vars, NEW t \in Ids,
           store.status[t] # "in_progress", store'.status[t] = "in_progress"
    PROVE  /\ plan.deps[t] \subseteq Done
           /\ \A u \in Tickets : plan.phase[u] \in 1..plan.phase[t] - 1 => u \in Done
           /\ \A g \in plan.gates \cap 1..plan.phase[t] - 1 : store.gates[g] \in {"pass", "skipped"}
<1> USE DEF IInv
<1>1. BeginTicket /\ t \in CurrentPhase
    BY Effects DEF Unchanging, Reopened, Added, Begun, Adopted, Finished, Blocked, OnlyOf, Leaves
<1>2. plan.phase[t] \in 0..Final /\ plan.gates \subseteq 1..Final /\ Final \in Nat /\ (\A u \in Ids : plan.phase[u] \in 0..Final)
    BY SchedulerAssumption DEF Types
<1>3. plan.deps[t] \subseteq Done
    BY <1>1 DEF CurrentPhase, Ready
<1>4. \A u \in Tickets : plan.phase[u] \in 1..plan.phase[t] - 1 => u \in Done
    <2>1. ASSUME NEW u \in Tickets, plan.phase[u] \in 1..plan.phase[t] - 1, u \notin Done PROVE FALSE
        <3>1. plan.phase[t] # 0 /\ plan.phase[u] # 0 /\ ~ (plan.phase[t] <= plan.phase[u])
            BY <1>2, <2>1
        <3> QED BY <1>1, <2>1, <3>1 DEF CurrentPhase
    <2> QED BY <2>1
<1>5. ASSUME NEW g \in plan.gates, g \in 1..plan.phase[t] - 1
      PROVE  store.gates[g] \in {"pass", "skipped"}
    <2>1. g # Final
        BY <1>2, <1>5
    <2>2. ASSUME NEW u \in Tickets, plan.phase[u] \in 1..g PROVE u \in Done
        <3>1. plan.phase[u] \in 1..plan.phase[t] - 1
            BY <1>2, <1>5, <2>2
        <3> QED BY <1>4, <3>1
    <2>3. store.gates[g] # "pass" => g \in DueGates(FALSE)
        BY <2>1, <2>2 DEF DueGates
    <2>4. pc = "choose"
        BY <1>1 DEF BeginTicket
    <2> QED BY <2>3, <2>4 DEF Scheduled
<1> QED BY <1>3, <1>4, <1>5

\* What goes out is what was accepted.
LEMMA PushedStep ==
    ASSUME IInv, [Next]_vars, pushed' # pushed
    PROVE  /\ pushed' = suite /\ pushed' = store.last /\ ~ Dirty
           /\ Done = Tickets
           /\ \A g \in plan.gates : store.gates[g] \in {"pass", "skipped"}
<1>1. Push
    <2>1. CASE Quiet
        BY <2>1 DEF Quiet, PlanExhausted, Settle, RefuseTicket, EditFiles, CommitTicket, Settled, FinishRun, Approve,
           RefuseApproval, RunSuite, Recheck, RefuseRecheck, RefusePrePr, OpenPullRequest, StartRun, Die, UserWorks,
           remote, vars
    <2>2. CASE Reopens \/ Works \/ PlanTickets \/ (\E t \in Ids : BlockUnsatisfiable(t)) \/ PrePrChecks \/ RecordPullRequest
        BY <2>2 DEF Reopens, Stop, Resume, Works, BeginTicket, FinishTicket, AdoptCommits, BlockTicket, BudgetExhausted,
           PlanTickets, BlockUnsatisfiable, PrePrChecks, RecordPullRequest, remote
    <2>3. CASE RunGates \/ RunFinalGates
        BY <2>3 DEF RunGates, RunFinalGates, PassGates, FailGate, remote
    <2> QED BY <2>1, <2>2, <2>3, Kinds
<1>2. pc = "push" /\ pushed' = Here
    BY <1>1 DEF Push
<1> QED BY <1>2 DEF IInv, Published, Publishing

-----------------------------------------------------------------------------
(* Nothing is forgotten.                                                   *)

\* A run stops building only when nothing can be built now, credits are used up
\* or a gate failed; what can never be built is blocked before it reports.
Exhaustive ==
    /\ pc # "idle" => outcome = "none"
    /\ pc \in {"settle", "publish"} => Waiting \/ exhausted \/ gateFailed
    /\ pc = "publish" => Ready # {} \/ Pending = {} \/ exhausted \/ gateFailed

\* How the loop comes to its end, and the run to its publication.
LEMMA SettleFrom ==
    ASSUME Working, [Next]_vars, pc' \in {"settle", "publish"}
    PROVE  \/ Settle /\ pc' = "settle"
           \/ (\E t \in Ids : BlockUnsatisfiable(t)) /\ pc' = "settle"
           \/ Settled /\ pc' = "publish"
           \/ exhausted' \/ gateFailed'
           \/ UNCHANGED vars
<1>1. CASE Quiet
    BY <1>1 DEF Quiet, PlanExhausted, Settle, RefuseTicket, EditFiles, CommitTicket, Settled, FinishRun, Approve,
       RefuseApproval, RunSuite, Recheck, RefuseRecheck, RefusePrePr, Push, OpenPullRequest, StartRun, Die, UserWorks,
       End, Goto
<1>2. CASE Reopens \/ Works
    BY <1>2 DEF Reopens, Stop, Resume, Works, BeginTicket, FinishTicket, AdoptCommits, BlockTicket, BudgetExhausted,
       End, Goto
<1>3. CASE PlanTickets \/ (\E t \in Ids : BlockUnsatisfiable(t)) \/ PrePrChecks \/ RecordPullRequest
    BY <1>3 DEF PlanTickets, BlockUnsatisfiable, PrePrChecks, RecordPullRequest, End, Goto
<1>4. CASE RunGates \/ RunFinalGates
    BY <1>4 DEF RunGates, RunFinalGates, PassGates, FailGate, Goto
<1> QED BY <1>1, <1>2, <1>3, <1>4, Kinds

\* How a process starts and ends.
LEMMA EndFrom ==
    ASSUME [Next]_vars
    PROVE  \/ pc' = "idle" /\ (outcome' # "finished" \/ PlanExhausted \/ FinishRun \/ RecordPullRequest \/ pc = "idle")
           \/ pc' # "idle" /\ (outcome' = "none" \/ (pc # "idle" /\ outcome' = outcome))
           \/ UNCHANGED <<pc, outcome>>
<1>1. CASE Quiet
    <2>1. CASE PlanExhausted \/ RefuseTicket \/ FinishRun \/ RefuseApproval \/ RefuseRecheck \/ RefusePrePr \/ Die
        BY <2>1 DEF RefuseTicket, RefuseApproval, RefuseRecheck, RefusePrePr, Die, End, PlanExhausted, FinishRun
    <2>2. CASE Settle \/ EditFiles \/ CommitTicket \/ Settled
        BY <2>2 DEF Settle, EditFiles, CommitTicket, Settled, Goto
    <2>3. CASE Approve \/ RunSuite \/ Recheck \/ Push \/ OpenPullRequest
        BY <2>3 DEF Approve, RunSuite, Recheck, Push, OpenPullRequest, Goto
    <2>4. CASE StartRun
        BY <2>4 DEF StartRun
    <2>5. CASE UserWorks \/ UNCHANGED vars
        BY <2>5 DEF UserWorks, vars
    <2> QED BY <1>1, <2>1, <2>2, <2>3, <2>4, <2>5 DEF Quiet
<1>2. CASE Reopens \/ Works
    BY <1>2 DEF Reopens, Stop, Resume, Works, BeginTicket, FinishTicket, AdoptCommits, BlockTicket, BudgetExhausted,
       End, Goto
<1>3. CASE PlanTickets \/ (\E t \in Ids : BlockUnsatisfiable(t)) \/ PrePrChecks \/ RecordPullRequest
    BY <1>3 DEF PlanTickets, BlockUnsatisfiable, PrePrChecks, RecordPullRequest, End, Goto
<1>4. CASE RunGates \/ RunFinalGates
    BY <1>4 DEF RunGates, RunFinalGates, PassGates, FailGate, Goto
<1> QED BY <1>1, <1>2, <1>3, <1>4, Kinds

\* Blocking a ticket makes no other one ready.
LEMMA NoneBecomesReady ==
    ASSUME IInv, [Next]_vars, NEW t \in Ids, BlockUnsatisfiable(t)
    PROVE  CurrentPhase' = {}
<1>1. /\ store' = [store EXCEPT !.status[t] = "blocked", !.base[t] = IF Dirty THEN @ ELSE None]
      /\ Ready = {} /\ plan' = plan /\ store.status[t] \in {"pending", "in_progress"}
    BY DEF BlockUnsatisfiable, Pending
<1>2. \A u \in Ids : store'.status[u] = IF u = t THEN "blocked" ELSE store.status[u]
    BY <1>1 DEF IInv, Types, Store
<1>3. Done' = Done /\ Pending' \subseteq Pending
    BY <1>1, <1>2 DEF Done, Pending
<1>4. Ready' = {}
    BY <1>1, <1>3 DEF Ready
<1> QED BY <1>4 DEF CurrentPhase

\* Every step keeps it.
LEMMA ExhaustiveStep ==
    ASSUME IInv, Exhaustive, [Next]_vars
    PROVE  Exhaustive'
<1> USE DEF Exhaustive
<1>1. pc' # "idle" => outcome' = "none"
    BY EndFrom
<1>2. ASSUME pc' \in {"settle", "publish"}
      PROVE  /\ Waiting' \/ exhausted' \/ gateFailed'
             /\ pc' = "publish" => Ready' # {} \/ Pending' = {} \/ exhausted' \/ gateFailed'
    <2>1. CASE Settle /\ pc' = "settle"
        <3>1. Waiting /\ UNCHANGED <<plan, store, edits>>
            BY <2>1 DEF Settle, Waiting, world
        <3> QED BY <2>1, <3>1 DEF Waiting, CurrentPhase, Ready, Pending, Tickets, Done, Owners, Active, Dirty
    <2>2. CASE (\E t \in Ids : BlockUnsatisfiable(t)) /\ pc' = "settle"
        BY <2>2, NoneBecomesReady DEF Waiting
    <2>3. CASE Settled /\ pc' = "publish"
        <3>1. /\ pc = "settle" /\ UNCHANGED <<plan, store, edits, exhausted, gateFailed>>
              /\ exhausted \/ Ready # {} \/ Pending = {}
            BY <2>3 DEF Settled, Goto, report, world
        <3>2. Waiting' = Waiting /\ Ready' = Ready /\ Pending' = Pending
            BY <3>1 DEF Waiting, CurrentPhase, Ready, Pending, Tickets, Done, Owners, Active, Dirty
        <3> QED BY <3>1, <3>2
    <2>4. CASE UNCHANGED vars
        <3>1. UNCHANGED <<plan, store, edits, pc, exhausted, gateFailed>>
            BY <2>4 DEF vars, report, world
        <3>2. Waiting' = Waiting /\ Ready' = Ready /\ Pending' = Pending
            BY <3>1 DEF Waiting, CurrentPhase, Ready, Pending, Tickets, Done, Owners, Active, Dirty
        <3> QED BY <1>2, <3>1, <3>2
    <2>5. CASE exhausted' \/ gateFailed'
        BY <2>5
    <2> QED BY <1>2, <2>1, <2>2, <2>3, <2>4, <2>5, SettleFrom DEF IInv
<1> QED BY <1>1, <1>2

\* What a run in order leaves waiting has a reason to.
LEMMA ForgottenStep ==
    ASSUME IInv, Exhaustive, [Next]_vars, pc # "idle", outcome' = "finished", ~ exhausted, ~ gateFailed, NEW t \in Pending
    PROVE  \/ Dirty /\ \E u \in Owners : store.status[u] = "blocked"
           \/ \E u \in Tickets \ Done : plan.phase[u] \in 1..plan.phase[t] - 1
<1>0. t \in Ids /\ t \in Tickets /\ t \notin Done
    BY DEF Pending, Tickets, Done
<1>1. PlanExhausted \/ FinishRun \/ RecordPullRequest
    BY EndFrom DEF Exhaustive
<1>2. pc = "publish"
    <2>1. Tickets # {} /\ Done # Tickets
        BY <1>0
    <2>2. pc \notin {"push", "open", "record"}
        BY <2>1 DEF IInv, Published, Publishing
    <2> QED BY <1>1, <2>1, <2>2 DEF PlanExhausted, FinishRun, RecordPullRequest
<1>3. Waiting /\ Ready # {}
    BY <1>2 DEF Exhaustive
<1>4. CASE Owners # {} /\ Active = {} /\ Dirty
    BY <1>4 DEF Active
<1>5. CASE CurrentPhase = {}
    <2>1. /\ plan.phase \in [Ids -> 0..Final] /\ Final \in Nat /\ Planned \in Nat
          /\ \A x \in Ids : plan.phase[x] # 0 => x <= Planned /\ plan.deps[x] = {}
          /\ \A x \in Ids : x > Planned => plan.deps[x] = {}
          /\ \A x, y \in 1..Planned : plan.phase[x] # 0 => plan.phase[y] # 0
        BY SchedulerAssumption DEF IInv, Types
    <2>2. PICK r \in Ready : TRUE
        BY <1>3
    <2>3. \A x \in Ready : plan.phase[x] # 0 /\ \E u \in Tickets \ Done : plan.phase[u] # 0 /\ ~ plan.phase[x] <= plan.phase[u]
        BY <1>5 DEF CurrentPhase
    <2>4. t \in Ready
        <3>1. r \in Ids /\ plan.phase[r] # 0 /\ r \in 1..Planned
            BY <2>1, <2>2, <2>3 DEF Ready, Pending, Ids
        <3>2. plan.deps[t] = {}
            <4>1. CASE t \in 1..Planned
                BY <1>0, <2>1, <3>1, <4>1
            <4>2. CASE t > Planned
                BY <1>0, <2>1, <4>2
            <4> QED BY <1>0, <2>1, <4>1, <4>2 DEF Ids
        <3> QED BY <3>2 DEF Ready
    <2>5. PICK u \in Tickets \ Done : plan.phase[u] # 0 /\ ~ plan.phase[t] <= plan.phase[u]
        BY <2>3, <2>4
    <2>6. plan.phase[u] \in 1..plan.phase[t] - 1
        <3>1. u \in Ids
            BY DEF Tickets
        <3> QED BY <1>0, <2>1, <2>5, <3>1
    <2> QED BY <2>5, <2>6
<1> QED BY <1>3, <1>4, <1>5 DEF Waiting

-----------------------------------------------------------------------------
(* Unfinished work has one owner, and a commit one ticket.  For this the   *)
(* user may edit and commit, but not undo a ticket's edits.                *)

\* One ticket at most owns unfinished changes.  If it is blocked, its edits are
\* there or the user has committed them, so that no other ticket begins.
Ownership ==
    /\ \A t, u \in Owners : t = u
    /\ edits \in Ids => edits \in Owners
    /\ \A t \in Owners : store.status[t] = "blocked" => Dirty \/ store.last < Here
    /\ \A t \in Owners : store.last <= store.base[t]

\* A commit by a ticket that is not done came after all the state file has
\* accepted; if a ticket owns unfinished changes, nobody else's is unrecorded.
Authors ==
    /\ \A i \in DOMAIN head : head[i] \in Ids \ Done =>
           IF store.base[head[i]] = None THEN store.last < i ELSE store.base[head[i]] < i
    /\ \A o \in Owners, i \in DOMAIN head : head[i] \in Ids \ {o} => head[i] \in Done
    /\ OneCommitEach

\* The ticket being worked on is the owner.
LEMMA Sole ==
    ASSUME IInv, Ownership, cur # None
    PROVE  cur \in Ids /\ Owners = {cur} /\ store.status[cur] = "in_progress"
<1>1. cur \in Ids /\ store.status[cur] = "in_progress" /\ store.base[cur] # None
    BY DEF IInv, Types, Working
<1>2. cur \in Owners
    BY <1>1 DEF Owners
<1> QED BY <1>1, <1>2 DEF Ownership

\* These steps leave the branch and its edits alone.
LEMMA WorldOf ==
    ASSUME Reopens \/ Works \/ PlanTickets \/ (\E t \in Ids : BlockUnsatisfiable(t)) \/ PrePrChecks \/ RecordPullRequest
    PROVE  UNCHANGED <<head, edits>> /\ Here' = Here /\ Dirty' = Dirty
BY DEF Reopens, Stop, Resume, Works, BeginTicket, FinishTicket, AdoptCommits, BlockTicket, BudgetExhausted,
   PlanTickets, BlockUnsatisfiable, PrePrChecks, RecordPullRequest, world, Here, Dirty

\* A ticket begins when no other owns anything.
LEMMA BegunIs ==
    ASSUME IInv, Ownership, NEW c \in Ids, Begun(c)
    PROVE  /\ Owners \subseteq {c} /\ Owners' = {c}
           /\ store.status[c] \in {"pending", "in_progress"}
           /\ store.base[c] = None => Owners = {} /\ ~ Dirty /\ Here = store.last
<1> USE DEF IInv
<1>1. c \in Ids /\ store.status[c] \in {"pending", "in_progress"} /\ c = Choice /\ ~ Waiting
    BY DEF Begun, CurrentPhase, Ready, Pending, BeginTicket
<1>2. CASE store.base[c] # None
    <2>1. Owners = {c}
        BY <1>1, <1>2 DEF Ownership, Owners
    <2>2. c \in Owners' /\ \A t \in Ids \ {c} : t \in Owners' <=> t \in Owners
        BY <1>2 DEF Begun, OnlyOf, Leaves, Owners
    <2>3. Owners' \subseteq Ids
        BY DEF Owners
    <2> QED BY <1>1, <1>2, <2>1, <2>2, <2>3
<1>3. CASE store.base[c] = None
    <2>1. ~ Dirty /\ Here = store.last
        BY <1>1, <1>3 DEF Begun, BeginTicket
    <2>2. Active = {}
        <3>1. SUFFICES ASSUME NEW a \in Active PROVE FALSE
            OBVIOUS
        <3>2. a \in Owners /\ a \in Nat
            BY IdsAre DEF Active, Owners
        <3>3. Active = {a}
            BY <3>2 DEF Ownership, Active
        <3>4. Choice = a
            BY <3>2, <3>3, MinOne DEF Choice
        <3> QED BY <1>1, <1>3, <3>2, <3>4 DEF Owners
    <2>3. Owners = {}
        <3>1. SUFFICES ASSUME NEW o \in Owners PROVE FALSE
            OBVIOUS
        <3>2. store.status[o] = "blocked"
            BY <2>2 DEF Active
        <3>3. Here \in Nat
            BY DEF Types, Here
        <3> QED BY <2>1, <3>2, <3>3 DEF Ownership
    <2>4. Here # None
        BY IdsAre DEF Types, Here
    <2>5. store'.base[c] = Here /\ store'.status[c] = "in_progress" /\ \A t \in Ids \ {c} : Leaves(t)
        BY <1>3 DEF Begun, OnlyOf
    <2>6. Owners' = {c}
        <3>1. c \in Owners'
            BY <2>4, <2>5 DEF Owners
        <3>2. ASSUME NEW t \in Ids \ {c} PROVE t \notin Owners'
            <4>1. t \notin Owners
                BY <2>3
            <4> QED BY <2>5, <4>1 DEF Owners, Leaves
        <3>3. Owners' \subseteq Ids
            BY DEF Owners
        <3> QED BY <3>1, <3>2, <3>3
    <2> QED BY <1>1, <2>1, <2>3, <2>6
<1> QED BY <1>2, <1>3

\* What becomes of the owners.
LEMMA OwnersAre ==
    ASSUME IInv, Ownership, [Next]_vars
    PROVE  /\ Unchanging \/ Reopened \/ Added => Owners' = Owners
           /\ Adopted => Owners' = {cur} /\ Owners = {cur}
           /\ Finished => Owners' = {} /\ Owners = {cur}
           /\ \A t \in Ids : Blocked(t) => Owners' = IF Dirty THEN Owners ELSE Owners \ {t}
<1> USE DEF IInv
<1>0. /\ Owners' = {t \in Ids : store'.base[t] # None /\ store'.status[t] # "done"}
      /\ Owners = {t \in Ids : store.base[t] # None /\ store.status[t] # "done"}
    BY DEF Owners
<1>1. ASSUME Unchanging \/ Reopened PROVE Owners' = Owners
    BY <1>0, <1>1 DEF Unchanging, Reopened, Leaves
<1>2. ASSUME Added PROVE Owners' = Owners
    <2>1. ASSUME NEW t \in Ids PROVE t \in Owners' <=> t \in Owners
        BY <1>0, <1>2 DEF Added, Leaves, Stored
    <2> QED BY <1>0, <2>1
<1>3. ASSUME Adopted PROVE Owners' = {cur} /\ Owners = {cur}
    <2>1. Owners = {cur} /\ cur \in Ids /\ store.status[cur] = "in_progress"
        BY <1>3, Sole DEF Adopted, AdoptCommits, Working, Busy
    <2>2. Here # None
        BY IdsAre DEF Types, Here
    <2>3. ASSUME NEW t \in Ids PROVE t \in Owners' <=> t \in Owners
        BY <1>0, <1>3, <2>1, <2>2 DEF Adopted, OnlyOf, Leaves
    <2> QED BY <1>0, <2>1, <2>3
<1>4. ASSUME Finished PROVE Owners' = {} /\ Owners = {cur}
    <2>1. Owners = {cur} /\ cur \in Ids
        BY <1>4, Sole DEF Finished, FinishTicket, Working, Busy
    <2>2. ASSUME NEW t \in Ids PROVE t \notin Owners'
        BY <1>0, <1>4, <2>1 DEF Finished, OnlyOf, Leaves
    <2> QED BY <1>0, <2>1, <2>2
<1>5. ASSUME NEW t \in Ids, Blocked(t) PROVE Owners' = IF Dirty THEN Owners ELSE Owners \ {t}
    <2>1. ASSUME NEW u \in Ids PROVE u \in Owners' <=> u \in Owners /\ (Dirty \/ u # t)
        BY <1>0, <1>5, <2>1 DEF Blocked, OnlyOf, Leaves
    <2> QED BY <1>0, <2>1
<1> QED BY <1>1, <1>2, <1>3, <1>4, <1>5

\* Ownership is kept.
LEMMA OwnershipStep ==
    ASSUME IInv, Ownership, [Next]_vars, "tidy" \notin UserActs
    PROVE  Ownership'
<1> USE DEF IInv
<1>0. /\ Here \in Nat /\ Here' \in Nat /\ Here <= Here' /\ store.last \in Nat /\ store.last <= Here
      /\ (\A t \in Ids : store.base[t] \in Nat \cup {None}) /\ Owners \subseteq Ids /\ Owners' \subseteq Ids
      /\ None \notin Nat /\ None \notin Ids /\ Foreign \notin Ids
    BY BranchGrows, StoreIs, IdsAre DEF Types, Owners
<1>1. CASE Unchanging
    <2>1. Owners' = Owners /\ SameLast /\ \A t \in Ids : Leaves(t)
        BY <1>1, OwnersAre DEF Unchanging
    <2>2. edits' \in Ids => edits' \in Owners
        <3>1. CASE edits' = edits \/ edits' = Foreign \/ edits' = None
            BY <1>0, <3>1 DEF Ownership
        <3>2. CASE edits' = cur /\ pc = "work"
            BY <3>2, Sole DEF Working, Busy
        <3>3. CommitTicket => edits' = None
            BY DEF CommitTicket
        <3> QED BY <3>1, <3>2, <3>3, WorldIs
    <2>3. ASSUME NEW t \in Owners, store.status[t] = "blocked" PROVE Dirty' \/ store.last < Here'
        <3>1. Dirty \/ store.last < Here
            BY <2>3 DEF Ownership
        <3>2. CASE cur # None
            BY <2>3, <3>2, Sole
        <3>3. CASE cur = None
            <4>1. pc \notin {"work", "committed"} /\ ~ CommitTicket
                BY <3>3 DEF Working, Busy, CommitTicket
            <4>2. \/ UNCHANGED head /\ edits' = edits
                  \/ UNCHANGED head /\ edits = None /\ edits' = Foreign
                  \/ Commits(Foreign)
                BY <4>1, WorldIs
            <4>3. Commits(Foreign) => Here' = Here + 1
                BY DEF Commits, Here, Types
            <4>4. UNCHANGED head => Here' = Here
                BY DEF Here
            <4>5. Foreign # None
                BY IdsAre
            <4> QED BY <1>0, <3>1, <4>2, <4>3, <4>4, <4>5 DEF Dirty
        <3> QED BY <3>2, <3>3
    <2> QED BY <1>0, <2>1, <2>2, <2>3 DEF Ownership, SameLast, Leaves
<1>2. CASE (Reopened /\ (Reopens \/ BudgetExhausted)) \/ (Added /\ (PlanTickets \/ PrePrChecks))
    <2>1. Owners' = Owners /\ SameLast
        BY <1>2, OwnersAre DEF Reopened, Added
    <2>2. UNCHANGED <<head, edits>> /\ Here' = Here /\ Dirty' = Dirty
        BY <1>2, WorldOf DEF Works
    <2>3. ASSUME NEW t \in Owners
          PROVE  store'.base[t] = store.base[t] /\ (store'.status[t] = "blocked" => store.status[t] = "blocked")
        BY <1>0, <1>2, <2>3 DEF Reopened, Added, Leaves
    <2> QED BY <2>1, <2>2, <2>3 DEF Ownership, SameLast
<1>3. ASSUME NEW c \in Ids, Begun(c) PROVE Ownership'
    <2>1. UNCHANGED <<head, edits>> /\ Here' = Here /\ Dirty' = Dirty
        BY <1>3, WorldOf DEF Begun, Works
    <2>2. Owners' = {c} /\ Owners \subseteq {c} /\ (store.base[c] = None => Owners = {} /\ ~ Dirty /\ Here = store.last)
        BY <1>3, BegunIs
    <2>3. store'.status[c] = "in_progress" /\ SameLast /\ store'.base[c] = IF store.base[c] = None THEN Here ELSE store.base[c]
        BY <1>3 DEF Begun
    <2>4. edits' \in Ids => edits' \in Owners'
        <3>1. edits \in Ids => edits \in Owners
            BY DEF Ownership
        <3> QED BY <2>1, <2>2, <3>1
    <2>5. store'.last <= store'.base[c]
        <3>1. CASE store.base[c] = None
            BY <1>0, <2>2, <2>3, <3>1 DEF SameLast
        <3>2. CASE store.base[c] # None
            <4>1. c \in Owners
                <5>1. store.status[c] # "done"
                    BY <1>3, BegunIs
                <5> QED BY <3>2, <5>1 DEF Owners
            <4> QED BY <2>3, <3>2, <4>1 DEF SameLast, Ownership
        <3> QED BY <3>1, <3>2
    <2> QED BY <2>2, <2>3, <2>4, <2>5 DEF Ownership
<1>4. CASE Adopted
    <2>1. UNCHANGED <<head, edits>> /\ Here' = Here /\ Dirty' = Dirty /\ Owners' = {cur} /\ Owners = {cur}
        BY <1>4, WorldOf, OwnersAre DEF Adopted, Works
    <2>2. store'.base[cur] = Here /\ store'.last = Here /\ store'.status[cur] = "in_progress"
        BY <1>4 DEF Adopted, AdoptCommits, Working, Busy
    <2> QED BY <1>0, <2>1, <2>2 DEF Ownership
<1>5. CASE Finished
    <2>1. UNCHANGED <<head, edits>> /\ Owners' = {}
        BY <1>5, WorldOf, OwnersAre DEF Finished, Works
    <2>2. ~ Dirty
        BY <1>5 DEF Finished, FinishTicket, Working
    <2> QED BY <1>0, <2>1, <2>2 DEF Ownership, Dirty
<1>6. ASSUME NEW t \in Ids, Blocked(t), BlockTicket \/ BlockUnsatisfiable(t) PROVE Ownership'
    <2>1. UNCHANGED <<head, edits>> /\ Here' = Here /\ Dirty' = Dirty
        BY <1>6, WorldOf DEF Works
    <2>2. Owners' = (IF Dirty THEN Owners ELSE Owners \ {t}) /\ SameLast
        BY <1>6, OwnersAre DEF Blocked
    <2>3. edits \in Ids => Dirty
        BY <1>0 DEF Dirty
    <2>4. ASSUME NEW u \in Owners' PROVE /\ u \in Owners /\ store'.base[u] = store.base[u]
                                         /\ store'.status[u] = "blocked" => Dirty \/ store.status[u] = "blocked"
        BY <1>0, <1>6, <2>2, <2>4 DEF Blocked, OnlyOf, Leaves
    <2> QED BY <2>1, <2>2, <2>3, <2>4 DEF Ownership, SameLast
<1> QED BY <1>1, <1>2, <1>3, <1>4, <1>5, <1>6, Effects, Sole DEF Blocked, OnlyOf

\* The authors of the branch are kept apart.
LEMMA AuthorsStep ==
    ASSUME IInv, Ownership, Authors, [Next]_vars, "tidy" \notin UserActs
    PROVE  Authors'
<1> USE DEF IInv
<1>0. /\ Here \in Nat /\ store.last \in Nat /\ store.last <= Here /\ DOMAIN head = 1..Here
      /\ (\A t \in Ids : store.base[t] \in 0..Here \cup {None})
      /\ None \notin Nat /\ None \notin Ids /\ Foreign \notin Ids
    BY BranchGrows, StoreIs, IdsAre DEF Types
<1>1. CASE Unchanging
    <2>1. Owners' = Owners /\ Done' = Done /\ SameLast /\ \A t \in Ids : Leaves(t)
        BY <1>1, OwnersAre DEF Unchanging, Done, Leaves
    <2>2. CASE head' = head
        <3>1. OneCommitEach'
            BY <2>2 DEF Authors, OneCommitEach
        <3> QED BY <2>1, <2>2, <3>1 DEF Authors, SameLast, Leaves
    <2>3. CASE Commits(Foreign)
        <3>1. /\ \A i \in DOMAIN head : head'[i] = head[i]
              /\ \A i \in DOMAIN head' : i \in DOMAIN head \/ i = Here + 1
              /\ head'[Here + 1] = Foreign
            BY <1>0, <2>3, BranchGrows DEF Commits, Types, Here
        <3>2. \A i \in DOMAIN head' : head'[i] \in Ids => i \in DOMAIN head /\ head'[i] = head[i]
            BY <1>0, <3>1
        <3>3. OneCommitEach'
            BY <3>1, <3>2 DEF Authors, OneCommitEach
        <3>4. \A i \in DOMAIN head' : head'[i] \in Ids \ Done' =>
                  IF store'.base[head'[i]] = None THEN store'.last < i ELSE store'.base[head'[i]] < i
            BY <2>1, <3>2 DEF Authors, SameLast, Leaves
        <3>5. \A o \in Owners', i \in DOMAIN head' : head'[i] \in Ids \ {o} => head'[i] \in Done'
            BY <2>1, <3>2 DEF Authors
        <3> QED BY <3>3, <3>4, <3>5 DEF Authors
    <2>4. CASE Commits(cur) /\ CommitTicket
        <3>1. cur \in Ids /\ Owners = {cur} /\ store.status[cur] = "in_progress" /\ Here = store.base[cur]
            BY <2>4, Sole DEF CommitTicket, Working, Busy
        <3>2. /\ \A i \in DOMAIN head : head'[i] = head[i]
              /\ \A i \in DOMAIN head' : i \in DOMAIN head \/ i = Here + 1
              /\ head'[Here + 1] = cur
            BY <1>0, <2>4, BranchGrows DEF Commits, Types, Here
        <3>3. cur \notin Done /\ store.base[cur] # None
            BY <1>0, <3>1 DEF Done
        <3>4. ASSUME NEW i \in DOMAIN head PROVE head[i] # cur
            <4>1. ~ (store.base[cur] < i)
                BY <1>0, <3>1, <3>4
            <4> QED BY <3>1, <3>3, <4>1 DEF Authors
        <3>5. OneCommitEach'
            BY <3>2, <3>4 DEF Authors, OneCommitEach
        <3>6. ASSUME NEW i \in DOMAIN head', head'[i] \in Ids \ Done'
              PROVE  IF store'.base[head'[i]] = None THEN store'.last < i ELSE store'.base[head'[i]] < i
            <4>1. CASE i \in DOMAIN head
                BY <2>1, <3>2, <3>6, <4>1 DEF Authors, SameLast, Leaves
            <4>2. CASE i = Here + 1
                <5>1. store'.base[cur] = Here
                    BY <2>1, <3>1 DEF Leaves
                <5> QED BY <1>0, <3>2, <4>2, <5>1
            <4> QED BY <3>2, <4>1, <4>2
        <3>7. \A o \in Owners', i \in DOMAIN head' : head'[i] \in Ids \ {o} => head'[i] \in Done'
            BY <2>1, <3>1, <3>2 DEF Authors
        <3> QED BY <3>5, <3>6, <3>7 DEF Authors
    <2> QED BY <2>2, <2>3, <2>4, WorldIs
<1>2. ASSUME UNCHANGED head, Owners' \subseteq Owners, Done \subseteq Done', SameLast,
             \A t \in Ids : \/ store'.base[t] = store.base[t]
                            \/ t \in Owners /\ store'.base[t] = None
      PROVE  Authors'
    <2>1. OneCommitEach'
        BY <1>2 DEF Authors, OneCommitEach
    <2>2. ASSUME NEW i \in DOMAIN head', head'[i] \in Ids \ Done'
          PROVE  IF store'.base[head'[i]] = None THEN store'.last < i ELSE store'.base[head'[i]] < i
        <3>1. i \in DOMAIN head /\ head'[i] = head[i] /\ head[i] \in Ids \ Done
            BY <1>2, <2>2
        <3>2. CASE store'.base[head[i]] = store.base[head[i]]
            BY <1>2, <3>1, <3>2 DEF Authors, SameLast
        <3>3. CASE head[i] \in Owners /\ store'.base[head[i]] = None
            <4>1. store.base[head[i]] # None /\ store.base[head[i]] < i
                BY <3>1, <3>3 DEF Authors, Owners
            <4>2. store.last <= store.base[head[i]]
                BY <3>3 DEF Ownership
            <4>3. store.base[head[i]] \in Nat /\ i \in Nat
                BY <1>0, <3>1, <4>1
            <4> QED BY <1>0, <1>2, <3>1, <3>3, <4>1, <4>2, <4>3 DEF SameLast
        <3> QED BY <1>2, <3>1, <3>2, <3>3
    <2>3. \A o \in Owners', i \in DOMAIN head' : head'[i] \in Ids \ {o} => head'[i] \in Done'
        BY <1>2 DEF Authors
    <2> QED BY <2>1, <2>2, <2>3 DEF Authors
<1>3. CASE (Reopened /\ (Reopens \/ BudgetExhausted)) \/ (Added /\ (PlanTickets \/ PrePrChecks))
    <2>1. UNCHANGED head /\ Owners' = Owners /\ SameLast /\ \A t \in Ids : store'.base[t] = store.base[t]
        BY <1>3, WorldOf, OwnersAre DEF Works, Reopened, Added, Leaves
    <2>2. Done \subseteq Done'
        BY <1>3 DEF Reopened, Added, Leaves, Done
    <2> QED BY <1>2, <2>1, <2>2
<1>4. ASSUME NEW t \in Ids, Blocked(t), BlockTicket \/ BlockUnsatisfiable(t) PROVE Authors'
    <2>1. UNCHANGED head /\ SameLast /\ Owners' \subseteq Owners
        BY <1>4, WorldOf, OwnersAre DEF Works, Blocked
    <2>2. Done \subseteq Done'
        BY <1>4 DEF Blocked, OnlyOf, Leaves, Done
    <2>3. ASSUME NEW u \in Ids PROVE store'.base[u] = store.base[u] \/ (u \in Owners /\ store'.base[u] = None)
        BY <1>4 DEF Blocked, OnlyOf, Leaves, Owners
    <2> QED BY <1>2, <2>1, <2>2, <2>3
<1>5. ASSUME NEW c \in Ids, Begun(c) PROVE Authors'
    <2>1. UNCHANGED head /\ SameLast /\ (\A t \in Ids \ {c} : Leaves(t))
        BY <1>5, WorldOf DEF Begun, Works, OnlyOf
    <2>2. /\ Owners \subseteq {c} /\ Owners' = {c} /\ store.status[c] \in {"pending", "in_progress"}
          /\ (store.base[c] = None => Owners = {} /\ Here = store.last)
        BY <1>5, BegunIs
    <2>3. store'.status[c] = "in_progress" /\ store'.base[c] = IF store.base[c] = None THEN Here ELSE store.base[c]
        BY <1>5 DEF Begun
    <2>4. Done' = Done
        BY <2>1, <2>2, <2>3 DEF Done, Leaves
    <2>5. CASE store.base[c] # None
        <3>1. Owners = {c}
            BY <2>2, <2>5 DEF Owners
        <3>2. \A t \in Ids : store'.base[t] = store.base[t]
            BY <2>1, <2>3, <2>5 DEF Leaves
        <3> QED BY <1>2, <2>1, <2>2, <2>4, <3>1, <3>2
    <2>6. CASE store.base[c] = None
        <3>1. ASSUME NEW i \in DOMAIN head, head[i] \in Ids PROVE head[i] \in Done
            <4>1. SUFFICES ASSUME head[i] \notin Done PROVE FALSE
                OBVIOUS
            <4>2. store.base[head[i]] = None
                <5>1. head[i] \notin Owners
                    BY <2>2, <2>6
                <5> QED BY <3>1, <4>1, <5>1 DEF Owners, Done
            <4>3. store.last < i
                BY <3>1, <4>1, <4>2 DEF Authors
            <4> QED BY <1>0, <2>2, <2>6, <4>3
        <3>2. OneCommitEach'
            BY <2>1 DEF Authors, OneCommitEach
        <3> QED BY <2>1, <2>4, <3>1, <3>2 DEF Authors
    <2> QED BY <2>5, <2>6
<1>6. CASE Adopted \/ Finished
    <2>1. UNCHANGED head /\ Owners = {cur} /\ Owners' \subseteq {cur}
        BY <1>6, WorldOf, OwnersAre DEF Works, Adopted, Finished
    <2>2. cur \in Ids /\ store.status[cur] = "in_progress"
        BY <1>6, Sole DEF Adopted, AdoptCommits, Finished, FinishTicket, Working, Busy
    <2>3. Done \subseteq Done'
        BY <1>6, <2>2 DEF Adopted, Finished, OnlyOf, Leaves, Done
    <2>4. ASSUME NEW i \in DOMAIN head, head[i] \in Ids PROVE head[i] \in Done'
        <3>1. CASE head[i] # cur
            BY <2>1, <2>3, <2>4, <3>1 DEF Authors
        <3>2. CASE head[i] = cur /\ Finished
            BY <2>2, <3>2 DEF Finished, Done
        <3>3. CASE head[i] = cur /\ Adopted
            <4>1. ~ (i > store.base[cur])
                BY <2>4, <3>3 DEF Adopted, AdoptCommits, Made
            <4>2. cur \notin Done /\ store.base[cur] # None
                BY <2>1, <2>2 DEF Done, Owners
            <4>3. store.base[cur] < i
                BY <2>2, <3>3, <4>2 DEF Authors
            <4>4. store.base[cur] \in Nat /\ i \in Nat
                BY <1>0, <2>2, <4>2
            <4> QED BY <4>1, <4>3, <4>4
        <3> QED BY <1>6, <3>1, <3>2, <3>3
    <2>5. OneCommitEach'
        BY <2>1 DEF Authors, OneCommitEach
    <2> QED BY <2>1, <2>4, <2>5 DEF Authors
<1> QED BY <1>1, <1>3, <1>4, <1>5, <1>6, Effects, Sole DEF Blocked, OnlyOf

-----------------------------------------------------------------------------
(* The theorems.                                                           *)

\* A new state file, an empty branch, no runner.
LEMMA Starts == Init => IInv /\ Ownership /\ Authors
<1> SUFFICES ASSUME Init PROVE IInv /\ Ownership /\ Authors
    OBVIOUS
<1>1. store \in Store /\ store.last = 0 /\ \A t \in Ids : store.base[t] = None /\ store.full[t] = None
    BY DEF Init, Store, Status, GateStatus
<1>2. head = <<>> /\ Here = 0 /\ DOMAIN head = {}
    BY DEF Init, Here
<1>3. Types
    <2>1. head \in Seq(Ids \cup {Foreign}) /\ store.last <= Here
        BY <1>1, <1>2
    <2> QED BY <1>1, <2>1 DEF Init, Types, Places
<1>4. Working /\ Stored /\ Scheduled /\ Published
    BY <1>1 DEF Init, Working, Stored, Scheduled, Published, Busy, Publishing
<1>5. Owners = {}
    BY <1>1 DEF Owners
<1>6. Ownership
    BY <1>5, IdsAre DEF Ownership, Init
<1>7. Authors
    BY <1>2, <1>5 DEF Authors, OneCommitEach
<1> QED BY <1>3, <1>4, <1>6, <1>7 DEF IInv

\* Every step keeps the invariant, whatever the user does.
LEMMA Steps == IInv /\ [Next]_vars => IInv'
<1> SUFFICES ASSUME IInv, [Next]_vars PROVE IInv'
    OBVIOUS
<1>1. Types' /\ Working' /\ Stored' /\ Scheduled' /\ Published'
    BY TypesStep, WorkingStep, StoredStep, ScheduledStep, PublishedStep DEF IInv
<1> QED BY <1>1 DEF IInv

\* The invariant contains the type invariant.
LEMMA IInvTypes == IInv => TypeOK
<1> SUFFICES ASSUME IInv PROVE TypeOK
    OBVIOUS
<1>1. Range(head) \subseteq Ids \cup {Foreign}
    <2>1. head \in [1..Len(head) -> Ids \cup {Foreign}]
        BY DEF IInv, Types
    <2> QED BY <2>1 DEF Range
<1> QED BY <1>1 DEF IInv, Types, Working, Busy, TypeOK

\* The invariant holds in every state of a run.
THEOREM Invariance == Spec => []IInv
<1>1. Init => IInv
    BY Starts
<1> QED BY <1>1, Steps, PTL DEF Spec

\* Every sha the state file holds is on the branch, and the ticket being worked
\* on has said so there.
THEOREM Typing == Spec => []TypeOK
BY Invariance, IInvTypes, PTL

\* A ticket starts only when its dependencies, the earlier phases and their
\* gates are through, in any plan.
THEOREM PlanOrderKept == Spec => BuiltInOrder
<1>1. IInv /\ [Next]_vars =>
        [\A t \in Ids :
         store.status[t] # "in_progress" /\ store'.status[t] = "in_progress"
         => /\ plan.deps[t] \subseteq Done
            /\ \A u \in Tickets : plan.phase[u] \in 1..plan.phase[t] - 1 => u \in Done
            /\ \A g \in plan.gates \cap 1..plan.phase[t] - 1 : store.gates[g] \in {"pass", "skipped"}]_vars
    BY BuiltStep
<1> QED BY <1>1, Invariance, PTL DEF Spec, BuiltInOrder

\* What is pushed is what was accepted, tested and gated.
THEOREM PublicationIsVetted == Spec => PublishedVetted
<1>1. IInv /\ [Next]_vars =>
        [pushed' # pushed
         => /\ pushed' = suite /\ pushed' = store.last /\ ~ Dirty
            /\ Done = Tickets
            /\ \A g \in plan.gates : store.gates[g] \in {"pass", "skipped"}]_vars
    BY PushedStep
<1> QED BY <1>1, Invariance, PTL DEF Spec, PublishedVetted

\* A run that ends in order leaves a ticket waiting only behind the edits of a
\* blocked one or behind an earlier phase.
THEOREM NothingWaitsInVain == Spec => NothingForgotten
<1>1. Init => Exhaustive
    BY DEF Init, Exhaustive
<1>2. IInv /\ Exhaustive /\ [Next]_vars => Exhaustive'
    BY ExhaustiveStep
<1>3. IInv /\ Exhaustive /\ [Next]_vars =>
        [pc # "idle" /\ outcome' = "finished" /\ ~ exhausted /\ ~ gateFailed
         => \A t \in Pending :
              \/ Dirty /\ \E u \in Owners : store.status[u] = "blocked"
              \/ \E u \in Tickets \ Done : plan.phase[u] \in 1..plan.phase[t] - 1]_vars
    BY ForgottenStep
<1> QED BY <1>1, <1>2, <1>3, Invariance, PTL DEF Spec, NothingForgotten

\* While the user leaves the tickets' edits alone, owners and authors are kept apart.
THEOREM Apart ==
    ASSUME "tidy" \notin UserActs
    PROVE  Spec => [](IInv /\ Ownership /\ Authors)
<1>1. Init => IInv /\ Ownership /\ Authors
    BY Starts
<1>2. IInv /\ Ownership /\ Authors /\ [Next]_vars => (IInv /\ Ownership /\ Authors)'
    <2> SUFFICES ASSUME IInv, Ownership, Authors, [Next]_vars
                 PROVE  IInv' /\ Ownership' /\ Authors'
        OBVIOUS
    <2>1. IInv'
        BY Steps
    <2>2. Ownership'
        BY OwnershipStep
    <2>3. Authors'
        BY AuthorsStep
    <2> QED BY <2>1, <2>2, <2>3
<1> QED BY <1>1, <1>2, PTL DEF Spec

\* No run, stop, crash or block makes two tickets own unfinished changes, and
\* edits of a ticket are its owner's.
THEOREM WorkHasOneOwner ==
    ASSUME "tidy" \notin UserActs
    PROVE  Spec => []OneOwner
<1>1. IInv /\ Ownership /\ Authors => OneOwner
    <2> SUFFICES ASSUME Ownership PROVE OneOwner
        OBVIOUS
    <2>1. Owners \in SUBSET Ids
        BY DEF Owners
    <2>2. Cardinality(Owners) <= 1
        BY <2>1, AtMostOne DEF Ownership
    <2> QED BY <2>2 DEF Ownership, OneOwner
<1>2. Spec => [](IInv /\ Ownership /\ Authors)
    BY Apart
<1> QED BY <1>1, <1>2, PTL

\* However often a run is killed between a commit and its record, no ticket is
\* committed twice.
THEOREM CommittedOnce ==
    ASSUME "tidy" \notin UserActs
    PROVE  Spec => []OneCommitEach
<1>1. IInv /\ Ownership /\ Authors => OneCommitEach
    BY DEF Authors
<1>2. Spec => [](IInv /\ Ownership /\ Authors)
    BY Apart
<1> QED BY <1>1, <1>2, PTL
=============================================================================
