--------------------------- MODULE AgentCallProofs ---------------------------
(***************************************************************************)
(* Proofs about AgentCall, for any limit, reservation, charges, number of  *)
(* retries, model calls and calls.                                         *)
(***************************************************************************)
EXTENDS AgentCall, TLAPS

-----------------------------------------------------------------------------
(* The inductive invariant.                                                *)

\* Nothing is raised yet while the child is read and waited for.
Quiet == pc \in {"idle", "check", "charge", "start", "read", "wait"} => error = "none"

\* What was read is part of what was reported, and that of what was billed;
\* all of it if every report had a charge.
Due == IF due = None THEN 0 ELSE due

Reporting ==
    /\ usage.costed <= usage.calls /\ reported.costed <= reported.calls
    /\ usage.calls <= reported.calls /\ usage.charge <= reported.charge
    /\ usage.calls = reported.calls => usage = reported
    /\ reported.charge + Due <= bill
    /\ reported.costed = reported.calls => reported.charge + Due = bill

\* A reader that ended without a failure left nobody to write; a call that
\* nothing cut short has read everything, and exit 0 leaves nothing unreported.
Ending ==
    /\ pc \in {"read", "wait"} /\ "out" \notin reading => fault \/ holds["out"] = {}
    /\ pc = "wait" => "out" \notin reading /\ (fault \/ usage = reported)
    /\ pc \in {"kill", "join", "rejoin", "settle"} /\ error = "none" => leader = "gone" /\ usage = reported
    /\ leader = "gone" /\ error = "none" /\ code = 0 => due = None

\* The books of the calls that are over.
Books ==
    /\ budget.measured <= billed
    /\ budget.full + (IF InFlight THEN 1 ELSE 0) = budget.calls => budget.measured = billed

\* The limit holds the reservations, and the one about to be booked.
Room ==
    Limit # None => budget.reserved <= Limit /\ (pc = "charge" => budget.reserved + PerCall <= Limit)

Honest == Quiet /\ Reporting /\ Ending /\ Books

-----------------------------------------------------------------------------
(* Arithmetic.                                                             *)

\* A reservation more or less.
LEMMA OneMore ==
    ASSUME NEW n \in Int
    PROVE  /\ PerCall * (n + 1) = PerCall * n + PerCall
           /\ PerCall * (n - 1) = PerCall * n - PerCall
           /\ n >= 1 => PerCall * n >= PerCall
           /\ n = 0 => PerCall * n = 0
           /\ PerCall * n \in Int
BY BudgetAssumption

\* Dividing the allowance by the parts of a credit.
LEMMA Parts ==
    ASSUME NEW m \in Nat, NEW a \in Nat, NEW b \in Nat, m + a * Credit <= b * Credit
    PROVE  a <= b
<1> SUFFICES ASSUME a > b PROVE FALSE
    OBVIOUS
<1>1. a - b \in Nat /\ a - b >= 1
    OBVIOUS
<1>2. (a - b) * Credit >= Credit
    BY <1>1, BudgetAssumption
<1>3. (a - b) * Credit = a * Credit - b * Credit
    BY BudgetAssumption
<1> QED
    BY <1>2, <1>3, BudgetAssumption

-----------------------------------------------------------------------------
(* Types and balance.                                                      *)

\* The fields of a ledger are numbers.
LEMMA LedgerFields ==
    ASSUME NEW b \in Ledger
    PROVE  /\ b.reserved \in Nat /\ b.measured \in Nat /\ b.calls \in Nat
           /\ b.full \in Nat /\ b.partial \in Nat /\ b.unknown \in Nat
BY DEF Ledger

\* What booking writes.
LEMMA BookedLedger ==
    ASSUME budget \in Ledger
    PROVE  /\ Booked \in Ledger
           /\ Booked.reserved = budget.reserved + PerCall /\ Booked.calls = budget.calls + 1
           /\ Booked.full = budget.full /\ Booked.partial = budget.partial
           /\ Booked.unknown = budget.unknown /\ Booked.measured = budget.measured
BY LedgerFields, BudgetAssumption DEF Booked, Ledger

\* What settling writes.
LEMMA SettledLedger ==
    ASSUME budget \in Ledger, NEW charge \in Nat \cup {None}, NEW complete \in BOOLEAN,
           budget.reserved >= PerCall
    PROVE  LET after == Settled(charge, complete)
           IN  /\ after \in Ledger /\ after.calls = budget.calls
               /\ after.full + after.partial + after.unknown = budget.full + budget.partial + budget.unknown + 1
               /\ after.measured = budget.measured + (IF charge = None THEN 0 ELSE charge)
               /\ charge # None /\ complete
                  => after.full = budget.full + 1 /\ after.reserved = budget.reserved - PerCall
               /\ charge = None \/ ~ complete => after.full = budget.full /\ after.reserved = budget.reserved
<1>1. CASE charge = None
    BY <1>1, LedgerFields, BudgetAssumption DEF Settled, Ledger
<1>2. CASE charge # None /\ ~ complete
    BY <1>2, LedgerFields, BudgetAssumption DEF Settled, Ledger
<1>3. CASE charge # None /\ complete
    BY <1>3, LedgerFields, BudgetAssumption DEF Settled, Ledger
<1> QED BY <1>1, <1>2, <1>3

\* An empty account is one.
LEMMA NothingTypes == Nothing \in Account
BY DEF Nothing, Account

\* Only booking and settling touch the books.
LEMMA BalanceStep ==
    ASSUME TypeOK, [Next]_vars
    PROVE  Balance'
<1>1. CASE budget' = budget /\ InFlight' = InFlight
    BY <1>1 DEF TypeOK, Balance
<1>2. CASE Charge
    <2>1. budget' = Booked /\ ~ InFlight /\ InFlight'
        BY <1>2 DEF Charge, InFlight
    <2> DEFINE n == budget.calls - budget.full
    <2>2. budget \in Ledger /\ n \in Int /\ budget.reserved = PerCall * n
        BY DEF TypeOK, Balance, Ledger
    <2>3. PerCall * (n + 1) = PerCall * n + PerCall
        BY <2>2, OneMore
    <2>4. budget'.calls - budget'.full = n + 1
        BY <2>1, <2>2, BookedLedger DEF Ledger
    <2>5. budget'.reserved = PerCall * (budget'.calls - budget'.full)
        BY <2>1, <2>2, <2>3, <2>4, BookedLedger
    <2>6. budget'.calls = budget'.full + budget'.partial + budget'.unknown + 1
        BY <2>1, <2>2, BookedLedger DEF TypeOK, Balance, Ledger
    <2> QED BY <2>1, <2>2, <2>5, <2>6, BookedLedger DEF Balance
<1>3. CASE Settle
    <2>1. budget' = Settled(Known, Complete) /\ InFlight /\ ~ InFlight'
        BY <1>3 DEF Settle, CloseAccount, InFlight, Return
    <2> DEFINE n == budget.calls - budget.full
    <2>2. budget \in Ledger /\ n \in Int /\ n >= 1 /\ budget.reserved = PerCall * n
        BY <2>1 DEF TypeOK, Balance, Ledger
    <2>3. PerCall * n >= PerCall /\ PerCall * (n - 1) = PerCall * n - PerCall
        BY <2>2, OneMore
    <2>4. Known \in Nat \cup {None} /\ Complete \in BOOLEAN
        BY DEF TypeOK, ClientTypes, Known, Account, Complete
    <2>5. budget' \in Ledger /\ budget'.calls = budget.calls
        BY <2>1, <2>2, <2>3, <2>4, SettledLedger
    <2>6. budget'.calls = budget'.full + budget'.partial + budget'.unknown
        BY <2>1, <2>2, <2>3, <2>4, SettledLedger DEF TypeOK, Balance, Ledger
    <2>7. \/ budget'.full = budget.full /\ budget'.reserved = budget.reserved
          \/ budget'.full = budget.full + 1 /\ budget'.reserved = budget.reserved - PerCall
        BY <2>1, <2>2, <2>3, <2>4, SettledLedger
    <2>8. budget'.reserved = PerCall * (budget'.calls - budget'.full)
        <3>1. CASE budget'.full = budget.full /\ budget'.reserved = budget.reserved
            <4>1. budget'.calls - budget'.full = n
                BY <3>1, <2>5
            <4> QED BY <4>1, <3>1, <2>2
        <3>2. CASE budget'.full = budget.full + 1 /\ budget'.reserved = budget.reserved - PerCall
            <4>1. budget'.calls - budget'.full = n - 1
                BY <3>2, <2>5, <2>2 DEF Ledger
            <4> QED BY <4>1, <3>2, <2>2, <2>3
        <3> QED BY <3>1, <3>2, <2>7
    <2> QED BY <2>1, <2>5, <2>6, <2>8, BudgetAssumption DEF Balance, Ledger
<1>4. CASE UNCHANGED vars
    BY <1>4, <1>1 DEF vars, client, InFlight
<1>5. CASE Child \/ AskToStop \/ \E s \in Streams : ReaderEnds(s) \/ ReaderFails(s)
    BY <1>5, <1>1 DEF Child, MakeModelCall, Report, Say, StartHelper, HelperEnds, CloseStdout, Exit,
        AskToStop, ReaderEnds, ReaderFails, client, InFlight
<1>6. CASE StartCall \/ TimeOut \/ Refuse \/ Exhaust \/ Admit
    BY <1>6, <1>1 DEF StartCall, TimeOut, Refuse, Exhaust, Admit, Return, client, InFlight
<1>7. CASE FailToStart \/ Start \/ Read \/ Interrupt \/ EndOfOutput \/ Reap \/ DoesNotExit
    BY <1>7, <1>1 DEF FailToStart, Start, Read, Interrupt, EndOfOutput, Reap, DoesNotExit, client, InFlight
<1>8. CASE StillReading \/ Kill \/ CloseStreams \/ GiveUpReaders
    BY <1>8, <1>1 DEF StillReading, Kill, CloseStreams, GiveUpReaders, client, InFlight
<1> QED BY <1>2, <1>3, <1>4, <1>5, <1>6, <1>7, <1>8 DEF Next, Client

\* The client's own variables.
LEMMA ClientStep ==
    ASSUME TypeOK, [Next]_vars
    PROVE  ClientTypes'
<1> USE DEF TypeOK, ClientTypes
<1>1. CASE UNCHANGED vars
    BY <1>1 DEF vars, control, client
<1>2. CASE Child \/ \E s \in Streams : ReaderEnds(s) \/ ReaderFails(s)
    BY <1>2 DEF Child, MakeModelCall, Report, Say, StartHelper, HelperEnds, CloseStdout, Exit,
        ReaderEnds, ReaderFails, client, control
<1>9. CASE AskToStop
    BY <1>9 DEF AskToStop, client
<1>3. CASE StartCall
    BY <1>3, BudgetAssumption DEF StartCall, control
<1>4. CASE TimeOut \/ Refuse \/ Exhaust \/ Admit \/ Charge
    BY <1>4 DEF TimeOut, Refuse, Exhaust, Admit, Charge, Return, client, control
<1>5. CASE FailToStart \/ Start \/ Interrupt \/ EndOfOutput \/ Reap \/ DoesNotExit
    BY <1>5 DEF FailToStart, Start, Interrupt, EndOfOutput, Reap, DoesNotExit, client, control
<1>6. CASE Read
    BY <1>6 DEF Read, control, ChildTypes
<1>7. CASE StillReading \/ Kill \/ CloseStreams \/ GiveUpReaders
    BY <1>7 DEF StillReading, Kill, CloseStreams, GiveUpReaders, client, control
<1>8. CASE Settle
    <2>1. usage' \in Account /\ reply' \in BOOLEAN /\ error' = "none" /\ UNCHANGED control
        BY <1>8, NothingTypes DEF Settle, CloseAccount
    <2>2. /\ pc' \in {"check", "idle"} /\ attempt' \in 0..Retries + 1
          /\ result' \in {result, "error", "stopped", "reply"}
        BY <1>8, BudgetAssumption DEF Settle, Return, Outcome
    <2> QED BY <2>1, <2>2 DEF control
<1> QED BY <1>1, <1>2, <1>3, <1>4, <1>5, <1>6, <1>7, <1>8, <1>9 DEF Next, Client

\* The variables of the child, its streams and its readers.
LEMMA ChildStep ==
    ASSUME TypeOK, [Next]_vars
    PROVE  ChildTypes'
<1> USE DEF TypeOK, ChildTypes
<1>1. CASE UNCHANGED vars
    BY <1>1 DEF vars, process, threads, output, history
<1>2. CASE MakeModelCall \/ Report
    BY <1>2, BudgetAssumption DEF MakeModelCall, Report, Account, process, threads, history
<1>3. CASE Say \/ StartHelper \/ HelperEnds \/ CloseStdout \/ Exit
    BY <1>3 DEF Say, StartHelper, HelperEnds, CloseStdout, Exit, process, threads, output, history
<1>4. CASE AskToStop \/ StartCall \/ TimeOut \/ Refuse \/ Exhaust \/ Admit
    BY <1>4 DEF AskToStop, StartCall, TimeOut, Refuse, Exhaust, Admit, process, threads, output, history
<1>5. CASE \E s \in Streams : ReaderEnds(s) \/ ReaderFails(s)
    BY <1>5 DEF ReaderEnds, ReaderFails, process, threads, output, history
<1>6. CASE Charge \/ FailToStart \/ Start
    BY <1>6 DEF Charge, FailToStart, Start, process, threads, output, history
<1>7. CASE Read \/ Interrupt \/ EndOfOutput \/ Reap \/ DoesNotExit
    BY <1>7 DEF Read, Interrupt, EndOfOutput, Reap, DoesNotExit, process, threads, output, history
<1>8. CASE StillReading \/ Kill \/ CloseStreams \/ GiveUpReaders
    BY <1>8 DEF StillReading, Kill, CloseStreams, GiveUpReaders, process, threads, output, history
<1>9. CASE Settle
    <2>1. holds' \in [Streams -> SUBSET {"leader", "helper"}]
        <3>1. holds' = [s \in Streams |-> {}]
            BY <1>9 DEF Settle, CloseAccount
        <3> QED BY <3>1
    <2>2. reported' \in Account /\ due' \in Nat \cup {None} /\ billed' \in Nat
        BY <1>9, NothingTypes DEF Settle, CloseAccount
    <2>3. leader' = "none" /\ code' = 0 /\ helper' = "none" /\ reading' = {} /\ fault' \in BOOLEAN
        BY <1>9 DEF Settle, CloseAccount
    <2>4. said' \in BOOLEAN /\ bill' \in Nat /\ late' \in Nat
        BY <1>9 DEF Settle, CloseAccount
    <2> QED BY <2>1, <2>2, <2>3, <2>4
<1> QED BY <1>1, <1>2, <1>3, <1>4, <1>5, <1>6, <1>7, <1>8, <1>9 DEF Next, Client, Child

\* The initial state has these types, and nothing is booked in it.
LEMMA InitTypes == Init => TypeOK
<1> SUFFICES ASSUME Init PROVE TypeOK
    OBVIOUS
<1>1. ClientTypes
    <2>1. attempt \in 0..Retries + 1
        BY BudgetAssumption DEF Init
    <2>2. usage \in Account /\ reply \in BOOLEAN /\ requested \in BOOLEAN /\ interrupt \in BOOLEAN
        BY NothingTypes DEF Init
    <2> QED BY <2>1, <2>2 DEF Init, ClientTypes
<1>2. ChildTypes
    <2>1. holds \in [Streams -> SUBSET {"leader", "helper"}]
        <3>1. holds = [s \in Streams |-> {}]
            BY DEF Init
        <3> QED BY <3>1
    <2> QED BY <2>1, NothingTypes DEF Init, ChildTypes
<1>3. Balance
    <2>1. budget \in Ledger /\ ~ InFlight
        BY DEF Init, Ledger, InFlight
    <2>2. PerCall * 0 = 0
        BY BudgetAssumption
    <2> QED BY <2>1, <2>2 DEF Init, Balance
<1> QED BY <1>1, <1>2, <1>3 DEF TypeOK

\* Every invocation is settled exactly once, and keeps its reservation unless
\* its whole cost is known.
THEOREM BooksBalance == Spec => []TypeOK
<1>1. TypeOK /\ [Next]_vars => TypeOK'
    BY BalanceStep, ClientStep, ChildStep DEF TypeOK
<1> QED BY InitTypes, <1>1, PTL DEF Spec

-----------------------------------------------------------------------------
(* The limit.                                                              *)

\* Only the check makes room, and only booking uses it.
LEMMA RoomStep ==
    ASSUME TypeOK, Room, [Next]_vars
    PROVE  Room'
<1> SUFFICES ASSUME Limit # None
             PROVE  budget'.reserved <= Limit /\ (pc' = "charge" => budget'.reserved + PerCall <= Limit)
    BY DEF Room
<1>0. budget \in Ledger /\ budget.reserved \in Nat /\ budget.measured \in Nat /\ Limit \in Nat
    BY LedgerFields, BudgetAssumption DEF TypeOK, Balance
<1>1. CASE budget' = budget /\ (pc' = "charge" => pc = "charge")
    BY <1>1 DEF Room
<1>2. CASE Admit
    <2>1. Admitted /\ budget' = budget
        BY <1>2 DEF Admit, client
    <2>2. budget.measured + (budget.reserved + PerCall) * Credit <= Limit * Credit
        BY <2>1 DEF Admitted
    <2>3. budget.reserved + PerCall <= Limit
        BY <2>2, <1>0, Parts, BudgetAssumption
    <2> QED BY <2>1, <2>3 DEF Room
<1>3. CASE Charge
    <2>1. budget' = Booked /\ pc = "charge" /\ pc' = "start"
        BY <1>3 DEF Charge
    <2>2. budget'.reserved = budget.reserved + PerCall
        BY <2>1, <1>0, BookedLedger
    <2> QED BY <2>1, <2>2 DEF Room
<1>4. CASE Settle
    <2>1. budget' = Settled(Known, Complete) /\ InFlight /\ pc' \in {"check", "idle"}
        BY <1>4 DEF Settle, CloseAccount, InFlight, Return
    <2> DEFINE n == budget.calls - budget.full
    <2>2. n \in Int /\ n >= 1 /\ budget.reserved = PerCall * n
        BY <2>1 DEF TypeOK, Balance, Ledger
    <2>3. budget.reserved >= PerCall
        BY <2>2, OneMore
    <2>4. Known \in Nat \cup {None} /\ Complete \in BOOLEAN
        BY DEF TypeOK, ClientTypes, Known, Account, Complete
    <2>5. budget'.reserved = budget.reserved \/ budget'.reserved = budget.reserved - PerCall
        BY <2>1, <2>3, <2>4, <1>0, SettledLedger
    <2> QED BY <2>1, <2>5, <1>0, BudgetAssumption DEF Room
<1>5. CASE UNCHANGED vars
    BY <1>5, <1>1 DEF vars, client
<1>6. CASE Child \/ AskToStop \/ \E s \in Streams : ReaderEnds(s) \/ ReaderFails(s)
    BY <1>6, <1>1 DEF Child, MakeModelCall, Report, Say, StartHelper, HelperEnds, CloseStdout, Exit,
        AskToStop, ReaderEnds, ReaderFails, client
<1>7. CASE StartCall \/ TimeOut \/ Refuse \/ Exhaust
    BY <1>7, <1>1 DEF StartCall, TimeOut, Refuse, Exhaust, Return, client
<1>8. CASE FailToStart \/ Start \/ Read \/ Interrupt \/ EndOfOutput \/ Reap \/ DoesNotExit
    BY <1>8, <1>1 DEF FailToStart, Start, Read, Interrupt, EndOfOutput, Reap, DoesNotExit, client
<1>9. CASE StillReading \/ Kill \/ CloseStreams \/ GiveUpReaders
    BY <1>9, <1>1 DEF StillReading, Kill, CloseStreams, GiveUpReaders, client
<1> QED BY <1>2, <1>3, <1>4, <1>5, <1>6, <1>7, <1>8, <1>9 DEF Next, Client

\* Under a limit, the calls whose whole cost is not known are bounded by the
\* reservations the limit holds, retries of blank replies included.
THEOREM CallsAreBounded == Spec => []CallsBounded
<1>1. Init => Room
    BY BudgetAssumption DEF Init, Room
<1>2. TypeOK /\ Room /\ [Next]_vars => Room'
    BY RoomStep
<1>3. TypeOK /\ Room => CallsBounded
    BY DEF TypeOK, Balance, Room, CallsBounded
<1> QED BY BooksBalance, <1>1, <1>2, <1>3, PTL DEF Spec

-----------------------------------------------------------------------------
(* Nothing is rendered as free.                                            *)

\* The fields of an account are numbers.
LEMMA AccountFields ==
    ASSUME NEW a \in Account
    PROVE  a.calls \in Nat /\ a.costed \in Nat /\ a.charge \in Nat
BY DEF Account

\* What is still to be reported is a number.
LEMMA DueTypes == TypeOK => Due \in Nat /\ bill \in Nat /\ usage \in Account /\ reported \in Account
BY DEF TypeOK, ChildTypes, ClientTypes, Due

\* Nothing is raised before the teardown.
LEMMA QuietStep ==
    ASSUME Quiet, [Next]_vars
    PROVE  Quiet'
<1> USE DEF Quiet
<1>1. CASE UNCHANGED vars
    BY <1>1 DEF vars, client
<1>2. CASE Child
    BY <1>2 DEF Child, MakeModelCall, Report, Say, StartHelper, HelperEnds, CloseStdout, Exit, client
<1>3. CASE AskToStop \/ StartCall \/ Refuse \/ Exhaust \/ Admit \/ Charge
    BY <1>3 DEF AskToStop, StartCall, Refuse, Exhaust, Admit, Charge, Return, client
<1>4. CASE FailToStart \/ Start \/ Read \/ Interrupt \/ TimeOut \/ EndOfOutput \/ Reap \/ DoesNotExit
    BY <1>4 DEF FailToStart, Start, Read, Interrupt, TimeOut, EndOfOutput, Reap, DoesNotExit, client
<1>5. CASE StillReading \/ Kill \/ CloseStreams \/ GiveUpReaders
    BY <1>5 DEF StillReading, Kill, CloseStreams, GiveUpReaders, client
<1>6. CASE Settle
    BY <1>6 DEF Settle, CloseAccount
<1>7. CASE \E s \in Streams : ReaderEnds(s) \/ ReaderFails(s)
    BY <1>7 DEF ReaderEnds, ReaderFails, client
<1> QED BY <1>1, <1>2, <1>3, <1>4, <1>5, <1>6, <1>7 DEF Next, Client

\* Only the child reports, and the client reads what it reported.
LEMMA ReportingStep ==
    ASSUME TypeOK, Reporting, [Next]_vars
    PROVE  Reporting'
<1>0. bill \in Nat /\ usage \in Account /\ reported \in Account /\ due \in Nat \cup {None}
    BY DEF TypeOK, ChildTypes, ClientTypes
<1>1. CASE UNCHANGED <<usage, output>>
    BY <1>1 DEF Reporting, Due, output
<1>2. CASE MakeModelCall
    <2>1. due = None /\ usage' = usage /\ reported' = reported
        BY <1>2 DEF MakeModelCall, client
    <2>2. PICK charge \in Charges : due' = charge /\ bill' = bill + charge
        BY <1>2 DEF MakeModelCall
    <2>3. charge \in Nat /\ charge # None
        BY BudgetAssumption
    <2>4. Due = 0 /\ Due' = charge
        BY <2>1, <2>2, <2>3 DEF Due
    <2> QED BY <2>1, <2>2, <2>3, <2>4, <1>0, AccountFields DEF Reporting
<1>3. CASE Report
    <2>1. due \in Nat /\ due # None /\ due' = None /\ usage' = usage /\ bill' = bill
        BY <1>3, <1>0 DEF Report, client
    <2>2. Due = due /\ Due' = 0
        BY <2>1 DEF Due
    <2>3. \/ reported' = [calls |-> reported.calls + 1, costed |-> reported.costed + 1,
                          charge |-> reported.charge + due]
          \/ reported' = [calls |-> reported.calls + 1, costed |-> reported.costed + 0,
                          charge |-> reported.charge + 0]
        BY <1>3 DEF Report
    <2> QED BY <2>1, <2>2, <2>3, <1>0, AccountFields DEF Reporting
<1>4. CASE Read
    BY <1>4, <1>0, AccountFields DEF Read, Reporting, Due, output
<1>5. CASE Settle
    <2>1. usage' = Nothing /\ reported' = Nothing /\ due' = None /\ bill' = 0
        BY <1>5 DEF Settle, CloseAccount
    <2>2. Due' = 0
        BY <2>1 DEF Due
    <2> QED BY <2>1, <2>2 DEF Reporting, Nothing
<1>6. CASE Say
    BY <1>6 DEF Say, Reporting, Due, client
<1>7. CASE UNCHANGED vars
    BY <1>7, <1>1 DEF vars, client
<1>8. CASE StartHelper \/ HelperEnds \/ CloseStdout \/ Exit \/ AskToStop \/ StartCall \/ TimeOut
    BY <1>8, <1>1 DEF StartHelper, HelperEnds, CloseStdout, Exit, AskToStop, StartCall, TimeOut, client
<1>9. CASE \E s \in Streams : ReaderEnds(s) \/ ReaderFails(s)
    BY <1>9, <1>1 DEF ReaderEnds, ReaderFails, client
<1>10. CASE Refuse \/ Exhaust \/ Admit \/ Charge \/ FailToStart \/ Start \/ Interrupt
    BY <1>10, <1>1 DEF Refuse, Exhaust, Admit, Charge, FailToStart, Start, Interrupt, client
<1>11. CASE EndOfOutput \/ Reap \/ DoesNotExit \/ StillReading \/ Kill \/ CloseStreams \/ GiveUpReaders
    BY <1>11, <1>1 DEF EndOfOutput, Reap, DoesNotExit, StillReading, Kill, CloseStreams, GiveUpReaders, client
<1> QED BY <1>2, <1>3, <1>4, <1>5, <1>6, <1>7, <1>8, <1>9, <1>10, <1>11 DEF Next, Client, Child

\* A call that nothing cut short has read everything.
LEMMA EndingStep ==
    ASSUME TypeOK, Quiet, Ending, [Next]_vars
    PROVE  Ending'
<1>0. holds \in [Streams -> SUBSET {"leader", "helper"}] /\ "out" \in Streams /\ fault \in BOOLEAN
    BY DEF TypeOK, ChildTypes, Streams
<1>1. CASE UNCHANGED vars
    BY <1>1 DEF vars, client, process, threads, output, Ending
<1>2. CASE MakeModelCall \/ Report \/ Say
    BY <1>2, <1>0 DEF MakeModelCall, Report, Say, Writes, client, process, threads, Ending
<1>3. CASE StartHelper
    BY <1>3, <1>0 DEF StartHelper, client, threads, output, Ending
<1>4. CASE HelperEnds \/ CloseStdout \/ Exit
    BY <1>4, <1>0 DEF HelperEnds, CloseStdout, Exit, Writes, client, threads, output, Ending
<1>5. CASE \E s \in Streams : ReaderEnds(s) \/ ReaderFails(s)
    BY <1>5, <1>0 DEF ReaderEnds, ReaderFails, client, process, output, Ending
<1>6. CASE AskToStop \/ StartCall \/ Refuse \/ Exhaust \/ Admit \/ Charge
    BY <1>6 DEF AskToStop, StartCall, Refuse, Exhaust, Admit, Charge, Return, client, process, threads,
        output, Ending
<1>7. CASE Start
    BY <1>7, <1>0 DEF Start, client, output, Ending
<1>8. CASE FailToStart \/ Read \/ Interrupt \/ TimeOut
    BY <1>8 DEF FailToStart, Read, Interrupt, TimeOut, process, threads, output, Ending
<1>9. CASE EndOfOutput \/ DoesNotExit
    BY <1>9 DEF EndOfOutput, DoesNotExit, client, process, threads, output, Ending
<1>10. CASE Reap
    BY <1>10 DEF Reap, process, threads, output, Ending, Quiet
<1>11. CASE StillReading \/ CloseStreams \/ GiveUpReaders
    BY <1>11 DEF StillReading, CloseStreams, GiveUpReaders, client, process, threads, output, Ending
<1>12. CASE Kill
    BY <1>12 DEF Kill, client, threads, output, Ending
<1>13. CASE Settle
    BY <1>13 DEF Settle, CloseAccount, Return, Ending
<1> QED BY <1>1, <1>2, <1>3, <1>4, <1>5, <1>6, <1>7, <1>8, <1>9, <1>10, <1>11, <1>12, <1>13
        DEF Next, Client, Child

\* A charge is measured only from a report, and as the whole cost only if the
\* account of the call is whole.
LEMMA BooksStep ==
    ASSUME TypeOK, Quiet, Reporting, Ending, Books, [Next]_vars
    PROVE  Books'
<1>0. /\ budget \in Ledger /\ budget.measured \in Nat /\ budget.calls \in Nat /\ budget.full \in Nat
      /\ billed \in Nat /\ bill \in Nat
    BY LedgerFields DEF TypeOK, Balance, ChildTypes
<1>1. CASE budget' = budget /\ InFlight' = InFlight /\ billed' = billed
    BY <1>1 DEF Books
<1>2. CASE Charge
    <2>1. budget' = Booked /\ ~ InFlight /\ InFlight' /\ billed' = billed
        BY <1>2 DEF Charge, InFlight
    <2>2. /\ budget'.measured = budget.measured /\ budget'.calls = budget.calls + 1
          /\ budget'.full = budget.full
        BY <2>1, <1>0, BookedLedger
    <2> QED BY <2>1, <2>2, <1>0 DEF Books
<1>3. CASE Settle
    <2>1. /\ budget' = Settled(Known, Complete) /\ InFlight /\ ~ InFlight' /\ billed' = billed + bill
          /\ pc = "settle"
        BY <1>3 DEF Settle, CloseAccount, InFlight, Return
    <2> DEFINE n == budget.calls - budget.full
    <2>2. n \in Int /\ n >= 1 /\ budget.reserved = PerCall * n
        BY <2>1 DEF TypeOK, Balance, Ledger
    <2>3. budget.reserved >= PerCall
        BY <2>2, OneMore
    <2>4. Known \in Nat \cup {None} /\ Complete \in BOOLEAN
        BY DEF TypeOK, ClientTypes, Known, Account, Complete
    <2>5. /\ budget'.calls = budget.calls
          /\ budget'.measured = budget.measured + (IF Known = None THEN 0 ELSE Known)
          /\ Known # None /\ Complete => budget'.full = budget.full + 1
          /\ Known = None \/ ~ Complete => budget'.full = budget.full
        BY <2>1, <2>3, <2>4, <1>0, SettledLedger
    <2>6. Known # None => Known = usage.charge /\ Known <= bill
        BY DueTypes, AccountFields DEF Reporting, Known
    <2>7. Known # None /\ Complete => Known = bill
        <3> SUFFICES ASSUME Known # None, Complete PROVE Known = bill
            OBVIOUS
        <3>1. usage = reported /\ leader = "gone" /\ due = None
            BY <2>1 DEF Complete, Ending
        <3>2. reported.costed = reported.calls /\ Due = 0
            BY <3>1 DEF Complete, Due
        <3> QED BY <3>1, <3>2, <2>6, DueTypes, AccountFields DEF Reporting
    <2>8. budget'.measured <= billed'
        BY <2>1, <2>4, <2>5, <2>6, <1>0 DEF Books
    <2>9. CASE Known # None /\ Complete
        <3>1. /\ budget'.measured = budget.measured + bill /\ budget'.full = budget.full + 1
              /\ budget'.calls = budget.calls
            BY <2>9, <2>5, <2>7
        <3>2. budget.full + 1 = budget.calls => budget.measured = billed
            BY <2>1 DEF Books
        <3> QED BY <3>1, <3>2, <2>1, <2>8, <1>0 DEF Books
    <2>10. CASE Known = None \/ ~ Complete
        BY <2>10, <2>1, <2>2, <2>5, <2>8, <1>0 DEF Books
    <2> QED BY <2>9, <2>10
<1>4. CASE UNCHANGED vars
    BY <1>4, <1>1 DEF vars, client, history, InFlight
<1>5. CASE Child \/ AskToStop \/ \E s \in Streams : ReaderEnds(s) \/ ReaderFails(s)
    BY <1>5, <1>1 DEF Child, MakeModelCall, Report, Say, StartHelper, HelperEnds, CloseStdout, Exit,
        AskToStop, ReaderEnds, ReaderFails, client, history, InFlight
<1>6. CASE StartCall \/ TimeOut \/ Refuse \/ Exhaust \/ Admit
    BY <1>6, <1>1 DEF StartCall, TimeOut, Refuse, Exhaust, Admit, Return, client, history, InFlight
<1>7. CASE FailToStart \/ Start \/ Read \/ Interrupt \/ EndOfOutput \/ Reap \/ DoesNotExit
    BY <1>7, <1>1 DEF FailToStart, Start, Read, Interrupt, EndOfOutput, Reap, DoesNotExit, client,
        history, InFlight
<1>8. CASE StillReading \/ Kill \/ CloseStreams \/ GiveUpReaders
    BY <1>8, <1>1 DEF StillReading, Kill, CloseStreams, GiveUpReaders, client, history, InFlight
<1> QED BY <1>2, <1>3, <1>4, <1>5, <1>6, <1>7, <1>8 DEF Next, Client

\* The initial books are honest.
LEMMA InitHonest == Init => Honest
<1> SUFFICES ASSUME Init PROVE Honest
    OBVIOUS
<1>1. Quiet /\ Ending
    BY DEF Init, Quiet, Ending
<1>2. Reporting
    BY DEF Init, Reporting, Due, Nothing
<1>3. Books
    BY DEF Init, Books
<1> QED BY <1>1, <1>2, <1>3 DEF Honest

\* What was measured never exceeds what was billed, and is all of it once every
\* call counts as costed in full.
THEOREM NothingIsFree == Spec => []NothingFree
<1>1. TypeOK /\ Honest /\ [Next]_vars => Honest'
    BY QuietStep, ReportingStep, EndingStep, BooksStep DEF Honest
<1>2. TypeOK /\ Honest => NothingFree
    BY LedgerFields DEF Honest, Books, NothingFree, TypeOK, Balance
<1> QED BY BooksBalance, InitHonest, <1>1, <1>2, PTL DEF Spec

-----------------------------------------------------------------------------
(* Stopping.                                                               *)

\* An invocation after the request is one that had passed its check before.
Stops == late <= 1 /\ (~ requested \/ pc = "charge" => late = 0)

\* Where a child, or a helper in its group, may still be alive.
Processes ==
    /\ pc \in {"idle", "check", "charge", "start"} => leader = "none"
    /\ pc = "join" => leader = "gone" /\ error \in {"none", "fault"}
    /\ pc = "rejoin" => leader = "gone" /\ helper # "group"
    /\ NoneLeft

\* After the user asked to stop at most the invocation that was just being
\* started starts, however many calls, retries and requests there are.
THEOREM AtMostOneMoreCall == Spec => []StopHonoured
<1>1. Init => Stops
    BY DEF Init, Stops
<1>2. TypeOK /\ Stops /\ [Next]_vars => Stops'
    <2> SUFFICES ASSUME TypeOK, Stops, [Next]_vars PROVE Stops'
        OBVIOUS
    <2>0. late \in Nat /\ requested \in BOOLEAN
        BY DEF TypeOK, ClientTypes, ChildTypes
    <2>1. CASE Charge
        BY <2>0, <2>1 DEF Charge, Stops, control
    <2>2. CASE AskToStop
        BY <2>0, <2>2 DEF AskToStop, Stops, history
    <2>3. CASE StartCall \/ Refuse \/ Exhaust \/ FailToStart \/ Start \/ Read \/ Interrupt \/ EndOfOutput \/ Reap
        BY <2>0, <2>3 DEF StartCall, Refuse, Exhaust, Return, FailToStart, Start, Read, Interrupt, EndOfOutput, Reap,
           control, history, Stops
    <2>4. CASE Admit
        BY <2>0, <2>4 DEF Admit, Stopping, control, history, Stops
    <2>5. CASE DoesNotExit \/ StillReading \/ Kill \/ CloseStreams \/ GiveUpReaders \/ TimeOut
        BY <2>0, <2>5 DEF DoesNotExit, StillReading, Kill, CloseStreams, GiveUpReaders, TimeOut, control, history, Stops
    <2>6. CASE Settle
        BY <2>0, <2>6 DEF Settle, CloseAccount, Return, control, Stops
    <2>7. CASE Child
        BY <2>0, <2>7 DEF Child, MakeModelCall, Report, Say, StartHelper, HelperEnds, CloseStdout, Exit, control, history, Stops
    <2>8. CASE (\E s \in Streams : ReaderEnds(s) \/ ReaderFails(s)) \/ UNCHANGED vars
        BY <2>0, <2>8 DEF ReaderEnds, ReaderFails, vars, control, history, Stops
    <2> QED BY <2>1, <2>2, <2>3, <2>4, <2>5, <2>6, <2>7, <2>8 DEF Next, Client
<1>3. Stops => StopHonoured
    BY DEF Stops, StopHonoured
<1> QED BY <1>1, <1>2, <1>3, BooksBalance, PTL DEF Spec

\* When a call is over its child is gone, and after a stop or a timeout so is
\* what the child had started in its group.
THEOREM NothingIsLeft == Spec => []NoneLeft
<1>1. Init => Processes
    BY DEF Init, Processes, NoneLeft
<1>2. Processes /\ [Next]_vars => Processes'
    <2> SUFFICES ASSUME Processes, [Next]_vars PROVE Processes'
        OBVIOUS
    <2> USE DEF Processes, NoneLeft
    <2>1. CASE StartCall \/ Refuse \/ Exhaust \/ Admit \/ Charge
        BY <2>1 DEF StartCall, Refuse, Exhaust, Return, Admit, Charge, client, process
    <2>2. CASE FailToStart \/ Start \/ Read \/ Interrupt \/ TimeOut \/ EndOfOutput
        BY <2>2 DEF FailToStart, Start, Read, Interrupt, TimeOut, EndOfOutput, client, process
    <2>3. CASE Reap \/ DoesNotExit \/ StillReading
        BY <2>3 DEF Reap, DoesNotExit, StillReading, client, process
    <2>4. CASE Kill
        BY <2>4 DEF Kill, client
    <2>5. CASE CloseStreams \/ GiveUpReaders
        BY <2>5 DEF CloseStreams, GiveUpReaders, client, process
    <2>6. CASE Settle
        BY <2>6 DEF Settle, CloseAccount, Return
    <2>7. CASE MakeModelCall \/ Report \/ Say \/ CloseStdout
        BY <2>7 DEF MakeModelCall, Report, Say, CloseStdout, client, process
    <2>8. CASE StartHelper \/ HelperEnds \/ Exit
        BY <2>8 DEF StartHelper, HelperEnds, Exit, client
    <2>9. CASE AskToStop \/ (\E s \in Streams : ReaderEnds(s) \/ ReaderFails(s)) \/ UNCHANGED vars
        BY <2>9 DEF AskToStop, ReaderEnds, ReaderFails, vars, client, process
    <2> QED BY <2>1, <2>2, <2>3, <2>4, <2>5, <2>6, <2>7, <2>8, <2>9 DEF Next, Client, Child
<1>3. Processes => NoneLeft
    BY DEF Processes
<1> QED BY <1>1, <1>2, <1>3, PTL DEF Spec
=============================================================================
