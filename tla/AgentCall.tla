------------------------------ MODULE AgentCall ------------------------------
(***************************************************************************)
(* One model call and the credit budget: CopilotClient.run of copilot.py   *)
(* over RunBudget (budget.py), RunControl (control.py) and the usage of an *)
(* invocation (usage.py).                                                  *)
(*                                                                         *)
(* The client is the pipeline thread.  Around it run two reader threads,   *)
(* the child process, which makes model calls that are billed, reports     *)
(* them on its stdout and may start a helper that outlives it, and the     *)
(* user, who asks to stop once or twice.  A report carries the charge of   *)
(* one model call, or none; unread reports are those in `reported' that    *)
(* are not in `usage' yet.  Charges are counted in parts of a credit,      *)
(* Credit of them to one (NANO_PER_AIU).                                   *)
(***************************************************************************)
EXTENDS Integers

CONSTANTS
    None,           \* null
    Limit,          \* max_run_credits, or None
    PerCall,        \* max_ai_credits, or 1: the reservation of a call
    Credit,         \* NANO_PER_AIU
    Retries,        \* empty_reply_retries
    Charges,        \* what one model call may cost
    MaxModelCalls,  \* bound on the model calls of an invocation
    MaxCalls        \* bound on the invocations of a run, retries not counted

ASSUME BudgetAssumption ==
    /\ Limit \in Nat \cup {None} /\ None \notin Nat
    /\ PerCall \in Nat \ {0} /\ Credit \in Nat \ {0}
    /\ Retries \in Nat /\ Charges \subseteq Nat
    /\ MaxModelCalls \in Nat /\ MaxCalls \in Nat

VARIABLES
    requested, interrupt, \* RunControl
    pc,         \* where the client is
    attempt,    \* of the blank-reply retries
    result,     \* how the last call ended
    error,      \* what _structured_call raised, or "none"
    budget,     \* RunBudget
    usage,      \* what the client has read of the reports: [calls, costed, charge]
    reply,      \* the client has read a message
    leader,     \* the child: "none", "running", "gone"
    code,       \* its exit code
    helper,     \* what the child left running: "none", "group", "escaped", "gone"
    holds,      \* who holds the write end of stdout and of stderr
    reading,    \* reader threads that are alive
    fault,      \* a reader failed
    reported, said, \* what the child wrote: reports, and whether a message
    due,        \* charge of a model call that is billed and not reported, or None
    bill,       \* what the service billed for this invocation
    billed,     \* history: what it billed for the invocations before
    late        \* history: invocations started since the user asked to stop

control == <<requested, interrupt>>
client == <<attempt, result, error, budget, usage, reply>>
process == <<leader, code, helper, holds>>
threads == <<reading, fault>>
output == <<reported, said, due, bill>>
history == <<billed, late>>
vars == <<control, pc, client, process, threads, output, history>>

Streams == {"out", "err"}
Nothing == [calls |-> 0, costed |-> 0, charge |-> 0]

Init ==
    /\ requested = FALSE /\ interrupt = FALSE
    /\ pc = "idle" /\ attempt = 0 /\ result = "none" /\ error = "none"
    /\ budget = [reserved |-> 0, measured |-> 0, calls |-> 0, full |-> 0, partial |-> 0, unknown |-> 0]
    /\ usage = Nothing /\ reply = FALSE
    /\ leader = "none" /\ code = 0 /\ helper = "none" /\ holds = [s \in Streams |-> {}]
    /\ reading = {} /\ fault = FALSE
    /\ reported = Nothing /\ said = FALSE /\ due = None /\ bill = 0
    /\ billed = 0 /\ late = 0

-----------------------------------------------------------------------------
(* The user.                                                               *)

\* RunControl.request: the second request interrupts the model call.
AskToStop ==
    /\ ~ interrupt
    /\ requested' = TRUE /\ interrupt' = requested
    /\ UNCHANGED <<pc, client, process, threads, output, history>>

\* Mutant of Stopping: a first request does not stop the next call.
StoppingNow == interrupt

\* RunControl.check before a call.
Stopping == requested

-----------------------------------------------------------------------------
(* The child.  It may stop making progress at any moment.                  *)

Writes(s) == leader = "running" /\ "leader" \in holds[s]

MakeModelCall ==
    /\ Writes("out") /\ due = None /\ reported.calls < MaxModelCalls
    /\ \E charge \in Charges : due' = charge /\ bill' = bill + charge
    /\ UNCHANGED <<control, pc, client, process, threads, reported, said, history>>

\* model.model_call_success, with or without a charge.
Report ==
    /\ Writes("out") /\ due # None
    /\ \E costed \in BOOLEAN :
         reported' = [calls |-> reported.calls + 1,
                      costed |-> reported.costed + (IF costed THEN 1 ELSE 0),
                      charge |-> reported.charge + (IF costed THEN due ELSE 0)]
    /\ due' = None
    /\ UNCHANGED <<control, pc, client, process, threads, said, bill, history>>

Say ==
    /\ Writes("out") /\ ~ said
    /\ said' = TRUE
    /\ UNCHANGED <<control, pc, client, process, threads, reported, due, bill, history>>

\* A tool of the child starts a process that inherits some of its streams, in the
\* child's process group or in one of its own.
StartHelper ==
    /\ leader = "running" /\ helper = "none"
    /\ \E group \in {"group", "escaped"}, streams \in SUBSET {s \in Streams : "leader" \in holds[s]} :
         /\ helper' = group
         /\ holds' = [s \in Streams |-> IF s \in streams THEN holds[s] \cup {"helper"} ELSE holds[s]]
    /\ UNCHANGED <<control, pc, client, leader, code, threads, output, history>>

HelperEnds ==
    /\ helper \in {"group", "escaped"}
    /\ helper' = "gone" /\ holds' = [s \in Streams |-> holds[s] \ {"helper"}]
    /\ UNCHANGED <<control, pc, client, leader, code, threads, output, history>>

CloseStdout ==
    /\ Writes("out") /\ due = None
    /\ holds' = [holds EXCEPT !["out"] = @ \ {"leader"}]
    /\ UNCHANGED <<control, pc, client, leader, code, helper, threads, output, history>>

\* Exit 0 says that every model call was reported.
Exit ==
    /\ leader = "running"
    /\ leader' = "gone" /\ holds' = [s \in Streams |-> holds[s] \ {"leader"}]
    /\ code' \in {0, 1} /\ (code' = 0 => due = None)
    /\ UNCHANGED <<control, pc, client, helper, threads, output, history>>

Child == MakeModelCall \/ Report \/ Say \/ StartHelper \/ HelperEnds \/ CloseStdout \/ Exit

-----------------------------------------------------------------------------
(* The reader threads.                                                     *)

\* End of file, when nobody holds the write end.
ReaderEnds(s) ==
    /\ s \in reading /\ holds[s] = {}
    /\ reading' = reading \ {s}
    /\ UNCHANGED <<control, pc, client, process, fault, output, history>>

\* A line that cannot be decoded; after the teardown it does not count.
ReaderFails(s) ==
    /\ s \in reading
    /\ reading' = reading \ {s} /\ fault' = (fault \/ pc \in {"read", "wait"})
    /\ UNCHANGED <<control, pc, client, process, output, history>>

-----------------------------------------------------------------------------
(* RunBudget.                                                              *)

\* check: the reservations, with one more, and what was measured.
Admitted == Limit # None => budget.measured + (budget.reserved + PerCall) * Credit <= Limit * Credit

\* charge: the estimate is booked before the call starts.
Booked ==
    [reserved |-> budget.reserved + PerCall, measured |-> budget.measured, calls |-> budget.calls + 1,
     full |-> budget.full, partial |-> budget.partial, unknown |-> budget.unknown]

\* Mutant of Settled: a charge is banked as the whole cost of the call.
SettledInFull(charge, complete) ==
    [budget EXCEPT !.reserved = IF charge = None THEN @ ELSE @ - PerCall,
                   !.measured = IF charge = None THEN @ ELSE @ + charge,
                   !.full = IF charge = None THEN @ ELSE @ + 1,
                   !.unknown = IF charge = None THEN @ + 1 ELSE @]

\* settle: a known charge is banked; only a complete one frees the reservation.
Settled(charge, complete) ==
    LET full == charge # None /\ complete
    IN  [reserved |-> IF ~ full THEN budget.reserved
                      ELSE IF budget.reserved < PerCall THEN 0 ELSE budget.reserved - PerCall,
         measured |-> IF charge = None THEN budget.measured ELSE budget.measured + charge,
         calls |-> budget.calls,
         full |-> IF full THEN budget.full + 1 ELSE budget.full,
         partial |-> IF charge # None /\ ~ complete THEN budget.partial + 1 ELSE budget.partial,
         unknown |-> IF charge = None THEN budget.unknown + 1 ELSE budget.unknown]

-----------------------------------------------------------------------------
(* The client: run and _attempt.                                           *)

Return(how) == pc' = "idle" /\ result' = how

StartCall ==
    /\ pc = "idle" /\ budget.calls < MaxCalls
    /\ pc' = "check" /\ attempt' = 1 /\ result' = "none"
    /\ UNCHANGED <<control, error, budget, usage, reply, process, threads, output, history>>

Refuse ==
    /\ pc = "check" /\ Stopping
    /\ Return("stopped")
    /\ UNCHANGED <<control, attempt, error, budget, usage, reply, process, threads, output, history>>

Exhaust ==
    /\ pc = "check" /\ ~ Stopping /\ ~ Admitted
    /\ Return("exhausted")
    /\ UNCHANGED <<control, attempt, error, budget, usage, reply, process, threads, output, history>>

Admit ==
    /\ pc = "check" /\ ~ Stopping /\ Admitted
    /\ pc' = "charge"
    /\ UNCHANGED <<control, client, process, threads, output, history>>

Charge ==
    /\ pc = "charge"
    /\ budget' = Booked
    /\ pc' = "start"
    /\ late' = late + (IF requested THEN 1 ELSE 0)
    /\ UNCHANGED <<control, attempt, result, error, usage, reply, process, threads, output, billed>>

\* Mutant of FailToStart: a call that never ran is not settled.
FailUnsettled ==
    /\ pc = "start"
    /\ Return("error")
    /\ UNCHANGED <<control, attempt, error, budget, usage, reply, process, threads, output, history>>

FailToStart ==
    /\ pc = "start"
    /\ error' = "unstarted" /\ pc' = "settle"
    /\ UNCHANGED <<control, attempt, result, budget, usage, reply, process, threads, output, history>>

Start ==
    /\ pc = "start"
    /\ leader' = "running" /\ holds' = [s \in Streams |-> {"leader"}]
    /\ reading' = Streams
    /\ pc' = "read"
    /\ UNCHANGED <<control, client, code, helper, fault, output, history>>

-----------------------------------------------------------------------------
(* The client: the loop of _structured_call and _cleanup.                  *)

\* Lines are read until none is left, or some of them.
Read ==
    /\ pc = "read" /\ ~ interrupt
    /\ usage # reported \/ reply # said
    /\ usage' = reported /\ reply' = said
    /\ UNCHANGED <<control, pc, attempt, result, error, budget, process, threads, output, history>>

Interrupt ==
    /\ pc = "read" /\ interrupt
    /\ error' = "stopped" /\ pc' = "kill"
    /\ UNCHANGED <<control, attempt, result, budget, usage, reply, process, threads, output, history>>

\* Mutant of TimeOut: the deadline is looked at when a line arrives.
TimeOutOnLine ==
    /\ pc = "read" /\ usage # reported
    /\ error' = "timeout" /\ pc' = "kill"
    /\ UNCHANGED <<control, attempt, result, budget, usage, reply, process, threads, output, history>>

TimeOut ==
    /\ pc = "read"
    /\ error' = "timeout" /\ pc' = "kill"
    /\ UNCHANGED <<control, attempt, result, budget, usage, reply, process, threads, output, history>>

\* The stdout reader ended; if it failed, lines may be lost.
EndOfOutput ==
    /\ pc = "read" /\ "out" \notin reading
    /\ fault \/ (usage = reported /\ reply = said)
    /\ pc' = "wait"
    /\ UNCHANGED <<control, client, process, threads, output, history>>

Reap ==
    /\ pc = "wait" /\ leader = "gone"
    /\ error' = IF fault THEN "fault" ELSE "none"
    /\ pc' = "join"
    /\ UNCHANGED <<control, attempt, result, budget, usage, reply, process, threads, output, history>>

DoesNotExit ==
    /\ pc = "wait" /\ leader = "running"
    /\ error' = "timeout" /\ pc' = "kill"
    /\ UNCHANGED <<control, attempt, result, budget, usage, reply, process, threads, output, history>>

\* Readers that outlive the join: somebody in the group holds a stream.
StillReading ==
    /\ pc = "join" /\ reading # {}
    /\ pc' = "kill"
    /\ UNCHANGED <<control, client, process, threads, output, history>>

\* Mutant of Kill: the child is killed and not its group.
KillLeader ==
    /\ pc = "kill"
    /\ leader' = "gone" /\ holds' = [s \in Streams |-> holds[s] \ {"leader"}]
    /\ pc' = "rejoin"
    /\ UNCHANGED <<control, client, code, helper, threads, output, history>>

\* _terminate: SIGKILL to the group; a helper that left the group survives.
Kill ==
    /\ pc = "kill"
    /\ leader' = "gone"
    /\ helper' = IF helper = "group" THEN "gone" ELSE helper
    /\ holds' = [s \in Streams |-> IF helper = "group" THEN {} ELSE holds[s] \ {"leader"}]
    /\ pc' = "rejoin"
    /\ UNCHANGED <<control, client, code, threads, output, history>>

CloseStreams ==
    /\ pc \in {"join", "rejoin"} /\ reading = {}
    /\ pc' = "settle"
    /\ UNCHANGED <<control, client, process, threads, output, history>>

\* The readers did not stop: this exception replaces any other.
GiveUpReaders ==
    /\ pc = "rejoin" /\ reading # {}
    /\ error' = "readers" /\ pc' = "settle"
    /\ UNCHANGED <<control, attempt, result, budget, usage, reply, process, threads, output, history>>

-----------------------------------------------------------------------------
(* The client: settlement, and the retry of a blank reply.                 *)

Known == IF usage.costed = 0 THEN None ELSE usage.charge

\* cost_report: every model call reported its charge, and nothing cut the call short.
Complete == error = "none" /\ code = 0 /\ usage.calls > 0 /\ usage.costed = usage.calls

Outcome == IF error = "stopped" THEN "stopped" ELSE IF error # "none" \/ code # 0 THEN "error" ELSE "reply"

\* The invocation is over and its account closed; its process is forgotten.
CloseAccount ==
    /\ budget' = Settled(Known, Complete)
    /\ billed' = billed + bill /\ bill' = 0 /\ due' = None
    /\ reported' = Nothing /\ said' = FALSE /\ usage' = Nothing /\ reply' = FALSE
    /\ leader' = "none" /\ code' = 0 /\ helper' = "none" /\ holds' = [s \in Streams |-> {}]
    /\ reading' = {} /\ fault' = FALSE /\ error' = "none"
    /\ UNCHANGED <<control, late>>

Blank == Outcome = "reply" /\ ~ reply

\* Mutant of Settle: a blank reply is asked for again without a budget check.
SettleAndCharge ==
    /\ pc = "settle"
    /\ CloseAccount
    /\ IF Blank /\ attempt <= Retries THEN pc' = "charge" /\ attempt' = attempt + 1 /\ UNCHANGED result
       ELSE Return(IF Blank THEN "error" ELSE Outcome) /\ UNCHANGED attempt

Settle ==
    /\ pc = "settle"
    /\ CloseAccount
    /\ IF Blank /\ attempt <= Retries THEN pc' = "check" /\ attempt' = attempt + 1 /\ UNCHANGED result
       ELSE Return(IF Blank THEN "error" ELSE Outcome) /\ UNCHANGED attempt

-----------------------------------------------------------------------------
Client ==
    \/ Refuse \/ Exhaust \/ Admit \/ Charge \/ FailToStart \/ Start
    \/ Read \/ Interrupt \/ EndOfOutput \/ Reap \/ DoesNotExit
    \/ StillReading \/ Kill \/ CloseStreams \/ GiveUpReaders \/ Settle

Next ==
    \/ StartCall \/ Client \/ TimeOut
    \/ AskToStop \/ Child \/ \E s \in Streams : ReaderEnds(s) \/ ReaderFails(s)

\* The client runs and its clock does; child, helper, readers and user need not.
Spec == Init /\ [][Next]_vars /\ WF_vars(Client) /\ WF_vars(TimeOut)

-----------------------------------------------------------------------------
(* What must hold.                                                         *)

InFlight == pc \in {"start", "read", "wait", "kill", "join", "rejoin", "settle"}

Account == [calls : Nat, costed : Nat, charge : Nat]

ClientTypes ==
    /\ requested \in BOOLEAN /\ interrupt \in BOOLEAN
    /\ pc \in {"idle", "check", "charge", "start", "read", "wait", "kill", "join", "rejoin", "settle"}
    /\ attempt \in 0..Retries + 1
    /\ result \in {"none", "reply", "error", "stopped", "exhausted"}
    /\ error \in {"none", "unstarted", "stopped", "timeout", "fault", "readers"}
    /\ usage \in Account /\ reply \in BOOLEAN

ChildTypes ==
    /\ leader \in {"none", "running", "gone"} /\ code \in {0, 1}
    /\ helper \in {"none", "group", "escaped", "gone"}
    /\ holds \in [Streams -> SUBSET {"leader", "helper"}]
    /\ reading \subseteq Streams /\ fault \in BOOLEAN
    /\ reported \in Account /\ said \in BOOLEAN
    /\ due \in Nat \cup {None} /\ bill \in Nat /\ billed \in Nat /\ late \in Nat

Ledger == [reserved : Nat, measured : Nat, calls : Nat, full : Nat, partial : Nat, unknown : Nat]

Balance ==
    /\ budget \in Ledger
    /\ budget.calls = budget.full + budget.partial + budget.unknown + (IF InFlight THEN 1 ELSE 0)
    /\ budget.reserved = PerCall * (budget.calls - budget.full)

\* Types, and the books balance: every invocation is settled exactly once, and
\* a reservation is held for each one whose whole cost is not known.
TypeOK == ClientTypes /\ ChildTypes /\ Balance

\* An unknown cost is never rendered as free, nor a partial one as the whole
\* (budget.py:30): what was measured is at most what was billed, and equal to
\* it once every call counts as costed in full, whatever timeouts, interrupts,
\* failed readers and lagging reports cut short.
NothingFree ==
    /\ budget.measured <= billed
    /\ ~ InFlight /\ budget.full = budget.calls => budget.measured = billed

\* Under a limit, the calls of unknown or partial cost are bounded by what the
\* limit can reserve, blank replies and their retries included.
CallsBounded == Limit # None => PerCall * (budget.calls - budget.full) <= Limit

\* After the user asked to stop, at most the invocation that was just being
\* started starts: no retry of a blank reply and no further call.
StopHonoured == late <= 1

\* When a call is over its child is gone; when it was cut short, so is every
\* process of its group, so that nothing keeps changing the worktree.
NoneLeft ==
    pc = "settle" => leader # "running" /\ (error \in {"stopped", "timeout"} => helper # "group")

\* Every call ends, even if the child hangs, never exits, or leaves a process
\* that keeps its streams open for ever.
CallReturns == pc # "idle" ~> pc = "idle"
=============================================================================
