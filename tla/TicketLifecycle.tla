-------------------------- MODULE TicketLifecycle --------------------------
(***************************************************************************)
(* What the pipeline promises of one ticket, with no agents, files or      *)
(* commits in sight: work is vetted or not, only vetted work lands, what   *)
(* lands is exactly what was vetted, and landing is final.                 *)
(***************************************************************************)
CONSTANTS Work, NoWork

VARIABLES
    status,  \* "open", "blocked" or "done"
    vetted,  \* the work verifier and test suite both passed, or NoWork
    landed   \* the work the run branch got from this ticket, or NoWork

vars == <<status, vetted, landed>>

Init == status = "open" /\ vetted = NoWork /\ landed = NoWork

\* A judgement is reached or, by a later hand-back, withdrawn.
Judge ==
    /\ status = "open"
    /\ vetted' \in Work \cup {NoWork}
    /\ UNCHANGED <<status, landed>>

Land ==
    /\ status = "open" /\ vetted # NoWork
    /\ status' = "done" /\ landed' = vetted
    /\ UNCHANGED vetted

Block == status = "open" /\ status' = "blocked" /\ UNCHANGED <<vetted, landed>>

Reopen == status = "blocked" /\ status' = "open" /\ UNCHANGED <<vetted, landed>>

Next == Judge \/ Land \/ Block \/ Reopen

Spec == Init /\ [][Next]_vars
=============================================================================
