--------------------------- MODULE MCRunScheduler ---------------------------
(***************************************************************************)
(* SmallPlans, two tickets: independent ones, a chain, and a plan issue in *)
(* two phases with gates, as it is written or partly ticked.  GraphPlans,  *)
(* three tickets: a chain behind a ticket that is not there, a chain, a    *)
(* cycle, a join, and phases that leave a ticket waiting.                  *)
(***************************************************************************)
EXTENDS RunScheduler

Depends(on) == [t \in Ids |-> IF t \in DOMAIN on THEN on[t] ELSE {}]
Issue(on) == [deps |-> Depends(on), phase |-> [t \in Ids |-> 0], gates |-> {}, ticked |-> {}, passed |-> {}]
Phased(ticked, passed) ==
    [deps |-> Depends(<<>>), phase |-> [t \in Ids |-> IF t <= Planned THEN t ELSE 0],
     gates |-> {1, Final}, ticked |-> ticked, passed |-> passed]

SmallPlans == {Issue(<<>>), Issue(<<{}, {1}>>), Phased({}, {}), Phased({1}, {1})}
GraphPlans ==
    {Issue(<<{9}, {1}>>), Issue(<<{}, {1}, {2}>>), Issue(<<{}, {3}, {2}>>), Issue(<<{}, {}, {1, 2}>>),
     Phased({}, {})}
=============================================================================
