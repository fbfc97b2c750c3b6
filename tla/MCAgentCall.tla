---------------------------- MODULE MCAgentCall ----------------------------
(***************************************************************************)
(* Two calls, or one that is asked again once because its reply is blank,  *)
(* or both, under a limit that admits another invocation only if the one   *)
(* before was costed in full.                                              *)
(***************************************************************************)
EXTENDS AgentCall
=============================================================================
