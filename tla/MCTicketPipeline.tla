-------------------------- MODULE MCTicketPipeline --------------------------
(***************************************************************************)
(* One ticket among meddlers: agents that stage, commit, reset or switch   *)
(* branches, a verifier and a gate that write, a hook that rewrites the    *)
(* commit, and a user at work between runs.                                *)
(***************************************************************************)
EXTENDS TicketPipeline

AllMeddling == {"user", "stage", "commit", "reset", "branch", "verifier", "gate", "hook"}
=============================================================================
