---------------------------- MODULE MCTicketAlone ----------------------------
(***************************************************************************)
(* One ticket whose agents and commands only edit files, and whose run is  *)
(* stopped, crashes and is resumed anywhere; tools drop uv.lock files.     *)
(***************************************************************************)
EXTENDS TicketPipeline
=============================================================================
