------------------------- MODULE MCServerLifecycle -------------------------
(***************************************************************************)
(* ServerLifecycle for TLC: every request is served once, every clock is   *)
(* bounded by its timeout, so the instance is finite as it stands.         *)
(***************************************************************************)
EXTENDS ServerLifecycle
=============================================================================
