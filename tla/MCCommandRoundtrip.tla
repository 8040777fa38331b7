------------------------- MODULE MCCommandRoundtrip -------------------------
(* Small instances of CommandRoundtrip. *)
EXTENDS CommandRoundtrip, TLC
=============================================================================
