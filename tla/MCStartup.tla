----------------------------- MODULE MCStartup -----------------------------
(* Small instances of Startup with the command /disconnect-command. *)
EXTENDS Startup, TLC

\* Two attempts instead of ten.
OwnIdList == <<"own1", "own2">>
=============================================================================
