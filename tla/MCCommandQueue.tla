--------------------------- MODULE MCCommandQueue ---------------------------
(* Small instances of CommandQueue.  Two workers and a channel of two      *)
(* places: two commands that no worker has taken yet fill the channel, and *)
(* the two others wait behind them or are under way.                       *)
EXTENDS CommandQueue, TLC
=============================================================================
