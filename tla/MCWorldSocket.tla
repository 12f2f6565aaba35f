---- MODULE MCWorldSocket ----
(***************************************************************************)
(* One socket whose session two map workers use: the first sends a packet  *)
(* of one byte, the second one that is larger than a buffer.               *)
(***************************************************************************)
EXTENDS WorldSocket

CONSTANTS w1, w2, small, large

MCOutgoing == w1 :> {small} @@ w2 :> {large}

MCSize == small :> 1 @@ large :> 3 @@ Challenge :> 1 @@ Response :> 3 @@ Pong :> 2
=============================================================================
