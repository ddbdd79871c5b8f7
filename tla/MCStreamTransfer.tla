----------------------------- MODULE MCStreamTransfer -----------------------------
(* StreamTransfer for TLC: how many bytes each stream may carry. *)
EXTENDS StreamTransfer, TLC

CONSTANT s1

OneStream == (s1 :> 4)
=============================================================================
