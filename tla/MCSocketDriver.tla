----------------------------- MODULE MCSocketDriver -----------------------------
(* SocketDriver for TLC: the datagrams that arrive. *)
EXTENDS SocketDriver

\* Three that can be coalesced, of which the last is short, and an empty one.
Sizes == <<2, 2, 1, 0, 1>>
=============================================================================
