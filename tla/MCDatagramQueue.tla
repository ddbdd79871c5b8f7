----------------------------- MODULE MCDatagramQueue -----------------------------
(* DatagramQueue for TLC: the datagrams the application sends. *)
EXTENDS DatagramQueue

\* In a buffer of 3 the second does not fit beside the first, smaller ones do, and
\* the fourth fits alone, while the path carries it.
Sizes == <<2, 2, 1, 3, 1>>
=============================================================================
