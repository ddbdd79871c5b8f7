------------------------------- MODULE ByteStream -------------------------------
(***************************************************************************)
(* What one direction of a stream promises: the reader gets the bytes the  *)
(* writer was told are written, in order and without gaps; it is told that *)
(* the stream is finished when the writer has finished it and there is no  *)
(* more to read, and that it was reset only if it was.                     *)
(*                                                                         *)
(* A stream may be spoiled, and then nothing is promised any more: see     *)
(* StreamTransfer for what spoils it.                                      *)
(***************************************************************************)
EXTENDS Naturals, Sequences

CONSTANTS
    Streams,
    MaxBytes  \* bounds on the bytes written to each stream

VARIABLE
    stream  \* each stream's bytes, writer, and what the reader was told of its end

InOrderUpTo(n) == [i \in 1..n |-> i]

New == [written |-> 0, delivered |-> <<>>, writer |-> "open", told |-> {}]

Spoiled == [New EXCEPT !.writer = "spoiled"]

Init == stream = [s \in Streams |-> New]

Becomes(s, new) == stream' = [stream EXCEPT ![s] = new]

Intact(s) == stream[s] # Spoiled

Write(s) ==
    /\ stream[s].writer = "open"
    /\ \E n \in stream[s].written..MaxBytes[s] :
         Becomes(s, [stream[s] EXCEPT !.written = n])

Deliver(s) ==
    /\ Intact(s)
    /\ \E n \in Len(stream[s].delivered)..stream[s].written :
         Becomes(s, [stream[s] EXCEPT !.delivered = InOrderUpTo(n)])

\* How the writer's side may go on from each of its states.
Ends(writer) ==
    CASE writer = "open"     -> {"finished", "reset", "stopped"}
      [] writer = "stopped"  -> {"reset"}
      [] writer = "finished" -> {"abandoned"}
      [] OTHER               -> {}

End(s) ==
    \E how \in Ends(stream[s].writer) :
      Becomes(s, [stream[s] EXCEPT !.writer = how])

TellFinished(s) ==
    /\ stream[s].writer \in {"finished", "abandoned"}
    /\ Len(stream[s].delivered) = stream[s].written
    /\ Becomes(s, [stream[s] EXCEPT !.told = @ \cup {"finished"}])

TellReset(s) ==
    /\ stream[s].writer \in {"reset", "abandoned"}
    /\ Becomes(s, [stream[s] EXCEPT !.told = @ \cup {"reset"}])

\* The reader has stopped the stream, or has been told before.
TellClosed(s) ==
    /\ Intact(s)
    /\ Becomes(s, [stream[s] EXCEPT !.told = @ \cup {"closed"}])

Spoil(s) == Becomes(s, Spoiled)

Next ==
    \E s \in Streams :
      \/ Write(s) \/ Deliver(s) \/ End(s)
      \/ TellFinished(s) \/ TellReset(s) \/ TellClosed(s)
      \/ Spoil(s)

Spec == Init /\ [][Next]_stream
=============================================================================
