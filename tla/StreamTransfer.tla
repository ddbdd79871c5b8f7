----------------------------- MODULE StreamTransfer -----------------------------
(***************************************************************************)
(* One direction of a connection's streams, from the writer's SendStream   *)
(* to the reader's RecvStream: what the write methods put into quinn's     *)
(* stream at once, what they keep in the pending_streams buffer, how       *)
(* poll_connections flushes the buffer when quinn reports the stream       *)
(* writable, and what the read methods return and hide.                    *)
(*                                                                         *)
(* A stream's bytes are numbered in the order the writer's methods accept  *)
(* them.  A buffer is the sequence of its bytes: where one Bytes chunk     *)
(* ends and the next begins makes no difference to anything.               *)
(***************************************************************************)
EXTENDS Naturals, Sequences, Functions

CONSTANTS
    Streams,          \* ids of the streams the connection opens
    MaxBytes,         \* bounds on the bytes written to each stream
    InitialCredit,    \* what a stream may carry before the reader grants more
    InitialConnCredit \* what all streams together may carry, likewise

ASSUME TransferAssumption ==
    /\ MaxBytes \in [Streams -> Nat]
    /\ InitialCredit \in Nat
    /\ InitialConnCredit \in Nat

VARIABLES
    accepted,      \* bytes the writer was told are written or buffered
    write_buffer,  \* the stream's entry of pending_streams
    sending,       \* the writer's side of the stream
    sent,          \* the bytes in quinn's stream
    credit,        \* what the stream may still carry
    conn_credit,   \* what the connection's streams may still carry
    conn_blocked,  \* streams quinn will report writable on connection credit
    writable,      \* Writable events quinn has for poll_connections
    arrived,       \* how many bytes of `sent` quinn has in order at the reader
    ended,         \* what the reader's quinn knows of the stream's end
    reading,       \* the reader's side of the stream
    read,          \* the bytes the reader's methods returned
    told,          \* how the reader's methods said the stream ended
    granted,       \* bytes read since the last MAX_STREAM_DATA
    conn_granted,  \* bytes read since the last MAX_DATA
    mishaps        \* history: what happened that may harm the data

senderVars == <<accepted, write_buffer, sending>>
quinnVars == <<sent, credit, conn_credit, conn_blocked, writable>>
readerVars == <<arrived, ended, reading, read, told, granted, conn_granted>>
vars == <<senderVars, quinnVars, readerVars, mishaps>>

Bytes(s) == 1..MaxBytes[s]

\* "sliced":    write_all wrote a part of its data only
\* "overtaken": data was written while older data was still buffered
\* "stranded":  the connection's credit, not the stream's, cut a write short
\* "cut":       the stream was finished, reset or stopped with data buffered
\* "late":      data was buffered for a stream finished, reset or stopped before
\* "hidden":    a read that returned data also met the end of the stream
Mishaps == {"sliced", "overtaken", "stranded", "cut", "late", "hidden"}

TypeOK ==
    /\ accepted \in [Streams -> Nat]
    /\ write_buffer \in [Streams -> Seq(Nat)]
    /\ sending \in [Streams -> {"unopened", "open", "finished", "reset",
                                "abandoned", "stopped"}]
    /\ sent \in [Streams -> Seq(Nat)]
    /\ credit \in [Streams -> Nat]
    /\ conn_credit \in Nat
    /\ conn_blocked \in SUBSET Streams
    /\ writable \in SUBSET Streams
    /\ arrived \in [Streams -> Nat]
    /\ ended \in [Streams -> {"unknown", "finished", "reset"}]
    /\ reading \in [Streams -> {"open", "freed", "stopped"}]
    /\ read \in [Streams -> Seq(Nat)]
    /\ told \in [Streams -> SUBSET {"finished", "reset", "closed"}]
    /\ granted \in [Streams -> Nat]
    /\ conn_granted \in Nat
    /\ mishaps \in [Streams -> SUBSET Mishaps]

Init ==
    /\ accepted = [s \in Streams |-> 0]
    /\ write_buffer = [s \in Streams |-> <<>>]
    /\ sending = [s \in Streams |-> "unopened"]
    /\ sent = [s \in Streams |-> <<>>]
    /\ credit = [s \in Streams |-> InitialCredit]
    /\ conn_credit = InitialConnCredit
    /\ conn_blocked = {}
    /\ writable = {}
    /\ arrived = [s \in Streams |-> 0]
    /\ ended = [s \in Streams |-> "unknown"]
    /\ reading = [s \in Streams |-> "open"]
    /\ read = [s \in Streams |-> <<>>]
    /\ told = [s \in Streams |-> {}]
    /\ granted = [s \in Streams |-> 0]
    /\ conn_granted = 0
    /\ mishaps = [s \in Streams |-> {}]

-----------------------------------------------------------------------------
(* quinn's stream: external, as the code uses it *)

Least(m, n) == IF m < n THEN m ELSE n

\* How many of n bytes quinn takes.  0 is WriteError::Blocked.
Taken(s, n) == Least(n, Least(credit[s], conn_credit))

First(data, n) == SubSeq(data, 1, n)

From(data, i) == SubSeq(data, i, Len(data))

\* quinn's write: the stream takes a prefix of the data.  A write that finds no
\* connection credit at all is the only one quinn remembers as blocked by it.
QuinnWrite(s, data) ==
    LET n == Taken(s, Len(data))
    IN  /\ sent' = [sent EXCEPT ![s] = @ \o First(data, n)]
        /\ credit' = [credit EXCEPT ![s] = @ - n]
        /\ conn_credit' = conn_credit - n
        /\ conn_blocked' =
             IF conn_credit = 0 THEN conn_blocked \cup {s} ELSE conn_blocked

\* The mishaps of writing data to s while `waiting` is buffered.
WriteMishaps(s, data, waiting) ==
    LET n == Taken(s, Len(data))
    IN  (IF n > 0 /\ waiting # <<>> THEN {"overtaken"} ELSE {})
          \cup (IF 0 < n /\ n < Len(data) /\ conn_credit < credit[s]
                THEN {"stranded"} ELSE {})

Mishap(s, what) == mishaps' = [mishaps EXCEPT ![s] = @ \cup what]

-----------------------------------------------------------------------------
(* The writer: SendStream, from Connection::send_stream or open_uni *)

\* open_uni, open_bi, accept_bi: an empty buffer, never removed again.
Open(s) ==
    /\ sending[s] = "unopened"
    /\ sending' = [sending EXCEPT ![s] = "open"]
    /\ UNCHANGED <<accepted, write_buffer, quinnVars, readerVars, mishaps>>

\* The next n bytes the application has for s.
Data(s, n) == [i \in 1..n |-> accepted[s] + i]

\* send_stream hands out a SendStream for any stream that was ever opened.
\* quinn refuses one that is finished, reset or stopped, but looks at it only
\* after the connection: without connection credit the answer is Blocked.
Writing(s, n) ==
    /\ sending[s] # "unopened"
    /\ sending[s] = "open" \/ conn_credit = 0
    /\ accepted[s] + n \in Bytes(s)
    /\ UNCHANGED <<sending, writable, readerVars>>

\* write and write_chunks: the rest is the caller's to write again.
Write(s, n) ==
    /\ Writing(s, n)
    /\ QuinnWrite(s, Data(s, n))
    /\ accepted' = [accepted EXCEPT ![s] = @ + Taken(s, n)]
    /\ Mishap(s, WriteMishaps(s, First(Data(s, n), Taken(s, n)), write_buffer[s]))
    /\ UNCHANGED write_buffer

\* The mishap of buffering data for s.
Lateness(s) == IF sending[s] = "open" THEN {} ELSE {"late"}

\* What write_all keeps of data of which n bytes were written:
\* &data[remaining..], where remaining = data.len() - n.
Remainder(data, n) ==
    IF n = Len(data) THEN <<>> ELSE From(data, Len(data) - n + 1)

\* What write_chunks leaves of its chunks after taking n bytes of them.
Unsent(data, n) == From(data, n + 1)

WriteAll(s, n) ==
    /\ Writing(s, n)
    /\ QuinnWrite(s, Data(s, n))
    /\ accepted' = [accepted EXCEPT ![s] = @ + n]
    /\ write_buffer' = [write_buffer EXCEPT ![s] =
           @ \o IF Taken(s, n) = 0 THEN Data(s, n)
                ELSE Remainder(Data(s, n), Taken(s, n))]
    /\ Mishap(s, WriteMishaps(s, Data(s, n), write_buffer[s]) \cup Lateness(s)
                   \cup (IF Taken(s, n) \in 1..(n - 1) THEN {"sliced"} ELSE {}))

\* A slip: buffers only if nothing was written.
WriteAllChunks_Forgets(s, n) ==
    /\ Writing(s, n)
    /\ QuinnWrite(s, Data(s, n))
    /\ accepted' = [accepted EXCEPT ![s] = @ + n]
    /\ write_buffer' = [write_buffer EXCEPT ![s] =
           @ \o IF Taken(s, n) = 0 THEN Data(s, n) ELSE <<>>]
    /\ Mishap(s, WriteMishaps(s, Data(s, n), write_buffer[s]) \cup Lateness(s))

\* A slip: what could not be written goes before what is already buffered.
WriteAllChunks_Slip(s, n) ==
    /\ Writing(s, n)
    /\ QuinnWrite(s, Data(s, n))
    /\ accepted' = [accepted EXCEPT ![s] = @ + n]
    /\ write_buffer' = [write_buffer EXCEPT ![s] =
           Unsent(Data(s, n), Taken(s, n)) \o @]
    /\ Mishap(s, WriteMishaps(s, Data(s, n), <<>>) \cup Lateness(s))

\* write_all_chunks, and write_chunk of a single chunk: quinn advances the
\* chunks past what it takes, and the rest is buffered.
WriteAllChunks(s, n) ==
    /\ Writing(s, n)
    /\ QuinnWrite(s, Data(s, n))
    /\ accepted' = [accepted EXCEPT ![s] = @ + n]
    /\ write_buffer' = [write_buffer EXCEPT ![s] =
           @ \o Unsent(Data(s, n), Taken(s, n))]
    /\ Mishap(s, WriteMishaps(s, Data(s, n), write_buffer[s]) \cup Lateness(s))

\* finish and reset leave the buffer alone: what is in it can no longer be sent.
End(s, how) ==
    /\ sending' = [sending EXCEPT ![s] = how]
    /\ Mishap(s, IF write_buffer[s] # <<>> THEN {"cut"} ELSE {})
    /\ UNCHANGED <<accepted, write_buffer, quinnVars, readerVars>>

Finish(s) == sending[s] = "open" /\ End(s, "finished")

\* A reset after finish races the end it has already announced.
Reset(s) ==
    \/ sending[s] \in {"open", "stopped"} /\ End(s, "reset")
    \/ sending[s] = "finished" /\ End(s, "abandoned")

\* The reader's STOP_SENDING: writes fail from here on.
StopArrives(s) ==
    /\ reading[s] = "stopped"
    /\ sending[s] = "open"
    /\ End(s, "stopped")

-----------------------------------------------------------------------------
(* poll_connections: StreamEvent::Writable *)

\* A slip: one Writable event flushes one chunk.
Flush_Slip(s) ==
    /\ s \in writable
    /\ writable' = writable \ {s}
    /\ sending[s] = "open"
    /\ write_buffer[s] # <<>>
    /\ QuinnWrite(s, First(write_buffer[s], 1))
    /\ write_buffer' = [write_buffer EXCEPT ![s] = Unsent(@, Taken(s, 1))]
    /\ UNCHANGED <<accepted, sending, readerVars, mishaps>>

\* write_chunks of the buffer, of which only what was not taken is kept.
Flush(s) ==
    /\ s \in writable
    /\ writable' = writable \ {s}
    /\ IF sending[s] = "open"
       THEN /\ QuinnWrite(s, write_buffer[s])
            /\ write_buffer' = [write_buffer EXCEPT ![s] =
                   Unsent(@, Taken(s, Len(@)))]
            /\ Mishap(s, WriteMishaps(s, write_buffer[s], <<>>))
       ELSE UNCHANGED <<sent, credit, conn_credit, conn_blocked, write_buffer,
                        mishaps>>
    /\ UNCHANGED <<accepted, sending, readerVars>>

\* MAX_STREAM_DATA: a stream that had used all its credit becomes writable, or
\* waits for the connection's.
GrantStream(s) ==
    /\ granted[s] > 0
    /\ granted' = [granted EXCEPT ![s] = 0]
    /\ credit' = [credit EXCEPT ![s] = @ + granted[s]]
    /\ LET unblocked == credit[s] = 0 /\ sending[s] = "open"
       IN  /\ writable' = IF unblocked /\ conn_credit > 0
                          THEN writable \cup {s} ELSE writable
           /\ conn_blocked' = IF unblocked /\ conn_credit = 0
                              THEN conn_blocked \cup {s} ELSE conn_blocked
    /\ UNCHANGED <<senderVars, sent, conn_credit, arrived, ended, reading, read,
                   told, conn_granted, mishaps>>

\* MAX_DATA, and acknowledgements that free quinn's send window.
GrantConnection ==
    /\ conn_granted > 0
    /\ conn_granted' = 0
    /\ conn_credit' = conn_credit + conn_granted
    /\ UNCHANGED <<senderVars, sent, credit, conn_blocked, writable, arrived,
                   ended, reading, read, told, granted, mishaps>>

\* quinn's poll reports a stream the connection's credit had blocked.
UnblockStream(s) ==
    /\ s \in conn_blocked
    /\ conn_credit > 0
    /\ conn_blocked' = conn_blocked \ {s}
    /\ writable' = IF sending[s] = "open" /\ credit[s] > 0
                   THEN writable \cup {s} ELSE writable
    /\ UNCHANGED <<senderVars, sent, credit, conn_credit, readerVars, mishaps>>

-----------------------------------------------------------------------------
(* The network, and quinn at the reader *)

\* What arrives for a stopped stream is discarded and paid back at once.
Arrive(s) ==
    /\ arrived[s] < Len(sent[s])
    /\ ended[s] = "unknown"
    /\ arrived' = [arrived EXCEPT ![s] = @ + 1]
    /\ conn_granted' = IF reading[s] = "stopped" THEN conn_granted + 1
                                                 ELSE conn_granted
    /\ UNCHANGED <<senderVars, quinnVars, ended, reading, read, told, granted,
                   mishaps>>

FinArrives(s) ==
    /\ sending[s] \in {"finished", "abandoned"}
    /\ ended[s] = "unknown"
    /\ arrived[s] = Len(sent[s])
    /\ ended' = [ended EXCEPT ![s] = "finished"]
    /\ UNCHANGED <<senderVars, quinnVars, arrived, reading, read, told, granted,
                   conn_granted, mishaps>>

\* RESET_STREAM discards what the reader has not read, and pays it back to the
\* connection.
ResetArrives(s) ==
    /\ sending[s] \in {"reset", "abandoned"}
    /\ ended[s] = "unknown"
    /\ reading[s] = "open"
    /\ ended' = [ended EXCEPT ![s] = "reset"]
    /\ arrived' = [arrived EXCEPT ![s] = Len(read[s])]
    /\ conn_granted' = conn_granted + Len(sent[s]) - Len(read[s])
    /\ UNCHANGED <<senderVars, quinnVars, reading, read, told, granted, mishaps>>

-----------------------------------------------------------------------------
(* The reader: RecvStream *)

Available(s) == arrived[s] - Len(read[s])

\* A slip: a reset reads like a stream that is blocked.
AtEnd_Slip(s) == ended[s] = "finished" /\ Available(s) = 0

\* Everything has been read and quinn knows there is no more.
AtEnd(s) == ended[s] # "unknown" /\ Available(s) = 0

\* The reader gets n more bytes.
Got(s, n) ==
    /\ read' = [read EXCEPT ![s] = @ \o SubSeq(sent[s], Len(@) + 1, Len(@) + n)]
    /\ granted' = [granted EXCEPT ![s] = @ + n]
    /\ conn_granted' = conn_granted + n

\* quinn frees its stream when Chunks::next meets the end.
MeetEnd(s) == reading' = [reading EXCEPT ![s] = "freed"]

Tell(s, what) == told' = [told EXCEPT ![s] = @ \cup {what}]

\* read_chunk: one call of Chunks::next.
ReadChunk(s, n) ==
    /\ reading[s] = "open"
    /\ n \in 1..Available(s)
    /\ Got(s, n)
    /\ UNCHANGED <<senderVars, quinnVars, arrived, ended, reading, told, mishaps>>

\* A slip: the arm that returns Ok(None) stands before the one that breaks.
Read_Slip(s, n) ==
    /\ reading[s] = "open"
    /\ Available(s) > 0
    /\ IF n > Available(s) /\ ended[s] # "unknown"
       THEN /\ MeetEnd(s)
            /\ Tell(s, ended[s])
            /\ UNCHANGED <<read, granted, conn_granted>>
       ELSE Got(s, Least(n, Available(s))) /\ UNCHANGED <<reading, told>>
    /\ UNCHANGED <<senderVars, quinnVars, arrived, ended, mishaps>>

\* read and read_chunks: Chunks::next until n bytes are there or no more are.
\* "Successfully read some data, the error will propagate on the next read call"
Read(s, n) ==
    /\ reading[s] = "open"
    /\ Available(s) > 0
    /\ Got(s, Least(n, Available(s)))
    /\ IF n > Available(s) /\ ended[s] # "unknown"
       THEN MeetEnd(s) /\ Mishap(s, {"hidden"})
       ELSE UNCHANGED <<reading, mishaps>>
    /\ UNCHANGED <<senderVars, quinnVars, arrived, ended, told>>

\* A slip: the end of the stream reads as zero bytes, Ok(Some(0)).
ReadEnd_Slip(s) ==
    /\ reading[s] = "open"
    /\ AtEnd(s)
    /\ MeetEnd(s)
    /\ UNCHANGED <<senderVars, quinnVars, arrived, ended, read, told, granted,
                   conn_granted, mishaps>>

\* A slip: a stream that is blocked reads like one that has ended.
ReadEnd_Blocked(s) ==
    /\ reading[s] = "open"
    /\ Available(s) = 0
    /\ MeetEnd(s)
    /\ Tell(s, ended[s])
    /\ UNCHANGED <<senderVars, quinnVars, arrived, ended, read, granted,
                   conn_granted, mishaps>>

\* Any read that finds the end at once, Ok(None) or RecvError::Reset, and
\* received_reset.
ReadEnd(s) ==
    /\ reading[s] = "open"
    /\ AtEnd(s)
    /\ MeetEnd(s)
    /\ Tell(s, ended[s])
    /\ UNCHANGED <<senderVars, quinnVars, arrived, ended, read, granted,
                   conn_granted, mishaps>>

\* Any read of a stream quinn does not have any more: RecvError::ClosedStream.
ReadClosed(s) ==
    /\ reading[s] # "open"
    /\ Tell(s, "closed")
    /\ UNCHANGED <<senderVars, quinnVars, arrived, ended, reading, read, granted,
                   conn_granted, mishaps>>

Stop(s) ==
    /\ reading[s] = "open"
    /\ sending[s] # "unopened"
    /\ reading' = [reading EXCEPT ![s] = "stopped"]
    /\ conn_granted' = conn_granted + Available(s)
    /\ UNCHANGED <<senderVars, quinnVars, arrived, ended, read, told, granted,
                   mishaps>>

-----------------------------------------------------------------------------

Writer(s) ==
    \/ Open(s)
    \/ \E n \in Bytes(s) : Write(s, n) \/ WriteAll(s, n) \/ WriteAllChunks(s, n)
    \/ Finish(s)
    \/ Reset(s)

Reader(s) ==
    \/ \E n \in Bytes(s) : ReadChunk(s, n) \/ Read(s, n)
    \/ ReadEnd(s)
    \/ ReadClosed(s)
    \/ Stop(s)

Quinn(s) ==
    \/ GrantStream(s)
    \/ UnblockStream(s)
    \/ Arrive(s)
    \/ FinArrives(s)
    \/ ResetArrives(s)
    \/ StopArrives(s)

Next ==
    \/ \E s \in Streams : Writer(s) \/ Flush(s) \/ Quinn(s) \/ Reader(s)
    \/ GrantConnection

Spec == Init /\ [][Next]_vars

\* poll_connections runs every frame; the network delivers in the end, and the
\* reader reads what has arrived.  The writer need not do anything.
FairSpec ==
    /\ Spec
    /\ WF_vars(GrantConnection)
    /\ \A s \in Streams :
         /\ WF_vars(Flush(s))
         /\ WF_vars(Quinn(s))
         /\ WF_vars(ReadChunk(s, 1))
         /\ WF_vars(ReadEnd(s))
         /\ WF_vars(ReadClosed(s))

-----------------------------------------------------------------------------
(* Properties *)

\* The stream as the application sees it, while nothing has harmed the data.
Harmed(s) == mishaps[s] \cap {"sliced", "overtaken", "cut", "late"} # {}

Seen(s) ==
    [written   |-> accepted[s],
     delivered |-> read[s],
     writer    |-> IF sending[s] = "unopened" THEN "open" ELSE sending[s],
     told      |-> told[s]]

NothingToSee == [written |-> 0, delivered |-> <<>>, writer |-> "spoiled", told |-> {}]

Promise == INSTANCE ByteStream WITH
    stream <- [s \in Streams |-> IF Harmed(s) THEN NothingToSee ELSE Seen(s)]

\* A stream is a ByteStream, whatever credit, flushes, arrivals and the two ends
\* do, until a write_all is sliced, a write goes past the buffer, the stream ends
\* with data buffered or data is buffered after its end (streams.rs:27-100,
\* 244-345; connection.rs:546-553, 865-877).
IsByteStream == Promise!Spec

Kept(s) == sent[s] \o write_buffer[s]

InOrderUpTo(n) == [i \in 1..n |-> i]

\* Every byte the writer was told is written or buffered is in quinn's stream
\* or in the buffer, once: write_all's "Data that could not be written
\* immediately will be internally buffered instead".
NothingLostNorRepeated ==
    \A s \in Streams : /\ Len(Kept(s)) = accepted[s]
                       /\ Range(Kept(s)) = 1..accepted[s]

\* Only a write_all that is cut short may lose or repeat bytes; whatever the
\* order in which writes, grants and flushes happen, nothing else does.
OnlySlicesLose ==
    \A s \in Streams :
        "sliced" \notin mishaps[s] =>
            /\ Len(Kept(s)) = accepted[s]
            /\ Range(Kept(s)) = 1..accepted[s]

\* The stream carries the bytes in the order they were written, and the buffer
\* continues it, unless a write_all was sliced or a write went ahead of the
\* buffer.
OnlyOvertakingReorders ==
    \A s \in Streams :
        mishaps[s] \cap {"sliced", "overtaken"} = {} =>
            Kept(s) = InOrderUpTo(accepted[s])

\* A reader that is told the stream is finished has read all of what the writer
\* was told is written, in order, unless one of the mishaps befell it.
FinishedMeansAllRead ==
    \A s \in Streams :
        /\ "finished" \in told[s]
        /\ mishaps[s] \cap {"sliced", "overtaken", "cut", "late"} = {}
        => read[s] = InOrderUpTo(accepted[s])

EndTold(s) ==
    "closed" \in told[s] =>
        reading[s] = "stopped" \/ told[s] \cap {"finished", "reset"} # {}

\* A reader that did not stop the stream is told how it ended before it is told
\* that there is no such stream, unless a read that returned the last data met
\* the end: "the error will propagate on the next read call" (streams.rs:273,
\* 330) is not so, the next call finds the stream freed.
OnlyDataHidesTheEnd ==
    \A s \in Streams : "hidden" \notin mishaps[s] => EndTold(s)

\* Buffered data is sent in the end, if the stream stays open and the reader
\* keeps reading, unless the connection's credit cut a write short.
BufferIsFlushed ==
    \A s \in Streams :
        write_buffer[s] # <<>> ~>
            \/ write_buffer[s] = <<>>
            \/ sending[s] # "open"
            \/ reading[s] = "stopped"
            \/ "stranded" \in mishaps[s]

\* A stream that the writer ends is known to have ended to a reader that reads.
EndReachesReader ==
    \A s \in Streams :
        sending[s] \in {"finished", "reset"} ~> told[s] # {}
=============================================================================
