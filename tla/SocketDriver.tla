----------------------------- MODULE SocketDriver -----------------------------
(***************************************************************************)
(* UdpSocketRecvDriver, the task that reads an Endpoint's socket.  It      *)
(* waits until the socket is readable, locks quinn's endpoint, reads until *)
(* the socket would block, takes apart what the kernel has coalesced,      *)
(* gives each datagram to quinn and sends what quinn makes of it to the    *)
(* systems.  They lock the same mutex, drain the channel in PreUpdate, and *)
(* may drop the Endpoint, which the task only notices when it sends.       *)
(*                                                                         *)
(* Datagrams are numbered in the order in which they arrive; a message is  *)
(* the sequence of its bytes, each known by the datagram it belongs to.    *)
(***************************************************************************)
EXTENDS Naturals, Sequences, Functions

CONSTANTS
    Size,       \* the size of each datagram the network delivers
    Answered,   \* the datagrams quinn has an event for
    BatchSize,  \* quinn_udp::BATCH_SIZE
    Segments,   \* gro_segments
    MaxResets,  \* bound on the connection resets
    Error       \* an I/O error in the channel

Datagrams == 1..Len(Size)

ASSUME DriverAssumption ==
    /\ Size \in Seq(Nat)
    /\ Answered \subseteq {d \in Datagrams : Size[d] > 0}
    /\ BatchSize \in Nat \ {0}
    /\ Segments \in Nat \ {0}
    /\ MaxResets \in Nat
    /\ Error \notin Datagrams

VARIABLES
    \* The socket
    kernel,    \* messages to be read
    arrived,   \* how many datagrams have arrived
    resets,    \* how many times a peer's port was unreachable
    fault,     \* the error that the next read meets
    \* UdpSocketRecvDriver
    pc,
    batch,     \* the messages read, from what is left of the one in hand
    piece,     \* the datagram that quinn has made an event of
    \* What it shares with the systems
    locked,    \* who has the mutex of quinn's endpoint
    channel,
    endpoint,  \* whether the Endpoint, with the receiver, still exists
    failed,    \* poll_endpoints has met an error, and will remove the Endpoint
    \* History
    routed,    \* the datagrams quinn has made events of
    processed  \* what poll_endpoints has taken from the channel

socketVars == <<kernel, arrived, resets, fault>>
taskVars == <<pc, batch, piece>>
historyVars == <<routed, processed>>
vars == <<socketVars, taskVars, locked, channel, endpoint, failed, historyVars>>

Systems == {"poll_endpoints", "system"}

Messages == [data : Seq(Datagrams), stride : Nat]

\* Types, and: the task has the mutex from when it reads to when it waits again.
TypeOK ==
    /\ kernel \in Seq(Messages) /\ batch \in Seq(Messages)
    /\ arrived \in 0..Len(Size)
    /\ resets \in 0..MaxResets
    /\ fault \in {"none", "ConnectionReset", "other"}
    /\ pc \in {"poll_readable", "lock", "recv", "handle", "send", "ended"}
    /\ piece \in Seq(Datagrams)
    /\ locked \in {"nobody", "driver"} \cup Systems
    /\ channel \in Seq(Datagrams \cup {Error})
    /\ endpoint \in BOOLEAN /\ failed \in BOOLEAN
    /\ routed \in Seq(Datagrams)
    /\ processed \in Seq(Datagrams \cup {Error})
    /\ locked = "driver" <=> pc \in {"recv", "handle", "send"}
    /\ locked \in Systems => endpoint
    /\ batch # <<>> => pc \in {"handle", "send"}

Init ==
    /\ kernel = <<>> /\ arrived = 0 /\ resets = 0 /\ fault = "none"
    /\ pc = "poll_readable" /\ batch = <<>> /\ piece = <<>>
    /\ locked = "nobody" /\ channel = <<>> /\ endpoint = TRUE /\ failed = FALSE
    /\ routed = <<>> /\ processed = <<>>

-----------------------------------------------------------------------------
(* The kernel's side of the socket: external, as quinn_udp presents it *)

Arriving(d) ==
    /\ d \in Datagrams /\ d = arrived + 1
    /\ arrived' = d
    /\ UNCHANGED <<resets, fault, taskVars, locked, channel, endpoint, failed,
                   historyVars>>

BytesOf(d) == [i \in 1..Size[d] |-> d]

Arrive(d) ==
    /\ Arriving(d)
    /\ kernel' = Append(kernel, [data |-> BytesOf(d), stride |-> Size[d]])

\* GRO: datagrams of one size, of which the last may be smaller, are one message.
Coalesces(m, d) ==
    /\ Size[d] \in 1..m.stride
    /\ Size[m.data[Len(m.data)]] = m.stride
    /\ Len(m.data) < m.stride * Segments

ArriveCoalesced(d) ==
    /\ Arriving(d)
    /\ kernel # <<>>
    /\ Coalesces(kernel[Len(kernel)], d)
    /\ kernel' = [kernel EXCEPT ![Len(kernel)].data = @ \o BytesOf(d)]

Lost(d) == Arriving(d) /\ UNCHANGED kernel

Fault ==
    /\ fault = "none"
    /\ \/ fault' = "ConnectionReset" /\ resets < MaxResets /\ resets' = resets + 1
       \/ fault' = "other" /\ UNCHANGED resets
    /\ UNCHANGED <<kernel, arrived, taskVars, locked, channel, endpoint, failed,
                   historyVars>>

-----------------------------------------------------------------------------
(* UdpSocketRecvDriver::poll.  An operator named Name_Slip is Name with a     *)
(* mistake that the properties must notice.                                  *)

Driving(step) ==
    /\ pc = step
    /\ UNCHANGED <<arrived, resets, endpoint, failed, processed>>

\* sender.send(Err(e)): nobody is told if the receiver is gone.
TellError == channel' = IF endpoint THEN Append(channel, Error) ELSE channel

PollReadable ==
    /\ Driving("poll_readable")
    /\ kernel # <<>> \/ fault # "none"
    /\ pc' = "lock"
    /\ UNCHANGED <<kernel, fault, batch, piece, locked, channel, routed>>

\* An error of poll_readable ends the task; the mutex is not involved.
ReadableFails ==
    /\ Driving("poll_readable")
    /\ pc' = "ended"
    /\ TellError
    /\ UNCHANGED <<kernel, fault, batch, piece, locked, routed>>

Lock ==
    /\ Driving("lock")
    /\ locked = "nobody"
    /\ locked' = "driver"
    /\ pc' = "recv"
    /\ UNCHANGED <<kernel, fault, batch, piece, channel, routed>>

\* UdpSocket::receive reads as many messages as there are buffers for.
Recv ==
    /\ Driving("recv")
    /\ kernel # <<>>
    /\ LET n == IF BatchSize < Len(kernel) THEN BatchSize ELSE Len(kernel)
       IN  /\ batch' = SubSeq(kernel, 1, n)
           /\ kernel' = SubSeq(kernel, n + 1, Len(kernel))
    /\ pc' = "handle"
    /\ UNCHANGED <<fault, piece, locked, channel, routed>>

\* Keeps the mutex while it waits for the next datagram.
RecvWouldBlock_Slip ==
    /\ Driving("recv")
    /\ kernel = <<>> /\ fault = "none"
    /\ pc' = "poll_readable"
    /\ UNCHANGED <<kernel, fault, batch, piece, locked, channel, routed>>

\* "WouldBlock means there isn't any more data to read from the socket"
RecvWouldBlock ==
    /\ Driving("recv")
    /\ kernel = <<>> /\ fault = "none"
    /\ locked' = "nobody"
    /\ pc' = "poll_readable"
    /\ UNCHANGED <<kernel, fault, batch, piece, channel, routed>>

\* Ends like any other error, and tells nobody.
RecvReset_Slip ==
    /\ Driving("recv")
    /\ fault = "ConnectionReset"
    /\ fault' = "none"
    /\ locked' = "nobody"
    /\ pc' = "ended"
    /\ UNCHANGED <<kernel, batch, piece, channel, routed>>

\* "Ignore ECONNRESET as it's undefined in QUIC"
RecvReset ==
    /\ Driving("recv")
    /\ fault = "ConnectionReset"
    /\ fault' = "none"
    /\ UNCHANGED <<pc, kernel, batch, piece, locked, channel, routed>>

\* Tells the error and goes on.
RecvFails_Slip ==
    /\ Driving("recv")
    /\ fault = "other"
    /\ fault' = "none"
    /\ TellError
    /\ UNCHANGED <<pc, kernel, batch, piece, locked, routed>>

RecvFails ==
    /\ Driving("recv")
    /\ fault = "other"
    /\ fault' = "none"
    /\ locked' = "nobody"
    /\ pc' = "ended"
    /\ TellError
    /\ UNCHANGED <<kernel, batch, piece, routed>>

\* Gives quinn the message as it was read.
FirstPiece_Slip(m) == m.data

\* data.split_to(meta.stride.min(data.len()))
FirstPiece(m) ==
    SubSeq(m.data, 1, IF m.stride < Len(m.data) THEN m.stride ELSE Len(m.data))

WithoutPiece(m) ==
    [m EXCEPT !.data = SubSeq(@, Len(FirstPiece(m)) + 1, Len(@))]

\* Splits the next datagram off, and has quinn handle it.
Split(yields) ==
    /\ Driving("handle")
    /\ batch # <<>> /\ Head(batch).data # <<>>
    /\ (FirstPiece(Head(batch))[1] \in Answered) = yields
    /\ batch' = <<WithoutPiece(Head(batch))>> \o Tail(batch)
    /\ UNCHANGED <<kernel, fault, channel>>

\* Lets go of the mutex before the event is sent.
Handle_Slip ==
    /\ Split(TRUE)
    /\ piece' = FirstPiece(Head(batch))
    /\ routed' = Append(routed, FirstPiece(Head(batch))[1])
    /\ locked' = "nobody"
    /\ pc' = "send"

\* quinn routes the datagram: there is an event to be sent.
Handle ==
    /\ Split(TRUE)
    /\ piece' = FirstPiece(Head(batch))
    /\ routed' = Append(routed, FirstPiece(Head(batch))[1])
    /\ pc' = "send"
    /\ UNCHANGED locked

HandleInVain ==
    /\ Split(FALSE)
    /\ UNCHANGED <<pc, piece, locked, routed>>

\* The message is used up, or was empty from the start.
NextMessage ==
    /\ Driving("handle")
    /\ batch # <<>> /\ Head(batch).data = <<>>
    /\ batch' = Tail(batch)
    /\ UNCHANGED <<pc, kernel, fault, piece, locked, channel, routed>>

EndBatch ==
    /\ Driving("handle")
    /\ batch = <<>>
    /\ pc' = "recv"
    /\ UNCHANGED <<kernel, fault, batch, piece, locked, channel, routed>>

Send ==
    /\ Driving("send")
    /\ endpoint
    /\ channel' = Append(channel, piece[1])
    /\ piece' = <<>>
    /\ pc' = "handle"
    /\ UNCHANGED <<kernel, fault, batch, locked, routed>>

\* Drops the result of sending.
SendFails_Slip ==
    /\ Driving("send")
    /\ ~endpoint
    /\ piece' = <<>>
    /\ pc' = "handle"
    /\ UNCHANGED <<kernel, fault, batch, locked, channel, routed>>

\* "Channel disconnected == endpoint dropped, kill the driver"
SendFails ==
    /\ Driving("send")
    /\ ~endpoint
    /\ piece' = <<>> /\ batch' = <<>>
    /\ locked' = "nobody"
    /\ pc' = "ended"
    /\ UNCHANGED <<kernel, fault, channel, routed>>

-----------------------------------------------------------------------------
(* The systems: poll_endpoints, and those that lock quinn's endpoint only to  *)
(* connect, respond or pass on an event                                      *)

LockEndpoint(s) ==
    /\ endpoint
    /\ locked = "nobody"
    /\ locked' = s
    /\ UNCHANGED <<socketVars, taskVars, channel, endpoint, failed, historyVars>>

\* receiver.try_iter()
TakeEvent ==
    /\ locked = "poll_endpoints"
    /\ channel # <<>>
    /\ channel' = Tail(channel)
    /\ processed' = Append(processed, Head(channel))
    /\ failed' = (failed \/ Head(channel) = Error)
    /\ UNCHANGED <<socketVars, taskVars, locked, endpoint, routed>>

UnlockEndpoint ==
    /\ locked \in Systems
    /\ locked = "poll_endpoints" => channel = <<>>
    /\ locked' = "nobody"
    /\ UNCHANGED <<socketVars, taskVars, channel, endpoint, failed, historyVars>>

\* The application removes the Endpoint, or the command of poll_endpoints does.
DropEndpoint ==
    /\ endpoint
    /\ locked \notin Systems
    /\ endpoint' = FALSE
    /\ channel' = <<>>
    /\ UNCHANGED <<socketVars, taskVars, locked, failed, historyVars>>

-----------------------------------------------------------------------------

Network ==
    \/ \E d \in Datagrams : Arrive(d) \/ ArriveCoalesced(d) \/ Lost(d)
    \/ Fault

Driver ==
    \/ PollReadable \/ Lock
    \/ Recv \/ RecvWouldBlock \/ RecvReset \/ RecvFails
    \/ Handle \/ HandleInVain \/ NextMessage \/ EndBatch
    \/ Send \/ SendFails

Next ==
    \/ Network
    \/ Driver \/ ReadableFails
    \/ \E s \in Systems : LockEndpoint(s)
    \/ TakeEvent \/ UnlockEndpoint \/ DropEndpoint

Spec == Init /\ [][Next]_vars

\* The executor runs a task that was woken, frames go on, and the mutex is free
\* again and again for who waits for it.  The network delivers what it likes, and
\* the application need not drop the Endpoint.
FairSpec ==
    /\ Spec
    /\ WF_vars(Driver)
    /\ SF_vars(Lock)
    /\ SF_vars(LockEndpoint("poll_endpoints"))
    /\ WF_vars(TakeEvent)
    /\ WF_vars(UnlockEndpoint)
    /\ WF_vars(failed /\ DropEndpoint)

-----------------------------------------------------------------------------
(* Properties *)

\* What quinn is given, and makes an event of, is a whole datagram as it was
\* sent, whatever the kernel has coalesced (socket.rs:71-75).
PiecesAreWhole ==
    pc = "send" => piece = BytesOf(piece[1])

\* Whichever system has locked quinn's endpoint, all the events that quinn has
\* made are in the channel or taken from it, in the order in which it made them,
\* and an error comes after the last of them: no system acts on a state of quinn's
\* that is ahead of the channel (socket.rs:146-166, endpoint.rs:438-440).
ChannelIsCaughtUp ==
    locked \in Systems =>
      processed \o channel =
        IF pc = "ended" THEN Append(routed, Error) ELSE routed

\* The promise of ReceiveChannel to the systems: an event is in its queue from
\* when quinn has made it.
Channel == INSTANCE ReceiveChannel WITH
    Events <- Answered,
    queue <- IF pc = "send" /\ endpoint THEN Append(channel, piece[1]) ELSE channel,
    running <- pc # "ended",
    open <- endpoint,
    holder <- IF locked = "poll_endpoints" THEN "draining"
              ELSE IF locked = "system" THEN "other" ELSE "none"

\* The task keeps the promise of ReceiveChannel (socket.rs:134-175).
KeepsChannelPromise == Channel!Spec

Waiting(d) == \E i \in DOMAIN kernel : d \in Range(kernel[i].data)

\* A datagram that has arrived and means something to quinn is processed by
\* poll_endpoints, unless the error that ends the task is, or the Endpoint goes;
\* a peer's reset ends nothing (socket.rs:78-85, 136-144).
ArrivalsAreProcessed ==
    \A d \in Answered :
      Waiting(d) ~> d \in Range(processed) \/ Error \in Range(processed) \/ ~endpoint

\* The task of a dropped Endpoint ends, and the socket is closed with it, when a
\* datagram arrives that means something to quinn (socket.rs:164-174).
DroppedTaskEnds ==
    (~endpoint /\ \E d \in Answered : Waiting(d)) ~> pc = "ended"
=============================================================================
