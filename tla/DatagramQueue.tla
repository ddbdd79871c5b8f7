----------------------------- MODULE DatagramQueue -----------------------------
(***************************************************************************)
(* The application datagrams one connection sends: what send_datagram and  *)
(* send_datagram_wait hand to quinn's buffer at once, what waits in        *)
(* pending_datagrams, and how the loop of poll_connections transmits the   *)
(* buffer and flushes what waits when quinn reports space.                 *)
(*                                                                         *)
(* Datagrams are numbered in the order in which the application sends      *)
(* them; all that is known of one is its size.                             *)
(***************************************************************************)
EXTENDS Naturals, SequencesExt

CONSTANTS
    Size,        \* the size of each datagram the application has to send
    SendBuffer,  \* datagram_send_buffer_size
    MaxSizes,    \* what max_datagram_size may be, as the path's MTU varies
    Window       \* how many packets may be under way unacknowledged

ASSUME DatagramAssumption ==
    /\ Size \in Seq(Nat)
    /\ SendBuffer \in Nat
    /\ MaxSizes \subseteq Nat /\ MaxSizes # {}
    /\ Window \in Nat

Datagrams == 1..Len(Size)

VARIABLES
    \* ConnectionImpl
    pending_datagrams,
    blocked_transmit,  \* the datagram in the transmit that the socket refused
    should_poll,
    \* quinn's connection
    outgoing,          \* the buffer of datagrams to transmit
    send_blocked,      \* a datagram was refused for want of space
    unblocked,         \* Event::DatagramsUnblocked is there to be polled
    max_size,          \* max_datagram_size
    window,            \* how many packets may leave now
    closed,
    \* poll_connections
    pc,
    transmit_blocked,
    \* History
    accepted,          \* how many datagrams the application has sent
    wire,              \* the datagrams that left the socket
    fate,              \* why a datagram will never leave it
    mishaps            \* what happened that may harm the order or the progress

implVars == <<pending_datagrams, blocked_transmit, should_poll>>
quinnVars == <<outgoing, send_blocked, unblocked, max_size, window, closed>>
loopVars == <<pc, transmit_blocked>>
historyVars == <<accepted, wire, fate, mishaps>>
vars == <<implVars, quinnVars, loopVars, historyVars>>

\* "refused": the application was told so.  "evicted": send_datagram made space.
\* "oversized": the MTU fell below it.  "unsent": the socket failed with it.
Fates == {"none", "refused", "evicted", "oversized", "unsent"}

\* "overtaken": a datagram went past those that wait.
\* "skipped":   a flush sent a datagram, but not one before it.
\* "stranded":  the MTU fell, and took the last datagrams out of the buffer
\* "misfit":    a datagram larger than the whole buffer waits
Mishaps == {"overtaken", "skipped", "stranded", "misfit"}

\* Types, and: between two visits no event is left unpolled, and a transmit that
\* was refused has the connection polled again.
TypeOK ==
    /\ pending_datagrams \in Seq(Datagrams)
    /\ blocked_transmit \in Seq(Datagrams)
    /\ outgoing \in Seq(Datagrams)
    /\ wire \in Seq(Datagrams)
    /\ should_poll \in BOOLEAN /\ send_blocked \in BOOLEAN
    /\ unblocked \in BOOLEAN /\ closed \in BOOLEAN
    /\ transmit_blocked \in BOOLEAN
    /\ max_size \in MaxSizes
    /\ window \in 0..Window
    /\ pc \in {"application", "loop", "poll_transmit", "poll"}
    /\ accepted \in 0..Len(Size)
    /\ fate \in [Datagrams -> Fates]
    /\ mishaps \in SUBSET Mishaps
    /\ Len(blocked_transmit) <= 1
    /\ pc = "application" =>
         ~unblocked /\ (blocked_transmit # <<>> => should_poll)

Init ==
    /\ pending_datagrams = <<>> /\ blocked_transmit = <<>>
    /\ should_poll = TRUE
    /\ outgoing = <<>> /\ send_blocked = FALSE /\ unblocked = FALSE
    /\ max_size \in MaxSizes
    /\ window = Window
    /\ closed = FALSE
    /\ pc = "application" /\ transmit_blocked = FALSE
    /\ accepted = 0 /\ wire = <<>>
    /\ fate = [d \in Datagrams |-> "none"]
    /\ mishaps = {}

-----------------------------------------------------------------------------
(* quinn's buffer: external, as the code uses it *)

Bytes(queue) == FoldLeft(LAMBDA total, d : total + Size[d], 0, queue)

TooLarge(d) == Size[d] > max_size

\* Whether send(.., false) takes d after what is in the buffer already.
Fits(d, queue) == Bytes(queue) + Size[d] <= SendBuffer

\* What send(.., true) leaves of the buffer: the oldest go until it is no longer
\* over its size.
Kept(queue) ==
    LET over == {i \in DOMAIN queue :
                   Bytes(SubSeq(queue, i, Len(queue))) > SendBuffer}
    IN  SubSeq(queue, Cardinality(over) + 1, Len(queue))

\* Which of the first n datagrams of the queue go into packets of that size.
Fitting(queue, size) ==
    LET fitting[n \in 0..Len(queue)] ==
          IF n = 0 THEN <<>>
          ELSE IF Size[queue[n]] <= size THEN Append(fitting[n - 1], queue[n])
          ELSE fitting[n - 1]
    IN  fitting

\* These datagrams will never leave.
Lose(lost, why) ==
    fate' = [d \in Datagrams |-> IF d \in lost THEN why ELSE fate[d]]

Mishap(what) == mishaps' = mishaps \cup what

-----------------------------------------------------------------------------
(* The application.  An operator named Name_Slip is Name with a mistake that  *)
(* the properties must notice.                                               *)

Sending(d) ==
    /\ pc = "application"
    /\ d \in Datagrams /\ d = accepted + 1
    /\ accepted' = d
    /\ should_poll' = TRUE
    /\ UNCHANGED <<blocked_transmit, unblocked, max_size, window, closed,
                   loopVars, wire>>

\* TooLarge, from either of the two methods.
Refuse(d) ==
    /\ Sending(d)
    /\ TooLarge(d)
    /\ Lose({d}, "refused")
    /\ UNCHANGED <<pending_datagrams, outgoing, send_blocked, mishaps>>

\* "Previously queued datagrams which are still unsent may be discarded".
SendDatagram(d) ==
    /\ Sending(d)
    /\ ~TooLarge(d)
    /\ outgoing' = Append(Kept(outgoing), d)
    /\ Lose(Range(outgoing) \ Range(Kept(outgoing)), "evicted")
    /\ Mishap(IF pending_datagrams # <<>> THEN {"overtaken"} ELSE {})
    /\ UNCHANGED <<pending_datagrams, send_blocked>>

\* Puts what is blocked before what waits already.
SendDatagramWait_Slip(d) ==
    /\ Sending(d)
    /\ ~TooLarge(d)
    /\ IF Fits(d, outgoing)
       THEN /\ outgoing' = Append(outgoing, d)
            /\ Mishap(IF pending_datagrams # <<>> THEN {"overtaken"} ELSE {})
            /\ UNCHANGED <<pending_datagrams, send_blocked>>
       ELSE /\ pending_datagrams' = <<d>> \o pending_datagrams
            /\ send_blocked' = TRUE
            /\ Mishap(IF Size[d] > SendBuffer THEN {"misfit"} ELSE {})
            /\ UNCHANGED outgoing
    /\ UNCHANGED fate

\* quinn is tried first, whatever waits.
SendDatagramWait(d) ==
    /\ Sending(d)
    /\ ~TooLarge(d)
    /\ IF Fits(d, outgoing)
       THEN /\ outgoing' = Append(outgoing, d)
            /\ Mishap(IF pending_datagrams # <<>> THEN {"overtaken"} ELSE {})
            /\ UNCHANGED <<pending_datagrams, send_blocked>>
       ELSE /\ pending_datagrams' = Append(pending_datagrams, d)
            /\ send_blocked' = TRUE
            /\ Mishap(IF Size[d] > SendBuffer THEN {"misfit"} ELSE {})
            /\ UNCHANGED outgoing
    /\ UNCHANGED fate

\* read_datagram, and any other call that only asks for the connection to be
\* polled.
ReadDatagram ==
    /\ pc = "application"
    /\ should_poll' = TRUE
    /\ UNCHANGED <<pending_datagrams, blocked_transmit, quinnVars, loopVars,
                   historyVars>>

\* The application closes the connection.
Close ==
    /\ pc = "application"
    /\ closed' = TRUE
    /\ should_poll' = TRUE
    /\ UNCHANGED <<pending_datagrams, blocked_transmit, outgoing, send_blocked,
                   unblocked, max_size, window, loopVars, historyVars>>

-----------------------------------------------------------------------------
(* What arrives between two runs of poll_connections: handle_event *)

HandleEvent ==
    /\ pc = "application"
    /\ should_poll' = TRUE
    /\ UNCHANGED <<pending_datagrams, blocked_transmit, unblocked, closed,
                   loopVars, accepted, wire>>

\* A packet is acknowledged, or found lost: another may leave.
Acknowledge ==
    /\ HandleEvent
    /\ window < Window
    /\ window' = window + 1
    /\ UNCHANGED <<outgoing, send_blocked, max_size, fate, mishaps>>

\* The estimate of the path's MTU changes: quinn discards the datagrams that no
\* longer fit a packet, and reports no space for it.
ChangeMtu(size) ==
    LET fitting == Fitting(outgoing, size)[Len(outgoing)]
    IN  /\ HandleEvent
        /\ max_size' = size /\ size # max_size
        /\ outgoing' = fitting
        /\ Lose(Range(outgoing) \ Range(fitting), "oversized")
        /\ Mishap(IF fitting = <<>> /\ send_blocked THEN {"stranded"} ELSE {})
        /\ UNCHANGED <<send_blocked, window>>

-----------------------------------------------------------------------------
(* poll_connections, which has the connection to itself while it runs *)

BeginVisit ==
    /\ pc = "application"
    /\ pc' = "loop"
    /\ transmit_blocked' = FALSE
    /\ UNCHANGED <<implVars, quinnVars, historyVars>>

\* while connection.should_poll
PollAgain ==
    /\ pc = "loop" /\ should_poll
    /\ should_poll' = FALSE
    /\ pc' = "poll_transmit"
    /\ UNCHANGED <<pending_datagrams, blocked_transmit, transmit_blocked,
                   quinnVars, historyVars>>

\* Forgets the transmit that waits for the socket.
EndVisit_Slip ==
    /\ pc = "loop" /\ ~should_poll
    /\ pc' = "application"
    /\ UNCHANGED <<implVars, transmit_blocked, quinnVars, historyVars>>

\* "queue the connection to be polled again the next time this system runs"
EndVisit ==
    /\ pc = "loop" /\ ~should_poll
    /\ should_poll' = transmit_blocked
    /\ pc' = "application"
    /\ UNCHANGED <<pending_datagrams, blocked_transmit, transmit_blocked,
                   quinnVars, historyVars>>

\* #1: what poll_transmit returns next: the transmit that was refused, or one
\* that quinn builds of the buffer.
HasTransmit ==
    blocked_transmit # <<>> \/ (outgoing # <<>> /\ window > 0 /\ ~closed)

Transmitted == Head(blocked_transmit \o outgoing)

\* quinn notices the space that the datagrams of a new packet leave.
BuildTransmit ==
    IF blocked_transmit # <<>>
    THEN UNCHANGED <<outgoing, window, send_blocked, unblocked>>
    ELSE /\ outgoing' = Tail(outgoing)
         /\ window' = window - 1
         /\ unblocked' = (unblocked \/ send_blocked)
         /\ send_blocked' = FALSE

PollTransmit ==
    /\ pc = "poll_transmit"
    /\ HasTransmit
    /\ BuildTransmit
    /\ UNCHANGED <<pending_datagrams, max_size, accepted, mishaps>>

Transmit ==
    /\ PollTransmit
    /\ blocked_transmit' = <<>>
    /\ wire' = Append(wire, Transmitted)
    /\ UNCHANGED <<should_poll, closed, loopVars, fate>>

\* Loses the transmit.
TransmitBlocks_Slip ==
    /\ PollTransmit
    /\ ~closed
    /\ pc' = "poll"
    /\ transmit_blocked' = TRUE
    /\ UNCHANGED <<blocked_transmit, should_poll, closed, wire, fate>>

\* WouldBlock: the transmit is kept, and the loop goes on with the next step.
TransmitBlocks ==
    /\ PollTransmit
    /\ blocked_transmit' = <<Transmitted>>
    /\ pc' = "poll"
    /\ transmit_blocked' = TRUE
    /\ UNCHANGED <<should_poll, closed, wire, fate>>

\* Any other error closes the connection, and the transmit is gone.
TransmitFails ==
    /\ PollTransmit
    /\ blocked_transmit' = <<>>
    /\ closed' = TRUE
    /\ should_poll' = TRUE
    /\ Lose({Transmitted}, "unsent")
    /\ UNCHANGED <<loopVars, wire>>

EndTransmit ==
    /\ pc = "poll_transmit" /\ ~HasTransmit
    /\ pc' = "poll"
    /\ UNCHANGED <<implVars, quinnVars, transmit_blocked, historyVars>>

\* flush_pending_datagrams: retain, which tries every datagram that waits.
\* `kept` still wait, `sent` are in quinn's buffer after those that were there.
FlushOne(flushed, d) ==
    IF TooLarge(d)
    THEN flushed
    ELSE IF Fits(d, flushed.sent)
    THEN [kept |-> flushed.kept, sent |-> Append(flushed.sent, d)]
    ELSE [kept |-> Append(flushed.kept, d), sent |-> flushed.sent]

\* What it has done after the first n of them.
Flushing[n \in 0..Len(pending_datagrams)] ==
    IF n = 0 THEN [kept |-> <<>>, sent |-> outgoing]
    ELSE FlushOne(Flushing[n - 1], pending_datagrams[n])

Flushed == Flushing[Len(pending_datagrams)]

\* A datagram that still waits is older than one that was sent.
Skips(flushed) ==
    \E i, j \in DOMAIN pending_datagrams :
      /\ i < j
      /\ pending_datagrams[i] \in Range(flushed.kept)
      /\ pending_datagrams[j] \in Range(flushed.sent)

\* Takes the event for one of those poll_connections ignores.
Flush_Slip ==
    /\ pc = "poll" /\ unblocked
    /\ unblocked' = FALSE
    /\ UNCHANGED <<implVars, outgoing, send_blocked, max_size, window, closed,
                   loopVars, historyVars>>

\* #4: Event::DatagramsUnblocked.  A datagram that is still blocked has quinn
\* report space again; one that is too large by now is dropped without a word.
Flush ==
    /\ pc = "poll" /\ unblocked
    /\ unblocked' = FALSE
    /\ pending_datagrams' = Flushed.kept
    /\ outgoing' = Flushed.sent
    /\ send_blocked' = (send_blocked \/ Flushed.kept # <<>>)
    /\ Lose({d \in Range(pending_datagrams) : TooLarge(d)}, "oversized")
    /\ Mishap(IF Skips(Flushed) THEN {"skipped"} ELSE {})
    /\ should_poll' = TRUE
    /\ UNCHANGED <<blocked_transmit, max_size, window, closed, loopVars,
                   accepted, wire>>

\* Takes one event of a round only.
EndPoll_Slip ==
    /\ pc = "poll"
    /\ pc' = "loop"
    /\ UNCHANGED <<implVars, quinnVars, transmit_blocked, historyVars>>

EndPoll ==
    /\ pc = "poll" /\ ~unblocked
    /\ pc' = "loop"
    /\ UNCHANGED <<implVars, quinnVars, transmit_blocked, historyVars>>

-----------------------------------------------------------------------------

PollConnections ==
    \/ BeginVisit \/ PollAgain \/ EndVisit
    \/ Transmit \/ TransmitBlocks \/ TransmitFails \/ EndTransmit
    \/ Flush \/ EndPoll

Application ==
    \/ \E d \in Datagrams : Refuse(d) \/ SendDatagram(d) \/ SendDatagramWait(d)
    \/ ReadDatagram
    \/ Close

Next ==
    \/ Application
    \/ Acknowledge
    \/ \E size \in MaxSizes : ChangeMtu(size)
    \/ PollConnections

Spec == Init /\ [][Next]_vars

\* Frames go on, the peer acknowledges in the end, and the socket that would
\* block does not do so for ever.  The application and the path promise nothing.
FairSpec ==
    /\ Spec
    /\ WF_vars(PollConnections)
    /\ SF_vars(Transmit)
    /\ SF_vars(Acknowledge)

-----------------------------------------------------------------------------
(* Properties *)

Places == pending_datagrams \o outgoing \o blocked_transmit \o wire

\* Every datagram the application has sent is in exactly one place, waiting, in
\* quinn's buffer, in the transmit in hand or gone out, or it has met one of the
\* named fates: sends, flushes, refused transmits and changes of the MTU never
\* lose one otherwise, and never send one twice (connection.rs:562-579, 643-651,
\* 668-685).
EachIsSomewhereOnce ==
    \A d \in Datagrams :
      Cardinality({i \in DOMAIN Places : Places[i] = d}) =
        IF d <= accepted /\ fate[d] = "none" THEN 1 ELSE 0

Increasing(queue) == \A i, j \in DOMAIN queue : i < j => queue[i] < queue[j]

\* Datagrams leave in the order in which they were sent, "which effectively
\* prioritizes old datagrams over new datagrams" (connection.rs:318), unless one
\* was sent past those that wait or a flush skipped one.
OnlyOvertakingReorders ==
    mishaps \cap {"overtaken", "skipped"} = {} =>
      Increasing(wire \o blocked_transmit \o outgoing \o pending_datagrams)

\* "This method will wait for buffer space during congestion conditions"
\* (connection.rs:317), and no longer: what waits is flushed in the end, whatever
\* blocks meanwhile, unless the MTU emptied the buffer without a report, or it
\* is larger than the buffer.  Of datagrams whose number is bounded, that is: an
\* application that goes on for ever could send small ones past a large one, which
\* then waits as long as they keep the buffer full.
WaitingEnds ==
    \A d \in Datagrams :
      d \in Range(pending_datagrams) ~>
        \/ d \notin Range(pending_datagrams)
        \/ closed
        \/ mishaps \cap {"stranded", "misfit"} # {}

\* What is in quinn's buffer or in a refused transmit leaves in the end: every
\* path that puts something there has the connection polled again
\* (connection.rs:563, 568, 650, 883-885).
BufferDrains ==
    \A d \in Datagrams :
      d \in Range(outgoing \o blocked_transmit) ~>
        d \notin Range(outgoing \o blocked_transmit) \/ closed
=============================================================================
