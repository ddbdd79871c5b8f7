-------------------------- MODULE SocketDriver_proofs --------------------------
(***************************************************************************)
(* Proofs about SocketDriver, for every traffic, batch size and number of  *)
(* segments: the task and the systems respect the mutex, and the task      *)
(* keeps the promise of ReceiveChannel, which EndpointRouting relies on.   *)
(* The channel has caught up with quinn whenever a system looks, and quinn *)
(* is given whole datagrams, however the kernel has coalesced them.        *)
(***************************************************************************)
EXTENDS SocketDriver, SequenceTheorems, TLAPS

-----------------------------------------------------------------------------
(* Types and the mutex *)

\* What is about to be sent is an event of quinn's.
PieceIsAnswered == pc = "send" => piece[1] \in Answered

LEMMA AppendIs ==
  ASSUME NEW S, NEW q \in Seq(S), NEW x \in S
  PROVE  Append(q, x) \in Seq(S)
  BY AppendProperties

\* The elements of s are those of q and then those of r.
Joins(s, q, r) ==
    /\ Len(s) = Len(q) + Len(r)
    /\ \A i \in 1..Len(q) : s[i] = q[i]
    /\ \A i \in 1..Len(r) : s[Len(q) + i] = r[i]

LEMMA ConcatJoins ==
  ASSUME NEW S, NEW q \in Seq(S), NEW r \in Seq(S)
  PROVE  q \o r \in Seq(S) /\ Joins(q \o r, q, r)
<1> DEFINE s == q \o r
<1>1. s \in Seq(S) /\ Len(s) = Len(q) + Len(r)
  BY ConcatProperties
<1>2. \A i \in 1..Len(q) : s[i] = q[i]
  BY ConcatProperties
<1>3. \A i \in 1..Len(r) : s[Len(q) + i] = r[i]
  OBVIOUS
<1> QED
  BY <1>1, <1>2, <1>3 DEF Joins

LEMMA TailIs ==
  ASSUME NEW S, NEW q \in Seq(S), q # <<>>
  PROVE  Tail(q) \in Seq(S) /\ Head(q) \in S
  BY HeadTailProperties

LEMMA PieceIs ==
  ASSUME NEW m \in Messages
  PROVE  FirstPiece(m) \in Seq(Datagrams) /\ WithoutPiece(m) \in Messages
<1>1. m.data \in Seq(Datagrams) /\ m.stride \in Nat /\ Len(m.data) \in Nat
  BY LenProperties DEF Messages
<1> DEFINE n == IF m.stride < Len(m.data) THEN m.stride ELSE Len(m.data)
<1>2. n \in 0..Len(m.data)
  BY <1>1
<1>3. \A i \in 1..Len(m.data) : m.data[i] \in Datagrams
  BY <1>1, ElementOfSeq
<1>4. FirstPiece(m) = SubSeq(m.data, 1, n)
  BY DEF FirstPiece
<1> HIDE DEF n
<1>5. SubSeq(m.data, 1, n) \in Seq(Datagrams) /\ Len(SubSeq(m.data, 1, n)) = n
  BY <1>1, <1>2, <1>3, SubSeqProperties
<1>6. SubSeq(m.data, n + 1, Len(m.data)) \in Seq(Datagrams)
  BY <1>1, <1>2, <1>3, SubSeqProperties
<1>7. WithoutPiece(m) = [m EXCEPT !.data = SubSeq(m.data, n + 1, Len(m.data))]
  BY <1>4, <1>5 DEF WithoutPiece
<1> QED
  BY <1>4, <1>5, <1>6, <1>7 DEF Messages

LEMMA BytesAre ==
  ASSUME NEW d \in Datagrams
  PROVE  BytesOf(d) \in Seq(Datagrams) /\ Size[d] \in Nat
<1>1. Size[d] \in Nat
  BY DriverAssumption, ElementOfSeq DEF Datagrams
<1> QED
  BY <1>1 DEF BytesOf

LEMMA InitType == Init => TypeOK /\ PieceIsAnswered
<1> SUFFICES ASSUME Init PROVE TypeOK /\ PieceIsAnswered
  OBVIOUS
<1>1. <<>> \in Seq(Messages) /\ <<>> \in Seq(Datagrams)
      /\ <<>> \in Seq(Datagrams \cup {Error})
  BY EmptySeq
<1>2. 0 \in 0..Len(Size) /\ 0 \in 0..MaxResets
  BY DriverAssumption, LenProperties
<1> QED
  BY <1>1, <1>2 DEF Init, TypeOK, PieceIsAnswered, Systems

LEMMA NetworkType ==
  ASSUME TypeOK, PieceIsAnswered, Network
  PROVE  TypeOK' /\ PieceIsAnswered'
<1> USE DEF TypeOK, PieceIsAnswered
<1>1. ASSUME NEW d \in Datagrams, Arriving(d), kernel' \in Seq(Messages)
      PROVE  TypeOK' /\ PieceIsAnswered'
  <2>1. arrived' \in 0..Len(Size)
    BY <1>1 DEF Arriving, Datagrams
  <2> QED
    BY <1>1, <2>1 DEF Arriving, taskVars, historyVars
<1>2. ASSUME NEW d \in Datagrams, Arrive(d) PROVE TypeOK' /\ PieceIsAnswered'
  <2>1. [data |-> BytesOf(d), stride |-> Size[d]] \in Messages
    BY BytesAre DEF Messages
  <2>2. kernel' \in Seq(Messages)
    BY <1>2, <2>1, AppendIs DEF Arrive
  <2> QED
    BY <1>1, <1>2, <2>2 DEF Arrive
<1>3. ASSUME NEW d \in Datagrams, ArriveCoalesced(d)
      PROVE  TypeOK' /\ PieceIsAnswered'
  <2> DEFINE m == kernel[Len(kernel)]
  <2>1. kernel \in Seq(Messages) /\ kernel # <<>>
    BY <1>3 DEF ArriveCoalesced
  <2>2. Len(kernel) \in Nat \ {0} /\ Len(kernel) \in 1..Len(kernel)
    BY <2>1, EmptySeq, LenProperties
  <2>3. m \in Messages
    BY <2>1, <2>2, ElementOfSeq
  <2>4. m.data \o BytesOf(d) \in Seq(Datagrams)
    BY <2>3, BytesAre, ConcatProperties DEF Messages
  <2>5. [m EXCEPT !.data = m.data \o BytesOf(d)] \in Messages
    BY <2>3, <2>4 DEF Messages
  <2>6. kernel' = [kernel EXCEPT ![Len(kernel)] =
                     [m EXCEPT !.data = m.data \o BytesOf(d)]]
    BY <1>3 DEF ArriveCoalesced
  <2> HIDE DEF m
  <2>7. kernel' \in Seq(Messages)
    BY <2>1, <2>2, <2>5, <2>6, ExceptSeq
  <2> QED
    BY <1>1, <1>3, <2>7 DEF ArriveCoalesced
<1>4. ASSUME NEW d \in Datagrams, Lost(d) PROVE TypeOK' /\ PieceIsAnswered'
  BY <1>1, <1>4 DEF Lost
<1>5. CASE Fault
  <2>1. resets' \in 0..MaxResets /\ fault' \in {"none", "ConnectionReset", "other"}
    BY <1>5, DriverAssumption DEF Fault
  <2> QED
    BY <1>5, <2>1 DEF Fault, taskVars, historyVars
<1> QED
  BY <1>2, <1>3, <1>4, <1>5 DEF Network

LEMMA RecvType ==
  ASSUME TypeOK, Recv
  PROVE  batch' \in Seq(Messages) /\ kernel' \in Seq(Messages)
<1> DEFINE n == IF BatchSize < Len(kernel) THEN BatchSize ELSE Len(kernel)
<1>1. kernel \in Seq(Messages) /\ Len(kernel) \in Nat
  BY LenProperties DEF TypeOK
<1>2. \A i \in 1..Len(kernel) : kernel[i] \in Messages
  BY <1>1, ElementOfSeq
<1>3. n \in 0..Len(kernel)
  BY <1>1, DriverAssumption
<1>4. batch' = SubSeq(kernel, 1, n) /\ kernel' = SubSeq(kernel, n + 1, Len(kernel))
  BY DEF Recv
<1> HIDE DEF n
<1>5. SubSeq(kernel, 1, n) \in Seq(Messages)
  BY <1>1, <1>2, <1>3, SubSeqProperties
<1>6. SubSeq(kernel, n + 1, Len(kernel)) \in Seq(Messages)
  BY <1>1, <1>2, <1>3, SubSeqProperties
<1> QED
  BY <1>4, <1>5, <1>6

LEMMA SplitType ==
  ASSUME TypeOK, NEW yields \in BOOLEAN, Split(yields)
  PROVE  /\ batch' \in Seq(Messages)
         /\ FirstPiece(Head(batch)) \in Seq(Datagrams)
         /\ Len(FirstPiece(Head(batch))) \in Nat
<1>1. batch \in Seq(Messages) /\ batch # <<>>
      /\ batch' = <<WithoutPiece(Head(batch))>> \o Tail(batch)
  BY DEF TypeOK, Split
<1>2. Head(batch) \in Messages /\ Tail(batch) \in Seq(Messages)
  BY <1>1, TailIs
<1>3. FirstPiece(Head(batch)) \in Seq(Datagrams)
      /\ WithoutPiece(Head(batch)) \in Messages
  BY <1>2, PieceIs
<1>4. <<WithoutPiece(Head(batch))>> \in Seq(Messages)
  BY <1>3
<1>5. <<WithoutPiece(Head(batch))>> \o Tail(batch) \in Seq(Messages)
  BY <1>2, <1>4, ConcatProperties
<1> QED
  BY <1>1, <1>3, <1>5, LenProperties

LEMMA TellsType ==
  ASSUME TypeOK, TellError
  PROVE  channel' \in Seq(Datagrams \cup {Error})
<1>1. channel \in Seq(Datagrams \cup {Error})
  BY DEF TypeOK
<1>2. Append(channel, Error) \in Seq(Datagrams \cup {Error})
  BY <1>1, AppendIs
<1> QED
  BY <1>1, <1>2 DEF TellError

\* The steps of the task that leave its messages and quinn's events alone.
LEMMA PlainDriverType ==
  ASSUME TypeOK, PieceIsAnswered,
         PollReadable \/ ReadableFails \/ Lock \/ RecvWouldBlock \/ RecvReset
           \/ RecvFails \/ EndBatch
  PROVE  TypeOK' /\ PieceIsAnswered'
<1> USE DEF Driving, Systems
<1>1. TypeOK /\ PieceIsAnswered
  OBVIOUS
<1>2. CASE PollReadable
  BY <1>1, <1>2 DEF PollReadable, TypeOK, PieceIsAnswered
<1>3. CASE ReadableFails
  <2>1. channel' \in Seq(Datagrams \cup {Error})
    BY <1>3, TellsType DEF ReadableFails
  <2> QED
    BY <1>1, <1>3, <2>1 DEF ReadableFails, TypeOK, PieceIsAnswered
<1>4. CASE Lock
  BY <1>1, <1>4 DEF Lock, TypeOK, PieceIsAnswered
<1>5. CASE RecvWouldBlock
  BY <1>1, <1>5 DEF RecvWouldBlock, TypeOK, PieceIsAnswered
<1>6. CASE RecvReset
  BY <1>1, <1>6 DEF RecvReset, TypeOK, PieceIsAnswered
<1>7. CASE RecvFails
  <2>1. channel' \in Seq(Datagrams \cup {Error})
    BY <1>7, TellsType DEF RecvFails
  <2> QED
    BY <1>1, <1>7, <2>1 DEF RecvFails, TypeOK, PieceIsAnswered
<1>8. CASE EndBatch
  BY <1>1, <1>8 DEF EndBatch, TypeOK, PieceIsAnswered
<1> QED
  BY <1>2, <1>3, <1>4, <1>5, <1>6, <1>7, <1>8

LEMMA MessageDriverType ==
  ASSUME TypeOK, PieceIsAnswered,
         Recv \/ Handle \/ HandleInVain \/ NextMessage \/ Send \/ SendFails
  PROVE  TypeOK' /\ PieceIsAnswered'
<1> USE DEF Driving, Systems
<1>1. TypeOK /\ PieceIsAnswered
  OBVIOUS
<1>2. Answered \subseteq Datagrams
  BY DriverAssumption
<1>3. CASE Recv
  <2>1. batch' \in Seq(Messages) /\ kernel' \in Seq(Messages)
    BY <1>3, RecvType
  <2> QED
    BY <1>1, <1>3, <2>1 DEF Recv, TypeOK, PieceIsAnswered
<1>4. CASE Handle
  <2>1. Split(TRUE)
    BY <1>4 DEF Handle
  <2>2. batch' \in Seq(Messages) /\ FirstPiece(Head(batch)) \in Seq(Datagrams)
    BY <2>1, SplitType
  <2>3. FirstPiece(Head(batch))[1] \in Answered
    BY <2>1 DEF Split
  <2>4. routed' \in Seq(Datagrams)
    BY <1>1, <1>2, <1>4, <2>3, AppendIs DEF Handle, TypeOK
  <2>5. piece' \in Seq(Datagrams) /\ piece'[1] \in Answered
    BY <1>4, <2>2, <2>3 DEF Handle
  <2> HIDE DEF Driving
  <2>6. /\ pc = "handle" /\ pc' = "send" /\ locked' = locked
        /\ UNCHANGED <<kernel, fault, channel, arrived, resets, endpoint, failed,
                       processed>>
    BY <1>4, <2>1 DEF Handle, Split, Driving
  <2> QED
    BY <1>1, <2>2, <2>4, <2>5, <2>6 DEF TypeOK, PieceIsAnswered
<1>5. CASE HandleInVain
  <2>1. Split(FALSE)
    BY <1>5 DEF HandleInVain
  <2>2. batch' \in Seq(Messages)
    BY <2>1, SplitType
  <2>3. /\ pc = "handle"
        /\ UNCHANGED <<pc, piece, locked, routed, kernel, fault, channel, arrived,
                       resets, endpoint, failed, processed>>
    BY <1>5, <2>1 DEF HandleInVain, Split
  <2> QED
    BY <1>1, <2>2, <2>3 DEF TypeOK, PieceIsAnswered
<1>6. CASE NextMessage
  <2>1. batch' \in Seq(Messages)
    BY <1>1, <1>6, TailIs DEF NextMessage, TypeOK
  <2> QED
    BY <1>1, <1>6, <2>1 DEF NextMessage, TypeOK, PieceIsAnswered
<1>7. CASE Send
  <2>1. piece[1] \in Datagrams \cup {Error}
    BY <1>1, <1>2, <1>7 DEF Send, PieceIsAnswered
  <2>2. channel' \in Seq(Datagrams \cup {Error})
    BY <1>1, <1>7, <2>1, AppendIs DEF Send, TypeOK
  <2>3. piece' \in Seq(Datagrams)
    BY <1>7, EmptySeq DEF Send
  <2> QED
    BY <1>1, <1>7, <2>2, <2>3 DEF Send, TypeOK, PieceIsAnswered
<1>8. CASE SendFails
  <2>1. piece' \in Seq(Datagrams) /\ batch' \in Seq(Messages) /\ batch' = <<>>
    BY <1>8, EmptySeq DEF SendFails
  <2> QED
    BY <1>1, <1>8, <2>1 DEF SendFails, TypeOK, PieceIsAnswered
<1> QED
  BY <1>3, <1>4, <1>5, <1>6, <1>7, <1>8

LEMMA SystemsType ==
  ASSUME TypeOK, PieceIsAnswered,
         (\E s \in Systems : LockEndpoint(s))
           \/ TakeEvent \/ UnlockEndpoint \/ DropEndpoint
  PROVE  TypeOK' /\ PieceIsAnswered'
<1> USE DEF Systems, socketVars, taskVars, historyVars
<1>1. TypeOK /\ PieceIsAnswered
  OBVIOUS
<1>2. ASSUME NEW s \in Systems, LockEndpoint(s) PROVE TypeOK' /\ PieceIsAnswered'
  BY <1>1, <1>2 DEF LockEndpoint, TypeOK, PieceIsAnswered
<1>3. CASE TakeEvent
  <2>1. Tail(channel) \in Seq(Datagrams \cup {Error})
        /\ Head(channel) \in Datagrams \cup {Error}
    BY <1>1, <1>3, TailIs DEF TakeEvent, TypeOK
  <2>2. channel' \in Seq(Datagrams \cup {Error})
    BY <1>3, <2>1 DEF TakeEvent
  <2>3. processed' \in Seq(Datagrams \cup {Error})
    BY <1>1, <1>3, <2>1, AppendIs DEF TakeEvent, TypeOK
  <2>4. failed' \in BOOLEAN
    BY <1>1, <1>3 DEF TakeEvent, TypeOK
  <2> QED
    BY <1>1, <1>3, <2>2, <2>3, <2>4 DEF TakeEvent, TypeOK, PieceIsAnswered
<1>4. CASE UnlockEndpoint
  BY <1>1, <1>4 DEF UnlockEndpoint, TypeOK, PieceIsAnswered
<1>5. CASE DropEndpoint
  <2>1. channel' \in Seq(Datagrams \cup {Error})
    BY <1>5, EmptySeq DEF DropEndpoint
  <2> QED
    BY <1>1, <1>5, <2>1 DEF DropEndpoint, TypeOK, PieceIsAnswered
<1> QED
  BY <1>2, <1>3, <1>4, <1>5

LEMMA NextType ==
  ASSUME TypeOK, PieceIsAnswered, [Next]_vars
  PROVE  TypeOK' /\ PieceIsAnswered'
<1>1. CASE UNCHANGED vars
  BY <1>1 DEF vars, socketVars, taskVars, historyVars, TypeOK, PieceIsAnswered
<1> QED
  BY <1>1, NetworkType, PlainDriverType, MessageDriverType, SystemsType
  DEF Next, Driver

\* The task has the mutex from when it reads to when it waits again, the systems
\* have it only while there is an Endpoint, and all that the two hand on is of its
\* type (socket.rs:134-175), for every traffic and every size of a batch.
THEOREM TypeCorrect == Spec => [](TypeOK /\ PieceIsAnswered)
<1>1. Init => TypeOK /\ PieceIsAnswered
  BY InitType
<1>2. TypeOK /\ PieceIsAnswered /\ [Next]_vars => TypeOK' /\ PieceIsAnswered'
  BY NextType
<1> QED
  BY <1>1, <1>2, PTL DEF Spec

-----------------------------------------------------------------------------
(* The task keeps the promise of ReceiveChannel.  Seen from the systems an    *)
(* event is in the channel as soon as quinn has made it, so Handle receives   *)
(* it and Send changes nothing; of the rest only errors and the end of the    *)
(* task are seen, and what the systems do themselves.                         *)

Queue == IF pc = "send" /\ endpoint THEN Append(channel, piece[1]) ELSE channel
Running == pc # "ended"
Holder == IF locked = "poll_endpoints" THEN "draining"
          ELSE IF locked = "system" THEN "other" ELSE "none"

\* Nobody but the systems sees a step that only concerns the socket, or a step
\* of the task between the calls of quinn.
LEMMA HiddenSteps ==
  ASSUME TypeOK,
         Network \/ PollReadable \/ Lock \/ Recv \/ RecvWouldBlock \/ RecvReset
           \/ HandleInVain \/ NextMessage \/ EndBatch \/ Send
  PROVE  UNCHANGED <<Queue, Running, endpoint, Holder>>
<1> USE DEF Driving, Queue, Running, Holder, socketVars, taskVars, historyVars
<1>1. CASE Network
  <2>1. ASSUME NEW d \in Datagrams, Arriving(d)
        PROVE  UNCHANGED <<pc, piece, locked, channel, endpoint>>
    BY <2>1 DEF Arriving
  <2>2. Fault => UNCHANGED <<pc, piece, locked, channel, endpoint>>
    BY DEF Fault
  <2>3. UNCHANGED <<pc, piece, locked, channel, endpoint>>
    BY <1>1, <2>1, <2>2 DEF Network, Arrive, ArriveCoalesced, Lost
  <2> QED
    BY <2>3
<1>2. CASE PollReadable
  BY <1>2 DEF PollReadable
<1>3. CASE Lock
  BY <1>3 DEF Lock
<1>4. CASE Recv
  BY <1>4 DEF Recv
<1>5. CASE RecvWouldBlock
  BY <1>5 DEF RecvWouldBlock, TypeOK
<1>6. CASE RecvReset
  BY <1>6 DEF RecvReset, TypeOK
<1>7. CASE HandleInVain
  BY <1>7 DEF HandleInVain, Split
<1>8. CASE NextMessage
  BY <1>8 DEF NextMessage
<1>9. CASE EndBatch
  BY <1>9 DEF EndBatch
<1>10. CASE Send
  BY <1>10 DEF Send
<1> QED
  BY <1>1, <1>2, <1>3, <1>4, <1>5, <1>6, <1>7, <1>8, <1>9, <1>10

LEMMA HandleReceives ==
  ASSUME TypeOK, Handle
  PROVE  \/ \E e \in Answered : Channel!Receive(e)
         \/ UNCHANGED <<Queue, Running, endpoint, Holder>>
<1> DEFINE e == FirstPiece(Head(batch))[1]
<1>1. /\ e \in Answered
      /\ pc = "handle" /\ pc' = "send" /\ piece'[1] = e
      /\ UNCHANGED <<channel, endpoint, locked>>
  BY DEF Handle, Split, Driving
<1>2. locked = "driver"
  BY <1>1 DEF TypeOK
<1> HIDE DEF e
<1>3. CASE endpoint
  BY <1>1, <1>2, <1>3 DEF Channel!Receive
<1>4. CASE ~endpoint
  BY <1>1, <1>2, <1>4 DEF Queue, Running, Holder
<1> QED
  BY <1>3, <1>4 DEF TypeOK

LEMMA ErrorsEndTheTask ==
  ASSUME TypeOK, ReadableFails \/ RecvFails \/ SendFails
  PROVE  Channel!Fail \/ Channel!Stop
<1> USE DEF Driving, TellError
<1>1. CASE ReadableFails
  BY <1>1 DEF ReadableFails, Channel!Fail, Channel!Stop
<1>2. CASE RecvFails
  BY <1>2 DEF RecvFails, Channel!Fail, Channel!Stop, TypeOK
<1>3. CASE SendFails
  BY <1>3 DEF SendFails, Channel!Stop, TypeOK
<1> QED
  BY <1>1, <1>2, <1>3

LEMMA SystemsKeepToTheChannel ==
  ASSUME TypeOK
  PROVE  /\ \A s \in Systems : LockEndpoint(s) =>
              \E h \in {"draining", "other"} : Channel!Acquire(h)
         /\ TakeEvent => Channel!Take
         /\ UnlockEndpoint => Channel!Release
         /\ DropEndpoint => Channel!Drop
<1> USE DEF Systems, socketVars, taskVars, historyVars
<1>1. ASSUME NEW s \in Systems, LockEndpoint(s)
      PROVE  \E h \in {"draining", "other"} : Channel!Acquire(h)
  <2>1. CASE s = "poll_endpoints"
    BY <1>1, <2>1 DEF LockEndpoint, Channel!Acquire
  <2>2. CASE s = "system"
    BY <1>1, <2>2 DEF LockEndpoint, Channel!Acquire
  <2> QED
    BY <2>1, <2>2
<1>2. ASSUME TakeEvent PROVE Channel!Take
  BY <1>2 DEF TakeEvent, Channel!Take, TypeOK
<1>3. ASSUME UnlockEndpoint PROVE Channel!Release
  BY <1>3 DEF UnlockEndpoint, Channel!Release, TypeOK
<1>4. ASSUME DropEndpoint PROVE Channel!Drop
  BY <1>4 DEF DropEndpoint, Channel!Drop, TypeOK
<1> QED
  BY <1>1, <1>2, <1>3, <1>4

LEMMA ChannelStep ==
  ASSUME TypeOK, [Next]_vars
  PROVE  Channel!Next \/ UNCHANGED <<Queue, Running, endpoint, Holder>>
<1>1. CASE UNCHANGED vars
  BY <1>1 DEF vars, taskVars, Queue, Running, Holder
<1>2. CASE Network \/ Driver \/ ReadableFails
  BY <1>2, HiddenSteps, HandleReceives, ErrorsEndTheTask DEF Driver, Channel!Next
<1>3. CASE \E s \in Systems : LockEndpoint(s)
  BY <1>3, SystemsKeepToTheChannel DEF Channel!Next
<1>4. CASE TakeEvent \/ UnlockEndpoint \/ DropEndpoint
  BY <1>4, SystemsKeepToTheChannel DEF Channel!Next
<1> QED
  BY <1>1, <1>2, <1>3, <1>4 DEF Next

\* The task keeps the promise of ReceiveChannel (socket.rs:134-175), whatever
\* arrives and fails: that nothing enters the channel while a system has locked
\* quinn's endpoint, but for the error that ends the task.
THEOREM DriverKeepsPromise == Spec => KeepsChannelPromise
<1>1. Init => Channel!Init
  BY DEF Init, Channel!Init
<1>2. TypeOK /\ [Next]_vars => [Channel!Next]_<<Queue, Running, endpoint, Holder>>
  BY ChannelStep
<1>3. Spec => []TypeOK
  BY TypeCorrect, PTL
<1> QED
  BY <1>1, <1>2, <1>3, PTL
  DEF Spec, KeepsChannelPromise, Channel!Spec, Channel!channelVars,
      Queue, Running, Holder

-----------------------------------------------------------------------------
(* The channel has caught up *)

\* Seen from the systems, what they have taken and what waits is all that quinn
\* has made events of, and then the error that ended the task.
AllIsQueued ==
    endpoint =>
      processed \o Queue = IF pc = "ended" THEN Append(routed, Error) ELSE routed

LEMMA ConcatAppend ==
  ASSUME NEW S, NEW q \in Seq(S), NEW r \in Seq(S), NEW x \in S
  PROVE  q \o Append(r, x) = Append(q \o r, x)
<1>1. <<x>> \in Seq(S) /\ q \o r \in Seq(S)
  BY ConcatProperties
<1>2. Append(r, x) = r \o <<x>> /\ Append(q \o r, x) = (q \o r) \o <<x>>
  BY <1>1, AppendIsConcat
<1> QED
  BY <1>1, <1>2, ConcatAssociative

LEMMA TakeKeeps ==
  ASSUME NEW S, NEW q \in Seq(S), NEW r \in Seq(S), r # <<>>
  PROVE  Append(q, Head(r)) \o Tail(r) = q \o r
<1> DEFINE h == Head(r)
           t == Tail(r)
<1>1. h \in S /\ t \in Seq(S) /\ <<h>> \in Seq(S)
  BY HeadTailProperties
<1>2. r = <<h>> \o t
  OBVIOUS
<1> HIDE DEF h, t
<1>3. Append(q, h) = q \o <<h>>
  BY <1>1, AppendIsConcat
<1>4. (q \o <<h>>) \o t = q \o (<<h>> \o t)
  BY <1>1, ConcatAssociative
<1>5. Append(q, h) \o t = q \o r
  BY <1>2, <1>3, <1>4
<1> QED
  BY <1>5 DEF h, t

LEMMA QueuedInit == Init => AllIsQueued
<1>1. <<>> \o <<>> = <<>>
  OBVIOUS
<1> QED
  BY <1>1 DEF Init, AllIsQueued, Queue

LEMMA QueuedStep ==
  ASSUME TypeOK, PieceIsAnswered, AllIsQueued, [Next]_vars
  PROVE  AllIsQueued'
<1> DEFINE S == Datagrams \cup {Error}
<1>1. /\ processed \in Seq(S) /\ channel \in Seq(S) /\ Answered \subseteq S
  BY DriverAssumption DEF TypeOK
<1> SUFFICES ASSUME endpoint'
             PROVE  (processed \o Queue)' =
                      IF pc' = "ended" THEN Append(routed', Error) ELSE routed'
  BY DEF AllIsQueued
<1> HIDE DEF S
<1>2. CASE Network \/ PollReadable \/ Lock \/ Recv \/ RecvWouldBlock \/ RecvReset
             \/ HandleInVain \/ NextMessage \/ EndBatch \/ Send
  <2>1. UNCHANGED <<Queue, Running, endpoint, Holder>>
    BY <1>2, HiddenSteps
  <2>2. UNCHANGED <<processed, routed>>
    <3>1. Network => UNCHANGED <<processed, routed>>
      BY DEF Network, Arrive, ArriveCoalesced, Lost, Arriving, Fault, historyVars
    <3>2. HandleInVain => UNCHANGED <<processed, routed>>
      BY DEF HandleInVain, Split, Driving
    <3>3. PollReadable \/ Lock \/ Recv \/ RecvWouldBlock \/ RecvReset
            \/ NextMessage \/ EndBatch \/ Send => UNCHANGED <<processed, routed>>
      BY DEF PollReadable, Lock, Recv, RecvWouldBlock, RecvReset, NextMessage,
        EndBatch, Send, Driving
    <3> QED
      BY <1>2, <3>1, <3>2, <3>3
  <2> QED
    BY <2>1, <2>2 DEF AllIsQueued, Running
<1>3. CASE Handle
  <2> DEFINE e == FirstPiece(Head(batch))[1]
  <2>1. /\ e \in Answered /\ pc = "handle" /\ pc' = "send" /\ piece'[1] = e
        /\ UNCHANGED <<channel, endpoint, processed>>
        /\ routed' = Append(routed, e)
    BY <1>3 DEF Handle, Split, Driving
  <2> HIDE DEF e
  <2>2. processed \o channel = routed
    BY <2>1 DEF AllIsQueued, Queue
  <2>3. Queue' = Append(channel, e)
    BY <2>1 DEF Queue
  <2>4. processed \o Append(channel, e) = Append(processed \o channel, e)
    BY <1>1, <2>1, ConcatAppend
  <2> QED
    BY <2>1, <2>2, <2>3, <2>4
<1>4. CASE ReadableFails \/ RecvFails
  <2>1. /\ pc \in {"poll_readable", "recv"} /\ pc' = "ended" /\ endpoint
        /\ channel' = Append(channel, Error) /\ UNCHANGED <<processed, routed>>
    BY <1>4 DEF ReadableFails, RecvFails, TellError, Driving
  <2>2. processed \o channel = routed /\ Queue' = channel'
    BY <2>1 DEF AllIsQueued, Queue
  <2>3. processed \o Append(channel, Error) = Append(processed \o channel, Error)
    BY <1>1, ConcatAppend DEF S
  <2> QED
    BY <2>1, <2>2, <2>3
<1>5. CASE TakeEvent
  <2>1. /\ pc # "send" /\ channel # <<>> /\ pc' = pc /\ routed' = routed
        /\ channel' = Tail(channel) /\ processed' = Append(processed, Head(channel))
        /\ endpoint' = endpoint
    BY <1>5 DEF TakeEvent, TypeOK, Systems, taskVars
  <2>2. processed' \o channel' = processed \o channel
    BY <1>1, <2>1, TakeKeeps
  <2> QED
    BY <2>1, <2>2 DEF AllIsQueued, Queue
<1>6. CASE SendFails \/ DropEndpoint
  BY <1>6 DEF SendFails, DropEndpoint, Driving
<1>7. CASE (\E s \in Systems : LockEndpoint(s)) \/ UnlockEndpoint \/ UNCHANGED vars
  <2>1. UNCHANGED <<pc, piece, channel, endpoint, processed, routed>>
    BY <1>7 DEF LockEndpoint, UnlockEndpoint, vars, taskVars, historyVars
  <2> QED
    BY <2>1 DEF AllIsQueued, Queue
<1> QED
  BY <1>2, <1>3, <1>4, <1>5, <1>6, <1>7 DEF Next, Driver

\* Whenever a system has locked quinn's endpoint, the channel holds all that quinn
\* has made and no system has taken, and an error only after it.
THEOREM ChannelHasCaughtUp == Spec => []ChannelIsCaughtUp
<1>1. Init => AllIsQueued
  BY QueuedInit
<1>2. TypeOK /\ PieceIsAnswered /\ AllIsQueued /\ [Next]_vars => AllIsQueued'
  BY QueuedStep
<1>3. TypeOK /\ AllIsQueued => ChannelIsCaughtUp
  BY DEF TypeOK, AllIsQueued, Queue, ChannelIsCaughtUp, Systems
<1> QED
  BY <1>1, <1>2, <1>3, TypeCorrect, PTL DEF Spec

-----------------------------------------------------------------------------
(* Pieces are whole datagrams *)

\* The message is datagrams one after the other, which begin at the positions in
\* starts, all of them of the size of its stride but for a shorter last one.
CutAt(m, starts) ==
    /\ starts \subseteq DOMAIN m.data
    /\ m.data # <<>> => 1 \in starts
    /\ \A c \in starts :
         /\ Size[m.data[c]] \in 1..m.stride
         /\ c + Size[m.data[c]] <= Len(m.data) + 1
         /\ \A i \in c..c + Size[m.data[c]] - 1 : m.data[i] = m.data[c]
         /\ c + Size[m.data[c]] <= Len(m.data) =>
              /\ Size[m.data[c]] = m.stride
              /\ c + Size[m.data[c]] \in starts

WellCut(m) == \E starts \in SUBSET Nat : CutAt(m, starts)

CutMessages(queue) == \A i \in DOMAIN queue : WellCut(queue[i])

AllWellCut == CutMessages(kernel) /\ CutMessages(batch)

LEMMA SizeIs ==
  ASSUME NEW d \in Datagrams
  PROVE  /\ Size[d] \in Nat /\ BytesOf(d) \in Seq(Datagrams)
         /\ Len(BytesOf(d)) = Size[d]
         /\ \A i \in 1..Size[d] : BytesOf(d)[i] = d
<1>1. Size[d] \in Nat /\ BytesOf(d) \in Seq(Datagrams)
  BY BytesAre
<1> QED
  BY <1>1 DEF BytesOf

\* A datagram alone is a well-cut message.
LEMMA ArrivalIsCut ==
  ASSUME NEW d \in Datagrams
  PROVE  WellCut([data |-> BytesOf(d), stride |-> Size[d]])
<1> DEFINE m == [data |-> BytesOf(d), stride |-> Size[d]]
           starts == IF Size[d] = 0 THEN {} ELSE {1}
<1>1. /\ Size[d] \in Nat /\ m.data \in Seq(Datagrams)
      /\ Len(m.data) = Size[d] /\ DOMAIN m.data = 1..Size[d]
      /\ \A i \in 1..Size[d] : m.data[i] = d
      /\ m.stride = Size[d]
  BY SizeIs
<1> HIDE DEF m
<1>2. CASE Size[d] = 0
  <2>1. m.data = <<>>
    BY <1>1, <1>2
  <2>2. CutAt(m, {})
    BY <2>1 DEF CutAt
  <2> QED
    BY <2>2 DEF WellCut, m
<1>3. CASE Size[d] # 0
  <2>1. 1 \in 1..Size[d] /\ m.data[1] = d
    BY <1>1, <1>3
  <2>2. CutAt(m, {1})
    BY <1>1, <1>3, <2>1 DEF CutAt
  <2> QED
    BY <2>2 DEF WellCut, m
<1> QED
  BY <1>2, <1>3

\* Coalescing keeps a message well cut: it takes no datagram after a short one.
LEMMA CoalescedIsCut ==
  ASSUME NEW m \in Messages, NEW d \in Datagrams, NEW n \in Messages,
         WellCut(m), Coalesces(m, d),
         n.data = m.data \o BytesOf(d), n.stride = m.stride
  PROVE  WellCut(n)
<1> DEFINE len == Len(m.data)
<1>1. /\ m.data \in Seq(Datagrams) /\ m.stride \in Nat
      /\ len \in Nat /\ DOMAIN m.data = 1..len /\ len = Len(m.data)
      /\ Size[d] \in 1..m.stride /\ Size[d] \in Nat
      /\ Size[m.data[len]] = m.stride
  BY SizeIs DEF Messages, Coalesces
<1> HIDE DEF len
<1>2. /\ n.data \in Seq(Datagrams)
      /\ Len(n.data) = len + Size[d]
      /\ DOMAIN n.data = 1..(len + Size[d])
      /\ \A i \in 1..len : n.data[i] = m.data[i]
      /\ \A i \in len + 1..len + Size[d] : n.data[i] = d
  <2> DEFINE bytes == BytesOf(d)
             data == m.data
  <2>1. /\ bytes \in Seq(Datagrams) /\ Len(bytes) = Size[d]
        /\ \A i \in 1..Size[d] : bytes[i] = d
        /\ data \in Seq(Datagrams) /\ Len(data) = len
        /\ n.data = data \o bytes
    BY <1>1, SizeIs
  <2> HIDE DEF bytes, data
  <2>2. data \o bytes \in Seq(Datagrams) /\ Joins(data \o bytes, data, bytes)
    BY <2>1, ConcatJoins
  <2>3. /\ n.data \in Seq(Datagrams) /\ Len(n.data) = len + Size[d]
        /\ \A i \in 1..len : n.data[i] = data[i]
        /\ \A i \in 1..Size[d] : n.data[len + i] = d
    BY <2>1, <2>2 DEF Joins
  <2>4. ASSUME NEW i \in len + 1..len + Size[d]
        PROVE  n.data[i] = d
    <3>1. i - len \in 1..Size[d] /\ len + (i - len) = i
      BY <1>1
    <3> QED
      BY <2>3, <3>1
  <2>5. DOMAIN n.data = 1..(len + Size[d])
    BY <2>3, LenProperties
  <2> QED
    BY <2>3, <2>4, <2>5 DEF data
<1>3. PICK starts \in SUBSET Nat : CutAt(m, starts)
  BY DEF WellCut
<1> DEFINE more == starts \cup {len + 1}
<1>4. more \in SUBSET Nat /\ more \subseteq DOMAIN n.data
  <2>1. starts \subseteq 1..len
    BY <1>1, <1>3 DEF CutAt
  <2>2. len + 1 <= len + Size[d]
    BY <1>1
  <2>3. 1..len \subseteq 1..(len + Size[d]) /\ len + 1 \in 1..(len + Size[d])
    BY <1>1, <2>2
  <2>4. len + 1 \in Nat
    BY <1>1
  <2> QED
    BY <1>2, <2>1, <2>3, <2>4, Zenon
<1>5. 1 \in more
  <2>1. CASE len = 0
    BY <2>1
  <2>2. CASE len # 0
    <3>1. m.data # <<>>
      BY <1>1, <2>2
    <3> QED
      BY <1>3, <3>1 DEF CutAt
  <2> QED
    BY <2>1, <2>2
<1>6. ASSUME NEW c \in more
      PROVE  /\ Size[n.data[c]] \in 1..n.stride
             /\ c + Size[n.data[c]] <= Len(n.data) + 1
             /\ \A i \in c..c + Size[n.data[c]] - 1 : n.data[i] = n.data[c]
             /\ c + Size[n.data[c]] <= Len(n.data) =>
                  /\ Size[n.data[c]] = n.stride
                  /\ c + Size[n.data[c]] \in more
  <2>1. CASE c = len + 1
    <3>1. n.data[c] = d
      <4>1. len + 1 \in len + 1..len + Size[d]
        BY <1>1
      <4> QED
        BY <1>2, <2>1, <4>1
    <3> DEFINE size == Size[d]
               total == Len(n.data)
    <3>2. size \in 1..n.stride /\ size \in Nat /\ total = len + size /\ len \in Nat
      BY <1>1, <1>2
    <3>3. \A i \in c..c + size - 1 : n.data[i] = d
      <4>1. \A i \in c..c + size - 1 : i \in len + 1..len + size
        BY <2>1, <3>2
      <4> QED
        BY <1>2, <4>1
    <3> HIDE DEF size, total
    <3>4. c + size <= total + 1 /\ ~(c + size <= total)
      BY <2>1, <3>2
    <3> QED
      BY <3>1, <3>2, <3>3, <3>4, Zenon DEF size, total
  <2>2. CASE c \in starts
    <3> DEFINE e == m.data[c]
    <3>1. /\ c \in 1..len /\ n.data[c] = e
          /\ Size[e] \in 1..m.stride /\ c + Size[e] <= len + 1
          /\ \A i \in c..c + Size[e] - 1 : m.data[i] = e
          /\ c + Size[e] <= len => Size[e] = m.stride /\ c + Size[e] \in starts
      BY <1>1, <1>2, <1>3, <2>2 DEF CutAt
    <3> HIDE DEF e
    <3>2. \A i \in c..c + Size[e] - 1 : i \in 1..len
      BY <1>1, <3>1
    <3>3. \A i \in c..c + Size[e] - 1 : n.data[i] = e
      BY <1>2, <3>1, <3>2
    <3>4. c + Size[e] = len + 1 => Size[e] = m.stride
      <4>1. SUFFICES ASSUME c + Size[e] = len + 1
                     PROVE  Size[e] = m.stride
        OBVIOUS
      <4>2. len \in c..c + Size[e] - 1
        BY <1>1, <3>1, <4>1
      <4>3. m.data[len] = e
        BY <3>1, <4>2
      <4> QED
        BY <1>1, <4>3
    <3>5. c + Size[e] <= len \/ c + Size[e] = len + 1
      <4>1. c \in Nat /\ Size[e] \in Nat /\ c + Size[e] <= len + 1
        BY <1>1, <3>1
      <4> HIDE <3>1
      <4> QED
        BY <1>1, <4>1
    <3>6. Size[e] = m.stride /\ c + Size[e] \in more
      BY <3>1, <3>4, <3>5
    <3>7. c + Size[e] <= Len(n.data) + 1
      <4> DEFINE size == Size[e]
      <4>1. size \in Nat /\ c \in Nat /\ c + size <= len + 1
        BY <1>1, <3>1
      <4>2. Size[d] \in Nat /\ len \in Nat /\ Len(n.data) = len + Size[d]
        BY <1>1, <1>2
      <4> HIDE DEF size
      <4> QED
        BY <4>1, <4>2 DEF size
    <3> QED
      BY <3>1, <3>3, <3>6, <3>7, Zenon
  <2> QED
    BY <2>1, <2>2
<1> HIDE DEF more
<1>7. CutAt(n, more)
  BY <1>4, <1>5, <1>6 DEF CutAt
<1> QED
  BY <1>4, <1>7 DEF WellCut

\* The first piece of a well-cut message is a datagram, and what follows is well
\* cut again.
LEMMA FirstPieceIsWhole ==
  ASSUME NEW m \in Messages, WellCut(m), m.data # <<>>
  PROVE  /\ FirstPiece(m) = BytesOf(FirstPiece(m)[1])
         /\ WellCut(WithoutPiece(m))
<1>1. /\ m.data \in Seq(Datagrams) /\ m.stride \in Nat
      /\ Len(m.data) \in Nat \ {0} /\ DOMAIN m.data = 1..Len(m.data)
      /\ \A i \in 1..Len(m.data) : m.data[i] \in Datagrams
  BY EmptySeq, LenProperties, ElementOfSeq DEF Messages
<1>2. PICK starts \in SUBSET Nat : CutAt(m, starts)
  BY DEF WellCut
<1> DEFINE len == Len(m.data)
           d == m.data[1]
           size == Size[d]
<1>3. /\ 1 \in starts /\ size \in 1..m.stride /\ 1 + size <= len + 1
      /\ \A i \in 1..1 + size - 1 : m.data[i] = d
      /\ 1 + size <= len => size = m.stride /\ 1 + size \in starts
  BY <1>1, <1>2 DEF CutAt
<1>4. d \in Datagrams /\ 1 \in 1..len
  BY <1>1
<1> HIDE DEF size, d, len
<1>5. size \in Nat \ {0} /\ len \in Nat \ {0} /\ size <= len
      /\ \A i \in 1..size : m.data[i] = d
  BY <1>1, <1>3 DEF len
<1>6. (IF m.stride < len THEN m.stride ELSE len) = size
  BY <1>1, <1>3, <1>5
<1>7. FirstPiece(m) = SubSeq(m.data, 1, size)
  BY <1>6 DEF FirstPiece, len
<1>8. /\ FirstPiece(m) \in Seq(Datagrams) /\ Len(FirstPiece(m)) = size
      /\ \A i \in 1..size : FirstPiece(m)[i] = d
  BY <1>1, <1>5, <1>7 DEF len
<1>9. FirstPiece(m)[1] = d /\ FirstPiece(m) = BytesOf(d)
  <2>1. /\ BytesOf(d) \in Seq(Datagrams) /\ Len(BytesOf(d)) = size
        /\ \A i \in 1..size : BytesOf(d)[i] = d
    BY <1>4, SizeIs DEF size
  <2>2. FirstPiece(m) = BytesOf(d)
    BY <1>8, <2>1, SeqEqual
  <2> QED
    BY <1>5, <1>8, <2>2
<1> DEFINE r == WithoutPiece(m)
           rest == SubSeq(m.data, size + 1, len)
<1>10. /\ rest \in Seq(Datagrams) /\ Len(rest) = len - size
       /\ DOMAIN rest = 1..(len - size)
       /\ \A i \in 1..(len - size) : rest[i] = m.data[i + size]
  BY <1>1, <1>5 DEF len
<1>11. r.data = rest /\ r.stride = m.stride
  BY <1>8 DEF WithoutPiece, Messages, len
<1> HIDE DEF r, rest
<1> DEFINE left == {c \in 1..(len - size) : c + size \in starts}
<1>12. CutAt(r, left)
  <2>1. left \subseteq DOMAIN r.data
    BY <1>10, <1>11
  <2>2. r.data # <<>> => 1 \in left
    <3>1. SUFFICES ASSUME r.data # <<>>
                   PROVE  1 \in left
      OBVIOUS
    <3>2. len - size # 0
      BY <1>10, <1>11, <3>1
    <3>3. 1 + size <= len /\ 1 \in 1..(len - size)
      BY <1>5, <3>2
    <3> QED
      BY <1>3, <3>3
  <2>3. ASSUME NEW c \in left
        PROVE  /\ Size[r.data[c]] \in 1..r.stride
               /\ c + Size[r.data[c]] <= Len(r.data) + 1
               /\ \A i \in c..c + Size[r.data[c]] - 1 : r.data[i] = r.data[c]
               /\ c + Size[r.data[c]] <= Len(r.data) =>
                    /\ Size[r.data[c]] = r.stride
                    /\ c + Size[r.data[c]] \in left
    <3> DEFINE e == m.data[c + size]
               n == Size[e]
    <3>1. /\ c \in 1..(len - size) /\ c + size \in starts /\ r.data[c] = e
      BY <1>10, <1>11
    <3>2. /\ n \in 1..m.stride /\ (c + size) + n <= len + 1
          /\ \A i \in c + size..(c + size) + n - 1 : m.data[i] = e
          /\ (c + size) + n <= len => n = m.stride /\ (c + size) + n \in starts
      BY <1>1, <1>2, <3>1 DEF CutAt, len
    <3> HIDE DEF e, n
    <3>3. n \in Nat /\ c \in Nat /\ n # 0
      BY <1>1, <3>1, <3>2
    <3>4. c + n <= (len - size) + 1
      BY <1>5, <3>2, <3>3
    <3>5. ASSUME NEW i \in c..c + n - 1
          PROVE  r.data[i] = e
      <4>1. i \in 1..(len - size) /\ i + size \in c + size..(c + size) + n - 1
        BY <1>5, <3>1, <3>3, <3>4
      <4> QED
        BY <1>10, <1>11, <3>2, <4>1
    <3>6. c + n <= len - size => n = m.stride /\ c + n \in left
      <4>1. SUFFICES ASSUME c + n <= len - size
                     PROVE  n = m.stride /\ c + n \in left
        OBVIOUS
      <4>2. (c + size) + n <= len /\ (c + n) + size = (c + size) + n
            /\ c + n \in 1..(len - size)
        BY <1>5, <3>1, <3>3, <4>1
      <4> QED
        BY <3>2, <4>2
    <3> HIDE DEF left
    <3> QED
      BY <1>10, <1>11, <3>1, <3>2, <3>4, <3>5, <3>6 DEF n
  <2> HIDE DEF left
  <2> QED
    BY <2>1, <2>2, <2>3 DEF CutAt
<1>13. left \in SUBSET Nat
  BY <1>5
<1> HIDE DEF left
<1>14. WellCut(r)
  BY <1>12, <1>13 DEF WellCut
<1> QED
  BY <1>9, <1>14 DEF r

\* What the operations on queues keep of well-cut messages.
LEMMA CutAppend ==
  ASSUME NEW q \in Seq(Messages), CutMessages(q), NEW m \in Messages, WellCut(m)
  PROVE  CutMessages(Append(q, m))
<1> DEFINE r == Append(q, m)
<1>1. /\ DOMAIN r = 1..Len(q) + 1 /\ DOMAIN q = 1..Len(q) /\ Len(q) \in Nat
      /\ r[Len(q) + 1] = m /\ \A i \in 1..Len(q) : r[i] = q[i]
  BY AppendProperties, LenProperties
<1> HIDE DEF r
<1>2. ASSUME NEW i \in DOMAIN r PROVE WellCut(r[i])
  <2>1. i = Len(q) + 1 \/ i \in 1..Len(q)
    BY <1>1
  <2> QED
    BY <1>1, <2>1 DEF CutMessages
<1> QED
  BY <1>2 DEF CutMessages, r

LEMMA CutPart ==
  ASSUME NEW q \in Seq(Messages), CutMessages(q),
         NEW a \in 1..Len(q) + 1, NEW b \in 0..Len(q), a <= b + 1
  PROVE  CutMessages(SubSeq(q, a, b))
<1> DEFINE r == SubSeq(q, a, b)
<1>1. Len(q) \in Nat /\ DOMAIN q = 1..Len(q)
  BY LenProperties
<1>2. DOMAIN r = 1..(b - a + 1) /\ \A i \in 1..(b - a + 1) : r[i] = q[a + i - 1]
  BY <1>1
<1> HIDE DEF r
<1>3. ASSUME NEW i \in 1..(b - a + 1) PROVE a + i - 1 \in 1..Len(q)
  BY <1>1
<1> QED
  BY <1>1, <1>2, <1>3 DEF CutMessages, r

LEMMA CutTail ==
  ASSUME NEW q \in Seq(Messages), CutMessages(q), q # <<>>
  PROVE  /\ CutMessages(Tail(q)) /\ WellCut(Head(q))
         /\ \A m \in Messages : WellCut(m) => CutMessages(<<m>> \o Tail(q))
<1> DEFINE t == Tail(q)
<1>1. /\ Len(q) \in Nat \ {0} /\ DOMAIN q = 1..Len(q) /\ Head(q) = q[1]
      /\ t \in Seq(Messages) /\ DOMAIN t = 1..(Len(q) - 1) /\ Len(t) = Len(q) - 1
      /\ \A i \in 1..(Len(q) - 1) : t[i] = q[i + 1]
  BY EmptySeq, LenProperties, HeadTailProperties
<1> HIDE DEF t
<1>2. \A i \in 1..(Len(q) - 1) : i + 1 \in 1..Len(q)
  BY <1>1
<1>3. CutMessages(t) /\ WellCut(q[1])
  BY <1>1, <1>2 DEF CutMessages
<1>4. ASSUME NEW m \in Messages, WellCut(m)
      PROVE  CutMessages(<<m>> \o t)
  <2> DEFINE one == <<m>>
             r == one \o t
  <2>1. one \in Seq(Messages) /\ Len(one) = 1 /\ one[1] = m
    OBVIOUS
  <2> HIDE DEF one
  <2>2. r \in Seq(Messages) /\ Joins(r, one, t)
    BY <1>1, <2>1, ConcatJoins
  <2> HIDE DEF r
  <2>3. /\ DOMAIN r = 1..Len(q) /\ r[1] = m
        /\ \A i \in 1..(Len(q) - 1) : r[1 + i] = t[i]
    BY <1>1, <2>1, <2>2, LenProperties DEF Joins
  <2>4. ASSUME NEW i \in 1..Len(q) PROVE WellCut(r[i])
    <3>1. i = 1 \/ (i - 1 \in 1..(Len(q) - 1) /\ 1 + (i - 1) = i)
      BY <1>1
    <3>2. \A j \in 1..(Len(q) - 1) : WellCut(t[j])
      BY <1>1, <1>3 DEF CutMessages
    <3> QED
      BY <1>4, <2>3, <3>1, <3>2
  <2> QED
    BY <2>3, <2>4 DEF CutMessages, r, one
<1> QED
  BY <1>1, <1>3, <1>4 DEF t

LEMMA WholeArrival ==
  ASSUME TypeOK, AllWellCut, PiecesAreWhole, Network
  PROVE  AllWellCut' /\ PiecesAreWhole'
<1>1. UNCHANGED <<pc, batch, piece>>
  BY DEF Network, Arrive, ArriveCoalesced, Lost, Arriving, Fault, taskVars
<1>2. kernel \in Seq(Messages)
  BY DEF TypeOK
<1>3. ASSUME NEW d \in Datagrams, Arrive(d)
      PROVE  CutMessages(kernel')
  <2> DEFINE m == [data |-> BytesOf(d), stride |-> Size[d]]
  <2>1. m \in Messages
    BY SizeIs DEF Messages
  <2>2. WellCut(m) /\ kernel' = Append(kernel, m)
    BY <1>3, ArrivalIsCut DEF Arrive
  <2> HIDE DEF m
  <2> QED
    BY <1>2, <2>1, <2>2, CutAppend DEF AllWellCut
<1>4. ASSUME NEW d \in Datagrams, ArriveCoalesced(d)
      PROVE  CutMessages(kernel')
  <2> DEFINE last == Len(kernel)
             m == kernel[last]
             n == [m EXCEPT !.data = @ \o BytesOf(d)]
  <2>1. last \in DOMAIN kernel /\ m \in Messages
    <3>1. last \in 1..last /\ DOMAIN kernel = 1..last
      BY <1>2, <1>4, EmptySeq, LenProperties DEF ArriveCoalesced
    <3> QED
      BY <1>2, <3>1, ElementOfSeq
  <2>2. kernel' = [kernel EXCEPT ![last] = n]
    BY <1>4 DEF ArriveCoalesced
  <2>3. Coalesces(m, d)
    BY <1>4 DEF ArriveCoalesced
  <2>4. WellCut(m)
    BY <2>1 DEF AllWellCut, CutMessages
  <2>5. m.data \in Seq(Datagrams) /\ BytesOf(d) \in Seq(Datagrams)
    BY <2>1, SizeIs DEF Messages
  <2>6. m.data \o BytesOf(d) \in Seq(Datagrams)
    BY <2>5, ConcatProperties
  <2>7. n \in Messages /\ n.data = m.data \o BytesOf(d) /\ n.stride = m.stride
    BY <2>1, <2>6 DEF Messages
  <2> HIDE DEF m, n, last
  <2>8. WellCut(n)
    BY <2>1, <2>3, <2>4, <2>7, CoalescedIsCut
  <2> QED
    BY <2>1, <2>2, <2>8 DEF AllWellCut, CutMessages
<1>5. CutMessages(kernel')
  <2>1. CASE \E d \in Datagrams : Arrive(d) \/ ArriveCoalesced(d)
    BY <1>3, <1>4, <2>1
  <2>2. CASE UNCHANGED kernel
    BY <2>2 DEF AllWellCut
  <2> QED
    BY <2>1, <2>2 DEF Network, Lost, Fault
<1> QED
  BY <1>1, <1>5 DEF AllWellCut, PiecesAreWhole

LEMMA WholeStep ==
  ASSUME TypeOK, AllWellCut, PiecesAreWhole, [Next]_vars
  PROVE  AllWellCut' /\ PiecesAreWhole'
<1>1. kernel \in Seq(Messages) /\ batch \in Seq(Messages)
  BY DEF TypeOK
<1>2. CASE Network
  BY <1>2, WholeArrival
<1>3. CASE Recv
  <2> DEFINE n == IF BatchSize < Len(kernel) THEN BatchSize ELSE Len(kernel)
  <2>1. Len(kernel) \in Nat /\ n \in 0..Len(kernel)
    BY <1>1, DriverAssumption, LenProperties
  <2>2. /\ batch' = SubSeq(kernel, 1, n) /\ pc' = "handle"
        /\ kernel' = SubSeq(kernel, n + 1, Len(kernel))
    BY <1>3 DEF Recv
  <2> HIDE DEF n
  <2>3. /\ 1 \in 1..Len(kernel) + 1 /\ 1 <= n + 1 /\ n + 1 \in 1..Len(kernel) + 1
        /\ Len(kernel) \in 0..Len(kernel) /\ n + 1 <= Len(kernel) + 1
    BY <2>1
  <2>4. CutMessages(batch') /\ CutMessages(kernel')
    BY <1>1, <2>1, <2>2, <2>3, CutPart DEF AllWellCut
  <2> QED
    BY <2>2, <2>4 DEF AllWellCut, PiecesAreWhole
<1>4. CASE Handle \/ HandleInVain
  <2> DEFINE m == Head(batch)
  <2>1. /\ batch # <<>> /\ m.data # <<>> /\ pc = "handle" /\ UNCHANGED kernel
        /\ batch' = <<WithoutPiece(m)>> \o Tail(batch)
        /\ (pc' = "send" => piece' = FirstPiece(m))
    BY <1>4 DEF Handle, HandleInVain, Split, Driving
  <2>2. m \in Messages /\ WellCut(m)
    BY <1>1, <2>1, TailIs, CutTail DEF AllWellCut
  <2> HIDE DEF m
  <2>3. /\ FirstPiece(m) = BytesOf(FirstPiece(m)[1])
        /\ WellCut(WithoutPiece(m)) /\ WithoutPiece(m) \in Messages
    BY <2>1, <2>2, FirstPieceIsWhole, PieceIs
  <2>4. CutMessages(<<WithoutPiece(m)>> \o Tail(batch))
    BY <1>1, <2>1, <2>3, CutTail DEF AllWellCut
  <2> QED
    BY <2>1, <2>3, <2>4 DEF AllWellCut, PiecesAreWhole
<1>5. CASE NextMessage
  <2>1. /\ batch # <<>> /\ pc' = "handle" /\ UNCHANGED kernel /\ batch' = Tail(batch)
    BY <1>5 DEF NextMessage, Driving
  <2> QED
    BY <1>1, <2>1, CutTail DEF AllWellCut, PiecesAreWhole
<1>6. CASE \/ PollReadable \/ Lock \/ RecvWouldBlock \/ RecvReset \/ RecvFails
           \/ EndBatch \/ Send \/ SendFails \/ ReadableFails
  <2>1. pc' # "send" /\ UNCHANGED kernel /\ (batch' = batch \/ batch' = <<>>)
    BY <1>6 DEF PollReadable, Lock, RecvWouldBlock, RecvReset, RecvFails, EndBatch,
      Send, SendFails, ReadableFails, Driving
  <2>2. CutMessages(<<>>)
    BY DEF CutMessages
  <2> QED
    BY <2>1, <2>2 DEF AllWellCut, PiecesAreWhole
<1>7. CASE \/ \E s \in Systems : LockEndpoint(s)
           \/ TakeEvent \/ UnlockEndpoint \/ DropEndpoint \/ UNCHANGED vars
  <2>1. UNCHANGED <<pc, piece, kernel, batch>>
    BY <1>7 DEF LockEndpoint, TakeEvent, UnlockEndpoint, DropEndpoint, vars,
      socketVars, taskVars
  <2> QED
    BY <2>1 DEF AllWellCut, PiecesAreWhole
<1> QED
  BY <1>2, <1>3, <1>4, <1>5, <1>6, <1>7 DEF Next, Driver

\* What quinn is given, and makes an event of, is a whole datagram as it was sent,
\* whatever the sizes, and however many of them the kernel coalesces.
THEOREM PiecesStayWhole == Spec => []PiecesAreWhole
<1>1. Init => AllWellCut /\ PiecesAreWhole
  BY DEF Init, AllWellCut, CutMessages, PiecesAreWhole
<1>2. TypeOK /\ AllWellCut /\ PiecesAreWhole /\ [Next]_vars
        => AllWellCut' /\ PiecesAreWhole'
  BY WholeStep
<1> QED
  BY <1>1, <1>2, TypeCorrect, PTL DEF Spec
=============================================================================
