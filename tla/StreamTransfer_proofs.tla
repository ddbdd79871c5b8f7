-------------------------- MODULE StreamTransfer_proofs --------------------------
(***************************************************************************)
(* Proofs about StreamTransfer, for every set of streams, every bound on   *)
(* their bytes and every credit: what the writer hands over is kept, in    *)
(* order, but for the mishaps that the model names, a stream without one   *)
(* implements ByteStream, and only data in hand hides the end of a stream. *)
(***************************************************************************)
EXTENDS StreamTransfer, SequenceTheorems, TLAPS

-----------------------------------------------------------------------------
(* Sequences *)

LEMMA FirstAndFrom ==
  ASSUME NEW q \in Seq(Nat), NEW n \in 0..Len(q)
  PROVE  /\ First(q, n) \in Seq(Nat) /\ Len(First(q, n)) = n
         /\ Unsent(q, n) \in Seq(Nat) /\ Len(Unsent(q, n)) = Len(q) - n
         /\ First(q, n) \o Unsent(q, n) = q
<1>1. Len(q) \in Nat /\ \A i \in 1..Len(q) : q[i] \in Nat
  BY LenProperties, ElementOfSeq
<1>2. First(q, n) \in Seq(Nat) /\ Len(First(q, n)) = n
  BY <1>1, SubSeqProperties DEF First
<1>3. Unsent(q, n) \in Seq(Nat) /\ Len(Unsent(q, n)) = Len(q) - n
  BY <1>1, SubSeqProperties DEF Unsent, From
<1>4. SubSeq(q, 1, n) \o SubSeq(q, n + 1, Len(q)) = SubSeq(q, 1, Len(q))
  <2>1. 1 \in 1..Len(q) + 1 /\ n \in (1 - 1)..Len(q) /\ Len(q) \in n..Len(q)
    BY <1>1
  <2> QED
    BY <2>1, ConcatAdjacentSubSeq
<1> QED
  BY <1>2, <1>3, <1>4, SubSeqFull DEF First, Unsent, From

LEMMA NothingUnsent ==
  ASSUME NEW q \in Seq(Nat)
  PROVE  Unsent(q, Len(q)) = <<>> /\ q \o <<>> = q
<1>1. Len(q) \in Nat
  BY LenProperties
<1>2. Unsent(q, Len(q)) \in Seq(Nat) /\ Len(Unsent(q, Len(q))) = Len(q) - Len(q)
  BY <1>1, FirstAndFrom
<1>3. Len(Unsent(q, Len(q))) = 0
  BY <1>1, <1>2
<1> QED
  BY <1>2, <1>3, EmptySeq, ConcatEmptySeq

\* A prefix of a sequence stays one when the sequence grows.
LEMMA FirstOfLonger ==
  ASSUME NEW q \in Seq(Nat), NEW r \in Seq(Nat), NEW n \in 0..Len(q)
  PROVE  First(q \o r, n) = First(q, n)
<1>1. CASE n = 0
  BY <1>1, SubSeqEmpty DEF First
<1>2. CASE n # 0
  BY <1>2, SubSeqOfConcat1, LenProperties DEF First
<1> QED
  BY <1>1, <1>2

\* What is read next continues what was read.
LEMMA FirstAndNext ==
  ASSUME NEW q \in Seq(Nat), NEW m \in Nat, NEW n \in Nat, m + n <= Len(q)
  PROVE  First(q, m) \o SubSeq(q, m + 1, m + n) = First(q, m + n)
<1>1. 1 \in 1..Len(q) + 1 /\ m \in (1 - 1)..Len(q) /\ m + n \in m..Len(q)
  BY LenProperties
<1> QED
  BY <1>1, ConcatAdjacentSubSeq DEF First

LEMMA InOrderIsSeq ==
  ASSUME NEW n \in Nat
  PROVE  InOrderUpTo(n) \in Seq(Nat) /\ Len(InOrderUpTo(n)) = n
  BY DEF InOrderUpTo

LEMMA FirstInOrder ==
  ASSUME NEW n \in Nat, NEW m \in 0..n
  PROVE  First(InOrderUpTo(n), m) = InOrderUpTo(m)
<1>1. First(InOrderUpTo(n), m) \in Seq(Nat) /\ Len(First(InOrderUpTo(n), m)) = m
  BY InOrderIsSeq, FirstAndFrom
<1>2. ASSUME NEW i \in 1..m
      PROVE  First(InOrderUpTo(n), m)[i] = InOrderUpTo(m)[i]
  BY DEF First, InOrderUpTo
<1> QED
  BY <1>1, <1>2, InOrderIsSeq, SeqEqual

LEMMA DataIsSeq ==
  ASSUME TypeOK, NEW s \in Streams, NEW n \in Nat
  PROVE  Data(s, n) \in Seq(Nat) /\ Len(Data(s, n)) = n
  BY DEF TypeOK, Data

LEMMA ConcatIs ==
  ASSUME NEW q \in Seq(Nat), NEW r \in Seq(Nat), NEW t \in Seq(Nat),
         Len(t) = Len(q) + Len(r),
         \A i \in 1..Len(t) : t[i] = IF i <= Len(q) THEN q[i] ELSE r[i - Len(q)]
  PROVE  q \o r = t
<1>1. q \o r \in Seq(Nat) /\ Len(q \o r) = Len(t)
      /\ \A i \in 1..Len(t) : (q \o r)[i] = t[i]
  BY ConcatProperties
<1> QED
  BY <1>1, SeqEqual

LEMMA DataContinues ==
  ASSUME TypeOK, NEW s \in Streams, NEW n \in Nat
  PROVE  InOrderUpTo(accepted[s]) \o Data(s, n) = InOrderUpTo(accepted[s] + n)
<1>1. accepted[s] \in Nat
  BY DEF TypeOK
<1>2. /\ InOrderUpTo(accepted[s]) \in Seq(Nat)
      /\ Len(InOrderUpTo(accepted[s])) = accepted[s]
      /\ Data(s, n) \in Seq(Nat) /\ Len(Data(s, n)) = n
      /\ InOrderUpTo(accepted[s] + n) \in Seq(Nat)
      /\ Len(InOrderUpTo(accepted[s] + n)) = accepted[s] + n
  BY <1>1, InOrderIsSeq, DataIsSeq
<1>3. ASSUME NEW i \in 1..accepted[s] + n
      PROVE  InOrderUpTo(accepted[s] + n)[i] =
               IF i <= accepted[s] THEN InOrderUpTo(accepted[s])[i]
                                   ELSE Data(s, n)[i - accepted[s]]
  BY <1>1 DEF InOrderUpTo, Data
<1>4. \A i \in 1..Len(InOrderUpTo(accepted[s] + n)) :
        InOrderUpTo(accepted[s] + n)[i] =
          IF i <= Len(InOrderUpTo(accepted[s])) THEN InOrderUpTo(accepted[s])[i]
          ELSE Data(s, n)[i - Len(InOrderUpTo(accepted[s]))]
  BY <1>2, <1>3
<1> QED
  BY <1>2, <1>4, ConcatIs

LEMMA FirstOfData ==
  ASSUME TypeOK, NEW s \in Streams, NEW n \in Nat, NEW k \in 0..n
  PROVE  First(Data(s, n), k) = Data(s, k)
<1>1. First(Data(s, n), k) \in Seq(Nat) /\ Len(First(Data(s, n), k)) = k
  BY DataIsSeq, FirstAndFrom
<1>2. ASSUME NEW i \in 1..k PROVE First(Data(s, n), k)[i] = Data(s, k)[i]
  BY DEF First, Data
<1> QED
  BY <1>1, <1>2, DataIsSeq, SeqEqual

LEMMA LengthOfConcat ==
  ASSUME NEW q \in Seq(Nat), NEW r \in Seq(Nat)
  PROVE  q \o r \in Seq(Nat) /\ Len(q \o r) = Len(q) + Len(r)
  BY ConcatProperties

LEMMA Regroup ==
  ASSUME NEW q \in Seq(Nat), NEW r \in Seq(Nat), NEW t \in Seq(Nat)
  PROVE  (q \o r) \o t = q \o (r \o t)
<1>1. Len(q) \in Nat /\ Len(r) \in Nat /\ Len(t) \in Nat
  BY LenProperties
<1>2. q \o r \in Seq(Nat) /\ Len(q \o r) = Len(q) + Len(r)
      /\ r \o t \in Seq(Nat) /\ Len(r \o t) = Len(r) + Len(t)
  BY LengthOfConcat
<1>3. q \o (r \o t) \in Seq(Nat)
      /\ Len(q \o (r \o t)) = Len(q) + (Len(r) + Len(t))
  BY <1>2, LengthOfConcat
<1>4. Len(q \o (r \o t)) = Len(q \o r) + Len(t)
  BY <1>1, <1>2, <1>3
<1>5. ASSUME NEW i \in 1..Len(q \o (r \o t))
      PROVE  (q \o (r \o t))[i] = IF i <= Len(q \o r) THEN (q \o r)[i]
                                   ELSE t[i - Len(q \o r)]
  <2>1. i \in 1..(Len(q) + (Len(r) + Len(t)))
    BY <1>3
  <2>2. CASE i <= Len(q)
    BY <1>1, <1>2, <2>1, <2>2, ConcatProperties
  <2>3. CASE ~(i <= Len(q)) /\ i <= Len(q) + Len(r)
    <3>1. i - Len(q) \in 1..Len(r)
      BY <1>1, <2>1, <2>3
    <3>2. (q \o (r \o t))[i] = (r \o t)[i - Len(q)]
      BY <1>1, <1>2, <2>1, <2>3, ConcatProperties
    <3>3. (r \o t)[i - Len(q)] = r[i - Len(q)]
      BY <1>1, <3>1, ConcatProperties
    <3>4. (q \o r)[i] = r[i - Len(q)]
      BY <1>1, <2>1, <2>3, ConcatProperties
    <3> QED
      BY <1>2, <2>3, <3>2, <3>3, <3>4
  <2>4. CASE ~(i <= Len(q)) /\ ~(i <= Len(q) + Len(r))
    <3>1. (i - Len(q)) - Len(r) = i - (Len(q) + Len(r))
          /\ i - Len(q) \in 1..(Len(r) + Len(t)) /\ ~(i - Len(q) <= Len(r))
      BY <1>1, <2>1, <2>4
    <3>2. (q \o (r \o t))[i] = (r \o t)[i - Len(q)]
      BY <1>1, <1>2, <2>1, <2>4, ConcatProperties
    <3>3. (r \o t)[i - Len(q)] = t[(i - Len(q)) - Len(r)]
      BY <1>1, <3>1, ConcatProperties
    <3> QED
      BY <1>2, <2>4, <3>1, <3>2, <3>3
  <2> QED
    BY <2>2, <2>3, <2>4
<1> QED
  BY <1>2, <1>3, <1>4, <1>5, ConcatIs

LEMMA RangeOfConcat ==
  ASSUME NEW q \in Seq(Nat), NEW r \in Seq(Nat)
  PROVE  Range(q \o r) = Range(q) \cup Range(r)
<1>1. Len(q) \in Nat /\ Len(r) \in Nat
      /\ DOMAIN q = 1..Len(q) /\ DOMAIN r = 1..Len(r)
      /\ DOMAIN (q \o r) = 1..Len(q) + Len(r)
  BY LenProperties, ConcatProperties
<1>2. \A i \in 1..Len(q) : (q \o r)[i] = q[i] /\ i \in 1..Len(q) + Len(r)
  BY <1>1, ConcatProperties
<1>3. \A i \in 1..Len(r) : (q \o r)[Len(q) + i] = r[i]
                           /\ Len(q) + i \in 1..Len(q) + Len(r)
  BY <1>1, ConcatProperties
<1>4. \A i \in 1..Len(q) + Len(r) :
        (q \o r)[i] = IF i <= Len(q) THEN q[i] ELSE r[i - Len(q)]
  BY ConcatProperties
<1>5. ASSUME NEW x \in Range(q \o r) PROVE x \in Range(q) \cup Range(r)
  <2>1. PICK i \in 1..Len(q) + Len(r) : x = (q \o r)[i]
    BY <1>1, <1>5 DEF Range
  <2>2. CASE i <= Len(q)
    BY <1>1, <1>4, <2>1, <2>2 DEF Range
  <2>3. CASE ~(i <= Len(q))
    <3>1. i - Len(q) \in 1..Len(r) /\ x = r[i - Len(q)]
      BY <1>1, <1>4, <2>1, <2>3
    <3> QED
      BY <1>1, <3>1 DEF Range
  <2> QED
    BY <2>2, <2>3
<1>6. ASSUME NEW x \in Range(q) \cup Range(r) PROVE x \in Range(q \o r)
  BY <1>1, <1>2, <1>3, <1>6 DEF Range
<1> QED
  BY <1>5, <1>6

LEMMA RangeOfData ==
  ASSUME TypeOK, NEW s \in Streams, NEW n \in Nat
  PROVE  Range(Data(s, n)) = (accepted[s] + 1)..(accepted[s] + n)
<1>1. accepted[s] \in Nat
  BY DEF TypeOK
<1>2. ASSUME NEW x \in (accepted[s] + 1)..(accepted[s] + n)
      PROVE  x - accepted[s] \in 1..n /\ x = accepted[s] + (x - accepted[s])
  BY <1>1
<1> QED
  BY <1>1, <1>2 DEF Range, Data

-----------------------------------------------------------------------------
(* Types, and that nothing is read before it has arrived or arrives before it *)
(* was sent                                                                  *)

Bounds ==
    \A s \in Streams : Len(read[s]) <= arrived[s] /\ arrived[s] <= Len(sent[s])

LEMMA TakenIsLeast ==
  ASSUME TypeOK, NEW s \in Streams, NEW n \in Nat
  PROVE  /\ Taken(s, n) \in 0..n
         /\ credit[s] - Taken(s, n) \in Nat /\ conn_credit - Taken(s, n) \in Nat
<1>1. credit[s] \in Nat /\ conn_credit \in Nat
  BY DEF TypeOK
<1> QED
  BY <1>1 DEF Taken, Least

LEMMA CountsAre ==
  ASSUME TypeOK, NEW s \in Streams
  PROVE  arrived[s] \in Nat /\ sent[s] \in Seq(Nat) /\ read[s] \in Seq(Nat)
  BY DEF TypeOK

LEMMA BoundsAre ==
  ASSUME Bounds, NEW s \in Streams
  PROVE  Len(read[s]) <= arrived[s] /\ arrived[s] <= Len(sent[s])
  BY DEF Bounds

LEMMA LengthIsNat ==
  ASSUME TypeOK, NEW s \in Streams
  PROVE  /\ Len(sent[s]) \in Nat /\ Len(write_buffer[s]) \in Nat
         /\ Len(read[s]) \in Nat
  BY LenProperties DEF TypeOK

LEMMA QuinnWriteType ==
  ASSUME TypeOK, NEW s \in Streams, NEW data \in Seq(Nat), QuinnWrite(s, data)
  PROVE  /\ sent' \in [Streams -> Seq(Nat)]
         /\ credit' \in [Streams -> Nat] /\ conn_credit' \in Nat
         /\ conn_blocked' \in SUBSET Streams
         /\ \A t \in Streams : Len(sent[t]) <= Len(sent'[t])
<1>1. Taken(s, Len(data)) \in 0..Len(data) /\ Len(data) \in Nat
      /\ credit[s] - Taken(s, Len(data)) \in Nat
      /\ conn_credit - Taken(s, Len(data)) \in Nat
  BY LenProperties, TakenIsLeast
<1>2. First(data, Taken(s, Len(data))) \in Seq(Nat)
  BY <1>1, FirstAndFrom
<1>3. sent' = [sent EXCEPT ![s] = @ \o First(data, Taken(s, Len(data)))]
  BY DEF QuinnWrite
<1>4. sent[s] \o First(data, Taken(s, Len(data))) \in Seq(Nat)
      /\ Len(sent[s]) <= Len(sent[s] \o First(data, Taken(s, Len(data))))
  BY <1>2, ConcatProperties, LenProperties DEF TypeOK
<1>5. sent' \in [Streams -> Seq(Nat)]
  BY <1>3, <1>4 DEF TypeOK
<1>6. ASSUME NEW t \in Streams PROVE Len(sent[t]) <= Len(sent'[t])
  <2>1. CASE t = s
    BY <1>3, <1>4, <2>1 DEF TypeOK
  <2>2. CASE t # s
    BY <1>3, <2>2, LengthIsNat DEF TypeOK
  <2> QED
    BY <2>1, <2>2
<1> QED
  BY <1>1, <1>5, <1>6 DEF QuinnWrite, TypeOK

LEMMA InitType == Init => TypeOK /\ Bounds
<1> SUFFICES ASSUME Init PROVE TypeOK /\ Bounds
  OBVIOUS
<1>1. <<>> \in Seq(Nat) /\ Len(<<>>) = 0
  BY EmptySeq
<1>2. TypeOK
  BY <1>1, TransferAssumption DEF Init, TypeOK
<1>3. Bounds
  BY <1>1 DEF Init, Bounds
<1> QED
  BY <1>2, <1>3

LEMMA MishapsType ==
  ASSUME TypeOK, NEW s \in Streams, NEW what \in SUBSET Mishaps, Mishap(s, what)
  PROVE  mishaps' \in [Streams -> SUBSET Mishaps]
  BY DEF TypeOK, Mishap

LEMMA WriteMishapsType ==
  ASSUME NEW s, NEW data, NEW waiting
  PROVE  WriteMishaps(s, data, waiting) \in SUBSET Mishaps
  BY DEF WriteMishaps, Mishaps

\* quinn's stream only grows, and what was read and has arrived stays.
LEMMA SentGrows ==
  ASSUME TypeOK, TypeOK', Bounds, UNCHANGED <<arrived, read>>,
         \A t \in Streams : Len(sent[t]) <= Len(sent'[t])
  PROVE  Bounds'
<1> SUFFICES ASSUME NEW t \in Streams
             PROVE  Len(read'[t]) <= arrived'[t] /\ arrived'[t] <= Len(sent'[t])
  BY DEF Bounds
<1>1. arrived[t] \in Nat /\ Len(sent[t]) \in Nat
  BY LengthIsNat DEF TypeOK
<1>2. Len(sent'[t]) \in Nat
  BY LenProperties DEF TypeOK
<1>3. Len(read[t]) <= arrived[t] /\ arrived[t] <= Len(sent[t])
      /\ Len(sent[t]) <= Len(sent'[t])
  BY DEF Bounds
<1> QED
  BY <1>1, <1>2, <1>3

\* What the write methods have in common.
LEMMA WritingType ==
  ASSUME TypeOK, Bounds, NEW s \in Streams, NEW n \in Nat, Writing(s, n),
         QuinnWrite(s, Data(s, n)),
         accepted' \in [Streams -> Nat],
         write_buffer' \in [Streams -> Seq(Nat)],
         mishaps' \in [Streams -> SUBSET Mishaps]
  PROVE  TypeOK' /\ Bounds'
<1>1. Data(s, n) \in Seq(Nat)
  BY DataIsSeq
<1>2. UNCHANGED <<sending, writable, readerVars>>
  BY DEF Writing
<1>3. TypeOK'
  BY <1>1, <1>2, QuinnWriteType DEF TypeOK, readerVars
<1>4. Bounds'
  BY <1>1, <1>2, <1>3, QuinnWriteType, SentGrows DEF readerVars
<1> QED
  BY <1>3, <1>4

LEMMA WriteType ==
  ASSUME TypeOK, Bounds, NEW s \in Streams, NEW n \in Bytes(s), Write(s, n)
  PROVE  TypeOK' /\ Bounds'
<1>1. n \in Nat /\ Taken(s, n) \in 0..n
  BY TransferAssumption, TakenIsLeast DEF Bytes
<1>2. Writing(s, n) /\ QuinnWrite(s, Data(s, n)) /\ UNCHANGED write_buffer
      /\ accepted' = [accepted EXCEPT ![s] = @ + Taken(s, n)]
      /\ Mishap(s, WriteMishaps(s, First(Data(s, n), Taken(s, n)), write_buffer[s]))
  BY DEF Write
<1>3. mishaps' \in [Streams -> SUBSET Mishaps]
  BY <1>2, WriteMishapsType, MishapsType
<1>4. accepted' \in [Streams -> Nat] /\ write_buffer' \in [Streams -> Seq(Nat)]
  BY <1>1, <1>2 DEF TypeOK
<1> QED
  BY <1>1, <1>2, <1>3, <1>4, WritingType

LEMMA RemainderType ==
  ASSUME NEW data \in Seq(Nat), NEW k \in 0..Len(data)
  PROVE  Remainder(data, k) \in Seq(Nat)
<1>1. CASE k = Len(data)
  BY <1>1 DEF Remainder
<1>2. CASE k # Len(data)
  <2>1. Len(data) - k \in 0..Len(data)
    BY LenProperties
  <2>2. Unsent(data, Len(data) - k) \in Seq(Nat)
    BY <2>1, FirstAndFrom
  <2> QED
    BY <1>2, <2>2 DEF Remainder, Unsent
<1> QED
  BY <1>1, <1>2

LEMMA WriteAllType ==
  ASSUME TypeOK, Bounds, NEW s \in Streams, NEW n \in Bytes(s), WriteAll(s, n)
  PROVE  TypeOK' /\ Bounds'
<1>1. n \in Nat /\ Taken(s, n) \in 0..n
      /\ Data(s, n) \in Seq(Nat) /\ Len(Data(s, n)) = n
  BY TransferAssumption, TakenIsLeast, DataIsSeq DEF Bytes
<1> DEFINE buffered == IF Taken(s, n) = 0 THEN Data(s, n)
                       ELSE Remainder(Data(s, n), Taken(s, n))
           what == WriteMishaps(s, Data(s, n), write_buffer[s]) \cup Lateness(s)
                     \cup (IF Taken(s, n) \in 1..(n - 1) THEN {"sliced"} ELSE {})
<1>2. Writing(s, n) /\ QuinnWrite(s, Data(s, n))
      /\ accepted' = [accepted EXCEPT ![s] = @ + n]
      /\ write_buffer' = [write_buffer EXCEPT ![s] = @ \o buffered]
      /\ Mishap(s, what)
  BY DEF WriteAll
<1>3. buffered \in Seq(Nat)
  BY <1>1, RemainderType
<1>4. what \in SUBSET Mishaps
  BY WriteMishapsType DEF Mishaps, Lateness
<1> HIDE DEF buffered, what
<1>5. mishaps' \in [Streams -> SUBSET Mishaps]
  BY <1>2, <1>4, MishapsType
<1>6. accepted' \in [Streams -> Nat]
  BY <1>1, <1>2 DEF TypeOK
<1>7. write_buffer[s] \o buffered \in Seq(Nat)
  BY <1>3, ConcatProperties DEF TypeOK
<1>8. write_buffer' \in [Streams -> Seq(Nat)]
  BY <1>2, <1>7 DEF TypeOK
<1> QED
  BY <1>1, <1>2, <1>5, <1>6, <1>8, WritingType

LEMMA WriteAllChunksType ==
  ASSUME TypeOK, Bounds, NEW s \in Streams, NEW n \in Bytes(s),
         WriteAllChunks(s, n)
  PROVE  TypeOK' /\ Bounds'
<1>1. n \in Nat /\ Taken(s, n) \in 0..n
      /\ Data(s, n) \in Seq(Nat) /\ Len(Data(s, n)) = n
  BY TransferAssumption, TakenIsLeast, DataIsSeq DEF Bytes
<1>2. Writing(s, n) /\ QuinnWrite(s, Data(s, n))
      /\ accepted' = [accepted EXCEPT ![s] = @ + n]
      /\ write_buffer' = [write_buffer EXCEPT ![s] =
             @ \o Unsent(Data(s, n), Taken(s, n))]
      /\ Mishap(s, WriteMishaps(s, Data(s, n), write_buffer[s]) \cup Lateness(s))
  BY DEF WriteAllChunks
<1>3. Unsent(Data(s, n), Taken(s, n)) \in Seq(Nat)
  BY <1>1, FirstAndFrom
<1>4. mishaps' \in [Streams -> SUBSET Mishaps]
  <2>1. WriteMishaps(s, Data(s, n), write_buffer[s]) \cup Lateness(s)
          \in SUBSET Mishaps
    BY WriteMishapsType DEF Mishaps, Lateness
  <2> QED
    BY <1>2, <2>1, MishapsType
<1>5. accepted' \in [Streams -> Nat] /\ write_buffer' \in [Streams -> Seq(Nat)]
  BY <1>1, <1>2, <1>3, ConcatProperties DEF TypeOK
<1> QED
  BY <1>1, <1>2, <1>4, <1>5, WritingType

LEMMA EndType ==
  ASSUME TypeOK, Bounds, NEW s \in Streams,
         NEW how \in {"finished", "reset", "abandoned", "stopped"}, End(s, how)
  PROVE  TypeOK' /\ Bounds'
<1>1. (IF write_buffer[s] # <<>> THEN {"cut"} ELSE {}) \in SUBSET Mishaps
  BY DEF Mishaps
<1>2. mishaps' \in [Streams -> SUBSET Mishaps]
  BY <1>1, MishapsType DEF End
<1>3. sending' \in [Streams -> {"unopened", "open", "finished", "reset",
                                "abandoned", "stopped"}]
  BY DEF End, TypeOK
<1>4. UNCHANGED <<accepted, write_buffer, quinnVars, readerVars>>
  BY DEF End
<1> QED
  BY <1>2, <1>3, <1>4 DEF TypeOK, Bounds, quinnVars, readerVars

LEMMA FlushType ==
  ASSUME TypeOK, Bounds, NEW s \in Streams, Flush(s)
  PROVE  TypeOK' /\ Bounds'
<1>1. writable' \in SUBSET Streams /\ UNCHANGED <<accepted, sending, readerVars>>
  BY DEF Flush, TypeOK
<1>2. CASE sending[s] = "open"
  <2>1. QuinnWrite(s, write_buffer[s]) /\ write_buffer[s] \in Seq(Nat)
        /\ Mishap(s, WriteMishaps(s, write_buffer[s], <<>>))
    BY <1>2 DEF Flush, TypeOK
  <2>2. Taken(s, Len(write_buffer[s])) \in 0..Len(write_buffer[s])
    BY LengthIsNat, TakenIsLeast
  <2>3. Unsent(write_buffer[s], Taken(s, Len(write_buffer[s]))) \in Seq(Nat)
    BY <2>1, <2>2, FirstAndFrom
  <2>4. write_buffer' \in [Streams -> Seq(Nat)]
    BY <1>2, <2>3 DEF Flush, TypeOK
  <2>5. mishaps' \in [Streams -> SUBSET Mishaps]
    BY <2>1, WriteMishapsType, MishapsType
  <2>6. TypeOK'
    BY <1>1, <2>1, <2>4, <2>5, QuinnWriteType DEF TypeOK, readerVars
  <2>7. Bounds'
    BY <1>1, <2>1, <2>6, QuinnWriteType, SentGrows DEF readerVars
  <2> QED
    BY <2>6, <2>7
<1>3. CASE sending[s] # "open"
  <2>1. UNCHANGED <<sent, credit, conn_credit, conn_blocked, write_buffer, mishaps>>
    BY <1>3 DEF Flush
  <2> QED
    BY <1>1, <2>1 DEF TypeOK, Bounds, readerVars
<1> QED
  BY <1>2, <1>3

LEMMA QuinnType ==
  ASSUME TypeOK, Bounds, NEW s \in Streams, Quinn(s)
  PROVE  TypeOK' /\ Bounds'
<1>1. CASE GrantStream(s)
  <2>1. granted[s] \in Nat /\ credit[s] + granted[s] \in Nat
    BY DEF TypeOK
  <2>2. granted' \in [Streams -> Nat] /\ credit' \in [Streams -> Nat]
    BY <1>1, <2>1 DEF GrantStream, TypeOK
  <2>3. writable' \in SUBSET Streams /\ conn_blocked' \in SUBSET Streams
    BY <1>1 DEF GrantStream, TypeOK
  <2>4. UNCHANGED <<senderVars, sent, conn_credit, arrived, ended, reading, read,
                    told, conn_granted, mishaps>>
    BY <1>1 DEF GrantStream
  <2> QED
    BY <2>2, <2>3, <2>4 DEF TypeOK, Bounds, senderVars
<1>2. CASE UnblockStream(s)
  BY <1>2 DEF UnblockStream, TypeOK, Bounds, senderVars, readerVars
<1>3. CASE Arrive(s)
  <2>1. arrived[s] \in Nat /\ arrived[s] + 1 <= Len(sent[s])
        /\ Len(read[s]) <= arrived[s] /\ Len(read[s]) \in Nat
        /\ Len(sent[s]) \in Nat
    BY <1>3, LengthIsNat, CountsAre, BoundsAre DEF Arrive
  <2>2. arrived' = [arrived EXCEPT ![s] = arrived[s] + 1]
        /\ arrived' \in [Streams -> Nat]
    BY <1>3, <2>1 DEF Arrive, TypeOK
  <2>3. conn_granted' \in Nat
    BY <1>3 DEF Arrive, TypeOK
  <2>4. UNCHANGED <<senderVars, quinnVars, ended, reading, read, told, granted,
                    mishaps>>
    BY <1>3 DEF Arrive
  <2>5. TypeOK'
    BY <2>2, <2>3, <2>4 DEF TypeOK, senderVars, quinnVars
  <2>6. ASSUME NEW t \in Streams
        PROVE  Len(read[t]) <= arrived'[t] /\ arrived'[t] <= Len(sent[t])
    <3>1. CASE t = s
      BY <2>1, <2>2, <3>1 DEF TypeOK
    <3>2. CASE t # s
      BY <2>2, <3>2 DEF TypeOK, Bounds
    <3> QED
      BY <3>1, <3>2
  <2> QED
    BY <2>4, <2>5, <2>6 DEF Bounds, quinnVars
<1>4. CASE FinArrives(s)
  BY <1>4 DEF FinArrives, TypeOK, Bounds, senderVars, quinnVars
<1>5. CASE ResetArrives(s)
  <2>1. Len(read[s]) \in Nat /\ Len(sent[s]) \in Nat /\ arrived[s] \in Nat
        /\ Len(read[s]) <= arrived[s] /\ arrived[s] <= Len(sent[s])
    BY LengthIsNat DEF TypeOK, Bounds
  <2>2. arrived' = [arrived EXCEPT ![s] = Len(read[s])]
        /\ arrived' \in [Streams -> Nat]
    BY <1>5, <2>1 DEF ResetArrives, TypeOK
  <2>3. conn_granted' \in Nat
    BY <1>5, <2>1 DEF ResetArrives, TypeOK
  <2>4. ended' \in [Streams -> {"unknown", "finished", "reset"}]
    BY <1>5 DEF ResetArrives, TypeOK
  <2>5. UNCHANGED <<senderVars, quinnVars, reading, read, told, granted, mishaps>>
    BY <1>5 DEF ResetArrives
  <2>6. TypeOK'
    BY <2>2, <2>3, <2>4, <2>5 DEF TypeOK, senderVars, quinnVars
  <2>7. ASSUME NEW t \in Streams
        PROVE  Len(read[t]) <= arrived'[t] /\ arrived'[t] <= Len(sent[t])
    <3>1. CASE t = s
      BY <2>1, <2>2, <3>1 DEF TypeOK
    <3>2. CASE t # s
      BY <2>2, <3>2 DEF TypeOK, Bounds
    <3> QED
      BY <3>1, <3>2
  <2> QED
    BY <2>5, <2>6, <2>7 DEF Bounds, quinnVars
<1>6. CASE StopArrives(s)
  BY <1>6, EndType DEF StopArrives
<1> QED
  BY <1>1, <1>2, <1>3, <1>4, <1>5, <1>6 DEF Quinn

LEMMA SliceIs ==
  ASSUME NEW q \in Seq(Nat), NEW m \in Nat, NEW n \in Nat, m + n <= Len(q)
  PROVE  SubSeq(q, m + 1, m + n) \in Seq(Nat) /\ Len(SubSeq(q, m + 1, m + n)) = n
<1>1. Len(q) \in Nat
  BY LenProperties
<1>2. m + 1 \in 1..Len(q) + 1 /\ m + n \in (m + 1 - 1)..Len(q)
  BY <1>1
<1>3. \A i \in m + 1..m + n : q[i] \in Nat
  <2> SUFFICES ASSUME NEW i \in m + 1..m + n PROVE q[i] \in Nat
    OBVIOUS
  <2>1. i \in 1..Len(q)
    BY <1>1
  <2> QED
    BY <2>1, ElementOfSeq
<1>4. SubSeq(q, m + 1, m + n) \in Seq(Nat)
  BY <1>2, <1>3, SubSeqProperties
<1>5. Len(SubSeq(q, m + 1, m + n)) = n
  BY <1>2, <1>3, SubSeqProperties
<1> QED
  BY <1>4, <1>5

\* What the reader gets next is a piece of what has arrived.
LEMMA GotIs ==
  ASSUME TypeOK, Bounds, NEW s \in Streams, NEW n \in Nat, n <= Available(s),
         Got(s, n)
  PROVE  /\ read' \in [Streams -> Seq(Nat)]
         /\ granted' \in [Streams -> Nat] /\ conn_granted' \in Nat
         /\ \A t \in Streams : t # s => read'[t] = read[t]
         /\ read'[s] = read[s] \o SubSeq(sent[s], Len(read[s]) + 1, Len(read[s]) + n)
         /\ Len(read'[s]) = Len(read[s]) + n
<1> DEFINE more == SubSeq(sent[s], Len(read[s]) + 1, Len(read[s]) + n)
<1>1. Len(read[s]) \in Nat /\ arrived[s] \in Nat /\ Len(sent[s]) \in Nat
      /\ Len(read[s]) + n <= Len(sent[s])
  BY LengthIsNat, CountsAre, BoundsAre DEF Available
<1>2. sent[s] \in Seq(Nat)
  BY CountsAre
<1>3. more \in Seq(Nat) /\ Len(more) = n
  <2> DEFINE m == Len(read[s])
             q == sent[s]
  <2>1. more = SubSeq(q, m + 1, m + n)
    OBVIOUS
  <2>2. m \in Nat /\ q \in Seq(Nat) /\ m + n <= Len(q)
    BY <1>1, <1>2
  <2> HIDE DEF more, m, q
  <2>3. SubSeq(q, m + 1, m + n) \in Seq(Nat)
    BY <2>2, SliceIs
  <2>4. Len(SubSeq(q, m + 1, m + n)) = n
    BY <2>2, SliceIs
  <2> QED
    BY <2>1, <2>3, <2>4
<1> HIDE DEF more
<1>4. read[s] \in Seq(Nat)
  BY CountsAre
<1>5. read[s] \o more \in Seq(Nat) /\ Len(read[s] \o more) = Len(read[s]) + n
  BY <1>3, <1>4, ConcatProperties
<1>6. read' = [read EXCEPT ![s] = read[s] \o more]
  BY DEF Got, more
<1>7. granted[s] \in Nat /\ granted \in [Streams -> Nat] /\ conn_granted \in Nat
      /\ read \in [Streams -> Seq(Nat)]
  BY DEF TypeOK
<1>8. granted' \in [Streams -> Nat] /\ conn_granted' \in Nat
  BY <1>7 DEF Got
<1>9. read' \in [Streams -> Seq(Nat)] /\ read'[s] = read[s] \o more
      /\ \A t \in Streams : t # s => read'[t] = read[t]
  BY <1>5, <1>6, <1>7
<1> QED
  BY <1>5, <1>8, <1>9 DEF more

LEMMA GotType ==
  ASSUME TypeOK, Bounds, NEW s \in Streams, NEW n \in Nat, n <= Available(s),
         Got(s, n), UNCHANGED <<senderVars, quinnVars, arrived, ended>>,
         reading' \in [Streams -> {"open", "freed", "stopped"}],
         told' = told, mishaps' \in [Streams -> SUBSET Mishaps]
  PROVE  TypeOK' /\ Bounds'
<1>1. read' \in [Streams -> Seq(Nat)] /\ granted' \in [Streams -> Nat]
      /\ conn_granted' \in Nat
  BY GotIs
<1>2. TypeOK'
  BY <1>1 DEF TypeOK, senderVars, quinnVars
<1>3. ASSUME NEW t \in Streams
      PROVE  Len(read'[t]) <= arrived[t] /\ arrived[t] <= Len(sent[t])
  <2>1. arrived[t] <= Len(sent[t]) /\ Len(read[t]) <= arrived[t]
    BY DEF Bounds
  <2>2. CASE t = s
    <3>1. Len(read'[s]) = Len(read[s]) + n
      BY GotIs
    <3>2. arrived[s] \in Nat /\ Len(read[s]) \in Nat
          /\ n <= arrived[s] - Len(read[s])
      BY LengthIsNat DEF TypeOK, Available
    <3> QED
      BY <2>1, <2>2, <3>1, <3>2
  <2>3. CASE t # s
    BY <2>1, <2>3, GotIs
  <2> QED
    BY <2>2, <2>3
<1> QED
  BY <1>2, <1>3 DEF Bounds, quinnVars

LEMMA ReaderType ==
  ASSUME TypeOK, Bounds, NEW s \in Streams, Reader(s)
  PROVE  TypeOK' /\ Bounds'
<1>1. arrived[s] \in Nat /\ Len(read[s]) \in Nat /\ Available(s) \in Nat
      /\ Len(read[s]) + Available(s) = arrived[s]
  BY LengthIsNat DEF TypeOK, Bounds, Available
<1>2. ASSUME NEW n \in Bytes(s), ReadChunk(s, n)
      PROVE  TypeOK' /\ Bounds'
  <2>1. n \in Nat /\ n <= Available(s) /\ Got(s, n)
    BY <1>1, <1>2 DEF ReadChunk
  <2>2. UNCHANGED <<senderVars, quinnVars, arrived, ended, reading, told, mishaps>>
    BY <1>2 DEF ReadChunk
  <2> QED
    BY <2>1, <2>2, GotType DEF TypeOK
<1>3. ASSUME NEW n \in Bytes(s), Read(s, n)
      PROVE  TypeOK' /\ Bounds'
  <2> DEFINE k == Least(n, Available(s))
  <2>1. n \in Nat /\ k \in Nat /\ k <= Available(s) /\ Got(s, k)
    BY <1>1, <1>3, TransferAssumption DEF Read, Least, Bytes
  <2> HIDE DEF k
  <2>2. reading' \in [Streams -> {"open", "freed", "stopped"}]
    <3>1. reading \in [Streams -> {"open", "freed", "stopped"}]
      BY DEF TypeOK
    <3>2. reading' = reading \/ reading' = [reading EXCEPT ![s] = "freed"]
      BY <1>3 DEF Read, MeetEnd
    <3> QED
      BY <3>1, <3>2
  <2>3. mishaps' \in [Streams -> SUBSET Mishaps]
    BY <1>3, MishapsType DEF Read, Mishaps, TypeOK
  <2>4. UNCHANGED <<senderVars, quinnVars, arrived, ended, told>>
    BY <1>3 DEF Read
  <2> QED
    BY <2>1, <2>2, <2>3, <2>4, GotType DEF TypeOK
<1>4. CASE ReadEnd(s)
  BY <1>4 DEF ReadEnd, AtEnd, MeetEnd, Tell, TypeOK, Bounds, senderVars, quinnVars
<1>5. CASE ReadClosed(s)
  BY <1>5 DEF ReadClosed, Tell, TypeOK, Bounds, senderVars, quinnVars
<1>6. CASE Stop(s)
  <2>1. reading' \in [Streams -> {"open", "freed", "stopped"}]
        /\ conn_granted' \in Nat
    BY <1>1, <1>6 DEF Stop, TypeOK
  <2>2. UNCHANGED <<senderVars, quinnVars, arrived, ended, read, told, granted,
                    mishaps>>
    BY <1>6 DEF Stop
  <2> QED
    BY <2>1, <2>2 DEF TypeOK, Bounds, senderVars, quinnVars
<1> QED
  BY <1>2, <1>3, <1>4, <1>5, <1>6 DEF Reader

LEMMA WriterType ==
  ASSUME TypeOK, Bounds, NEW s \in Streams, Writer(s)
  PROVE  TypeOK' /\ Bounds'
<1>1. CASE Open(s)
  BY <1>1 DEF Open, TypeOK, Bounds, quinnVars, readerVars
<1>2. CASE Finish(s)
  BY <1>2, EndType DEF Finish
<1>3. CASE Reset(s)
  BY <1>3, EndType DEF Reset
<1> QED
  BY <1>1, <1>2, <1>3, WriteType, WriteAllType, WriteAllChunksType DEF Writer

LEMMA NextType == TypeOK /\ Bounds /\ [Next]_vars => TypeOK' /\ Bounds'
<1> SUFFICES ASSUME TypeOK, Bounds, [Next]_vars PROVE TypeOK' /\ Bounds'
  OBVIOUS
<1>1. CASE GrantConnection
  BY <1>1 DEF GrantConnection, TypeOK, Bounds, senderVars
<1>2. CASE UNCHANGED vars
  BY <1>2 DEF TypeOK, Bounds, vars, senderVars, quinnVars, readerVars
<1> QED
  BY <1>1, <1>2, WriterType, FlushType, QuinnType, ReaderType DEF Next

\* The variables of a connection's streams keep their types, and nothing is read
\* before it has arrived or arrives before quinn took it, whatever writes,
\* flushes, grants and ends do (streams.rs:27-345, connection.rs:865-877).
THEOREM TypeCorrect == Spec => [](TypeOK /\ Bounds)
<1>1. Init => TypeOK /\ Bounds
  BY InitType
<1>2. TypeOK /\ Bounds /\ [Next]_vars => TypeOK' /\ Bounds'
  BY NextType
<1> QED
  BY <1>1, <1>2, PTL DEF Spec

-----------------------------------------------------------------------------
(* What one step does to the bytes of one stream *)

StreamStep(s) == Writer(s) \/ Flush(s) \/ Quinn(s) \/ Reader(s)

Same(s) ==
    /\ accepted'[s] = accepted[s] /\ write_buffer'[s] = write_buffer[s]
    /\ sending'[s] = sending[s] /\ sent'[s] = sent[s]
    /\ arrived'[s] = arrived[s] /\ ended'[s] = ended[s]
    /\ reading'[s] = reading[s] /\ read'[s] = read[s]
    /\ told'[s] = told[s] /\ mishaps'[s] = mishaps[s]

LEMMA WritingElsewhere ==
  ASSUME TypeOK, NEW s \in Streams, NEW t \in Streams, t # s, NEW n \in Nat,
         Write(s, n) \/ WriteAll(s, n) \/ WriteAllChunks(s, n)
  PROVE  Same(t)
<1>1. Writing(s, n) /\ QuinnWrite(s, Data(s, n))
  BY DEF Write, WriteAll, WriteAllChunks
<1>2. sent'[t] = sent[t]
  BY <1>1 DEF QuinnWrite, TypeOK
<1>3. accepted'[t] = accepted[t]
  BY DEF Write, WriteAll, WriteAllChunks, TypeOK
<1>4. write_buffer'[t] = write_buffer[t]
  BY DEF Write, WriteAll, WriteAllChunks, TypeOK
<1>5. mishaps'[t] = mishaps[t]
  BY DEF Write, WriteAll, WriteAllChunks, Mishap, TypeOK
<1> QED
  BY <1>1, <1>2, <1>3, <1>4, <1>5 DEF Same, Writing, readerVars

\* A step of one stream leaves the others alone.
LEMMA Elsewhere ==
  ASSUME TypeOK, NEW s \in Streams, NEW t \in Streams, t # s, StreamStep(s)
  PROVE  Same(t)
<1>1. ASSUME NEW how, End(s, how) PROVE Same(t)
  BY <1>1 DEF End, Mishap, Same, TypeOK, quinnVars, readerVars
<1>2. CASE Writer(s)
  <2>1. CASE Open(s)
    BY <2>1 DEF Open, Same, TypeOK, quinnVars, readerVars
  <2> QED
    BY <1>1, <1>2, <2>1, WritingElsewhere, TransferAssumption
    DEF Writer, Finish, Reset, Bytes
<1>3. CASE Flush(s)
  <2>1. CASE sending[s] = "open"
    <3>1. QuinnWrite(s, write_buffer[s])
          /\ Mishap(s, WriteMishaps(s, write_buffer[s], <<>>))
      BY <1>3, <2>1 DEF Flush
    <3>2. sent'[t] = sent[t] /\ mishaps'[t] = mishaps[t]
      BY <3>1 DEF QuinnWrite, Mishap, TypeOK
    <3>3. write_buffer'[t] = write_buffer[t]
      BY <1>3, <2>1 DEF Flush, TypeOK
    <3> QED
      BY <1>3, <3>2, <3>3 DEF Flush, Same, readerVars
  <2>2. CASE sending[s] # "open"
    BY <1>3, <2>2 DEF Flush, Same, readerVars
  <2> QED
    BY <2>1, <2>2
<1>4. CASE Quinn(s)
  <2>1. CASE GrantStream(s) \/ UnblockStream(s)
    BY <2>1 DEF GrantStream, UnblockStream, Same, senderVars, readerVars
  <2>2. CASE Arrive(s)
    BY <2>2 DEF Arrive, Same, senderVars, quinnVars, TypeOK
  <2>3. CASE FinArrives(s)
    BY <2>3 DEF FinArrives, Same, senderVars, quinnVars, TypeOK
  <2>4. CASE ResetArrives(s)
    BY <2>4 DEF ResetArrives, Same, senderVars, quinnVars, TypeOK
  <2> QED
    BY <1>1, <1>4, <2>1, <2>2, <2>3, <2>4 DEF Quinn, StopArrives
<1>5. CASE Reader(s)
  <2>1. ASSUME NEW n, Got(s, n) PROVE read'[t] = read[t]
    BY <2>1 DEF Got, TypeOK
  <2>2. MeetEnd(s) => reading'[t] = reading[t]
    BY DEF MeetEnd, TypeOK
  <2>3. ASSUME NEW what, Tell(s, what) PROVE told'[t] = told[t]
    BY <2>3 DEF Tell, TypeOK
  <2>4. ASSUME NEW n, ReadChunk(s, n) PROVE Same(t)
    BY <2>1, <2>4 DEF ReadChunk, Same, senderVars, quinnVars
  <2>5. ASSUME NEW n, Read(s, n) PROVE Same(t)
    <3>1. mishaps'[t] = mishaps[t]
      BY <2>5 DEF Read, Mishap, TypeOK
    <3>2. read'[t] = read[t]
      BY <2>1, <2>5 DEF Read
    <3>3. reading'[t] = reading[t]
      BY <2>2, <2>5 DEF Read
    <3> QED
      BY <2>5, <3>1, <3>2, <3>3 DEF Read, Same, senderVars, quinnVars
  <2>6. CASE ReadEnd(s)
    BY <2>2, <2>3, <2>6 DEF ReadEnd, Same, senderVars, quinnVars
  <2>7. CASE ReadClosed(s)
    BY <2>3, <2>7 DEF ReadClosed, Same, senderVars, quinnVars
  <2>8. CASE Stop(s)
    BY <2>8 DEF Stop, Same, senderVars, quinnVars, TypeOK
  <2> QED
    BY <1>5, <2>4, <2>5, <2>6, <2>7, <2>8 DEF Reader
<1> QED
  BY <1>2, <1>3, <1>4, <1>5 DEF StreamStep

\* A write puts n new bytes into quinn's stream, the first k, and the buffer.
Puts(s, n, k) ==
    /\ sent'[s] = sent[s] \o Data(s, k)
    /\ write_buffer'[s] = write_buffer[s] \o Unsent(Data(s, n), k)
    /\ accepted'[s] = accepted[s] + n
    /\ \/ k = 0
       \/ write_buffer[s] = <<>>
       \/ "overtaken" \in mishaps'[s]

\* A flush moves k bytes from the buffer to quinn's stream.
Moves(s, k) ==
    /\ sent'[s] = sent[s] \o First(write_buffer[s], k)
    /\ write_buffer'[s] = Unsent(write_buffer[s], k)
    /\ accepted'[s] = accepted[s]

\* Any other step but a slicing write_all.
Rests(s) ==
    /\ sent'[s] = sent[s]
    /\ write_buffer'[s] = write_buffer[s]
    /\ accepted'[s] = accepted[s]

LEMMA MishapIs ==
  ASSUME TypeOK, NEW s \in Streams, NEW what, Mishap(s, what)
  PROVE  mishaps'[s] = mishaps[s] \cup what
  BY DEF TypeOK, Mishap

LEMMA WriteMishapsIs ==
  ASSUME NEW s, NEW data, NEW waiting, Taken(s, Len(data)) \in Nat
  PROVE  \/ Taken(s, Len(data)) = 0
         \/ waiting = <<>>
         \/ "overtaken" \in WriteMishaps(s, data, waiting)
  BY DEF WriteMishaps

LEMMA QuinnWriteIs ==
  ASSUME TypeOK, NEW s \in Streams, NEW n \in Nat, QuinnWrite(s, Data(s, n))
  PROVE  sent'[s] = sent[s] \o Data(s, Taken(s, n))
<1>1. Len(Data(s, n)) = n /\ Taken(s, n) \in 0..n
  BY DataIsSeq, TakenIsLeast
<1>2. First(Data(s, n), Taken(s, n)) = Data(s, Taken(s, n))
  BY <1>1, FirstOfData
<1>3. sent'[s] = sent[s] \o First(Data(s, n), Taken(s, n))
  BY <1>1 DEF QuinnWrite, TypeOK
<1> QED
  BY <1>2, <1>3

LEMMA WritePuts ==
  ASSUME TypeOK, NEW s \in Streams, NEW n \in Nat, Write(s, n)
  PROVE  Puts(s, Taken(s, n), Taken(s, n)) /\ Taken(s, n) \in Nat
<1> DEFINE k == Taken(s, n)
<1>1. k \in 0..n /\ Taken(s, k) = k
  BY TakenIsLeast DEF Taken, Least, TypeOK
<1>2. First(Data(s, n), k) = Data(s, k) /\ Len(Data(s, k)) = k
      /\ Data(s, k) \in Seq(Nat)
  BY <1>1, FirstOfData, DataIsSeq
<1>3. sent'[s] = sent[s] \o Data(s, k)
  BY QuinnWriteIs DEF Write
<1>4. Unsent(Data(s, k), k) = <<>> /\ write_buffer[s] \o <<>> = write_buffer[s]
  BY <1>2, NothingUnsent DEF TypeOK
<1>5. mishaps'[s] = mishaps[s] \cup WriteMishaps(s, Data(s, k), write_buffer[s])
  BY <1>2, MishapIs DEF Write
<1>6. k = 0 \/ write_buffer[s] = <<>> \/ "overtaken" \in mishaps'[s]
  BY <1>1, <1>2, <1>5, WriteMishapsIs
<1>7. accepted'[s] = accepted[s] + k
  BY DEF Write, TypeOK
<1>8. write_buffer'[s] = write_buffer[s] \o Unsent(Data(s, k), k)
  BY <1>4 DEF Write
<1> HIDE DEF k
<1> QED
  BY <1>1, <1>3, <1>6, <1>7, <1>8 DEF Puts, k

LEMMA WriteAllPuts ==
  ASSUME TypeOK, NEW s \in Streams, NEW n \in Nat, WriteAll(s, n)
  PROVE  Puts(s, n, Taken(s, n)) \/ "sliced" \in mishaps'[s]
<1> DEFINE k == Taken(s, n)
           sliced == IF Taken(s, n) \in 1..(n - 1) THEN {"sliced"} ELSE {}
<1>1. k \in 0..n /\ Len(Data(s, n)) = n /\ Data(s, n) \in Seq(Nat)
  BY TakenIsLeast, DataIsSeq
<1>2. mishaps'[s] = mishaps[s] \cup
        (WriteMishaps(s, Data(s, n), write_buffer[s]) \cup Lateness(s) \cup sliced)
  BY MishapIs DEF WriteAll
<1>3. CASE k \in 1..(n - 1)
  BY <1>2, <1>3
<1>4. CASE k = 0 \/ k = n
  <2>1. sent'[s] = sent[s] \o Data(s, k)
    BY QuinnWriteIs DEF WriteAll
  <2>2. k = 0 \/ write_buffer[s] = <<>> \/ "overtaken" \in mishaps'[s]
    BY <1>1, <1>2, WriteMishapsIs
  <2>3. accepted'[s] = accepted[s] + n
    BY DEF WriteAll, TypeOK
  <2>4. write_buffer'[s] = write_buffer[s] \o
          IF k = 0 THEN Data(s, n) ELSE Remainder(Data(s, n), k)
    BY DEF WriteAll, TypeOK
  <2>5. Data(s, n) = Unsent(Data(s, n), 0)
    BY <1>1, SubSeqFull DEF Unsent, From
  <2>6. Unsent(Data(s, n), n) = <<>>
    BY <1>1, NothingUnsent
  <2>7. k # 0 => Remainder(Data(s, n), k) = Unsent(Data(s, n), k)
    BY <1>1, <1>4, <2>6 DEF Remainder
  <2> HIDE DEF k
  <2>8. write_buffer'[s] = write_buffer[s] \o Unsent(Data(s, n), k)
    BY <2>4, <2>5, <2>7
  <2> QED
    BY <2>1, <2>2, <2>3, <2>8 DEF Puts, k
<1> QED
  BY <1>1, <1>3, <1>4

LEMMA WriteAllChunksPuts ==
  ASSUME TypeOK, NEW s \in Streams, NEW n \in Nat, WriteAllChunks(s, n)
  PROVE  Puts(s, n, Taken(s, n))
<1>1. Taken(s, n) \in 0..n /\ Len(Data(s, n)) = n
  BY TakenIsLeast, DataIsSeq
<1>2. mishaps'[s] = mishaps[s] \cup
        (WriteMishaps(s, Data(s, n), write_buffer[s]) \cup Lateness(s))
  BY MishapIs DEF WriteAllChunks
<1>3. sent'[s] = sent[s] \o Data(s, Taken(s, n))
  BY QuinnWriteIs DEF WriteAllChunks
<1>4. Taken(s, n) = 0 \/ write_buffer[s] = <<>> \/ "overtaken" \in mishaps'[s]
  BY <1>1, <1>2, WriteMishapsIs
<1>5. accepted'[s] = accepted[s] + n
      /\ write_buffer'[s] = write_buffer[s] \o Unsent(Data(s, n), Taken(s, n))
  BY DEF WriteAllChunks, TypeOK
<1> QED
  BY <1>3, <1>4, <1>5 DEF Puts

LEMMA FlushMoves ==
  ASSUME TypeOK, NEW s \in Streams, Flush(s)
  PROVE  \/ Rests(s)
         \/ \E k \in 0..Len(write_buffer[s]) : Moves(s, k) /\ sending[s] = "open"
<1>1. CASE sending[s] = "open"
  <2> DEFINE k == Taken(s, Len(write_buffer[s]))
  <2>1. k \in 0..Len(write_buffer[s])
    BY LengthIsNat, TakenIsLeast
  <2>2. sent'[s] = sent[s] \o First(write_buffer[s], k)
    BY <1>1 DEF Flush, QuinnWrite, TypeOK
  <2>3. write_buffer'[s] = Unsent(write_buffer[s], k)
    BY <1>1 DEF Flush, TypeOK
  <2>4. accepted'[s] = accepted[s]
    BY DEF Flush
  <2> HIDE DEF k
  <2> QED
    BY <1>1, <2>1, <2>2, <2>3, <2>4 DEF Moves
<1>2. CASE sending[s] # "open"
  BY <1>2 DEF Flush, Rests
<1> QED
  BY <1>1, <1>2

LEMMA StreamStepIs ==
  ASSUME TypeOK, NEW s \in Streams, StreamStep(s)
  PROVE  /\ mishaps[s] \subseteq mishaps'[s]
         /\ \/ Rests(s)
            \/ \E k \in 0..Len(write_buffer[s]) : Moves(s, k)
            \/ \E n \in Nat : \E k \in 0..n : Puts(s, n, k)
            \/ "sliced" \in mishaps'[s]
<1>1. ASSUME NEW what, Mishap(s, what) PROVE mishaps[s] \subseteq mishaps'[s]
  BY <1>1, MishapIs
<1>2. ASSUME NEW how, End(s, how) PROVE mishaps[s] \subseteq mishaps'[s] /\ Rests(s)
  BY <1>1, <1>2 DEF End, Rests, quinnVars
<1>3. CASE Writer(s)
  <2>1. CASE Open(s)
    BY <2>1 DEF Open, Rests, quinnVars
  <2>2. ASSUME NEW n \in Bytes(s), Write(s, n)
        PROVE  /\ mishaps[s] \subseteq mishaps'[s]
               /\ \E m \in Nat : \E k \in 0..m : Puts(s, m, k)
    <3>1. n \in Nat
      BY TransferAssumption DEF Bytes
    <3>2. Puts(s, Taken(s, n), Taken(s, n)) /\ Taken(s, n) \in Nat
      BY <2>2, <3>1, WritePuts
    <3> QED
      BY <1>1, <2>2, <3>2 DEF Write
  <2>3. ASSUME NEW n \in Bytes(s), WriteAll(s, n)
        PROVE  /\ mishaps[s] \subseteq mishaps'[s]
               /\ \/ \E m \in Nat : \E k \in 0..m : Puts(s, m, k)
                  \/ "sliced" \in mishaps'[s]
    <3>1. n \in Nat /\ Taken(s, n) \in 0..n
      BY TransferAssumption, TakenIsLeast DEF Bytes
    <3> QED
      BY <1>1, <2>3, <3>1, WriteAllPuts DEF WriteAll
  <2>4. ASSUME NEW n \in Bytes(s), WriteAllChunks(s, n)
        PROVE  /\ mishaps[s] \subseteq mishaps'[s]
               /\ \E m \in Nat : \E k \in 0..m : Puts(s, m, k)
    <3>1. n \in Nat /\ Taken(s, n) \in 0..n
      BY TransferAssumption, TakenIsLeast DEF Bytes
    <3> QED
      BY <1>1, <2>4, <3>1, WriteAllChunksPuts DEF WriteAllChunks
  <2> QED
    BY <1>2, <1>3, <2>1, <2>2, <2>3, <2>4 DEF Writer, Finish, Reset
<1>4. CASE Flush(s)
  <2>1. mishaps[s] \subseteq mishaps'[s]
    BY <1>1, <1>4 DEF Flush
  <2> QED
    BY <1>4, <2>1, FlushMoves
<1>5. CASE Quinn(s)
  BY <1>2, <1>5 DEF Quinn, GrantStream, UnblockStream, Arrive, FinArrives,
                   ResetArrives, StopArrives, Rests, senderVars, quinnVars
<1>6. CASE Reader(s)
  <2>1. UNCHANGED <<senderVars, quinnVars>>
    BY <1>6 DEF Reader, ReadChunk, Read, ReadEnd, ReadClosed, Stop
  <2>2. mishaps[s] \subseteq mishaps'[s]
    BY <1>1, <1>6 DEF Reader, ReadChunk, Read, ReadEnd, ReadClosed, Stop
  <2> QED
    BY <2>1, <2>2 DEF Rests, senderVars, quinnVars
<1> QED
  BY <1>3, <1>4, <1>5, <1>6 DEF StreamStep

LEMMA StepIs ==
  ASSUME TypeOK, [Next]_vars, NEW s \in Streams
  PROVE  Same(s) \/ StreamStep(s)
<1>1. CASE GrantConnection
  BY <1>1 DEF GrantConnection, Same, senderVars
<1>2. CASE UNCHANGED vars
  BY <1>2 DEF Same, vars, senderVars, quinnVars, readerVars
<1>3. CASE \E t \in Streams : StreamStep(t)
  BY <1>3, Elsewhere
<1> QED
  BY <1>1, <1>2, <1>3 DEF Next, StreamStep

-----------------------------------------------------------------------------
(* What is kept *)

LEMMA KeptIs ==
  ASSUME TypeOK, NEW s \in Streams
  PROVE  /\ sent[s] \in Seq(Nat) /\ write_buffer[s] \in Seq(Nat)
         /\ Kept(s) \in Seq(Nat)
         /\ Len(Kept(s)) = Len(sent[s]) + Len(write_buffer[s])
         /\ Range(Kept(s)) = Range(sent[s]) \cup Range(write_buffer[s])
<1>1. sent[s] \in Seq(Nat) /\ write_buffer[s] \in Seq(Nat)
  BY DEF TypeOK
<1> QED
  BY <1>1, ConcatProperties, RangeOfConcat DEF Kept

LEMMA MovesKeep ==
  ASSUME TypeOK, NEW s \in Streams, NEW k \in 0..Len(write_buffer[s]), Moves(s, k)
  PROVE  Kept(s)' = Kept(s) /\ accepted'[s] = accepted[s]
<1> DEFINE a == First(write_buffer[s], k)
           b == Unsent(write_buffer[s], k)
<1>1. sent[s] \in Seq(Nat) /\ write_buffer[s] \in Seq(Nat)
  BY KeptIs
<1>2. a \in Seq(Nat) /\ b \in Seq(Nat) /\ a \o b = write_buffer[s]
  BY <1>1, FirstAndFrom
<1>3. sent'[s] = sent[s] \o a /\ write_buffer'[s] = b
      /\ accepted'[s] = accepted[s]
  BY DEF Moves
<1> HIDE DEF a, b
<1>4. (sent[s] \o a) \o b = sent[s] \o (a \o b)
  BY <1>1, <1>2, Regroup
<1> QED
  BY <1>2, <1>3, <1>4 DEF Kept

LEMMA BothGrow ==
  ASSUME NEW q \in Seq(Nat), NEW r \in Seq(Nat),
         NEW u \in Seq(Nat), NEW v \in Seq(Nat)
  PROVE  /\ Len((q \o u) \o (r \o v)) = Len(q \o r) + Len(u \o v)
         /\ Range((q \o u) \o (r \o v)) = Range(q \o r) \cup Range(u \o v)
<1>1. Len(q) \in Nat /\ Len(r) \in Nat /\ Len(u) \in Nat /\ Len(v) \in Nat
  BY LenProperties
<1>2. q \o u \in Seq(Nat) /\ r \o v \in Seq(Nat)
      /\ Len(q \o u) = Len(q) + Len(u) /\ Len(r \o v) = Len(r) + Len(v)
      /\ Len(q \o r) = Len(q) + Len(r) /\ Len(u \o v) = Len(u) + Len(v)
  BY LengthOfConcat
<1>3. Len((q \o u) \o (r \o v)) = Len(q \o u) + Len(r \o v)
  BY <1>2, LengthOfConcat
<1>4. Len((q \o u) \o (r \o v)) = Len(q \o r) + Len(u \o v)
  BY <1>1, <1>2, <1>3
<1>5. Range((q \o u) \o (r \o v)) = Range(q \o r) \cup Range(u \o v)
  <2>1. Range((q \o u) \o (r \o v)) = Range(q \o u) \cup Range(r \o v)
    BY <1>2, RangeOfConcat
  <2>2. Range(q \o u) = Range(q) \cup Range(u)
    BY RangeOfConcat
  <2>3. Range(r \o v) = Range(r) \cup Range(v)
    BY RangeOfConcat
  <2>4. Range(q \o r) = Range(q) \cup Range(r)
    BY RangeOfConcat
  <2>5. Range(u \o v) = Range(u) \cup Range(v)
    BY RangeOfConcat
  <2> QED
    BY <2>1, <2>2, <2>3, <2>4, <2>5
<1> QED
  BY <1>4, <1>5

\* A write keeps its bytes, each once, and in order unless it overtakes.
LEMMA PutsKeep ==
  ASSUME TypeOK, NEW s \in Streams, NEW n \in Nat, NEW k \in 0..n, Puts(s, n, k)
  PROVE  /\ accepted'[s] = accepted[s] + n
         /\ Len(Kept(s)') = Len(Kept(s)) + n
         /\ Range(Kept(s)') =
              Range(Kept(s)) \cup (accepted[s] + 1)..(accepted[s] + n)
         /\ \/ Kept(s)' = Kept(s) \o Data(s, n)
            \/ "overtaken" \in mishaps'[s]
<1> DEFINE q == sent[s]
           r == write_buffer[s]
           u == Data(s, k)
           v == Unsent(Data(s, n), k)
<1>1. q \in Seq(Nat) /\ r \in Seq(Nat)
  BY KeptIs
<1>2. Data(s, n) \in Seq(Nat) /\ Len(Data(s, n)) = n
      /\ First(Data(s, n), k) = u /\ u \in Seq(Nat) /\ Len(u) = k
  BY DataIsSeq, FirstOfData
<1>3. v \in Seq(Nat) /\ u \o v = Data(s, n)
  BY <1>2, FirstAndFrom
<1>4. Kept(s)' = (q \o u) \o (r \o v) /\ Kept(s) = q \o r
      /\ accepted'[s] = accepted[s] + n
      /\ (k = 0 \/ r = <<>> \/ "overtaken" \in mishaps'[s])
  BY DEF Puts, Kept
<1>5. k = 0 => u = <<>>
  BY <1>2, EmptySeq
<1>6. Range(Data(s, n)) = (accepted[s] + 1)..(accepted[s] + n)
  BY RangeOfData
<1> HIDE DEF q, r, u, v
<1>q. q \in Seq(Nat)
  BY <1>1
<1>r. r \in Seq(Nat)
  BY <1>1
<1>u. u \in Seq(Nat)
  BY <1>2
<1>v. v \in Seq(Nat)
  BY <1>3
<1>7. q \in Seq(Nat) /\ r \in Seq(Nat) /\ u \in Seq(Nat) /\ v \in Seq(Nat)
  BY <1>q, <1>r, <1>u, <1>v
<1>8. Len((q \o u) \o (r \o v)) = Len(q \o r) + Len(u \o v)
  BY <1>7, BothGrow
<1>9. Range((q \o u) \o (r \o v)) = Range(q \o r) \cup Range(u \o v)
  BY <1>7, BothGrow
<1>10. ASSUME u = <<>> PROVE Kept(s)' = Kept(s) \o Data(s, n)
  <2>1. q \o u = q
    BY <1>7, <1>10, ConcatEmptySeq
  <2>2. u \o v = v
    BY <1>7, <1>10, ConcatEmptySeq
  <2>3. (q \o r) \o v = q \o (r \o v)
    BY <1>q, <1>r, <1>v, Regroup
  <2>4. Kept(s)' = q \o (r \o v)
    BY <1>4, <2>1
  <2>5. Kept(s) \o Data(s, n) = (q \o r) \o v
    BY <1>3, <1>4, <2>2
  <2> QED
    BY <2>3, <2>4, <2>5
<1>11. ASSUME r = <<>> PROVE Kept(s)' = Kept(s) \o Data(s, n)
  <2>1. r \o v = v
    BY <1>7, <1>11, ConcatEmptySeq
  <2>2. q \o r = q
    BY <1>7, <1>11, ConcatEmptySeq
  <2>3. (q \o u) \o v = q \o (u \o v)
    BY <1>q, <1>u, <1>v, Regroup
  <2>4. Kept(s)' = (q \o u) \o v
    BY <1>4, <2>1
  <2>5. Kept(s) \o Data(s, n) = q \o (u \o v)
    BY <1>3, <1>4, <2>2
  <2> QED
    BY <2>3, <2>4, <2>5
<1> QED
  BY <1>2, <1>3, <1>4, <1>5, <1>6, <1>8, <1>9, <1>10, <1>11

LEMMA InitKeeps ==
  ASSUME Init, NEW s \in Streams
  PROVE  accepted[s] = 0 /\ Kept(s) = <<>> /\ sent[s] = <<>> /\ read[s] = <<>>
<1>1. <<>> \o <<>> = <<>>
  BY EmptySeq, ConcatEmptySeq
<1> QED
  BY <1>1 DEF Init, Kept

LEMMA SameKeeps ==
  ASSUME NEW s \in Streams, Same(s) \/ Rests(s)
  PROVE  Kept(s)' = Kept(s) /\ accepted'[s] = accepted[s]
  BY DEF Same, Rests, Kept

LEMMA SlicesStep ==
  TypeOK /\ TypeOK' /\ OnlySlicesLose /\ [Next]_vars => OnlySlicesLose'
<1> SUFFICES ASSUME TypeOK, TypeOK', OnlySlicesLose, [Next]_vars,
                    NEW s \in Streams, "sliced" \notin mishaps'[s]
             PROVE  /\ Len(Kept(s)') = accepted'[s]
                    /\ Range(Kept(s)') = 1..accepted'[s]
  BY DEF OnlySlicesLose
<1>1. mishaps[s] \subseteq mishaps'[s]
      /\ \/ Same(s) \/ Rests(s)
         \/ \E k \in 0..Len(write_buffer[s]) : Moves(s, k)
         \/ \E n \in Nat : \E k \in 0..n : Puts(s, n, k)
  BY StepIs, StreamStepIs DEF Same
<1>2. accepted[s] \in Nat /\ Len(Kept(s)) = accepted[s]
      /\ Range(Kept(s)) = 1..accepted[s]
  BY <1>1 DEF OnlySlicesLose, TypeOK
<1>3. CASE Same(s) \/ Rests(s) \/ \E k \in 0..Len(write_buffer[s]) : Moves(s, k)
  BY <1>2, <1>3, SameKeeps, MovesKeep
<1>4. ASSUME NEW n \in Nat, NEW k \in 0..n, Puts(s, n, k)
      PROVE  Len(Kept(s)') = accepted'[s] /\ Range(Kept(s)') = 1..accepted'[s]
  <2>1. accepted'[s] = accepted[s] + n /\ Len(Kept(s)') = Len(Kept(s)) + n
        /\ Range(Kept(s)') =
             Range(Kept(s)) \cup (accepted[s] + 1)..(accepted[s] + n)
    BY <1>4, PutsKeep
  <2>2. 1..accepted[s] \cup (accepted[s] + 1)..(accepted[s] + n)
          = 1..(accepted[s] + n)
    BY <1>2
  <2> QED
    BY <1>2, <2>1, <2>2
<1> QED
  BY <1>1, <1>3, <1>4

LEMMA OrderStep ==
  TypeOK /\ TypeOK' /\ OnlyOvertakingReorders /\ [Next]_vars
    => OnlyOvertakingReorders'
<1> SUFFICES ASSUME TypeOK, TypeOK', OnlyOvertakingReorders, [Next]_vars,
                    NEW s \in Streams,
                    "sliced" \notin mishaps'[s], "overtaken" \notin mishaps'[s]
             PROVE  Kept(s)' = InOrderUpTo(accepted'[s])
  BY DEF OnlyOvertakingReorders
<1>1. mishaps[s] \subseteq mishaps'[s]
      /\ \/ Same(s) \/ Rests(s)
         \/ \E k \in 0..Len(write_buffer[s]) : Moves(s, k)
         \/ \E n \in Nat : \E k \in 0..n : Puts(s, n, k)
  BY StepIs, StreamStepIs DEF Same
<1>2. Kept(s) = InOrderUpTo(accepted[s])
  <2>1. mishaps[s] \cap {"sliced", "overtaken"} = {}
    BY <1>1
  <2> QED
    BY <2>1 DEF OnlyOvertakingReorders
<1>3. CASE Same(s) \/ Rests(s) \/ \E k \in 0..Len(write_buffer[s]) : Moves(s, k)
  BY <1>2, <1>3, SameKeeps, MovesKeep
<1>4. ASSUME NEW n \in Nat, NEW k \in 0..n, Puts(s, n, k)
      PROVE  Kept(s)' = InOrderUpTo(accepted'[s])
  <2>1. accepted'[s] = accepted[s] + n /\ Kept(s)' = Kept(s) \o Data(s, n)
    BY <1>4, PutsKeep
  <2> QED
    BY <1>2, <2>1, DataContinues
<1> QED
  BY <1>1, <1>3, <1>4

LEMMA NothingIsKept ==
  Init => OnlySlicesLose /\ OnlyOvertakingReorders
<1> SUFFICES ASSUME Init, NEW s \in Streams
             PROVE  /\ Len(Kept(s)) = accepted[s]
                    /\ Range(Kept(s)) = 1..accepted[s]
                    /\ Kept(s) = InOrderUpTo(accepted[s])
  BY DEF OnlySlicesLose, OnlyOvertakingReorders
<1>1. accepted[s] = 0 /\ Kept(s) = <<>>
  BY InitKeeps
<1>2. InOrderUpTo(0) \in Seq(Nat) /\ Len(InOrderUpTo(0)) = 0
  BY InOrderIsSeq
<1>3. InOrderUpTo(0) = <<>>
  BY <1>2, EmptySeq
<1>4. Range(<<>>) = 1..0 /\ Len(<<>>) = 0
  BY DEF Range
<1> QED
  BY <1>1, <1>3, <1>4

\* Every byte that a write method accepted is in quinn's stream or in the buffer,
\* once, unless a write_all was cut short: no order of writes, flushes and grants
\* of credit loses or repeats any (streams.rs:46-100, connection.rs:865-877).
THEOREM OnlySlicesLoseBytes == Spec => []OnlySlicesLose
<1>1. Init => OnlySlicesLose
  BY NothingIsKept
<1>2. TypeOK /\ TypeOK' /\ OnlySlicesLose /\ [Next]_vars => OnlySlicesLose'
  BY SlicesStep
<1> QED
  BY <1>1, <1>2, TypeCorrect, PTL DEF Spec

\* The stream and the buffer hold the bytes in the order they were written,
\* unless a write_all was cut short or a write went past what was buffered.
THEOREM OnlyOvertakingReordersBytes == Spec => []OnlyOvertakingReorders
<1>1. Init => OnlyOvertakingReorders
  BY NothingIsKept
<1>2. TypeOK /\ TypeOK' /\ OnlyOvertakingReorders /\ [Next]_vars
        => OnlyOvertakingReorders'
  BY OrderStep
<1> QED
  BY <1>1, <1>2, TypeCorrect, PTL DEF Spec

-----------------------------------------------------------------------------
(* What the refinement rests on *)

Within == \A s \in Streams : accepted[s] <= MaxBytes[s]

\* The reader's bytes are the first of quinn's stream.
ReadIsSent == \A s \in Streams : read[s] = First(sent[s], Len(read[s]))

\* The reader learns of an end that the writer made, and of the end of the data
\* when all of it has arrived.
EndIsOfWriter ==
    \A s \in Streams :
        /\ ended[s] = "finished" =>
             sending[s] \in {"finished", "abandoned"} /\ arrived[s] = Len(sent[s])
        /\ ended[s] = "reset" => sending[s] \in {"reset", "abandoned"}

\* Nothing is buffered for a stream that ended with an empty buffer and was not
\* written to after that.
NothingLeft ==
    \A s \in Streams :
        sending[s] # "open" /\ mishaps[s] \cap {"cut", "late"} = {} =>
            write_buffer[s] = <<>>

RefinementInv ==
    /\ TypeOK /\ Bounds /\ OnlyOvertakingReorders
    /\ Within /\ ReadIsSent /\ EndIsOfWriter /\ NothingLeft

LEMMA InitRefinement == Init => RefinementInv
<1> SUFFICES ASSUME Init PROVE RefinementInv
  OBVIOUS
<1>1. TypeOK /\ Bounds /\ OnlyOvertakingReorders
  BY InitType, NothingIsKept
<1>2. Within
  BY TransferAssumption DEF Init, Within
<1>3. ReadIsSent
  <2>1. First(<<>>, Len(<<>>)) = <<>>
    BY EmptySeq, SubSeqEmpty DEF First
  <2> QED
    BY <2>1 DEF Init, ReadIsSent
<1>4. EndIsOfWriter /\ NothingLeft
  BY DEF Init, EndIsOfWriter, NothingLeft
<1> QED
  BY <1>1, <1>2, <1>3, <1>4 DEF RefinementInv

LEMMA WritesGrow ==
  ASSUME TypeOK, NEW s \in Streams, NEW n \in Bytes(s),
         Write(s, n) \/ WriteAll(s, n) \/ WriteAllChunks(s, n)
  PROVE  /\ UNCHANGED <<sending, readerVars>>
         /\ accepted'[s] \in accepted[s]..MaxBytes[s]
         /\ \E more \in Seq(Nat) : sent'[s] = sent[s] \o more
         /\ sending[s] # "open" =>
              /\ sending[s] # "unopened" /\ sent'[s] = sent[s]
              /\ \/ accepted'[s] = accepted[s] /\ write_buffer' = write_buffer
                 \/ "late" \in mishaps'[s]
<1>1. n \in Nat /\ Taken(s, n) \in 0..n /\ accepted[s] \in Nat
      /\ MaxBytes[s] \in Nat
  BY TransferAssumption, TakenIsLeast DEF Bytes, TypeOK
<1>2. Writing(s, n) /\ QuinnWrite(s, Data(s, n))
  BY DEF Write, WriteAll, WriteAllChunks
<1>3. accepted'[s] = accepted[s] + Taken(s, n) \/ accepted'[s] = accepted[s] + n
  BY DEF Write, WriteAll, WriteAllChunks, TypeOK
<1>4. accepted[s] + n <= MaxBytes[s]
  BY <1>2 DEF Writing, Bytes
<1>5. accepted'[s] \in accepted[s]..MaxBytes[s]
  BY <1>1, <1>3, <1>4
<1>6. sent'[s] = sent[s] \o Data(s, Taken(s, n)) /\ Data(s, Taken(s, n)) \in Seq(Nat)
  <2>1. n \in Nat /\ Taken(s, n) \in Nat
    BY <1>1
  <2>2. sent'[s] = sent[s] \o Data(s, Taken(s, n))
    BY <1>2, <2>1, QuinnWriteIs
  <2>3. Data(s, Taken(s, n)) \in Seq(Nat)
    BY <2>1, DataIsSeq
  <2> QED
    BY <2>2, <2>3
<1>7. ASSUME sending[s] # "open"
      PROVE  /\ sending[s] # "unopened" /\ sent'[s] = sent[s]
             /\ \/ accepted'[s] = accepted[s] /\ write_buffer' = write_buffer
                \/ "late" \in mishaps'[s]
  <2>1. sending[s] # "unopened" /\ conn_credit = 0
    BY <1>2, <1>7 DEF Writing
  <2>2. Taken(s, n) = 0
    BY <1>1, <2>1 DEF Taken, Least, TypeOK
  <2>3. sent'[s] = sent[s]
    <3>1. Data(s, 0) = <<>>
      BY DataIsSeq, EmptySeq
    <3> QED
      BY <1>6, <2>2, <3>1, ConcatProperties DEF TypeOK
  <2>4. ASSUME Write(s, n)
        PROVE  accepted'[s] = accepted[s] /\ write_buffer' = write_buffer
    <3>1. accepted'[s] = accepted[s] + Taken(s, n)
      BY <2>4 DEF Write, TypeOK
    <3> QED
      BY <1>1, <2>2, <2>4, <3>1 DEF Write
  <2>5. ASSUME WriteAll(s, n) \/ WriteAllChunks(s, n)
        PROVE  "late" \in mishaps'[s]
    <3>1. Lateness(s) = {"late"}
      BY <1>7 DEF Lateness
    <3>2. PICK what : Mishap(s, what) /\ "late" \in what
      BY <2>5, <3>1 DEF WriteAll, WriteAllChunks
    <3> QED
      BY <3>2, MishapIs
  <2> QED
    BY <2>1, <2>3, <2>4, <2>5
<1> QED
  BY <1>2, <1>5, <1>6, <1>7 DEF Writing

\* What a step shows of its stream to the application.
Quiet(s) ==
    /\ accepted'[s] = accepted[s] /\ read'[s] = read[s] /\ told'[s] = told[s]
    /\ Seen(s).writer' = Seen(s).writer

Grows(s) ==
    /\ sending[s] = "open" /\ sending'[s] = "open"
    /\ accepted'[s] \in accepted[s]..MaxBytes[s]
    /\ read'[s] = read[s] /\ told'[s] = told[s]

\* A write to a stream that has ended is told that its data is buffered.
Lates(s) ==
    /\ "late" \in mishaps'[s]
    /\ accepted'[s] \in accepted[s]..MaxBytes[s]
    /\ read'[s] = read[s] /\ told'[s] = told[s] /\ sending'[s] = sending[s]

Ends(s) ==
    /\ accepted'[s] = accepted[s] /\ read'[s] = read[s] /\ told'[s] = told[s]
    /\ \/ sending[s] = "open" /\ sending'[s] \in {"finished", "reset", "stopped"}
       \/ sending[s] = "stopped" /\ sending'[s] = "reset"
       \/ sending[s] = "finished" /\ sending'[s] = "abandoned"

Gives(s) ==
    /\ accepted'[s] = accepted[s] /\ told'[s] = told[s]
    /\ sending'[s] = sending[s] /\ sent'[s] = sent[s] /\ arrived'[s] = arrived[s]
    /\ \E n \in Nat : n <= Available(s) /\ Got(s, n)

Tells(s) ==
    /\ accepted'[s] = accepted[s] /\ read'[s] = read[s]
    /\ sending'[s] = sending[s]
    /\ \/ told'[s] = told[s] \cup {"closed"}
       \/ AtEnd(s) /\ told'[s] = told[s] \cup {ended[s]}

LEMMA EndEnds ==
  ASSUME TypeOK, NEW s \in Streams,
         Finish(s) \/ Reset(s) \/ StopArrives(s)
  PROVE  /\ Ends(s)
         /\ UNCHANGED <<accepted, write_buffer, quinnVars, readerVars>>
         /\ write_buffer[s] # <<>> => "cut" \in mishaps'[s]
<1>1. ASSUME NEW how, End(s, how)
      PROVE  /\ sending'[s] = how
             /\ UNCHANGED <<accepted, write_buffer, quinnVars, readerVars>>
             /\ write_buffer[s] # <<>> => "cut" \in mishaps'[s]
  <2>1. sending'[s] = how
    BY <1>1 DEF End, TypeOK
  <2>2. write_buffer[s] # <<>> => "cut" \in mishaps'[s]
    BY <1>1, MishapIs DEF End
  <2> QED
    BY <1>1, <2>1, <2>2 DEF End
<1>2. CASE Finish(s)
  BY <1>1, <1>2 DEF Finish, Ends, readerVars
<1>3. CASE Reset(s)
  BY <1>1, <1>3 DEF Reset, Ends, readerVars
<1>4. CASE StopArrives(s)
  BY <1>1, <1>4 DEF StopArrives, Ends, readerVars
<1> QED
  BY <1>2, <1>3, <1>4

LEMMA StreamStepShows ==
  ASSUME TypeOK, Bounds, NEW s \in Streams, StreamStep(s)
  PROVE  Quiet(s) \/ Grows(s) \/ Lates(s) \/ Ends(s) \/ Gives(s) \/ Tells(s)
<1>1. CASE Writer(s)
  <2>1. CASE Open(s)
    BY <2>1 DEF Open, Quiet, Seen, TypeOK, readerVars
  <2>2. ASSUME NEW n \in Bytes(s),
               Write(s, n) \/ WriteAll(s, n) \/ WriteAllChunks(s, n)
        PROVE  Quiet(s) \/ Grows(s) \/ Lates(s)
    BY <2>2, WritesGrow DEF Quiet, Seen, Grows, Lates, readerVars
  <2> QED
    BY <1>1, <2>1, <2>2, EndEnds DEF Writer
<1>2. CASE Flush(s)
  BY <1>2 DEF Flush, Quiet, Seen, readerVars
<1>3. CASE Quinn(s)
  BY <1>3, EndEnds DEF Quinn, GrantStream, UnblockStream, Arrive, FinArrives,
                   ResetArrives, Quiet, Seen, senderVars, readerVars
<1>4. CASE Reader(s)
  <2>1. UNCHANGED <<senderVars, quinnVars, arrived>>
    BY <1>4 DEF Reader, ReadChunk, Read, ReadEnd, ReadClosed, Stop
  <2>2. Available(s) \in Nat
    BY LengthIsNat DEF TypeOK, Bounds, Available
  <2>3. ASSUME NEW n \in Bytes(s), ReadChunk(s, n) PROVE Gives(s)
    <3>1. n \in Nat /\ n <= Available(s) /\ Got(s, n) /\ told' = told
      BY <2>2, <2>3 DEF ReadChunk
    <3> QED
      BY <2>1, <3>1 DEF Gives, senderVars, quinnVars
  <2>4. ASSUME NEW n \in Bytes(s), Read(s, n) PROVE Gives(s)
    <3>1. n \in Nat
      BY TransferAssumption DEF Bytes
    <3>2. Least(n, Available(s)) \in Nat /\ Least(n, Available(s)) <= Available(s)
      BY <2>2, <3>1 DEF Least
    <3>3. Got(s, Least(n, Available(s))) /\ told' = told
      BY <2>4 DEF Read
    <3> QED
      BY <2>1, <3>2, <3>3 DEF Gives, senderVars, quinnVars
  <2>5. CASE ReadEnd(s)
    BY <2>1, <2>5 DEF ReadEnd, Tell, Tells, TypeOK, senderVars
  <2>6. CASE ReadClosed(s)
    BY <2>1, <2>6 DEF ReadClosed, Tell, Tells, TypeOK, senderVars
  <2>7. CASE Stop(s)
    BY <2>1, <2>7 DEF Stop, Quiet, Seen, senderVars
  <2> QED
    BY <1>4, <2>3, <2>4, <2>5, <2>6, <2>7 DEF Reader
<1> QED
  BY <1>1, <1>2, <1>3, <1>4 DEF StreamStep

\* quinn's stream grows at its end only, and what is read comes from it.
LEMMA ReadStaysSent ==
  ASSUME TypeOK, Bounds, NEW s \in Streams, StreamStep(s),
         read[s] = First(sent[s], Len(read[s]))
  PROVE  read'[s] = First(sent'[s], Len(read'[s]))
<1>1. sent[s] \in Seq(Nat) /\ Len(read[s]) \in 0..Len(sent[s])
      /\ Len(read[s]) \in Nat /\ arrived[s] \in Nat /\ arrived[s] <= Len(sent[s])
      /\ Len(sent[s]) \in Nat
  BY LengthIsNat, CountsAre, BoundsAre
<1>2. ASSUME NEW more \in Seq(Nat), sent'[s] = sent[s] \o more, read'[s] = read[s]
      PROVE  read'[s] = First(sent'[s], Len(read'[s]))
  BY <1>1, <1>2, FirstOfLonger
<1>3. ASSUME sent'[s] = sent[s], read'[s] = read[s]
      PROVE  read'[s] = First(sent'[s], Len(read'[s]))
  BY <1>3
<1>4. CASE Gives(s)
  <2>1. PICK n \in Nat : n <= Available(s) /\ Got(s, n)
    BY <1>4 DEF Gives
  <2>2. read'[s] = read[s] \o SubSeq(sent[s], Len(read[s]) + 1, Len(read[s]) + n)
        /\ Len(read'[s]) = Len(read[s]) + n
    BY <2>1, GotIs
  <2>3. Len(read[s]) + n <= Len(sent[s])
    BY <1>1, <2>1 DEF Available
  <2>4. First(sent[s], Len(read[s])) \o
          SubSeq(sent[s], Len(read[s]) + 1, Len(read[s]) + n)
          = First(sent[s], Len(read[s]) + n)
    BY <1>1, <2>3, FirstAndNext
  <2> QED
    BY <1>4, <2>2, <2>4 DEF Gives
<1>5. ASSUME NEW n \in Bytes(s),
             Write(s, n) \/ WriteAll(s, n) \/ WriteAllChunks(s, n)
      PROVE  read'[s] = First(sent'[s], Len(read'[s]))
  BY <1>2, <1>5, WritesGrow DEF readerVars
<1>6. CASE Flush(s)
  <2>1. read'[s] = read[s]
    BY <1>6 DEF Flush, readerVars
  <2>2. CASE Rests(s)
    BY <1>3, <2>1, <2>2 DEF Rests
  <2>3. ASSUME NEW k \in 0..Len(write_buffer[s]), Moves(s, k)
        PROVE  read'[s] = First(sent'[s], Len(read'[s]))
    <3>1. First(write_buffer[s], k) \in Seq(Nat)
      BY FirstAndFrom DEF TypeOK
    <3> QED
      BY <1>2, <2>1, <2>3, <3>1 DEF Moves
  <2> QED
    BY <1>6, <2>2, <2>3, FlushMoves
<1>7. CASE Open(s) \/ Finish(s) \/ Reset(s) \/ Quinn(s)
  <2>1. UNCHANGED <<sent, read>>
    BY <1>7, EndEnds DEF Open, Quinn, GrantStream, UnblockStream, Arrive,
       FinArrives, ResetArrives, quinnVars, readerVars
  <2> QED
    BY <1>3, <2>1
<1>8. CASE Reader(s)
  <2>1. UNCHANGED sent
    BY <1>8 DEF Reader, ReadChunk, Read, ReadEnd, ReadClosed, Stop, quinnVars
  <2>2. Gives(s) \/ read'[s] = read[s]
    <3>1. Quiet(s) \/ Grows(s) \/ Lates(s) \/ Ends(s) \/ Gives(s) \/ Tells(s)
      BY StreamStepShows
    <3> QED
      BY <3>1 DEF Quiet, Grows, Lates, Ends, Tells
  <2> QED
    BY <1>3, <1>4, <2>1, <2>2
<1> QED
  BY <1>5, <1>6, <1>7, <1>8 DEF StreamStep, Writer

LEMMA EndStaysOfWriter ==
  ASSUME TypeOK, Bounds, EndIsOfWriter, NEW s \in Streams, StreamStep(s)
  PROVE  /\ ended'[s] = "finished" =>
              /\ sending'[s] \in {"finished", "abandoned"}
              /\ arrived'[s] = Len(sent'[s])
         /\ ended'[s] = "reset" => sending'[s] \in {"reset", "abandoned"}
<1>1. /\ ended[s] = "finished" =>
           sending[s] \in {"finished", "abandoned"} /\ arrived[s] = Len(sent[s])
      /\ ended[s] = "reset" => sending[s] \in {"reset", "abandoned"}
  BY DEF EndIsOfWriter
<1>2. ASSUME sending[s] = "open", UNCHANGED <<ended, sending>>
      PROVE  ended'[s] \notin {"finished", "reset"}
  BY <1>1, <1>2
<1>3. CASE Writer(s)
  <2>1. CASE Open(s)
    BY <1>1, <2>1 DEF Open, TypeOK, quinnVars, readerVars
  <2>2. CASE Finish(s) \/ Reset(s)
    BY <1>1, <2>2, EndEnds DEF Ends, quinnVars, readerVars
  <2>3. ASSUME NEW n \in Bytes(s),
               Write(s, n) \/ WriteAll(s, n) \/ WriteAllChunks(s, n)
        PROVE  /\ UNCHANGED <<ended, arrived, sending>>
               /\ sending[s] # "open" => sent'[s] = sent[s]
    BY <2>3, WritesGrow DEF readerVars
  <2> QED
    BY <1>1, <1>2, <1>3, <2>1, <2>2, <2>3 DEF Writer
<1>4. CASE Flush(s)
  <2>1. UNCHANGED <<sending, ended, arrived>>
    BY <1>4 DEF Flush, readerVars
  <2>2. sending[s] # "open" => sent' = sent
    BY <1>4 DEF Flush
  <2> QED
    BY <1>1, <1>2, <2>1, <2>2
<1>5. CASE Quinn(s)
  <2>1. CASE GrantStream(s) \/ UnblockStream(s)
    BY <1>1, <2>1 DEF GrantStream, UnblockStream, senderVars, readerVars
  <2>2. CASE Arrive(s)
    BY <2>2 DEF Arrive
  <2>3. CASE FinArrives(s)
    BY <2>3 DEF FinArrives, TypeOK, senderVars, quinnVars
  <2>4. CASE ResetArrives(s)
    BY <2>4 DEF ResetArrives, TypeOK, senderVars
  <2>5. CASE StopArrives(s)
    BY <1>1, <2>5, EndEnds DEF Ends, quinnVars, readerVars
  <2> QED
    BY <1>5, <2>1, <2>2, <2>3, <2>4, <2>5 DEF Quinn
<1>6. CASE Reader(s)
  <2>1. UNCHANGED <<senderVars, quinnVars, arrived, ended>>
    BY <1>6 DEF Reader, ReadChunk, Read, ReadEnd, ReadClosed, Stop
  <2> QED
    BY <1>1, <2>1 DEF senderVars, quinnVars
<1> QED
  BY <1>3, <1>4, <1>5, <1>6 DEF StreamStep

LEMMA NothingStaysLeft ==
  ASSUME TypeOK, NothingLeft, NEW s \in Streams, StreamStep(s),
         sending'[s] # "open", mishaps'[s] \cap {"cut", "late"} = {}
  PROVE  write_buffer'[s] = <<>>
<1>1. mishaps[s] \cap {"cut", "late"} = {}
  BY StreamStepIs
<1>2. sending[s] # "open" => write_buffer[s] = <<>>
  BY <1>1 DEF NothingLeft
<1>3. CASE Writer(s)
  <2>1. CASE Open(s)
    BY <2>1 DEF Open, TypeOK
  <2>2. CASE Finish(s) \/ Reset(s)
    BY <2>2, EndEnds
  <2>3. ASSUME NEW n \in Bytes(s),
               Write(s, n) \/ WriteAll(s, n) \/ WriteAllChunks(s, n)
        PROVE  write_buffer'[s] = <<>>
    BY <1>2, <2>3, WritesGrow
  <2> QED
    BY <1>3, <2>1, <2>2, <2>3 DEF Writer
<1>4. CASE Flush(s)
  BY <1>2, <1>4 DEF Flush
<1>5. CASE Quinn(s)
  BY <1>2, <1>5, EndEnds DEF Quinn, GrantStream, UnblockStream, Arrive,
     FinArrives, ResetArrives, senderVars
<1>6. CASE Reader(s)
  <2>1. UNCHANGED senderVars
    BY <1>6 DEF Reader, ReadChunk, Read, ReadEnd, ReadClosed, Stop
  <2> QED
    BY <1>2, <2>1 DEF senderVars
<1> QED
  BY <1>3, <1>4, <1>5, <1>6 DEF StreamStep

LEMMA NextRefinement == RefinementInv /\ [Next]_vars => RefinementInv'
<1> SUFFICES ASSUME RefinementInv, [Next]_vars PROVE RefinementInv'
  OBVIOUS
<1>1. TypeOK /\ Bounds /\ OnlyOvertakingReorders
      /\ Within /\ ReadIsSent /\ EndIsOfWriter /\ NothingLeft
  BY DEF RefinementInv
<1>2. TypeOK' /\ Bounds'
  BY <1>1, NextType
<1>3. OnlyOvertakingReorders'
  BY <1>1, <1>2, OrderStep
<1>4. \A s \in Streams : Same(s) \/ StreamStep(s)
  BY <1>1, StepIs
<1>5. Within'
  <2> SUFFICES ASSUME NEW s \in Streams PROVE accepted'[s] <= MaxBytes[s]
    BY DEF Within
  <2>1. accepted[s] <= MaxBytes[s] /\ accepted[s] \in Nat /\ MaxBytes[s] \in Nat
    BY <1>1, TransferAssumption DEF Within, TypeOK
  <2>2. CASE Same(s)
    BY <2>1, <2>2 DEF Same
  <2>3. CASE StreamStep(s)
    <3>1. Quiet(s) \/ Grows(s) \/ Lates(s) \/ Ends(s) \/ Gives(s) \/ Tells(s)
      BY <1>1, <2>3, StreamStepShows
    <3> QED
      BY <2>1, <3>1 DEF Quiet, Grows, Lates, Ends, Gives, Tells
  <2> QED
    BY <1>4, <2>2, <2>3
<1>6. ReadIsSent'
  BY <1>1, <1>4, ReadStaysSent DEF ReadIsSent, Same
<1>7. EndIsOfWriter'
  BY <1>1, <1>4, EndStaysOfWriter DEF EndIsOfWriter, Same
<1>8. NothingLeft'
  BY <1>1, <1>4, NothingStaysLeft DEF NothingLeft, Same
<1> QED
  BY <1>2, <1>3, <1>5, <1>6, <1>7, <1>8 DEF RefinementInv

-----------------------------------------------------------------------------
(* A stream is a ByteStream *)

Shown(s) == IF Harmed(s) THEN NothingToSee ELSE Seen(s)

\* What an unharmed stream delivers is what was written, in order, and all of it
\* when it has ended and is read to the end.
LEMMA UnharmedIsInOrder ==
  ASSUME RefinementInv, NEW s \in Streams, ~Harmed(s)
  PROVE  /\ Len(read[s]) <= accepted[s] /\ Len(read[s]) \in Nat
         /\ accepted[s] \in Nat
         /\ read[s] = InOrderUpTo(Len(read[s]))
         /\ sending[s] # "open" => Len(sent[s]) = accepted[s]
<1>1. TypeOK /\ Bounds /\ accepted[s] \in Nat /\ sent[s] \in Seq(Nat)
      /\ write_buffer[s] \in Seq(Nat)
  BY DEF RefinementInv, TypeOK
<1>2. Len(read[s]) \in Nat /\ Len(sent[s]) \in Nat /\ Len(write_buffer[s]) \in Nat
  BY <1>1, LengthIsNat
<1>3. Len(read[s]) <= Len(sent[s])
  BY <1>1, <1>2 DEF Bounds, TypeOK
<1>4. sent[s] \o write_buffer[s] = InOrderUpTo(accepted[s])
  <2>1. mishaps[s] \cap {"sliced", "overtaken"} = {}
    BY DEF Harmed
  <2> QED
    BY <2>1 DEF RefinementInv, OnlyOvertakingReorders, Kept
<1>5. Len(sent[s]) + Len(write_buffer[s]) = accepted[s]
  <2>1. Len(InOrderUpTo(accepted[s])) = accepted[s]
    BY <1>1, InOrderIsSeq
  <2>2. Len(sent[s] \o write_buffer[s]) = Len(sent[s]) + Len(write_buffer[s])
    BY <1>1, LengthOfConcat
  <2> QED
    BY <1>4, <2>1, <2>2
<1>6. Len(read[s]) <= accepted[s]
  <2>1. \A x, y, z, m \in Nat : x <= y /\ y + z = m => x <= m
    OBVIOUS
  <2>2. accepted[s] \in Nat
    BY <1>1
  <2> QED
    BY <1>2, <1>3, <1>5, <2>1, <2>2
<1>7. read[s] = InOrderUpTo(Len(read[s]))
  <2>1. read[s] = First(sent[s], Len(read[s]))
    BY DEF RefinementInv, ReadIsSent
  <2>2. First(sent[s] \o write_buffer[s], Len(read[s])) = First(sent[s], Len(read[s]))
    BY <1>1, <1>2, <1>3, FirstOfLonger
  <2>3. First(InOrderUpTo(accepted[s]), Len(read[s])) = InOrderUpTo(Len(read[s]))
    BY <1>1, <1>2, <1>6, FirstInOrder
  <2> QED
    BY <1>4, <2>1, <2>2, <2>3
<1>8. ASSUME sending[s] # "open" PROVE Len(sent[s]) = accepted[s]
  <2>1. write_buffer[s] = <<>>
    BY <1>8 DEF RefinementInv, NothingLeft, Harmed
  <2>2. Len(write_buffer[s]) = 0
    BY <2>1, EmptySeq
  <2> QED
    BY <1>2, <1>5, <2>2
<1> QED
  BY <1>1, <1>2, <1>6, <1>7, <1>8

LEMMA ShownBecomes ==
  ASSUME NEW s \in Streams, NEW new, Shown(s)' = new,
         \A t \in Streams : t # s => Shown(t)' = Shown(t)
  PROVE  Promise!Becomes(s, new)
  BY DEF Promise!Becomes, Shown

ReadInOrder ==
    \A s \in Streams :
        ~Harmed(s) => /\ read[s] = InOrderUpTo(Len(read[s]))
                      /\ Len(read[s]) \in Nat /\ Len(read[s]) <= accepted[s]

LEMMA InvReadInOrder == RefinementInv => ReadInOrder
  BY UnharmedIsInOrder DEF ReadInOrder

\* A step of a stream that is not harmed by it.
LEMMA UnharmedStep ==
  ASSUME RefinementInv, ReadInOrder', NEW s \in Streams, StreamStep(s),
         ~Harmed(s), ~Harmed(s)',
         \A t \in Streams : t # s => Shown(t)' = Shown(t)
  PROVE  Shown(s)' = Shown(s) \/ Promise!Next
<1>1. Shown(s) = Seen(s) /\ Shown(s)' = Seen(s)'
  BY DEF Shown
<1>2. TypeOK /\ Bounds
  BY DEF RefinementInv
<1>3. /\ Len(read[s]) <= accepted[s] /\ Len(read[s]) \in Nat
      /\ accepted[s] \in Nat
      /\ sending[s] # "open" => Len(sent[s]) = accepted[s]
  BY UnharmedIsInOrder
<1>4. /\ Len(read'[s]) <= accepted'[s] /\ Len(read'[s]) \in Nat
      /\ read'[s] = InOrderUpTo(Len(read'[s]))
  BY DEF ReadInOrder
<1>5. ASSUME NEW new, Seen(s)' = new PROVE Promise!Becomes(s, new)
  BY <1>1, <1>5, ShownBecomes
<1>6. CASE Quiet(s)
  <2>1. Seen(s)' = Seen(s)
    BY <1>6 DEF Quiet, Seen
  <2> QED
    BY <1>1, <2>1
<1>7. CASE Grows(s)
  <2>1. Seen(s)' = [Seen(s) EXCEPT !.written = accepted'[s]]
    BY <1>7 DEF Grows, Seen
  <2>2. Promise!Becomes(s, [Seen(s) EXCEPT !.written = accepted'[s]])
    BY <1>5, <2>1
  <2>3. Seen(s).writer = "open" /\ Seen(s).written = accepted[s]
    BY <1>7 DEF Grows, Seen
  <2>4. Promise!Write(s)
    BY <1>1, <1>7, <2>2, <2>3 DEF Promise!Write, Grows, Shown
  <2> QED
    BY <2>4 DEF Promise!Next
<1>8. CASE Ends(s)
  <2>1. Seen(s)' = [Seen(s) EXCEPT !.writer = sending'[s]]
    BY <1>8 DEF Ends, Seen
  <2>2. Promise!Becomes(s, [Seen(s) EXCEPT !.writer = sending'[s]])
    BY <1>5, <2>1
  <2>3. sending'[s] \in Promise!Ends(Seen(s).writer)
    BY <1>8 DEF Ends, Promise!Ends, Seen
  <2>4. Promise!End(s)
    BY <1>1, <2>2, <2>3 DEF Promise!End, Shown
  <2> QED
    BY <2>4 DEF Promise!Next
<1>9. Seen(s) # Promise!Spoiled
  <2>1. Seen(s).writer # "spoiled"
    BY <1>2 DEF Seen, TypeOK
  <2>2. Promise!Spoiled.writer = "spoiled"
    BY DEF Promise!Spoiled, Promise!New
  <2> QED
    BY <2>1, <2>2
<1>10. Promise!Intact(s)
  BY <1>1, <1>9 DEF Promise!Intact, Shown
<1>11. CASE Gives(s)
  <2>1. Seen(s)' = [Seen(s) EXCEPT !.delivered = read'[s]]
    BY <1>11 DEF Gives, Seen
  <2>2. PICK n \in Nat : n <= Available(s) /\ Got(s, n)
    BY <1>11 DEF Gives
  <2>3. Len(read'[s]) = Len(read[s]) + n
    BY <1>2, <2>2, GotIs
  <2>4. accepted'[s] = accepted[s]
    BY <1>11 DEF Gives
  <2>5. Len(read'[s]) \in Len(read[s])..accepted[s]
    BY <1>3, <1>4, <2>3, <2>4
  <2>6. read'[s] = Promise!InOrderUpTo(Len(read'[s]))
    BY <1>4 DEF InOrderUpTo, Promise!InOrderUpTo
  <2>7. Promise!Becomes(s, [Seen(s) EXCEPT !.delivered = read'[s]])
    BY <1>5, <2>1
  <2>8. Seen(s).delivered = read[s] /\ Seen(s).written = accepted[s]
    BY DEF Seen
  <2>9. Promise!Deliver(s)
    BY <1>1, <1>10, <2>5, <2>6, <2>7, <2>8 DEF Promise!Deliver, Shown
  <2> QED
    BY <2>9 DEF Promise!Next
<1>12. CASE Tells(s)
  <2>1. ASSUME NEW w, told'[s] = told[s] \cup {w}
        PROVE  Promise!Becomes(s, [Seen(s) EXCEPT !.told = Seen(s).told \cup {w}])
    <3>1. Seen(s)' = [Seen(s) EXCEPT !.told = Seen(s).told \cup {w}]
      <4>1. Seen(s)' = [Seen(s) EXCEPT !.told = told'[s]]
        BY <1>12 DEF Tells, Seen
      <4>2. Seen(s).told = told[s]
        BY DEF Seen
      <4> QED
        BY <2>1, <4>1, <4>2
    <3> QED
      BY <1>5, <3>1
  <2>2. CASE told'[s] = told[s] \cup {"closed"}
    <3>1. Promise!TellClosed(s)
      BY <1>1, <1>10, <2>1, <2>2 DEF Promise!TellClosed, Shown
    <3> QED
      BY <3>1 DEF Promise!Next
  <2>3. CASE AtEnd(s) /\ told'[s] = told[s] \cup {ended[s]}
    <3>1. ended[s] \in {"finished", "reset"} /\ arrived[s] = Len(read[s])
      BY <1>2, <1>3, <2>3 DEF AtEnd, Available, TypeOK
    <3>2. CASE ended[s] = "finished"
      <4>1. sending[s] \in {"finished", "abandoned"} /\ arrived[s] = Len(sent[s])
        BY <3>2 DEF RefinementInv, EndIsOfWriter
      <4>2. Seen(s).writer \in {"finished", "abandoned"}
            /\ Len(Seen(s).delivered) = Seen(s).written
        BY <1>3, <3>1, <4>1 DEF Seen
      <4>3. Promise!TellFinished(s)
        BY <1>1, <2>1, <2>3, <3>2, <4>2 DEF Promise!TellFinished, Shown
      <4> QED
        BY <4>3 DEF Promise!Next
    <3>3. CASE ended[s] = "reset"
      <4>1. Seen(s).writer \in {"reset", "abandoned"}
        BY <3>3 DEF RefinementInv, EndIsOfWriter, Seen
      <4>2. Promise!TellReset(s)
        BY <1>1, <2>1, <2>3, <3>3, <4>1 DEF Promise!TellReset, Shown
      <4> QED
        BY <4>2 DEF Promise!Next
    <3> QED
      BY <3>1, <3>2, <3>3
  <2> QED
    BY <1>12, <2>2, <2>3 DEF Tells
<1>13. ~Lates(s)
  BY DEF Lates, Harmed
<1> QED
  BY <1>2, <1>6, <1>7, <1>8, <1>11, <1>12, <1>13, StreamStepShows

LEMMA WriterReplaced ==
  ASSUME NEW m, NEW q, NEW w, NEW v, NEW x
  PROVE  [[written |-> m, delivered |-> q, writer |-> w, told |-> x]
            EXCEPT !.writer = v]
           = [written |-> m, delivered |-> q, writer |-> v, told |-> x]
  OBVIOUS

LEMMA StreamMaps ==
  ASSUME RefinementInv, ReadInOrder', [Next]_vars
  PROVE  \/ Promise!Next
         \/ \A s \in Streams : Shown(s)' = Shown(s)
<1>1. \A s \in Streams : Same(s) => Shown(s)' = Shown(s)
  BY DEF Same, Shown, Harmed, Seen, NothingToSee
<1>2. TypeOK
  BY DEF RefinementInv
<1>3. CASE GrantConnection \/ UNCHANGED vars
  <2>1. \A s \in Streams : Same(s)
    BY <1>3 DEF GrantConnection, Same, vars, senderVars, quinnVars, readerVars
  <2> QED
    BY <1>1, <2>1
<1>4. ASSUME NEW s \in Streams, StreamStep(s)
      PROVE  \/ Promise!Next
             \/ \A t \in Streams : Shown(t)' = Shown(t)
  <2>1. \A t \in Streams : t # s => Shown(t)' = Shown(t)
    BY <1>1, <1>2, <1>4, Elsewhere
  <2>2. mishaps[s] \subseteq mishaps'[s]
    BY <1>2, <1>4, StreamStepIs
  <2>3. Harmed(s) => Harmed(s)'
    BY <2>2 DEF Harmed
  <2>4. CASE Harmed(s)
    <3>1. Shown(s)' = Shown(s)
      BY <2>3, <2>4 DEF Shown, NothingToSee
    <3> QED
      BY <2>1, <3>1
  <2>5. CASE ~Harmed(s) /\ Harmed(s)'
    <3>1. NothingToSee = Promise!Spoiled
      <4>1. \A m, q, x :
              [[written |-> m, delivered |-> q, writer |-> "open", told |-> x]
                 EXCEPT !.writer = "spoiled"]
                = [written |-> m, delivered |-> q, writer |-> "spoiled", told |-> x]
        BY WriterReplaced
      <4>2. Promise!Spoiled = [[written |-> 0, delivered |-> <<>>,
                                writer |-> "open", told |-> {}]
                                 EXCEPT !.writer = "spoiled"]
        BY Zenon DEF Promise!Spoiled, Promise!New
      <4>3. Promise!Spoiled = [written |-> 0, delivered |-> <<>>,
                               writer |-> "spoiled", told |-> {}]
        BY <4>1, <4>2, Zenon
      <4> QED
        BY <4>3, Zenon DEF NothingToSee
    <3>2. NothingToSee' = NothingToSee
      BY DEF NothingToSee
    <3>3. Shown(s)' = Promise!Spoiled
      BY <2>5, <3>1, <3>2 DEF Shown
    <3>4. Promise!Spoil(s)
      BY <2>1, <3>3, ShownBecomes DEF Promise!Spoil
    <3> QED
      BY <3>4 DEF Promise!Next
  <2>6. CASE ~Harmed(s) /\ ~Harmed(s)'
    <3>1. Shown(s)' = Shown(s) \/ Promise!Next
      BY <1>4, <2>1, <2>6, UnharmedStep
    <3> QED
      BY <2>1, <3>1
  <2> QED
    BY <2>3, <2>4, <2>5, <2>6
<1> QED
  BY <1>3, <1>4 DEF Next, StreamStep

\* A stream is a ByteStream for any number of streams, bytes and credit, until a
\* write_all is cut short, a write goes past the buffer, the stream ends with
\* data buffered or data is buffered after its end: what the reader gets is what was written, in order, and the end
\* it is told of is the writer's (streams.rs:27-345, connection.rs:865-877).
THEOREM StreamsAreByteStreams == Spec => IsByteStream
<1>1. Init => Promise!Init
  <2> SUFFICES ASSUME Init PROVE Promise!Init
    OBVIOUS
  <2>1. ASSUME NEW s \in Streams
        PROVE  (IF Harmed(s) THEN NothingToSee ELSE Seen(s)) = Promise!New
    BY DEF Init, Harmed, Seen, Promise!New
  <2> QED
    BY <2>1 DEF Promise!Init
<1>2. RefinementInv /\ ReadInOrder' /\ [Next]_vars
        => [Promise!Next]_([s \in Streams |-> IF Harmed(s) THEN NothingToSee
                                                          ELSE Seen(s)])
  <2> SUFFICES ASSUME RefinementInv, ReadInOrder', [Next]_vars
               PROVE  [Promise!Next]_([s \in Streams |->
                         IF Harmed(s) THEN NothingToSee ELSE Seen(s)])
    OBVIOUS
  <2>1. Promise!Next \/ \A s \in Streams : Shown(s)' = Shown(s)
    BY StreamMaps
  <2> QED
    BY <2>1 DEF Shown
<1>3. RefinementInv /\ [Next]_vars => RefinementInv'
  BY NextRefinement
<1>4. Init => RefinementInv
  BY InitRefinement
<1> QED
  BY <1>1, <1>2, <1>3, <1>4, InvReadInOrder, PTL DEF Spec, IsByteStream, Promise!Spec

-----------------------------------------------------------------------------
(* A reader that is told "finished" *)

FinishedIsFinal ==
    \A s \in Streams :
        "finished" \in told[s] =>
            /\ sending[s] \in {"finished", "abandoned"}
            /\ ~Harmed(s) => Len(read[s]) = accepted[s]

\* A reader that has met the end has read everything.
LEMMA AtEndOfData ==
  ASSUME RefinementInv, NEW s \in Streams, AtEnd(s), ended[s] = "finished"
  PROVE  /\ sending[s] \in {"finished", "abandoned"}
         /\ ~Harmed(s) => Len(read[s]) = accepted[s]
<1>1. sending[s] \in {"finished", "abandoned"} /\ arrived[s] = Len(sent[s])
  BY DEF RefinementInv, EndIsOfWriter
<1>2. arrived[s] \in Nat /\ Len(read[s]) \in Nat
  BY LengthIsNat DEF RefinementInv, TypeOK
<1>3. arrived[s] = Len(read[s])
  BY <1>2 DEF AtEnd, Available
<1> QED
  BY <1>1, <1>3, UnharmedIsInOrder

LEMMA FinishedStep ==
  RefinementInv /\ ReadInOrder' /\ FinishedIsFinal /\ [Next]_vars
    => FinishedIsFinal'
<1> SUFFICES ASSUME RefinementInv, ReadInOrder', FinishedIsFinal, [Next]_vars,
                    NEW s \in Streams, "finished" \in told'[s]
             PROVE  /\ sending'[s] \in {"finished", "abandoned"}
                    /\ ~Harmed(s)' => Len(read'[s]) = accepted'[s]
  BY DEF FinishedIsFinal
<1>1. TypeOK /\ Bounds
  BY DEF RefinementInv
<1>2. "finished" \in told[s] =>
        /\ sending[s] \in {"finished", "abandoned"}
        /\ ~Harmed(s) => Len(read[s]) = accepted[s]
  BY DEF FinishedIsFinal
<1>3. CASE Same(s)
  BY <1>2, <1>3 DEF Same, Harmed
<1>4. CASE StreamStep(s)
  <2>1. ~Harmed(s)' => ~Harmed(s)
    BY <1>1, <1>4, StreamStepIs DEF Harmed
  <2>2. CASE Quiet(s)
    <3>1. sending[s] \in {"finished", "abandoned"} => sending'[s] = sending[s]
      BY <2>2 DEF Quiet, Seen
    <3> QED
      BY <1>2, <2>1, <2>2, <3>1 DEF Quiet
  <2>3. CASE Grows(s) \/ Ends(s)
    BY <1>2, <2>1, <2>3 DEF Grows, Ends
  <2>4. CASE Lates(s)
    BY <1>2, <2>4 DEF Lates, Harmed
  <2>5. CASE Gives(s)
    <3>1. accepted'[s] = accepted[s] /\ sending'[s] = sending[s]
          /\ told'[s] = told[s]
      BY <2>5 DEF Gives
    <3>2. PICK n \in Nat : n <= Available(s) /\ Got(s, n)
      BY <2>5 DEF Gives
    <3>3. Len(read'[s]) = Len(read[s]) + n
      BY <1>1, <3>2, GotIs
    <3>4. ~Harmed(s)' => Len(read'[s]) <= accepted'[s]
      BY DEF ReadInOrder
    <3>5. Len(read[s]) \in Nat /\ accepted[s] \in Nat
      BY <1>1, LengthIsNat DEF TypeOK
    <3> QED
      BY <1>2, <2>1, <3>1, <3>3, <3>4, <3>5
  <2>6. CASE Tells(s)
    <3>1. accepted'[s] = accepted[s] /\ read'[s] = read[s]
          /\ sending'[s] = sending[s]
      BY <2>6 DEF Tells
    <3>2. CASE "finished" \in told[s]
      BY <1>2, <2>1, <3>1, <3>2
    <3>3. CASE "finished" \notin told[s]
      <4>1. AtEnd(s) /\ ended[s] = "finished"
        BY <2>6, <3>3 DEF Tells
      <4> QED
        BY <2>1, <3>1, <4>1, AtEndOfData
    <3> QED
      BY <3>2, <3>3
  <2> QED
    BY <1>1, <1>4, <2>2, <2>3, <2>4, <2>5, <2>6, StreamStepShows
<1> QED
  BY <1>1, <1>3, <1>4, StepIs

\* A reader that is told Ok(None), "finished", has been given every byte the
\* writer was told is written, in order, unless a mishap befell the stream
\* (streams.rs:244-345): for any credit and any number of streams.
THEOREM FinishedMeansComplete == Spec => []FinishedMeansAllRead
<1>1. Init => RefinementInv /\ FinishedIsFinal
  <2>1. Init => FinishedIsFinal
    BY DEF Init, FinishedIsFinal
  <2> QED
    BY <2>1, InitRefinement
<1>2. RefinementInv /\ [Next]_vars => RefinementInv'
  BY NextRefinement
<1>3. RefinementInv /\ ReadInOrder' /\ FinishedIsFinal /\ [Next]_vars
        => FinishedIsFinal'
  BY FinishedStep
<1>4. ReadInOrder /\ FinishedIsFinal => FinishedMeansAllRead
  BY DEF ReadInOrder, FinishedIsFinal, FinishedMeansAllRead, Harmed
<1> QED
  BY <1>1, <1>2, <1>3, <1>4, InvReadInOrder, PTL DEF Spec

-----------------------------------------------------------------------------
(* A reader that is told "closed" *)

\* A reader that did not stop the stream finds it gone only after the end was
\* met: by a read that told it, or by one that returned data.
FreedIsTold ==
    \A s \in Streams :
        /\ reading[s] = "freed" =>
             "hidden" \in mishaps[s] \/ told[s] \cap {"finished", "reset"} # {}
        /\ "closed" \in told[s] => reading[s] # "open"

LEMMA FreedIsToldStep ==
  TypeOK /\ FreedIsTold /\ [Next]_vars => FreedIsTold'
<1> SUFFICES ASSUME TypeOK, FreedIsTold, [Next]_vars, NEW s \in Streams
             PROVE  /\ reading'[s] = "freed" =>
                         \/ "hidden" \in mishaps'[s]
                         \/ told'[s] \cap {"finished", "reset"} # {}
                    /\ "closed" \in told'[s] => reading'[s] # "open"
  BY DEF FreedIsTold
<1>1. /\ reading[s] = "freed" =>
           "hidden" \in mishaps[s] \/ told[s] \cap {"finished", "reset"} # {}
      /\ "closed" \in told[s] => reading[s] # "open"
  BY DEF FreedIsTold
<1>2. CASE Same(s)
  BY <1>1, <1>2 DEF Same
<1>3. CASE StreamStep(s)
  <2>1. mishaps[s] \subseteq mishaps'[s]
    BY <1>3, StreamStepIs
  <2>2. CASE reading'[s] = reading[s] /\ told'[s] = told[s]
    BY <1>1, <2>1, <2>2
  <2>3. CASE ~(reading'[s] = reading[s] /\ told'[s] = told[s])
    <3>1. Reader(s)
      BY <1>3, <2>3
      DEF StreamStep, Writer, Writing, Open, Write, WriteAll, WriteAllChunks,
          Finish, Reset, End, Flush, Quinn, GrantStream, UnblockStream, Arrive,
          FinArrives, ResetArrives, StopArrives, readerVars
    <3>2. ASSUME NEW n, Read(s, n)
          PROVE  /\ reading[s] = "open" /\ told'[s] = told[s]
                 /\ \/ reading'[s] = reading[s]
                    \/ reading'[s] = "freed" /\ "hidden" \in mishaps'[s]
      BY <3>2, MishapIs DEF Read, MeetEnd, TypeOK
    <3>3. CASE \E n \in Bytes(s) : Read(s, n)
      BY <1>1, <3>2, <3>3
    <3>4. CASE ReadEnd(s)
      <4>1. reading'[s] = "freed" /\ told'[s] = told[s] \cup {ended[s]}
        BY <3>4 DEF ReadEnd, MeetEnd, Tell, TypeOK
      <4>2. ended[s] \in {"finished", "reset"}
        BY <3>4 DEF ReadEnd, AtEnd, TypeOK
      <4> QED BY <4>1, <4>2
    <3>5. CASE ReadClosed(s)
      <4>1. /\ reading[s] # "open" /\ reading'[s] = reading[s]
            /\ told'[s] = told[s] \cup {"closed"}
        BY <3>5 DEF ReadClosed, Tell, TypeOK
      <4> QED BY <1>1, <2>1, <4>1
    <3>6. CASE Stop(s)
      <4>1. reading'[s] = "stopped"
        BY <3>6 DEF Stop, TypeOK
      <4> QED BY <4>1
    <3>7. CASE \E n \in Bytes(s) : ReadChunk(s, n)
      BY <2>3, <3>7 DEF ReadChunk
    <3> QED
      BY <3>1, <3>3, <3>4, <3>5, <3>6, <3>7 DEF Reader
  <2> QED
    BY <2>2, <2>3
<1> QED
  BY <1>2, <1>3, StepIs

\* A reader that did not stop the stream is told "finished" or "reset" before
\* it is told ClosedStream, but for the one case the comment at streams.rs:273
\* and 330 denies: a read that returned data and met the end with it.
THEOREM OnlyDataHides == Spec => []OnlyDataHidesTheEnd
<1>1. Init => FreedIsTold
  BY DEF Init, FreedIsTold
<1>2. TypeOK /\ FreedIsTold /\ [Next]_vars => FreedIsTold'
  BY FreedIsToldStep
<1>3. TypeOK /\ FreedIsTold => OnlyDataHidesTheEnd
  BY DEF TypeOK, FreedIsTold, OnlyDataHidesTheEnd, EndTold
<1> QED
  BY <1>1, <1>2, <1>3, TypeCorrect, PTL DEF Spec
=============================================================================
