------------------------- MODULE DatagramQueue_proofs -------------------------
(***************************************************************************)
(* Theorems about DatagramQueue: no datagram is lost or sent twice, and    *)
(* only two named mishaps change the order, for all sizes, buffers, MTUs   *)
(* and windows.                                                            *)
(***************************************************************************)
EXTENDS DatagramQueue, SequenceTheorems, FiniteSetTheorems, WellFoundedInduction,
        TLAPS

-----------------------------------------------------------------------------
(* Induction and recursion, up to some number *)

\* Every set of naturals has a least element.
LEMMA Least ==
    ASSUME NEW S \in SUBSET Nat, S # {}
    PROVE  \E n \in S : \A m \in S : n <= m
<1> DEFINE R == OpToRel(<, Nat)
<1>1. IsWellFoundedOn(R, Nat)
  BY NatLessThanWellFounded
<1>2. \A x, y \in Nat : <<y, x>> \in R <=> y < x
  BY DEF OpToRel
<1> HIDE DEF R
<1>3. PICK n \in S : \A m \in S : ~ (<<m, n>> \in R)
  BY <1>1, WFMin
<1>4. n \in Nat /\ \A m \in S : m \in Nat /\ ~(m < n)
  BY <1>2, <1>3
<1> HIDE DEF R
<1>5. \A m \in S : n <= m
  BY <1>4
<1> QED
  BY <1>5

\* Induction up to n, on a set: what the proofs about recursive functions rest on.
LEMMA Induction ==
    ASSUME NEW n \in Nat, NEW S \in SUBSET Nat, 0 \in S,
           \A i \in 1..n : i - 1 \in S => i \in S
    PROVE  \A i \in 0..n : i \in S
<1> DEFINE Rest == {i \in 0..n : i \notin S}
<1>1. SUFFICES ASSUME Rest # {}
               PROVE  FALSE
  OBVIOUS
<1>2. PICK i \in Rest : \A j \in Rest : i <= j
  <2>1. Rest \in SUBSET Nat
    OBVIOUS
  <2> HIDE DEF Rest
  <2> QED
    BY <1>1, <2>1, Least
<1>3. i # 0 /\ i \in 1..n /\ i - 1 \in 0..n /\ ~(i <= i - 1)
  BY <1>2
<1> QED
  BY <1>2, <1>3

\* f begins with base and goes on as step says, up to n.
Follows(f, base, step, n) ==
    /\ f[0] = base
    /\ \A i \in 1..n : f[i] = step[i][f[i - 1]]

\* A function that is defined step by step exists.
LEMMA Recursion ==
    ASSUME NEW n \in Nat, NEW S, NEW base \in S, NEW step \in [1..n -> [S -> S]]
    PROVE  \E f \in [0..n -> S] : Follows(f, base, step, n)
<1> DEFINE Does(f, k) == /\ f[0] = base
                         /\ \A i \in 1..k : f[i] = step[i][f[i - 1]]
           Done == {k \in 0..n : \E f \in [0..k -> S] : Does(f, k)}
<1>1. 0 \in Done
  <2>1. [i \in 0..0 |-> base] \in [0..0 -> S] /\ Does([i \in 0..0 |-> base], 0)
    OBVIOUS
  <2>2. 0 \in 0..n
    OBVIOUS
  <2> HIDE DEF Does
  <2> QED
    BY <2>1, <2>2
<1>2. ASSUME NEW k \in 1..n, k - 1 \in Done
      PROVE  k \in Done
  <2>1. PICK f \in [0..(k - 1) -> S] : Does(f, k - 1)
    BY <1>2
  <2> DEFINE g == [i \in 0..k |-> IF i = k THEN step[k][f[k - 1]] ELSE f[i]]
  <2>2. step[k] \in [S -> S] /\ f[k - 1] \in S
    OBVIOUS
  <2>3. g \in [0..k -> S]
    BY <2>2
  <2>4. g[0] = base /\ g[k] = step[k][g[k - 1]]
    BY <2>1
  <2>5. ASSUME NEW i \in 1..(k - 1)
        PROVE  g[i] = step[i][g[i - 1]]
    <3>1. i \in 0..k /\ i - 1 \in 0..k /\ i # k /\ i - 1 # k
      OBVIOUS
    <3> QED
      BY <2>1, <3>1
  <2>6. \A i \in 1..k : i = k \/ i \in 1..(k - 1)
    OBVIOUS
  <2> HIDE DEF g
  <2>7. Does(g, k)
    BY <2>4, <2>5, <2>6
  <2> QED
    BY <2>3, <2>7
<1>3. \A k \in 0..n : k \in Done
  <2>1. Done \in SUBSET Nat /\ n \in Nat
    OBVIOUS
  <2>2. \A k \in 1..n : k - 1 \in Done => k \in Done
    BY <1>2
  <2> HIDE DEF Done
  <2> QED
    BY <1>1, <2>1, <2>2, Induction
<1>4. n \in Done
  BY <1>3
<1> QED
  BY <1>4 DEF Follows
-----------------------------------------------------------------------------
(* Queues of datagrams *)

\* d is in the queue.
In(d, queue) == \E i \in DOMAIN queue : queue[i] = d

\* No datagram is in it twice.
Once(queue) == \A i, j \in DOMAIN queue : queue[i] = queue[j] => i = j

\* part is the queue without some of its datagrams.
Thins(part, queue) ==
    /\ part \in Seq(Datagrams)
    /\ \A d \in Datagrams : In(d, part) => In(d, queue)
    /\ Once(queue) => Once(part)
    /\ Increasing(queue) => Increasing(part)

\* The range of a queue is what is in it.
LEMMA RangeIsIn ==
    \A queue, d : d \in Range(queue) <=> In(d, queue)
BY DEF Range, In

\* Nothing is in an empty queue, and one datagram in a queue of one.
LEMMA ShortQueues ==
    ASSUME NEW d \in Datagrams
    PROVE  /\ <<>> \in Seq(Datagrams) /\ <<d>> \in Seq(Datagrams)
           /\ \A c \in Datagrams : ~In(c, <<>>) /\ (In(c, <<d>>) <=> c = d)
           /\ Once(<<>>) /\ Once(<<d>>)
           /\ Increasing(<<>>) /\ Increasing(<<d>>)
BY DEF In, Once, Increasing, Datagrams

\* What Append does to a queue.
LEMMA AppendKeeps ==
    ASSUME NEW queue \in Seq(Datagrams), NEW e \in Datagrams
    PROVE  /\ Append(queue, e) \in Seq(Datagrams)
           /\ \A d \in Datagrams :
                In(d, Append(queue, e)) <=> In(d, queue) \/ d = e
           /\ Once(queue) /\ ~In(e, queue) => Once(Append(queue, e))
           /\ Increasing(queue) /\ (\A d \in Datagrams : In(d, queue) => d < e)
                => Increasing(Append(queue, e))
<1> DEFINE longer == Append(queue, e)
<1>1. /\ longer \in Seq(Datagrams)
      /\ DOMAIN queue = 1..Len(queue) /\ DOMAIN longer = 1..(Len(queue) + 1)
      /\ Len(queue) \in Nat
      /\ \A i \in 1..Len(queue) : longer[i] = queue[i]
      /\ longer[Len(queue) + 1] = e
  OBVIOUS
<1>2. \A i \in DOMAIN longer : i \in 1..Len(queue) \/ i = Len(queue) + 1
  BY <1>1
<1>3. \A i \in DOMAIN queue : queue[i] \in Datagrams
  OBVIOUS
<1> HIDE DEF longer
<1>4. \A d \in Datagrams : In(d, longer) <=> In(d, queue) \/ d = e
  BY <1>1, <1>2 DEF In
<1>5. Once(queue) /\ ~In(e, queue) => Once(longer)
  BY <1>1, <1>2 DEF Once, In
<1>6. ASSUME Increasing(queue), \A d \in Datagrams : In(d, queue) => d < e
      PROVE  Increasing(longer)
  <2>1. \A i \in DOMAIN queue : queue[i] < e
    BY <1>3, <1>6 DEF In
  <2>2. SUFFICES ASSUME NEW i \in DOMAIN longer, NEW j \in DOMAIN longer, i < j
                 PROVE  longer[i] < longer[j]
    BY DEF Increasing
  <2>3. i \in 1..Len(queue)
    BY <1>1, <2>2
  <2>4. CASE j \in 1..Len(queue)
    BY <1>1, <1>6, <2>2, <2>3, <2>4 DEF Increasing
  <2>5. CASE j = Len(queue) + 1
    BY <1>1, <2>1, <2>3, <2>5
  <2> QED
    BY <1>2, <2>4, <2>5
<1> QED
  BY <1>1, <1>4, <1>5, <1>6 DEF longer

\* A queue is its head and its tail.
LEMMA TailKeeps ==
    ASSUME NEW queue \in Seq(Datagrams), queue # <<>>
    PROVE  /\ Head(queue) \in Datagrams /\ In(Head(queue), queue)
           /\ Thins(Tail(queue), queue)
           /\ \A d \in Datagrams :
                In(d, queue) <=> d = Head(queue) \/ In(d, Tail(queue))
           /\ Once(queue) => ~In(Head(queue), Tail(queue))
           /\ Increasing(queue) =>
                \A d \in Datagrams : In(d, Tail(queue)) => Head(queue) < d
<1> DEFINE tail == Tail(queue)
<1>1. /\ tail \in Seq(Datagrams) /\ Len(queue) \in Nat \ {0}
      /\ DOMAIN queue = 1..Len(queue) /\ DOMAIN tail = 1..(Len(queue) - 1)
      /\ \A i \in 1..(Len(queue) - 1) : tail[i] = queue[i + 1]
      /\ Head(queue) = queue[1] /\ queue[1] \in Datagrams
  OBVIOUS
<1>2. /\ \A i \in DOMAIN tail : i + 1 \in DOMAIN queue /\ i + 1 # 1 /\ 1 < i + 1
      /\ 1 \in DOMAIN queue
      /\ \A i \in DOMAIN queue : i = 1 \/ (i - 1 \in DOMAIN tail /\ (i - 1) + 1 = i)
      /\ \A i, j \in DOMAIN tail : (i < j => i + 1 < j + 1)
                                     /\ (i + 1 = j + 1 => i = j)
  BY <1>1
<1> HIDE DEF tail
<1>3. \A d \in Datagrams : In(d, tail) => In(d, queue)
  BY <1>1, <1>2 DEF In
<1>4. \A d \in Datagrams : In(d, queue) <=> d = Head(queue) \/ In(d, tail)
  BY <1>1, <1>2 DEF In
<1>5. In(Head(queue), queue)
  BY <1>1, <1>2 DEF In
<1>6. Once(queue) => Once(tail) /\ ~In(Head(queue), tail)
  BY <1>1, <1>2 DEF Once, In
<1>7. Increasing(queue) => Increasing(tail)
  BY <1>1, <1>2 DEF Increasing
<1>8. Increasing(queue) => \A d \in Datagrams : In(d, tail) => Head(queue) < d
  BY <1>1, <1>2 DEF Increasing, In
<1> QED
  BY <1>1, <1>3, <1>4, <1>5, <1>6, <1>7, <1>8 DEF Thins, tail

\* What a queue before another holds.
LEMMA ConcatKeeps ==
    ASSUME NEW first \in Seq(Datagrams), NEW second \in Seq(Datagrams)
    PROVE  /\ first \o second \in Seq(Datagrams)
           /\ \A d \in Datagrams :
                In(d, first \o second) <=> In(d, first) \/ In(d, second)
           /\ Once(first) /\ Once(second)
                /\ (\A d \in Datagrams : ~(In(d, first) /\ In(d, second)))
                => Once(first \o second)
           /\ Increasing(first) /\ Increasing(second)
                /\ (\A c, d \in Datagrams : In(c, first) /\ In(d, second) => c < d)
                => Increasing(first \o second)
<1> DEFINE both == first \o second
           n == Len(first)
<1>1. /\ both \in Seq(Datagrams) /\ n \in Nat /\ Len(second) \in Nat
      /\ DOMAIN first = 1..n /\ DOMAIN second = 1..Len(second)
      /\ DOMAIN both = 1..(n + Len(second))
      /\ \A i \in 1..n : both[i] = first[i]
      /\ \A i \in 1..Len(second) : both[n + i] = second[i]
      /\ \A i \in DOMAIN first : first[i] \in Datagrams
      /\ \A i \in DOMAIN second : second[i] \in Datagrams
  OBVIOUS
<1> HIDE DEF both, n
<1>2. /\ \A i \in DOMAIN both : i \in DOMAIN first \/ i - n \in DOMAIN second
      /\ \A i \in DOMAIN first : i \in DOMAIN both
      /\ \A i \in DOMAIN second : n + i \in DOMAIN both
      /\ \A i \in DOMAIN both : n + (i - n) = i
  BY <1>1
<1>3. \A i \in DOMAIN both : i - n \in DOMAIN second => both[i] = second[i - n]
  BY <1>1, <1>2
<1>4. \A d \in Datagrams : In(d, both) <=> In(d, first) \/ In(d, second)
  BY <1>1, <1>2, <1>3 DEF In
<1>5. ASSUME Once(first), Once(second),
             \A d \in Datagrams : ~(In(d, first) /\ In(d, second)),
             NEW i \in DOMAIN both, NEW j \in DOMAIN both, both[i] = both[j]
      PROVE  i = j
  <2>1. CASE i \in DOMAIN first /\ j \in DOMAIN first
    BY <1>1, <1>5, <2>1 DEF Once
  <2>2. CASE i - n \in DOMAIN second /\ j - n \in DOMAIN second
    <3>1. i - n = j - n
      BY <1>3, <1>5, <2>2 DEF Once
    <3> QED
      BY <1>1, <3>1
  <2>3. ~(i \in DOMAIN first /\ j - n \in DOMAIN second)
    BY <1>1, <1>3, <1>5 DEF In
  <2>4. ~(j \in DOMAIN first /\ i - n \in DOMAIN second)
    BY <1>1, <1>3, <1>5 DEF In
  <2> QED
    BY <1>2, <2>1, <2>2, <2>3, <2>4
<1>6. ASSUME Increasing(first), Increasing(second),
             \A c, d \in Datagrams : In(c, first) /\ In(d, second) => c < d,
             NEW i \in DOMAIN both, NEW j \in DOMAIN both, i < j
      PROVE  both[i] < both[j]
  <2>1. CASE i \in DOMAIN first /\ j \in DOMAIN first
    BY <1>1, <1>6, <2>1 DEF Increasing
  <2>2. CASE i - n \in DOMAIN second /\ j - n \in DOMAIN second
    <3>1. i - n < j - n
      BY <1>1, <1>6
    <3> QED
      BY <1>3, <1>6, <2>2, <3>1 DEF Increasing
  <2>3. CASE i \in DOMAIN first /\ j - n \in DOMAIN second
    BY <1>1, <1>3, <1>6, <2>3 DEF In
  <2>4. ~(j \in DOMAIN first /\ i - n \in DOMAIN second)
    BY <1>1, <1>6
  <2> QED
    BY <1>2, <2>1, <2>2, <2>3, <2>4
<1>7. Once(first) /\ Once(second)
        /\ (\A d \in Datagrams : ~(In(d, first) /\ In(d, second)))
        => Once(both)
  BY <1>5 DEF Once
<1>8. Increasing(first) /\ Increasing(second)
        /\ (\A c, d \in Datagrams : In(c, first) /\ In(d, second) => c < d)
        => Increasing(both)
  BY <1>6 DEF Increasing
<1> QED
  BY <1>1, <1>4, <1>7, <1>8 DEF both

\* Eviction leaves the last datagrams of the buffer.
LEMMA KeptThins ==
    ASSUME NEW queue \in Seq(Datagrams)
    PROVE  Thins(Kept(queue), queue)
<1> DEFINE over == {i \in DOMAIN queue :
                      Bytes(SubSeq(queue, i, Len(queue))) > SendBuffer}
           n == Cardinality(over)
           kept == SubSeq(queue, n + 1, Len(queue))
<1>1. n \in 0..Len(queue)
  <2>1. Len(queue) \in Nat /\ DOMAIN queue = 1..Len(queue)
    OBVIOUS
  <2>2. IsFiniteSet(1..Len(queue)) /\ Cardinality(1..Len(queue)) = Len(queue)
    <3> DEFINE len == Len(queue)
    <3>1. len \in Nat
      BY <2>1
    <3> HIDE DEF len
    <3>2. /\ IsFiniteSet(1..len)
          /\ Cardinality(1..len) = IF 1 > len THEN 0 ELSE len - 1 + 1
      BY <3>1, FS_Interval
    <3>3. IsFiniteSet(1..len) /\ Cardinality(1..len) = len
      BY <3>1, <3>2
    <3> QED
      BY <3>3 DEF len
  <2>3. over \in SUBSET (1..Len(queue))
    BY <2>1
  <2> HIDE DEF over
  <2>4. IsFiniteSet(over) /\ Cardinality(over) <= Len(queue)
    BY <2>2, <2>3, FS_Subset
  <2>5. Cardinality(over) \in Nat
    BY <2>4, FS_CardinalityType
  <2> QED
    BY <2>1, <2>4, <2>5
<1>2. kept = Kept(queue)
  BY DEF Kept
<1> HIDE DEF n
<1>3. \A i \in n + 1..Len(queue) : queue[i] \in Datagrams
  BY <1>1
<1>4. /\ kept \in Seq(Datagrams) /\ Len(queue) \in Nat
      /\ DOMAIN queue = 1..Len(queue) /\ DOMAIN kept = 1..(Len(queue) - n)
      /\ \A i \in DOMAIN kept : kept[i] = queue[n + i]
      /\ \A i \in DOMAIN kept : n + i \in DOMAIN queue
      /\ \A i, j \in DOMAIN kept : (i < j => n + i < n + j)
                                     /\ (n + i = n + j => i = j)
  BY <1>1, <1>3
<1> HIDE DEF kept
<1>5. \A d \in Datagrams : In(d, kept) => In(d, queue)
  BY <1>4 DEF In
<1>6. Once(queue) => Once(kept)
  BY <1>4 DEF Once
<1>7. Increasing(queue) => Increasing(kept)
  BY <1>4 DEF Increasing
<1> QED
  BY <1>2, <1>4, <1>5, <1>6, <1>7 DEF Thins

\* The recursion of Fitting has a solution, so that is what Fitting is.
LEMMA FittingIs ==
    ASSUME NEW queue \in Seq(Datagrams), NEW size,
           NEW fitting, fitting = Fitting(queue, size)
    PROVE  fitting = [n \in 0..Len(queue) |->
                        IF n = 0 THEN <<>>
                        ELSE IF Size[queue[n]] <= size
                        THEN Append(fitting[n - 1], queue[n])
                        ELSE fitting[n - 1]]
<1> DEFINE step == [i \in 1..Len(queue) |-> [part \in Seq(Datagrams) |->
                      IF Size[queue[i]] <= size
                      THEN Append(part, queue[i]) ELSE part]]
<1>1. /\ Len(queue) \in Nat /\ <<>> \in Seq(Datagrams)
      /\ \A i \in 1..Len(queue) : queue[i] \in Datagrams
  OBVIOUS
<1>2. \A part \in Seq(Datagrams), d \in Datagrams :
        Append(part, d) \in Seq(Datagrams)
  OBVIOUS
<1>3. step \in [1..Len(queue) -> [Seq(Datagrams) -> Seq(Datagrams)]]
  BY <1>1, <1>2
<1>4. \A i \in 1..Len(queue), part \in Seq(Datagrams) :
        step[i][part] = IF Size[queue[i]] <= size
                        THEN Append(part, queue[i]) ELSE part
  OBVIOUS
<1> DEFINE Queues == Seq(Datagrams)
           len == Len(queue)
           none == <<>>
<1> HIDE DEF step
<1>5. PICK f \in [0..len -> Queues] : Follows(f, none, step, len)
  <2>1. len \in Nat /\ none \in Queues /\ step \in [1..len -> [Queues -> Queues]]
    BY <1>1, <1>3
  <2> HIDE DEF Queues, len, none
  <2> QED
    BY <2>1, Recursion
<1>6. \A n \in 0..Len(queue) : n # 0 => n \in 1..Len(queue) /\ n - 1 \in 0..Len(queue)
  BY <1>1
<1>7. f = [n \in 0..Len(queue) |->
             IF n = 0 THEN <<>>
             ELSE IF Size[queue[n]] <= size
             THEN Append(f[n - 1], queue[n])
             ELSE f[n - 1]]
  <2>1. \A n \in 0..Len(queue) :
          f[n] = IF n = 0 THEN <<>>
                 ELSE IF Size[queue[n]] <= size
                 THEN Append(f[n - 1], queue[n])
                 ELSE f[n - 1]
    <3>1. f[0] = <<>>
      BY <1>5 DEF Follows
    <3>2. ASSUME NEW n \in 0..Len(queue), n # 0
          PROVE  f[n] = IF Size[queue[n]] <= size
                        THEN Append(f[n - 1], queue[n]) ELSE f[n - 1]
      <4>1. n \in 1..len /\ n - 1 \in 0..len
        BY <1>6, <3>2
      <4>2. f[n] = step[n][f[n - 1]] /\ f[n - 1] \in Queues
        BY <1>5, <4>1 DEF Follows
      <4> QED
        BY <1>4, <4>1, <4>2
    <3> QED
      BY <3>1, <3>2
  <2>2. f = [n \in 0..Len(queue) |-> f[n]]
    BY <1>5
  <2> QED
    BY <2>1, <2>2
<1> QED
  BY <1>7 DEF Fitting

\* A fall of the MTU takes datagrams out of the buffer and leaves the others as
\* they were.
LEMMA FittingThins ==
    ASSUME NEW queue \in Seq(Datagrams), NEW size
    PROVE  Thins(Fitting(queue, size)[Len(queue)], queue)
<1> DEFINE fitting == Fitting(queue, size)
           Part(n) ==
             /\ fitting[n] \in Seq(Datagrams)
             /\ \A d \in Datagrams :
                  In(d, fitting[n]) => \E i \in 1..n : queue[i] = d
             /\ Once(queue) => Once(fitting[n])
             /\ Increasing(queue) => Increasing(fitting[n])
           Parts == {n \in 0..Len(queue) : Part(n)}
<1>1. fitting = [n \in 0..Len(queue) |->
                   IF n = 0 THEN <<>>
                   ELSE IF Size[queue[n]] <= size
                   THEN Append(fitting[n - 1], queue[n])
                   ELSE fitting[n - 1]]
  BY FittingIs
<1> HIDE DEF fitting
<1>2. /\ Len(queue) \in Nat /\ DOMAIN queue = 1..Len(queue)
      /\ \A i \in 1..Len(queue) : queue[i] \in Datagrams
      /\ 0 \in 0..Len(queue)
  OBVIOUS
<1>3. fitting[0] = <<>>
  BY <1>1, <1>2
<1>4. /\ <<>> \in Seq(Datagrams) /\ \A d : ~In(d, <<>>)
      /\ Once(<<>>) /\ Increasing(<<>>)
  BY DEF In, Once, Increasing
<1>5. 0 \in Parts
  BY <1>2, <1>3, <1>4
<1>6. ASSUME NEW n \in 1..Len(queue), n - 1 \in Parts
      PROVE  n \in Parts
  <2> DEFINE d == queue[n]
             part == fitting[n - 1]
  <2>1. d \in Datagrams /\ Part(n - 1) /\ n \in 0..Len(queue) /\ n # 0
    BY <1>2, <1>6
  <2>2. CASE ~(Size[d] <= size)
    <3>1. fitting[n] = part
      BY <1>1, <2>1, <2>2
    <3>2. \A i \in 1..n - 1 : i \in 1..n
      OBVIOUS
    <3>3. Part(n)
      BY <2>1, <3>1, <3>2
    <3> QED
      BY <2>1, <3>3
  <2>3. CASE Size[d] <= size
    <3>1. fitting[n] = Append(part, d)
      BY <1>1, <2>1, <2>3
    <3>2. /\ Append(part, d) \in Seq(Datagrams)
          /\ \A c \in Datagrams : In(c, Append(part, d)) <=> In(c, part) \/ c = d
          /\ Once(part) /\ ~In(d, part) => Once(Append(part, d))
          /\ Increasing(part) /\ (\A c \in Datagrams : In(c, part) => c < d)
               => Increasing(Append(part, d))
      BY <2>1, AppendKeeps
    <3>3. \A c \in Datagrams : In(c, part) => \E i \in 1..n - 1 : queue[i] = c
      BY <2>1
    <3>4. /\ \A i \in 1..n - 1 : i \in 1..n /\ i \in 1..Len(queue) /\ i < n
          /\ n \in 1..n
          /\ \A i \in 1..n - 1 : i # n
      BY <1>2
    <3>5. Once(queue) => ~In(d, part)
      BY <1>2, <2>1, <3>3, <3>4 DEF Once
    <3>6. Increasing(queue) => \A c \in Datagrams : In(c, part) => c < d
      BY <1>2, <2>1, <3>3, <3>4 DEF Increasing
    <3>7. \A c \in Datagrams :
            In(c, Append(part, d)) => \E i \in 1..n : queue[i] = c
      BY <3>2, <3>3, <3>4
    <3>8. Part(n)
      BY <2>1, <3>1, <3>2, <3>5, <3>6, <3>7
    <3> QED
      BY <2>1, <3>8
  <2> QED
    BY <2>2, <2>3
<1>7. Len(queue) \in Parts
  <2>1. Parts \in SUBSET Nat
    OBVIOUS
  <2>2. \A n \in 1..Len(queue) : n - 1 \in Parts => n \in Parts
    BY <1>6
  <2> HIDE DEF Parts
  <2>3. \A n \in 0..Len(queue) : n \in Parts
    BY <1>2, <1>5, <2>1, <2>2, Induction
  <2> QED
    BY <1>2, <2>3
<1>8. Part(Len(queue))
  BY <1>7
<1> QED
  BY <1>2, <1>8 DEF Thins, In, fitting

-----------------------------------------------------------------------------
(* The flush, datagram by datagram *)

Flushes == [kept : Seq(Datagrams), sent : Seq(Datagrams)]

\* The recursion of Flushing has a solution, so that is what Flushing is.
LEMMA FlushingIs ==
    ASSUME pending_datagrams \in Seq(Datagrams), outgoing \in Seq(Datagrams),
           NEW f, f = Flushing
    PROVE  /\ f[0] = [kept |-> <<>>, sent |-> outgoing]
           /\ \A n \in 1..Len(pending_datagrams) :
                f[n] = FlushOne(f[n - 1], pending_datagrams[n])
           /\ f \in [0..Len(pending_datagrams) -> Flushes]
<1> DEFINE step == [i \in 1..Len(pending_datagrams) |-> [r \in Flushes |->
                      FlushOne(r, pending_datagrams[i])]]
           len == Len(pending_datagrams)
           none == [kept |-> <<>>, sent |-> outgoing]
<1>1. /\ len \in Nat /\ none \in Flushes
      /\ \A i \in 1..len : pending_datagrams[i] \in Datagrams
  BY DEF Flushes
<1>2. ASSUME NEW r \in Flushes, NEW d \in Datagrams
      PROVE  FlushOne(r, d) \in Flushes
  <2>1. /\ r.kept \in Seq(Datagrams) /\ r.sent \in Seq(Datagrams)
        /\ Append(r.kept, d) \in Seq(Datagrams)
        /\ Append(r.sent, d) \in Seq(Datagrams)
    BY DEF Flushes
  <2> QED
    BY <2>1 DEF FlushOne, Flushes
<1>3. step \in [1..len -> [Flushes -> Flushes]]
  BY <1>1, <1>2
<1>4. \A i \in 1..len, r \in Flushes :
        step[i][r] = FlushOne(r, pending_datagrams[i])
  OBVIOUS
<1> HIDE DEF step, len, none
<1>5. PICK g \in [0..len -> Flushes] : Follows(g, none, step, len)
  BY <1>1, <1>3, Recursion
<1>6. ASSUME NEW n \in 1..len
      PROVE  g[n] = FlushOne(g[n - 1], pending_datagrams[n])
  <2>1. n - 1 \in 0..len
    BY <1>1
  <2>2. g[n] = step[n][g[n - 1]] /\ g[n - 1] \in Flushes
    BY <1>5, <2>1 DEF Follows
  <2> QED
    BY <1>4, <2>2
<1>7. g[0] = none
  BY <1>5 DEF Follows
<1>8. \A n \in 0..len : n = 0 \/ n \in 1..len
  BY <1>1
<1>9. g = [n \in 0..len |->
             IF n = 0 THEN none ELSE FlushOne(g[n - 1], pending_datagrams[n])]
  <2>1. \A n \in 0..len :
          g[n] = IF n = 0 THEN none ELSE FlushOne(g[n - 1], pending_datagrams[n])
    BY <1>6, <1>7, <1>8
  <2>2. g = [n \in 0..len |-> g[n]]
    BY <1>5
  <2> QED
    BY <2>1, <2>2
<1>10. f = [n \in 0..len |->
              IF n = 0 THEN none ELSE FlushOne(f[n - 1], pending_datagrams[n])]
  BY <1>9 DEF Flushing, len, none
<1>11. \A n \in 1..len : n \in 0..len /\ n # 0 /\ n - 1 \in 0..len
  BY <1>1
<1>12. /\ f[0] = none
       /\ \A n \in 1..len : f[n] = FlushOne(f[n - 1], pending_datagrams[n])
  BY <1>1, <1>10, <1>11
<1>13. \A n \in 0..len : f[n] \in Flushes
  <2> DEFINE Typed == {n \in 0..len : f[n] \in Flushes}
  <2>1. 0 \in Typed
    BY <1>1, <1>12
  <2>2. \A n \in 1..len : n - 1 \in Typed => n \in Typed
    BY <1>1, <1>2, <1>11, <1>12
  <2>3. Typed \in SUBSET Nat
    OBVIOUS
  <2> HIDE DEF Typed
  <2>4. \A n \in 0..len : n \in Typed
    BY <1>1, <2>1, <2>2, <2>3, Induction
  <2> QED
    BY <2>4 DEF Typed
<1>14. f \in [0..len -> Flushes]
  BY <1>10, <1>13
<1> QED
  BY <1>12, <1>14 DEF len, none

\* Every datagram in one queue is before every datagram in the other.
Precedes(first, second) ==
    \A c, d \in Datagrams : In(c, first) /\ In(d, second) => c < d

\* What a flush does with the datagrams that wait: each is kept or sent, once,
\* unless it is too large, and what is kept and what is sent stay in order.
Sorted(flushed) ==
    /\ \A d \in Datagrams : In(d, outgoing) => In(d, flushed.sent)
    /\ \A d \in Datagrams :
         In(d, flushed.kept) => In(d, pending_datagrams) /\ ~TooLarge(d)
    /\ \A d \in Datagrams :
         In(d, flushed.sent) =>
           In(d, outgoing) \/ (In(d, pending_datagrams) /\ ~TooLarge(d))
    /\ \A d \in Datagrams :
         In(d, pending_datagrams) /\ ~TooLarge(d) =>
           In(d, flushed.kept) \/ In(d, flushed.sent)
    /\ \A d \in Datagrams : ~(In(d, flushed.kept) /\ In(d, flushed.sent))
    /\ Once(flushed.kept) /\ Once(flushed.sent)
    /\ Increasing(outgoing) /\ Increasing(pending_datagrams)
         /\ Precedes(outgoing, pending_datagrams)
         => Increasing(flushed.kept) /\ Increasing(flushed.sent)

LEMMA FlushedIs ==
    ASSUME pending_datagrams \in Seq(Datagrams), outgoing \in Seq(Datagrams),
           Once(pending_datagrams), Once(outgoing),
           \A d \in Datagrams : ~(In(d, pending_datagrams) /\ In(d, outgoing))
    PROVE  Flushed \in Flushes /\ Sorted(Flushed)
<1> DEFINE f == Flushing
           len == Len(pending_datagrams)
           queue == pending_datagrams
           Tried(d, n) == \E i \in 1..n : queue[i] = d
           InLine == /\ Increasing(outgoing) /\ Increasing(queue)
                     /\ Precedes(outgoing, queue)
           Good(n) ==
             /\ \A d \in Datagrams : In(d, outgoing) => In(d, f[n].sent)
             /\ \A d \in Datagrams :
                  In(d, f[n].kept) => Tried(d, n) /\ ~TooLarge(d)
             /\ \A d \in Datagrams :
                  In(d, f[n].sent) =>
                    In(d, outgoing) \/ (Tried(d, n) /\ ~TooLarge(d))
             /\ \A d \in Datagrams :
                  Tried(d, n) /\ ~TooLarge(d) =>
                    In(d, f[n].kept) \/ In(d, f[n].sent)
             /\ \A d \in Datagrams : ~(In(d, f[n].kept) /\ In(d, f[n].sent))
             /\ Once(f[n].kept) /\ Once(f[n].sent)
             /\ InLine => Increasing(f[n].kept) /\ Increasing(f[n].sent)
           Goods == {n \in 0..len : Good(n)}
<1>1. /\ f[0] = [kept |-> <<>>, sent |-> outgoing]
      /\ \A n \in 1..len : f[n] = FlushOne(f[n - 1], queue[n])
      /\ f \in [0..len -> Flushes]
  BY FlushingIs
<1> HIDE DEF f
<1>2. /\ len \in Nat /\ DOMAIN queue = 1..len
      /\ \A i \in 1..len : queue[i] \in Datagrams
      /\ 0 \in 0..len
  OBVIOUS
<1>3. /\ \A d : ~In(d, <<>>)
      /\ Once(<<>>) /\ Increasing(<<>>)
  BY DEF In, Once, Increasing
<1>4. \A d : Tried(d, len) <=> In(d, queue)
  BY <1>2 DEF In
<1>5. \A d : ~Tried(d, 0)
  OBVIOUS
<1>6. ASSUME NEW n \in 1..len
      PROVE  /\ \A d : Tried(d, n) <=> Tried(d, n - 1) \/ d = queue[n]
             /\ ~Tried(queue[n], n - 1)
             /\ ~In(queue[n], outgoing)
             /\ \A d \in Datagrams :
                  InLine /\ (In(d, outgoing) \/ Tried(d, n - 1)) => d < queue[n]
  <2>1. /\ n \in 1..n /\ n \in DOMAIN queue /\ queue[n] \in Datagrams
        /\ \A i \in 1..n - 1 : i \in 1..n /\ i \in DOMAIN queue /\ i < n /\ i # n
        /\ \A i \in 1..n : i = n \/ i \in 1..n - 1
    BY <1>2
  <2>2. \A d : Tried(d, n) <=> Tried(d, n - 1) \/ d = queue[n]
    BY <2>1
  <2>3. ~Tried(queue[n], n - 1)
    BY <2>1 DEF Once
  <2>4. In(queue[n], queue)
    BY <2>1 DEF In
  <2>5. \A d \in Datagrams : Increasing(queue) /\ Tried(d, n - 1) => d < queue[n]
    BY <2>1 DEF Increasing
  <2>6. \A d \in Datagrams :
          Precedes(outgoing, queue) /\ In(d, outgoing) => d < queue[n]
    BY <2>1, <2>4 DEF Precedes
  <2> HIDE DEF Tried
  <2> QED
    BY <2>1, <2>2, <2>3, <2>4, <2>5, <2>6
<1> HIDE DEF Tried, InLine
<1>7. 0 \in Goods
  <2>1. f[0].kept = <<>> /\ f[0].sent = outgoing
    BY <1>1
  <2>2. InLine => Increasing(outgoing)
    BY DEF InLine
  <2>3. Good(0)
    BY <1>3, <1>5, <2>1, <2>2
  <2> QED
    BY <1>2, <2>3
<1>8. ASSUME NEW n \in 1..len, n - 1 \in Goods
      PROVE  n \in Goods
  <2> DEFINE d == queue[n]
             kept == f[n - 1].kept
             sent == f[n - 1].sent
  <2>1. /\ d \in Datagrams /\ Good(n - 1) /\ n \in 0..len /\ n - 1 \in 0..len
        /\ f[n] = FlushOne(f[n - 1], d)
    BY <1>1, <1>2, <1>8
  <2>2. kept \in Seq(Datagrams) /\ sent \in Seq(Datagrams)
    BY <1>1, <2>1 DEF Flushes
  <2>3. ~In(d, kept) /\ ~In(d, sent)
    BY <1>6, <2>1
  <2>4. InLine => \A c \in Datagrams : In(c, kept) \/ In(c, sent) => c < d
    BY <1>6, <2>1
  <2>5. CASE TooLarge(d)
    <3>1. f[n].kept = kept /\ f[n].sent = sent
      BY <2>1, <2>5 DEF FlushOne
    <3>2. Good(n)
      BY <1>6, <2>1, <2>5, <3>1
    <3> QED
      BY <2>1, <3>2
  <2>6. CASE ~TooLarge(d) /\ Fits(d, sent)
    <3>1. f[n].kept = kept /\ f[n].sent = Append(sent, d)
      BY <2>1, <2>6 DEF FlushOne
    <3>2. /\ \A c \in Datagrams : In(c, Append(sent, d)) <=> In(c, sent) \/ c = d
          /\ Once(sent) /\ ~In(d, sent) => Once(Append(sent, d))
          /\ Increasing(sent) /\ (\A c \in Datagrams : In(c, sent) => c < d)
               => Increasing(Append(sent, d))
      BY <2>1, <2>2, AppendKeeps
    <3>3. Good(n)
      BY <1>6, <2>1, <2>3, <2>4, <2>6, <3>1, <3>2
    <3> QED
      BY <2>1, <3>3
  <2>7. CASE ~TooLarge(d) /\ ~Fits(d, sent)
    <3>1. f[n].kept = Append(kept, d) /\ f[n].sent = sent
      BY <2>1, <2>7 DEF FlushOne
    <3>2. /\ \A c \in Datagrams : In(c, Append(kept, d)) <=> In(c, kept) \/ c = d
          /\ Once(kept) /\ ~In(d, kept) => Once(Append(kept, d))
          /\ Increasing(kept) /\ (\A c \in Datagrams : In(c, kept) => c < d)
               => Increasing(Append(kept, d))
      BY <2>1, <2>2, AppendKeeps
    <3>3. Good(n)
      BY <1>6, <2>1, <2>3, <2>4, <2>7, <3>1, <3>2
    <3> QED
      BY <2>1, <3>3
  <2> QED
    BY <2>5, <2>6, <2>7
<1>9. len \in Goods
  <2>1. Goods \in SUBSET Nat
    OBVIOUS
  <2>2. \A n \in 1..len : n - 1 \in Goods => n \in Goods
    BY <1>8
  <2> HIDE DEF Goods, len
  <2>3. \A n \in 0..len : n \in Goods
    BY <1>2, <1>7, <2>1, <2>2, Induction
  <2> QED
    BY <1>2, <2>3
<1>10. Good(len) /\ len \in 0..len
  BY <1>2, <1>9
<1>11. Flushed = f[len] /\ f[len] \in Flushes
  BY <1>1, <1>10 DEF Flushed, f
<1>12. Sorted(f[len])
  BY <1>4, <1>10 DEF Sorted, InLine
<1> QED
  BY <1>11, <1>12

-----------------------------------------------------------------------------
(* The inductive invariant *)

\* What a visit knows of the event and of the refused transmit on its way.
VisitInv ==
    /\ pc = "loop" => ~unblocked
    /\ pc = "loop" /\ blocked_transmit # <<>> => should_poll \/ transmit_blocked
    /\ pc = "poll" /\ blocked_transmit # <<>> => transmit_blocked

Somewhere(d) ==
    \/ In(d, pending_datagrams) \/ In(d, outgoing)
    \/ In(d, blocked_transmit) \/ In(d, wire)

\* No queue has a datagram twice, no two have the same, and what is in one of
\* them is what was sent and met no other fate.
NoneTwice == Once(pending_datagrams) /\ Once(outgoing) /\ Once(wire)

NoneShared ==
    \A d \in Datagrams :
      /\ In(d, pending_datagrams) =>
           ~In(d, outgoing) /\ ~In(d, blocked_transmit) /\ ~In(d, wire)
      /\ In(d, outgoing) => ~In(d, blocked_transmit) /\ ~In(d, wire)
      /\ In(d, blocked_transmit) => ~In(d, wire)

AllAccounted ==
    \A d \in Datagrams :
      /\ Somewhere(d) <=> d <= accepted /\ fate[d] = "none"
      /\ d <= accepted \/ fate[d] = "none"

OnceInv == NoneTwice /\ NoneShared /\ AllAccounted

\* The queues, from the wire back to what waits, are in the order of sending.
Ordered ==
    /\ Increasing(wire) /\ Increasing(outgoing) /\ Increasing(pending_datagrams)
    /\ Precedes(wire, blocked_transmit) /\ Precedes(wire, outgoing)
    /\ Precedes(wire, pending_datagrams)
    /\ Precedes(blocked_transmit, outgoing)
    /\ Precedes(blocked_transmit, pending_datagrams)
    /\ Precedes(outgoing, pending_datagrams)

InOrder == mishaps \cap {"overtaken", "skipped"} = {} => Ordered

-----------------------------------------------------------------------------
(* What the steps do to queues and fates *)

\* Losing datagrams gives them their fate and leaves the others theirs.
LEMMA LoseIs ==
    ASSUME fate \in [Datagrams -> Fates], NEW lost, NEW why \in Fates,
           Lose(lost, why)
    PROVE  /\ fate' \in [Datagrams -> Fates]
           /\ \A d \in Datagrams : d \in lost => fate'[d] = why
           /\ \A d \in Datagrams : d \notin lost => fate'[d] = fate[d]
BY DEF Lose

\* The transmit of a poll is in one queue, and leaves it.
Leaves(d) ==
    /\ d \in Datagrams
    /\ \/ /\ blocked_transmit = <<d>> /\ outgoing' = outgoing
       \/ /\ blocked_transmit = <<>> /\ outgoing # <<>>
          /\ d = Head(outgoing) /\ outgoing' = Tail(outgoing)

LEMMA TransmittedLeaves ==
    ASSUME TypeOK, PollTransmit
    PROVE  Leaves(Transmitted)
<1>1. /\ outgoing \in Seq(Datagrams) /\ blocked_transmit \in Seq(Datagrams)
      /\ Len(blocked_transmit) <= 1
  BY DEF TypeOK
<1>2. CASE blocked_transmit # <<>>
  <2> DEFINE d == blocked_transmit[1]
  <2>1. blocked_transmit = <<d>> /\ d \in Datagrams
    <3>1. Len(blocked_transmit) = 1
      BY <1>1, <1>2
    <3>2. d \in Datagrams
      BY <1>1, <3>1
    <3>3. /\ <<d>> \in Seq(Datagrams) /\ Len(<<d>>) = 1
          /\ \A i \in 1..1 : blocked_transmit[i] = <<d>>[i]
      BY <3>2
    <3> HIDE DEF d
    <3>4. blocked_transmit = <<d>>
      BY <1>1, <3>1, <3>3, SeqEqual
    <3> QED
      BY <3>2, <3>4
  <2>2. Transmitted = d
    <3>1. Len(blocked_transmit) = 1
      BY <1>1, <1>2
    <3> QED
      BY <1>1, <1>2, <3>1, ConcatProperties DEF Transmitted
  <2>3. outgoing' = outgoing
    BY <1>2 DEF PollTransmit, BuildTransmit
  <2> QED
    BY <2>1, <2>2, <2>3 DEF Leaves
<1>3. CASE blocked_transmit = <<>>
  <2>1. outgoing # <<>> /\ outgoing' = Tail(outgoing)
    BY <1>3 DEF PollTransmit, HasTransmit, BuildTransmit
  <2>2. Transmitted = Head(outgoing)
    BY <1>1, <1>3, ConcatEmptySeq DEF Transmitted
  <2>3. Head(outgoing) \in Datagrams
    BY <1>1, <2>1
  <2> QED
    BY <1>3, <2>1, <2>2, <2>3 DEF Leaves
<1> QED
  BY <1>2, <1>3

\* What the two queues held of the transmit, before and after.
LEMMA LeavesMeans ==
    ASSUME TypeOK, NEW d \in Datagrams, Leaves(d)
    PROVE  /\ outgoing' \in Seq(Datagrams)
           /\ \A c \in Datagrams :
                In(c, blocked_transmit) \/ In(c, outgoing)
                  <=> c = d \/ In(c, outgoing')
           /\ \A c \in Datagrams : In(c, outgoing') => In(c, outgoing)
           /\ \A c \in Datagrams : In(c, blocked_transmit) => c = d
           /\ NoneTwice => Once(outgoing')
           /\ NoneTwice /\ NoneShared => ~In(d, outgoing')
           /\ Increasing(outgoing) => Increasing(outgoing')
           /\ Increasing(outgoing) /\ Precedes(blocked_transmit, outgoing) =>
                \A c \in Datagrams : In(c, outgoing') => d < c
<1>1. outgoing \in Seq(Datagrams) /\ blocked_transmit \in Seq(Datagrams)
  BY DEF TypeOK
<1>2. /\ \A c \in Datagrams : ~In(c, <<>>)
      /\ \A c \in Datagrams : In(c, <<d>>) <=> c = d
  BY ShortQueues
<1>3. CASE blocked_transmit = <<d>> /\ outgoing' = outgoing
  BY <1>1, <1>2, <1>3 DEF NoneTwice, NoneShared, Precedes
<1>4. CASE /\ blocked_transmit = <<>> /\ outgoing # <<>>
           /\ d = Head(outgoing) /\ outgoing' = Tail(outgoing)
  <2>1. /\ Thins(Tail(outgoing), outgoing)
        /\ \A c \in Datagrams :
             In(c, outgoing) <=> c = d \/ In(c, Tail(outgoing))
        /\ Once(outgoing) => ~In(d, Tail(outgoing))
        /\ Increasing(outgoing) =>
             \A c \in Datagrams : In(c, Tail(outgoing)) => d < c
    BY <1>1, <1>4, TailKeeps
  <2> QED
    BY <1>2, <1>4, <2>1 DEF NoneTwice, Thins
<1> QED
  BY <1>3, <1>4 DEF Leaves

-----------------------------------------------------------------------------
(* Types *)

LEMMA InitTyped == Init => TypeOK /\ VisitInv
<1>1. <<>> \in Seq(Datagrams) /\ Len(<<>>) <= 1
  OBVIOUS
<1>2. 0 \in 0..Len(Size) /\ Window \in 0..Window
  BY DatagramAssumption
<1>3. ASSUME Init
      PROVE  TypeOK
  <2>1. fate \in [Datagrams -> Fates] /\ mishaps \in SUBSET Mishaps
    BY <1>3 DEF Init, Fates, Mishaps
  <2>2. /\ should_poll \in BOOLEAN /\ send_blocked \in BOOLEAN
        /\ unblocked \in BOOLEAN /\ closed \in BOOLEAN
        /\ transmit_blocked \in BOOLEAN
        /\ pc = "application" => ~unblocked /\ (blocked_transmit # <<>> => should_poll)
    BY <1>3 DEF Init
  <2>3. /\ pending_datagrams \in Seq(Datagrams) /\ outgoing \in Seq(Datagrams)
        /\ blocked_transmit \in Seq(Datagrams) /\ wire \in Seq(Datagrams)
        /\ Len(blocked_transmit) <= 1
        /\ max_size \in MaxSizes /\ window \in 0..Window
        /\ pc \in {"application", "loop", "poll_transmit", "poll"}
        /\ accepted \in 0..Len(Size)
    BY <1>1, <1>2, <1>3 DEF Init
  <2> QED
    BY <2>1, <2>2, <2>3 DEF TypeOK
<1> QED
  BY <1>3 DEF Init, VisitInv

LEMMA ApplicationTyped ==
    ASSUME TypeOK, VisitInv, Application
    PROVE  TypeOK' /\ VisitInv'
<1> USE DEF TypeOK, VisitInv
<1>1. ASSUME NEW d \in Datagrams, Sending(d)
      PROVE  accepted' \in 0..Len(Size)
  BY <1>1, DatagramAssumption DEF Sending, Datagrams
<1>2. ASSUME NEW d \in Datagrams, Refuse(d)
      PROVE  TypeOK' /\ VisitInv'
  <2>1. fate' \in [Datagrams -> Fates]
    BY <1>2, LoseIs DEF Refuse, Fates
  <2>2. accepted' \in 0..Len(Size)
    BY <1>1, <1>2 DEF Refuse
  <2> QED
    BY <1>2, <2>1, <2>2 DEF Refuse, Sending, loopVars
<1>3. ASSUME NEW d \in Datagrams, SendDatagram(d)
      PROVE  TypeOK' /\ VisitInv'
  <2>1. fate' \in [Datagrams -> Fates]
    BY <1>3, LoseIs DEF SendDatagram, Fates
  <2>2. accepted' \in 0..Len(Size)
    BY <1>1, <1>3 DEF SendDatagram
  <2>3. outgoing' \in Seq(Datagrams)
    BY <1>3, KeptThins, AppendKeeps DEF SendDatagram, Thins
  <2>4. mishaps' \in SUBSET Mishaps
    BY <1>3 DEF SendDatagram, Mishap, Mishaps
  <2> QED
    BY <1>3, <2>1, <2>2, <2>3, <2>4 DEF SendDatagram, Sending, loopVars
<1>4. ASSUME NEW d \in Datagrams, SendDatagramWait(d)
      PROVE  TypeOK' /\ VisitInv'
  <2>1. outgoing' \in Seq(Datagrams) /\ pending_datagrams' \in Seq(Datagrams)
    BY <1>4, AppendKeeps DEF SendDatagramWait
  <2>2. accepted' \in 0..Len(Size)
    BY <1>1, <1>4 DEF SendDatagramWait
  <2>3. mishaps' \in SUBSET Mishaps /\ send_blocked' \in BOOLEAN
    BY <1>4 DEF SendDatagramWait, Mishap, Mishaps
  <2> QED
    BY <1>4, <2>1, <2>2, <2>3 DEF SendDatagramWait, Sending, loopVars
<1>5. CASE ReadDatagram
  BY <1>5 DEF ReadDatagram, quinnVars, loopVars, historyVars
<1>6. CASE Close
  BY <1>6 DEF Close, loopVars, historyVars
<1> QED
  BY <1>2, <1>3, <1>4, <1>5, <1>6 DEF Application

LEMMA ArrivalTyped ==
    ASSUME TypeOK, VisitInv,
           Acknowledge \/ \E size \in MaxSizes : ChangeMtu(size)
    PROVE  TypeOK' /\ VisitInv'
<1> USE DEF TypeOK, VisitInv
<1>1. CASE Acknowledge
  <2>1. window' \in 0..Window
    BY <1>1, DatagramAssumption DEF Acknowledge
  <2> QED
    BY <1>1, <2>1 DEF Acknowledge, HandleEvent, loopVars
<1>2. ASSUME NEW size \in MaxSizes, ChangeMtu(size)
      PROVE  TypeOK' /\ VisitInv'
  <2>1. fate' \in [Datagrams -> Fates]
    BY <1>2, LoseIs DEF ChangeMtu, Fates
  <2>2. outgoing' \in Seq(Datagrams)
    BY <1>2, FittingThins DEF ChangeMtu, Thins
  <2>3. mishaps' \in SUBSET Mishaps
    BY <1>2 DEF ChangeMtu, Mishap, Mishaps
  <2> QED
    BY <1>2, <2>1, <2>2, <2>3 DEF ChangeMtu, HandleEvent, loopVars
<1> QED
  BY <1>1, <1>2

LEMMA PollTyped ==
    ASSUME TypeOK, VisitInv, OnceInv, PollConnections
    PROVE  TypeOK' /\ VisitInv'
<1>1. CASE BeginVisit \/ PollAgain \/ EndVisit \/ EndTransmit \/ EndPoll
  <2> USE DEF TypeOK, VisitInv, implVars, quinnVars, loopVars, historyVars
  <2>1. CASE BeginVisit
    BY <2>1 DEF BeginVisit
  <2>2. CASE PollAgain
    BY <2>2 DEF PollAgain
  <2>3. CASE EndVisit
    BY <2>3 DEF EndVisit
  <2>4. CASE EndTransmit
    BY <2>4 DEF EndTransmit, HasTransmit
  <2>5. CASE EndPoll
    BY <2>5 DEF EndPoll
  <2> QED
    BY <1>1, <2>1, <2>2, <2>3, <2>4, <2>5
<1>2. ASSUME PollTransmit
      PROVE  /\ window' \in 0..Window /\ unblocked' \in BOOLEAN
             /\ send_blocked' \in BOOLEAN
             /\ Transmitted \in Datagrams
             /\ outgoing' \in Seq(Datagrams)
  <2>1. Leaves(Transmitted)
    BY <1>2, TransmittedLeaves
  <2>2. Transmitted \in Datagrams
    BY <2>1 DEF Leaves
  <2>3. outgoing' \in Seq(Datagrams)
    BY <2>1, <2>2, LeavesMeans
  <2>4. window' \in 0..Window
    BY <1>2, DatagramAssumption
    DEF PollTransmit, HasTransmit, BuildTransmit, TypeOK
  <2>5. unblocked' \in BOOLEAN /\ send_blocked' \in BOOLEAN
    BY <1>2, Zenon DEF PollTransmit, BuildTransmit, TypeOK
  <2> QED
    BY <2>2, <2>3, <2>4, <2>5
<1>3. /\ <<>> \in Seq(Datagrams) /\ Len(<<>>) <= 1
      /\ \A d \in Datagrams : <<d>> \in Seq(Datagrams) /\ Len(<<d>>) <= 1
  OBVIOUS
<1>4. CASE Transmit
  <2>1. PollTransmit
    BY <1>4 DEF Transmit
  <2>2. wire' \in Seq(Datagrams)
    BY <1>2, <1>4, <2>1, AppendKeeps DEF Transmit, TypeOK
  <2> QED
    BY <1>2, <1>3, <1>4, <2>1, <2>2
    DEF Transmit, PollTransmit, TypeOK, VisitInv, loopVars
<1>5. CASE TransmitBlocks
  <2>1. PollTransmit
    BY <1>5 DEF TransmitBlocks
  <2> QED
    BY <1>2, <1>3, <1>5, <2>1 DEF TransmitBlocks, PollTransmit, TypeOK, VisitInv
<1>6. CASE TransmitFails
  <2>1. PollTransmit
    BY <1>6 DEF TransmitFails
  <2>2. fate' \in [Datagrams -> Fates]
    BY <1>6, LoseIs DEF TransmitFails, TypeOK, Fates
  <2> QED
    BY <1>2, <1>3, <1>6, <2>1, <2>2
    DEF TransmitFails, PollTransmit, TypeOK, VisitInv, loopVars
<1>7. CASE Flush
  <2>1. Flushed \in Flushes
    BY FlushedIs DEF TypeOK, OnceInv, NoneTwice, NoneShared
  <2>2. pending_datagrams' \in Seq(Datagrams) /\ outgoing' \in Seq(Datagrams)
    BY <1>7, <2>1 DEF Flush, Flushes
  <2>3. fate' \in [Datagrams -> Fates]
    BY <1>7, LoseIs DEF Flush, TypeOK, Fates
  <2>4. mishaps' \in SUBSET Mishaps
    BY <1>7 DEF Flush, Mishap, Mishaps, TypeOK
  <2>5. send_blocked' \in BOOLEAN
    BY <1>7 DEF Flush, TypeOK
  <2> QED
    BY <1>7, <2>2, <2>3, <2>4, <2>5 DEF Flush, TypeOK, VisitInv, loopVars
<1> QED
  BY <1>1, <1>4, <1>5, <1>6, <1>7 DEF PollConnections

-----------------------------------------------------------------------------
(* No datagram is lost or doubled, and order is kept *)

Kind == OnceInv /\ InOrder

LEMMA InitKind == Init => Kind
<1> SUFFICES ASSUME Init
             PROVE  Kind
  OBVIOUS
<1>1. (\A d : ~In(d, <<>>)) /\ Once(<<>>) /\ Increasing(<<>>)
  BY DEF In, Once, Increasing
<1>2. OnceInv
  BY <1>1 DEF Init, OnceInv, NoneTwice, NoneShared, AllAccounted, Somewhere,
    Datagrams
<1>3. InOrder
  BY <1>1 DEF Init, InOrder, Ordered, Precedes
<1> QED
  BY <1>2, <1>3 DEF Kind

\* The datagram that is sent next is the last one, and nowhere yet.
LEMMA NewIsLast ==
    ASSUME TypeOK, OnceInv, NEW d \in Datagrams, Sending(d)
    PROVE  /\ ~In(d, pending_datagrams) /\ ~In(d, outgoing)
           /\ ~In(d, blocked_transmit) /\ ~In(d, wire)
           /\ \A c \in Datagrams : Somewhere(c) => c < d
           /\ \A c \in Datagrams : c # d => (c <= accepted' <=> c <= accepted)
           /\ d <= accepted' /\ fate[d] = "none"
<1>1. /\ accepted \in Nat /\ d = accepted + 1 /\ accepted' = d
      /\ \A c \in Datagrams : c \in Nat
  BY DEF TypeOK, Sending, Datagrams
<1>2. \A c \in Datagrams : Somewhere(c) => c <= accepted
  BY DEF OnceInv, AllAccounted
<1>3. ~Somewhere(d) /\ ~(d <= accepted)
  BY <1>1, <1>2
<1>4. fate[d] = "none"
  BY <1>3 DEF OnceInv, AllAccounted
<1> QED
  BY <1>1, <1>2, <1>3, <1>4 DEF Somewhere

LEMMA RefuseKind ==
    ASSUME TypeOK, Kind, NEW d \in Datagrams, Refuse(d)
    PROVE  Kind'
<1>1. /\ Sending(d) /\ mishaps' = mishaps
      /\ pending_datagrams' = pending_datagrams /\ outgoing' = outgoing
      /\ blocked_transmit' = blocked_transmit /\ wire' = wire
  BY DEF Refuse, Sending
<1>2. /\ fate'[d] = "refused"
      /\ \A c \in Datagrams : c # d => fate'[c] = fate[c]
  BY LoseIs DEF Refuse, TypeOK, Fates
<1>3. /\ \A c \in Datagrams : c # d => (c <= accepted' <=> c <= accepted)
      /\ d <= accepted' /\ ~Somewhere(d)
  BY <1>1, NewIsLast DEF Kind, Somewhere
<1>4. AllAccounted'
  BY <1>1, <1>2, <1>3 DEF Kind, OnceInv, AllAccounted, Somewhere
<1>5. NoneTwice' /\ NoneShared' /\ InOrder'
  BY <1>1 DEF Kind, OnceInv, NoneTwice, NoneShared, InOrder, Ordered
<1> QED
  BY <1>4, <1>5 DEF Kind, OnceInv

LEMMA SendKind ==
    ASSUME TypeOK, Kind, NEW d \in Datagrams, SendDatagram(d)
    PROVE  Kind'
<1> DEFINE kept == Kept(outgoing)
<1>1. /\ Sending(d)
      /\ pending_datagrams' = pending_datagrams
      /\ blocked_transmit' = blocked_transmit /\ wire' = wire
      /\ outgoing' = Append(kept, d)
  BY DEF SendDatagram, Sending
<1>2. Thins(kept, outgoing)
  BY KeptThins DEF TypeOK
<1>3. /\ \A c \in Datagrams :
           In(c, outgoing) /\ ~In(c, kept) => fate'[c] = "evicted"
      /\ \A c \in Datagrams :
           ~(In(c, outgoing) /\ ~In(c, kept)) => fate'[c] = fate[c]
  BY LoseIs, RangeIsIn DEF SendDatagram, TypeOK, Fates
<1> HIDE DEF kept
<1>4. /\ \A c \in Datagrams : In(c, outgoing') <=> In(c, kept) \/ c = d
      /\ Once(kept) /\ ~In(d, kept) => Once(outgoing')
      /\ Increasing(kept) /\ (\A c \in Datagrams : In(c, kept) => c < d)
           => Increasing(outgoing')
  BY <1>1, <1>2, AppendKeeps DEF Thins
<1>5. /\ ~In(d, pending_datagrams) /\ ~In(d, outgoing)
      /\ ~In(d, blocked_transmit) /\ ~In(d, wire)
      /\ \A c \in Datagrams : Somewhere(c) => c < d
      /\ \A c \in Datagrams : c # d => (c <= accepted' <=> c <= accepted)
      /\ d <= accepted' /\ fate[d] = "none"
  BY <1>1, NewIsLast DEF Kind
<1>6. \A c \in Datagrams : In(c, kept) => In(c, outgoing)
  BY <1>2 DEF Thins
<1>7. NoneTwice'
  BY <1>1, <1>2, <1>4, <1>5, <1>6 DEF Kind, OnceInv, NoneTwice, Thins
<1>8. NoneShared'
  BY <1>1, <1>4, <1>5, <1>6 DEF Kind, OnceInv, NoneShared
<1>9. AllAccounted'
  BY <1>1, <1>3, <1>4, <1>5, <1>6
  DEF Kind, OnceInv, NoneShared, AllAccounted, Somewhere
<1>10. ASSUME mishaps' \cap {"overtaken", "skipped"} = {}
       PROVE  Ordered'
  <2>1. pending_datagrams = <<>> /\ mishaps \cap {"overtaken", "skipped"} = {}
    BY <1>10 DEF SendDatagram, Mishap
  <2>2. Ordered /\ \A c : ~In(c, pending_datagrams)
    BY <2>1 DEF Kind, InOrder, In
  <2>3. Increasing(outgoing')
    BY <1>2, <1>4, <1>5, <1>6, <2>2 DEF Ordered, Thins, Somewhere
  <2>4. Precedes(wire, outgoing') /\ Precedes(blocked_transmit, outgoing')
    BY <1>4, <1>5, <1>6, <2>2 DEF Ordered, Precedes, Somewhere
  <2>5. Precedes(outgoing', pending_datagrams)
    BY <2>2 DEF Precedes
  <2> QED
    BY <1>1, <2>2, <2>3, <2>4, <2>5 DEF Ordered
<1> QED
  BY <1>7, <1>8, <1>9, <1>10 DEF Kind, OnceInv, InOrder

LEMMA SendWaitKind ==
    ASSUME TypeOK, Kind, NEW d \in Datagrams, SendDatagramWait(d)
    PROVE  Kind'
<1>1. /\ Sending(d)
      /\ blocked_transmit' = blocked_transmit /\ wire' = wire /\ fate' = fate
  BY DEF SendDatagramWait, Sending
<1>2. /\ ~In(d, pending_datagrams) /\ ~In(d, outgoing)
      /\ ~In(d, blocked_transmit) /\ ~In(d, wire)
      /\ \A c \in Datagrams : Somewhere(c) => c < d
      /\ \A c \in Datagrams : c # d => (c <= accepted' <=> c <= accepted)
      /\ d <= accepted' /\ fate[d] = "none"
  BY <1>1, NewIsLast DEF Kind
<1>3. CASE Fits(d, outgoing)
  <2>1. /\ outgoing' = Append(outgoing, d)
        /\ pending_datagrams' = pending_datagrams
    BY <1>3 DEF SendDatagramWait
  <2>2. /\ \A c \in Datagrams : In(c, outgoing') <=> In(c, outgoing) \/ c = d
        /\ Once(outgoing) /\ ~In(d, outgoing) => Once(outgoing')
        /\ Increasing(outgoing) /\ (\A c \in Datagrams : In(c, outgoing) => c < d)
             => Increasing(outgoing')
    BY <2>1, AppendKeeps DEF TypeOK
  <2>3. NoneTwice'
    BY <1>1, <1>2, <2>1, <2>2 DEF Kind, OnceInv, NoneTwice
  <2>4. NoneShared'
    BY <1>1, <1>2, <2>1, <2>2 DEF Kind, OnceInv, NoneShared
  <2>5. AllAccounted'
    BY <1>1, <1>2, <2>1, <2>2 DEF Kind, OnceInv, AllAccounted, Somewhere
  <2>6. ASSUME mishaps' \cap {"overtaken", "skipped"} = {}
        PROVE  Ordered'
    <3>1. pending_datagrams = <<>> /\ mishaps \cap {"overtaken", "skipped"} = {}
      BY <1>3, <2>6 DEF SendDatagramWait, Mishap
    <3>2. Ordered /\ \A c : ~In(c, pending_datagrams)
      BY <3>1 DEF Kind, InOrder, In
    <3>3. Increasing(outgoing')
      BY <1>2, <2>2, <3>2 DEF Ordered, Somewhere
    <3>4. Precedes(wire, outgoing') /\ Precedes(blocked_transmit, outgoing')
      BY <1>2, <2>2, <3>2 DEF Ordered, Precedes, Somewhere
    <3>5. Precedes(outgoing', pending_datagrams)
      BY <3>2 DEF Precedes
    <3> QED
      BY <1>1, <2>1, <3>2, <3>3, <3>4, <3>5 DEF Ordered
  <2> QED
    BY <2>3, <2>4, <2>5, <2>6 DEF Kind, OnceInv, InOrder
<1>4. CASE ~Fits(d, outgoing)
  <2>1. /\ pending_datagrams' = Append(pending_datagrams, d)
        /\ outgoing' = outgoing
    BY <1>4 DEF SendDatagramWait
  <2>2. /\ \A c \in Datagrams :
             In(c, pending_datagrams') <=> In(c, pending_datagrams) \/ c = d
        /\ Once(pending_datagrams) /\ ~In(d, pending_datagrams)
             => Once(pending_datagrams')
        /\ Increasing(pending_datagrams)
             /\ (\A c \in Datagrams : In(c, pending_datagrams) => c < d)
             => Increasing(pending_datagrams')
    BY <2>1, AppendKeeps DEF TypeOK
  <2>3. NoneTwice'
    BY <1>1, <1>2, <2>1, <2>2 DEF Kind, OnceInv, NoneTwice
  <2>4. NoneShared'
    BY <1>1, <1>2, <2>1, <2>2 DEF Kind, OnceInv, NoneShared
  <2>5. AllAccounted'
    BY <1>1, <1>2, <2>1, <2>2 DEF Kind, OnceInv, AllAccounted, Somewhere
  <2>6. ASSUME mishaps' \cap {"overtaken", "skipped"} = {}
        PROVE  Ordered'
    <3>1. mishaps \cap {"overtaken", "skipped"} = {}
      BY <1>4, <2>6 DEF SendDatagramWait, Mishap
    <3>2. Ordered
      BY <3>1 DEF Kind, InOrder
    <3>3. Increasing(pending_datagrams')
      BY <1>2, <2>2, <3>2 DEF Ordered, Somewhere
    <3>4. /\ Precedes(wire, pending_datagrams')
          /\ Precedes(blocked_transmit, pending_datagrams')
          /\ Precedes(outgoing, pending_datagrams')
      BY <1>2, <2>2, <3>2 DEF Ordered, Precedes, Somewhere
    <3> QED
      BY <1>1, <2>1, <3>2, <3>3, <3>4 DEF Ordered
  <2> QED
    BY <2>3, <2>4, <2>5, <2>6 DEF Kind, OnceInv, InOrder
<1> QED
  BY <1>3, <1>4

LEMMA ChangeMtuKind ==
    ASSUME TypeOK, Kind, NEW size \in MaxSizes, ChangeMtu(size)
    PROVE  Kind'
<1> DEFINE fitting == Fitting(outgoing, size)[Len(outgoing)]
<1>1. /\ pending_datagrams' = pending_datagrams
      /\ blocked_transmit' = blocked_transmit /\ wire' = wire
      /\ outgoing' = fitting /\ accepted' = accepted
  BY DEF ChangeMtu, HandleEvent
<1>2. Thins(outgoing', outgoing)
  BY <1>1, FittingThins DEF TypeOK
<1>3. /\ \A c \in Datagrams :
           In(c, outgoing) /\ ~In(c, outgoing') => fate'[c] = "oversized"
      /\ \A c \in Datagrams :
           ~(In(c, outgoing) /\ ~In(c, outgoing')) => fate'[c] = fate[c]
  BY <1>1, LoseIs, RangeIsIn DEF ChangeMtu, TypeOK, Fates
<1> HIDE DEF fitting
<1>4. NoneTwice' /\ NoneShared'
  BY <1>1, <1>2 DEF Kind, OnceInv, NoneTwice, NoneShared, Thins
<1>5. AllAccounted'
  BY <1>1, <1>2, <1>3
  DEF Kind, OnceInv, NoneShared, AllAccounted, Somewhere, Thins
<1>6. ASSUME mishaps' \cap {"overtaken", "skipped"} = {}
      PROVE  Ordered'
  <2>1. mishaps \cap {"overtaken", "skipped"} = {}
    BY <1>6 DEF ChangeMtu, Mishap
  <2>2. Ordered
    BY <2>1 DEF Kind, InOrder
  <2> QED
    BY <1>1, <1>2, <2>2 DEF Ordered, Thins, Precedes
<1> QED
  BY <1>4, <1>5, <1>6 DEF Kind, OnceInv, InOrder

\* The three outcomes of a transmit: it is on the wire, refused, or gone.
LEMMA TransmitKind ==
    ASSUME TypeOK, Kind, Transmit \/ TransmitBlocks \/ TransmitFails
    PROVE  Kind'
<1> DEFINE d == Transmitted
<1>1. /\ PollTransmit /\ pending_datagrams' = pending_datagrams
      /\ accepted' = accepted /\ mishaps' = mishaps
  BY DEF Transmit, TransmitBlocks, TransmitFails, PollTransmit
<1>2. Leaves(d) /\ d \in Datagrams
  BY <1>1, TransmittedLeaves DEF Leaves
<1>3. /\ \A c \in Datagrams :
           In(c, blocked_transmit) \/ In(c, outgoing) <=> c = d \/ In(c, outgoing')
      /\ \A c \in Datagrams : In(c, outgoing') => In(c, outgoing)
      /\ \A c \in Datagrams : In(c, blocked_transmit) => c = d
      /\ Once(outgoing') /\ ~In(d, outgoing')
      /\ Increasing(outgoing) => Increasing(outgoing')
      /\ Increasing(outgoing) /\ Precedes(blocked_transmit, outgoing) =>
           \A c \in Datagrams : In(c, outgoing') => d < c
  BY <1>2, LeavesMeans DEF Kind, OnceInv
<1>4. /\ \A c \in Datagrams : ~In(c, <<>>)
      /\ \A c \in Datagrams : In(c, <<d>>) <=> c = d
  BY <1>2, ShortQueues
<1> HIDE DEF d
<1>5. In(d, blocked_transmit) \/ In(d, outgoing)
  BY <1>2, <1>3
<1>6. ~In(d, pending_datagrams) /\ ~In(d, wire)
  BY <1>2, <1>5 DEF Kind, OnceInv, NoneShared
<1>7. Ordered =>
        /\ \A c \in Datagrams : In(c, wire) => c < d
        /\ \A c \in Datagrams : In(c, pending_datagrams) => d < c
        /\ \A c \in Datagrams : In(c, outgoing') => d < c
        /\ Increasing(outgoing')
  BY <1>2, <1>3, <1>5 DEF Ordered, Precedes
<1>8. CASE Transmit
  <2>1. wire' = Append(wire, d) /\ blocked_transmit' = <<>> /\ fate' = fate
    BY <1>8 DEF Transmit, d
  <2>2. /\ \A c \in Datagrams : In(c, wire') <=> In(c, wire) \/ c = d
        /\ Once(wire) /\ ~In(d, wire) => Once(wire')
        /\ Increasing(wire) /\ (\A c \in Datagrams : In(c, wire) => c < d)
             => Increasing(wire')
    BY <1>2, <2>1, AppendKeeps DEF TypeOK
  <2>3. \A c \in Datagrams : ~In(c, blocked_transmit')
    BY <1>4, <2>1
  <2>4. NoneTwice'
    BY <1>1, <1>3, <1>6, <2>2 DEF Kind, OnceInv, NoneTwice
  <2>5. NoneShared'
    BY <1>1, <1>3, <1>6, <2>2, <2>3 DEF Kind, OnceInv, NoneShared
  <2>6. AllAccounted'
    BY <1>1, <1>3, <2>1, <2>2, <2>3 DEF Kind, OnceInv, AllAccounted, Somewhere
  <2>7. Ordered => Ordered'
    BY <1>1, <1>3, <1>7, <2>2, <2>3 DEF Ordered, Precedes
  <2> QED
    BY <1>1, <2>4, <2>5, <2>6, <2>7 DEF Kind, OnceInv, InOrder
<1>9. CASE TransmitBlocks
  <2>1. wire' = wire /\ blocked_transmit' = <<d>> /\ fate' = fate
    BY <1>9 DEF TransmitBlocks, d
  <2>2. \A c \in Datagrams : In(c, blocked_transmit') <=> c = d
    BY <1>4, <2>1
  <2>3. NoneTwice'
    BY <1>1, <1>3, <2>1 DEF Kind, OnceInv, NoneTwice
  <2>4. NoneShared'
    BY <1>1, <1>3, <1>6, <2>1, <2>2 DEF Kind, OnceInv, NoneShared
  <2>5. AllAccounted'
    BY <1>1, <1>3, <2>1, <2>2 DEF Kind, OnceInv, AllAccounted, Somewhere
  <2>6. Ordered => Ordered'
    BY <1>1, <1>3, <1>7, <2>1, <2>2 DEF Ordered, Precedes
  <2> QED
    BY <1>1, <2>3, <2>4, <2>5, <2>6 DEF Kind, OnceInv, InOrder
<1>10. CASE TransmitFails
  <2>1. /\ wire' = wire /\ blocked_transmit' = <<>>
        /\ fate'[d] = "unsent"
        /\ \A c \in Datagrams : c # d => fate'[c] = fate[c]
    BY <1>2, <1>10, LoseIs DEF TransmitFails, TypeOK, Fates, d
  <2>2. \A c \in Datagrams : ~In(c, blocked_transmit')
    BY <1>4, <2>1
  <2>3. d <= accepted
    BY <1>2, <1>5 DEF Kind, OnceInv, AllAccounted, Somewhere
  <2>4. NoneTwice'
    BY <1>1, <1>3, <2>1 DEF Kind, OnceInv, NoneTwice
  <2>5. NoneShared'
    BY <1>1, <1>3, <2>1, <2>2 DEF Kind, OnceInv, NoneShared
  <2>6. AllAccounted'
    BY <1>1, <1>3, <1>6, <2>1, <2>2, <2>3
    DEF Kind, OnceInv, AllAccounted, Somewhere
  <2>7. Ordered => Ordered'
    BY <1>1, <1>3, <1>7, <2>1, <2>2 DEF Ordered, Precedes
  <2> QED
    BY <1>1, <2>4, <2>5, <2>6, <2>7 DEF Kind, OnceInv, InOrder
<1> QED
  BY <1>8, <1>9, <1>10

LEMMA FlushKind ==
    ASSUME TypeOK, Kind, Flush
    PROVE  Kind'
<1>1. /\ pending_datagrams' = Flushed.kept /\ outgoing' = Flushed.sent
      /\ blocked_transmit' = blocked_transmit /\ wire' = wire
      /\ accepted' = accepted
  BY DEF Flush
<1>2. Flushed \in Flushes /\ Sorted(Flushed)
  BY FlushedIs DEF TypeOK, Kind, OnceInv, NoneTwice, NoneShared
<1>3. /\ \A d \in Datagrams : In(d, outgoing) => In(d, outgoing')
      /\ \A d \in Datagrams :
           In(d, pending_datagrams') => In(d, pending_datagrams) /\ ~TooLarge(d)
      /\ \A d \in Datagrams :
           In(d, outgoing') =>
             In(d, outgoing) \/ (In(d, pending_datagrams) /\ ~TooLarge(d))
      /\ \A d \in Datagrams :
           In(d, pending_datagrams) /\ ~TooLarge(d) =>
             In(d, pending_datagrams') \/ In(d, outgoing')
      /\ \A d \in Datagrams : ~(In(d, pending_datagrams') /\ In(d, outgoing'))
      /\ Once(pending_datagrams') /\ Once(outgoing')
      /\ Ordered => Increasing(pending_datagrams') /\ Increasing(outgoing')
  BY <1>1, <1>2 DEF Sorted, Ordered
<1>4. /\ \A d \in Datagrams :
           In(d, pending_datagrams) /\ TooLarge(d) => fate'[d] = "oversized"
      /\ \A d \in Datagrams :
           ~(In(d, pending_datagrams) /\ TooLarge(d)) => fate'[d] = fate[d]
  BY LoseIs, RangeIsIn DEF Flush, TypeOK, Fates
<1>5. NoneTwice' /\ NoneShared'
  BY <1>1, <1>3 DEF Kind, OnceInv, NoneTwice, NoneShared
<1>6. AllAccounted'
  BY <1>1, <1>3, <1>4 DEF Kind, OnceInv, NoneShared, AllAccounted, Somewhere
<1>7. ASSUME mishaps' \cap {"overtaken", "skipped"} = {}
      PROVE  Ordered'
  <2>1. mishaps \cap {"overtaken", "skipped"} = {} /\ ~Skips(Flushed)
    BY <1>7 DEF Flush, Mishap
  <2>2. Ordered
    BY <2>1 DEF Kind, InOrder
  <2>3. Precedes(outgoing', pending_datagrams')
    <3>1. SUFFICES ASSUME NEW c \in Datagrams, NEW d \in Datagrams,
                          In(c, outgoing'), In(d, pending_datagrams')
                   PROVE  c < d
      BY DEF Precedes
    <3>2. PICK j \in DOMAIN pending_datagrams : pending_datagrams[j] = d
      BY <1>3, <3>1 DEF In
    <3>3. CASE In(c, outgoing)
      BY <1>3, <2>2, <3>1, <3>3 DEF Ordered, Precedes
    <3>4. CASE In(c, pending_datagrams)
      <4>1. PICK i \in DOMAIN pending_datagrams : pending_datagrams[i] = c
        BY <3>4 DEF In
      <4>2. ~(j < i)
        BY <1>1, <2>1, <3>1, <3>2, <4>1, RangeIsIn DEF Skips
      <4>3. i # j
        BY <1>3, <3>1, <3>2, <4>1
      <4>4. i \in Nat /\ j \in Nat
        BY DEF TypeOK
      <4>5. i < j
        BY <4>2, <4>3, <4>4
      <4> QED
        BY <2>2, <3>2, <4>1, <4>5 DEF Ordered, Increasing
    <3> QED
      BY <1>3, <3>1, <3>3, <3>4
  <2>4. /\ Precedes(wire, outgoing') /\ Precedes(wire, pending_datagrams')
        /\ Precedes(blocked_transmit, outgoing')
        /\ Precedes(blocked_transmit, pending_datagrams')
    BY <1>3, <2>2 DEF Ordered, Precedes
  <2> QED
    BY <1>1, <1>3, <2>2, <2>3, <2>4 DEF Ordered
<1> QED
  BY <1>5, <1>6, <1>7 DEF Kind, OnceInv, InOrder

\* The other steps leave the queues alone.
LEMMA CalmKind ==
    ASSUME Kind,
           UNCHANGED <<pending_datagrams, blocked_transmit, outgoing, accepted,
                       wire, fate, mishaps>>
    PROVE  Kind'
BY DEF Kind, OnceInv, NoneTwice, NoneShared, AllAccounted, Somewhere, InOrder,
  Ordered

-----------------------------------------------------------------------------
(* The theorems *)

\* Whatever the application sends, however the MTU changes and the socket blocks,
\* the queues keep their types, hold every datagram once, and are in order.
THEOREM InvariantHolds == Spec => [](TypeOK /\ VisitInv /\ Kind)
<1>1. Init => TypeOK /\ VisitInv /\ Kind
  BY InitTyped, InitKind
<1>2. TypeOK /\ VisitInv /\ Kind /\ [Next]_vars => (TypeOK /\ VisitInv /\ Kind)'
  <2>1. SUFFICES ASSUME TypeOK, VisitInv, Kind, [Next]_vars
                 PROVE  TypeOK' /\ VisitInv' /\ Kind'
    OBVIOUS
  <2>2. CASE Application
    <3>1. TypeOK' /\ VisitInv'
      BY <2>1, <2>2, ApplicationTyped
    <3>2. ReadDatagram \/ Close => Kind'
      BY <2>1, CalmKind DEF ReadDatagram, Close, quinnVars, historyVars
    <3> QED
      BY <2>1, <2>2, <3>1, <3>2, RefuseKind, SendKind, SendWaitKind
      DEF Application
  <2>3. CASE Acknowledge
    <3>1. Kind'
      BY <2>1, <2>3, CalmKind DEF Acknowledge, HandleEvent
    <3> QED
      BY <2>1, <2>3, <3>1, ArrivalTyped
  <2>4. CASE \E size \in MaxSizes : ChangeMtu(size)
    BY <2>1, <2>4, ArrivalTyped, ChangeMtuKind
  <2>5. CASE PollConnections
    <3>1. TypeOK' /\ VisitInv'
      BY <2>1, <2>5, PollTyped DEF Kind
    <3>2. BeginVisit \/ PollAgain \/ EndVisit \/ EndTransmit \/ EndPoll => Kind'
      BY <2>1, CalmKind DEF BeginVisit, PollAgain, EndVisit, EndTransmit, EndPoll,
        implVars, quinnVars, historyVars
    <3> QED
      BY <2>1, <2>5, <3>1, <3>2, TransmitKind, FlushKind DEF PollConnections
  <2>6. CASE UNCHANGED vars
    <3>1. Kind'
      BY <2>1, <2>6, CalmKind DEF vars, implVars, quinnVars, historyVars
    <3>2. TypeOK' /\ VisitInv'
      BY <2>1, <2>6
      DEF TypeOK, VisitInv, vars, implVars, quinnVars, loopVars, historyVars
    <3> QED
      BY <3>1, <3>2
  <2> QED
    BY <2>1, <2>2, <2>3, <2>4, <2>5, <2>6 DEF Next
<1> QED
  BY <1>1, <1>2, PTL DEF Spec

\* Every variable of the queues keeps its type, no event is left unpolled between
\* two visits, and a transmit that was refused has the connection polled again.
THEOREM QueuesAreTyped == Spec => []TypeOK
BY InvariantHolds, PTL

\* The places in line are the four queues, one after the other.
LEMMA PlacesAre ==
    ASSUME TypeOK, OnceInv
    PROVE  /\ Places \in Seq(Datagrams) /\ Once(Places)
           /\ \A d \in Datagrams : In(d, Places) <=> Somewhere(d)
<1> DEFINE two == pending_datagrams \o outgoing
           three == two \o blocked_transmit
           four == three \o wire
<1>1. /\ pending_datagrams \in Seq(Datagrams) /\ outgoing \in Seq(Datagrams)
      /\ blocked_transmit \in Seq(Datagrams) /\ wire \in Seq(Datagrams)
      /\ Once(pending_datagrams) /\ Once(outgoing) /\ Once(wire)
  BY DEF TypeOK, OnceInv, NoneTwice
<1>2. Once(blocked_transmit)
  <2>1. \A i \in DOMAIN blocked_transmit : i = 1
    BY <1>1 DEF TypeOK
  <2> QED
    BY <2>1 DEF Once
<1>3. /\ two \in Seq(Datagrams) /\ Once(two)
      /\ \A d \in Datagrams :
           In(d, two) <=> In(d, pending_datagrams) \/ In(d, outgoing)
  BY <1>1, ConcatKeeps DEF OnceInv, NoneShared
<1> HIDE DEF two
<1>4. /\ three \in Seq(Datagrams) /\ Once(three)
      /\ \A d \in Datagrams : In(d, three) <=> In(d, two) \/ In(d, blocked_transmit)
  BY <1>1, <1>2, <1>3, ConcatKeeps DEF OnceInv, NoneShared
<1> HIDE DEF three
<1>5. /\ four \in Seq(Datagrams) /\ Once(four)
      /\ \A d \in Datagrams : In(d, four) <=> In(d, three) \/ In(d, wire)
  BY <1>1, <1>3, <1>4, ConcatKeeps DEF OnceInv, NoneShared
<1> HIDE DEF four
<1>6. Places = four
  BY DEF Places, four, three, two
<1> QED
  BY <1>3, <1>4, <1>5, <1>6 DEF Somewhere

\* Sends, flushes, refused transmits and changes of the MTU never lose a datagram
\* but for a named fate, and never send one twice.
THEOREM EachOnce == Spec => []EachIsSomewhereOnce
<1>1. TypeOK /\ OnceInv => EachIsSomewhereOnce
  <2>1. SUFFICES ASSUME TypeOK, OnceInv, NEW d \in Datagrams
                 PROVE  Cardinality({i \in DOMAIN Places : Places[i] = d}) =
                          IF d <= accepted /\ fate[d] = "none" THEN 1 ELSE 0
    BY DEF EachIsSomewhereOnce
  <2> DEFINE At == {i \in DOMAIN Places : Places[i] = d}
  <2>2. Once(Places) /\ (In(d, Places) <=> Somewhere(d))
    BY <2>1, PlacesAre
  <2>3. Somewhere(d) <=> d <= accepted /\ fate[d] = "none"
    BY <2>1 DEF OnceInv, AllAccounted
  <2>4. CASE Somewhere(d)
    <3>1. PICK i \in DOMAIN Places : Places[i] = d
      BY <2>2, <2>4 DEF In
    <3>2. At = {i}
      BY <2>2, <3>1 DEF Once
    <3>3. Cardinality(At) = 1
      BY <3>2, FS_Singleton
    <3> QED
      BY <2>3, <2>4, <3>3
  <2>5. CASE ~Somewhere(d)
    <3>1. At = {}
      BY <2>2, <2>5 DEF In
    <3>2. Cardinality(At) = 0
      BY <3>1, FS_EmptySet
    <3> QED
      BY <2>3, <2>5, <3>2
  <2> QED
    BY <2>4, <2>5
<1>2. TypeOK /\ VisitInv /\ Kind => EachIsSomewhereOnce
  BY <1>1 DEF Kind
<1> QED
  BY <1>2, InvariantHolds, PTL

\* Datagrams leave in the order of sending, unless one was sent past those that
\* wait or a flush skipped one.
THEOREM OrderIsKept == Spec => []OnlyOvertakingReorders
<1>1. TypeOK /\ InOrder => OnlyOvertakingReorders
  <2>1. SUFFICES ASSUME TypeOK, Ordered
                 PROVE  Increasing(wire \o blocked_transmit \o outgoing
                                     \o pending_datagrams)
    BY DEF InOrder, OnlyOvertakingReorders
  <2> DEFINE two == wire \o blocked_transmit
             three == two \o outgoing
             four == three \o pending_datagrams
  <2>2. /\ pending_datagrams \in Seq(Datagrams) /\ outgoing \in Seq(Datagrams)
        /\ blocked_transmit \in Seq(Datagrams) /\ wire \in Seq(Datagrams)
    BY <2>1 DEF TypeOK
  <2>3. Increasing(blocked_transmit)
    <3>1. \A i \in DOMAIN blocked_transmit : i = 1
      BY <2>1, <2>2 DEF TypeOK
    <3> QED
      BY <3>1 DEF Increasing
  <2>4. /\ two \in Seq(Datagrams) /\ Increasing(two)
        /\ \A d \in Datagrams : In(d, two) <=> In(d, wire) \/ In(d, blocked_transmit)
    BY <2>1, <2>2, <2>3, ConcatKeeps DEF Ordered, Precedes
  <2> HIDE DEF two
  <2>5. /\ three \in Seq(Datagrams) /\ Increasing(three)
        /\ \A d \in Datagrams : In(d, three) <=> In(d, two) \/ In(d, outgoing)
    BY <2>1, <2>2, <2>4, ConcatKeeps DEF Ordered, Precedes
  <2> HIDE DEF three
  <2>6. Increasing(four)
    BY <2>1, <2>2, <2>4, <2>5, ConcatKeeps DEF Ordered, Precedes
  <2> QED
    BY <2>6 DEF two, three
<1>2. TypeOK /\ VisitInv /\ Kind => OnlyOvertakingReorders
  BY <1>1 DEF Kind
<1> QED
  BY <1>2, InvariantHolds, PTL
===============================================================================
