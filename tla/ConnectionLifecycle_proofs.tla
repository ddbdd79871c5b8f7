---------------------- MODULE ConnectionLifecycle_proofs ----------------------
(***************************************************************************)
(* Proofs about ConnectionLifecycle: what observers are told of a          *)
(* connection, in which order, under which name, and what has happened     *)
(* when they are told that it has drained.                                 *)
(*                                                                         *)
(* TypeInv is inductive by itself; SafetyInv is relative to it.  Every     *)
(* part of the two is a definition; the steps are taken in the groups of   *)
(* the schedule, and a lemma shows of each group that it preserves every   *)
(* part.                                                                   *)
(***************************************************************************)
EXTENDS ConnectionLifecycle, SequenceTheorems, TLAPS

-----------------------------------------------------------------------------
(* The inductive invariant *)

\* One visit of poll_connections, in which no observer runs.
Loop == {"poll_transmit", "poll_timeout", "poll_endpoint_events", "poll"}

Has(q, do) == \E i \in 1..Len(q) : q[i].do = do

Queued(do) == Has(commands, do)

Removing == {"remove", "despawn"}

\* Observers run between systems or between commands.
ObserversWait ==
    observing => pc \in {"Update", "handle_incoming_responses",
                         "incoming_error", "connection_commands"}

\* Commands are queued by a visit, and applied before the frame ends.
QueueFits == pc \notin Loop \cup {"connection_commands"} => commands = <<>>

\* The connection that is being polled stays where it was found, and its end
\* is not queued by the loop.
VisitStays ==
    pc \in Loop =>
      /\ Connected
      /\ established <=> comp = "Connection"
      /\ \A do \in Removing \cup {"ConnectionDrained"} : ~Queued(do)

\* quinn has completed the handshake of what becomes a Connection.
HandshakeIsDone ==
    Queued("ConnectionEstablished") \/ "Connected" \in events
      => state \in {"established", "closed", "drained", "dropped"}

TypeInv == TypeOK /\ ObserversWait /\ QueueFits /\ VisitStays /\ HandshakeIsDone

\* A despawn was queued for an entity without a KeepAlive.
DespawnsAreAllowed == Queued("despawn") /\ keepalive => lateKeep

HandleIsFree == ~slot \/ "drained in handle_event" \in causes

\* A connection that drained during a visit keeps its drained event until
\* poll_endpoint_events, which that visit cannot end without.
DrainedIsPassedOn ==
    /\ Queued("ConnectionDrained") \/ "ConnectionDrained" \in told
         => HandleIsFree /\ state \in {"drained", "dropped"}
    /\ state = "drained" =>
         \/ HandleIsFree
         \/ /\ drainedEvent
            /\ pc = "poll_transmit" => should_poll
            /\ pc \in {"poll_transmit", "poll_timeout", "poll_endpoint_events"}

Explained == causes # {} \/ told \cap {"Lost", "IoError"} # {}

Reported == Queued("Lost") \/ Queued("IoError")

\* The reason of an end is known, or on its way: told, queued, or still quinn's,
\* and in that case the visit in which the connection drained will poll for it.
EndsHaveReasons ==
    /\ Queued("ConnectionDrained") \/ "ConnectionDrained" \in told => Explained
    /\ state = "closed" => Explained \/ Reported \/ "Lost" \in events
    /\ state = "drained" =>
         \/ Explained \/ Reported
         \/ /\ "Lost" \in events
            /\ pc = "poll_transmit" => should_poll
            /\ pc \in Loop

\* Which command may be queued after which.
MayFollow(a, b) ==
    /\ a # b
    /\ a = "Lost" => b = "IoError"
    /\ a = "ConnectionDrained" => b \in Removing
    /\ a \notin Removing

Ordered(q) == \A i, j \in 1..Len(q) : i < j => MayFollow(q[i].do, q[j].do)

InOrder == Ordered(commands)

\* What is still to be told has not been told, and cannot come about again: the
\* handshake goes forward only, and an I/O error is remembered.
EachOnce ==
    /\ \A news \in News : Queued(news) => news \notin told
    /\ "HandshakeDataReady" \in events \cup told \/ Queued("HandshakeDataReady")
         => state \notin {"none", "initial"}
    /\ "ConnectionEstablished" \in told
         => state \in {"established", "closed", "drained", "dropped"}
    /\ "HandshakeDataReady" \in events =>
         ~Queued("HandshakeDataReady") /\ "HandshakeDataReady" \notin told
    /\ "Connected" \in events =>
         ~Queued("ConnectionEstablished") /\ "ConnectionEstablished" \notin told
    /\ Queued("IoError") \/ "IoError" \in told => io_error \/ state = "dropped"
    /\ io_error => state \in {"closed", "drained"}

\* A connection is lost once: what is closed cannot be lost by a timeout, and
\* what a reset drains is not polled any more.
LostComesLast ==
    /\ "Lost" \in events \cup told \/ Queued("Lost")
         => state \in {"closed", "drained", "dropped"}
    /\ state = "closed" <=> deadline = "close"
    /\ "Lost" \in events /\ (state = "closed" \/ pc \in Loop)
         => ~Queued("Lost") /\ "Lost" \notin told
    /\ Queued("Lost") \/ "Lost" \in told
         => events \cap {"HandshakeDataReady", "Connected"} = {}
    /\ "Lost" \in told
         => ~Queued("HandshakeDataReady") /\ ~Queued("ConnectionEstablished")

\* Nothing is left to be told of a drained connection, and it is about to go.
DrainedComesLast ==
    /\ "ConnectionDrained" \in told => \A news \in News : ~Queued(news)
    /\ Queued("ConnectionDrained") \/ "ConnectionDrained" \in told
         => state = "dropped" \/ \E do \in Removing : Queued(do)

Errors == {"Lost", "IoError"}

Named(q, name) == \A i \in 1..Len(q) : q[i].do \in Errors => q[i].to = name

\* An error has the name of the component it will be found with, unless that
\* has been established since.
NamesAreKnown == Connected /\ ~fresh => Named(commands, comp)

SafetyInv ==
    /\ DespawnsAreAllowed /\ DrainedIsPassedOn /\ EndsHaveReasons /\ InOrder
    /\ EachOnce /\ LostComesLast /\ DrainedComesLast /\ NamesAreKnown

-----------------------------------------------------------------------------
(* Queues of commands *)

LEMMA AppendCommand ==
  ASSUME NEW q \in Seq(Commands), NEW c \in Commands
  PROVE  /\ Append(q, c) \in Seq(Commands)
         /\ \A do : Has(Append(q, c), do) <=> Has(q, do) \/ do = c.do
         /\ Ordered(q) /\ (\A i \in 1..Len(q) : MayFollow(q[i].do, c.do))
              => Ordered(Append(q, c))
         /\ \A name : Named(Append(q, c), name)
              <=> Named(q, name) /\ (c.do \in Errors => c.to = name)
<1>1. /\ Append(q, c) \in Seq(Commands)
      /\ Len(Append(q, c)) = Len(q) + 1
      /\ \A i \in 1..Len(q) : Append(q, c)[i] = q[i]
      /\ Append(q, c)[Len(q) + 1] = c
  BY AppendProperties
<1>2. Len(q) \in Nat
  BY LenProperties
<1> DEFINE a == Append(q, c)
<1> HIDE DEF a
<1>3. ASSUME NEW do PROVE Has(a, do) <=> Has(q, do) \/ do = c.do
  BY <1>1, <1>2 DEF Has, a
<1>4. ASSUME Ordered(q), \A i \in 1..Len(q) : MayFollow(q[i].do, c.do)
      PROVE  Ordered(a)
  <2> SUFFICES ASSUME NEW i \in 1..Len(a), NEW j \in 1..Len(a), i < j
               PROVE  MayFollow(a[i].do, a[j].do)
    BY DEF Ordered
  <2>1. i \in 1..Len(q)
    BY <1>1, <1>2 DEF a
  <2>2. CASE j \in 1..Len(q)
    BY <1>1, <1>4, <2>1, <2>2 DEF Ordered, a
  <2>3. CASE j = Len(q) + 1
    BY <1>1, <1>4, <2>1, <2>3 DEF a
  <2> QED
    BY <1>1, <1>2, <2>2, <2>3 DEF a
<1>5. ASSUME NEW name
      PROVE  Named(a, name) <=> Named(q, name) /\ (c.do \in Errors => c.to = name)
  BY <1>1, <1>2 DEF Named, a
<1> QED
  BY <1>1, <1>3, <1>4, <1>5 DEF a

LEMMA TailCommands ==
  ASSUME NEW q \in Seq(Commands), q # <<>>
  PROVE  /\ Head(q) \in Commands /\ Tail(q) \in Seq(Commands)
         /\ Head(q) = q[1] /\ Len(q) \in Nat \ {0}
         /\ \A do : Has(q, do) <=> Has(Tail(q), do) \/ do = Head(q).do
         /\ Ordered(q) => Ordered(Tail(q))
         /\ Ordered(q) => \A do : Has(Tail(q), do) => MayFollow(Head(q).do, do)
         /\ \A name : Named(q, name)
              <=> Named(Tail(q), name)
                  /\ (Head(q).do \in Errors => Head(q).to = name)
<1>1. /\ Head(q) \in Commands /\ Tail(q) \in Seq(Commands)
      /\ Head(q) = q[1]
      /\ Len(q) \in Nat \ {0} /\ Len(Tail(q)) = Len(q) - 1
      /\ \A i \in 1..Len(Tail(q)) : Tail(q)[i] = q[i + 1]
  BY HeadTailProperties, LenProperties, EmptySeq
<1> DEFINE t == Tail(q)
<1> HIDE DEF t
<1>2. \A i \in 1..Len(t) : i + 1 \in 1..Len(q) /\ t[i] = q[i + 1]
  BY <1>1 DEF t
<1>3. \A i \in 1..Len(q) : i = 1 \/ (i - 1 \in 1..Len(t) /\ t[i - 1] = q[i])
  BY <1>1 DEF t
<1>4. ASSUME NEW do PROVE Has(q, do) <=> Has(t, do) \/ do = Head(q).do
  <2>1. ASSUME Has(q, do) PROVE Has(t, do) \/ do = Head(q).do
    BY <1>1, <1>3, <2>1 DEF Has
  <2>2. ASSUME Has(t, do) PROVE Has(q, do)
    BY <1>2, <2>2 DEF Has
  <2>3. Has(q, Head(q).do)
    BY <1>1 DEF Has
  <2> QED
    BY <2>1, <2>2, <2>3
<1>5. Ordered(q) => Ordered(t)
  <2> SUFFICES ASSUME Ordered(q), NEW i \in 1..Len(t), NEW j \in 1..Len(t), i < j
               PROVE  MayFollow(t[i].do, t[j].do)
    BY DEF Ordered
  <2> QED
    BY <1>2 DEF Ordered
<1>6. ASSUME Ordered(q), NEW do, Has(t, do) PROVE MayFollow(Head(q).do, do)
  <2>1. PICK i \in 1..Len(t) : t[i].do = do
    BY <1>6 DEF Has
  <2>2. i + 1 \in 1..Len(q) /\ 1 \in 1..Len(q) /\ 1 < i + 1 /\ q[i + 1].do = do
    BY <1>1, <1>2, <2>1
  <2> QED
    BY <1>1, <1>6, <2>2 DEF Ordered
<1>7. ASSUME NEW name
      PROVE  Named(q, name)
               <=> Named(t, name) /\ (Head(q).do \in Errors => Head(q).to = name)
  <2>1. ASSUME Named(q, name)
        PROVE  Named(t, name) /\ (Head(q).do \in Errors => Head(q).to = name)
    BY <1>1, <1>2, <2>1 DEF Named
  <2>2. ASSUME Named(t, name), Head(q).do \in Errors => Head(q).to = name
        PROVE  Named(q, name)
    BY <1>1, <1>3, <2>2 DEF Named
  <2> QED
    BY <2>1, <2>2
<1> QED
  BY <1>1, <1>4, <1>5, <1>6, <1>7 DEF t

LEMMA NoCommand ==
  /\ <<>> \in Seq(Commands) /\ Ordered(<<>>)
  /\ \A do : ~Has(<<>>, do)
  /\ \A name : Named(<<>>, name)
<1>1. <<>> \in Seq(Commands) /\ Len(<<>>) = 0
  BY EmptySeq
<1>2. 1..0 = {}
  OBVIOUS
<1> QED
  BY <1>1, <1>2 DEF Ordered, Has, Named

LEMMA OneCommand ==
  ASSUME NEW c \in Commands
  PROVE  /\ <<c>> \in Seq(Commands) /\ Ordered(<<c>>)
         /\ \A do : Has(<<c>>, do) <=> do = c.do
         /\ \A name : Named(<<c>>, name) <=> (c.do \in Errors => c.to = name)
<1>1. <<c>> = Append(<<>>, c)
  OBVIOUS
<1>2. \A i \in 1..Len(<<>>) : MayFollow(<<>>[i].do, c.do)
  OBVIOUS
<1>3. <<>> \in Seq(Commands) /\ Ordered(<<>>)
  BY NoCommand
<1>4. Ordered(Append(<<>>, c))
  BY <1>2, <1>3, AppendCommand
<1>5. \A do : Has(Append(<<>>, c), do) <=> do = c.do
  BY <1>3, NoCommand, AppendCommand
<1>6. \A name : Named(Append(<<>>, c), name) <=> (c.do \in Errors => c.to = name)
  BY <1>3, NoCommand, AppendCommand
<1>7. Append(<<>>, c) \in Seq(Commands)
  BY <1>3, AppendCommand
<1> QED
  BY <1>1, <1>4, <1>5, <1>6, <1>7

LEMMA ConcatCommands ==
  ASSUME NEW q \in Seq(Commands), NEW r \in Seq(Commands)
  PROVE  /\ q \o r \in Seq(Commands)
         /\ \A do : Has(q \o r, do) <=> Has(q, do) \/ Has(r, do)
         /\ /\ Ordered(q) /\ Ordered(r)
            /\ \A a, b : Has(q, a) /\ Has(r, b) => MayFollow(a, b)
            => Ordered(q \o r)
         /\ \A name : Named(q \o r, name) <=> Named(q, name) /\ Named(r, name)
<1> DEFINE s == q \o r
<1>1. s \in Seq(Commands)
  BY ConcatProperties
<1>2. Len(q) \in Nat /\ Len(r) \in Nat /\ Len(s) = Len(q) + Len(r)
  BY ConcatProperties, LenProperties
<1>3. \A i \in 1..Len(s) :
        s[i] = IF i <= Len(q) THEN q[i] ELSE r[i - Len(q)]
  BY ConcatProperties
<1> HIDE DEF s
<1>4. \A i \in 1..Len(q) : i \in 1..Len(s) /\ s[i] = q[i]
  BY <1>2, <1>3
<1>5. \A i \in 1..Len(r) : i + Len(q) \in 1..Len(s) /\ s[i + Len(q)] = r[i]
  BY <1>2, <1>3
<1>6. \A i \in 1..Len(s) :
        \/ i \in 1..Len(q) /\ s[i] = q[i]
        \/ i - Len(q) \in 1..Len(r) /\ s[i] = r[i - Len(q)]
  BY <1>2, <1>3
<1>7. ASSUME NEW do PROVE Has(s, do) <=> Has(q, do) \/ Has(r, do)
  <2>1. Has(s, do) => Has(q, do) \/ Has(r, do)
    BY <1>6 DEF Has
  <2>2. Has(q, do) => Has(s, do)
    BY <1>4 DEF Has
  <2>3. Has(r, do) => Has(s, do)
    BY <1>5 DEF Has
  <2> QED
    BY <2>1, <2>2, <2>3
<1>8. ASSUME NEW name PROVE Named(s, name) <=> Named(q, name) /\ Named(r, name)
  <2>1. Named(q, name) /\ Named(r, name) => Named(s, name)
    BY <1>6 DEF Named
  <2>2. Named(s, name) => Named(q, name)
    BY <1>4 DEF Named
  <2>3. Named(s, name) => Named(r, name)
    BY <1>5 DEF Named
  <2> QED
    BY <2>1, <2>2, <2>3
<1>9. ASSUME Ordered(q), Ordered(r),
             \A a, b : Has(q, a) /\ Has(r, b) => MayFollow(a, b)
      PROVE  Ordered(s)
  <2> SUFFICES ASSUME NEW i \in 1..Len(s), NEW j \in 1..Len(s), i < j
               PROVE  MayFollow(s[i].do, s[j].do)
    BY DEF Ordered
  <2>1. CASE j \in 1..Len(q)
    <3>1. i \in 1..Len(q)
      BY <1>2, <2>1
    <3> QED
      BY <1>4, <1>9, <2>1, <3>1 DEF Ordered
  <2>2. CASE i \notin 1..Len(q)
    <3>1. /\ i - Len(q) \in 1..Len(r) /\ s[i] = r[i - Len(q)]
          /\ j - Len(q) \in 1..Len(r) /\ s[j] = r[j - Len(q)]
          /\ i - Len(q) < j - Len(q)
      BY <1>2, <1>6, <2>2
    <3> QED
      BY <1>9, <3>1 DEF Ordered
  <2>3. CASE i \in 1..Len(q) /\ j \notin 1..Len(q)
    <3>1. s[i] = q[i] /\ j - Len(q) \in 1..Len(r) /\ s[j] = r[j - Len(q)]
      BY <1>4, <1>6, <2>3
    <3>2. Has(q, s[i].do) /\ Has(r, s[j].do)
      BY <2>3, <3>1 DEF Has
    <3> QED
      BY <1>9, <3>2
  <2> QED
    BY <2>1, <2>2, <2>3
<1> QED
  BY <1>1, <1>7, <1>8, <1>9 DEF s

Name == IF established THEN "Connection" ELSE "Connecting"

LEMMA CommandIs ==
  ASSUME NEW do \in News
  PROVE  /\ Command(do) \in Commands
         /\ Command(do).do = do /\ Command(do).to = Name
BY DEF Command, Commands, Name

\* What poll queues, piece by piece.
LEMMA NewsPolled ==
  /\ PolledNews \in Seq(Commands) /\ Ordered(PolledNews)
  /\ \A do : Has(PolledNews, do) <=>
       \/ do = "HandshakeDataReady" /\ "HandshakeDataReady" \in events
       \/ do = "ConnectionEstablished" /\ "Connected" \in events
       \/ do = "Lost" /\ "Lost" \in events
  /\ Named(PolledNews, Name)
<1> DEFINE a == IF "HandshakeDataReady" \in events
                THEN <<Command("HandshakeDataReady")>> ELSE <<>>
           b == IF "Connected" \in events
                THEN <<Command("ConnectionEstablished")>> ELSE <<>>
           c == IF "Lost" \in events THEN <<Command("Lost")>> ELSE <<>>
<1>1. /\ a \in Seq(Commands) /\ Ordered(a) /\ Named(a, Name)
      /\ \A do : Has(a, do) <=> /\ do = "HandshakeDataReady"
                               /\ "HandshakeDataReady" \in events
  BY NoCommand, OneCommand, CommandIs DEF News
<1>2. /\ b \in Seq(Commands) /\ Ordered(b) /\ Named(b, Name)
      /\ \A do : Has(b, do) <=> /\ do = "ConnectionEstablished"
                               /\ "Connected" \in events
  BY NoCommand, OneCommand, CommandIs DEF News
<1>3. /\ c \in Seq(Commands) /\ Ordered(c) /\ Named(c, Name)
      /\ \A do : Has(c, do) <=> do = "Lost" /\ "Lost" \in events
  BY NoCommand, OneCommand, CommandIs DEF News
<1>4. PolledNews = a \o b \o c
  BY DEF PolledNews
<1> HIDE DEF a, b, c
<1>5. /\ a \o b \in Seq(Commands) /\ Ordered(a \o b) /\ Named(a \o b, Name)
      /\ \A do : Has(a \o b, do) <=> Has(a, do) \/ Has(b, do)
  BY <1>1, <1>2, ConcatCommands DEF MayFollow, Removing
<1>6. /\ a \o b \o c \in Seq(Commands) /\ Ordered(a \o b \o c)
      /\ Named(a \o b \o c, Name)
      /\ \A do : Has(a \o b \o c, do) <=> Has(a \o b, do) \/ Has(c, do)
  <2>1. \A x, y : Has(a \o b, x) /\ Has(c, y) => MayFollow(x, y)
    BY <1>1, <1>2, <1>3, <1>5 DEF MayFollow, Removing
  <2> QED
    BY <1>3, <1>5, <2>1, ConcatCommands
<1> QED
  BY <1>1, <1>2, <1>3, <1>4, <1>5, <1>6

-----------------------------------------------------------------------------
(* What the steps do to the queue *)

LEMMA VisitDrainedQueues ==
  ASSUME TypeOK, VisitDrained
  PROVE  /\ commands' \in Seq(Commands) /\ Ordered(commands')
         /\ \A do : Queued(do)' <=>
              \/ do = "ConnectionDrained"
              \/ do = IF keepalive THEN "remove" ELSE "despawn"
         /\ \A name : Named(commands', name)
<1> DEFINE c == [do |-> "ConnectionDrained", to |-> comp]
           r == RemoveOrDespawn(keepalive)
<1>1. c \in Commands /\ c.do = "ConnectionDrained"
  BY DEF VisitDrained, Connected, Commands, News
<1>2. /\ r \in Commands
      /\ r.do = IF keepalive THEN "remove" ELSE "despawn"
  BY DEF VisitDrained, Connected, Commands, RemoveOrDespawn
<1>3. commands' = <<c>> \o <<r>>
  BY DEF VisitDrained
<1> HIDE DEF c, r
<1>4. /\ <<c>> \in Seq(Commands) /\ Ordered(<<c>>)
      /\ <<r>> \in Seq(Commands) /\ Ordered(<<r>>)
      /\ \A do : Has(<<c>>, do) <=> do = "ConnectionDrained"
      /\ \A do : Has(<<r>>, do) <=> do = IF keepalive THEN "remove" ELSE "despawn"
      /\ \A name : Named(<<c>>, name) /\ Named(<<r>>, name)
  BY <1>1, <1>2, OneCommand DEF Errors
<1>5. \A a, b : Has(<<c>>, a) /\ Has(<<r>>, b) => MayFollow(a, b)
  BY <1>4 DEF MayFollow, Removing
<1>6. \A do : Has(<<c>> \o <<r>>, do) <=> Has(<<c>>, do) \/ Has(<<r>>, do)
  BY <1>4, ConcatCommands
<1>7. /\ <<c>> \o <<r>> \in Seq(Commands) /\ Ordered(<<c>> \o <<r>>)
      /\ \A name : Named(<<c>> \o <<r>>, name)
  BY <1>4, <1>5, ConcatCommands
<1> QED
  BY <1>3, <1>4, <1>6, <1>7 DEF Queued

LEMMA VisitOrphanQueues ==
  ASSUME TypeOK, VisitOrphan
  PROVE  /\ commands' \in Seq(Commands) /\ Ordered(commands')
         /\ \A do : Queued(do)' <=> do = IF keepalive THEN "remove" ELSE "despawn"
         /\ \A name : Named(commands', name)
<1> DEFINE r == RemoveOrDespawn(keepalive)
<1>1. /\ r \in Commands
      /\ r.do = IF keepalive THEN "remove" ELSE "despawn"
  BY DEF VisitOrphan, Connected, Commands, RemoveOrDespawn
<1>2. commands' = <<r>>
  BY DEF VisitOrphan
<1> HIDE DEF r
<1> QED
  BY <1>1, <1>2, OneCommand DEF Errors, Queued

LEMMA TransmitFailsQueues ==
  ASSUME TypeOK, TransmitFails
  PROVE  /\ commands' \in Seq(Commands)
         /\ \A do : Queued(do)' <=> Queued(do) \/ do = "IoError"
         /\ /\ Ordered(commands) /\ ~Queued("IoError")
            /\ \A do \in Removing \cup {"ConnectionDrained"} : ~Queued(do)
            => Ordered(commands')
         /\ \A name : Named(commands', name)
              <=> Named(commands, name) /\ Name = name
<1> DEFINE c == Command("IoError")
<1>1. c \in Commands /\ c.do = "IoError" /\ c.to = Name
  BY CommandIs DEF News
<1>2. commands \in Seq(Commands) /\ commands' = Append(commands, c)
  BY DEF TypeOK, TransmitFails
<1> HIDE DEF c
<1>3. ASSUME Ordered(commands), ~Queued("IoError"),
             \A do \in Removing \cup {"ConnectionDrained"} : ~Queued(do)
      PROVE  Ordered(commands')
  <2>1. ASSUME NEW i \in 1..Len(commands) PROVE MayFollow(commands[i].do, c.do)
    <3>1. Queued(commands[i].do)
      BY DEF Queued, Has
    <3> QED
      BY <1>1, <1>3, <3>1 DEF MayFollow
  <2> QED
    BY <1>2, <1>3, <2>1, AppendCommand, <1>1
<1>4. \A do : Queued(do)' <=> Queued(do) \/ do = "IoError"
  BY <1>1, <1>2, AppendCommand DEF Queued
<1>5. \A name : Named(commands', name) <=> Named(commands, name) /\ Name = name
  BY <1>1, <1>2, AppendCommand DEF Errors
<1>6. commands' \in Seq(Commands)
  BY <1>1, <1>2, AppendCommand
<1> QED
  BY <1>3, <1>4, <1>5, <1>6

\* The news among quinn's events.
Polled == {do \in {"HandshakeDataReady", "ConnectionEstablished", "Lost"} :
             \/ do = "ConnectionEstablished" /\ "Connected" \in events
             \/ do \in events}

LEMMA PollQueues ==
  ASSUME TypeOK, Poll
  PROVE  /\ commands' \in Seq(Commands)
         /\ \A do : Queued(do)' <=> Queued(do) \/ do \in Polled
         /\ /\ Ordered(commands)
            /\ \A a, b : Queued(a) /\ b \in Polled => MayFollow(a, b)
            => Ordered(commands')
         /\ \A name : Named(commands, name) /\ Name = name => Named(commands', name)
<1>1. commands \in Seq(Commands) /\ commands' = commands \o PolledNews
  BY DEF TypeOK, Poll
<1>2. events \subseteq {"HandshakeDataReady", "Connected", "Lost", "More"}
  BY DEF TypeOK
<1>3. \A do : Has(PolledNews, do) <=> do \in Polled
  BY <1>2, NewsPolled DEF Polled
<1>4. PolledNews \in Seq(Commands) /\ Ordered(PolledNews) /\ Named(PolledNews, Name)
  BY NewsPolled
<1>5. commands' \in Seq(Commands)
  BY <1>1, <1>4, ConcatCommands
<1>6. \A do : Queued(do)' <=> Queued(do) \/ do \in Polled
  BY <1>1, <1>3, <1>4, ConcatCommands DEF Queued
<1>7. ASSUME Ordered(commands),
             \A a, b : Queued(a) /\ b \in Polled => MayFollow(a, b)
      PROVE  Ordered(commands')
  BY <1>1, <1>3, <1>4, <1>7, ConcatCommands DEF Queued
<1>8. \A name : Named(commands, name) /\ Name = name => Named(commands', name)
  BY <1>1, <1>4, ConcatCommands
<1> QED
  BY <1>5, <1>6, <1>7, <1>8

LEMMA PollQueuesEach ==
  ASSUME TypeOK, Poll
  PROVE  /\ Queued("HandshakeDataReady")'
              <=> Queued("HandshakeDataReady") \/ "HandshakeDataReady" \in events
         /\ Queued("ConnectionEstablished")'
              <=> Queued("ConnectionEstablished") \/ "Connected" \in events
         /\ Queued("Lost")' <=> Queued("Lost") \/ "Lost" \in events
         /\ \A do \in {"IoError", "ConnectionDrained", "remove", "despawn"} :
              Queued(do)' <=> Queued(do)
<1>1. \A do : Queued(do)' <=> Queued(do) \/ do \in Polled
  BY PollQueues
<1>2. events \subseteq {"HandshakeDataReady", "Connected", "Lost", "More"}
  BY DEF TypeOK
<1> QED
  BY <1>1, <1>2 DEF Polled

LEMMA ApplyQueues ==
  ASSUME TypeOK, NEW do, Apply(do)
  PROVE  /\ commands' \in Seq(Commands)
         /\ \A d : Queued(d) <=> Queued(d)' \/ d = do
         /\ Ordered(commands) => Ordered(commands')
         /\ Ordered(commands) => \A d : Queued(d)' => MayFollow(do, d)
         /\ \A name : Named(commands, name) => Named(commands', name)
<1>1. /\ commands \in Seq(Commands) /\ commands # <<>>
      /\ commands' = Tail(commands) /\ Head(commands).do = do
  BY DEF TypeOK, Apply, Applying
<1>2. Tail(commands) \in Seq(Commands)
  BY <1>1, TailCommands
<1>3. \A d : Has(commands, d) <=> Has(Tail(commands), d) \/ d = do
  BY <1>1, TailCommands
<1>4. Ordered(commands) => Ordered(Tail(commands))
  BY <1>1, TailCommands
<1>5. Ordered(commands) => \A d : Has(Tail(commands), d) => MayFollow(do, d)
  BY <1>1, TailCommands
<1>6. \A name : Named(commands, name) => Named(Tail(commands), name)
  BY <1>1, TailCommands
<1> QED
  BY <1>1, <1>2, <1>3, <1>4, <1>5, <1>6 DEF Queued

LEMMA EmptyQueue == commands = <<>> => \A do : ~Queued(do)
BY NoCommand DEF Queued

LEMMA NoErrors ==
  ~Queued("Lost") /\ ~Queued("IoError") => \A name : Named(commands, name)
BY DEF Queued, Has, Named, Errors

-----------------------------------------------------------------------------
(* Types: a lemma for every group of steps, a step for every part of TypeInv *)

\* TypeOK in parts: what one action changes is in few of them.
EntityTypes ==
    /\ comp \in {"gone", "bare", "Incoming", "Connecting", "Connection"}
    /\ keepalive \in BOOLEAN /\ endpoint \in BOOLEAN

QuinnTypes ==
    /\ state \in {"none", "initial", "handshake", "established", "closed",
                  "drained", "dropped"}
    /\ slot \in BOOLEAN /\ drainedEvent \in BOOLEAN
    /\ packets \in BOOLEAN /\ due \in BOOLEAN
    /\ deadline \in {"none", "open", "close"}

EventTypes == events \subseteq {"HandshakeDataReady", "Connected", "Lost", "More"}

ImplTypes ==
    /\ should_poll \in BOOLEAN /\ io_error \in BOOLEAN
    /\ blocked_transmit \in BOOLEAN
    /\ timeout_timer \in {"none", "current", "outdated"} /\ elapsed \in BOOLEAN

IncomingTypes == responses \in Seq(Responses) /\ reading \in Seq(Responses)

ScheduleTypes ==
    /\ pc \in Stages /\ observing \in BOOLEAN
    /\ established \in BOOLEAN /\ transmit_blocked \in BOOLEAN
    /\ panicked \in {"no", "timer", "despawned"}

QueueTypes == commands \in Seq(Commands)

HistoryTypes ==
    /\ told \subseteq News
    /\ causes \subseteq {"closed by the application", "drained in handle_event"}
    /\ lateKeep \in BOOLEAN /\ fresh \in BOOLEAN

\* quinn's connection lives in the component, as a Connection after the handshake.
Held ==
    /\ Connected <=> state \notin {"none", "dropped"}
    /\ comp = "Connection" => state \in {"established", "closed", "drained"}

LEMMA TypeParts ==
  TypeOK <=> /\ EntityTypes /\ QuinnTypes /\ EventTypes /\ ImplTypes
             /\ IncomingTypes /\ ScheduleTypes /\ QueueTypes /\ HistoryTypes
             /\ Held
BY DEF TypeOK, EntityTypes, QuinnTypes, EventTypes, ImplTypes, IncomingTypes,
       ScheduleTypes, QueueTypes, HistoryTypes, Held

Visiting == VisitNothing \/ VisitDrained \/ VisitOrphan \/ Visit \/ EndVisit

Polling ==
    \/ Transmit \/ TransmitBlocks \/ TransmitFails
    \/ PollTimeout \/ PanicTimeout \/ PollEndpointEvents \/ Poll

ApplyingCommands ==
    ApplyTrigger \/ ApplyEstablish \/ ApplyRemove \/ ApplyDespawn \/ EndFrame

\* The steps between these, and time.
Passing ==
    \/ EndPollEndpoints \/ EndUpdate \/ ObserverReturns
    \/ DeadlinePasses \/ TimerElapses \/ UNCHANGED vars

LEMMA NextParts ==
  [Next]_vars =>
    \/ PollEndpoints \/ ApplicationStep \/ HandleIncomingResponses
    \/ Visiting \/ Polling \/ ApplyingCommands \/ Passing
BY DEF Next, Schedule, PollConnections, Visiting, Polling, ApplyingCommands,
       Passing, Halted

LEMMA PollEndpointsType == TypeInv /\ PollEndpoints => TypeInv'
<1> SUFFICES ASSUME TypeInv, PollEndpoints PROVE TypeInv'
  OBVIOUS
<1>a. /\ EntityTypes /\ QuinnTypes /\ EventTypes /\ ImplTypes /\ IncomingTypes
      /\ ScheduleTypes /\ QueueTypes /\ HistoryTypes /\ Held /\ TypeOK
      /\ ObserversWait /\ QueueFits /\ VisitStays /\ HandshakeIsDone
  BY TypeParts DEF TypeInv
<1> USE DEF PollEndpoints, IncomingArrives, Running, Alive, HandshakeArrives,
           HandleEvent, NewDeadline, HandshakeCompletes, DataArrives,
           CloseArrives, ResetArrives, Drains, entityVars, quinnVars, implVars,
           incomingVars, scheduleVars, historyVars
<1>1. EntityTypes'
  BY <1>a DEF EntityTypes
<1>2. QuinnTypes'
  BY <1>a DEF QuinnTypes, Connected
<1>3. EventTypes'
  BY <1>a DEF EventTypes
<1>4. ImplTypes'
  BY <1>a DEF ImplTypes
<1>5. IncomingTypes'
  BY <1>a DEF IncomingTypes
<1>6. ScheduleTypes'
  BY <1>a DEF ScheduleTypes, Stages
<1>7. QueueTypes'
  BY <1>a DEF QueueTypes
<1>8. HistoryTypes'
  BY <1>a DEF HistoryTypes, News
<1>9. Held'
  BY <1>a DEF Held, Connected
<1>10. ObserversWait'
  BY <1>a DEF ObserversWait
<1>11. QueueFits'
  BY <1>a DEF QueueFits, ObserversWait, Loop
<1>12. VisitStays'
  BY <1>a DEF VisitStays, ObserversWait, QueueFits, Loop, Connected, Queued
<1>13. HandshakeIsDone'
  <2> USE DEF HandshakeIsDone, Queued, Held, Connected, QuinnTypes
  <2>1. CASE IncomingArrives
    BY <1>a, <2>1
  <2>2. CASE HandshakeArrives
    BY <1>a, <2>2
  <2>3. CASE HandshakeCompletes
    BY <1>a, <2>3
  <2>4. CASE DataArrives
    BY <1>a, <2>4
  <2>5. CASE CloseArrives
    BY <1>a, <2>5
  <2>6. CASE ResetArrives
    BY <1>a, <2>6
  <2> QED
    BY <2>1, <2>2, <2>3, <2>4, <2>5, <2>6
<1>z. TypeOK'
  BY <1>1, <1>2, <1>3, <1>4, <1>5, <1>6, <1>7, <1>8, <1>9
  DEF TypeOK, EntityTypes, QuinnTypes, EventTypes, ImplTypes, IncomingTypes,
      ScheduleTypes, QueueTypes, HistoryTypes, Held
<1> QED
  BY <1>z, <1>10, <1>11, <1>12, <1>13 DEF TypeInv

LEMMA ApplicationStepType == TypeInv /\ ApplicationStep => TypeInv'
<1> SUFFICES ASSUME TypeInv, ApplicationStep PROVE TypeInv'
  OBVIOUS
<1>a. /\ EntityTypes /\ QuinnTypes /\ EventTypes /\ ImplTypes /\ IncomingTypes
      /\ ScheduleTypes /\ QueueTypes /\ HistoryTypes /\ Held /\ TypeOK
      /\ ObserversWait /\ QueueFits /\ VisitStays /\ HandshakeIsDone
  BY TypeParts DEF TypeInv
<1> USE DEF ApplicationStep, Connect, Application, Alive, NewConnection, Close,
           QuinnClose, NewDeadline, Send, SetKeepAlive, Remove, DropConnection,
           KeepConnection, RemoveEndpoint, Respond, entityVars, quinnVars,
           implVars, incomingVars, scheduleVars, historyVars
<1>1. EntityTypes'
  BY <1>a DEF EntityTypes
<1>2. QuinnTypes'
  BY <1>a DEF QuinnTypes, Connected
<1>3. EventTypes'
  BY <1>a DEF EventTypes
<1>4. ImplTypes'
  BY <1>a DEF ImplTypes
<1>5. IncomingTypes'
  <2>1. ASSUME NEW r \in Responses, Respond(r) PROVE IncomingTypes'
    <3>1. responses \in Seq(Responses) /\ reading \in Seq(Responses)
      BY <1>a DEF IncomingTypes
    <3>2. Append(responses, r) \in Seq(Responses)
      BY <3>1, AppendProperties
    <3> QED
      BY <2>1, <3>1, <3>2 DEF IncomingTypes
  <2>2. CASE UNCHANGED <<responses, reading>>
    BY <1>a, <2>2 DEF IncomingTypes
  <2> QED
    BY <2>1, <2>2
<1>6. ScheduleTypes'
  BY <1>a DEF ScheduleTypes, Stages
<1>7. QueueTypes'
  BY <1>a DEF QueueTypes
<1>8. HistoryTypes'
  BY <1>a DEF HistoryTypes, News
<1>9. Held'
  BY <1>a DEF Held, Connected
<1>10. ObserversWait'
  BY <1>a DEF ObserversWait
<1>11. QueueFits'
  BY <1>a DEF QueueFits, ObserversWait, Loop
<1>12. VisitStays'
  BY <1>a DEF VisitStays, ObserversWait, QueueFits, Loop, Connected, Queued
<1>13. HandshakeIsDone'
  BY <1>a DEF HandshakeIsDone, Queued, Held, Connected, QuinnTypes
<1>z. TypeOK'
  BY <1>1, <1>2, <1>3, <1>4, <1>5, <1>6, <1>7, <1>8, <1>9
  DEF TypeOK, EntityTypes, QuinnTypes, EventTypes, ImplTypes, IncomingTypes,
      ScheduleTypes, QueueTypes, HistoryTypes, Held
<1> QED
  BY <1>z, <1>10, <1>11, <1>12, <1>13 DEF TypeInv

LEMMA HandleIncomingResponsesType == TypeInv /\ HandleIncomingResponses => TypeInv'
<1> SUFFICES ASSUME TypeInv, HandleIncomingResponses PROVE TypeInv'
  OBVIOUS
<1>a. /\ EntityTypes /\ QuinnTypes /\ EventTypes /\ ImplTypes /\ IncomingTypes
      /\ ScheduleTypes /\ QueueTypes /\ HistoryTypes /\ Held /\ TypeOK
      /\ ObserversWait /\ QueueFits /\ VisitStays /\ HandshakeIsDone
  BY TypeParts DEF TypeInv
<1> USE DEF HandleIncomingResponses, RespondInVain, HandleResponse, Running,
           Alive, Refuse, IncomingEnds, Accept, NewConnection, RespondFails,
           EndIncomingError, KeepConnection, DropConnection,
           EndIncomingResponses, entityVars, quinnVars, implVars, incomingVars,
           scheduleVars, historyVars
<1>1. EntityTypes'
  BY <1>a DEF EntityTypes
<1>2. QuinnTypes'
  BY <1>a DEF QuinnTypes, Connected
<1>3. EventTypes'
  BY <1>a DEF EventTypes
<1>4. ImplTypes'
  BY <1>a DEF ImplTypes
<1>5. IncomingTypes'
  <2>1. responses \in Seq(Responses) /\ reading \in Seq(Responses)
    BY <1>a DEF IncomingTypes
  <2>2. /\ responses' = responses
        /\ reading' = reading \/ (reading # <<>> /\ reading' = Tail(reading))
    OBVIOUS
  <2>3. reading # <<>> => Tail(reading) \in Seq(Responses)
    BY <2>1, HeadTailProperties
  <2> QED
    BY <2>1, <2>2, <2>3 DEF IncomingTypes
<1>6. ScheduleTypes'
  BY <1>a DEF ScheduleTypes, Stages
<1>7. QueueTypes'
  BY <1>a DEF QueueTypes
<1>8. HistoryTypes'
  BY <1>a DEF HistoryTypes, News
<1>9. Held'
  BY <1>a DEF Held, Connected
<1>10. ObserversWait'
  BY <1>a DEF ObserversWait
<1>11. QueueFits'
  BY <1>a DEF QueueFits, ObserversWait, Loop
<1>12. VisitStays'
  BY <1>a DEF VisitStays, ObserversWait, QueueFits, Loop, Connected, Queued
<1>13. HandshakeIsDone'
  BY <1>a DEF HandshakeIsDone, Queued, Held, Connected, QuinnTypes
<1>z. TypeOK'
  BY <1>1, <1>2, <1>3, <1>4, <1>5, <1>6, <1>7, <1>8, <1>9
  DEF TypeOK, EntityTypes, QuinnTypes, EventTypes, ImplTypes, IncomingTypes,
      ScheduleTypes, QueueTypes, HistoryTypes, Held
<1> QED
  BY <1>z, <1>10, <1>11, <1>12, <1>13 DEF TypeInv

LEMMA VisitingType == TypeInv /\ Visiting => TypeInv'
<1> SUFFICES ASSUME TypeInv, Visiting PROVE TypeInv'
  OBVIOUS
<1>a. /\ EntityTypes /\ QuinnTypes /\ EventTypes /\ ImplTypes /\ IncomingTypes
      /\ ScheduleTypes /\ QueueTypes /\ HistoryTypes /\ Held /\ TypeOK
      /\ ObserversWait /\ QueueFits /\ VisitStays /\ HandshakeIsDone
  BY TypeParts DEF TypeInv
<1> USE DEF Visiting, VisitNothing, Running, Alive, VisitDrained,
           RemoveOrDespawn, VisitOrphan, Visit, HandleTimeout, QuinnTimeout,
           Drains, EndVisit, entityVars, quinnVars, implVars, incomingVars,
           scheduleVars, historyVars
<1>1. EntityTypes'
  BY <1>a DEF EntityTypes
<1>2. QuinnTypes'
  BY <1>a DEF QuinnTypes, Connected
<1>3. EventTypes'
  BY <1>a DEF EventTypes
<1>4. ImplTypes'
  <2> USE DEF ImplTypes, ScheduleTypes
  <2>1. CASE Visit
    BY <1>a, <2>1
  <2>2. CASE EndVisit
    BY <1>a, <2>2
  <2>3. CASE \/ VisitNothing \/ VisitDrained \/ VisitOrphan
    BY <1>a, <2>3
  <2> QED
    BY <2>1, <2>2, <2>3
<1>5. IncomingTypes'
  BY <1>a DEF IncomingTypes
<1>6. ScheduleTypes'
  BY <1>a DEF ScheduleTypes, Stages
<1>7. QueueTypes'
  BY <1>a, VisitDrainedQueues, VisitOrphanQueues DEF QueueTypes
<1>8. HistoryTypes'
  BY <1>a DEF HistoryTypes, News
<1>9. Held'
  BY <1>a DEF Held, Connected
<1>10. ObserversWait'
  BY <1>a DEF ObserversWait
<1>11. QueueFits'
  BY <1>a DEF QueueFits, ObserversWait, Loop
<1>12. VisitStays'
  <2> USE DEF VisitStays, ObserversWait, QueueFits, Loop, Connected, Queued
  <2>1. CASE VisitNothing
    BY <1>a, <2>1, EmptyQueue
  <2>2. CASE VisitDrained
    BY <1>a, <2>2, EmptyQueue
  <2>3. CASE VisitOrphan
    BY <1>a, <2>3, EmptyQueue
  <2>4. CASE Visit
    BY <1>a, <2>4, EmptyQueue
  <2>5. CASE EndVisit
    BY <1>a, <2>5, EmptyQueue
  <2> QED
    BY <2>1, <2>2, <2>3, <2>4, <2>5
<1>13. HandshakeIsDone'
  BY <1>a, VisitDrainedQueues, VisitOrphanQueues
  DEF HandshakeIsDone, Queued, Held, Connected, QuinnTypes
<1>z. TypeOK'
  BY <1>1, <1>2, <1>3, <1>4, <1>5, <1>6, <1>7, <1>8, <1>9
  DEF TypeOK, EntityTypes, QuinnTypes, EventTypes, ImplTypes, IncomingTypes,
      ScheduleTypes, QueueTypes, HistoryTypes, Held
<1> QED
  BY <1>z, <1>10, <1>11, <1>12, <1>13 DEF TypeInv

LEMMA PollingType == TypeInv /\ Polling => TypeInv'
<1> SUFFICES ASSUME TypeInv, Polling PROVE TypeInv'
  OBVIOUS
<1>a. /\ EntityTypes /\ QuinnTypes /\ EventTypes /\ ImplTypes /\ IncomingTypes
      /\ ScheduleTypes /\ QueueTypes /\ HistoryTypes /\ Held /\ TypeOK
      /\ ObserversWait /\ QueueFits /\ VisitStays /\ HandshakeIsDone
  BY TypeParts DEF TypeInv
<1> USE DEF Polling, Transmit, Transmitting, Running, Alive, NewDeadline,
           TransmitBlocks, TransmitFails, PollTimeout, PollingTimeout,
           PanicTimeout, PollEndpointEvents, Poll, entityVars, quinnVars,
           implVars, incomingVars, scheduleVars, historyVars
<1>1. EntityTypes'
  BY <1>a DEF EntityTypes
<1>2. QuinnTypes'
  BY <1>a DEF QuinnTypes, Connected
<1>3. EventTypes'
  BY <1>a DEF EventTypes
<1>4. ImplTypes'
  BY <1>a DEF ImplTypes
<1>5. IncomingTypes'
  BY <1>a DEF IncomingTypes
<1>6. ScheduleTypes'
  BY <1>a DEF ScheduleTypes, Stages
<1>7. QueueTypes'
  BY <1>a, TransmitFailsQueues, PollQueues DEF QueueTypes
<1>8. HistoryTypes'
  BY <1>a DEF HistoryTypes, News
<1>9. Held'
  <2> USE DEF Held, Connected, VisitStays, Loop
  <2>1. CASE Transmit
    BY <1>a, <2>1
  <2>2. CASE TransmitBlocks
    BY <1>a, <2>2
  <2>3. CASE TransmitFails
    BY <1>a, <2>3
  <2>4. CASE PollTimeout
    BY <1>a, <2>4
  <2>5. CASE PanicTimeout
    BY <1>a, <2>5
  <2>6. CASE PollEndpointEvents
    BY <1>a, <2>6
  <2>7. CASE Poll
    BY <1>a, <2>7
  <2> QED
    BY <2>1, <2>2, <2>3, <2>4, <2>5, <2>6, <2>7
<1>10. ObserversWait'
  BY <1>a DEF ObserversWait
<1>11. QueueFits'
  BY <1>a DEF QueueFits, ObserversWait, Loop
<1>12. VisitStays'
  <2> USE DEF VisitStays, Queued, Polled, Connected, Loop, Removing
  <2>1. CASE Transmit
    BY <1>a, <2>1
  <2>2. CASE TransmitBlocks
    BY <1>a, <2>2
  <2>3. CASE TransmitFails
    BY <1>a, <2>3, TransmitFailsQueues
  <2>4. CASE PollTimeout
    BY <1>a, <2>4
  <2>5. CASE PanicTimeout
    BY <1>a, <2>5
  <2>6. CASE PollEndpointEvents
    BY <1>a, <2>6
  <2>7. CASE Poll
    BY <1>a, <2>7, PollQueues
  <2> QED
    BY <2>1, <2>2, <2>3, <2>4, <2>5, <2>6, <2>7
<1>13. HandshakeIsDone'
  <2> USE DEF HandshakeIsDone, Queued, Polled, Held, Connected, VisitStays,
             QuinnTypes, EventTypes, Loop
  <2>1. CASE Transmit
    BY <1>a, <2>1
  <2>2. CASE TransmitBlocks
    BY <1>a, <2>2
  <2>3. CASE TransmitFails
    BY <1>a, <2>3, TransmitFailsQueues
  <2>4. CASE PollTimeout
    BY <1>a, <2>4
  <2>5. CASE PanicTimeout
    BY <1>a, <2>5
  <2>6. CASE PollEndpointEvents
    BY <1>a, <2>6
  <2>7. CASE Poll
    BY <1>a, <2>7, PollQueues
  <2> QED
    BY <2>1, <2>2, <2>3, <2>4, <2>5, <2>6, <2>7
<1>z. TypeOK'
  BY <1>1, <1>2, <1>3, <1>4, <1>5, <1>6, <1>7, <1>8, <1>9
  DEF TypeOK, EntityTypes, QuinnTypes, EventTypes, ImplTypes, IncomingTypes,
      ScheduleTypes, QueueTypes, HistoryTypes, Held
<1> QED
  BY <1>z, <1>10, <1>11, <1>12, <1>13 DEF TypeInv

LEMMA ApplyingCommandsType == TypeInv /\ ApplyingCommands => TypeInv'
<1> SUFFICES ASSUME TypeInv, ApplyingCommands PROVE TypeInv'
  OBVIOUS
<1>a. /\ EntityTypes /\ QuinnTypes /\ EventTypes /\ ImplTypes /\ IncomingTypes
      /\ ScheduleTypes /\ QueueTypes /\ HistoryTypes /\ Held /\ TypeOK
      /\ ObserversWait /\ QueueFits /\ VisitStays /\ HandshakeIsDone
  BY TypeParts DEF TypeInv
<1> USE DEF ApplyingCommands, ApplyTrigger, Apply, Applying, Running, Alive,
           KeepConnection, ApplyEstablish, ApplyRemove, DropConnection,
           ApplyDespawn, EndFrame, entityVars, quinnVars, implVars,
           incomingVars, scheduleVars, historyVars
<1>1. EntityTypes'
  BY <1>a DEF EntityTypes
<1>2. QuinnTypes'
  BY <1>a DEF QuinnTypes, Connected
<1>3. EventTypes'
  BY <1>a DEF EventTypes
<1>4. ImplTypes'
  BY <1>a DEF ImplTypes
<1>5. IncomingTypes'
  BY <1>a DEF IncomingTypes
<1>6. ScheduleTypes'
  BY <1>a DEF ScheduleTypes, Stages
<1>7. QueueTypes'
  BY <1>a, ApplyQueues, EmptyQueue DEF QueueTypes
<1>8. HistoryTypes'
  BY <1>a DEF HistoryTypes, News
<1>9. Held'
  <2> USE DEF EntityTypes, QuinnTypes, Held, Connected, HandshakeIsDone
  <2>1. CASE ApplyTrigger
    BY <1>a, <2>1
  <2>2. CASE ApplyEstablish
    BY <1>a, <2>2, ApplyQueues
  <2>3. CASE ApplyRemove
    BY <1>a, <2>3
  <2>4. CASE ApplyDespawn
    BY <1>a, <2>4
  <2>5. CASE EndFrame
    BY <1>a, <2>5
  <2> QED
    BY <2>1, <2>2, <2>3, <2>4, <2>5
<1>10. ObserversWait'
  BY <1>a DEF ObserversWait
<1>11. QueueFits'
  BY <1>a DEF QueueFits, ObserversWait, Loop
<1>12. VisitStays'
  BY <1>a, ApplyQueues, EmptyQueue
  DEF VisitStays, ObserversWait, QueueFits, Loop, Connected, Queued
<1>13. HandshakeIsDone'
  BY <1>a, ApplyQueues, EmptyQueue
  DEF HandshakeIsDone, Queued, Held, Connected, QuinnTypes
<1>z. TypeOK'
  BY <1>1, <1>2, <1>3, <1>4, <1>5, <1>6, <1>7, <1>8, <1>9
  DEF TypeOK, EntityTypes, QuinnTypes, EventTypes, ImplTypes, IncomingTypes,
      ScheduleTypes, QueueTypes, HistoryTypes, Held
<1> QED
  BY <1>z, <1>10, <1>11, <1>12, <1>13 DEF TypeInv

LEMMA PassingType == TypeInv /\ Passing => TypeInv'
<1> SUFFICES ASSUME TypeInv, Passing PROVE TypeInv'
  OBVIOUS
<1>a. /\ EntityTypes /\ QuinnTypes /\ EventTypes /\ ImplTypes /\ IncomingTypes
      /\ ScheduleTypes /\ QueueTypes /\ HistoryTypes /\ Held /\ TypeOK
      /\ ObserversWait /\ QueueFits /\ VisitStays /\ HandshakeIsDone
  BY TypeParts DEF TypeInv
<1> USE DEF Passing, EndPollEndpoints, Running, Alive, EndUpdate,
           ObserverReturns, DeadlinePasses, Between, TimerElapses, vars,
           entityVars, quinnVars, implVars, incomingVars, scheduleVars,
           historyVars
<1>1. EntityTypes'
  BY <1>a DEF EntityTypes
<1>2. QuinnTypes'
  BY <1>a DEF QuinnTypes, Connected
<1>3. EventTypes'
  BY <1>a DEF EventTypes
<1>4. ImplTypes'
  BY <1>a DEF ImplTypes
<1>5. IncomingTypes'
  BY <1>a, EmptySeq DEF IncomingTypes
<1>6. ScheduleTypes'
  BY <1>a DEF ScheduleTypes, Stages
<1>7. QueueTypes'
  BY <1>a DEF QueueTypes
<1>8. HistoryTypes'
  BY <1>a DEF HistoryTypes, News
<1>9. Held'
  BY <1>a DEF Held, Connected
<1>10. ObserversWait'
  BY <1>a DEF ObserversWait
<1>11. QueueFits'
  BY <1>a DEF QueueFits, ObserversWait, Loop
<1>12. VisitStays'
  BY <1>a DEF VisitStays, ObserversWait, QueueFits, Loop, Connected, Queued
<1>13. HandshakeIsDone'
  BY <1>a DEF HandshakeIsDone, Queued, Held, Connected, QuinnTypes
<1>z. TypeOK'
  BY <1>1, <1>2, <1>3, <1>4, <1>5, <1>6, <1>7, <1>8, <1>9
  DEF TypeOK, EntityTypes, QuinnTypes, EventTypes, ImplTypes, IncomingTypes,
      ScheduleTypes, QueueTypes, HistoryTypes, Held
<1> QED
  BY <1>z, <1>10, <1>11, <1>12, <1>13 DEF TypeInv

-----------------------------------------------------------------------------
(* Safety: the same, for the parts of SafetyInv *)

LEMMA PollEndpointsSafety ==
  TypeInv /\ SafetyInv /\ PollEndpoints => SafetyInv'
<1> SUFFICES ASSUME TypeInv, SafetyInv, PollEndpoints PROVE SafetyInv'
  OBVIOUS
<1>a. /\ EntityTypes /\ QuinnTypes /\ EventTypes /\ ImplTypes /\ IncomingTypes
      /\ ScheduleTypes /\ QueueTypes /\ HistoryTypes /\ Held /\ TypeOK
      /\ ObserversWait /\ QueueFits /\ VisitStays /\ HandshakeIsDone
  BY TypeParts DEF TypeInv
<1>b. /\ DespawnsAreAllowed /\ DrainedIsPassedOn /\ EndsHaveReasons /\ InOrder
      /\ EachOnce /\ LostComesLast /\ DrainedComesLast /\ NamesAreKnown
  BY DEF SafetyInv
<1> USE DEF PollEndpoints, IncomingArrives, Running, Alive, HandshakeArrives,
           HandleEvent, NewDeadline, HandshakeCompletes, DataArrives,
           CloseArrives, ResetArrives, Drains, entityVars, quinnVars, implVars,
           incomingVars, scheduleVars, historyVars
<1>1. DespawnsAreAllowed'
  BY <1>a, <1>b, EmptyQueue
  DEF DespawnsAreAllowed, Queued, ObserversWait, QueueFits, VisitStays, Loop,
      Removing
<1>2. DrainedIsPassedOn'
  BY <1>a, <1>b, EmptyQueue
  DEF DrainedIsPassedOn, HandleIsFree, Queued, Held, Connected, ObserversWait,
      QueueFits, VisitStays, Loop
<1>3. EndsHaveReasons'
  BY <1>a, <1>b, EmptyQueue
  DEF EndsHaveReasons, Explained, Reported, Queued, Held, Connected,
      ObserversWait, QueueFits, VisitStays, Loop, DrainedIsPassedOn
<1>4. EachOnce'
  <2> USE DEF EachOnce, HandshakeIsDone, Queued, Held, Connected, News
  <2>1. CASE IncomingArrives
    BY <1>a, <1>b, <2>1
  <2>2. CASE HandshakeArrives
    BY <1>a, <1>b, <2>2
  <2>3. CASE HandshakeCompletes
    BY <1>a, <1>b, <2>3
  <2>4. CASE DataArrives
    BY <1>a, <1>b, <2>4
  <2>5. CASE CloseArrives
    BY <1>a, <1>b, <2>5
  <2>6. CASE ResetArrives
    BY <1>a, <1>b, <2>6
  <2> QED
    BY <2>1, <2>2, <2>3, <2>4, <2>5, <2>6
<1>5. LostComesLast'
  BY <1>a, <1>b, EmptyQueue
  DEF LostComesLast, Queued, Held, Connected, ObserversWait, QueueFits,
      VisitStays, Loop
<1>6. DrainedComesLast'
  BY <1>a, <1>b, EmptyQueue
  DEF DrainedComesLast, DrainedIsPassedOn, Queued, Held, Connected,
      ObserversWait, QueueFits, VisitStays, Loop, News, Removing
<1>7. InOrder'
  BY <1>a, <1>b, EmptyQueue DEF InOrder, Queued, VisitStays, Loop, Removing
<1>8. NamesAreKnown'
  BY <1>a, <1>b, EmptyQueue DEF NamesAreKnown, Held, Connected, Queued
<1> QED
  BY <1>1, <1>2, <1>3, <1>4, <1>5, <1>6, <1>7, <1>8 DEF SafetyInv

LEMMA ApplicationStepSafety ==
  TypeInv /\ SafetyInv /\ ApplicationStep => SafetyInv'
<1> SUFFICES ASSUME TypeInv, SafetyInv, ApplicationStep PROVE SafetyInv'
  OBVIOUS
<1>a. /\ EntityTypes /\ QuinnTypes /\ EventTypes /\ ImplTypes /\ IncomingTypes
      /\ ScheduleTypes /\ QueueTypes /\ HistoryTypes /\ Held /\ TypeOK
      /\ ObserversWait /\ QueueFits /\ VisitStays /\ HandshakeIsDone
  BY TypeParts DEF TypeInv
<1>b. /\ DespawnsAreAllowed /\ DrainedIsPassedOn /\ EndsHaveReasons /\ InOrder
      /\ EachOnce /\ LostComesLast /\ DrainedComesLast /\ NamesAreKnown
  BY DEF SafetyInv
<1> USE DEF ApplicationStep, Connect, Application, Alive, NewConnection, Close,
           QuinnClose, NewDeadline, Send, SetKeepAlive, Remove, DropConnection,
           KeepConnection, RemoveEndpoint, Respond, entityVars, quinnVars,
           implVars, incomingVars, scheduleVars, historyVars
<1>1. DespawnsAreAllowed'
  BY <1>a, <1>b, EmptyQueue
  DEF DespawnsAreAllowed, Queued, ObserversWait, QueueFits, VisitStays, Loop,
      Removing
<1>2. DrainedIsPassedOn'
  <2> USE DEF DrainedIsPassedOn, HandleIsFree, Queued, Held, Connected,
             ObserversWait
  <2>1. CASE Connect
    BY <1>a, <1>b, <2>1
  <2>2. CASE Close
    BY <1>a, <1>b, <2>2
  <2>3. CASE Send
    BY <1>a, <1>b, <2>3
  <2>4. CASE SetKeepAlive
    BY <1>a, <1>b, <2>4
  <2>5. CASE Remove
    BY <1>a, <1>b, <2>5
  <2>6. CASE RemoveEndpoint
    BY <1>a, <1>b, <2>6
  <2>7. CASE \E r \in Responses : Respond(r)
    <3>1. UNCHANGED <<entityVars, quinnVars, implVars, scheduleVars, historyVars>>
      BY <2>7
    <3> HIDE DEF ApplicationStep, Respond
    <3> QED
      BY <1>a, <1>b, <3>1
  <2> QED
    BY <2>1, <2>2, <2>3, <2>4, <2>5, <2>6, <2>7
<1>3. EndsHaveReasons'
  BY <1>a, <1>b, EmptyQueue
  DEF EndsHaveReasons, Explained, Reported, Queued, Held, Connected,
      ObserversWait, QueueFits, VisitStays, Loop, DrainedIsPassedOn
<1>4. EachOnce'
  <2> USE DEF EachOnce, Queued, Held, Connected, News
  <2>1. CASE Connect
    BY <1>a, <1>b, <2>1
  <2>2. CASE Close
    BY <1>a, <1>b, <2>2
  <2>3. CASE Send
    BY <1>a, <1>b, <2>3
  <2>4. CASE SetKeepAlive
    BY <1>a, <1>b, <2>4
  <2>5. CASE Remove
    BY <1>a, <1>b, <2>5
  <2>6. CASE RemoveEndpoint
    BY <1>a, <1>b, <2>6
  <2>7. CASE \E r \in Responses : Respond(r)
    <3>1. UNCHANGED <<entityVars, quinnVars, implVars, scheduleVars, historyVars>>
      BY <2>7
    <3> HIDE DEF ApplicationStep, Respond
    <3> QED
      BY <1>a, <1>b, <3>1
  <2> QED
    BY <2>1, <2>2, <2>3, <2>4, <2>5, <2>6, <2>7
<1>5. LostComesLast'
  BY <1>a, <1>b, EmptyQueue
  DEF LostComesLast, Queued, Held, Connected, ObserversWait, QueueFits,
      VisitStays, Loop
<1>6. DrainedComesLast'
  BY <1>a, <1>b, EmptyQueue
  DEF DrainedComesLast, DrainedIsPassedOn, Queued, Held, Connected,
      ObserversWait, QueueFits, VisitStays, Loop, News, Removing
<1>7. InOrder'
  BY <1>a, <1>b, EmptyQueue DEF InOrder, Queued, VisitStays, Loop, Removing
<1>8. NamesAreKnown'
  <2> USE DEF NamesAreKnown, Connected
  <2>1. CASE Connect
    BY <1>a, <1>b, <2>1, NoErrors DEF LostComesLast, EachOnce
  <2>2. CASE Remove
    BY <1>a, <1>b, <2>2, NoErrors
  <2>3. CASE \/ Close \/ Send \/ SetKeepAlive \/ RemoveEndpoint
             \/ (\E r \in Responses : Respond(r))
    BY <1>a, <1>b, <2>3, NoErrors
  <2> QED
    BY <2>1, <2>2, <2>3
<1> QED
  BY <1>1, <1>2, <1>3, <1>4, <1>5, <1>6, <1>7, <1>8 DEF SafetyInv

LEMMA HandleIncomingResponsesSafety ==
  TypeInv /\ SafetyInv /\ HandleIncomingResponses => SafetyInv'
<1> SUFFICES ASSUME TypeInv, SafetyInv, HandleIncomingResponses PROVE SafetyInv'
  OBVIOUS
<1>a. /\ EntityTypes /\ QuinnTypes /\ EventTypes /\ ImplTypes /\ IncomingTypes
      /\ ScheduleTypes /\ QueueTypes /\ HistoryTypes /\ Held /\ TypeOK
      /\ ObserversWait /\ QueueFits /\ VisitStays /\ HandshakeIsDone
  BY TypeParts DEF TypeInv
<1>b. /\ DespawnsAreAllowed /\ DrainedIsPassedOn /\ EndsHaveReasons /\ InOrder
      /\ EachOnce /\ LostComesLast /\ DrainedComesLast /\ NamesAreKnown
  BY DEF SafetyInv
<1> USE DEF HandleIncomingResponses, RespondInVain, HandleResponse, Running,
           Alive, Refuse, IncomingEnds, Accept, NewConnection, RespondFails,
           EndIncomingError, KeepConnection, DropConnection,
           EndIncomingResponses, entityVars, quinnVars, implVars, incomingVars,
           scheduleVars, historyVars
<1>1. DespawnsAreAllowed'
  BY <1>a, <1>b, EmptyQueue
  DEF DespawnsAreAllowed, Queued, ObserversWait, QueueFits, VisitStays, Loop,
      Removing
<1>2. DrainedIsPassedOn'
  <2> USE DEF DrainedIsPassedOn, HandleIsFree, Queued, Held, Connected
  <2>1. CASE RespondInVain
    BY <1>a, <1>b, <2>1
  <2>2. CASE Refuse
    BY <1>a, <1>b, <2>2
  <2>3. CASE Accept
    BY <1>a, <1>b, <2>3
  <2>4. CASE RespondFails
    BY <1>a, <1>b, <2>4
  <2>5. CASE EndIncomingError
    BY <1>a, <1>b, <2>5
  <2>6. CASE EndIncomingResponses
    BY <1>a, <1>b, <2>6
  <2> QED
    BY <2>1, <2>2, <2>3, <2>4, <2>5, <2>6
<1>3. EndsHaveReasons'
  BY <1>a, <1>b, EmptyQueue
  DEF EndsHaveReasons, Explained, Reported, Queued, Held, Connected,
      ObserversWait, QueueFits, VisitStays, Loop, DrainedIsPassedOn
<1>4. EachOnce'
  BY <1>a, <1>b, EmptyQueue
  DEF EachOnce, News, Queued, Held, Connected, ObserversWait, QueueFits,
      VisitStays, Loop, HandshakeIsDone
<1>5. LostComesLast'
  BY <1>a, <1>b, EmptyQueue
  DEF LostComesLast, Queued, Held, Connected, ObserversWait, QueueFits,
      VisitStays, Loop
<1>6. DrainedComesLast'
  BY <1>a, <1>b, EmptyQueue
  DEF DrainedComesLast, DrainedIsPassedOn, Queued, Held, Connected,
      ObserversWait, QueueFits, VisitStays, Loop, News, Removing
<1>7. InOrder'
  BY <1>a, <1>b, EmptyQueue DEF InOrder, Queued, VisitStays, Loop, Removing
<1>8. NamesAreKnown'
  <2> USE DEF NamesAreKnown, QueueFits, Loop, Connected
  <2>1. CASE RespondInVain
    BY <1>a, <1>b, <2>1, EmptyQueue, NoErrors
  <2>2. CASE Refuse
    BY <1>a, <1>b, <2>2, EmptyQueue, NoErrors
  <2>3. CASE Accept
    BY <1>a, <1>b, <2>3, EmptyQueue, NoErrors
  <2>4. CASE RespondFails
    BY <1>a, <1>b, <2>4, EmptyQueue, NoErrors
  <2>5. CASE EndIncomingError
    BY <1>a, <1>b, <2>5, EmptyQueue, NoErrors
  <2>6. CASE EndIncomingResponses
    BY <1>a, <1>b, <2>6, EmptyQueue, NoErrors
  <2> QED
    BY <2>1, <2>2, <2>3, <2>4, <2>5, <2>6
<1> QED
  BY <1>1, <1>2, <1>3, <1>4, <1>5, <1>6, <1>7, <1>8 DEF SafetyInv

LEMMA VisitingSafety ==
  TypeInv /\ SafetyInv /\ Visiting => SafetyInv'
<1> SUFFICES ASSUME TypeInv, SafetyInv, Visiting PROVE SafetyInv'
  OBVIOUS
<1>a. /\ EntityTypes /\ QuinnTypes /\ EventTypes /\ ImplTypes /\ IncomingTypes
      /\ ScheduleTypes /\ QueueTypes /\ HistoryTypes /\ Held /\ TypeOK
      /\ ObserversWait /\ QueueFits /\ VisitStays /\ HandshakeIsDone
  BY TypeParts DEF TypeInv
<1>b. /\ DespawnsAreAllowed /\ DrainedIsPassedOn /\ EndsHaveReasons /\ InOrder
      /\ EachOnce /\ LostComesLast /\ DrainedComesLast /\ NamesAreKnown
  BY DEF SafetyInv
<1> USE DEF Visiting, VisitNothing, Running, Alive, VisitDrained,
           RemoveOrDespawn, VisitOrphan, Visit, HandleTimeout, QuinnTimeout,
           Drains, EndVisit, entityVars, quinnVars, implVars, incomingVars,
           scheduleVars, historyVars
<1>1. DespawnsAreAllowed'
  BY <1>a, <1>b, VisitDrainedQueues, VisitOrphanQueues, EmptyQueue
  DEF DespawnsAreAllowed, Queued, ObserversWait, QueueFits, VisitStays, Loop,
      Removing
<1>2. DrainedIsPassedOn'
  <2> USE DEF DrainedIsPassedOn, HandleIsFree, Queued, Held, Connected,
             QueueFits, Loop
  <2>1. CASE VisitNothing
    BY <1>a, <1>b, <2>1
  <2>2. CASE VisitDrained
    BY <1>a, <1>b, <2>2, VisitDrainedQueues, EmptyQueue
  <2>3. CASE VisitOrphan
    BY <1>a, <1>b, <2>3, VisitOrphanQueues, EmptyQueue
  <2>4. CASE Visit
    BY <1>a, <1>b, <2>4, EmptyQueue
  <2>5. CASE EndVisit
    BY <1>a, <1>b, <2>5
  <2> QED
    BY <2>1, <2>2, <2>3, <2>4, <2>5
<1>3. EndsHaveReasons'
  <2> USE DEF EndsHaveReasons, Explained, Reported, Queued, QueueFits, Loop,
             LostComesLast, QuinnTypes
  <2>1. CASE VisitNothing
    BY <1>a, <1>b, <2>1
  <2>2. CASE VisitDrained
    BY <1>a, <1>b, <2>2, VisitDrainedQueues, EmptyQueue
  <2>3. CASE VisitOrphan
    BY <1>a, <1>b, <2>3, VisitOrphanQueues, EmptyQueue
  <2>4. CASE Visit
    BY <1>a, <1>b, <2>4, EmptyQueue
  <2>5. CASE EndVisit
    BY <1>a, <1>b, <2>5
  <2> QED
    BY <2>1, <2>2, <2>3, <2>4, <2>5
<1>4. EachOnce'
  <2> USE DEF EachOnce, HandshakeIsDone, Queued, Held, QueueFits, Loop, News
  <2>1. CASE VisitNothing
    BY <1>a, <1>b, <2>1
  <2>2. CASE VisitDrained
    BY <1>a, <1>b, <2>2, VisitDrainedQueues, EmptyQueue
    DEF DrainedComesLast, Removing
  <2>3. CASE VisitOrphan
    BY <1>a, <1>b, <2>3, VisitOrphanQueues, EmptyQueue
  <2>4. CASE Visit
    BY <1>a, <1>b, <2>4, EmptyQueue
  <2>5. CASE EndVisit
    BY <1>a, <1>b, <2>5
  <2> QED
    BY <2>1, <2>2, <2>3, <2>4, <2>5
<1>5. LostComesLast'
  BY <1>a, <1>b, VisitDrainedQueues, VisitOrphanQueues, EmptyQueue
  DEF LostComesLast, Queued, Held, Connected, ObserversWait, QueueFits,
      VisitStays, Loop
<1>6. DrainedComesLast'
  BY <1>a, <1>b, VisitDrainedQueues, VisitOrphanQueues, EmptyQueue
  DEF DrainedComesLast, DrainedIsPassedOn, Queued, Held, Connected,
      ObserversWait, QueueFits, VisitStays, Loop, News, Removing
<1>7. InOrder'
  BY <1>a, <1>b, VisitDrainedQueues, VisitOrphanQueues, EmptyQueue
  DEF InOrder, Queued, VisitStays, Loop, Removing
<1>8. NamesAreKnown'
  BY <1>a, <1>b, VisitDrainedQueues, VisitOrphanQueues, EmptyQueue
  DEF NamesAreKnown, Held, Connected, Queued
<1> QED
  BY <1>1, <1>2, <1>3, <1>4, <1>5, <1>6, <1>7, <1>8 DEF SafetyInv

LEMMA PollingSafety ==
  TypeInv /\ SafetyInv /\ Polling => SafetyInv'
<1> SUFFICES ASSUME TypeInv, SafetyInv, Polling PROVE SafetyInv'
  OBVIOUS
<1>a. /\ EntityTypes /\ QuinnTypes /\ EventTypes /\ ImplTypes /\ IncomingTypes
      /\ ScheduleTypes /\ QueueTypes /\ HistoryTypes /\ Held /\ TypeOK
      /\ ObserversWait /\ QueueFits /\ VisitStays /\ HandshakeIsDone
  BY TypeParts DEF TypeInv
<1>b. /\ DespawnsAreAllowed /\ DrainedIsPassedOn /\ EndsHaveReasons /\ InOrder
      /\ EachOnce /\ LostComesLast /\ DrainedComesLast /\ NamesAreKnown
  BY DEF SafetyInv
<1> USE DEF Polling, Transmit, Transmitting, Running, Alive, NewDeadline,
           TransmitBlocks, TransmitFails, PollTimeout, PollingTimeout,
           PanicTimeout, PollEndpointEvents, Poll, entityVars, quinnVars,
           implVars, incomingVars, scheduleVars, historyVars
<1>1. DespawnsAreAllowed'
  <2> USE DEF DespawnsAreAllowed, Queued, VisitStays, Loop, Removing
  <2>1. CASE Transmit
    BY <1>a, <1>b, <2>1
  <2>2. CASE TransmitBlocks
    BY <1>a, <1>b, <2>2
  <2>3. CASE TransmitFails
    BY <1>a, <1>b, <2>3, TransmitFailsQueues
  <2>4. CASE PollTimeout
    BY <1>a, <1>b, <2>4
  <2>5. CASE PanicTimeout
    BY <1>a, <1>b, <2>5
  <2>6. CASE PollEndpointEvents
    BY <1>a, <1>b, <2>6
  <2>7. CASE Poll
    BY <1>a, <1>b, <2>7, PollQueuesEach
  <2> QED
    BY <2>1, <2>2, <2>3, <2>4, <2>5, <2>6, <2>7
<1>2. DrainedIsPassedOn'
  <2> USE DEF DrainedIsPassedOn, HandleIsFree, Queued, Held, Connected,
             VisitStays, Loop
  <2>1. CASE Transmit
    BY <1>a, <1>b, <2>1
  <2>2. CASE TransmitBlocks
    BY <1>a, <1>b, <2>2
  <2>3. CASE TransmitFails
    BY <1>a, <1>b, <2>3, TransmitFailsQueues
  <2>4. CASE PollTimeout
    BY <1>a, <1>b, <2>4
  <2>5. CASE PanicTimeout
    BY <1>a, <1>b, <2>5
  <2>6. CASE PollEndpointEvents
    BY <1>a, <1>b, <2>6
  <2>7. CASE Poll
    BY <1>a, <1>b, <2>7, PollQueuesEach
  <2> QED
    BY <2>1, <2>2, <2>3, <2>4, <2>5, <2>6, <2>7
<1>3. EndsHaveReasons'
  <2> USE DEF EndsHaveReasons, Explained, Reported, Queued, VisitStays, Loop
  <2>1. CASE Transmit
    BY <1>a, <1>b, <2>1
  <2>2. CASE TransmitBlocks
    BY <1>a, <1>b, <2>2
  <2>3. CASE TransmitFails
    BY <1>a, <1>b, <2>3, TransmitFailsQueues
  <2>4. CASE PollTimeout
    BY <1>a, <1>b, <2>4
  <2>5. CASE PanicTimeout
    BY <1>a, <1>b, <2>5
  <2>6. CASE PollEndpointEvents
    BY <1>a, <1>b, <2>6
  <2>7. CASE Poll
    BY <1>a, <1>b, <2>7, PollQueuesEach
  <2> QED
    BY <2>1, <2>2, <2>3, <2>4, <2>5, <2>6, <2>7
<1>4. EachOnce'
  <2> USE DEF EachOnce, HandshakeIsDone, Queued, Held, VisitStays, Loop, News
  <2>1. CASE Transmit
    BY <1>a, <1>b, <2>1
  <2>2. CASE TransmitBlocks
    BY <1>a, <1>b, <2>2
  <2>3. CASE TransmitFails
    BY <1>a, <1>b, <2>3, TransmitFailsQueues
  <2>4. CASE PollTimeout
    BY <1>a, <1>b, <2>4
  <2>5. CASE PanicTimeout
    BY <1>a, <1>b, <2>5
  <2>6. CASE PollEndpointEvents
    BY <1>a, <1>b, <2>6
  <2>7. CASE Poll
    BY <1>a, <1>b, <2>7, PollQueuesEach DEF EventTypes, LostComesLast
  <2> QED
    BY <2>1, <2>2, <2>3, <2>4, <2>5, <2>6, <2>7
<1>5. LostComesLast'
  <2> USE DEF LostComesLast, Queued, Held, Connected, VisitStays, Loop
  <2>1. CASE Transmit
    BY <1>a, <1>b, <2>1
  <2>2. CASE TransmitBlocks
    BY <1>a, <1>b, <2>2
  <2>3. CASE TransmitFails
    BY <1>a, <1>b, <2>3, TransmitFailsQueues
  <2>4. CASE PollTimeout
    BY <1>a, <1>b, <2>4
  <2>5. CASE PanicTimeout
    BY <1>a, <1>b, <2>5
  <2>6. CASE PollEndpointEvents
    BY <1>a, <1>b, <2>6
  <2>7. CASE Poll
    BY <1>a, <1>b, <2>7, PollQueuesEach
  <2> QED
    BY <2>1, <2>2, <2>3, <2>4, <2>5, <2>6, <2>7
<1>6. DrainedComesLast'
  <2> USE DEF DrainedComesLast, DrainedIsPassedOn, Queued, Held, Connected,
             VisitStays, Loop, Removing, News
  <2>1. CASE Transmit
    BY <1>a, <1>b, <2>1
  <2>2. CASE TransmitBlocks
    BY <1>a, <1>b, <2>2
  <2>3. CASE TransmitFails
    BY <1>a, <1>b, <2>3, TransmitFailsQueues
  <2>4. CASE PollTimeout
    BY <1>a, <1>b, <2>4
  <2>5. CASE PanicTimeout
    BY <1>a, <1>b, <2>5
  <2>6. CASE PollEndpointEvents
    BY <1>a, <1>b, <2>6
  <2>7. CASE Poll
    BY <1>a, <1>b, <2>7, PollQueuesEach
  <2> QED
    BY <2>1, <2>2, <2>3, <2>4, <2>5, <2>6, <2>7
<1>7. InOrder'
  <2> USE DEF InOrder
  <2>1. CASE TransmitFails
    BY <1>a, <1>b, <2>1, TransmitFailsQueues
    DEF EachOnce, VisitStays, Loop, Held
  <2>2. CASE Poll
    <3>1. ~Queued("ConnectionDrained") /\ \A do \in Removing : ~Queued(do)
      BY <1>a, <2>2 DEF VisitStays, Loop
    <3>2. \A b \in Polled : ~Queued(b)
      BY <1>a, <1>b, <2>2 DEF Polled, EventTypes, EachOnce, LostComesLast, Loop
    <3>3. ~Queued("Lost") \/ Polled = {}
      BY <1>a, <1>b, <2>2 DEF Polled, EventTypes, LostComesLast, Loop
    <3>4. \A a, b : Queued(a) /\ b \in Polled => MayFollow(a, b)
      BY <3>1, <3>2, <3>3 DEF MayFollow, Removing
    <3> QED
      BY <1>a, <1>b, <2>2, <3>4, PollQueues DEF InOrder
  <2>3. CASE \/ Transmit \/ TransmitBlocks \/ PollTimeout \/ PanicTimeout
             \/ PollEndpointEvents
    BY <1>a, <1>b, <2>3
  <2> QED
    BY <2>1, <2>2, <2>3
<1>8. NamesAreKnown'
  <2> USE DEF NamesAreKnown, Connected
  <2>1. CASE TransmitFails
    BY <1>a, <1>b, <2>1, TransmitFailsQueues DEF VisitStays, Loop, Name
  <2>2. CASE Poll
    BY <1>a, <1>b, <2>2, PollQueues DEF VisitStays, Loop, Name
  <2>3. CASE \/ Transmit \/ TransmitBlocks \/ PollTimeout \/ PanicTimeout
             \/ PollEndpointEvents
    BY <1>a, <1>b, <2>3
  <2> QED
    BY <2>1, <2>2, <2>3
<1> QED
  BY <1>1, <1>2, <1>3, <1>4, <1>5, <1>6, <1>7, <1>8 DEF SafetyInv

LEMMA ApplyingCommandsSafety ==
  TypeInv /\ SafetyInv /\ ApplyingCommands => SafetyInv'
<1> SUFFICES ASSUME TypeInv, SafetyInv, ApplyingCommands PROVE SafetyInv'
  OBVIOUS
<1>a. /\ EntityTypes /\ QuinnTypes /\ EventTypes /\ ImplTypes /\ IncomingTypes
      /\ ScheduleTypes /\ QueueTypes /\ HistoryTypes /\ Held /\ TypeOK
      /\ ObserversWait /\ QueueFits /\ VisitStays /\ HandshakeIsDone
  BY TypeParts DEF TypeInv
<1>b. /\ DespawnsAreAllowed /\ DrainedIsPassedOn /\ EndsHaveReasons /\ InOrder
      /\ EachOnce /\ LostComesLast /\ DrainedComesLast /\ NamesAreKnown
  BY DEF SafetyInv
<1> USE DEF ApplyingCommands, ApplyTrigger, Apply, Applying, Running, Alive,
           KeepConnection, ApplyEstablish, ApplyRemove, DropConnection,
           ApplyDespawn, EndFrame, entityVars, quinnVars, implVars,
           incomingVars, scheduleVars, historyVars
<1>1. DespawnsAreAllowed'
  BY <1>a, <1>b, ApplyQueues, EmptyQueue
  DEF DespawnsAreAllowed, Queued, ObserversWait, QueueFits, VisitStays, Loop,
      Removing
<1>2. DrainedIsPassedOn'
  <2> USE DEF DrainedIsPassedOn, HandleIsFree, Queued, Held, Connected
  <2>1. CASE ApplyTrigger
    <3>1. PICK news \in News \ {"ConnectionEstablished"} :
            Apply(news) /\ told' = told \cup {news}
      BY <2>1
    <3>2. /\ \A d : Queued(d) <=> Queued(d)' \/ d = news
          /\ Ordered(commands) => \A d : Queued(d)' => MayFollow(news, d)
      BY <1>a, <3>1, ApplyQueues
    <3> QED
      BY <1>a, <1>b, <2>1, <3>1, <3>2
  <2>2. CASE ApplyEstablish
    BY <1>a, <1>b, <2>2, ApplyQueues
  <2>3. CASE ApplyRemove
    BY <1>a, <1>b, <2>3, ApplyQueues
  <2>4. CASE ApplyDespawn
    BY <1>a, <1>b, <2>4, ApplyQueues
  <2>5. CASE EndFrame
    BY <1>a, <1>b, <2>5, EmptyQueue
  <2> QED
    BY <2>1, <2>2, <2>3, <2>4, <2>5
<1>3. EndsHaveReasons'
  BY <1>a, <1>b, ApplyQueues, EmptyQueue
  DEF EndsHaveReasons, Explained, Reported, Queued, Held, Connected,
      ObserversWait, QueueFits, VisitStays, Loop, DrainedIsPassedOn
<1>4. EachOnce'
  <2> USE DEF EachOnce, HandshakeIsDone, Queued, Held, Connected, News, InOrder,
             MayFollow
  <2>1. CASE ApplyTrigger
    BY <1>a, <1>b, <2>1, ApplyQueues
  <2>2. CASE ApplyEstablish
    BY <1>a, <1>b, <2>2, ApplyQueues
  <2>3. CASE ApplyRemove
    BY <1>a, <1>b, <2>3, ApplyQueues
  <2>4. CASE ApplyDespawn
    BY <1>a, <1>b, <2>4, ApplyQueues
  <2>5. CASE EndFrame
    BY <1>a, <1>b, <2>5, EmptyQueue
  <2> QED
    BY <2>1, <2>2, <2>3, <2>4, <2>5
<1>5. LostComesLast'
  <2> USE DEF LostComesLast, Queued, Held, Connected, Loop, InOrder, MayFollow
  <2>1. CASE ApplyTrigger
    BY <1>a, <1>b, <2>1, ApplyQueues
  <2>2. CASE ApplyEstablish
    BY <1>a, <1>b, <2>2, ApplyQueues
  <2>3. CASE ApplyRemove
    BY <1>a, <1>b, <2>3, ApplyQueues
  <2>4. CASE ApplyDespawn
    BY <1>a, <1>b, <2>4, ApplyQueues
  <2>5. CASE EndFrame
    BY <1>a, <1>b, <2>5, EmptyQueue
  <2> QED
    BY <2>1, <2>2, <2>3, <2>4, <2>5
<1>6. DrainedComesLast'
  <2> USE DEF DrainedComesLast, DrainedIsPassedOn, Queued, Held, Connected,
             Removing, News
  <2>1. CASE ApplyTrigger
    <3>1. PICK news \in News \ {"ConnectionEstablished"} :
            Apply(news) /\ told' = told \cup {news}
      BY <2>1
    <3>2. /\ \A d : Queued(d) <=> Queued(d)' \/ d = news
          /\ Ordered(commands) => \A d : Queued(d)' => MayFollow(news, d)
      BY <1>a, <3>1, ApplyQueues
    <3> QED
      BY <1>a, <1>b, <2>1, <3>1, <3>2 DEF InOrder, MayFollow
  <2>2. CASE ApplyEstablish
    BY <1>a, <1>b, <2>2, ApplyQueues
  <2>3. CASE ApplyRemove
    BY <1>a, <1>b, <2>3, ApplyQueues
  <2>4. CASE ApplyDespawn
    BY <1>a, <1>b, <2>4, ApplyQueues
  <2>5. CASE EndFrame
    BY <1>a, <1>b, <2>5, EmptyQueue
  <2> QED
    BY <2>1, <2>2, <2>3, <2>4, <2>5
<1>7. InOrder'
  BY <1>a, <1>b, ApplyQueues, EmptyQueue
  DEF InOrder, Queued, VisitStays, Loop, Removing
<1>8. NamesAreKnown'
  <2> USE DEF NamesAreKnown, Connected
  <2>1. CASE ApplyTrigger
    BY <1>a, <1>b, <2>1, ApplyQueues
  <2>2. CASE ApplyEstablish
    BY <1>a, <1>b, <2>2, ApplyQueues
  <2>3. CASE ApplyRemove
    BY <1>a, <1>b, <2>3, ApplyQueues
  <2>4. CASE ApplyDespawn
    BY <1>a, <1>b, <2>4, ApplyQueues
  <2>5. CASE EndFrame
    BY <1>a, <1>b, <2>5, EmptyQueue, NoErrors
  <2> QED
    BY <2>1, <2>2, <2>3, <2>4, <2>5
<1> QED
  BY <1>1, <1>2, <1>3, <1>4, <1>5, <1>6, <1>7, <1>8 DEF SafetyInv

LEMMA PassingSafety ==
  TypeInv /\ SafetyInv /\ Passing => SafetyInv'
<1> SUFFICES ASSUME TypeInv, SafetyInv, Passing PROVE SafetyInv'
  OBVIOUS
<1>a. /\ EntityTypes /\ QuinnTypes /\ EventTypes /\ ImplTypes /\ IncomingTypes
      /\ ScheduleTypes /\ QueueTypes /\ HistoryTypes /\ Held /\ TypeOK
      /\ ObserversWait /\ QueueFits /\ VisitStays /\ HandshakeIsDone
  BY TypeParts DEF TypeInv
<1>b. /\ DespawnsAreAllowed /\ DrainedIsPassedOn /\ EndsHaveReasons /\ InOrder
      /\ EachOnce /\ LostComesLast /\ DrainedComesLast /\ NamesAreKnown
  BY DEF SafetyInv
<1> USE DEF Passing, EndPollEndpoints, Running, Alive, EndUpdate,
           ObserverReturns, DeadlinePasses, Between, TimerElapses, vars,
           entityVars, quinnVars, implVars, incomingVars, scheduleVars,
           historyVars
<1>1. DespawnsAreAllowed'
  BY <1>a, <1>b, EmptyQueue
  DEF DespawnsAreAllowed, Queued, ObserversWait, QueueFits, VisitStays, Loop,
      Removing
<1>2. DrainedIsPassedOn'
  <2> USE DEF DrainedIsPassedOn, HandleIsFree, Queued
  <2>1. CASE EndPollEndpoints
    BY <1>a, <1>b, <2>1
  <2>2. CASE EndUpdate
    BY <1>a, <1>b, <2>2
  <2>3. CASE ObserverReturns
    BY <1>a, <1>b, <2>3
  <2>4. CASE DeadlinePasses
    BY <1>a, <1>b, <2>4
  <2>5. CASE TimerElapses
    BY <1>a, <1>b, <2>5
  <2>6. CASE UNCHANGED vars
    BY <1>a, <1>b, <2>6
  <2> QED
    BY <2>1, <2>2, <2>3, <2>4, <2>5, <2>6
<1>3. EndsHaveReasons'
  BY <1>a, <1>b, EmptyQueue
  DEF EndsHaveReasons, Explained, Reported, Queued, Held, Connected,
      ObserversWait, QueueFits, VisitStays, Loop, DrainedIsPassedOn
<1>4. EachOnce'
  BY <1>a, <1>b, EmptyQueue
  DEF EachOnce, News, Queued, Held, Connected, ObserversWait, QueueFits,
      VisitStays, Loop, HandshakeIsDone
<1>5. LostComesLast'
  BY <1>a, <1>b, EmptyQueue
  DEF LostComesLast, Queued, Held, Connected, ObserversWait, QueueFits,
      VisitStays, Loop
<1>6. DrainedComesLast'
  BY <1>a, <1>b, EmptyQueue
  DEF DrainedComesLast, DrainedIsPassedOn, Queued, Held, Connected,
      ObserversWait, QueueFits, VisitStays, Loop, News, Removing
<1>7. InOrder'
  BY <1>a, <1>b, EmptyQueue DEF InOrder, Queued, VisitStays, Loop, Removing
<1>8. NamesAreKnown'
  BY <1>a, <1>b, EmptyQueue DEF NamesAreKnown, Held, Connected, Queued
<1> QED
  BY <1>1, <1>2, <1>3, <1>4, <1>5, <1>6, <1>7, <1>8 DEF SafetyInv

-----------------------------------------------------------------------------
(* The invariant, and the properties *)

LEMMA InitType == Init => TypeInv
<1> SUFFICES ASSUME Init PROVE TypeInv
  OBVIOUS
<1>1. /\ EntityTypes /\ QuinnTypes /\ EventTypes /\ ImplTypes /\ ScheduleTypes
      /\ HistoryTypes /\ Held
  BY DEF Init, EntityTypes, QuinnTypes, EventTypes, ImplTypes, ScheduleTypes,
         HistoryTypes, Held, Connected, Stages
<1>2. IncomingTypes /\ QueueTypes
  BY NoCommand, EmptySeq DEF Init, IncomingTypes, QueueTypes
<1>3. ObserversWait /\ QueueFits /\ VisitStays
  BY DEF Init, ObserversWait, QueueFits, VisitStays, Loop
<1>4. HandshakeIsDone
  BY NoCommand DEF Init, HandshakeIsDone, Queued
<1> QED
  BY <1>1, <1>2, <1>3, <1>4, TypeParts DEF TypeInv

LEMMA InitSafety == Init => SafetyInv
<1> SUFFICES ASSUME Init PROVE SafetyInv
  OBVIOUS
<1>1. commands = <<>> /\ told = {} /\ events = {} /\ state = "none"
      /\ io_error = FALSE /\ deadline = "none"
  BY DEF Init
<1>2. InOrder /\ \A do : ~Queued(do)
  BY <1>1, NoCommand DEF InOrder, Queued
<1>3. NamesAreKnown
  BY <1>2, NoErrors DEF NamesAreKnown
<1>4. DespawnsAreAllowed /\ DrainedIsPassedOn /\ EndsHaveReasons
  BY <1>1, <1>2 DEF DespawnsAreAllowed, DrainedIsPassedOn, EndsHaveReasons
<1>5. EachOnce /\ LostComesLast /\ DrainedComesLast
  BY <1>1, <1>2 DEF EachOnce, LostComesLast, DrainedComesLast
<1> QED
  BY <1>2, <1>3, <1>4, <1>5 DEF SafetyInv

LEMMA NextType == TypeInv /\ [Next]_vars => TypeInv'
BY NextParts, PollEndpointsType, ApplicationStepType, HandleIncomingResponsesType,
   VisitingType, PollingType, ApplyingCommandsType, PassingType

LEMMA NextSafety == TypeInv /\ SafetyInv /\ [Next]_vars => SafetyInv'
BY NextParts, PollEndpointsSafety, ApplicationStepSafety,
   HandleIncomingResponsesSafety, VisitingSafety, PollingSafety,
   ApplyingCommandsSafety, PassingSafety

\* The inductive invariant holds, in every state of every behavior.
THEOREM InvariantHolds == Spec => [](TypeInv /\ SafetyInv)
<1>1. Init => TypeInv /\ SafetyInv
  BY InitType, InitSafety
<1>2. TypeInv /\ SafetyInv /\ [Next]_vars => TypeInv' /\ SafetyInv'
  BY NextType, NextSafety
<1> QED
  BY <1>1, <1>2, PTL DEF Spec

\* Type correctness; a Connection has completed its handshake, and nothing but
\* its component holds quinn's connection (connection.rs:527, 658).
THEOREM LifecycleIsTyped == Spec => []TypeOK
<1>1. TypeInv => TypeOK
  BY DEF TypeInv
<1> QED
  BY <1>1, InvariantHolds, PTL

LEMMA HeadIsQueued ==
  ASSUME TypeOK, NEW news, AboutToTell(news)
  PROVE  Queued(news)
<1>1. commands \in Seq(Commands) /\ commands # <<>> /\ Head(commands).do = news
  BY DEF TypeOK, AboutToTell, Applying
<1> QED
  BY <1>1, TailCommands DEF Queued

\* Observers are told everything once, nothing after ConnectionDrained, and after
\* the loss of the connection only that the socket failed or that it has drained
\* (connection.rs:749, 832-862).
THEOREM ObserversAreToldInOrder == Spec => []ToldInOrder
<1>1. TypeInv /\ SafetyInv => ToldInOrder
  <2> SUFFICES ASSUME TypeInv, SafetyInv, NEW news \in News, AboutToTell(news)
               PROVE  /\ news \notin told
                      /\ "ConnectionDrained" \notin told
                      /\ "Lost" \in told =>
                           news \in {"IoError", "ConnectionDrained"}
    BY DEF ToldInOrder
  <2>1. Queued(news)
    BY HeadIsQueued DEF TypeInv
  <2>2. news \notin told
    BY <2>1 DEF SafetyInv, EachOnce
  <2>3. "ConnectionDrained" \notin told
    BY <2>1 DEF SafetyInv, DrainedComesLast
  <2>4. "Lost" \in told =>
          news \notin {"HandshakeDataReady", "ConnectionEstablished"}
    BY <2>1 DEF SafetyInv, LostComesLast
  <2> QED
    BY <2>2, <2>3, <2>4 DEF News
<1> QED
  BY <1>1, InvariantHolds, PTL

\* A connection that has drained was reported lost or failed before, unless the
\* application closed it or a datagram drained it at once (connection.rs:747,
\* 775, 852).
THEOREM EveryEndIsExplained == Spec => []EndsAreExplained
<1>1. SafetyInv => EndsAreExplained
  BY DEF SafetyInv, EndsHaveReasons, Explained, EndsAreExplained
<1> QED
  BY <1>1, InvariantHolds, PTL

\* When observers hear that a connection has drained, quinn has its handle back,
\* unless a datagram drained it at once (connection.rs:747, 828-831).
THEOREM HandlesOfDrainedAreFree == Spec => []DrainedHandlesAreFree
<1>1. SafetyInv => DrainedHandlesAreFree
  BY DEF SafetyInv, DrainedIsPassedOn, HandleIsFree, DrainedHandlesAreFree
<1> QED
  BY <1>1, InvariantHolds, PTL

\* An error is told under the name of the component the observers find, or of the
\* one they would have found a frame ago (connection.rs:744, 811-816, 852-857).
THEOREM ErrorsAreWellNamed == Spec => []ErrorsAreOneFrameStale
<1>1. TypeInv /\ SafetyInv => ErrorsAreOneFrameStale
  <2> SUFFICES ASSUME TypeInv, SafetyInv, NEW news \in Errors,
                      AboutToTell(news), Connected, ~fresh
               PROVE  Head(commands).to = comp
    BY DEF ErrorsAreOneFrameStale, Errors, TypeInv, TypeOK
  <2>1. commands \in Seq(Commands) /\ commands # <<>> /\ Head(commands).do = news
    BY DEF TypeInv, TypeOK, AboutToTell, Applying
  <2>2. Named(commands, comp)
    BY DEF SafetyInv, NamesAreKnown
  <2> QED
    BY <2>1, <2>2, TailCommands
<1> QED
  BY <1>1, InvariantHolds, PTL

\* A step after which the entity is gone, between the observers and the systems of
\* the application, is one of the library's three that despawn.
LEMMA WhoDespawns ==
  ASSUME TypeInv, [Next]_vars, ~observing, pc # "Update",
         comp # "gone", comp' = "gone"
  PROVE  Refuse \/ EndIncomingError \/ ApplyDespawn
<1>1. ~ApplicationStep
  <2> SUFFICES ASSUME ApplicationStep PROVE FALSE
    OBVIOUS
  <2> QED
    BY DEF ApplicationStep, Connect, Close, Send, SetKeepAlive, Remove,
           RemoveEndpoint, Respond, Application
<1>2. CASE PollEndpoints
  BY <1>2 DEF PollEndpoints, IncomingArrives, HandshakeArrives, HandshakeCompletes,
              DataArrives, CloseArrives, ResetArrives, HandleEvent, entityVars
<1>3. CASE HandleIncomingResponses
  BY <1>3 DEF HandleIncomingResponses, RespondInVain, Accept, RespondFails,
              EndIncomingResponses, entityVars
<1>4. CASE Visiting
  BY <1>4 DEF Visiting, VisitNothing, VisitDrained, VisitOrphan, Visit, EndVisit,
              entityVars
<1>5. CASE Polling
  BY <1>5 DEF Polling, Transmit, TransmitBlocks, TransmitFails, Transmitting,
              PollTimeout, PanicTimeout, PollingTimeout, PollEndpointEvents, Poll,
              entityVars
<1>6. CASE ApplyingCommands
  BY <1>6 DEF ApplyingCommands, ApplyTrigger, ApplyEstablish, ApplyRemove, EndFrame,
              entityVars
<1>7. CASE Passing
  BY <1>7 DEF Passing, EndPollEndpoints, EndUpdate, ObserverReturns, DeadlinePasses,
              TimerElapses, vars, entityVars
<1> QED
  BY <1>1, <1>2, <1>3, <1>4, <1>5, <1>6, <1>7, NextParts

\* The library despawns an entity with a KeepAlive only if that was put on after
\* poll_connections read that there was none (lib.rs:38, 49-54;
\* incoming.rs:254-268).
THEOREM KeepAliveHolds == Spec => KeepAliveIsHonoured
<1> DEFINE Honoured ==
             (~observing /\ pc # "Update" /\ comp # "gone" /\ comp' = "gone")
               => ~keepalive \/ lateKeep
<1>1. TypeInv /\ SafetyInv /\ [Next]_vars => [Honoured]_vars
  <2> SUFFICES ASSUME TypeInv, SafetyInv, [Next]_vars, ~observing, pc # "Update",
                      comp # "gone", comp' = "gone"
               PROVE  ~keepalive \/ lateKeep
    OBVIOUS
  <2>1. CASE Refuse
    BY <2>1 DEF Refuse, IncomingEnds
  <2>2. CASE EndIncomingError
    BY <2>2 DEF EndIncomingError
  <2>3. CASE ApplyDespawn
    <3>1. Queued("despawn")
      BY <2>3, ApplyQueues DEF ApplyDespawn, TypeInv
    <3> QED
      BY <3>1 DEF SafetyInv, DespawnsAreAllowed
  <2> QED
    BY <2>1, <2>2, <2>3, WhoDespawns
<1> QED
  BY <1>1, InvariantHolds, PTL DEF Spec, KeepAliveIsHonoured

\* A response for an entity whose connection an earlier one has made, in the same
\* frame or before, leaves the connection alone (incoming.rs:208-212).
THEOREM ConnectionsAreSpared == Spec => ResponsesSpareConnections
<1> DEFINE Spared == (reading' # reading /\ Connected) => comp' = comp
<1>1. [Next]_vars => [Spared]_vars
  <2> SUFFICES ASSUME [Next]_vars, reading' # reading, Connected PROVE comp' = comp
    OBVIOUS
  <2>1. CASE PollEndpoints
    BY <2>1 DEF PollEndpoints, IncomingArrives, HandshakeArrives, HandshakeCompletes,
                DataArrives, CloseArrives, ResetArrives, HandleEvent, incomingVars
  <2>2. CASE ApplicationStep
    BY <2>2 DEF ApplicationStep, Connect, Close, Send, SetKeepAlive, Remove,
                RemoveEndpoint, Respond, incomingVars
  <2>3. CASE HandleIncomingResponses
    BY <2>3 DEF HandleIncomingResponses, RespondInVain, Refuse, Accept, RespondFails,
                EndIncomingError, EndIncomingResponses, Connected, incomingVars
  <2>4. CASE Visiting
    BY <2>4 DEF Visiting, VisitNothing, VisitDrained, VisitOrphan, Visit, EndVisit,
                incomingVars
  <2>5. CASE Polling
    BY <2>5 DEF Polling, Transmit, TransmitBlocks, TransmitFails, Transmitting,
                PollTimeout, PanicTimeout, PollingTimeout, PollEndpointEvents, Poll,
                incomingVars
  <2>6. CASE ApplyingCommands
    BY <2>6 DEF ApplyingCommands, ApplyTrigger, ApplyEstablish, ApplyRemove,
                ApplyDespawn, Apply, EndFrame, incomingVars
  <2>7. CASE Passing
    BY <2>7 DEF Passing, EndPollEndpoints, EndUpdate, ObserverReturns, DeadlinePasses,
                TimerElapses, vars, entityVars, incomingVars
  <2> QED
    BY <2>1, <2>2, <2>3, <2>4, <2>5, <2>6, <2>7, NextParts
<1> QED
  BY <1>1, PTL DEF Spec, ResponsesSpareConnections

=============================================================================
