----------------------- MODULE EndpointOwnership_proofs -----------------------
(***************************************************************************)
(* Theorems about EndpointRouting for applications that do insert          *)
(* connections over others and move Endpoints.  NeverUnmapped does not     *)
(* hold for them, but while the schedule goes on every event still comes   *)
(* to the connection it is for, and every connection keeps its handle.     *)
(***************************************************************************)
EXTENDS EndpointRouting_proofs

\* What the theorems are about: nothing acts between two systems of a frame, no
\* connection is taken off its entity to be put back, and no second Endpoint
\* comes to where the connections of a first one look for theirs.
Plain == Uses \cap {"observer", "take", "replace"} = {}

-----------------------------------------------------------------------------
(* The inductive invariant *)

\* The command is among the deferred ones.
Queued(do, e) == \E i \in DOMAIN commands : commands[i] = Command(do, e)

\* The events in g's channel.
Waiting(g) == {receiver[g][i] : i \in DOMAIN receiver[g]}

\* A drained connection that poll_connections, when it comes next, is to take
\* off entity e: its handle may be another connection's by now.
Leaving(e) ==
    /\ comp[e] \in drained
    /\ \/ pc \in {"Update", "handle_incoming_responses"}
       \/ pc = "poll_connections" /\ (e \in todo \/ Queued("remove", e))
       \/ pc = "connection_commands" /\ Queued("remove", e)

\* poll_endpoints has been through g's channel since a handle was last freed.
CaughtUp(g) ==
    /\ pc \notin {"poll_connections", "connection_commands"}
    /\ pc = "poll_endpoints" => g \notin todo

\* c looks for its Endpoint where g is.
Of(c, g) == chost[c] # None /\ host[g] = chost[c]

NobodyObserves == ~observing

\* An entity that has carried an Endpoint is never fresh again.
HostsAreTaken ==
    /\ \A g \in Endpoints : host[g] # None => host[g] \in hosted
    /\ \A c \in Conns : chost[c] # None => chost[c] \in hosted /\ handle[c] \in Handles

DroppedIsEmpty == \A g \in Endpoints : host[g] = None => Waiting(g) = {}

\* Only a connection that an endpoint has made is anywhere.
AllAreMade ==
    /\ \A c \in held \cup onWire \cup drained : chost[c] # None
    /\ \A e \in Entities : comp[e] # None => chost[comp[e]] # None

\* A connection the application has not inserted yet has done nothing.
HeldIsFresh ==
    /\ \A c \in held : c \notin onWire /\ c \notin drained
    /\ \A e \in Entities : comp[e] \notin held

OneEntityEach ==
    \A e, f \in Entities : comp[e] # None /\ comp[e] = comp[f] => e = f

\* A connection has its handle, while the application holds it ...
HeldOwns ==
    \A c \in held, g \in Endpoints : Of(c, g) => slab[g][handle[c]] = c

\* ... and on an entity, until it drains.
PresentOwns ==
    \A e \in Entities, g \in Endpoints :
      comp[e] # None /\ comp[e] \notin drained /\ Of(comp[e], g)
        => slab[g][handle[comp[e]]] = comp[e]

\* A drained one's handle is nobody else's before it is leaving.
SuccessorWaits ==
    \A e \in Entities, g \in Endpoints :
      comp[e] # None /\ Of(comp[e], g) /\ ~Leaving(e)
        => slab[g][handle[comp[e]]] \in {None, comp[e]}

WaitingIsOnWire == \A g \in Endpoints : \A v \in Waiting(g) : v.conn \in onWire

\* The handle of a queued event is its connection's or free, and free only
\* until poll_endpoints has been through the channel.
WaitingIsOwned ==
    \A g \in Endpoints : \A v \in Waiting(g) :
      \/ slab[g][v.handle] = v.conn
      \/ slab[g][v.handle] = None /\ ~CaughtUp(g)

\* Events with the handle of the connection on an entity are that connection's.
WaitingIsForIt ==
    \A e \in Entities, g \in Endpoints :
      comp[e] # None /\ Of(comp[e], g) /\ ~Leaving(e)
        => \A v \in Waiting(g) : v.handle = handle[comp[e]] => v.conn = comp[e]

\* poll_connections visits an entity once, and queues one of the two or none.
VisitedOnce ==
    \A e \in Entities :
      /\ Queued("establish", e) \/ Queued("remove", e)
           => pc \in {"poll_connections", "connection_commands"}
      /\ pc = "poll_connections" /\ e \in todo
           => ~Queued("establish", e) /\ ~Queued("remove", e)
      /\ ~(Queued("establish", e) /\ Queued("remove", e))

OwnershipInv ==
    /\ NobodyObserves
    /\ OneEndpointPerHost
    /\ HostsAreTaken
    /\ DroppedIsEmpty
    /\ AllAreMade
    /\ HeldIsFresh
    /\ OneEntityEach
    /\ HeldOwns
    /\ PresentOwns
    /\ SuccessorWaits
    /\ WaitingIsOnWire
    /\ WaitingIsOwned
    /\ WaitingIsForIt
    /\ VisitedOnce
    /\ RoutesLeadHome

-----------------------------------------------------------------------------
(* Channels and deferred commands *)

LEMMA WaitingAreEvents ==
  ASSUME TypeInv, NEW g \in Endpoints
  PROVE  \A v \in Waiting(g) : v.handle \in Handles /\ v.conn \in Conns
<1>1. receiver[g] \in Seq(Events)
  BY DEF TypeInv, TypeOK
<1>2. Waiting(g) \subseteq Events
  BY <1>1 DEF Waiting
<1> QED BY <1>2 DEF Events

LEMMA HeadWaits ==
  ASSUME TypeInv, NEW g \in Endpoints, Receiving(g)
  PROVE  /\ Head(receiver[g]) \in Waiting(g)
         /\ pc = "poll_endpoints" /\ g \in todo
<1>1. receiver[g] \in Seq(Events) /\ receiver[g] # <<>>
  BY DEF TypeInv, TypeOK, Receiving
<1>2. 1 \in DOMAIN receiver[g] /\ Head(receiver[g]) = receiver[g][1]
  BY <1>1
<1>3. locked # None
  BY RoutingAssumption DEF Receiving
<1> QED BY <1>2, <1>3 DEF Waiting, Receiving, Running, TypeInv, StageInv

LEMMA WaitingTail ==
  ASSUME TypeInv, NEW g \in Endpoints, Receiving(g),
         receiver' = [receiver EXCEPT ![g] = Tail(@)]
  PROVE  \A k \in Endpoints : Waiting(k)' \subseteq Waiting(k)
<1> SUFFICES ASSUME NEW k \in Endpoints, NEW i \in DOMAIN receiver'[k]
             PROVE  \E j \in DOMAIN receiver[k] : receiver[k][j] = receiver'[k][i]
  BY DEF Waiting
<1>1. receiver \in [Endpoints -> Seq(Events)] /\ receiver[g] # <<>>
  BY DEF TypeInv, TypeOK, Receiving
<1>2. CASE k = g
  <2>1. receiver[g] \in Seq(Events) /\ receiver'[k] = Tail(receiver[g])
    BY <1>1, <1>2
  <2>2. i + 1 \in DOMAIN receiver[g] /\ receiver'[k][i] = receiver[g][i + 1]
    BY <1>1, <2>1
  <2> QED BY <1>2, <2>2
<1>3. CASE k # g
  BY <1>1, <1>3
<1> QED BY <1>2, <1>3

LEMMA WaitingMore ==
  ASSUME TypeInv, NEW g \in Endpoints, NEW v \in Events,
         receiver' = [receiver EXCEPT ![g] = Append(@, v)]
  PROVE  \A k \in Endpoints :
           Waiting(k)' \subseteq IF k = g THEN Waiting(g) \cup {v} ELSE Waiting(k)
<1> SUFFICES ASSUME NEW k \in Endpoints, NEW i \in DOMAIN receiver'[k]
             PROVE  \/ \E j \in DOMAIN receiver[k] : receiver[k][j] = receiver'[k][i]
                    \/ k = g /\ receiver'[k][i] = v
  BY DEF Waiting
<1>1. receiver \in [Endpoints -> Seq(Events)]
  BY DEF TypeInv, TypeOK
<1>2. CASE k = g
  <2>1. receiver[g] \in Seq(Events) /\ receiver'[k] = Append(receiver[g], v)
    BY <1>1, <1>2
  <2>2. \/ i \in DOMAIN receiver[g] /\ receiver'[k][i] = receiver[g][i]
        \/ receiver'[k][i] = v
    BY <2>1
  <2> QED BY <1>2, <2>2
<1>3. CASE k # g
  BY <1>1, <1>3
<1> QED BY <1>2, <1>3

\* Applying a command: the others are still there, and no new one.
LEMMA QueuedTail ==
  ASSUME TypeInv, NEW d, Applying(d)
  PROVE  \A do, e :
           /\ Queued(do, e)' => Queued(do, e)
           /\ Queued(do, e) /\ Head(commands) # Command(do, e) => Queued(do, e)'
           /\ Head(commands) = Command(do, e) => Queued(do, e)
<1> SUFFICES ASSUME NEW do, NEW e
             PROVE  /\ Queued(do, e)' => Queued(do, e)
                    /\ Queued(do, e) /\ Head(commands) # Command(do, e)
                         => Queued(do, e)'
                    /\ Head(commands) = Command(do, e) => Queued(do, e)
  OBVIOUS
<1> DEFINE it == Command(do, e)
<1>1. commands \in Seq(Commands) /\ commands # <<>> /\ commands' = Tail(commands)
  BY DEF TypeInv, TypeOK, Applying
<1>2. \A i \in DOMAIN commands' :
        i + 1 \in DOMAIN commands /\ commands'[i] = commands[i + 1]
  BY <1>1
<1>3. \A i \in DOMAIN commands :
        i = 1 \/ (i - 1 \in DOMAIN commands' /\ commands'[i - 1] = commands[i])
  BY <1>1
<1>4. 1 \in DOMAIN commands /\ Head(commands) = commands[1]
  BY <1>1
<1>5. Command(do, e)' = it
  BY DEF Command
<1>6. Queued(do, e)' <=> \E i \in DOMAIN commands' : commands'[i] = it
  BY <1>5 DEF Queued
<1>7. Queued(do, e) <=> \E i \in DOMAIN commands : commands[i] = it
  BY DEF Queued
<1> HIDE DEF it
<1>8. /\ Queued(do, e)' => Queued(do, e)
      /\ Queued(do, e) /\ Head(commands) # it => Queued(do, e)'
      /\ Head(commands) = it => Queued(do, e)
  BY <1>2, <1>3, <1>4, <1>6, <1>7
<1> QED BY <1>8 DEF it

LEMMA QueuedConcat ==
  ASSUME TypeInv, NEW more \in Seq(Commands), commands' = commands \o more
  PROVE  \A do, e :
           Queued(do, e)' <=>
             (Queued(do, e) \/ \E i \in DOMAIN more : more[i] = Command(do, e))
<1> SUFFICES ASSUME NEW do, NEW e
             PROVE  Queued(do, e)' <=>
                      (Queued(do, e) \/
                       \E i \in DOMAIN more : more[i] = Command(do, e))
  OBVIOUS
<1> DEFINE it == Command(do, e)
<1>1. commands \in Seq(Commands)
  BY DEF TypeInv, TypeOK
<1>2. \A i \in DOMAIN commands :
        i \in DOMAIN commands' /\ commands'[i] = commands[i]
  BY <1>1
<1>3. \A i \in DOMAIN more :
        Len(commands) + i \in DOMAIN commands'
          /\ commands'[Len(commands) + i] = more[i]
  BY <1>1
<1>4. \A i \in DOMAIN commands' :
        \/ i \in DOMAIN commands /\ commands'[i] = commands[i]
        \/ i - Len(commands) \in DOMAIN more
             /\ commands'[i] = more[i - Len(commands)]
  BY <1>1
<1>5. Command(do, e)' = it
  BY DEF Command
<1>6. Queued(do, e)' <=> \E i \in DOMAIN commands' : commands'[i] = it
  BY <1>5 DEF Queued
<1>7. Queued(do, e) <=> \E i \in DOMAIN commands : commands[i] = it
  BY DEF Queued
<1> HIDE DEF it
<1>8. ASSUME Queued(do, e)'
      PROVE  Queued(do, e) \/ \E i \in DOMAIN more : more[i] = it
  <2>1. PICK i \in DOMAIN commands' : commands'[i] = it
    BY <1>6, <1>8
  <2> QED BY <1>4, <1>7, <2>1
<1>9. ASSUME NEW i \in DOMAIN more, more[i] = it PROVE Queued(do, e)'
  BY <1>3, <1>6, <1>9
<1>10. Queued(do, e) => Queued(do, e)'
  BY <1>2, <1>6, <1>7
<1> QED BY <1>8, <1>9, <1>10 DEF it

\* What each system's run queues, about removing and establishing.
LEMMA QueuedByEndpoints ==
  ASSUME TypeInv, NEW g \in Endpoints, host[g] \in Hosts,
         \/ commands' = Append(commands, Command("trigger", host[g]))
         \/ commands' = commands \o <<Command("trigger", host[g]),
                                      Command("remove_endpoint", host[g])>>
  PROVE  \A do \in {"establish", "remove"} : \A e : Queued(do, e)' <=> Queued(do, e)
<1> DEFINE t == Command("trigger", host[g])
           r == Command("remove_endpoint", host[g])
<1>1. t \in Commands /\ r \in Commands
  BY DEF Command, Commands
<1>2. \A do \in {"establish", "remove"} : \A e :
        Command(do, e) # t /\ Command(do, e) # r
  BY DEF Command
<1>3. commands \in Seq(Commands)
  BY DEF TypeInv, TypeOK
<1> HIDE DEF t, r
<1>4. CASE commands' = Append(commands, t)
  <2>1. commands' = commands \o <<t>> /\ <<t>> \in Seq(Commands)
    BY <1>1, <1>3, <1>4
  <2>2. \A i \in DOMAIN <<t>> : <<t>>[i] = t
    OBVIOUS
  <2>3. \A do, f : Queued(do, f)' <=>
          (Queued(do, f) \/ \E i \in DOMAIN <<t>> : <<t>>[i] = Command(do, f))
    BY <2>1, QueuedConcat
  <2> QED BY <1>2, <2>2, <2>3
<1>5. CASE commands' = commands \o <<t, r>>
  <2>1. <<t, r>> \in Seq(Commands)
    BY <1>1
  <2>2. \A i \in DOMAIN <<t, r>> : <<t, r>>[i] \in {t, r}
    OBVIOUS
  <2>3. \A do, f : Queued(do, f)' <=>
          (Queued(do, f) \/ \E i \in DOMAIN <<t, r>> : <<t, r>>[i] = Command(do, f))
    BY <1>5, <2>1, QueuedConcat
  <2> QED BY <1>2, <2>2, <2>3
<1> QED BY <1>4, <1>5 DEF t, r

LEMMA QueuedByDrained ==
  ASSUME TypeInv, NEW e \in Entities,
         \/ commands' = commands \o <<Command("trigger", e), Command("remove", e)>>
         \/ commands' = Append(commands, Command("remove", e))
  PROVE  /\ \A f : Queued("remove", f)' <=> (Queued("remove", f) \/ f = e)
         /\ \A f : Queued("establish", f)' <=> Queued("establish", f)
<1> DEFINE t == Command("trigger", e)
           r == Command("remove", e)
<1>1. t \in Commands /\ r \in Commands
  BY DEF Command, Commands
<1>2. \A f : /\ Command("establish", f) # t /\ Command("establish", f) # r
             /\ Command("remove", f) # t
             /\ Command("remove", f) = r <=> f = e
  BY DEF Command
<1>3. commands \in Seq(Commands)
  BY DEF TypeInv, TypeOK
<1> HIDE DEF t, r
<1>4. CASE commands' = Append(commands, r)
  <2>1. commands' = commands \o <<r>> /\ <<r>> \in Seq(Commands)
    BY <1>1, <1>3, <1>4
  <2>2. (\A i \in DOMAIN <<r>> : <<r>>[i] = r) /\ 1 \in DOMAIN <<r>>
    OBVIOUS
  <2>3. \A do, f : Queued(do, f)' <=>
          (Queued(do, f) \/ \E i \in DOMAIN <<r>> : <<r>>[i] = Command(do, f))
    BY <2>1, QueuedConcat
  <2> QED BY <1>2, <2>2, <2>3
<1>5. CASE commands' = commands \o <<t, r>>
  <2>1. <<t, r>> \in Seq(Commands)
    BY <1>1
  <2>2. /\ \A i \in DOMAIN <<t, r>> : <<t, r>>[i] \in {t, r}
        /\ 2 \in DOMAIN <<t, r>> /\ <<t, r>>[2] = r
    OBVIOUS
  <2>3. \A do, f : Queued(do, f)' <=>
          (Queued(do, f) \/ \E i \in DOMAIN <<t, r>> : <<t, r>>[i] = Command(do, f))
    BY <1>5, <2>1, QueuedConcat
  <2> QED BY <1>2, <2>2, <2>3
<1> QED BY <1>4, <1>5 DEF t, r

LEMMA QueuedByPolled ==
  ASSUME TypeInv, NEW e \in Entities, NEW news \in PollNews(e),
         commands' = commands \o news
  PROVE  /\ \A f : Queued("remove", f)' <=> Queued("remove", f)
         /\ \A f : Queued("establish", f)' => (Queued("establish", f) \/ f = e)
         /\ \A f : Queued("establish", f) => Queued("establish", f)'
<1> DEFINE t == Command("trigger", e)
           s == Command("establish", e)
<1>1. t \in Commands /\ s \in Commands
  BY DEF Command, Commands
<1>2. \A f : /\ Command("remove", f) # t /\ Command("remove", f) # s
             /\ Command("establish", f) # t
             /\ Command("establish", f) = s <=> f = e
  BY DEF Command
<1>3. news = <<>> \/ news = <<t>> \/ news = <<s>> \/ news = <<t, s>>
  BY DEF PollNews
<1> HIDE DEF t, s
<1>4. news \in Seq(Commands) /\ \A i \in DOMAIN news : news[i] \in {t, s}
  <2>1. CASE news = <<>>
    BY <2>1
  <2>2. CASE news = <<t>>
    BY <1>1, <2>2
  <2>3. CASE news = <<s>>
    BY <1>1, <2>3
  <2>4. CASE news = <<t, s>>
    BY <1>1, <2>4
  <2> QED BY <1>3, <2>1, <2>2, <2>3, <2>4
<1> QED BY <1>2, <1>4, QueuedConcat

-----------------------------------------------------------------------------
(* Steps that take nothing over *)

LEMMA InitOwnership == Init => OwnershipInv
<1> SUFFICES ASSUME Init PROVE OwnershipInv
  OBVIOUS
<1>1. \A do, e : ~Queued(do, e)
  BY DEF Init, Queued
<1>2. \A g \in Endpoints : Waiting(g) = {}
  BY DEF Init, Waiting
<1> QED
  BY <1>1, <1>2
  DEF Init, OwnershipInv, NobodyObserves, OneEndpointPerHost, HostsAreTaken,
      DroppedIsEmpty, AllAreMade, HeldIsFresh, OneEntityEach, HeldOwns,
      PresentOwns, SuccessorWaits, WaitingIsOnWire, WaitingIsOwned,
      WaitingIsForIt, VisitedOnce, RoutesLeadHome

\* Connections may be given up; the schedule goes on without forgetting one
\* that is leaving or an event that waits.
LEMMA Calm ==
  ASSUME TypeInv, OwnershipInv,
         UNCHANGED <<host, connections, slab, receiver, handle, chost, onWire,
                     drained, hosted>>,
         ~observing', held' \subseteq held,
         \A e \in Entities : comp'[e] \in {comp[e], None},
         \A g \in Endpoints : CaughtUp(g)' => CaughtUp(g) \/ Waiting(g) = {},
         \A e \in Entities : Leaving(e) /\ comp'[e] # None => Leaving(e)',
         VisitedOnce'
  PROVE  OwnershipInv'
<1>1. \A g \in Endpoints : Waiting(g)' = Waiting(g)
  BY DEF Waiting
<1>2. \A c, g : Of(c, g)' <=> Of(c, g)
  BY DEF Of
<1>3. /\ NobodyObserves' /\ OneEndpointPerHost' /\ HostsAreTaken'
      /\ DroppedIsEmpty' /\ AllAreMade' /\ WaitingIsOnWire'
  BY <1>1
  DEF OwnershipInv, NobodyObserves, OneEndpointPerHost, HostsAreTaken,
      DroppedIsEmpty, AllAreMade, WaitingIsOnWire
<1>4. HeldIsFresh' /\ OneEntityEach' /\ HeldOwns' /\ RoutesLeadHome'
  <2>1. None \notin held
    BY RoutingAssumption DEF TypeInv, TypeOK
  <2> QED
    BY <1>2, <2>1
    DEF OwnershipInv, HeldIsFresh, OneEntityEach, HeldOwns, RoutesLeadHome, Of,
        AllAreMade
<1>5. PresentOwns'
  BY <1>2 DEF OwnershipInv, PresentOwns
<1>6. SuccessorWaits'
  BY <1>2 DEF OwnershipInv, SuccessorWaits
<1>7. WaitingIsOwned'
  BY <1>1 DEF OwnershipInv, WaitingIsOwned
<1>8. WaitingIsForIt'
  BY <1>1, <1>2 DEF OwnershipInv, WaitingIsForIt
<1> QED BY <1>3, <1>4, <1>5, <1>6, <1>7, <1>8 DEF OwnershipInv

\* Nothing is queued: nothing changes about removing and establishing.
LEMMA QueuedSame ==
  ASSUME UNCHANGED commands
  PROVE  \A do, e : Queued(do, e)' <=> Queued(do, e)
  BY DEF Queued, Command

\* Leaving and VisitedOnce in a step that only queues or applies commands.
LEMMA LeavingSame ==
  ASSUME OwnershipInv, UNCHANGED <<comp, drained, pc, todo>>,
         \A do \in {"establish", "remove"} : \A e : Queued(do, e)' <=> Queued(do, e)
  PROVE  (\A e \in Entities : Leaving(e)' <=> Leaving(e)) /\ VisitedOnce'
  BY DEF Leaving, OwnershipInv, VisitedOnce

LEMMA PollEndpointsCalm ==
  ASSUME TypeInv, OwnershipInv,
         \/ \E g \in Endpoints : \/ LockEndpoint(g)
                                 \/ PanicUnmapped(g)
                                 \/ HandleError(g)
                                 \/ UnlockEndpoint(g)
         \/ EndPollEndpoints
  PROVE  OwnershipInv'
<1> USE DEF endpointVars, connVars, historyVars, scheduleVars
<1>0. TypeOK /\ ~observing
  BY DEF TypeInv, OwnershipInv, NobodyObserves
<1>1. ASSUME NEW g \in Endpoints, LockEndpoint(g) \/ PanicUnmapped(g)
      PROVE  OwnershipInv'
  <2>1. UNCHANGED <<host, connections, slab, receiver, handle, chost, onWire,
                    drained, hosted, held, comp, observing, commands, pc, todo>>
    BY <1>1 DEF LockEndpoint, PanicUnmapped
  <2>2. (\A e \in Entities : Leaving(e)' <=> Leaving(e)) /\ VisitedOnce'
    BY <2>1, QueuedSame, LeavingSame
  <2>3. \A k \in Endpoints : CaughtUp(k)' <=> CaughtUp(k)
    BY <2>1 DEF CaughtUp
  <2> QED BY <1>0, <2>1, <2>2, <2>3, Calm
<1>2. ASSUME NEW g \in Endpoints, HandleError(g) PROVE OwnershipInv'
  <2>1. UNCHANGED <<host, connections, slab, receiver, handle, chost, onWire,
                    drained, hosted, held, comp, observing, pc, todo>>
    BY <1>2 DEF HandleError
  <2>2. host[g] \in Hosts
    BY <1>0, <1>2, RoutingAssumption DEF HandleError, TypeInv, TypeOK, StageInv
  <2>3. \A do \in {"establish", "remove"} : \A e : Queued(do, e)' <=> Queued(do, e)
    BY <1>2, <2>2, QueuedByEndpoints DEF HandleError
  <2>4. (\A e \in Entities : Leaving(e)' <=> Leaving(e)) /\ VisitedOnce'
    BY <2>1, <2>3, LeavingSame
  <2>5. \A k \in Endpoints : CaughtUp(k)' <=> CaughtUp(k)
    BY <2>1 DEF CaughtUp
  <2> QED BY <1>0, <2>1, <2>4, <2>5, Calm
<1>3. ASSUME NEW g \in Endpoints, UnlockEndpoint(g) PROVE OwnershipInv'
  <2>1. /\ UNCHANGED <<host, connections, slab, receiver, handle, chost, onWire,
                       drained, hosted, held, comp, observing, pc, commands>>
        /\ pc = "poll_endpoints" /\ todo' = todo \ {g}
    BY <1>3 DEF UnlockEndpoint, Running
  <2>2. Waiting(g) = {}
    BY <1>3 DEF UnlockEndpoint, Waiting
  <2>3. \A k \in Endpoints : CaughtUp(k)' => CaughtUp(k) \/ Waiting(k) = {}
    BY <2>1, <2>2 DEF CaughtUp
  <2>4. \A e \in Entities : ~Leaving(e)
    BY <2>1 DEF Leaving
  <2>5. VisitedOnce'
    BY <2>1, QueuedSame DEF OwnershipInv, VisitedOnce
  <2> QED BY <1>0, <2>1, <2>3, <2>4, <2>5, Calm
<1>4. CASE EndPollEndpoints
  <2>1. /\ UNCHANGED <<host, connections, slab, receiver, handle, chost, onWire,
                       drained, hosted, held, comp, observing, commands>>
        /\ pc = "poll_endpoints" /\ pc' = "endpoint_commands" /\ todo = {}
    BY <1>4 DEF EndPollEndpoints, Running
  <2>2. \A k \in Endpoints : CaughtUp(k)
    BY <2>1 DEF CaughtUp
  <2>3. \A e \in Entities : ~Leaving(e)
    BY <2>1 DEF Leaving
  <2>4. VisitedOnce'
    BY <2>1, QueuedSame DEF OwnershipInv, VisitedOnce
  <2> QED BY <1>0, <2>1, <2>2, <2>3, <2>4, Calm
<1> QED BY <1>1, <1>2, <1>3, <1>4

LEMMA ApplyCommandsCalm ==
  ASSUME Plain, TypeInv, OwnershipInv, ApplyTrigger \/ ApplyRemove \/ EndCommands
  PROVE  OwnershipInv'
<1> USE DEF endpointVars, connVars, historyVars, scheduleVars
<1>0. TypeOK /\ ~observing /\ "observer" \notin Uses
  BY DEF TypeInv, OwnershipInv, NobodyObserves, Plain
<1>1. CASE ApplyTrigger
  <2>1. /\ UNCHANGED <<host, connections, slab, receiver, handle, chost, onWire,
                       drained, hosted, held, comp, pc, todo>>
        /\ ~observing' /\ Applying("trigger")
    BY <1>0, <1>1 DEF ApplyTrigger
  <2>2. Head(commands).do = "trigger"
    BY <2>1 DEF Applying
  <2>3. \A do \in {"establish", "remove"} : \A e : Head(commands) # Command(do, e)
    BY <2>2 DEF Command
  <2>4. \A do \in {"establish", "remove"} : \A e : Queued(do, e)' <=> Queued(do, e)
    BY <2>1, <2>3, QueuedTail
  <2>5. (\A e \in Entities : Leaving(e)' <=> Leaving(e)) /\ VisitedOnce'
    BY <2>1, <2>4, LeavingSame
  <2>6. \A k \in Endpoints : CaughtUp(k)' <=> CaughtUp(k)
    BY <2>1 DEF CaughtUp
  <2> QED BY <2>1, <2>5, <2>6, Calm
<1>2. CASE ApplyRemove
  <2> DEFINE r == Head(commands).on
  <2>1. /\ UNCHANGED <<host, connections, slab, receiver, handle, chost, onWire,
                       drained, hosted, held, pc, todo, observing>>
        /\ comp' = [comp EXCEPT ![r] = None] /\ Applying("remove")
    BY <1>2 DEF ApplyRemove
  <2>2. \A e \in Entities : comp'[e] = IF e = r THEN None ELSE comp[e]
    BY <1>0, <2>1 DEF TypeOK
  <2>3. \A e \in Entities : e # r => Head(commands) # Command("remove", e)
    BY DEF Command
  <2>4. /\ \A do, e : Queued(do, e)' => Queued(do, e)
        /\ \A e \in Entities : e # r /\ Queued("remove", e) => Queued("remove", e)'
    BY <2>1, <2>3, QueuedTail
  <2>5. VisitedOnce'
    BY <2>1, <2>4 DEF OwnershipInv, VisitedOnce
  <2>6. \A e \in Entities : Leaving(e) /\ comp'[e] # None => Leaving(e)'
    BY <2>1, <2>2, <2>4 DEF Leaving
  <2>7. \A k \in Endpoints : CaughtUp(k)' <=> CaughtUp(k)
    BY <2>1 DEF CaughtUp
  <2> QED BY <1>0, <2>1, <2>2, <2>5, <2>6, <2>7, Calm
<1>3. CASE EndCommands
  <2>1. /\ UNCHANGED <<host, connections, slab, receiver, handle, chost, onWire,
                       drained, hosted, held, comp, observing, commands>>
        /\ commands = <<>>
        /\ \/ pc = "endpoint_commands" /\ pc' = "Update"
           \/ /\ pc = "connection_commands" /\ pc' = "poll_endpoints"
              /\ todo' = {g \in Endpoints : host[g] # None}
    BY <1>3 DEF EndCommands
  <2>2. \A do, e : ~Queued(do, e)
    BY <2>1 DEF Queued
  <2>3. \A do, e : ~Queued(do, e)'
    BY <2>1, <2>2, QueuedSame
  <2>4. VisitedOnce'
    BY <2>3 DEF VisitedOnce
  <2>5. \A e \in Entities : ~Leaving(e)
    BY <2>1, <2>2 DEF Leaving
  <2>6. \A k \in Endpoints : CaughtUp(k)' => CaughtUp(k) \/ Waiting(k) = {}
    BY <2>1 DEF CaughtUp, OwnershipInv, DroppedIsEmpty
  <2> QED BY <1>0, <2>1, <2>4, <2>5, <2>6, Calm
<1> QED BY <1>1, <1>2, <1>3

LEMMA PollConnectionsCalm ==
  ASSUME TypeInv, OwnershipInv,
         \/ \E e \in Entities : PollDrained(e) \/ PollOrphan(e)
         \/ EndPollConnections
  PROVE  OwnershipInv'
<1> USE DEF endpointVars, connVars, historyVars, scheduleVars
<1>0. TypeOK /\ ~observing
  BY DEF TypeInv, OwnershipInv, NobodyObserves
<1>1. ASSUME NEW e \in Entities, PollDrained(e) \/ PollOrphan(e)
      PROVE  OwnershipInv'
  <2>1. /\ UNCHANGED <<host, connections, slab, receiver, handle, chost, onWire,
                       drained, hosted, held, comp, observing, pc>>
        /\ pc = "poll_connections" /\ e \in todo /\ todo' = todo \ {e}
        /\ \/ commands' = commands \o <<Command("trigger", e), Command("remove", e)>>
           \/ commands' = Append(commands, Command("remove", e))
    BY <1>1 DEF PollDrained, PollOrphan, Visiting, Running
  <2>2. /\ \A f : Queued("remove", f)' <=> (Queued("remove", f) \/ f = e)
        /\ \A f : Queued("establish", f)' <=> Queued("establish", f)
    BY <2>1, QueuedByDrained
  <2>3. VisitedOnce'
    BY <2>1, <2>2 DEF OwnershipInv, VisitedOnce
  <2>4. \A f \in Entities : Leaving(f) => Leaving(f)'
    BY <2>1, <2>2 DEF Leaving
  <2>5. \A k \in Endpoints : ~CaughtUp(k)'
    BY <2>1 DEF CaughtUp
  <2> QED BY <1>0, <2>1, <2>3, <2>4, <2>5, Calm
<1>2. CASE EndPollConnections
  <2>1. /\ UNCHANGED <<host, connections, slab, receiver, handle, chost, onWire,
                       drained, hosted, held, comp, observing, commands>>
        /\ pc = "poll_connections" /\ pc' = "connection_commands" /\ todo = {}
    BY <1>2 DEF EndPollConnections, Running
  <2>2. VisitedOnce'
    BY <2>1, QueuedSame DEF OwnershipInv, VisitedOnce
  <2>3. \A f \in Entities : Leaving(f) => Leaving(f)'
    BY <2>1, QueuedSame DEF Leaving
  <2>4. \A k \in Endpoints : ~CaughtUp(k)'
    BY <2>1 DEF CaughtUp
  <2> QED BY <1>0, <2>1, <2>2, <2>3, <2>4, Calm
<1> QED BY <1>1, <1>2

LEMMA OtherStepsCalm ==
  ASSUME TypeInv, OwnershipInv,
         \/ ObserverReturns \/ EndUpdate \/ EndIncomingResponses
         \/ \E g \in Endpoints : DriverLocks(g) \/ DriverUnlocks(g)
         \/ \E g \in Endpoints : DriverFails(g) \/ DriverStops(g)
         \/ UNCHANGED vars
  PROVE  OwnershipInv'
<1> USE DEF endpointVars, connVars, historyVars, scheduleVars
<1>0. TypeOK /\ ~observing
  BY DEF TypeInv, OwnershipInv, NobodyObserves
<1>1. CASE ObserverReturns
  BY <1>0, <1>1 DEF ObserverReturns
<1>2. CASE EndUpdate \/ EndIncomingResponses
  <2>1. /\ UNCHANGED <<host, connections, slab, receiver, handle, chost, onWire,
                       drained, hosted, held, comp, observing, commands>>
        /\ \/ pc = "Update" /\ pc' = "handle_incoming_responses"
           \/ /\ pc = "handle_incoming_responses" /\ pc' = "poll_connections"
              /\ todo' = {e \in Entities : comp[e] # None}
    BY <1>2 DEF EndUpdate, EndIncomingResponses, Running
  <2>2. VisitedOnce'
    BY <2>1, QueuedSame DEF OwnershipInv, VisitedOnce
  <2>3. \A f \in Entities : Leaving(f) /\ comp'[f] # None => Leaving(f)'
    BY <2>1, QueuedSame DEF Leaving
  <2>4. \A k \in Endpoints : CaughtUp(k)
    BY <2>1 DEF CaughtUp
  <2> QED BY <1>0, <2>1, <2>2, <2>3, <2>4, Calm
<1>3. CASE \/ \E g \in Endpoints : DriverLocks(g) \/ DriverUnlocks(g)
           \/ \E g \in Endpoints : DriverFails(g) \/ DriverStops(g)
           \/ UNCHANGED vars
  <2>1. UNCHANGED <<host, connections, slab, receiver, handle, chost, onWire,
                    drained, hosted, held, comp, observing, commands, pc, todo>>
    BY <1>3 DEF DriverLocks, DriverUnlocks, DriverFails, DriverStops, vars
  <2>2. (\A e \in Entities : Leaving(e)' <=> Leaving(e)) /\ VisitedOnce'
    BY <2>1, QueuedSame, LeavingSame
  <2>3. \A k \in Endpoints : CaughtUp(k)' <=> CaughtUp(k)
    BY <2>1 DEF CaughtUp
  <2> QED BY <1>0, <2>1, <2>2, <2>3, Calm
<1> QED BY <1>1, <1>2, <1>3

LEMMA GivingUpCalm ==
  ASSUME TypeInv, OwnershipInv,
         \/ \E c \in Conns : DropHeld(c)
         \/ \E e \in Entities : RemoveConnection(e)
  PROVE  OwnershipInv'
<1> USE DEF endpointVars, connVars, historyVars, scheduleVars
<1>0. TypeOK /\ ~observing
  BY DEF TypeInv, OwnershipInv, NobodyObserves
<1>1. /\ UNCHANGED <<host, connections, slab, receiver, handle, chost, onWire,
                     drained, hosted, observing, commands, pc, todo>>
      /\ held' \subseteq held
      /\ \A e \in Entities : comp'[e] \in {comp[e], None}
  BY <1>0 DEF DropHeld, RemoveConnection, TypeOK
<1>2. \A do, e : Queued(do, e)' <=> Queued(do, e)
  BY <1>1, QueuedSame
<1>3. VisitedOnce'
  BY <1>1, <1>2 DEF OwnershipInv, VisitedOnce
<1>4. \A e \in Entities : Leaving(e) /\ comp'[e] # None => Leaving(e)'
  BY <1>1, <1>2 DEF Leaving
<1>5. \A k \in Endpoints : CaughtUp(k)' <=> CaughtUp(k)
  BY <1>1 DEF CaughtUp
<1> QED BY <1>0, <1>1, <1>3, <1>4, <1>5, Calm

-----------------------------------------------------------------------------
(* Endpoints come and go *)

\* Endpoints of G are dropped, and one that goes somewhere goes to a host no
\* connection has heard of.
LEMMA DropOwnership ==
  ASSUME TypeInv, OwnershipInv, NEW G \in SUBSET Endpoints, Drop(G),
         UNCHANGED <<handle, chost, held, comp, onWire, drained, pc, todo,
                     observing>>,
         hosted \subseteq hosted', OneEndpointPerHost',
         \A g \in Endpoints : host'[g] # None =>
           \/ g \notin G /\ host'[g] = host[g]
           \/ host'[g] \notin hosted /\ host'[g] \in hosted',
         \A g \in Endpoints : host'[g] = None => g \in G \/ host[g] = None,
         \A do \in {"establish", "remove"} : \A e : Queued(do, e)' <=> Queued(do, e)
  PROVE  OwnershipInv'
<1>1. (\A e \in Entities : Leaving(e)' <=> Leaving(e)) /\ VisitedOnce'
  BY LeavingSame
<1>2. \A c \in Conns, g \in Endpoints : Of(c, g)' => Of(c, g) /\ g \notin G
  BY DEF Of, OwnershipInv, HostsAreTaken
<1>3. \A g \in Endpoints : Waiting(g)' = IF g \in G THEN {} ELSE Waiting(g)
  BY DEF Drop, Waiting
<1>4. \A g \in Endpoints : g \notin G =>
        connections'[g] = connections[g] /\ slab'[g] = slab[g]
  BY DEF Drop
<1>5. \A e \in Entities : comp[e] # None => comp[e] \in Conns
  BY DEF TypeInv, TypeOK
<1>6. held \subseteq Conns
  BY DEF TypeInv, TypeOK
<1>7. \A g \in Endpoints : CaughtUp(g)' <=> CaughtUp(g)
  BY DEF CaughtUp
<1>8. NobodyObserves' /\ HostsAreTaken' /\ AllAreMade' /\ HeldIsFresh' /\ OneEntityEach'
  BY DEF OwnershipInv, NobodyObserves, HostsAreTaken, AllAreMade, HeldIsFresh,
         OneEntityEach
<1>9. DroppedIsEmpty' /\ WaitingIsOnWire'
  BY <1>3 DEF OwnershipInv, DroppedIsEmpty, WaitingIsOnWire
<1>10. HeldOwns' /\ PresentOwns'
  BY <1>2, <1>4, <1>5, <1>6 DEF OwnershipInv, HeldOwns, PresentOwns
<1>11. SuccessorWaits'
  BY <1>1, <1>2, <1>4, <1>5 DEF OwnershipInv, SuccessorWaits
<1>12. WaitingIsOwned'
  BY <1>3, <1>4, <1>7 DEF OwnershipInv, WaitingIsOwned
<1>13. WaitingIsForIt'
  BY <1>1, <1>2, <1>3, <1>5 DEF OwnershipInv, WaitingIsForIt
<1>14. RoutesLeadHome'
  <2>1. \A e \in Entities, g \in Endpoints :
          comp[e] # None /\ host'[g] = chost[comp[e]] => Of(comp[e], g)'
    BY DEF Of, OwnershipInv, AllAreMade
  <2>2. \A e \in Entities, g \in Endpoints :
          comp[e] # None /\ host'[g] = chost[comp[e]] =>
            g \notin G /\ host[g] = chost[comp[e]]
    BY <1>2, <1>5, <2>1 DEF Of
  <2> QED BY <1>4, <2>2 DEF OwnershipInv, RoutesLeadHome
<1> QED
  BY <1>1, <1>8, <1>9, <1>10, <1>11, <1>12, <1>13, <1>14 DEF OwnershipInv

LEMMA EndpointsOwnership ==
  ASSUME Plain, TypeInv, OwnershipInv,
         \/ ApplyRemoveEndpoint
         \/ \E g \in Endpoints, x \in Hosts : InsertEndpoint(g, x) \/ MoveEndpoint(g, x)
         \/ \E g \in Endpoints : RemoveEndpoint(g)
  PROVE  OwnershipInv'
<1> USE DEF endpointVars, connVars, historyVars, scheduleVars
<1>0. TypeOK /\ OneEndpointPerHost /\ "replace" \notin Uses
  BY DEF TypeInv, OwnershipInv, Plain
<1>1. CASE ApplyRemoveEndpoint
  <2> DEFINE G == EndpointsOn(Head(commands).on)
  <2>1. /\ G \in SUBSET Endpoints /\ Drop(G) /\ Applying("remove_endpoint")
        /\ UNCHANGED <<handle, chost, held, comp, onWire, drained, hosted, pc,
                       todo, observing>>
    BY <1>1 DEF ApplyRemoveEndpoint, EndpointsOn
  <2>2. \A g \in Endpoints : host'[g] = IF g \in G THEN None ELSE host[g]
    BY <1>1 DEF ApplyRemoveEndpoint
  <2>3. OneEndpointPerHost'
    BY <1>0, <2>2 DEF OneEndpointPerHost
  <2>4. \A do \in {"establish", "remove"} : \A e : Head(commands) # Command(do, e)
    BY <2>1 DEF Applying, Command
  <2>5. \A do \in {"establish", "remove"} : \A e : Queued(do, e)' <=> Queued(do, e)
    BY <2>1, <2>4, QueuedTail
  <2> HIDE DEF G
  <2> QED BY <2>1, <2>2, <2>3, <2>5, DropOwnership
<1>2. ASSUME NEW g \in Endpoints, NEW x \in Hosts,
             InsertEndpoint(g, x) \/ MoveEndpoint(g, x)
      PROVE  OwnershipInv'
  <2> DEFINE G == EndpointsOn(x)
  <2>1. /\ G \in SUBSET Endpoints /\ Drop(G) /\ x \notin hosted /\ x # None
        /\ hosted' = hosted \cup {x}
        /\ UNCHANGED <<handle, chost, held, comp, onWire, drained, pc, todo,
                       observing, commands>>
    BY <1>0, <1>2, RoutingAssumption
    DEF InsertEndpoint, MoveEndpoint, EndpointsOn, FreshHost
  <2>2. \A k \in Endpoints :
          host'[k] = IF k = g THEN x ELSE IF host[k] = x THEN None ELSE host[k]
    BY <1>2 DEF InsertEndpoint, MoveEndpoint
  <2>3. G = {}
    BY <2>1 DEF EndpointsOn, OwnershipInv, HostsAreTaken
  <2>4. OneEndpointPerHost'
    BY <1>0, <2>2 DEF OneEndpointPerHost
  <2>5. \A do \in {"establish", "remove"} : \A e : Queued(do, e)' <=> Queued(do, e)
    BY <2>1, QueuedSame
  <2>6. \A k \in Endpoints : k # g => host'[k] = host[k]
    BY <2>2, <2>3 DEF EndpointsOn
  <2> HIDE DEF G
  <2> QED BY <2>1, <2>2, <2>3, <2>4, <2>5, <2>6, DropOwnership
<1>3. ASSUME NEW g \in Endpoints, RemoveEndpoint(g) PROVE OwnershipInv'
  <2>1. /\ {g} \in SUBSET Endpoints /\ Drop({g})
        /\ UNCHANGED <<handle, chost, held, comp, onWire, drained, hosted, pc,
                       todo, observing, commands>>
    BY <1>3 DEF RemoveEndpoint
  <2>2. \A k \in Endpoints : host'[k] = IF k = g THEN None ELSE host[k]
    BY <1>0, <1>3 DEF RemoveEndpoint, TypeOK
  <2>3. OneEndpointPerHost'
    BY <1>0, <2>2 DEF OneEndpointPerHost
  <2>4. \A do \in {"establish", "remove"} : \A e : Queued(do, e)' <=> Queued(do, e)
    BY <2>1, QueuedSame
  <2> QED BY <2>1, <2>2, <2>3, <2>4, DropOwnership
<1> QED BY <1>1, <1>2, <1>3

-----------------------------------------------------------------------------
(* Events *)

\* An event that is not delivered has an entity that is not its connection's.
LEMMA HeadIsForIt ==
  ASSUME TypeInv, OwnershipInv, NEW g \in Endpoints, Receiving(g)
  PROVE  \A e \in Entities :
           (/\ comp[e] # None /\ Of(comp[e], g)
            /\ handle[comp[e]] = Head(receiver[g]).handle)
           => comp[e] = Head(receiver[g]).conn
<1>1. Head(receiver[g]) \in Waiting(g) /\ pc = "poll_endpoints"
  BY HeadWaits
<1>2. \A e \in Entities : ~Leaving(e)
  BY <1>1 DEF Leaving
<1> QED BY <1>1, <1>2 DEF OwnershipInv, WaitingIsForIt

LEMMA DeliverOwnership ==
  ASSUME TypeInv, OwnershipInv, NEW g \in Endpoints, DeliverEvent(g)
  PROVE  OwnershipInv'
<1> USE DEF endpointVars, connVars, historyVars, scheduleVars
<1> DEFINE c == comp[EntityOf(g)]
<1>1. Receiving(g) /\ EntityOf(g) \in Entities /\ c # None
  BY RoutingAssumption, HeadEvent DEF DeliverEvent, Matches, TypeInv
<1>2. /\ UNCHANGED <<host, connections, slab, handle, chost, onWire, hosted, held,
                     comp, observing, commands, pc, todo>>
      /\ receiver' = [receiver EXCEPT ![g] = Tail(@)]
      /\ drained' = drained \/ drained' = drained \cup {c}
  BY DEF DeliverEvent
<1>3. \A k \in Endpoints : Waiting(k)' \subseteq Waiting(k)
  BY <1>1, <1>2, WaitingTail
<1>4. pc = "poll_endpoints"
  BY <1>1 DEF Receiving, Running
<1>5. \A e : ~Leaving(e) /\ ~Leaving(e)'
  BY <1>2, <1>4 DEF Leaving
<1>6. \A d, k : Of(d, k)' <=> Of(d, k)
  BY <1>2 DEF Of
<1>7. \A k \in Endpoints : CaughtUp(k)' <=> CaughtUp(k)
  BY <1>2 DEF CaughtUp
<1>8. VisitedOnce'
  BY <1>2, QueuedSame DEF OwnershipInv, VisitedOnce
<1>9. drained \subseteq drained' /\ c \notin held /\ chost[c] # None
  BY <1>1, <1>2 DEF OwnershipInv, HeldIsFresh, AllAreMade
<1> HIDE DEF c
<1>10. /\ NobodyObserves' /\ OneEndpointPerHost' /\ HostsAreTaken'
       /\ OneEntityEach' /\ RoutesLeadHome'
  BY <1>2
  DEF OwnershipInv, NobodyObserves, OneEndpointPerHost, HostsAreTaken,
      OneEntityEach, RoutesLeadHome
<1>11. AllAreMade' /\ HeldIsFresh'
  BY <1>2, <1>9 DEF OwnershipInv, AllAreMade, HeldIsFresh
<1>12. HeldOwns' /\ PresentOwns' /\ SuccessorWaits'
  BY <1>2, <1>5, <1>6, <1>9 DEF OwnershipInv, HeldOwns, PresentOwns, SuccessorWaits
<1>13. DroppedIsEmpty' /\ WaitingIsOnWire' /\ WaitingIsOwned'
  BY <1>2, <1>3, <1>7
  DEF OwnershipInv, DroppedIsEmpty, WaitingIsOnWire, WaitingIsOwned
<1>14. WaitingIsForIt'
  BY <1>2, <1>3, <1>5, <1>6 DEF OwnershipInv, WaitingIsForIt
<1> QED BY <1>8, <1>10, <1>11, <1>12, <1>13, <1>14 DEF OwnershipInv

\* The handle of the event is freed, and its route kept or forgotten.
LEMMA DrainOwnership ==
  ASSUME TypeInv, OwnershipInv, NEW g \in Endpoints,
         DrainOverwritten(g) \/ DrainMissing(g)
  PROVE  OwnershipInv'
<1> USE DEF endpointVars, connVars, historyVars, scheduleVars
<1> DEFINE v == Head(receiver[g])
<1>1. Receiving(g) /\ EntityOf(g) \in Entities
  BY RoutingAssumption, HeadEvent DEF DrainOverwritten, DrainMissing, TypeInv
<1>2. /\ UNCHANGED <<host, handle, chost, onWire, drained, hosted, held, comp,
                     observing, pc, todo>>
      /\ receiver' = [receiver EXCEPT ![g] = Tail(@)]
      /\ slab' = [slab EXCEPT ![g][v.handle] = None]
      /\ \/ connections' = connections
         \/ connections' = [connections EXCEPT ![g][v.handle] = None]
      /\ ~Matches(g, v.handle, EntityOf(g))
  BY DEF DrainOverwritten, DrainMissing, Freed, Matches
<1>3. v \in Waiting(g) /\ v.handle \in Handles /\ pc = "poll_endpoints" /\ g \in todo
  BY <1>1, HeadWaits, HeadEvent DEF TypeInv
<1>4. \A k \in Endpoints : Waiting(k)' \subseteq Waiting(k)
  BY <1>1, <1>2, WaitingTail
<1>5. \A e : ~Leaving(e) /\ ~Leaving(e)'
  BY <1>2, <1>3 DEF Leaving
<1>6. \A d, k : Of(d, k)' <=> Of(d, k)
  BY <1>2 DEF Of
<1>7. \A k \in Endpoints : CaughtUp(k)' <=> CaughtUp(k)
  BY <1>2 DEF CaughtUp
<1>8. \A do \in {"establish", "remove"} : \A e : Queued(do, e)' <=> Queued(do, e)
  <2>1. CASE DrainOverwritten(g)
    BY <2>1, QueuedSame DEF DrainOverwritten
  <2>2. CASE DrainMissing(g)
    <3>1. host[g] \in Hosts
      BY <1>3, RoutingAssumption DEF TypeInv, TypeOK, StageInv
    <3> QED BY <2>2, <3>1, QueuedByEndpoints DEF DrainMissing
  <2> QED BY <2>1, <2>2
<1>9. \A k \in Endpoints, i \in Handles :
        /\ slab'[k][i] = IF k = g /\ i = v.handle THEN None ELSE slab[k][i]
        /\ k # g \/ i # v.handle => connections'[k][i] = connections[k][i]
  BY <1>2, <1>3 DEF TypeInv, TypeOK
<1>10. ASSUME NEW e \in Entities, comp[e] # None, Of(comp[e], g),
              handle[comp[e]] = v.handle
       PROVE  comp[e] \in drained
  <2> SUFFICES ASSUME comp[e] \notin drained PROVE FALSE
    OBVIOUS
  <2>1. slab[g][v.handle] = comp[e]
    BY <1>10 DEF OwnershipInv, PresentOwns
  <2>2. EntityOf(g) = e
    BY <1>10, <2>1 DEF OwnershipInv, RoutesLeadHome, EntityOf, Of
  <2> QED BY <1>2, <1>10, <2>2 DEF Matches, Of
<1>11. \A c \in held : Of(c, g) => handle[c] # v.handle
  <2> SUFFICES ASSUME NEW c \in held, Of(c, g), handle[c] = v.handle PROVE FALSE
    OBVIOUS
  <2>1. slab[g][v.handle] = c
    BY DEF OwnershipInv, HeldOwns
  <2>2. c # None
    BY RoutingAssumption DEF TypeInv, TypeOK
  <2>3. v.conn = c /\ v.conn \in onWire
    BY <1>3, <2>1, <2>2 DEF OwnershipInv, WaitingIsOwned, WaitingIsOnWire
  <2> QED BY <2>3 DEF OwnershipInv, HeldIsFresh
<1>12. \A c \in Conns : chost[c] # None => handle[c] \in Handles
  BY DEF OwnershipInv, HostsAreTaken
<1>13. (\A e \in Entities : comp[e] # None => comp[e] \in Conns) /\ held \subseteq Conns
  BY DEF TypeInv, TypeOK
<1>14. \A k \in Endpoints : \A w \in Waiting(k) : w.handle \in Handles
  BY WaitingAreEvents
<1> HIDE DEF v
<1>15. VisitedOnce'
  BY <1>2, <1>8 DEF OwnershipInv, VisitedOnce
<1>16. /\ NobodyObserves' /\ OneEndpointPerHost' /\ HostsAreTaken' /\ AllAreMade'
       /\ HeldIsFresh' /\ OneEntityEach'
  BY <1>2
  DEF OwnershipInv, NobodyObserves, OneEndpointPerHost, HostsAreTaken, AllAreMade,
      HeldIsFresh, OneEntityEach
<1>17. DroppedIsEmpty' /\ WaitingIsOnWire'
  BY <1>2, <1>4 DEF OwnershipInv, DroppedIsEmpty, WaitingIsOnWire
<1>18. HeldOwns'
  BY <1>2, <1>6, <1>9, <1>11, <1>12, <1>13 DEF OwnershipInv, HeldOwns, Of
<1>19. PresentOwns'
  BY <1>2, <1>6, <1>9, <1>10, <1>12, <1>13 DEF OwnershipInv, PresentOwns, Of
<1>20. SuccessorWaits'
  BY <1>2, <1>5, <1>6, <1>9, <1>12, <1>13 DEF OwnershipInv, SuccessorWaits, Of
<1>21. WaitingIsOwned'
  <2>1. ~CaughtUp(g)
    BY <1>3 DEF CaughtUp
  <2> QED BY <1>4, <1>7, <1>9, <1>14, <2>1 DEF OwnershipInv, WaitingIsOwned
<1>22. WaitingIsForIt'
  BY <1>2, <1>4, <1>5, <1>6 DEF OwnershipInv, WaitingIsForIt
<1>23. RoutesLeadHome'
  <2> SUFFICES ASSUME NEW e \in Entities, NEW k \in Endpoints, comp[e] # None,
                      host[k] = chost[comp[e]], slab'[k][handle[comp[e]]] = comp[e]
               PROVE  connections'[k][handle[comp[e]]] = e
    BY <1>2 DEF RoutesLeadHome
  <2>1. handle[comp[e]] \in Handles
    BY <1>12, <1>13 DEF OwnershipInv, AllAreMade
  <2> QED BY <1>9, <2>1 DEF OwnershipInv, RoutesLeadHome
<1> QED
  BY <1>15, <1>16, <1>17, <1>18, <1>19, <1>20, <1>21, <1>22, <1>23
  DEF OwnershipInv

LEMMA ReceiveOwnership ==
  ASSUME TypeInv, OwnershipInv, NEW g \in Endpoints, NEW h \in Handles,
         Receive(g, h)
  PROVE  OwnershipInv'
<1> USE DEF endpointVars, connVars, historyVars, scheduleVars
<1> DEFINE v == [handle |-> h, conn |-> slab[g][h]]
<1>1. /\ UNCHANGED <<host, connections, slab, handle, chost, onWire, drained,
                     hosted, held, comp, observing, commands, pc, todo>>
      /\ receiver' = [receiver EXCEPT ![g] = Append(@, v)]
      /\ host[g] # None /\ slab[g][h] \in onWire
  BY DEF Receive
<1>2. v \in Events /\ v.handle = h /\ v.conn = slab[g][h] /\ slab[g][h] # None
  BY <1>1, RoutingAssumption DEF TypeInv, TypeOK, Events
<1>3. \A k \in Endpoints :
        Waiting(k)' \subseteq IF k = g THEN Waiting(g) \cup {v} ELSE Waiting(k)
  BY <1>1, <1>2, WaitingMore
<1> HIDE DEF v
<1>4. (\A e \in Entities : Leaving(e)' <=> Leaving(e)) /\ VisitedOnce'
  BY <1>1, QueuedSame, LeavingSame
<1>5. \A d, k : Of(d, k)' <=> Of(d, k)
  BY <1>1 DEF Of
<1>6. \A k \in Endpoints : CaughtUp(k)' <=> CaughtUp(k)
  BY <1>1 DEF CaughtUp
<1>7. /\ NobodyObserves' /\ OneEndpointPerHost' /\ HostsAreTaken' /\ AllAreMade'
      /\ HeldIsFresh' /\ OneEntityEach' /\ RoutesLeadHome'
  BY <1>1
  DEF OwnershipInv, NobodyObserves, OneEndpointPerHost, HostsAreTaken, AllAreMade,
      HeldIsFresh, OneEntityEach, RoutesLeadHome
<1>8. HeldOwns' /\ PresentOwns' /\ SuccessorWaits'
  BY <1>1, <1>4, <1>5 DEF OwnershipInv, HeldOwns, PresentOwns, SuccessorWaits
<1>9. DroppedIsEmpty' /\ WaitingIsOnWire' /\ WaitingIsOwned'
  BY <1>1, <1>2, <1>3, <1>6
  DEF OwnershipInv, DroppedIsEmpty, WaitingIsOnWire, WaitingIsOwned
<1>10. WaitingIsForIt'
  BY <1>1, <1>2, <1>3, <1>4, <1>5 DEF OwnershipInv, WaitingIsForIt, SuccessorWaits
<1> QED BY <1>4, <1>7, <1>8, <1>9, <1>10 DEF OwnershipInv

-----------------------------------------------------------------------------
(* New connections, and connections inserted *)

\* quinn gives a connection a handle when nothing is left of the handle's last
\* owner but, perhaps, a connection that is leaving.
LEMMA NewOwner ==
  ASSUME TypeInv, OwnershipInv, NEW c \in Conns, NEW g \in Endpoints,
         NEW h \in Handles, host[g] # None, NewConnection(c, g, h),
         pc \in {"Update", "handle_incoming_responses"},
         UNCHANGED <<host, hosted>>
  PROVE  /\ c # None /\ c \notin held \cup onWire \cup drained
         /\ \A e \in Entities : comp[e] # c
         /\ \A k \in Endpoints, i \in Handles :
              slab'[k][i] = IF k = g /\ i = h THEN c ELSE slab[k][i]
         /\ handle'[c] = h /\ chost'[c] = host[g]
         /\ \A d \in Conns :
              d # c => handle'[d] = handle[d] /\ chost'[d] = chost[d]
         /\ \A d \in Conns, k \in Endpoints : d # c => (Of(d, k)' <=> Of(d, k))
         /\ \A k \in Endpoints : Of(c, k)' <=> k = g
         /\ HostsAreTaken'
         /\ \A e \in Entities :
              comp[e] # None /\ Of(comp[e], g) /\ handle[comp[e]] = h
                => comp[e] \in drained /\ Leaving(e)
         /\ \A d \in held : Of(d, g) => handle[d] # h
         /\ \A w \in Waiting(g) : w.handle # h
<1>1. c # None /\ c \notin held \cup onWire \cup drained /\ \A e \in Entities : comp[e] # c
  BY RoutingAssumption DEF NewConnection, Unused, OwnershipInv, AllAreMade
<1>2. \A k \in Endpoints, i \in Handles :
        slab'[k][i] = IF k = g /\ i = h THEN c ELSE slab[k][i]
  BY DEF NewConnection, TypeInv, TypeOK
<1>3. /\ handle'[c] = h /\ chost'[c] = host[g]
      /\ \A d \in Conns : d # c => handle'[d] = handle[d] /\ chost'[d] = chost[d]
  BY DEF NewConnection, TypeInv, TypeOK
<1>4. \A d \in Conns, k \in Endpoints : d # c => (Of(d, k)' <=> Of(d, k))
  BY <1>3 DEF Of
<1>5. \A k \in Endpoints : Of(c, k)' <=> k = g
  BY <1>3 DEF Of, OwnershipInv, OneEndpointPerHost
<1>6. HostsAreTaken'
  BY <1>3 DEF OwnershipInv, HostsAreTaken
<1>7. slab[g][h] = None
  BY DEF NewConnection
<1>8. \A e \in Entities :
        comp[e] # None /\ Of(comp[e], g) /\ handle[comp[e]] = h
          => comp[e] \in drained /\ Leaving(e)
  BY <1>7 DEF OwnershipInv, PresentOwns, Leaving
<1>9. \A d \in held : Of(d, g) => handle[d] # h
  <2>1. None \notin held
    BY RoutingAssumption DEF TypeInv, TypeOK
  <2> QED BY <1>7, <2>1 DEF OwnershipInv, HeldOwns
<1>10. \A w \in Waiting(g) : w.handle # h
  <2>1. CaughtUp(g)
    BY DEF CaughtUp
  <2>2. \A w \in Waiting(g) : w.conn # None
    BY WaitingAreEvents, RoutingAssumption
  <2> QED BY <1>7, <2>1, <2>2 DEF OwnershipInv, WaitingIsOwned
<1> QED BY <1>1, <1>2, <1>3, <1>4, <1>5, <1>6, <1>8, <1>9, <1>10

LEMMA ConnectOwnership ==
  ASSUME Plain, TypeInv, OwnershipInv, NEW c \in Conns, NEW g \in Endpoints,
         NEW h \in Handles, Connect(c, g, h)
  PROVE  OwnershipInv'
<1> USE DEF endpointVars, connVars, historyVars, scheduleVars
<1>1. /\ UNCHANGED <<host, connections, receiver, onWire, drained, hosted, comp,
                     observing, commands, pc, todo>>
      /\ held' = held \cup {c} /\ host[g] # None /\ NewConnection(c, g, h)
      /\ pc = "Update"
  BY DEF Connect, Application, OwnershipInv, NobodyObserves
<1>2. /\ c # None /\ c \notin held \cup onWire \cup drained
      /\ \A e \in Entities : comp[e] # c
      /\ \A k \in Endpoints, i \in Handles :
           slab'[k][i] = IF k = g /\ i = h THEN c ELSE slab[k][i]
      /\ handle'[c] = h /\ chost'[c] = host[g]
      /\ \A d \in Conns :
           d # c => handle'[d] = handle[d] /\ chost'[d] = chost[d]
      /\ \A d \in Conns, k \in Endpoints : d # c => (Of(d, k)' <=> Of(d, k))
      /\ \A k \in Endpoints : Of(c, k)' <=> k = g
      /\ HostsAreTaken'
      /\ \A e \in Entities :
           comp[e] # None /\ Of(comp[e], g) /\ handle[comp[e]] = h
             => comp[e] \in drained /\ Leaving(e)
      /\ \A d \in held : Of(d, g) => handle[d] # h
      /\ \A w \in Waiting(g) : w.handle # h
  BY <1>1, NewOwner
<1>3. (\A e \in Entities : Leaving(e)' <=> Leaving(e)) /\ VisitedOnce'
  BY <1>1, QueuedSame, LeavingSame
<1>4. \A k \in Endpoints :
        Waiting(k)' = Waiting(k) /\ (CaughtUp(k)' <=> CaughtUp(k))
  BY <1>1 DEF Waiting, CaughtUp
<1>5. \A d \in Conns : chost[d] # None => handle[d] \in Handles
  BY DEF OwnershipInv, HostsAreTaken
<1>6. (\A e \in Entities : comp[e] # None => comp[e] \in Conns) /\ held \subseteq Conns
      /\ onWire \subseteq Conns /\ drained \subseteq Conns
  BY DEF TypeInv, TypeOK
<1>7. \A k \in Endpoints : \A w \in Waiting(k) : w.handle \in Handles
  BY WaitingAreEvents
<1>8. NobodyObserves' /\ OneEndpointPerHost' /\ OneEntityEach'
  BY <1>1 DEF OwnershipInv, NobodyObserves, OneEndpointPerHost, OneEntityEach
<1>9. AllAreMade' /\ HeldIsFresh'
  BY <1>1, <1>2, <1>6 DEF OwnershipInv, AllAreMade, HeldIsFresh
<1>10. DroppedIsEmpty' /\ WaitingIsOnWire'
  BY <1>1, <1>4 DEF OwnershipInv, DroppedIsEmpty, WaitingIsOnWire
<1>11. HeldOwns'
  BY <1>1, <1>2, <1>5, <1>6 DEF OwnershipInv, HeldOwns, Of
<1>12. PresentOwns'
  BY <1>1, <1>2, <1>5, <1>6 DEF OwnershipInv, PresentOwns, Of
<1>13. SuccessorWaits'
  BY <1>1, <1>2, <1>3, <1>5, <1>6 DEF OwnershipInv, SuccessorWaits, Of
<1>14. WaitingIsOwned'
  BY <1>2, <1>4, <1>7 DEF OwnershipInv, WaitingIsOwned
<1>15. WaitingIsForIt'
  BY <1>1, <1>2, <1>3, <1>4, <1>6 DEF OwnershipInv, WaitingIsForIt
<1>16. RoutesLeadHome'
  <2> SUFFICES ASSUME NEW e \in Entities, NEW k \in Endpoints, comp[e] # None,
                      host[k] = chost'[comp[e]],
                      slab'[k][handle'[comp[e]]] = comp[e]
               PROVE  connections[k][handle'[comp[e]]] = e
    BY <1>1 DEF RoutesLeadHome
  <2>1. /\ comp[e] \in Conns /\ comp[e] # c
        /\ handle'[comp[e]] = handle[comp[e]] /\ chost'[comp[e]] = chost[comp[e]]
        /\ handle[comp[e]] \in Handles
    BY <1>2, <1>5, <1>6 DEF OwnershipInv, AllAreMade
  <2>2. slab[k][handle[comp[e]]] = comp[e]
    BY <1>2, <2>1
  <2> QED BY <2>1, <2>2 DEF OwnershipInv, RoutesLeadHome
<1> QED
  BY <1>2, <1>3, <1>8, <1>9, <1>10, <1>11, <1>12, <1>13, <1>14, <1>15, <1>16
  DEF OwnershipInv

LEMMA AcceptOwnership ==
  ASSUME Plain, TypeInv, OwnershipInv, NEW c \in Conns, NEW g \in Endpoints,
         NEW h \in Handles, NEW f \in Entities, AcceptIncoming(c, g, h, f)
  PROVE  OwnershipInv'
<1> USE DEF endpointVars, connVars, historyVars, scheduleVars
<1>1. /\ UNCHANGED <<host, receiver, drained, hosted, held, commands, pc, todo>>
      /\ onWire' = onWire \cup {c} /\ ~observing'
      /\ host[g] # None /\ NewConnection(c, g, h)
      /\ pc = "handle_incoming_responses"
  BY DEF AcceptIncoming, Running, Plain
<1>2. /\ c # None /\ c \notin held \cup onWire \cup drained
      /\ \A e \in Entities : comp[e] # c
      /\ \A k \in Endpoints, i \in Handles :
           slab'[k][i] = IF k = g /\ i = h THEN c ELSE slab[k][i]
      /\ handle'[c] = h /\ chost'[c] = host[g]
      /\ \A d \in Conns :
           d # c => handle'[d] = handle[d] /\ chost'[d] = chost[d]
      /\ \A d \in Conns, k \in Endpoints : d # c => (Of(d, k)' <=> Of(d, k))
      /\ \A k \in Endpoints : Of(c, k)' <=> k = g
      /\ HostsAreTaken'
      /\ \A e \in Entities :
           comp[e] # None /\ Of(comp[e], g) /\ handle[comp[e]] = h
             => comp[e] \in drained /\ Leaving(e)
      /\ \A d \in held : Of(d, g) => handle[d] # h
      /\ \A w \in Waiting(g) : w.handle # h
  BY <1>1, NewOwner
<1>3. \A e \in Entities : comp'[e] = IF e = f THEN c ELSE comp[e]
  BY DEF AcceptIncoming, TypeInv, TypeOK
<1>4. \A k \in Endpoints, i \in Handles :
        connections'[k][i] = IF k = g /\ i = h THEN f ELSE connections[k][i]
  BY DEF AcceptIncoming, TypeInv, TypeOK
<1>5. \A e \in Entities : e # f => (Leaving(e)' <=> Leaving(e))
  BY <1>1, <1>3, QueuedSame DEF Leaving
<1>6. VisitedOnce'
  BY <1>1, QueuedSame DEF OwnershipInv, VisitedOnce
<1>7. \A k \in Endpoints :
        Waiting(k)' = Waiting(k) /\ (CaughtUp(k)' <=> CaughtUp(k))
  BY <1>1 DEF Waiting, CaughtUp
<1>8. \A d \in Conns : chost[d] # None => handle[d] \in Handles
  BY DEF OwnershipInv, HostsAreTaken
<1>9. (\A e \in Entities : comp[e] # None => comp[e] \in Conns) /\ held \subseteq Conns
      /\ onWire \subseteq Conns /\ drained \subseteq Conns
  BY DEF TypeInv, TypeOK
<1>10. \A k \in Endpoints : \A w \in Waiting(k) : w.handle \in Handles
  BY WaitingAreEvents
<1>11. NobodyObserves' /\ OneEndpointPerHost' /\ OneEntityEach'
  BY <1>1, <1>2, <1>3
  DEF OwnershipInv, NobodyObserves, OneEndpointPerHost, OneEntityEach
<1>12. AllAreMade' /\ HeldIsFresh'
  BY <1>1, <1>2, <1>3, <1>9 DEF OwnershipInv, AllAreMade, HeldIsFresh
<1>13. DroppedIsEmpty' /\ WaitingIsOnWire'
  BY <1>1, <1>7 DEF OwnershipInv, DroppedIsEmpty, WaitingIsOnWire
<1>14. HeldOwns'
  BY <1>1, <1>2, <1>8, <1>9 DEF OwnershipInv, HeldOwns, Of
<1>15. PresentOwns'
  BY <1>1, <1>2, <1>3, <1>8, <1>9 DEF OwnershipInv, PresentOwns, Of
<1>16. SuccessorWaits'
  BY <1>1, <1>2, <1>3, <1>5, <1>8, <1>9 DEF OwnershipInv, SuccessorWaits, Of
<1>17. WaitingIsOwned'
  BY <1>2, <1>7, <1>10 DEF OwnershipInv, WaitingIsOwned
<1>18. WaitingIsForIt'
  BY <1>1, <1>2, <1>3, <1>5, <1>7, <1>9 DEF OwnershipInv, WaitingIsForIt
<1>19. RoutesLeadHome'
  <2> SUFFICES ASSUME NEW e \in Entities, NEW k \in Endpoints, comp'[e] # None,
                      host[k] = chost'[comp'[e]],
                      slab'[k][handle'[comp'[e]]] = comp'[e]
               PROVE  connections'[k][handle'[comp'[e]]] = e
    BY <1>1 DEF RoutesLeadHome
  <2>1. CASE e = f
    BY <1>1, <1>2, <1>3, <1>4, <2>1 DEF OwnershipInv, OneEndpointPerHost
  <2>2. CASE e # f
    <3>1. /\ comp'[e] = comp[e] /\ comp[e] \in Conns /\ comp[e] # c
          /\ handle'[comp[e]] = handle[comp[e]] /\ chost'[comp[e]] = chost[comp[e]]
          /\ handle[comp[e]] \in Handles
      BY <1>2, <1>3, <1>8, <1>9, <2>2 DEF OwnershipInv, AllAreMade
    <3>2. slab[k][handle[comp[e]]] = comp[e] /\ ~(k = g /\ handle[comp[e]] = h)
      BY <1>2, <3>1
    <3> QED BY <1>4, <3>1, <3>2 DEF OwnershipInv, RoutesLeadHome
  <2> QED BY <2>1, <2>2
<1> QED
  BY <1>2, <1>6, <1>11, <1>12, <1>13, <1>14, <1>15, <1>16, <1>17, <1>18, <1>19
  DEF OwnershipInv

LEMMA InsertOwnership ==
  ASSUME Plain, TypeInv, OwnershipInv, NEW c \in Conns, NEW f \in Entities,
         InsertConnection(c, f)
  PROVE  OwnershipInv'
<1> USE DEF endpointVars, connVars, historyVars, scheduleVars
<1>1. /\ UNCHANGED <<host, slab, receiver, handle, chost, onWire, drained, hosted,
                     observing, commands, pc, todo>>
      /\ held' = held \ {c} /\ c \in held /\ pc = "Update"
      /\ connections' = Inserted(c, f)
  BY DEF InsertConnection, Application, OwnershipInv, NobodyObserves
<1>2. \A e \in Entities : comp'[e] = IF e = f THEN c ELSE comp[e]
  BY DEF InsertConnection, TypeInv, TypeOK
<1>3. /\ chost[c] # None /\ handle[c] \in Handles /\ c # None
      /\ c \notin drained /\ c \notin onWire /\ \A e \in Entities : comp[e] # c
  BY <1>1, RoutingAssumption
  DEF OwnershipInv, AllAreMade, HostsAreTaken, HeldIsFresh
<1>4. \A k \in Endpoints, i \in Handles :
        connections'[k][i] =
          IF Of(c, k) /\ i = handle[c] THEN f ELSE connections[k][i]
  BY <1>1, <1>3 DEF Inserted, Of, TypeInv, TypeOK
<1>5. \A e \in Entities : e # f => (Leaving(e)' <=> Leaving(e))
  BY <1>1, <1>2, QueuedSame DEF Leaving
<1>6. VisitedOnce'
  BY <1>1, QueuedSame DEF OwnershipInv, VisitedOnce
<1>7. \A k \in Endpoints :
        Waiting(k)' = Waiting(k) /\ (CaughtUp(k)' <=> CaughtUp(k)) /\ CaughtUp(k)
  BY <1>1 DEF Waiting, CaughtUp
<1>8. \A d, k : Of(d, k)' <=> Of(d, k)
  BY <1>1 DEF Of
<1>9. \A k \in Endpoints : Of(c, k) => slab[k][handle[c]] = c
  BY <1>1 DEF OwnershipInv, HeldOwns
<1>10. /\ NobodyObserves' /\ OneEndpointPerHost' /\ OneEntityEach' /\ HostsAreTaken'
       /\ AllAreMade' /\ HeldIsFresh'
  BY <1>1, <1>2, <1>3
  DEF OwnershipInv, NobodyObserves, OneEndpointPerHost, OneEntityEach,
      HostsAreTaken, AllAreMade, HeldIsFresh
<1>11. DroppedIsEmpty' /\ WaitingIsOnWire' /\ WaitingIsOwned'
  BY <1>1, <1>7 DEF OwnershipInv, DroppedIsEmpty, WaitingIsOnWire, WaitingIsOwned
<1>12. HeldOwns' /\ PresentOwns' /\ SuccessorWaits'
  BY <1>1, <1>2, <1>5, <1>8, <1>9
  DEF OwnershipInv, HeldOwns, PresentOwns, SuccessorWaits
<1>13. WaitingIsForIt'
  <2>1. \A k \in Endpoints : Of(c, k) =>
          \A w \in Waiting(k) : w.handle = handle[c] => w.conn = c
    BY <1>7, <1>9 DEF OwnershipInv, WaitingIsOwned
  <2> QED
    BY <1>1, <1>2, <1>5, <1>7, <1>8, <2>1 DEF OwnershipInv, WaitingIsForIt
<1>14. RoutesLeadHome'
  <2> SUFFICES ASSUME NEW e \in Entities, NEW k \in Endpoints, comp'[e] # None,
                      host[k] = chost[comp'[e]],
                      slab[k][handle[comp'[e]]] = comp'[e]
               PROVE  connections'[k][handle[comp'[e]]] = e
    BY <1>1 DEF RoutesLeadHome
  <2>1. CASE e = f
    BY <1>2, <1>3, <1>4, <2>1 DEF Of
  <2>2. CASE e # f
    <3>1. comp'[e] = comp[e] /\ comp[e] \in Conns /\ comp[e] # c
          /\ handle[comp[e]] \in Handles
      BY <1>2, <1>3, <2>2
      DEF OwnershipInv, AllAreMade, HostsAreTaken, TypeInv, TypeOK
    <3>2. ~(Of(c, k) /\ handle[comp[e]] = handle[c])
      BY <1>9, <3>1
    <3> QED BY <1>4, <3>1, <3>2 DEF OwnershipInv, RoutesLeadHome
  <2> QED BY <2>1, <2>2
<1> QED
  BY <1>6, <1>10, <1>11, <1>12, <1>13, <1>14 DEF OwnershipInv

\* The hook runs again: the entity is where the connection was already, or the
\* connection's handle is free.
LEMMA EstablishOwnership ==
  ASSUME Plain, TypeInv, OwnershipInv, ApplyEstablish
  PROVE  OwnershipInv'
<1> USE DEF endpointVars, connVars, historyVars, scheduleVars
<1> DEFINE f == Head(commands).on
           c == comp[f]
<1>1. /\ UNCHANGED <<host, slab, receiver, handle, chost, onWire, drained, hosted,
                     held, comp, pc, todo>>
      /\ Applying("establish")
  BY DEF ApplyEstablish
<1>2. ~observing'
  <2>1. ~observing /\ "observer" \notin Uses
    BY DEF OwnershipInv, NobodyObserves, Plain
  <2>2. observing' = ("observer" \in Uses) \/ observing' = observing
    BY Zenon DEF ApplyEstablish
  <2> QED BY <2>1, <2>2
<1>3. f \in Entities /\ Head(commands) \in Commands
      /\ Head(commands).do = "establish"
  BY <1>1, HeadCommand DEF TypeInv
<1>4. Head(commands) = Command("establish", f)
  BY <1>3 DEF Commands, Command
<1>5. /\ \A do, e : Queued(do, e)' => Queued(do, e)
      /\ \A e : Queued("remove", e) => Queued("remove", e)'
      /\ Queued("establish", f)
  <2>1. \A e : Head(commands) # Command("remove", e)
    BY <1>4 DEF Command
  <2> QED BY <1>1, <1>4, <2>1, QueuedTail
<1>6. pc = "connection_commands" /\ ~Queued("remove", f)
  BY <1>1, <1>3, <1>5 DEF OwnershipInv, VisitedOnce, Applying
<1>7. ~Leaving(f)
  BY <1>6 DEF Leaving
<1>8. connections' = connections \/ (c \in connecting /\ connections' = Inserted(c, f))
  BY DEF ApplyEstablish
<1>9. ASSUME c \in connecting, connections' = Inserted(c, f),
             NEW k \in Endpoints, NEW i \in Handles
      PROVE  connections'[k][i] =
               IF Of(c, k) /\ i = handle[c] THEN f ELSE connections[k][i]
  <2>1. c \in Conns /\ c # None
    BY <1>9, RoutingAssumption DEF TypeInv, TypeOK
  <2>2. chost[c] # None /\ handle[c] \in Handles
    BY <1>3, <2>1 DEF OwnershipInv, AllAreMade, HostsAreTaken
  <2> QED BY <1>9, <2>2 DEF Inserted, Of, TypeInv, TypeOK
<1>10. ASSUME NEW k \in Endpoints, c # None, Of(c, k)
       PROVE  slab[k][handle[c]] \in {None, c}
  BY <1>3, <1>7, <1>10 DEF OwnershipInv, SuccessorWaits
<1>11. \A e \in Entities : Leaving(e)' <=> Leaving(e)
  BY <1>1, <1>5 DEF Leaving
<1>12. VisitedOnce'
  BY <1>1, <1>5 DEF OwnershipInv, VisitedOnce
<1>13. \A k \in Endpoints :
        Waiting(k)' = Waiting(k) /\ (CaughtUp(k)' <=> CaughtUp(k))
  BY <1>1 DEF Waiting, CaughtUp
<1>14. \A d, k : Of(d, k)' <=> Of(d, k)
  BY <1>1 DEF Of
<1>15. RoutesLeadHome'
  <2> SUFFICES ASSUME NEW e \in Entities, NEW k \in Endpoints, comp[e] # None,
                      host[k] = chost[comp[e]],
                      slab[k][handle[comp[e]]] = comp[e]
               PROVE  connections'[k][handle[comp[e]]] = e
    BY <1>1 DEF RoutesLeadHome
  <2>1. connections[k][handle[comp[e]]] = e
    BY DEF OwnershipInv, RoutesLeadHome
  <2>2. CASE c \in connecting /\ connections' = Inserted(c, f)
    <3>1. handle[comp[e]] \in Handles /\ c # None
      BY <2>2, RoutingAssumption
      DEF OwnershipInv, AllAreMade, HostsAreTaken, TypeInv, TypeOK
    <3>2. Of(c, k) /\ handle[comp[e]] = handle[c] => comp[e] = c
      BY <1>10, <3>1
    <3>3. comp[e] = c => e = f
      BY <1>3 DEF OwnershipInv, OneEntityEach
    <3> QED BY <1>9, <2>1, <2>2, <3>1, <3>2, <3>3
  <2>3. CASE connections' = connections
    BY <2>1, <2>3
  <2> QED BY <1>8, <2>2, <2>3
<1> HIDE DEF f, c
<1>16. /\ NobodyObserves' /\ OneEndpointPerHost' /\ OneEntityEach' /\ HostsAreTaken'
       /\ AllAreMade' /\ HeldIsFresh'
  BY <1>1, <1>2
  DEF OwnershipInv, NobodyObserves, OneEndpointPerHost, OneEntityEach,
      HostsAreTaken, AllAreMade, HeldIsFresh
<1>17. /\ DroppedIsEmpty' /\ WaitingIsOnWire' /\ WaitingIsOwned' /\ HeldOwns'
       /\ PresentOwns'
  BY <1>1, <1>13, <1>14
  DEF OwnershipInv, DroppedIsEmpty, WaitingIsOnWire, WaitingIsOwned, HeldOwns,
      PresentOwns
<1>18. SuccessorWaits' /\ WaitingIsForIt'
  BY <1>1, <1>11, <1>13, <1>14 DEF OwnershipInv, SuccessorWaits, WaitingIsForIt
<1> QED BY <1>12, <1>15, <1>16, <1>17, <1>18 DEF OwnershipInv

-----------------------------------------------------------------------------
(* poll_connections *)

\* A connection that drains there frees its own handle: it has not drained
\* before, so the handle is its own.
LEMMA PolledOwnership ==
  ASSUME TypeInv, OwnershipInv, NEW f \in Entities, PollConnection(f)
  PROVE  OwnershipInv'
<1> USE DEF endpointVars, connVars, historyVars, scheduleVars
<1> DEFINE c == comp[f]
<1>1. /\ UNCHANGED <<host, connections, receiver, handle, chost, held, comp,
                     hosted, pc, observing>>
      /\ pc = "poll_connections" /\ f \in todo /\ todo' = todo \ {f}
      /\ onWire' = onWire \cup {c} /\ c \notin drained
  BY DEF PollConnection, Visiting, Running, Polled
<1>2. c \in Conns /\ c # None
  BY <1>1, RoutingAssumption DEF TypeInv, TypeOK, StageInv
<1>3. chost[c] # None /\ handle[c] \in Handles /\ c \notin held
  BY <1>2 DEF OwnershipInv, AllAreMade, HostsAreTaken, HeldIsFresh
<1>4. \/ drained' = drained /\ slab' = slab
      \/ /\ drained' = drained \cup {c}
         /\ \A k \in Endpoints, i \in Handles :
              slab'[k][i] = IF k \in PolledAgainst(c) /\ i = handle[c]
                            THEN None ELSE slab[k][i]
  BY <1>3 DEF PollConnection, TypeInv, TypeOK
<1>5. \A k \in PolledAgainst(c) : Of(c, k) /\ slab[k][handle[c]] = c
  <2>1. \A k \in PolledAgainst(c) : Of(c, k)
    BY <1>3 DEF PolledAgainst, Of
  <2>2. PolledAgainst(c) \subseteq Endpoints
    BY DEF PolledAgainst
  <2> QED BY <1>1, <1>2, <2>1, <2>2 DEF OwnershipInv, PresentOwns
<1>6. PICK news \in PollNews(f) : commands' = commands \o news
  BY DEF PollConnection
<1>7. /\ \A e : Queued("remove", e)' <=> Queued("remove", e)
      /\ \A e : Queued("establish", e)' => (Queued("establish", e) \/ e = f)
  BY <1>6, QueuedByPolled
<1>8. VisitedOnce'
  BY <1>1, <1>7 DEF OwnershipInv, VisitedOnce
<1>9. \A e \in Entities : comp[e] # None /\ e # f => comp[e] # c
  BY <1>2 DEF OwnershipInv, OneEntityEach
<1>10. ~Leaving(f) /\ \A e \in Entities : comp[e] # None =>
         (Leaving(e) => Leaving(e)')
  BY <1>1, <1>4, <1>7 DEF Leaving
<1>11. \A k \in Endpoints : Waiting(k)' = Waiting(k) /\ ~CaughtUp(k) /\ ~CaughtUp(k)'
  BY <1>1 DEF Waiting, CaughtUp
<1>12. \A d, k : Of(d, k)' <=> Of(d, k)
  BY <1>1 DEF Of
<1>13. \A k \in Endpoints, i \in Handles :
         \/ slab'[k][i] = slab[k][i]
         \/ slab'[k][i] = None /\ slab[k][i] = c /\ c \in drained'
  BY <1>4, <1>5
<1>14. drained \subseteq drained' /\ drained' \subseteq drained \cup {c}
  BY <1>4
<1>15. \A d \in Conns : chost[d] # None => handle[d] \in Handles
  BY DEF OwnershipInv, HostsAreTaken
<1>16. (\A e \in Entities : comp[e] # None => comp[e] \in Conns) /\ held \subseteq Conns
  BY DEF TypeInv, TypeOK
<1>17. \A k \in Endpoints : \A w \in Waiting(k) : w.handle \in Handles
  BY WaitingAreEvents
<1> HIDE DEF c
<1>18. NobodyObserves' /\ OneEndpointPerHost' /\ OneEntityEach' /\ HostsAreTaken'
  BY <1>1
  DEF OwnershipInv, NobodyObserves, OneEndpointPerHost, OneEntityEach,
      HostsAreTaken
<1>19. AllAreMade' /\ HeldIsFresh'
  BY <1>1, <1>3, <1>14 DEF OwnershipInv, AllAreMade, HeldIsFresh
<1>20. DroppedIsEmpty' /\ WaitingIsOnWire'
  BY <1>1, <1>11 DEF OwnershipInv, DroppedIsEmpty, WaitingIsOnWire
<1>21. HeldOwns'
  BY <1>1, <1>3, <1>12, <1>13, <1>15, <1>16 DEF OwnershipInv, HeldOwns, Of
<1>22. PresentOwns'
  BY <1>1, <1>9, <1>12, <1>13, <1>14, <1>15, <1>16
  DEF OwnershipInv, PresentOwns, Of, c
<1>23. SuccessorWaits'
  BY <1>1, <1>10, <1>12, <1>13, <1>15, <1>16 DEF OwnershipInv, SuccessorWaits, Of
<1>24. WaitingIsOwned'
  BY <1>11, <1>13, <1>17 DEF OwnershipInv, WaitingIsOwned
<1>25. WaitingIsForIt'
  BY <1>1, <1>10, <1>11, <1>12 DEF OwnershipInv, WaitingIsForIt
<1>26. RoutesLeadHome'
  <2> SUFFICES ASSUME NEW e \in Entities, NEW k \in Endpoints, comp[e] # None,
                      host[k] = chost[comp[e]],
                      slab'[k][handle[comp[e]]] = comp[e]
               PROVE  connections[k][handle[comp[e]]] = e
    BY <1>1 DEF RoutesLeadHome
  <2>1. handle[comp[e]] \in Handles
    BY <1>15, <1>16 DEF OwnershipInv, AllAreMade
  <2>2. slab[k][handle[comp[e]]] = comp[e]
    BY <1>13, <2>1
  <2> QED BY <2>2 DEF OwnershipInv, RoutesLeadHome
<1> QED
  BY <1>8, <1>18, <1>19, <1>20, <1>21, <1>22, <1>23, <1>24, <1>25, <1>26
  DEF OwnershipInv

-----------------------------------------------------------------------------
(* The theorems *)

LEMMA NextOwnership ==
  ASSUME Plain
  PROVE  TypeInv /\ OwnershipInv /\ [Next]_vars => OwnershipInv'
<1> SUFFICES ASSUME TypeInv, OwnershipInv, [Next]_vars PROVE OwnershipInv'
  OBVIOUS
<1>1. CASE PollEndpoints
  BY <1>1, PollEndpointsCalm, DeliverOwnership, DrainOwnership DEF PollEndpoints
<1>2. CASE ApplyCommands
  BY <1>2, ApplyCommandsCalm, EstablishOwnership, EndpointsOwnership
  DEF ApplyCommands
<1>3. CASE PollConnections
  BY <1>3, PollConnectionsCalm, PolledOwnership DEF PollConnections
<1>4. CASE ApplicationStep
  <2>1. \A e \in Entities : ~TakeConnection(e)
    BY DEF TakeConnection, Plain
  <2> QED
    BY <1>4, <2>1, ConnectOwnership, InsertOwnership, GivingUpCalm,
       EndpointsOwnership, AcceptOwnership
    DEF ApplicationStep
<1>5. CASE Driver
  BY <1>5, ReceiveOwnership, OtherStepsCalm DEF Driver
<1>6. CASE \/ ObserverReturns \/ EndUpdate \/ EndIncomingResponses
           \/ UNCHANGED vars
  BY <1>6, OtherStepsCalm
<1> QED BY <1>1, <1>2, <1>3, <1>4, <1>5, <1>6 DEF Next, Schedule, Halted

\* The invariant holds, of applications that do reuse entities and move
\* Endpoints.
THEOREM OwnershipHolds == ASSUME Plain PROVE Spec => [](TypeInv /\ OwnershipInv)
<1>1. Init => TypeInv /\ OwnershipInv
  BY InitTypeInv, InitOwnership
<1>2. TypeInv /\ OwnershipInv /\ [Next]_vars => (TypeInv /\ OwnershipInv)'
  BY NextType, NextOwnership
<1> QED BY <1>1, <1>2, PTL DEF Spec

\* Every event poll_endpoints hands to a connection was routed by quinn to that
\* very connection (endpoint.rs:449-454): a connection that could be mistaken
\* for it by handle and entity is gone by the time the event is read.
THEOREM EventsComeHome == ASSUME Plain PROVE Spec => []EventsReachTheirConnection
<1>1. TypeInv /\ OwnershipInv => EventsReachTheirConnection
  <2> SUFFICES ASSUME TypeInv, OwnershipInv, NEW g \in Endpoints, Receiving(g),
                      EntityOf(g) # None,
                      Matches(g, Head(receiver[g]).handle, EntityOf(g))
               PROVE  comp[EntityOf(g)] = Head(receiver[g]).conn
    BY DEF EventsReachTheirConnection
  <2>1. EntityOf(g) \in Entities
    BY HeadEvent DEF TypeInv
  <2>2. comp[EntityOf(g)] # None /\ Of(comp[EntityOf(g)], g)
        /\ handle[comp[EntityOf(g)]] = Head(receiver[g]).handle
    BY <2>1 DEF Matches, Of, OwnershipInv, AllAreMade
  <2> QED BY <2>1, <2>2, HeadIsForIt
<1> QED BY <1>1, OwnershipHolds, PTL

\* The handle poll_endpoints frees for an event of a connection that is not on
\* its entity any more is that connection's, or free (endpoint.rs:457-469).
THEOREM DrainsAreItsOwn == ASSUME Plain PROVE Spec => []DrainsOnlyItsOwn
<1>1. TypeInv /\ OwnershipInv => DrainsOnlyItsOwn
  BY HeadWaits DEF DrainsOnlyItsOwn, OwnershipInv, WaitingIsOwned
<1> QED BY <1>1, OwnershipHolds, PTL

\* A connection poll_connections polls owns its handle in the endpoint it is
\* polled against (connection.rs:753-757, 828-831).
THEOREM PolledIsOwner == ASSUME Plain PROVE Spec => []PolledOwnsItsHandle
<1>1. TypeInv /\ OwnershipInv => PolledOwnsItsHandle
  <2> SUFFICES ASSUME TypeInv, OwnershipInv, NEW e \in Entities, Visiting(e),
                      Polled(e), NEW g \in PolledAgainst(comp[e])
               PROVE  slab[g][handle[comp[e]]] = comp[e]
    BY DEF PolledOwnsItsHandle
  <2>1. comp[e] # None /\ comp[e] \notin drained
    BY DEF Visiting, Running, Polled, TypeInv, StageInv
  <2>2. g \in Endpoints /\ Of(comp[e], g)
    BY <2>1 DEF PolledAgainst, Of, OwnershipInv, AllAreMade
  <2> QED BY <2>1, <2>2 DEF OwnershipInv, PresentOwns
<1> QED BY <1>1, OwnershipHolds, PTL

\* A connection on an entity that owns its handle is found there through the
\* map (endpoint.rs:376).
THEOREM RoutesComeHome == ASSUME Plain PROVE Spec => []RoutesLeadHome
<1>1. TypeInv /\ OwnershipInv => RoutesLeadHome
  BY DEF OwnershipInv
<1> QED BY <1>1, OwnershipHolds, PTL
=============================================================================
