------------------------ MODULE EndpointRouting_proofs ------------------------
(***************************************************************************)
(* Theorems about EndpointRouting, for every value of its constants.       *)
(***************************************************************************)
EXTENDS EndpointRouting, TLAPS

\* Type correctness needs what the schedule guarantees, and the other way round.
TypeInv == TypeOK /\ StageInv

-----------------------------------------------------------------------------
(* Types *)

LEMMA InitTypeInv == Init => TypeInv
<1> SUFFICES ASSUME Init PROVE TypeInv
  OBVIOUS
<1>1. connections \in [Endpoints -> [Handles -> Entities \cup {None}]]
  BY DEF Init
<1>2. slab \in [Endpoints -> [Handles -> Conns \cup {None}]]
  BY DEF Init
<1>3. receiver \in [Endpoints -> Seq(Events)] /\ commands \in Seq(Commands)
  BY DEF Init
<1>4. TypeOK
  BY <1>1, <1>2, <1>3 DEF Init, TypeOK, Stages
<1>5. StageInv
  BY DEF Init, StageInv
<1> QED BY <1>4, <1>5 DEF TypeInv

LEMMA InsertedType ==
  ASSUME TypeOK, NEW c \in Conns, NEW e \in Entities
  PROVE  Inserted(c, e) \in [Endpoints -> [Handles -> Entities \cup {None}]]
  BY DEF Inserted, TypeOK

LEMMA DropType ==
  ASSUME TypeOK, NEW G, Drop(G)
  PROVE  /\ connections' \in [Endpoints -> [Handles -> Entities \cup {None}]]
         /\ slab' \in [Endpoints -> [Handles -> Conns \cup {None}]]
         /\ receiver' \in [Endpoints -> Seq(Events)]
<1>1. <<>> \in Seq(Events)
  OBVIOUS
<1>2. connections' \in [Endpoints -> [Handles -> Entities \cup {None}]]
  BY DEF Drop, TypeOK
<1>3. slab' \in [Endpoints -> [Handles -> Conns \cup {None}]]
  BY DEF Drop, TypeOK
<1> QED BY <1>1, <1>2, <1>3 DEF Drop, TypeOK

\* The first event of a non-empty channel is an event, and so are the others.
LEMMA HeadEvent ==
  ASSUME TypeOK, NEW g \in Endpoints, Receiving(g)
  PROVE  /\ Head(receiver[g]) \in Events
         /\ Tail(receiver[g]) \in Seq(Events)
         /\ Head(receiver[g]).handle \in Handles
         /\ EntityOf(g) \in Entities \cup {None}
<1>1. receiver[g] \in Seq(Events) /\ receiver[g] # <<>>
  BY DEF Receiving, TypeOK
<1>2. Head(receiver[g]) \in Events /\ Tail(receiver[g]) \in Seq(Events)
  BY <1>1
<1>3. Head(receiver[g]).handle \in Handles
  BY <1>2 DEF Events
<1> QED BY <1>2, <1>3 DEF EntityOf, TypeOK

LEMMA HeadCommand ==
  ASSUME TypeOK, NEW do, Applying(do)
  PROVE  /\ Head(commands) \in Commands
         /\ Head(commands).do = do
         /\ commands' \in Seq(Commands)
         /\ do \in {"establish", "remove"} => Head(commands).on \in Entities
         /\ do = "remove_endpoint" => Head(commands).on \in Hosts
<1>1. commands \in Seq(Commands) /\ commands # <<>>
  BY DEF Applying, TypeOK
<1>2. Head(commands) \in Commands /\ Tail(commands) \in Seq(Commands)
  BY <1>1
<1> QED BY <1>2 DEF Applying, Commands

LEMMA ShortSequences ==
  ASSUME NEW S, NEW a \in S, NEW b \in S
  PROVE  <<>> \in Seq(S) /\ <<a>> \in Seq(S) /\ <<a, b>> \in Seq(S)
  OBVIOUS

\* Appending well-formed commands.
LEMMA QueuedType ==
  ASSUME TypeOK
  PROVE  /\ \A e \in Entities \cup Hosts :
              Append(commands, Command("trigger", e)) \in Seq(Commands)
         /\ \A e \in Entities :
              Append(commands, Command("remove", e)) \in Seq(Commands)
         /\ \A e \in Entities :
              commands \o <<Command("trigger", e), Command("remove", e)>>
                \in Seq(Commands)
         /\ \A x \in Hosts :
              commands \o <<Command("trigger", x), Command("remove_endpoint", x)>>
                \in Seq(Commands)
         /\ \A e \in Entities : \A news \in PollNews(e) :
              commands \o news \in Seq(Commands)
<1>1. commands \in Seq(Commands)
  BY DEF TypeOK
<1>2. /\ \A e \in Entities \cup Hosts : Command("trigger", e) \in Commands
      /\ \A e \in Entities : Command("remove", e) \in Commands
      /\ \A e \in Entities : Command("establish", e) \in Commands
      /\ \A x \in Hosts : Command("remove_endpoint", x) \in Commands
  BY DEF Command, Commands
<1>3. ASSUME NEW e \in Entities, NEW news \in PollNews(e)
      PROVE  news \in Seq(Commands)
  <2> DEFINE trigger == Command("trigger", e)
             establish == Command("establish", e)
  <2>1. trigger \in Commands /\ establish \in Commands
    BY <1>2
  <2>2. \/ news = <<>>
        \/ news = <<trigger>>
        \/ news = <<establish>>
        \/ news = <<trigger, establish>>
    BY <1>3 DEF PollNews
  <2>3. /\ <<>> \in Seq(Commands)
        /\ <<trigger>> \in Seq(Commands)
        /\ <<establish>> \in Seq(Commands)
        /\ <<trigger, establish>> \in Seq(Commands)
    BY <2>1, ShortSequences
  <2> HIDE DEF trigger, establish
  <2> QED BY <2>2, <2>3, Zenon
<1> QED BY <1>1, <1>2, <1>3

LEMMA PollEndpointsType == TypeInv /\ PollEndpoints => TypeInv'
<1> SUFFICES ASSUME TypeInv, PollEndpoints PROVE TypeInv'
  OBVIOUS
<1> USE DEF endpointVars, connVars, historyVars, scheduleVars
<1>1. TypeOK
  BY DEF TypeInv
<1>2. ASSUME NEW g \in Endpoints, locked = g
      PROVE  host[g] \in Hosts
  BY <1>2, RoutingAssumption DEF TypeInv, TypeOK, StageInv
<1>3. ASSUME NEW g \in Endpoints, LockEndpoint(g) PROVE TypeInv'
  BY <1>3 DEF TypeInv, TypeOK, StageInv, LockEndpoint, Running
<1>4. ASSUME NEW g \in Endpoints, DeliverEvent(g) PROVE TypeInv'
  <2>1. Receiving(g) /\ EntityOf(g) # None /\ comp[EntityOf(g)] # None
    BY <1>4 DEF DeliverEvent, Matches
  <2>2. comp[EntityOf(g)] \in Conns
    BY <1>1, <2>1, HeadEvent DEF TypeOK
  <2>3. TypeOK'
    BY <1>1, <1>4, <2>1, <2>2, HeadEvent DEF DeliverEvent, TypeOK
  <2>4. StageInv'
    BY <1>4 DEF DeliverEvent, TypeInv, StageInv
  <2> QED BY <2>3, <2>4 DEF TypeInv
<1>5. ASSUME NEW g \in Endpoints, DrainOverwritten(g) PROVE TypeInv'
  <2>1. Receiving(g)
    BY <1>5 DEF DrainOverwritten
  <2>2. TypeOK'
    BY <1>1, <1>5, <2>1, HeadEvent DEF DrainOverwritten, TypeOK, Freed
  <2>3. StageInv'
    BY <1>5 DEF DrainOverwritten, TypeInv, StageInv
  <2> QED BY <2>2, <2>3 DEF TypeInv
<1>6. ASSUME NEW g \in Endpoints, DrainMissing(g) PROVE TypeInv'
  <2>1. Receiving(g) /\ host[g] \in Hosts
    BY <1>2, <1>6 DEF DrainMissing, Receiving
  <2>2. Append(commands, Command("trigger", host[g])) \in Seq(Commands)
    BY <1>1, <2>1, QueuedType
  <2>3. TypeOK'
    BY <1>1, <1>6, <2>1, <2>2, HeadEvent DEF DrainMissing, TypeOK, Freed
  <2>4. StageInv'
    BY <1>6 DEF DrainMissing, TypeInv, StageInv
  <2> QED BY <2>3, <2>4 DEF TypeInv
<1>7. ASSUME NEW g \in Endpoints, PanicUnmapped(g) PROVE TypeInv'
  BY <1>7 DEF TypeInv, TypeOK, StageInv, PanicUnmapped
<1>8. ASSUME NEW g \in Endpoints, HandleError(g) PROVE TypeInv'
  <2>1. host[g] \in Hosts
    BY <1>2, <1>8 DEF HandleError
  <2>2. commands' \in Seq(Commands)
    BY <1>1, <1>8, <2>1, QueuedType DEF HandleError
  <2>3. TypeOK'
    BY <1>1, <1>8, <2>2 DEF HandleError, TypeOK
  <2>4. StageInv'
    BY <1>8 DEF HandleError, TypeInv, StageInv
  <2> QED BY <2>3, <2>4 DEF TypeInv
<1>9. ASSUME NEW g \in Endpoints, UnlockEndpoint(g) PROVE TypeInv'
  BY <1>9, RoutingAssumption DEF TypeInv, TypeOK, StageInv, UnlockEndpoint
<1>10. CASE EndPollEndpoints
  BY <1>10 DEF TypeInv, TypeOK, StageInv, EndPollEndpoints, Running, Stages
<1> QED
  BY <1>3, <1>4, <1>5, <1>6, <1>7, <1>8, <1>9, <1>10 DEF PollEndpoints

LEMMA ApplyCommandsType == TypeInv /\ ApplyCommands => TypeInv'
<1> SUFFICES ASSUME TypeInv, ApplyCommands PROVE TypeInv'
  OBVIOUS
<1> USE DEF endpointVars, connVars, historyVars, scheduleVars
<1>1. TypeOK
  BY DEF TypeInv
<1>2. CASE ApplyTrigger
  <2>1. TypeOK'
    BY <1>1, <1>2, HeadCommand DEF ApplyTrigger, TypeOK
  <2>2. StageInv'
    BY <1>2 DEF ApplyTrigger, Applying, TypeInv, StageInv
  <2> QED BY <2>1, <2>2 DEF TypeInv
<1>3. CASE ApplyEstablish
  <2> DEFINE e == Head(commands).on
  <2>1. e \in Entities /\ commands' \in Seq(Commands)
    BY <1>1, <1>3, HeadCommand DEF ApplyEstablish
  <2>2. connecting' \in SUBSET Conns /\ observing' \in BOOLEAN
    <3>1. \/ connecting' = connecting \ {comp[e]}
             /\ observing' = ("observer" \in Uses)
          \/ connecting' = connecting /\ observing' = observing
      BY <1>3, Zenon DEF ApplyEstablish
    <3>2. connecting \in SUBSET Conns /\ observing \in BOOLEAN
      BY <1>1 DEF TypeOK
    <3>3. connecting' \in SUBSET Conns
      BY <3>1, <3>2
    <3>4. ("observer" \in Uses) \in BOOLEAN
      OBVIOUS
    <3>5. observing' = ("observer" \in Uses) \/ observing' = observing
      BY <3>1
    <3>6. observing' \in BOOLEAN
      BY <3>2, <3>4, <3>5, Zenon
    <3> QED BY <3>3, <3>6
  <2>3. connections' \in [Endpoints -> [Handles -> Entities \cup {None}]]
    <3>1. CASE comp[e] \in connecting
      <4>1. comp[e] \in Conns
        BY <1>1, <3>1 DEF TypeOK
      <4> QED BY <1>1, <1>3, <2>1, <3>1, <4>1, InsertedType DEF ApplyEstablish
    <3>2. CASE comp[e] \notin connecting
      BY <1>1, <1>3, <3>2 DEF ApplyEstablish, TypeOK
    <3> QED BY <3>1, <3>2
  <2>4. TypeOK'
    <3>1. panicked' \in BOOLEAN
      <4>1. panicked' \in {FALSE, comp[e] = None} \/ panicked' = panicked
        BY <1>3, Zenon DEF ApplyEstablish
      <4>2. panicked \in BOOLEAN /\ (comp[e] = None) \in BOOLEAN
        BY <1>1 DEF TypeOK
      <4> QED BY <4>1, <4>2, Zenon
    <3> QED
      BY <1>1, <1>3, <2>1, <2>2, <2>3, <3>1 DEF ApplyEstablish, TypeOK
  <2>5. StageInv'
    BY <1>3 DEF ApplyEstablish, Applying, TypeInv, StageInv
  <2> QED BY <2>4, <2>5 DEF TypeInv
<1>4. CASE ApplyRemove
  <2>1. TypeOK'
    BY <1>1, <1>4, HeadCommand DEF ApplyRemove, TypeOK
  <2>2. StageInv'
    BY <1>4 DEF ApplyRemove, Applying, TypeInv, StageInv
  <2> QED BY <2>1, <2>2 DEF TypeInv
<1>5. CASE ApplyRemoveEndpoint
  <2>1. Drop(EndpointsOn(Head(commands).on)) /\ commands' \in Seq(Commands)
    BY <1>1, <1>5, HeadCommand DEF ApplyRemoveEndpoint
  <2>2. host' \in [Endpoints -> Hosts \cup {None}]
    BY <1>1, <1>5 DEF ApplyRemoveEndpoint, TypeOK
  <2>3. TypeOK'
    BY <1>1, <1>5, <2>1, <2>2, DropType DEF ApplyRemoveEndpoint, TypeOK
  <2>4. StageInv'
    BY <1>5 DEF ApplyRemoveEndpoint, Applying, TypeInv, StageInv
  <2> QED BY <2>3, <2>4 DEF TypeInv
<1>6. CASE EndCommands
  BY <1>6 DEF EndCommands, TypeInv, TypeOK, StageInv, Stages
<1> QED BY <1>2, <1>3, <1>4, <1>5, <1>6 DEF ApplyCommands

LEMMA PollConnectionsType == TypeInv /\ PollConnections => TypeInv'
<1> SUFFICES ASSUME TypeInv, PollConnections PROVE TypeInv'
  OBVIOUS
<1> USE DEF endpointVars, connVars, historyVars, scheduleVars
<1>1. TypeOK
  BY DEF TypeInv
<1>2. ASSUME NEW e \in Entities, PollDrained(e) PROVE TypeInv'
  <2>1. commands' \in Seq(Commands)
    BY <1>1, <1>2, QueuedType DEF PollDrained
  <2>2. TypeOK'
    BY <1>1, <1>2, <2>1 DEF PollDrained, TypeOK
  <2>3. StageInv'
    BY <1>2 DEF PollDrained, Visiting, Running, TypeInv, StageInv
  <2> QED BY <2>2, <2>3 DEF TypeInv
<1>3. ASSUME NEW e \in Entities, PollOrphan(e) PROVE TypeInv'
  <2>1. commands' \in Seq(Commands)
    BY <1>1, <1>3, QueuedType DEF PollOrphan
  <2>2. TypeOK'
    BY <1>1, <1>3, <2>1 DEF PollOrphan, TypeOK
  <2>3. StageInv'
    BY <1>3 DEF PollOrphan, Visiting, Running, TypeInv, StageInv
  <2> QED BY <2>2, <2>3 DEF TypeInv
<1>4. ASSUME NEW e \in Entities, PollConnection(e) PROVE TypeInv'
  <2>1. commands' \in Seq(Commands)
    BY <1>1, <1>4, QueuedType DEF PollConnection
  <2>2. comp[e] \in Conns
    BY <1>4 DEF PollConnection, Visiting, Running, TypeInv, TypeOK, StageInv
  <2>3. drained' \in SUBSET Conns /\ onWire' \in SUBSET Conns
    BY <1>1, <1>4, <2>2 DEF PollConnection, TypeOK
  <2>4. slab' \in [Endpoints -> [Handles -> Conns \cup {None}]]
    <3>1. CASE UNCHANGED slab
      BY <1>1, <3>1 DEF TypeOK
    <3>2. CASE slab' = [g \in Endpoints |->
                 IF g \in PolledAgainst(comp[e])
                 THEN [slab[g] EXCEPT ![handle[comp[e]]] = None]
                 ELSE slab[g]]
      BY <1>1, <3>2 DEF TypeOK
    <3> QED BY <1>4, <3>1, <3>2 DEF PollConnection
  <2>5. TypeOK'
    BY <1>1, <1>4, <2>1, <2>3, <2>4 DEF PollConnection, TypeOK
  <2>6. StageInv'
    BY <1>4 DEF PollConnection, Visiting, Running, TypeInv, StageInv
  <2> QED BY <2>5, <2>6 DEF TypeInv
<1>5. CASE EndPollConnections
  BY <1>5 DEF EndPollConnections, Running, TypeInv, TypeOK, StageInv, Stages
<1> QED BY <1>2, <1>3, <1>4, <1>5 DEF PollConnections

\* Where the application runs, no system of the library does.
LEMMA ApplicationStage ==
  ASSUME TypeInv, Application
  PROVE  pc \notin {"poll_endpoints", "poll_connections"} /\ locked = None
  BY DEF Application, TypeInv, StageInv

LEMMA NewConnectionType ==
  ASSUME TypeOK, NEW c \in Conns, NEW g \in Endpoints, NEW h \in Handles,
         NewConnection(c, g, h)
  PROVE  /\ slab' \in [Endpoints -> [Handles -> Conns \cup {None}]]
         /\ handle' \in [Conns -> Handles \cup {None}]
         /\ chost' \in [Conns -> Hosts \cup {None}]
  BY DEF NewConnection, TypeOK

LEMMA ApplicationType == TypeInv /\ ApplicationStep => TypeInv'
<1> SUFFICES ASSUME TypeInv, ApplicationStep PROVE TypeInv'
  OBVIOUS
<1> USE DEF endpointVars, connVars, historyVars, scheduleVars
<1>1. TypeOK
  BY DEF TypeInv
<1>2. ASSUME NEW c \in Conns, NEW g \in Endpoints, NEW h \in Handles,
             Connect(c, g, h)
      PROVE  TypeInv'
  <2>1. TypeOK'
    BY <1>1, <1>2, NewConnectionType DEF Connect, TypeOK
  <2>2. StageInv'
    BY <1>2, ApplicationStage DEF Connect, TypeInv, StageInv
  <2> QED BY <2>1, <2>2 DEF TypeInv
<1>3. ASSUME NEW c \in Conns, NEW e \in Entities, InsertConnection(c, e)
      PROVE  TypeInv'
  <2>1. TypeOK'
    BY <1>1, <1>3, InsertedType DEF InsertConnection, TypeOK
  <2>2. StageInv'
    BY <1>3, ApplicationStage DEF InsertConnection, TypeInv, StageInv
  <2> QED BY <2>1, <2>2 DEF TypeInv
<1>4. ASSUME NEW c \in Conns, DropHeld(c) PROVE TypeInv'
  BY <1>4, ApplicationStage DEF DropHeld, TypeInv, TypeOK, StageInv
<1>5. ASSUME NEW e \in Entities, RemoveConnection(e) PROVE TypeInv'
  BY <1>5, ApplicationStage DEF RemoveConnection, TypeInv, TypeOK, StageInv
<1>6. ASSUME NEW e \in Entities, TakeConnection(e) PROVE TypeInv'
  BY <1>6, ApplicationStage DEF TakeConnection, TypeInv, TypeOK, StageInv
<1>7. ASSUME NEW g \in Endpoints, NEW x \in Hosts, InsertEndpoint(g, x)
      PROVE  TypeInv'
  <2>1. host' \in [Endpoints -> Hosts \cup {None}]
    BY <1>1, <1>7 DEF InsertEndpoint, TypeOK
  <2>2. TypeOK'
    BY <1>1, <1>7, <2>1, DropType DEF InsertEndpoint, TypeOK
  <2>3. StageInv'
    BY <1>7, ApplicationStage DEF InsertEndpoint, TypeInv, StageInv
  <2> QED BY <2>2, <2>3 DEF TypeInv
<1>8. ASSUME NEW g \in Endpoints, NEW x \in Hosts, MoveEndpoint(g, x)
      PROVE  TypeInv'
  <2>1. host' \in [Endpoints -> Hosts \cup {None}]
    BY <1>1, <1>8 DEF MoveEndpoint, TypeOK
  <2>2. TypeOK'
    BY <1>1, <1>8, <2>1, DropType DEF MoveEndpoint, TypeOK
  <2>3. StageInv'
    BY <1>8, ApplicationStage DEF MoveEndpoint, TypeInv, StageInv
  <2> QED BY <2>2, <2>3 DEF TypeInv
<1>9. ASSUME NEW g \in Endpoints, RemoveEndpoint(g) PROVE TypeInv'
  <2>1. TypeOK'
    BY <1>1, <1>9, DropType DEF RemoveEndpoint, TypeOK
  <2>2. StageInv'
    BY <1>9, ApplicationStage DEF RemoveEndpoint, TypeInv, StageInv
  <2> QED BY <2>1, <2>2 DEF TypeInv
<1>10. ASSUME NEW c \in Conns, NEW g \in Endpoints, NEW h \in Handles,
              NEW e \in Entities, AcceptIncoming(c, g, h, e)
       PROVE  TypeInv'
  <2>1. connections' \in [Endpoints -> [Handles -> Entities \cup {None}]]
    BY <1>1, <1>10 DEF AcceptIncoming, TypeOK
  <2>2. TypeOK'
    BY <1>1, <1>10, <2>1, NewConnectionType DEF AcceptIncoming, TypeOK
  <2>3. StageInv'
    BY <1>10 DEF AcceptIncoming, Running, TypeInv, StageInv
  <2> QED BY <2>2, <2>3 DEF TypeInv
<1> QED BY <1>2, <1>3, <1>4, <1>5, <1>6, <1>7, <1>8, <1>9, <1>10
        DEF ApplicationStep

LEMMA DriverType == TypeInv /\ Driver => TypeInv'
<1> SUFFICES ASSUME TypeInv, Driver PROVE TypeInv'
  OBVIOUS
<1> USE DEF endpointVars, connVars, historyVars, scheduleVars
<1>1. ASSUME NEW g \in Endpoints, NEW h \in Handles, Receive(g, h)
      PROVE  TypeInv'
  <2>1. [handle |-> h, conn |-> slab[g][h]] \in Events
    BY <1>1 DEF Receive, TypeInv, TypeOK, Events
  <2>2. receiver' \in [Endpoints -> Seq(Events)]
    BY <1>1, <2>1 DEF Receive, TypeInv, TypeOK
  <2>3. TypeOK'
    BY <1>1, <2>2 DEF Receive, TypeInv, TypeOK
  <2>4. StageInv'
    BY <1>1 DEF Receive, TypeInv, StageInv
  <2> QED BY <2>3, <2>4 DEF TypeInv
<1>2. ASSUME NEW g \in Endpoints, DriverFails(g) PROVE TypeInv'
  BY <1>2 DEF DriverFails, TypeInv, TypeOK, StageInv
<1>4. ASSUME NEW g \in Endpoints, DriverLocks(g) PROVE TypeInv'
  BY <1>4 DEF DriverLocks, TypeInv, TypeOK, StageInv
<1>5. ASSUME NEW g \in Endpoints, DriverUnlocks(g) PROVE TypeInv'
  BY <1>5 DEF DriverUnlocks, TypeInv, TypeOK, StageInv
<1>3. ASSUME NEW g \in Endpoints, DriverStops(g) PROVE TypeInv'
  BY <1>3 DEF DriverStops, TypeInv, TypeOK, StageInv
<1> QED BY <1>1, <1>2, <1>3, <1>4, <1>5 DEF Driver

LEMMA NextType == TypeInv /\ [Next]_vars => TypeInv'
<1> SUFFICES ASSUME TypeInv, [Next]_vars PROVE TypeInv'
  OBVIOUS
<1> USE DEF endpointVars, connVars, historyVars, scheduleVars
<1>1. CASE ObserverReturns
  BY <1>1 DEF ObserverReturns, TypeInv, TypeOK, StageInv
<1>2. CASE EndUpdate
  BY <1>2 DEF EndUpdate, Running, TypeInv, TypeOK, StageInv, Stages
<1>3. CASE EndIncomingResponses
  BY <1>3 DEF EndIncomingResponses, Running, TypeInv, TypeOK, StageInv, Stages
<1>4. CASE UNCHANGED vars
  BY <1>4 DEF vars, TypeInv, TypeOK, StageInv
<1> QED
  BY <1>1, <1>2, <1>3, <1>4, PollEndpointsType, ApplyCommandsType,
     PollConnectionsType, ApplicationType, DriverType
  DEF Next, Schedule, Halted

\* Every variable keeps its type, and the systems run as scheduled: no observer
\* and no application step runs inside a system, locks are held by
\* poll_endpoints only, and what a system iterates over stays there.
THEOREM TypeCorrect == Spec => [](TypeOK /\ StageInv)
<1>1. Init => TypeInv
  BY InitTypeInv
<1>2. TypeInv /\ [Next]_vars => TypeInv'
  BY NextType
<1>3. TypeInv => TypeOK /\ StageInv
  BY DEF TypeInv
<1> QED BY <1>1, <1>2, <1>3, PTL DEF Spec

-----------------------------------------------------------------------------
(* No event is unmapped *)

LEMMA InitRouting == Init => RoutingInv
  BY DEF Init, RoutingInv, OneEndpointPerHost, UnbuiltIsNowhere,
         DroppedOwnsNothing, UsedConnections, SlabAgrees, ReachableIsMapped,
         RoutesAreToCarriers, RoutesMatch, QueuedIsMapped, Matches

\* Nothing RoutingInv speaks of changes.
LEMMA RoutingStutter ==
  ASSUME RoutingInv,
         UNCHANGED <<host, connections, slab, receiver, handle, chost, held,
                     comp, onWire, carried>>,
         \A g \in Endpoints : driver'[g] = "unbuilt" => driver[g] = "unbuilt"
  PROVE  RoutingInv'
  BY DEF RoutingInv, OneEndpointPerHost, UnbuiltIsNowhere, DroppedOwnsNothing,
         UsedConnections, SlabAgrees, ReachableIsMapped, RoutesAreToCarriers,
         RoutesMatch, QueuedIsMapped, Matches

\* The elements of a channel's tail are elements of the channel.
LEMMA TailQueued ==
  ASSUME TypeInv, RoutingInv, NEW g \in Endpoints, Receiving(g),
         receiver' = [receiver EXCEPT ![g] = Tail(@)]
  PROVE  \A k \in Endpoints : \A i \in DOMAIN receiver'[k] :
           connections[k][receiver'[k][i].handle] # None
<1> SUFFICES ASSUME NEW k \in Endpoints, NEW i \in DOMAIN receiver'[k]
             PROVE  connections[k][receiver'[k][i].handle] # None
  OBVIOUS
<1>1. receiver \in [Endpoints -> Seq(Events)] /\ receiver[g] # <<>>
  BY DEF TypeInv, TypeOK, Receiving
<1>2. CASE k = g
  <2>1. receiver[g] \in Seq(Events) /\ receiver'[k] = Tail(receiver[g])
    BY <1>1, <1>2
  <2>2. i + 1 \in DOMAIN receiver[g] /\ receiver'[k][i] = receiver[g][i + 1]
    BY <1>1, <2>1
  <2> QED BY <1>2, <2>2 DEF RoutingInv, QueuedIsMapped
<1>3. CASE k # g
  BY <1>1, <1>3 DEF RoutingInv, QueuedIsMapped
<1> QED BY <1>2, <1>3

\* The first event of a channel is mapped, and its route is not to another
\* connection.
LEMMA HeadMapped ==
  ASSUME TypeInv, RoutingInv, NEW g \in Endpoints, Receiving(g)
  PROVE  /\ EntityOf(g) # None
         /\ comp[EntityOf(g)] # None =>
              Matches(g, Head(receiver[g]).handle, EntityOf(g))
<1>1. receiver[g] \in Seq(Events) /\ receiver[g] # <<>>
  BY DEF TypeInv, TypeOK, Receiving
<1>2. 1 \in DOMAIN receiver[g] /\ Head(receiver[g]) = receiver[g][1]
  BY <1>1
<1>3. EntityOf(g) # None
  BY <1>2 DEF EntityOf, RoutingInv, QueuedIsMapped
<1>4. Head(receiver[g]).handle \in Handles
  BY HeadEvent DEF TypeInv
<1> QED BY <1>3, <1>4 DEF EntityOf, RoutingInv, RoutesMatch

LEMMA PollEndpointsRouting ==
  TypeInv /\ RoutingInv /\ PollEndpoints => RoutingInv'
<1> SUFFICES ASSUME TypeInv, RoutingInv, PollEndpoints PROVE RoutingInv'
  OBVIOUS
<1> USE DEF endpointVars, connVars, historyVars, scheduleVars
<1>1. ASSUME NEW g \in Endpoints, DeliverEvent(g) PROVE RoutingInv'
  <2>1. Receiving(g) /\ receiver' = [receiver EXCEPT ![g] = Tail(@)]
    BY <1>1 DEF DeliverEvent
  <2>2. QueuedIsMapped'
    BY <1>1, <2>1, TailQueued DEF DeliverEvent, QueuedIsMapped
  <2>3. DroppedOwnsNothing'
    BY <1>1, <2>1
    DEF DeliverEvent, Receiving, RoutingInv, DroppedOwnsNothing, TypeInv, TypeOK
  <2> QED
    BY <1>1, <2>2, <2>3
    DEF DeliverEvent, RoutingInv, OneEndpointPerHost, UnbuiltIsNowhere,
        UsedConnections, SlabAgrees, ReachableIsMapped, RoutesAreToCarriers,
        RoutesMatch, Matches
<1>2. ASSUME NEW g \in Endpoints, DrainOverwritten(g) PROVE RoutingInv'
  BY <1>2, HeadMapped DEF DrainOverwritten
<1>3. ASSUME NEW g \in Endpoints, DrainMissing(g) PROVE RoutingInv'
  <2>1. Receiving(g) /\ receiver' = [receiver EXCEPT ![g] = Tail(@)]
    BY <1>3 DEF DrainMissing
  <2>2. QueuedIsMapped'
    BY <1>3, <2>1, TailQueued DEF DrainMissing, QueuedIsMapped
  <2>3. \A k \in Endpoints, h \in Handles :
          slab'[k][h] = slab[k][h] \/ slab'[k][h] = None
    BY <1>3 DEF DrainMissing, Freed, TypeInv, TypeOK
  <2>4. DroppedOwnsNothing'
    BY <1>3, <2>1, <2>3
    DEF DrainMissing, Receiving, RoutingInv, DroppedOwnsNothing, TypeInv, TypeOK
  <2>5. SlabAgrees'
    BY <1>3, <2>3 DEF DrainMissing, RoutingInv, SlabAgrees
  <2>6. ReachableIsMapped'
    <3>1. None \notin onWire /\ onWire' = onWire /\ connections' = connections
      BY <1>3, RoutingAssumption DEF DrainMissing, TypeInv, TypeOK
    <3> QED BY <2>3, <3>1 DEF RoutingInv, ReachableIsMapped
  <2> QED
    BY <1>3, <2>2, <2>4, <2>5, <2>6
    DEF DrainMissing, RoutingInv, OneEndpointPerHost, UnbuiltIsNowhere,
        UsedConnections, RoutesAreToCarriers, RoutesMatch, Matches
<1>4. ASSUME NEW g \in Endpoints, PanicUnmapped(g) PROVE RoutingInv'
  BY <1>4, HeadMapped DEF PanicUnmapped
<1>5. ASSUME NEW g \in Endpoints,
             LockEndpoint(g) \/ HandleError(g) \/ UnlockEndpoint(g)
      PROVE  RoutingInv'
  BY <1>5, RoutingStutter
  DEF LockEndpoint, HandleError, UnlockEndpoint, TypeInv, TypeOK
<1>6. CASE EndPollEndpoints
  BY <1>6, RoutingStutter DEF EndPollEndpoints
<1> QED BY <1>1, <1>2, <1>3, <1>4, <1>5, <1>6 DEF PollEndpoints

\* Endpoints of G are dropped, and the others stay where they are, but for one
\* perhaps that was nowhere.
LEMMA DropRouting ==
  ASSUME TypeInv, RoutingInv, NEW G \in SUBSET Endpoints, Drop(G),
         UNCHANGED <<handle, chost, held, comp, onWire, carried>>,
         \A g \in Endpoints \ G : host'[g] = host[g] \/ host[g] = None,
         OneEndpointPerHost', UnbuiltIsNowhere'
  PROVE  RoutingInv'
<1>1. None \notin onWire /\ UsedConnections'
  BY RoutingAssumption
  DEF TypeInv, TypeOK, RoutingInv, UsedConnections
<1>2. ASSUME NEW g \in G
      PROVE  /\ receiver'[g] = <<>>
             /\ \A h \in Handles : connections'[g][h] = None /\ slab'[g][h] = None
  BY DEF Drop
<1>3. ASSUME NEW g \in Endpoints \ G
      PROVE  /\ receiver'[g] = receiver[g]
             /\ connections'[g] = connections[g]
             /\ slab'[g] = slab[g]
             /\ host'[g] = host[g] \/
                  (/\ receiver[g] = <<>>
                   /\ \A h \in Handles : connections[g][h] = None
                                           /\ slab[g][h] = None)
  BY DEF Drop, RoutingInv, DroppedOwnsNothing
<1>4. DroppedOwnsNothing'
  BY <1>2, <1>3 DEF RoutingInv, DroppedOwnsNothing
<1>5. SlabAgrees'
  BY <1>2, <1>3 DEF RoutingInv, SlabAgrees
<1>6. ReachableIsMapped'
  BY <1>1, <1>2, <1>3 DEF RoutingInv, ReachableIsMapped
<1>7. RoutesAreToCarriers'
  BY <1>2, <1>3 DEF RoutingInv, RoutesAreToCarriers
<1>8. RoutesMatch'
  BY <1>2, <1>3 DEF RoutingInv, RoutesMatch, Matches
<1>9. QueuedIsMapped'
  BY <1>2, <1>3 DEF RoutingInv, QueuedIsMapped
<1> QED BY <1>1, <1>4, <1>5, <1>6, <1>7, <1>8, <1>9 DEF RoutingInv

\* The connection c is on entity e from now on, and recorded there.
LEMMA InsertedRouting ==
  ASSUME TypeInv, RoutingInv, NEW c \in Conns, NEW e \in Entities,
         chost[c] # None, connections' = Inserted(c, e),
         comp' = [comp EXCEPT ![e] = c], carried' = carried \cup {e},
         comp[e] = c \/ e \notin carried, held' \subseteq held,
         UNCHANGED <<host, slab, receiver, handle, chost, onWire, driver>>
  PROVE  RoutingInv'
<1>1. e \in Entities /\ e # None /\ c # None /\ handle[c] \in Handles
  BY RoutingAssumption DEF RoutingInv, UsedConnections
<1>2. ASSUME NEW g \in Endpoints, NEW h \in Handles
      PROVE  \/ connections'[g][h] = connections[g][h]
             \/ h = handle[c] /\ host[g] = chost[c] /\ connections'[g][h] = e
  BY <1>1 DEF Inserted, TypeInv, TypeOK
<1>3. comp'[e] = c /\ \A k \in Entities : k # e => comp'[k] = comp[k]
  BY DEF TypeInv, TypeOK
<1>4. DroppedOwnsNothing'
  BY <1>2 DEF RoutingInv, DroppedOwnsNothing
<1>5. UsedConnections'
  BY <1>3 DEF RoutingInv, UsedConnections
<1>6. ReachableIsMapped'
  BY <1>1, <1>2 DEF RoutingInv, ReachableIsMapped
<1>7. RoutesAreToCarriers'
  BY <1>2 DEF RoutingInv, RoutesAreToCarriers
<1>8. RoutesMatch'
  <2> SUFFICES ASSUME NEW g \in Endpoints, NEW h \in Handles,
                      NEW k \in Entities, connections'[g][h] = k,
                      comp'[k] # None
               PROVE  handle[comp'[k]] = h /\ chost[comp'[k]] = host[g]
    <3>1. RoutesAreToCarriers' /\ carried' \subseteq Entities
      BY <1>7 DEF TypeInv, TypeOK
    <3> QED BY <3>1 DEF RoutesMatch, RoutesAreToCarriers, Matches
  <2>1. CASE k = e /\ h = handle[c] /\ host[g] = chost[c]
    BY <1>3, <2>1
  <2>2. CASE k = connections[g][h]
    <3>1. k \in carried /\ k # None
      BY <2>2, RoutingAssumption
      DEF RoutingInv, RoutesAreToCarriers, TypeInv, TypeOK
    <3>2. comp'[k] = comp[k]
      BY <1>3, <3>1
    <3> QED BY <2>2, <3>1, <3>2 DEF RoutingInv, RoutesMatch, Matches
  <2> QED BY <1>2, <2>1, <2>2
<1>9. QueuedIsMapped'
  <2> SUFFICES ASSUME NEW g \in Endpoints, NEW i \in DOMAIN receiver[g]
               PROVE  connections'[g][receiver[g][i].handle] # None
    BY DEF QueuedIsMapped
  <2>1. receiver[g][i].handle \in Handles
    <3>1. receiver[g] \in Seq(Events)
      BY DEF TypeInv, TypeOK
    <3>2. receiver[g][i] \in Events
      BY <3>1
    <3> QED BY <3>2 DEF Events
  <2> QED BY <1>1, <1>2, <2>1 DEF RoutingInv, QueuedIsMapped
<1> QED
  BY <1>4, <1>5, <1>6, <1>7, <1>8, <1>9
  DEF RoutingInv, OneEndpointPerHost, UnbuiltIsNowhere, SlabAgrees

LEMMA ApplyCommandsRouting ==
  TypeInv /\ RoutingInv /\ ApplyCommands => RoutingInv'
<1> SUFFICES ASSUME TypeInv, RoutingInv, ApplyCommands PROVE RoutingInv'
  OBVIOUS
<1> USE DEF endpointVars, connVars, historyVars, scheduleVars
<1>1. CASE ApplyTrigger
  BY <1>1, RoutingStutter DEF ApplyTrigger
<1>2. CASE ApplyEstablish
  <2> DEFINE e == Head(commands).on
  <2>1. e \in Entities
    BY <1>2, HeadCommand DEF ApplyEstablish, TypeInv
  <2>2. CASE comp[e] \in connecting
    <3>1. comp[e] \in Conns /\ comp[e] # None
      BY <2>2, RoutingAssumption DEF TypeInv, TypeOK
    <3>2. e \in carried /\ chost[comp[e]] # None
      BY <2>1, <3>1 DEF RoutingInv, UsedConnections
    <3>3. comp = [comp EXCEPT ![e] = comp[e]] /\ carried = carried \cup {e}
      BY <2>1, <3>2 DEF TypeInv, TypeOK
    <3>4. connections' = Inserted(comp[e], e)
      BY <1>2, <2>2 DEF ApplyEstablish
    <3> QED
      BY <1>2, <2>1, <3>1, <3>2, <3>3, <3>4, InsertedRouting DEF ApplyEstablish
  <2>3. CASE comp[e] \notin connecting
    BY <1>2, <2>3, RoutingStutter DEF ApplyEstablish
  <2> QED BY <2>2, <2>3
<1>3. CASE ApplyRemove
  <2>1. Head(commands).on \in Entities
    BY <1>3, HeadCommand DEF ApplyRemove, TypeInv
  <2>2. \A e \in Entities : comp'[e] = comp[e] \/ comp'[e] = None
    BY <1>3, <2>1 DEF ApplyRemove, TypeInv, TypeOK
  <2>3. RoutesMatch'
    <3> SUFFICES ASSUME NEW g \in Endpoints, NEW h \in Handles,
                        connections[g][h] # None,
                        comp'[connections[g][h]] # None
                 PROVE  /\ handle[comp'[connections[g][h]]] = h
                        /\ chost[comp'[connections[g][h]]] = host[g]
      BY <1>3 DEF ApplyRemove, RoutesMatch, Matches
    <3>1. connections[g][h] \in Entities
      BY DEF TypeInv, TypeOK
    <3>2. comp'[connections[g][h]] = comp[connections[g][h]]
      BY <2>2, <3>1
    <3> QED BY <3>2 DEF RoutingInv, RoutesMatch, Matches
  <2> QED
    BY <1>3, <2>2, <2>3
    DEF ApplyRemove, RoutingInv, OneEndpointPerHost, UnbuiltIsNowhere,
        DroppedOwnsNothing, UsedConnections, SlabAgrees, ReachableIsMapped,
        RoutesAreToCarriers, QueuedIsMapped
<1>4. CASE ApplyRemoveEndpoint
  <2> DEFINE G == EndpointsOn(Head(commands).on)
  <2>1. G \in SUBSET Endpoints /\ Drop(G)
    BY <1>4 DEF ApplyRemoveEndpoint, EndpointsOn
  <2>2. \A g \in Endpoints : host'[g] = IF g \in G THEN None ELSE host[g]
    BY <1>4 DEF ApplyRemoveEndpoint
  <2>3. OneEndpointPerHost' /\ UnbuiltIsNowhere'
    BY <1>4, <2>2
    DEF ApplyRemoveEndpoint, RoutingInv, OneEndpointPerHost, UnbuiltIsNowhere
  <2> HIDE DEF G
  <2> QED BY <1>4, <2>1, <2>2, <2>3, DropRouting DEF ApplyRemoveEndpoint
<1>5. CASE EndCommands
  BY <1>5, RoutingStutter DEF EndCommands
<1> QED BY <1>1, <1>2, <1>3, <1>4, <1>5 DEF ApplyCommands

LEMMA PollConnectionsRouting ==
  TypeInv /\ RoutingInv /\ PollConnections => RoutingInv'
<1> SUFFICES ASSUME TypeInv, RoutingInv, PollConnections PROVE RoutingInv'
  OBVIOUS
<1> USE DEF endpointVars, connVars, historyVars, scheduleVars
<1>1. ASSUME NEW e \in Entities, PollDrained(e) \/ PollOrphan(e)
      PROVE  RoutingInv'
  BY <1>1, RoutingStutter DEF PollDrained, PollOrphan
<1>2. ASSUME NEW e \in Entities, PollConnection(e) PROVE RoutingInv'
  <2> DEFINE c == comp[e]
  <2>1. c \in Conns /\ chost[c] # None /\ c # None
    BY <1>2, RoutingAssumption
    DEF PollConnection, Visiting, Running, TypeInv, TypeOK, StageInv,
        RoutingInv, UsedConnections
  <2>2. PICK k \in Endpoints :
          host[k] = chost[c] /\ connections[k][handle[c]] # None
    BY <1>2 DEF PollConnection, Polled, PolledAgainst, KnowsConnection
  <2>3. \A g \in Endpoints, h \in Handles :
          slab'[g][h] = slab[g][h] \/ slab'[g][h] = None
    <3>1. CASE UNCHANGED slab
      BY <3>1
    <3>2. CASE slab' = [g \in Endpoints |->
                 IF g \in PolledAgainst(c)
                 THEN [slab[g] EXCEPT ![handle[c]] = None]
                 ELSE slab[g]]
      BY <3>2 DEF TypeInv, TypeOK
    <3> QED BY <1>2, <3>1, <3>2 DEF PollConnection
  <2>4. None \notin onWire /\ onWire' = onWire \cup {c}
    BY <1>2, RoutingAssumption DEF PollConnection, TypeInv, TypeOK
  <2>5. ReachableIsMapped'
    <3> SUFFICES ASSUME NEW g \in Endpoints, NEW h \in Handles,
                        slab'[g][h] \in onWire'
                 PROVE  connections[g][h] # None
      BY <1>2 DEF PollConnection, ReachableIsMapped
    <3>1. slab'[g][h] = slab[g][h] /\ slab[g][h] \in onWire \cup {c}
      BY <2>1, <2>3, <2>4
    <3>2. CASE slab[g][h] \in onWire
      BY <3>2 DEF RoutingInv, ReachableIsMapped
    <3>3. CASE slab[g][h] = c
      <4>1. handle[c] = h /\ chost[c] = host[g]
        BY <2>1, <3>3 DEF RoutingInv, SlabAgrees
      <4>2. g = k
        BY <2>1, <2>2, <4>1 DEF RoutingInv, OneEndpointPerHost
      <4> QED BY <2>2, <4>1, <4>2
    <3> QED BY <3>1, <3>2, <3>3
  <2>6. SlabAgrees'
    BY <1>2, <2>3 DEF PollConnection, RoutingInv, SlabAgrees
  <2>7. DroppedOwnsNothing'
    BY <1>2, <2>3 DEF PollConnection, RoutingInv, DroppedOwnsNothing
  <2>8. UsedConnections'
    BY <1>2, <2>1, <2>4 DEF PollConnection, RoutingInv, UsedConnections
  <2> QED
    BY <1>2, <2>5, <2>6, <2>7, <2>8
    DEF PollConnection, RoutingInv, OneEndpointPerHost, UnbuiltIsNowhere,
        RoutesAreToCarriers, RoutesMatch, QueuedIsMapped, Matches
<1>3. CASE EndPollConnections
  BY <1>3, RoutingStutter DEF EndPollConnections
<1> QED BY <1>1, <1>2, <1>3 DEF PollConnections

\* A connection no endpoint has made yet is nowhere.
LEMMA UnusedIsNowhere ==
  ASSUME TypeInv, RoutingInv, NEW c \in Conns, Unused(c)
  PROVE  /\ c # None /\ c \notin held /\ c \notin onWire
         /\ \A e \in Entities : comp[e] # c
         /\ \A g \in Endpoints, h \in Handles : slab[g][h] # c
<1>1. c # None
  BY RoutingAssumption
<1>2. c \notin held /\ c \notin onWire /\ \A e \in Entities : comp[e] # c
  BY <1>1 DEF Unused, RoutingInv, UsedConnections
<1>3. ASSUME NEW g \in Endpoints, NEW h \in Handles, slab[g][h] = c
      PROVE  FALSE
  <2>1. chost[c] = host[g]
    BY <1>1, <1>3 DEF RoutingInv, SlabAgrees
  <2> QED BY <1>1, <1>3, <2>1 DEF Unused, RoutingInv, DroppedOwnsNothing
<1> QED BY <1>1, <1>2, <1>3

\* What a new connection changes, one connection and one handle at a time.
LEMMA NewConnectionEffect ==
  ASSUME TypeInv, RoutingInv, NEW c \in Conns, NEW g \in Endpoints,
         NEW h \in Handles, host[g] # None, NewConnection(c, g, h)
  PROVE  /\ Unused(c)
         /\ \A k \in Endpoints, i \in Handles :
              slab'[k][i] = IF k = g /\ i = h THEN c ELSE slab[k][i]
         /\ handle'[c] = h /\ chost'[c] = host[g]
         /\ \A d \in Conns : d # c => handle'[d] = handle[d] /\ chost'[d] = chost[d]
         /\ SlabAgrees' \/ host' # host
<1>1. \A k \in Endpoints, i \in Handles :
        slab'[k][i] = IF k = g /\ i = h THEN c ELSE slab[k][i]
  BY DEF NewConnection, TypeInv, TypeOK
<1>2. /\ handle'[c] = h /\ chost'[c] = host[g]
      /\ \A d \in Conns : d # c => handle'[d] = handle[d] /\ chost'[d] = chost[d]
  BY DEF NewConnection, TypeInv, TypeOK
<1>3. ASSUME host' = host PROVE SlabAgrees'
  <2> SUFFICES ASSUME NEW k \in Endpoints, NEW i \in Handles,
                      slab'[k][i] # None
               PROVE  handle'[slab'[k][i]] = i /\ chost'[slab'[k][i]] = host[k]
    BY <1>3 DEF SlabAgrees
  <2>1. CASE k = g /\ i = h
    BY <1>1, <1>2, <2>1
  <2>2. CASE ~(k = g /\ i = h)
    <3>1. slab'[k][i] = slab[k][i] /\ slab[k][i] \in Conns
      BY <1>1, <2>2 DEF TypeInv, TypeOK
    <3>2. slab[k][i] # c
      BY UnusedIsNowhere DEF NewConnection
    <3> QED BY <1>2, <3>1, <3>2 DEF RoutingInv, SlabAgrees
  <2> QED BY <2>1, <2>2
<1> QED BY <1>1, <1>2, <1>3 DEF NewConnection

\* What the endpoints' part of RoutingInv says of a new connection and of the
\* others, wherever the new one goes.
LEMMA NewConnectionRouting ==
  ASSUME TypeInv, RoutingInv, NEW c \in Conns, NEW g \in Endpoints,
         NEW h \in Handles, host[g] # None, NewConnection(c, g, h),
         UNCHANGED <<host, receiver, driver, connections, comp, onWire, carried>>,
         held' \subseteq held \cup {c}
  PROVE  RoutingInv'
<1>1. /\ c # None /\ c \notin onWire /\ Unused(c)
      /\ \A e \in Entities : comp[e] # c
  BY UnusedIsNowhere DEF NewConnection
<1>2. SlabAgrees'
  BY NewConnectionEffect
<1>3. DroppedOwnsNothing'
  BY NewConnectionEffect DEF RoutingInv, DroppedOwnsNothing
<1>4. UsedConnections'
  <2>1. \A d \in Conns : chost'[d] # None => handle'[d] \in Handles
    BY NewConnectionEffect DEF RoutingInv, UsedConnections
  <2>2. \A d \in Conns : chost[d] # None => chost'[d] # None
    BY NewConnectionEffect
  <2>3. chost'[c] # None
    BY NewConnectionEffect
  <2>4. held \subseteq Conns /\ onWire \subseteq Conns
        /\ \A e \in Entities : comp[e] \in Conns \cup {None}
    BY DEF TypeInv, TypeOK
  <2> QED BY <2>1, <2>2, <2>3, <2>4 DEF RoutingInv, UsedConnections
<1>5. ReachableIsMapped'
  BY <1>1, NewConnectionEffect DEF RoutingInv, ReachableIsMapped
<1>6. RoutesMatch'
  <2> SUFFICES ASSUME NEW k \in Endpoints, NEW i \in Handles,
                      connections[k][i] # None, comp[connections[k][i]] # None
               PROVE  /\ handle'[comp[connections[k][i]]] = i
                      /\ chost'[comp[connections[k][i]]] = host[k]
    BY DEF RoutesMatch, Matches
  <2>1. comp[connections[k][i]] \in Conns /\ comp[connections[k][i]] # c
    BY <1>1 DEF TypeInv, TypeOK
  <2> QED BY <2>1, NewConnectionEffect DEF RoutingInv, RoutesMatch, Matches
<1> QED
  BY <1>2, <1>3, <1>4, <1>5, <1>6
  DEF RoutingInv, OneEndpointPerHost, UnbuiltIsNowhere, RoutesAreToCarriers,
      QueuedIsMapped

LEMMA AcceptRouting ==
  ASSUME TypeInv, RoutingInv, NEW c \in Conns, NEW g \in Endpoints,
         NEW h \in Handles, NEW e \in Entities, AcceptIncoming(c, g, h, e)
  PROVE  RoutingInv'
<1> USE DEF endpointVars, connVars, historyVars, scheduleVars
<1>1. NewConnection(c, g, h) /\ host[g] # None /\ e \notin carried
  BY DEF AcceptIncoming
<1>2. c # None /\ \A k \in Entities : comp[k] # c
  BY <1>1, UnusedIsNowhere DEF NewConnection
<1>3. \A k \in Endpoints, i \in Handles :
        connections'[k][i] = IF k = g /\ i = h THEN e ELSE connections[k][i]
  BY DEF AcceptIncoming, TypeInv, TypeOK
<1>4. comp'[e] = c /\ \A k \in Entities : k # e => comp'[k] = comp[k]
  BY DEF AcceptIncoming, TypeInv, TypeOK
<1>5. e # None /\ None \notin onWire'
  BY RoutingAssumption DEF AcceptIncoming, TypeInv, TypeOK
<1>6. SlabAgrees'
  BY <1>1, NewConnectionEffect DEF AcceptIncoming
<1>7. DroppedOwnsNothing'
  BY <1>1, <1>3, NewConnectionEffect
  DEF AcceptIncoming, RoutingInv, DroppedOwnsNothing
<1>8. UsedConnections'
  <2>1. \A d \in Conns : chost'[d] # None => handle'[d] \in Handles
    BY <1>1, NewConnectionEffect DEF RoutingInv, UsedConnections
  <2>2. \A d \in Conns : chost[d] # None => chost'[d] # None
    BY <1>1, NewConnectionEffect
  <2>3. chost'[c] # None
    BY <1>1, NewConnectionEffect
  <2>4. held \subseteq Conns /\ onWire \subseteq Conns
        /\ \A k \in Entities : comp[k] \in Conns \cup {None}
    BY DEF TypeInv, TypeOK
  <2>5. \A k \in Entities : comp'[k] # None =>
          k \in carried' /\ chost'[comp'[k]] # None
    BY <1>4, <2>2, <2>3, <2>4 DEF AcceptIncoming, RoutingInv, UsedConnections
  <2>6. \A d \in held' \cup onWire' : chost'[d] # None
    BY <2>2, <2>3, <2>4 DEF AcceptIncoming, RoutingInv, UsedConnections
  <2> QED BY <2>1, <2>5, <2>6 DEF UsedConnections
<1>9. ReachableIsMapped'
  <2> SUFFICES ASSUME NEW k \in Endpoints, NEW i \in Handles,
                      slab'[k][i] \in onWire'
               PROVE  connections'[k][i] # None
    BY DEF ReachableIsMapped
  <2>1. CASE k = g /\ i = h
    BY <1>3, <1>5, <2>1
  <2>2. CASE ~(k = g /\ i = h)
    <3>1. slab'[k][i] = slab[k][i] /\ slab[k][i] # c
      BY <1>1, <2>2, NewConnectionEffect, UnusedIsNowhere DEF NewConnection
    <3>2. slab[k][i] \in onWire
      BY <3>1 DEF AcceptIncoming
    <3> QED BY <1>3, <2>2, <3>2 DEF RoutingInv, ReachableIsMapped
  <2> QED BY <2>1, <2>2
<1>10. RoutesAreToCarriers'
  BY <1>3 DEF AcceptIncoming, RoutingInv, RoutesAreToCarriers
<1>11. RoutesMatch'
  <2> SUFFICES ASSUME NEW k \in Endpoints, NEW i \in Handles,
                      NEW n \in Entities, connections'[k][i] = n,
                      comp'[n] # None
               PROVE  handle'[comp'[n]] = i /\ chost'[comp'[n]] = host[k]
    <3>1. carried' \subseteq Entities /\ host' = host
      BY DEF AcceptIncoming, TypeInv, TypeOK
    <3> QED BY <1>10, <3>1 DEF RoutesMatch, RoutesAreToCarriers, Matches
  <2>1. CASE k = g /\ i = h
    BY <1>1, <1>3, <1>4, <2>1, NewConnectionEffect
  <2>2. CASE ~(k = g /\ i = h)
    <3>1. n = connections[k][i] /\ n \in carried /\ n # None
      BY <1>3, <2>2, RoutingAssumption DEF RoutingInv, RoutesAreToCarriers
    <3>2. comp'[n] = comp[n] /\ comp[n] \in Conns /\ comp[n] # c
      BY <1>1, <1>2, <1>4, <3>1 DEF TypeInv, TypeOK
    <3> QED
      BY <1>1, <3>1, <3>2, NewConnectionEffect
      DEF RoutingInv, RoutesMatch, Matches
  <2> QED BY <2>1, <2>2
<1>12. QueuedIsMapped'
  <2> SUFFICES ASSUME NEW k \in Endpoints, NEW i \in DOMAIN receiver[k]
               PROVE  connections'[k][receiver[k][i].handle] # None
    BY DEF AcceptIncoming, QueuedIsMapped
  <2>1. receiver[k] \in Seq(Events)
    BY DEF TypeInv, TypeOK
  <2>2. receiver[k][i] \in Events
    BY <2>1
  <2>3. receiver[k][i].handle \in Handles
    BY <2>2 DEF Events
  <2> QED BY <1>3, <1>5, <2>3 DEF RoutingInv, QueuedIsMapped
<1> QED
  BY <1>6, <1>7, <1>8, <1>9, <1>10, <1>11, <1>12
  DEF AcceptIncoming, RoutingInv, OneEndpointPerHost, UnbuiltIsNowhere

LEMMA ApplicationRouting ==
  ASSUME "reuse" \notin Uses, "move" \notin Uses
  PROVE  TypeInv /\ RoutingInv /\ ApplicationStep => RoutingInv'
<1> SUFFICES ASSUME TypeInv, RoutingInv, ApplicationStep PROVE RoutingInv'
  OBVIOUS
<1> USE DEF endpointVars, connVars, historyVars, scheduleVars
<1>1. ASSUME NEW c \in Conns, NEW g \in Endpoints, NEW h \in Handles,
             Connect(c, g, h)
      PROVE  RoutingInv'
  BY <1>1, NewConnectionRouting DEF Connect
<1>2. ASSUME NEW c \in Conns, NEW e \in Entities, InsertConnection(c, e)
      PROVE  RoutingInv'
  <2>1. chost[c] # None /\ e \notin carried /\ held' \subseteq held
    BY <1>2 DEF InsertConnection, FreshEntity, RoutingInv, UsedConnections
  <2> QED BY <1>2, <2>1, InsertedRouting DEF InsertConnection
<1>3. ASSUME NEW c \in Conns, DropHeld(c) PROVE RoutingInv'
  BY <1>3
  DEF DropHeld, RoutingInv, OneEndpointPerHost, UnbuiltIsNowhere,
      DroppedOwnsNothing, UsedConnections, SlabAgrees, ReachableIsMapped,
      RoutesAreToCarriers, RoutesMatch, QueuedIsMapped, Matches
<1>4. ASSUME NEW e \in Entities, RemoveConnection(e) \/ TakeConnection(e)
      PROVE  RoutingInv'
  <2>1. \A k \in Entities : comp'[k] = comp[k] \/ comp'[k] = None
    BY <1>4 DEF RemoveConnection, TakeConnection, TypeInv, TypeOK
  <2>2. comp[e] # None /\ held' \subseteq held \cup {comp[e]}
    BY <1>4 DEF RemoveConnection, TakeConnection
  <2>3. UNCHANGED <<host, connections, slab, receiver, driver, handle, chost,
                    onWire, carried>>
    BY <1>4 DEF RemoveConnection, TakeConnection
  <2>4. UsedConnections'
    BY <2>1, <2>2, <2>3 DEF RoutingInv, UsedConnections
  <2>5. RoutesMatch'
    <3> SUFFICES ASSUME NEW g \in Endpoints, NEW h \in Handles,
                        connections[g][h] # None,
                        comp'[connections[g][h]] # None
                 PROVE  /\ handle[comp'[connections[g][h]]] = h
                        /\ chost[comp'[connections[g][h]]] = host[g]
      BY <2>3 DEF RoutesMatch, Matches
    <3>1. connections[g][h] \in Entities
      BY DEF TypeInv, TypeOK
    <3>2. comp'[connections[g][h]] = comp[connections[g][h]]
      BY <2>1, <3>1
    <3> QED BY <3>2 DEF RoutingInv, RoutesMatch, Matches
  <2> QED
    BY <2>3, <2>4, <2>5
    DEF RoutingInv, OneEndpointPerHost, UnbuiltIsNowhere, DroppedOwnsNothing,
        SlabAgrees, ReachableIsMapped, RoutesAreToCarriers, QueuedIsMapped
<1>5. ASSUME NEW g \in Endpoints, NEW x \in Hosts, InsertEndpoint(g, x)
      PROVE  RoutingInv'
  <2> DEFINE G == EndpointsOn(x)
  <2>1. G \in SUBSET Endpoints /\ Drop(G) /\ x # None /\ host[g] = None
    BY <1>5, RoutingAssumption
    DEF InsertEndpoint, EndpointsOn, RoutingInv, UnbuiltIsNowhere
  <2>2. \A k \in Endpoints :
          host'[k] = IF k = g THEN x ELSE IF host[k] = x THEN None ELSE host[k]
    BY <1>5 DEF InsertEndpoint
  <2>3. \A k \in Endpoints \ G : host'[k] = host[k] \/ host[k] = None
    BY <2>1, <2>2 DEF EndpointsOn
  <2>4. OneEndpointPerHost'
    BY <2>2 DEF RoutingInv, OneEndpointPerHost
  <2>5. UnbuiltIsNowhere'
    BY <1>5, <2>2
    DEF InsertEndpoint, RoutingInv, UnbuiltIsNowhere, TypeInv, TypeOK
  <2> HIDE DEF G
  <2> QED
    BY <1>5, <2>1, <2>3, <2>4, <2>5, DropRouting DEF InsertEndpoint
<1>6. ASSUME NEW g \in Endpoints, RemoveEndpoint(g) PROVE RoutingInv'
  <2>1. {g} \in SUBSET Endpoints /\ Drop({g})
    BY <1>6 DEF RemoveEndpoint
  <2>2. \A k \in Endpoints : host'[k] = IF k = g THEN None ELSE host[k]
    BY <1>6 DEF RemoveEndpoint, TypeInv, TypeOK
  <2>3. OneEndpointPerHost' /\ UnbuiltIsNowhere'
    BY <1>6, <2>2
    DEF RemoveEndpoint, RoutingInv, OneEndpointPerHost, UnbuiltIsNowhere
  <2> QED BY <1>6, <2>1, <2>2, <2>3, DropRouting DEF RemoveEndpoint
<1>7. ASSUME NEW g \in Endpoints, NEW x \in Hosts, MoveEndpoint(g, x)
      PROVE  RoutingInv'
  BY <1>7 DEF MoveEndpoint
<1> QED
  BY <1>1, <1>2, <1>3, <1>4, <1>5, <1>6, <1>7, AcceptRouting
  DEF ApplicationStep

LEMMA DriverRouting == TypeInv /\ RoutingInv /\ Driver => RoutingInv'
<1> SUFFICES ASSUME TypeInv, RoutingInv, Driver PROVE RoutingInv'
  OBVIOUS
<1> USE DEF endpointVars, connVars, historyVars, scheduleVars
<1>1. ASSUME NEW g \in Endpoints, NEW h \in Handles, Receive(g, h)
      PROVE  RoutingInv'
  <2> DEFINE event == [handle |-> h, conn |-> slab[g][h]]
  <2>1. receiver \in [Endpoints -> Seq(Events)] /\ event \in Events
    BY <1>1 DEF Receive, TypeInv, TypeOK, Events
  <2>2. event.handle = h /\ connections[g][h] # None
    BY <1>1 DEF Receive, RoutingInv, ReachableIsMapped
  <2>3. receiver' = [receiver EXCEPT ![g] = Append(@, event)]
    BY <1>1 DEF Receive
  <2> HIDE DEF event
  <2>4. QueuedIsMapped'
    <3> SUFFICES ASSUME NEW k \in Endpoints, NEW i \in DOMAIN receiver'[k]
                 PROVE  connections[k][receiver'[k][i].handle] # None
      BY <1>1 DEF Receive, QueuedIsMapped
    <3>1. CASE k = g
      <4>1. receiver[g] \in Seq(Events) /\ receiver'[k] = Append(receiver[g], event)
        BY <2>1, <2>3, <3>1
      <4>2. \/ i \in DOMAIN receiver[g] /\ receiver'[k][i] = receiver[g][i]
            \/ receiver'[k][i] = event
        BY <2>1, <4>1
      <4> QED BY <2>2, <3>1, <4>2 DEF RoutingInv, QueuedIsMapped
    <3>2. CASE k # g
      BY <2>1, <2>3, <3>2 DEF RoutingInv, QueuedIsMapped
    <3> QED BY <3>1, <3>2
  <2>5. DroppedOwnsNothing'
    BY <1>1, <2>1, <2>3 DEF Receive, RoutingInv, DroppedOwnsNothing
  <2> QED
    BY <1>1, <2>4, <2>5
    DEF Receive, RoutingInv, OneEndpointPerHost, UnbuiltIsNowhere,
        UsedConnections, SlabAgrees, ReachableIsMapped, RoutesAreToCarriers,
        RoutesMatch, Matches
<1>2. ASSUME NEW g \in Endpoints,
             \/ DriverLocks(g) \/ DriverUnlocks(g)
             \/ DriverFails(g) \/ DriverStops(g)
      PROVE  RoutingInv'
  BY <1>2, RoutingStutter
  DEF DriverLocks, DriverUnlocks, DriverFails, DriverStops, TypeInv, TypeOK
<1> QED BY <1>1, <1>2 DEF Driver

LEMMA NextRouting ==
  ASSUME "reuse" \notin Uses, "move" \notin Uses
  PROVE  TypeInv /\ RoutingInv /\ [Next]_vars => RoutingInv'
<1> SUFFICES ASSUME TypeInv, RoutingInv, [Next]_vars PROVE RoutingInv'
  OBVIOUS
<1> USE DEF endpointVars, connVars, historyVars, scheduleVars
<1>1. CASE ObserverReturns \/ EndUpdate \/ EndIncomingResponses
  BY <1>1, RoutingStutter DEF ObserverReturns, EndUpdate, EndIncomingResponses
<1>2. CASE UNCHANGED vars
  BY <1>2, RoutingStutter DEF vars
<1> QED
  BY <1>1, <1>2, PollEndpointsRouting, ApplyCommandsRouting,
     PollConnectionsRouting, ApplicationRouting, DriverRouting
  DEF Next, Schedule, Halted

\* poll_endpoints finds an entity mapping for every event it is given, whatever the
\* application's observers do, whenever it takes connections off entities and
\* replaces endpoints, as long as it never inserts a connection onto an entity
\* that carried another and never moves an Endpoint.
THEOREM NeverUnmapped ==
  ASSUME "reuse" \notin Uses, "move" \notin Uses
  PROVE  Spec => []EventsAreMapped
<1>1. Init => TypeInv /\ RoutingInv
  BY InitTypeInv, InitRouting
<1>2. TypeInv /\ RoutingInv /\ [Next]_vars => (TypeInv /\ RoutingInv)'
  BY NextType, NextRouting
<1>3. TypeInv /\ RoutingInv => EventsAreMapped
  BY HeadMapped DEF EventsAreMapped
<1> QED BY <1>1, <1>2, <1>3, PTL DEF Spec
=============================================================================
