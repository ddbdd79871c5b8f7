---------------------------- MODULE EndpointRouting ----------------------------
(***************************************************************************)
(* How datagrams find the ECS entity of the connection they belong to.     *)
(*                                                                         *)
(* An Endpoint component owns a quinn endpoint (shared, behind a mutex,    *)
(* with the socket driver task), the channel the driver sends into, and    *)
(* the map `connections` from quinn's ConnectionHandle to the entity that  *)
(* holds the Connecting or Connection component.  The map is written by    *)
(* component hooks, read by poll_endpoints and poll_connections, and       *)
(* quinn's own slab of handles is freed at times of its own: the module is *)
(* about these two books staying in step while the driver, the schedule,   *)
(* deferred commands, observers and the application interleave.            *)
(***************************************************************************)
EXTENDS Naturals, Sequences

CONSTANTS
    Conns,      \* connections ever created (identities of quinn connections)
    Handles,    \* quinn ConnectionHandles: slab keys, reused once freed
    Entities,   \* entities that carry connections
    Endpoints,  \* Endpoint values ever constructed
    Hosts,      \* entities that carry Endpoint components
    None,       \* no entity, no connection, no host
    MaxQueued,  \* bound on the receive channel, which is unbounded in the code
    Uses        \* what the application does beyond the plain use (see Freedoms)

\* "observer": acts inside observers too, not in Update only (plugin.rs:44)
\* "reuse":    inserts a connection onto an entity that has carried one
\* "take":     takes a connection off its entity and keeps it
\* "replace":  inserts an Endpoint onto an entity that has carried one
\* "move":     takes an Endpoint off its entity and inserts it onto another
Freedoms == {"observer", "reuse", "take", "replace", "move"}

ASSUME RoutingAssumption ==
    /\ None \notin Conns \cup Handles \cup Entities \cup Endpoints \cup Hosts
    /\ MaxQueued \in Nat \ {0}
    /\ Uses \subseteq Freedoms

VARIABLES
    host,         \* Endpoints -> the entity the Endpoint is on (self_entity)
    connections,  \* Endpoints -> (Handles -> entity): Endpoint::connections
    slab,         \* Endpoints -> (Handles -> connection): quinn's own slab
    receiver,     \* Endpoints -> queued connection events, oldest first
    driver,       \* Endpoints -> state of the UdpSocketRecvDriver task
    reading,      \* endpoints whose mutex the driver holds, to read the socket
    handle,       \* Conns -> ConnectionImpl::handle
    chost,        \* Conns -> ConnectionImpl::endpoint, the host entity
    held,         \* connections the application holds, on no entity
    comp,         \* Entities -> the connection on the entity
    connecting,   \* connections whose component is still Connecting
    drained,      \* connections whose is_drained() is true
    onWire,       \* connections the peer has seen a datagram of
    carried,      \* history: entities that have carried a connection
    hosted,       \* history: hosts that have carried an Endpoint
    pc,           \* the stage the schedule is in
    todo,         \* query items the running system has still to visit
    locked,       \* the endpoint whose mutex poll_endpoints holds
    commands,     \* the running system's deferred commands
    observing,    \* an observer is running
    panicked      \* the schedule's thread has panicked

endpointVars == <<host, connections, slab, receiver, driver, reading>>
connVars == <<handle, chost, held, comp, connecting, drained, onWire>>
historyVars == <<carried, hosted>>
scheduleVars == <<pc, todo, locked, commands, observing, panicked>>
vars == <<endpointVars, connVars, historyVars, scheduleVars>>

Stages == {"poll_endpoints", "endpoint_commands", "Update",
           "handle_incoming_responses", "poll_connections",
           "connection_commands"}

\* An event of the channel, with the connection quinn routed it to (a ghost).
Events == [handle : Handles, conn : Conns]

Commands ==
    [do : {"trigger", "establish", "remove"}, on : Entities]
      \cup [do : {"trigger", "remove_endpoint"}, on : Hosts]

Command(do, on) == [do |-> do, on |-> on]

TypeOK ==
    /\ host \in [Endpoints -> Hosts \cup {None}]
    /\ connections \in [Endpoints -> [Handles -> Entities \cup {None}]]
    /\ slab \in [Endpoints -> [Handles -> Conns \cup {None}]]
    /\ receiver \in [Endpoints -> Seq(Events)]
    /\ driver \in [Endpoints -> {"unbuilt", "running", "failed", "done"}]
    /\ reading \in SUBSET Endpoints
    /\ handle \in [Conns -> Handles \cup {None}]
    /\ chost \in [Conns -> Hosts \cup {None}]
    /\ held \in SUBSET Conns
    /\ comp \in [Entities -> Conns \cup {None}]
    /\ connecting \in SUBSET Conns
    /\ drained \in SUBSET Conns
    /\ onWire \in SUBSET Conns
    /\ carried \in SUBSET Entities
    /\ hosted \in SUBSET Hosts
    /\ pc \in Stages
    /\ todo \in SUBSET (Endpoints \cup Entities)
    /\ locked \in Endpoints \cup {None}
    /\ commands \in Seq(Commands)
    /\ observing \in BOOLEAN
    /\ panicked \in BOOLEAN

\* The application's Startup systems run first, with an empty world.
Init ==
    /\ host = [g \in Endpoints |-> None]
    /\ connections = [g \in Endpoints |-> [h \in Handles |-> None]]
    /\ slab = [g \in Endpoints |-> [h \in Handles |-> None]]
    /\ receiver = [g \in Endpoints |-> <<>>]
    /\ driver = [g \in Endpoints |-> "unbuilt"]
    /\ reading = {}
    /\ handle = [c \in Conns |-> None]
    /\ chost = [c \in Conns |-> None]
    /\ held = {}
    /\ comp = [e \in Entities |-> None]
    /\ connecting = {}
    /\ drained = {}
    /\ onWire = {}
    /\ carried = {}
    /\ hosted = {}
    /\ pc = "Update"
    /\ todo = {}
    /\ locked = None
    /\ commands = <<>>
    /\ observing = FALSE
    /\ panicked = FALSE

-----------------------------------------------------------------------------
(* The map and the slab.  An operator named Name_Slip is Name with a mistake *)
(* the properties must notice; PROJECT.json says which one does.            *)

\* ConnectionImpl::on_insert: the Endpoint on the entity the connection was
\* made from, if there is one, records the entity c is now on.
Inserted(c, e) ==
    [g \in Endpoints |->
        IF host[g] = chost[c]
        THEN [connections[g] EXCEPT ![handle[c]] = e]
        ELSE connections[g]]

\* The lookup of the map is by handle alone.
KnowsConnection(g, c) == connections[g][handle[c]] # None

\* The endpoints poll_connections polls c against: at most one.
PolledAgainst(c) ==
    {g \in Endpoints : host[g] = chost[c] /\ KnowsConnection(g, c)}

Freed_Slip(g, h) == slab

\* quinn frees handle h of g on EndpointEvent::drained(), whoever owns it.
Freed(g, h) == [slab EXCEPT ![g][h] = None]

Matches_Slip(g, h, e) == comp[e] # None /\ chost[comp[e]] = host[g]

\* The connection on e is the one endpoint g knows by handle h.
Matches(g, h, e) ==
    /\ comp[e] # None
    /\ handle[comp[e]] = h
    /\ chost[comp[e]] = host[g]

Unused(c) == chost[c] = None

\* quinn gives the new connection c a free handle h of g, under g's mutex.
NewConnection(c, g, h) ==
    /\ Unused(c)
    /\ g \notin reading
    /\ slab[g][h] = None
    /\ slab' = [slab EXCEPT ![g][h] = c]
    /\ handle' = [handle EXCEPT ![c] = h]
    /\ chost' = [chost EXCEPT ![c] = host[g]]

\* Endpoint values of the set G are dropped with all they own.
Drop(G) ==
    /\ connections' = [g \in Endpoints |->
           IF g \in G THEN [h \in Handles |-> None] ELSE connections[g]]
    /\ slab' = [g \in Endpoints |->
           IF g \in G THEN [h \in Handles |-> None] ELSE slab[g]]
    /\ receiver' = [g \in Endpoints |-> IF g \in G THEN <<>> ELSE receiver[g]]

EndpointsOn(x) == {g \in Endpoints : host[g] = x}

FreshEntity(e) == e \notin carried \/ "reuse" \in Uses

FreshHost(x) == x \notin hosted \/ "replace" \in Uses

-----------------------------------------------------------------------------
(* PreUpdate: poll_endpoints *)

Running(stage) == pc = stage /\ ~panicked

LockEndpoint(g) ==
    /\ Running("poll_endpoints")
    /\ locked = None
    /\ g \in todo
    /\ g \notin reading
    /\ locked' = g
    /\ UNCHANGED <<endpointVars, connVars, historyVars, pc, todo, commands,
                   observing, panicked>>

\* The next connection event g's receiver yields, while its mutex is held.
Receiving(g) ==
    /\ Running("poll_endpoints")
    /\ locked = g
    /\ receiver[g] # <<>>

EntityOf(g) == connections[g][Head(receiver[g]).handle]

\* The entity still has the connection, which handles the event.  Some events
\* drain it at once, a stateless reset for one.
DeliverEvent(g) ==
    /\ Receiving(g)
    /\ EntityOf(g) # None
    /\ Matches(g, Head(receiver[g]).handle, EntityOf(g))
    /\ \E reset \in BOOLEAN :
         drained' = IF reset THEN drained \cup {comp[EntityOf(g)]} ELSE drained
    /\ receiver' = [receiver EXCEPT ![g] = Tail(@)]
    /\ UNCHANGED <<host, connections, slab, driver, reading, handle, chost,
                   held, comp, connecting, onWire, historyVars, scheduleVars>>

\* Forgets every route to the entity, the new connection's too.
DrainOverwritten_Slip(g) ==
    /\ Receiving(g)
    /\ EntityOf(g) # None
    /\ comp[EntityOf(g)] # None
    /\ ~Matches(g, Head(receiver[g]).handle, EntityOf(g))
    /\ slab' = Freed(g, Head(receiver[g]).handle)
    /\ connections' = [connections EXCEPT ![g] =
           [h \in Handles |-> IF @[h] = EntityOf(g) THEN None ELSE @[h]]]
    /\ receiver' = [receiver EXCEPT ![g] = Tail(@)]
    /\ UNCHANGED <<host, driver, reading, connVars, historyVars, scheduleVars>>

\* "A new connection was inserted onto the entity, overwriting the previous
\* connection": its handle is freed and its route forgotten.
DrainOverwritten(g) ==
    /\ Receiving(g)
    /\ EntityOf(g) # None
    /\ comp[EntityOf(g)] # None
    /\ ~Matches(g, Head(receiver[g]).handle, EntityOf(g))
    /\ slab' = Freed(g, Head(receiver[g]).handle)
    /\ connections' = [connections EXCEPT ![g][Head(receiver[g]).handle] = None]
    /\ receiver' = [receiver EXCEPT ![g] = Tail(@)]
    /\ UNCHANGED <<host, driver, reading, connVars, historyVars, scheduleVars>>

\* Forgets the route with the handle.
DrainMissing_Slip(g) ==
    /\ Receiving(g)
    /\ EntityOf(g) # None
    /\ comp[EntityOf(g)] = None
    /\ slab' = Freed(g, Head(receiver[g]).handle)
    /\ connections' = [connections EXCEPT ![g][Head(receiver[g]).handle] = None]
    /\ receiver' = [receiver EXCEPT ![g] = Tail(@)]
    /\ commands' = Append(commands, Command("trigger", host[g]))
    /\ UNCHANGED <<host, driver, reading, connVars, historyVars, pc, todo,
                   locked, observing, panicked>>

\* The entity is gone (MissingConnectionEntity) or has no connection
\* (MalformedConnectionEntity): the handle is freed, the route kept.
DrainMissing(g) ==
    /\ Receiving(g)
    /\ EntityOf(g) # None
    /\ comp[EntityOf(g)] = None
    /\ slab' = Freed(g, Head(receiver[g]).handle)
    /\ receiver' = [receiver EXCEPT ![g] = Tail(@)]
    /\ commands' = Append(commands, Command("trigger", host[g]))
    /\ UNCHANGED <<host, connections, driver, reading, connVars, historyVars,
                   pc, todo, locked, observing, panicked>>

\* expect("ConnectionHandle {handle:?} is missing Entity mapping")
PanicUnmapped(g) ==
    /\ Receiving(g)
    /\ EntityOf(g) = None
    /\ panicked' = TRUE
    /\ UNCHANGED <<endpointVars, connVars, historyVars, pc, todo, locked,
                   commands, observing>>

\* Targets the Endpoint's value for its entity.
HandleError_Slip(g) ==
    /\ Running("poll_endpoints")
    /\ locked = g
    /\ receiver[g] = <<>>
    /\ driver[g] = "failed"
    /\ driver' = [driver EXCEPT ![g] = "done"]
    /\ commands' = commands \o <<Command("trigger", g)>>
    /\ UNCHANGED <<host, connections, slab, receiver, reading, connVars,
                   historyVars, pc, todo, locked, observing, panicked>>

\* The driver's error comes last in the channel: it ends the driver.
HandleError(g) ==
    /\ Running("poll_endpoints")
    /\ locked = g
    /\ receiver[g] = <<>>
    /\ driver[g] = "failed"
    /\ driver' = [driver EXCEPT ![g] = "done"]
    /\ commands' = commands \o <<Command("trigger", host[g]),
                                 Command("remove_endpoint", host[g])>>
    /\ UNCHANGED <<host, connections, slab, receiver, reading, connVars,
                   historyVars, pc, todo, locked, observing, panicked>>

\* Leaves the rest of the channel to the next frame.
UnlockEndpoint_Slip(g) ==
    /\ Running("poll_endpoints")
    /\ locked = g
    /\ locked' = None
    /\ todo' = todo \ {g}
    /\ UNCHANGED <<endpointVars, connVars, historyVars, pc, commands, observing,
                   panicked>>

UnlockEndpoint(g) ==
    /\ Running("poll_endpoints")
    /\ locked = g
    /\ receiver[g] = <<>>
    /\ driver[g] # "failed"
    /\ locked' = None
    /\ todo' = todo \ {g}
    /\ UNCHANGED <<endpointVars, connVars, historyVars, pc, commands, observing,
                   panicked>>

EndPollEndpoints ==
    /\ Running("poll_endpoints")
    /\ todo = {}
    /\ pc' = "endpoint_commands"
    /\ UNCHANGED <<endpointVars, connVars, historyVars, todo, locked, commands,
                   observing, panicked>>

-----------------------------------------------------------------------------
(* Deferred commands, applied in order after the system that queued them *)

Applying(do) ==
    /\ pc \in {"endpoint_commands", "connection_commands"}
    /\ ~panicked
    /\ ~observing
    /\ commands # <<>>
    /\ Head(commands).do = do
    /\ commands' = Tail(commands)

\* An observer of the event runs.  It matters only if it may act.
ApplyTrigger ==
    /\ Applying("trigger")
    /\ observing' = ("observer" \in Uses)
    /\ UNCHANGED <<endpointVars, connVars, historyVars, pc, todo, locked,
                   panicked>>

\* The closure queued for Event::Connected: take Connecting, insert Connection
\* (whose hook records the entity again), trigger ConnectionEstablished.  If an
\* observer has removed the connection the closure finds nothing to take; if it
\* has despawned the entity, a command for a missing entity panics.
ApplyEstablish ==
    /\ Applying("establish")
    /\ LET e == Head(commands).on
       IN  \/ /\ comp[e] \in connecting
              /\ connecting' = connecting \ {comp[e]}
              /\ connections' = Inserted(comp[e], e)
              /\ observing' = ("observer" \in Uses)
              /\ UNCHANGED panicked
           \/ /\ comp[e] \notin connecting
              /\ panicked' \in {FALSE, comp[e] = None}
              /\ UNCHANGED <<connecting, connections, observing>>
    /\ UNCHANGED <<host, slab, receiver, driver, reading, handle, chost, held,
                   comp, drained, onWire, historyVars, pc, todo, locked>>

\* remove_or_despawn::<(Connecting, Connection)>
ApplyRemove ==
    /\ Applying("remove")
    /\ comp' = [comp EXCEPT ![Head(commands).on] = None]
    /\ UNCHANGED <<endpointVars, handle, chost, held, connecting, drained,
                   onWire, historyVars, pc, todo, locked, observing, panicked>>

\* remove_or_despawn::<Endpoint>
ApplyRemoveEndpoint ==
    /\ Applying("remove_endpoint")
    /\ LET gone == EndpointsOn(Head(commands).on)
       IN  /\ host' = [g \in Endpoints |-> IF g \in gone THEN None ELSE host[g]]
           /\ Drop(gone)
    /\ UNCHANGED <<driver, reading, connVars, historyVars, pc, todo, locked,
                   observing, panicked>>

ObserverReturns ==
    /\ observing
    /\ ~panicked
    /\ observing' = FALSE
    /\ UNCHANGED <<endpointVars, connVars, historyVars, pc, todo, locked,
                   commands, panicked>>

EndCommands ==
    /\ ~panicked
    /\ ~observing
    /\ commands = <<>>
    /\ \/ /\ pc = "endpoint_commands"
          /\ pc' = "Update"
          /\ UNCHANGED todo
       \/ /\ pc = "connection_commands"
          /\ pc' = "poll_endpoints"
          /\ todo' = {g \in Endpoints : host[g] # None}
    /\ UNCHANGED <<endpointVars, connVars, historyVars, locked, commands,
                   observing, panicked>>

EndUpdate ==
    /\ Running("Update")
    /\ pc' = "handle_incoming_responses"
    /\ UNCHANGED <<endpointVars, connVars, historyVars, todo, locked, commands,
                   observing, panicked>>

-----------------------------------------------------------------------------
(* The application, in its Update systems and in its observers *)

Application == ~panicked /\ (observing \/ pc = "Update")

Connect(c, g, h) ==
    /\ Application
    /\ host[g] # None
    /\ NewConnection(c, g, h)
    /\ held' = held \cup {c}
    /\ connecting' = connecting \cup {c}
    /\ UNCHANGED <<host, connections, receiver, driver, reading, comp, drained,
                   onWire, historyVars, scheduleVars>>

\* Component hooks: a connection already on the entity is destroyed.
InsertConnection(c, e) ==
    /\ Application
    /\ c \in held
    /\ FreshEntity(e)
    /\ held' = held \ {c}
    /\ comp' = [comp EXCEPT ![e] = c]
    /\ carried' = carried \cup {e}
    /\ connections' = Inserted(c, e)
    /\ UNCHANGED <<host, slab, receiver, driver, reading, handle, chost,
                   connecting, drained, onWire, hosted, scheduleVars>>

DropHeld(c) ==
    /\ Application
    /\ c \in held
    /\ held' = held \ {c}
    /\ UNCHANGED <<endpointVars, handle, chost, comp, connecting, drained,
                   onWire, historyVars, scheduleVars>>

\* The component is removed, or its entity despawned: no hook tells the map.
RemoveConnection(e) ==
    /\ Application
    /\ comp[e] # None
    /\ comp' = [comp EXCEPT ![e] = None]
    /\ UNCHANGED <<endpointVars, handle, chost, held, connecting, drained,
                   onWire, historyVars, scheduleVars>>

TakeConnection(e) ==
    /\ "take" \in Uses
    /\ Application
    /\ comp[e] # None
    /\ comp' = [comp EXCEPT ![e] = None]
    /\ held' = held \cup {comp[e]}
    /\ UNCHANGED <<endpointVars, handle, chost, connecting, drained, onWire,
                   historyVars, scheduleVars>>

\* Endpoint::new spawns the driver; insertion records the entity.  An Endpoint
\* already there is dropped.
InsertEndpoint(g, x) ==
    /\ Application
    /\ driver[g] = "unbuilt"
    /\ FreshHost(x)
    /\ host' = [k \in Endpoints |->
           IF k = g THEN x ELSE IF host[k] = x THEN None ELSE host[k]]
    /\ Drop(EndpointsOn(x))
    /\ driver' = [driver EXCEPT ![g] = "running"]
    /\ hosted' = hosted \cup {x}
    /\ UNCHANGED <<reading, connVars, carried, scheduleVars>>

RemoveEndpoint(g) ==
    /\ Application
    /\ host[g] # None
    /\ host' = [host EXCEPT ![g] = None]
    /\ Drop({g})
    /\ UNCHANGED <<driver, reading, connVars, historyVars, scheduleVars>>

MoveEndpoint(g, x) ==
    /\ "move" \in Uses
    /\ Application
    /\ host[g] \notin {None, x}
    /\ FreshHost(x)
    /\ host' = [k \in Endpoints |->
           IF k = g THEN x ELSE IF host[k] = x THEN None ELSE host[k]]
    /\ Drop(EndpointsOn(x))
    /\ hosted' = hosted \cup {x}
    /\ UNCHANGED <<driver, reading, connVars, carried, scheduleVars>>

-----------------------------------------------------------------------------
(* PostUpdate: handle_incoming_responses, then poll_connections *)

\* Endpoint::accept of an Incoming on entity e: the peer is sending already,
\* so datagrams are routed to the handle from here on.
AcceptIncoming(c, g, h, e) ==
    /\ Running("handle_incoming_responses")
    /\ ~observing
    /\ host[g] # None
    /\ e \notin carried
    /\ NewConnection(c, g, h)
    /\ comp' = [comp EXCEPT ![e] = c]
    /\ carried' = carried \cup {e}
    /\ connections' = [connections EXCEPT ![g][h] = e]
    /\ connecting' = connecting \cup {c}
    /\ onWire' = onWire \cup {c}
    /\ observing' = ("observer" \in Uses)
    /\ UNCHANGED <<host, receiver, driver, reading, held, drained, hosted, pc,
                   todo, locked, commands, panicked>>

EndIncomingResponses ==
    /\ Running("handle_incoming_responses")
    /\ ~observing
    /\ pc' = "poll_connections"
    /\ todo' = {e \in Entities : comp[e] # None}
    /\ UNCHANGED <<endpointVars, connVars, historyVars, locked, commands,
                   observing, panicked>>

Visiting(e) == Running("poll_connections") /\ e \in todo

Polled_Slip(e) == PolledAgainst(comp[e]) # {}

\* poll_connections goes on to poll the connection of e.
Polled(e) ==
    /\ comp[e] \notin drained
    /\ PolledAgainst(comp[e]) # {}

\* Leaves the removal to the application.
PollDrained_Slip(e) ==
    /\ Visiting(e)
    /\ ~Polled(e)
    /\ comp[e] \in drained
    /\ todo' = todo \ {e}
    /\ commands' = Append(commands, Command("trigger", e))
    /\ UNCHANGED <<endpointVars, connVars, historyVars, pc, locked, observing,
                   panicked>>

PollDrained(e) ==
    /\ Visiting(e)
    /\ ~Polled(e)
    /\ comp[e] \in drained
    /\ todo' = todo \ {e}
    /\ commands' = commands \o <<Command("trigger", e), Command("remove", e)>>
    /\ UNCHANGED <<endpointVars, connVars, historyVars, pc, locked, observing,
                   panicked>>

\* "If the endpoint does not exist anymore, neither should we"
PollOrphan(e) ==
    /\ Visiting(e)
    /\ ~Polled(e)
    /\ comp[e] \notin drained
    /\ todo' = todo \ {e}
    /\ commands' = Append(commands, Command("remove", e))
    /\ UNCHANGED <<endpointVars, connVars, historyVars, pc, locked, observing,
                   panicked>>

\* What polling queues for the application: one trigger stands for a run of
\* them, before or after Event::Connected.
PollNews(e) ==
    {<<>>, <<Command("trigger", e)>>} \cup
    (IF comp[e] \in connecting
     THEN {<<Command("establish", e)>>,
           <<Command("trigger", e), Command("establish", e)>>}
     ELSE {})

\* The loop of poll_connections.  The connection may drain in it, and quinn is
\* then told to free the handle in the endpoint the connection is polled against,
\* whose mutex that takes.
PollConnection(e) ==
    /\ Visiting(e)
    /\ Polled(e)
    /\ todo' = todo \ {e}
    /\ onWire' = onWire \cup {comp[e]}
    /\ \E news \in PollNews(e) : commands' = commands \o news
    /\ \/ UNCHANGED <<drained, slab>>
       \/ /\ PolledAgainst(comp[e]) \cap reading = {}
          /\ drained' = drained \cup {comp[e]}
          /\ slab' = [g \in Endpoints |->
                 IF g \in PolledAgainst(comp[e])
                 THEN [slab[g] EXCEPT ![handle[comp[e]]] = None]
                 ELSE slab[g]]
    /\ UNCHANGED <<host, connections, receiver, driver, reading, handle, chost,
                   held, comp, connecting, historyVars, pc, locked, observing,
                   panicked>>

EndPollConnections ==
    /\ Running("poll_connections")
    /\ todo = {}
    /\ pc' = "connection_commands"
    /\ UNCHANGED <<endpointVars, connVars, historyVars, todo, locked, commands,
                   observing, panicked>>

-----------------------------------------------------------------------------
(* The socket driver task, at any time *)

\* Data is there to be read: the driver takes the mutex, and keeps it.
DriverLocks(g) ==
    /\ ~panicked
    /\ driver[g] = "running"
    /\ locked # g
    /\ g \notin reading
    /\ reading' = reading \cup {g}
    /\ UNCHANGED <<host, connections, slab, receiver, driver, connVars,
                   historyVars, scheduleVars>>

\* Does not wait for the mutex.
Receive_Slip(g, h) ==
    /\ ~panicked
    /\ driver[g] = "running"
    /\ host[g] # None
    /\ slab[g][h] \in onWire
    /\ Len(receiver[g]) < MaxQueued
    /\ receiver' = [receiver EXCEPT ![g] =
           Append(@, [handle |-> h, conn |-> slab[g][h]])]
    /\ UNCHANGED <<host, connections, slab, driver, reading, connVars,
                   historyVars, scheduleVars>>

\* A datagram of a connection that quinn knows: routed to its handle and sent
\* to the channel.
Receive(g, h) ==
    /\ ~panicked
    /\ g \in reading
    /\ host[g] # None
    /\ slab[g][h] \in onWire
    /\ Len(receiver[g]) < MaxQueued
    /\ receiver' = [receiver EXCEPT ![g] =
           Append(@, [handle |-> h, conn |-> slab[g][h]])]
    /\ UNCHANGED <<host, connections, slab, driver, reading, connVars,
                   historyVars, scheduleVars>>

\* WouldBlock: the socket is empty, and only then is the mutex free again.
DriverUnlocks(g) ==
    /\ ~panicked
    /\ g \in reading
    /\ reading' = reading \ {g}
    /\ UNCHANGED <<host, connections, slab, receiver, driver, connVars,
                   historyVars, scheduleVars>>

\* An I/O error, of the wait or of the read, goes into the channel, and the
\* task ends.
DriverFails(g) ==
    /\ ~panicked
    /\ driver[g] = "running"
    /\ host[g] # None
    /\ driver' = [driver EXCEPT ![g] = "failed"]
    /\ reading' = reading \ {g}
    /\ UNCHANGED <<host, connections, slab, receiver, connVars, historyVars,
                   scheduleVars>>

\* Sending fails once the Endpoint, and the channel's receiver, is dropped.
DriverStops(g) ==
    /\ ~panicked
    /\ driver[g] = "running"
    /\ host[g] = None
    /\ driver' = [driver EXCEPT ![g] = "done"]
    /\ reading' = reading \ {g}
    /\ UNCHANGED <<host, connections, slab, receiver, connVars, historyVars,
                   scheduleVars>>

-----------------------------------------------------------------------------

PollEndpoints ==
    \/ \E g \in Endpoints :
         \/ LockEndpoint(g)
         \/ DeliverEvent(g)
         \/ DrainOverwritten(g)
         \/ DrainMissing(g)
         \/ PanicUnmapped(g)
         \/ HandleError(g)
         \/ UnlockEndpoint(g)
    \/ EndPollEndpoints

ApplyCommands ==
    \/ ApplyTrigger
    \/ ApplyEstablish
    \/ ApplyRemove
    \/ ApplyRemoveEndpoint
    \/ EndCommands

PollConnections ==
    \/ \E e \in Entities :
         \/ PollDrained(e)
         \/ PollOrphan(e)
         \/ PollConnection(e)
    \/ EndPollConnections

\* What App::update runs of this library, and the return of observers.
Schedule ==
    \/ PollEndpoints
    \/ ApplyCommands
    \/ ObserverReturns
    \/ EndUpdate
    \/ EndIncomingResponses
    \/ PollConnections

ApplicationStep ==
    \/ \E c \in Conns, g \in Endpoints, h \in Handles : Connect(c, g, h)
    \/ \E c \in Conns, e \in Entities : InsertConnection(c, e)
    \/ \E c \in Conns : DropHeld(c)
    \/ \E e \in Entities : RemoveConnection(e) \/ TakeConnection(e)
    \/ \E g \in Endpoints, x \in Hosts : InsertEndpoint(g, x) \/ MoveEndpoint(g, x)
    \/ \E g \in Endpoints : RemoveEndpoint(g)
    \/ \E c \in Conns, g \in Endpoints, h \in Handles, e \in Entities :
         AcceptIncoming(c, g, h, e)

Driver ==
    \E g \in Endpoints :
      \/ DriverLocks(g)
      \/ \E h \in Handles : Receive(g, h)
      \/ DriverUnlocks(g)
      \/ DriverFails(g)
      \/ DriverStops(g)

\* A panic unwinds out of App::update: nothing runs after it.
Halted == panicked /\ UNCHANGED vars

Next == Schedule \/ ApplicationStep \/ Driver \/ Halted

Spec == Init /\ [][Next]_vars

\* App::update is called again and again, its systems return, and a mutex that is
\* free again and again is obtained.  Nothing is promised of the application, of
\* the network, or of the driver: it need not ever let go of the mutex.
FairSpec == Spec /\ SF_vars(Schedule)

-----------------------------------------------------------------------------
(* Properties *)

\* poll_endpoints never meets an event whose handle has no entity mapping: the
\* expect() at endpoint.rs:446 never fires, whatever the interleaving.
EventsAreMapped == \A g \in Endpoints : Receiving(g) => EntityOf(g) # None

\* Every event poll_endpoints hands to a connection was routed by quinn to that
\* very connection, never to another one behind the same handle or entity
\* (endpoint.rs:449-454).
EventsReachTheirConnection ==
    \A g \in Endpoints :
      (Receiving(g) /\ EntityOf(g) # None
         /\ Matches(g, Head(receiver[g]).handle, EntityOf(g)))
      => comp[EntityOf(g)] = Head(receiver[g]).conn

\* When poll_endpoints tells quinn that the connection of an event has drained,
\* the handle it frees is still that connection's, or free already: no live
\* connection loses its handle to another one's event (endpoint.rs:457-469).
DrainsOnlyItsOwn ==
    \A g \in Endpoints :
      (Receiving(g) /\ EntityOf(g) # None
         /\ ~Matches(g, Head(receiver[g]).handle, EntityOf(g)))
      => slab[g][Head(receiver[g]).handle] \in {None, Head(receiver[g]).conn}

\* A connection poll_connections polls is the owner of its handle in the
\* endpoint it is polled against: its endpoint events reach no other connection
\* and no freed handle (connection.rs:753-757, 828-831).
PolledOwnsItsHandle ==
    \A e \in Entities :
      (Visiting(e) /\ Polled(e)) =>
        \A g \in PolledAgainst(comp[e]) : slab[g][handle[comp[e]]] = comp[e]

\* A connection that is on an entity and owns its handle is found through the
\* map at that entity, by commands, hooks and both systems (endpoint.rs:376).
RoutesLeadHome ==
    \A e \in Entities, g \in Endpoints :
      (comp[e] # None /\ host[g] = chost[comp[e]]
         /\ slab[g][handle[comp[e]]] = comp[e])
      => connections[g][handle[comp[e]]] = e

\* Why the schedule's actions make sense: systems run with the world to
\* themselves, and what they iterate over stays what it was.
StageInv ==
    /\ observing => pc \in {"endpoint_commands", "handle_incoming_responses",
                            "connection_commands"}
    /\ pc = "poll_endpoints" => \A g \in todo : g \in Endpoints /\ host[g] # None
    /\ pc = "poll_connections" => \A e \in todo : e \in Entities /\ comp[e] # None
    /\ locked # None => pc = "poll_endpoints" /\ locked \in todo
    /\ locked \notin reading
    /\ \A g \in reading : driver[g] = "running"

OneEndpointPerHost ==
    \A g, k \in Endpoints : host[g] # None /\ host[g] = host[k] => g = k

UnbuiltIsNowhere == \A g \in Endpoints : driver[g] = "unbuilt" => host[g] = None

DroppedOwnsNothing ==
    \A g \in Endpoints : host[g] = None =>
      /\ receiver[g] = <<>>
      /\ \A h \in Handles : connections[g][h] = None /\ slab[g][h] = None

UsedConnections ==
    /\ \A c \in Conns : chost[c] # None => handle[c] \in Handles
    /\ \A c \in held \cup onWire : chost[c] # None
    /\ \A e \in Entities : comp[e] # None => e \in carried /\ chost[comp[e]] # None

SlabAgrees ==
    \A g \in Endpoints, h \in Handles : slab[g][h] # None =>
      handle[slab[g][h]] = h /\ chost[slab[g][h]] = host[g]

ReachableIsMapped ==
    \A g \in Endpoints, h \in Handles :
      slab[g][h] \in onWire => connections[g][h] # None

RoutesAreToCarriers ==
    \A g \in Endpoints, h \in Handles :
      connections[g][h] # None => connections[g][h] \in carried

RoutesMatch ==
    \A g \in Endpoints, h \in Handles :
      (connections[g][h] # None /\ comp[connections[g][h]] # None)
      => Matches(g, h, connections[g][h])

QueuedIsMapped ==
    \A g \in Endpoints : \A i \in DOMAIN receiver[g] :
      connections[g][receiver[g][i].handle] # None

\* Why no event is unmapped: a handle the peer can reach is mapped, and a route
\* leads to the connection with its handle or to an entity without one, so no
\* route is ever forgotten.
RoutingInv ==
    /\ OneEndpointPerHost
    /\ UnbuiltIsNowhere
    /\ DroppedOwnsNothing
    /\ UsedConnections
    /\ SlabAgrees
    /\ ReachableIsMapped
    /\ RoutesAreToCarriers
    /\ RoutesMatch
    /\ QueuedIsMapped

\* The driver reads its socket dry again and again (socket.rs:79).  With steady
\* traffic it need not: it keeps the mutex for as long as there is something to
\* read, poll_endpoints waits at endpoint.rs:439 and the schedule with it.
SocketsRunDry == \A g \in Endpoints : []<>(g \notin reading)

\* A connection that has drained leaves its entity, in the frame that follows,
\* whatever observers do to it first, as long as sockets run dry
\* (connection.rs:747-749, 767-772).
DrainedLeavesItsEntity ==
    SocketsRunDry =>
      \A e \in Entities, c \in Conns :
        (comp[e] = c /\ c \in drained) ~> (comp[e] # c \/ panicked)

\* A queued event of a connection that is not on its entity any more gets the
\* connection's handle freed, unless the Endpoint is dropped first, as long as
\* sockets run dry (endpoint.rs:455-474): the peer's own datagrams clean up
\* after a despawn.
AbandonedHandleIsFreed ==
    SocketsRunDry =>
      \A g \in Endpoints, h \in Handles, c \in Conns :
        (/\ host[g] # None
         /\ [handle |-> h, conn |-> c] \in
              {receiver[g][i] : i \in DOMAIN receiver[g]}
         /\ slab[g][h] = c
         /\ c \notin held
         /\ \A e \in Entities : comp[e] # c)
        ~> (slab[g][h] # c \/ panicked)

\* If every read of a socket comes to its end, the frame comes to its end too:
\* no datagram enters the channel while poll_endpoints empties it, so however
\* many have come before, it is not stuck in PreUpdate (endpoint.rs:439-440).
FramesGoOn == SocketsRunDry => []<>(pc = "Update" \/ panicked)
=============================================================================
