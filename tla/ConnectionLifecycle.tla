--------------------------- MODULE ConnectionLifecycle ---------------------------
(***************************************************************************)
(* The life of one connection on one entity: Incoming, Connecting,         *)
(* Connection, drained, gone; and what the application's observers are     *)
(* told of it.                                                             *)
(*                                                                         *)
(* poll_connections reads the component, KeepAlive and quinn's connection  *)
(* when it visits the entity, and queues what follows as commands.  By the *)
(* time a command is applied the observers of the commands before it have  *)
(* run, and the application may have done anything in them.  The module is *)
(* about these stale reads, about the ways quinn's connection ends, and    *)
(* about the two clocks a timer depends on.                                *)
(***************************************************************************)
EXTENDS Naturals, Sequences

CONSTANT MaxResponses  \* bound on the IncomingResponses written per frame

ASSUME LifecycleAssumption == MaxResponses \in Nat

VARIABLES
    \* The entity
    comp,             \* what it carries
    keepalive,        \* whether it has a KeepAlive
    endpoint,         \* whether the Endpoint still exists and knows the handle
    \* quinn
    state,            \* the connection's state
    slot,             \* whether the endpoint's slab still has its handle
    events,           \* events that poll will return; "More" is what makes the
                      \* loop go round again: a writable stream, or an answer of
                      \* quinn's endpoint to what poll_endpoint_events passed on
    drainedEvent,     \* the endpoint event that frees the handle is pending
    packets,          \* there is something to transmit
    deadline,         \* the next timeout of an open or of a closed connection
    due,              \* that deadline has passed
    \* ConnectionImpl
    should_poll,
    io_error,
    blocked_transmit, \* a transmit the socket refused is kept
    timeout_timer,    \* whether there is a timer, and for which deadline
    elapsed,          \* frame times have added up to the timer's duration
    \* The schedule
    pc,               \* the stage, and the step within poll_connections
    commands,         \* the commands of poll_connections
    established,      \* what poll_connections read of the component
    transmit_blocked,
    responses,        \* IncomingResponses written and not yet read
    reading,          \* those handle_incoming_responses has still to handle
    observing,        \* an observer is running
    panicked,         \* what has panicked, if anything
    \* History
    told,             \* what observers were told of the connection
    causes,           \* why it may be over without a word
    lateKeep,         \* KeepAlive was put on after poll_connections read it
    fresh             \* it became a Connection in this frame

entityVars == <<comp, keepalive, endpoint>>
quinnVars == <<state, slot, events, drainedEvent, packets, deadline, due>>
implVars == <<should_poll, io_error, blocked_transmit, timeout_timer, elapsed>>
incomingVars == <<responses, reading>>
scheduleVars == <<pc, commands, established, transmit_blocked, observing, panicked>>
historyVars == <<told, causes, lateKeep, fresh>>
vars == <<entityVars, quinnVars, implVars, incomingVars, scheduleVars, historyVars>>

\* What observers are told, in triggers of these names.  "Lost" and "IoError"
\* are variants of ConnectingError and of ConnectionError.
News == {"HandshakeDataReady", "ConnectionEstablished", "Lost", "IoError",
         "ConnectionDrained"}

\* A command, with the component poll_connections found on the entity.
Commands == [do : News \cup {"remove", "despawn"}, to : {"Connecting", "Connection"}]

Stages == {"poll_endpoints", "Update", "handle_incoming_responses",
           "incoming_error", "poll_connections", "poll_transmit", "poll_timeout",
           "poll_endpoint_events", "poll", "connection_commands"}

\* Refuse, Ignore and Retry differ in the packet that is sent, and in that a Retry
\* may fail.
Responses == {"accept", "decline"}

Connected == comp \in {"Connecting", "Connection"}

\* Types, and: a component holds the connection until that is dropped with it,
\* as a Connection only after the handshake.
TypeOK ==
    /\ comp \in {"gone", "bare", "Incoming", "Connecting", "Connection"}
    /\ state \in {"none", "initial", "handshake", "established", "closed",
                  "drained", "dropped"}
    /\ keepalive \in BOOLEAN /\ endpoint \in BOOLEAN
    /\ slot \in BOOLEAN /\ drainedEvent \in BOOLEAN
    /\ events \subseteq {"HandshakeDataReady", "Connected", "Lost", "More"}
    /\ packets \in BOOLEAN /\ due \in BOOLEAN
    /\ deadline \in {"none", "open", "close"}
    /\ should_poll \in BOOLEAN /\ io_error \in BOOLEAN
    /\ blocked_transmit \in BOOLEAN /\ transmit_blocked \in BOOLEAN
    /\ timeout_timer \in {"none", "current", "outdated"} /\ elapsed \in BOOLEAN
    /\ responses \in Seq(Responses) /\ reading \in Seq(Responses)
    /\ pc \in Stages /\ observing \in BOOLEAN
    /\ commands \in Seq(Commands)
    /\ established \in BOOLEAN
    /\ panicked \in {"no", "timer", "despawned"}
    /\ told \subseteq News
    /\ causes \subseteq {"closed by the application", "drained in handle_event"}
    /\ lateKeep \in BOOLEAN /\ fresh \in BOOLEAN
    /\ Connected <=> state \notin {"none", "dropped"}
    /\ comp = "Connection" => state \in {"established", "closed", "drained"}

Init ==
    /\ comp = "gone" /\ keepalive = FALSE /\ endpoint = TRUE
    /\ state = "none" /\ slot = FALSE /\ events = {} /\ drainedEvent = FALSE
    /\ packets = FALSE /\ deadline = "none" /\ due = FALSE
    /\ should_poll = FALSE /\ io_error = FALSE /\ blocked_transmit = FALSE
    /\ timeout_timer = "none" /\ elapsed = FALSE
    /\ pc = "Update" /\ commands = <<>> /\ established = FALSE
    /\ transmit_blocked = FALSE /\ observing = FALSE /\ panicked = "no"
    /\ responses = <<>> /\ reading = <<>>
    /\ told = {} /\ causes = {} /\ lateKeep = FALSE /\ fresh = FALSE

Alive == panicked = "no"

Running(stage) == pc = stage /\ Alive /\ ~observing

-----------------------------------------------------------------------------
(* quinn's connection: external, as the code uses it.  An operator named      *)
(* Name_Slip is Name with a mistake the properties must notice.              *)

\* ConnectionImpl::new of a connection that quinn has just made.
NewConnection ==
    /\ state = "none"
    /\ state' = "initial"
    /\ slot' = TRUE
    /\ packets' = TRUE
    /\ should_poll' = TRUE

\* quinn's next timeout is another one from now on.
NewDeadline(d) ==
    /\ deadline' = d
    /\ due' = FALSE
    /\ timeout_timer' = IF timeout_timer = "none" THEN "none" ELSE "outdated"

\* quinn's connection becomes drained, with or without a reason to report.
Drains(lost) ==
    /\ state' = "drained"
    /\ events' = IF lost THEN events \cup {"Lost"} ELSE events
    /\ drainedEvent' = TRUE
    /\ packets' = FALSE

\* Connection::close, which quinn ignores if the connection is closed already.
QuinnClose ==
    IF state \in {"closed", "drained"}
    THEN UNCHANGED <<state, packets, deadline, due, timeout_timer>>
    ELSE state' = "closed" /\ packets' = TRUE /\ NewDeadline("close")

KeepConnection ==
    UNCHANGED <<state, events, drainedEvent, packets, deadline, due, implVars>>

\* A component that holds the connection is removed: ConnectionImpl and quinn's
\* connection are dropped with it.
DropConnection ==
    IF Connected
    THEN /\ state' = "dropped"
         /\ events' = {} /\ drainedEvent' = FALSE /\ packets' = FALSE
         /\ deadline' = "none" /\ due' = FALSE
         /\ should_poll' = FALSE /\ io_error' = FALSE /\ blocked_transmit' = FALSE
         /\ timeout_timer' = "none" /\ elapsed' = FALSE
    ELSE KeepConnection

-----------------------------------------------------------------------------
(* PreUpdate: poll_endpoints *)

\* An Incoming is spawned, and NewIncoming triggered, after all events are handled;
\* none of them is for the connection, which is still to be made.
IncomingArrives ==
    /\ Running("poll_endpoints")
    /\ endpoint /\ comp = "gone" /\ state = "none"
    /\ comp' = "Incoming"
    /\ pc' = "Update"
    /\ observing' = TRUE
    /\ UNCHANGED <<keepalive, endpoint, quinnVars, implVars, incomingVars, commands,
                   established, transmit_blocked, panicked, historyVars>>

\* ConnectionImpl::handle_event, which quinn handles in one of the ways below.
HandleEvent ==
    /\ Running("poll_endpoints")
    /\ endpoint /\ Connected /\ state # "drained"
    /\ should_poll' = TRUE
    /\ UNCHANGED <<entityVars, slot, io_error, blocked_transmit, elapsed,
                   incomingVars, scheduleVars, told, lateKeep, fresh>>

HandshakeArrives ==
    /\ HandleEvent
    /\ state = "initial"
    /\ state' = "handshake"
    /\ events' = events \cup {"HandshakeDataReady"}
    /\ packets' = TRUE
    /\ NewDeadline("open")
    /\ UNCHANGED <<drainedEvent, causes>>

HandshakeCompletes ==
    /\ HandleEvent
    /\ state = "handshake"
    /\ state' = "established"
    /\ events' \in {events \cup {"Connected"}, events \cup {"Connected", "More"}}
    /\ packets' = TRUE
    /\ NewDeadline("open")
    /\ UNCHANGED <<drainedEvent, causes>>

\* Data, credit and acknowledgements.  A closed connection repeats its close.
DataArrives ==
    /\ HandleEvent
    /\ \/ /\ state = "established"
          /\ events' = events \cup {"More"}
          /\ NewDeadline("open")
       \/ /\ state = "closed"
          /\ UNCHANGED <<events, deadline, due, timeout_timer>>
    /\ packets' = TRUE
    /\ UNCHANGED <<state, drainedEvent, causes>>

\* The peer's CONNECTION_CLOSE, or an error in what it sent.
CloseArrives ==
    /\ HandleEvent
    /\ state \in {"initial", "handshake", "established"}
    /\ state' = "closed"
    /\ events' = events \cup {"Lost"}
    /\ packets' \in BOOLEAN
    /\ NewDeadline("close")
    /\ UNCHANGED <<drainedEvent, causes>>

\* A stateless reset drains the connection at once.
ResetArrives ==
    /\ HandleEvent
    /\ Drains(TRUE)
    /\ NewDeadline("none")
    /\ causes' = causes \cup {"drained in handle_event"}

EndPollEndpoints ==
    /\ Running("poll_endpoints")
    /\ pc' = "Update"
    /\ UNCHANGED <<entityVars, quinnVars, implVars, incomingVars, commands,
                   established, transmit_blocked, observing, panicked, historyVars>>

-----------------------------------------------------------------------------
(* The application, in Update and in observers *)

Application == Alive /\ (observing \/ pc = "Update")

\* An outgoing connection is inserted onto an entity.
Connect ==
    /\ Application
    /\ endpoint /\ comp \in {"gone", "bare"}
    /\ NewConnection
    /\ comp' = "Connecting"
    /\ UNCHANGED <<keepalive, endpoint, events, drainedEvent, deadline, due,
                   io_error, blocked_transmit, timeout_timer, elapsed,
                   incomingVars, scheduleVars, historyVars>>

\* Connection::close.
Close ==
    /\ Application
    /\ comp = "Connection"
    /\ QuinnClose
    /\ should_poll' = TRUE
    /\ causes' = causes \cup {"closed by the application"}
    /\ UNCHANGED <<entityVars, slot, events, drainedEvent, io_error,
                   blocked_transmit, elapsed, incomingVars, scheduleVars, told,
                   lateKeep, fresh>>

\* Streams and datagrams of a Connection: it is polled again if only for the call.
Send ==
    /\ Application
    /\ comp = "Connection"
    /\ packets' \in {packets, packets \/ state = "established"}
    /\ should_poll' = TRUE
    /\ UNCHANGED <<entityVars, state, slot, events, drainedEvent, deadline, due,
                   io_error, blocked_transmit, timeout_timer, elapsed,
                   incomingVars, scheduleVars, historyVars>>

SetKeepAlive ==
    /\ Application
    /\ comp # "gone"
    /\ keepalive' = ~keepalive
    /\ lateKeep' = (lateKeep \/ (pc = "connection_commands" /\ keepalive'))
    /\ UNCHANGED <<comp, endpoint, quinnVars, implVars, incomingVars, scheduleVars,
                   told, causes, fresh>>

\* Removing what is on the entity, or despawning it: quinn's connection is
\* dropped, and stays in the slab until a datagram arrives for it.
Remove ==
    /\ Application
    /\ comp # "gone"
    /\ \/ comp' = "bare" /\ comp # "bare" /\ UNCHANGED keepalive
       \/ comp' = "gone" /\ keepalive' = FALSE
    /\ DropConnection
    /\ UNCHANGED <<endpoint, slot, incomingVars, scheduleVars, historyVars>>

\* The Endpoint component is removed, or replaced, by the application or after
\* an I/O error; quinn's endpoint goes with it.
RemoveEndpoint ==
    /\ Application
    /\ endpoint
    /\ endpoint' = FALSE
    /\ slot' = FALSE
    /\ UNCHANGED <<comp, keepalive, state, events, drainedEvent, packets, deadline,
                   due, implVars, incomingVars, scheduleVars, historyVars>>

\* An IncomingResponse for the entity, whatever it carries.
Respond(r) ==
    /\ Application
    /\ Len(responses) < MaxResponses
    /\ responses' = Append(responses, r)
    /\ UNCHANGED <<entityVars, quinnVars, implVars, reading, scheduleVars,
                   historyVars>>

ObserverReturns ==
    /\ Alive
    /\ observing
    /\ observing' = FALSE
    /\ UNCHANGED <<entityVars, quinnVars, implVars, incomingVars, pc, commands,
                   established, transmit_blocked, panicked, historyVars>>

\* PostUpdate begins: the EventReader reads all responses at once.
EndUpdate ==
    /\ Running("Update")
    /\ pc' = "handle_incoming_responses"
    /\ reading' = responses
    /\ responses' = <<>>
    /\ UNCHANGED <<entityVars, quinnVars, implVars, commands, established,
                   transmit_blocked, observing, panicked, historyVars>>

-----------------------------------------------------------------------------
(* PostUpdate: handle_incoming_responses, whose triggers run at once *)

HandleResponse ==
    /\ Running("handle_incoming_responses")
    /\ reading # <<>>
    /\ reading' = Tail(reading)
    /\ UNCHANGED <<endpoint, events, drainedEvent, deadline, due, io_error,
                   blocked_transmit, timeout_timer, elapsed, responses, commands,
                   established, transmit_blocked, panicked, historyVars>>

\* The entity goes, or stays without its Incoming if it has a KeepAlive.
IncomingEnds ==
    /\ comp' = IF keepalive THEN "bare" ELSE "gone"
    /\ UNCHANGED keepalive

\* Goes on after the error as after a refusal.
RespondInVain_Slip ==
    /\ HandleResponse
    /\ comp # "Incoming"
    /\ IncomingEnds
    /\ observing' = TRUE
    /\ UNCHANGED <<state, slot, packets, should_poll, pc>>

\* MissingEntity or MalformedEntity, for a duplicate response for example.
RespondInVain ==
    /\ HandleResponse
    /\ comp # "Incoming"
    /\ observing' = TRUE
    /\ UNCHANGED <<comp, keepalive, state, slot, packets, should_poll, pc>>

\* Refuse, Ignore, a Retry that is sent, and any response without an Endpoint.
Refuse ==
    /\ HandleResponse
    /\ comp = "Incoming"
    /\ Head(reading) # "accept" \/ ~endpoint
    /\ IncomingEnds
    /\ UNCHANGED <<state, slot, packets, should_poll, pc, observing>>

\* The Incoming becomes a Connecting, and ConnectionAccepted is triggered.
Accept ==
    /\ HandleResponse
    /\ comp = "Incoming" /\ endpoint
    /\ Head(reading) = "accept"
    /\ NewConnection
    /\ comp' = "Connecting"
    /\ observing' = TRUE
    /\ UNCHANGED <<keepalive, pc>>

\* AcceptError or RetryError.
RespondFails ==
    /\ HandleResponse
    /\ comp = "Incoming" /\ endpoint
    /\ comp' = "bare"
    /\ observing' = TRUE
    /\ pc' = "incoming_error"
    /\ UNCHANGED <<keepalive, state, slot, packets, should_poll>>

\* What follows the observers of the error: KeepAlive is looked up only now, and
\* an entity that they despawned is looked up in vain.
EndIncomingError ==
    /\ Running("incoming_error")
    /\ pc' = "handle_incoming_responses"
    /\ IF comp = "gone"
       THEN panicked' = "despawned" /\ UNCHANGED comp
       ELSE UNCHANGED panicked /\ comp' = IF keepalive THEN comp ELSE "gone"
    /\ IF keepalive THEN KeepConnection ELSE DropConnection
    /\ UNCHANGED <<keepalive, endpoint, slot, incomingVars, commands,
                   established, transmit_blocked, observing, historyVars>>

EndIncomingResponses ==
    /\ Running("handle_incoming_responses")
    /\ reading = <<>>
    /\ pc' = "poll_connections"
    /\ UNCHANGED <<entityVars, quinnVars, implVars, incomingVars, commands,
                   established, transmit_blocked, observing, panicked, historyVars>>

-----------------------------------------------------------------------------
(* PostUpdate: poll_connections *)

\* Queues news for the application, under the name the component had.
Command(do) == [do |-> do, to |-> IF established THEN "Connection" ELSE "Connecting"]

\* Does not look at KeepAlive.
RemoveOrDespawn_Slip(keep) == [do |-> "despawn", to |-> comp]

\* remove_or_despawn with the KeepAlive that the query found.
RemoveOrDespawn(keep) ==
    [do |-> IF keep THEN "remove" ELSE "despawn", to |-> comp]

VisitNothing ==
    /\ Running("poll_connections")
    /\ ~Connected
    /\ pc' = "connection_commands"
    /\ UNCHANGED <<entityVars, quinnVars, implVars, incomingVars, commands,
                   established, transmit_blocked, observing, panicked, historyVars>>

VisitDrained ==
    /\ Running("poll_connections")
    /\ Connected /\ state = "drained"
    /\ commands' = <<[do |-> "ConnectionDrained", to |-> comp],
                     RemoveOrDespawn(keepalive)>>
    /\ pc' = "connection_commands"
    /\ UNCHANGED <<entityVars, quinnVars, implVars, incomingVars, established,
                   transmit_blocked, observing, panicked, historyVars>>

\* "If the endpoint does not exist anymore, neither should we"
VisitOrphan ==
    /\ Running("poll_connections")
    /\ Connected /\ state # "drained" /\ ~endpoint
    /\ commands' = <<RemoveOrDespawn(keepalive)>>
    /\ pc' = "connection_commands"
    /\ UNCHANGED <<entityVars, quinnVars, implVars, incomingVars, established,
                   transmit_blocked, observing, panicked, historyVars>>

\* quinn's handle_timeout: nothing happens before the deadline.  An open
\* connection is idle for too long, or has something to send again.
QuinnTimeout ==
    \/ /\ deadline # "none" /\ due
       /\ Drains(deadline = "open")
       /\ deadline' = "none"
       /\ due' = FALSE
    \/ /\ deadline = "open" /\ due
       /\ packets' = TRUE
       /\ due' = FALSE
       /\ UNCHANGED <<state, events, drainedEvent, deadline>>
    \/ /\ deadline = "none" \/ ~due
       /\ UNCHANGED <<state, events, drainedEvent, packets, deadline, due>>

\* Does not poll the connection that has timed out.
HandleTimeout_Slip ==
    IF timeout_timer # "none" /\ elapsed
    THEN /\ QuinnTimeout
         /\ timeout_timer' = "none"
         /\ elapsed' = FALSE
         /\ UNCHANGED should_poll
    ELSE UNCHANGED <<state, events, drainedEvent, packets, deadline, due,
                     timeout_timer, elapsed, should_poll>>

\* ConnectionImpl::handle_timeout: the timer has just finished.
HandleTimeout ==
    IF timeout_timer # "none" /\ elapsed
    THEN /\ QuinnTimeout
         /\ timeout_timer' = "none"
         /\ elapsed' = FALSE
         /\ should_poll' = TRUE
    ELSE UNCHANGED <<state, events, drainedEvent, packets, deadline, due,
                     timeout_timer, elapsed, should_poll>>

\* Does not ask which of the two components there is.
Visit_Slip ==
    /\ Running("poll_connections")
    /\ Connected /\ state # "drained" /\ endpoint
    /\ HandleTimeout
    /\ transmit_blocked' = FALSE
    /\ pc' = "poll_transmit"
    /\ UNCHANGED <<entityVars, slot, io_error, blocked_transmit, incomingVars,
                   commands, established, observing, panicked, historyVars>>

Visit ==
    /\ Running("poll_connections")
    /\ Connected /\ state # "drained" /\ endpoint
    /\ established' = (comp = "Connection")
    /\ HandleTimeout
    /\ transmit_blocked' = FALSE
    /\ pc' = "poll_transmit"
    /\ UNCHANGED <<entityVars, slot, io_error, blocked_transmit, incomingVars,
                   commands, observing, panicked, historyVars>>

\* Forgets the transmit that waits for the socket.
EndVisit_Slip ==
    /\ Running("poll_transmit")
    /\ ~should_poll
    /\ pc' = "connection_commands"
    /\ UNCHANGED <<entityVars, quinnVars, implVars, incomingVars, commands,
                   established, transmit_blocked, observing, panicked, historyVars>>

\* "queue the connection to be polled again the next time this system runs"
EndVisit ==
    /\ Running("poll_transmit")
    /\ ~should_poll
    /\ should_poll' = transmit_blocked
    /\ pc' = "connection_commands"
    /\ UNCHANGED <<entityVars, quinnVars, io_error, blocked_transmit,
                   timeout_timer, elapsed, incomingVars, commands, established,
                   transmit_blocked, observing, panicked, historyVars>>

\* #1: poll_transmit
Transmitting ==
    /\ Running("poll_transmit")
    /\ should_poll
    /\ pc' = "poll_timeout"
    /\ UNCHANGED <<entityVars, slot, events, drainedEvent, elapsed, incomingVars,
                   established, observing, panicked, historyVars>>

HasTransmit == blocked_transmit \/ packets

\* All of it is sent, or eaten after an I/O error.  quinn's timers run once
\* something has been sent.
Transmit ==
    /\ Transmitting
    /\ should_poll' = FALSE
    /\ packets' = FALSE
    /\ blocked_transmit' = FALSE
    /\ IF HasTransmit /\ state \notin {"closed", "drained"} /\ deadline = "none"
       THEN NewDeadline("open")
       ELSE UNCHANGED <<deadline, due, timeout_timer>>
    /\ UNCHANGED <<state, io_error, commands, transmit_blocked>>

\* The socket would block: one transmit is kept.
TransmitBlocks ==
    /\ Transmitting
    /\ HasTransmit /\ ~io_error
    /\ should_poll' = FALSE
    /\ blocked_transmit' = TRUE
    /\ transmit_blocked' = TRUE
    /\ packets' \in {FALSE, packets}
    /\ UNCHANGED <<state, deadline, due, timeout_timer, io_error, commands>>

\* Does not remember the I/O error, so the close packet meets it again.
TransmitFails_Slip ==
    /\ Transmitting
    /\ HasTransmit /\ ~io_error
    /\ commands' = Append(commands, Command("IoError"))
    /\ QuinnClose
    /\ should_poll' = TRUE
    /\ blocked_transmit' = FALSE
    /\ UNCHANGED <<io_error, transmit_blocked>>

\* An I/O error is told, closes the connection, and has the rest eaten.
TransmitFails ==
    /\ Transmitting
    /\ HasTransmit /\ ~io_error
    /\ commands' = Append(commands, Command("IoError"))
    /\ IF state \in {"closed", "drained"}
       THEN UNCHANGED <<state, deadline, due, timeout_timer>>
       ELSE state' = "closed" /\ NewDeadline("close")
    /\ should_poll' = TRUE
    /\ io_error' = TRUE
    /\ packets' = FALSE
    /\ blocked_transmit' = FALSE
    /\ UNCHANGED transmit_blocked

PollingTimeout ==
    /\ Running("poll_timeout")
    /\ UNCHANGED <<entityVars, quinnVars, should_poll, io_error, blocked_transmit,
                   incomingVars, commands, established, transmit_blocked,
                   observing, historyVars>>

\* #2: poll_timeout.  The timer for an unchanged deadline is left alone.
PollTimeout ==
    /\ PollingTimeout
    /\ deadline = "none" \/ timeout_timer = "current" \/ ~due
    /\ pc' = "poll_endpoint_events"
    /\ timeout_timer' = IF deadline = "none" THEN "none" ELSE "current"
    /\ elapsed' = (elapsed /\ deadline # "none" /\ timeout_timer = "current")
    /\ UNCHANGED panicked

\* expect("Monotonicity violated"): a new deadline has passed already.
PanicTimeout ==
    /\ PollingTimeout
    /\ deadline # "none" /\ timeout_timer # "current" /\ due
    /\ panicked' = "timer"
    /\ UNCHANGED <<pc, timeout_timer, elapsed>>

\* Passes on the events of an established connection only.
PollEndpointEvents_Slip ==
    /\ Running("poll_endpoint_events")
    /\ pc' = "poll"
    /\ slot' = (slot /\ ~(drainedEvent /\ established))
    /\ drainedEvent' = FALSE
    /\ UNCHANGED <<entityVars, state, events, packets, deadline, due, implVars,
                   incomingVars, commands, established, transmit_blocked,
                   observing, panicked, historyVars>>

\* #3: poll_endpoint_events.  The drained event has the handle freed.
PollEndpointEvents ==
    /\ Running("poll_endpoint_events")
    /\ pc' = "poll"
    /\ slot' = (slot /\ ~drainedEvent)
    /\ drainedEvent' = FALSE
    /\ UNCHANGED <<entityVars, state, events, packets, deadline, due, implVars,
                   incomingVars, commands, established, transmit_blocked,
                   observing, panicked, historyVars>>

\* quinn returns the loss of the connection last.
PolledNews ==
    (IF "HandshakeDataReady" \in events
     THEN <<Command("HandshakeDataReady")>> ELSE <<>>)
    \o (IF "Connected" \in events
        THEN <<Command("ConnectionEstablished")>> ELSE <<>>)
    \o (IF "Lost" \in events THEN <<Command("Lost")>> ELSE <<>>)

\* #4: poll, then what the endpoint answered, and the flush of the streams that
\* have become writable.
Poll ==
    /\ Running("poll")
    /\ pc' = "poll_transmit"
    /\ commands' = commands \o PolledNews
    /\ events' = {}
    /\ should_poll' = (should_poll \/ "More" \in events)
    /\ packets' = (packets \/ (state = "established" /\ "More" \in events))
    /\ UNCHANGED <<entityVars, state, slot, drainedEvent, deadline, due, io_error,
                   blocked_transmit, timeout_timer, elapsed, incomingVars,
                   established, transmit_blocked, observing, panicked, historyVars>>

-----------------------------------------------------------------------------
(* The commands of poll_connections, with the observers they trigger *)

Applying ==
    /\ Running("connection_commands")
    /\ commands # <<>>

Apply(do) ==
    /\ Applying
    /\ Head(commands).do = do
    /\ commands' = Tail(commands)
    /\ UNCHANGED <<endpoint, slot, incomingVars, pc, established, transmit_blocked,
                   causes, lateKeep>>

ApplyTrigger ==
    /\ \E news \in News \ {"ConnectionEstablished"} :
         Apply(news) /\ told' = told \cup {news}
    /\ observing' = TRUE
    /\ KeepConnection
    /\ UNCHANGED <<comp, keepalive, panicked, fresh>>

\* Does not look whether the connection is still there.
ApplyEstablish_Slip ==
    /\ Apply("ConnectionEstablished")
    /\ comp' = "Connection"
    /\ told' = told \cup {"ConnectionEstablished"}
    /\ observing' = TRUE
    /\ fresh' = TRUE
    /\ KeepConnection
    /\ UNCHANGED <<keepalive, panicked>>

\* The closure queued for Event::Connected: a command for an entity that an
\* observer has despawned panics, a Connecting that is gone is not looked for.
ApplyEstablish ==
    /\ Apply("ConnectionEstablished")
    /\ IF comp = "Connecting"
       THEN /\ comp' = "Connection"
            /\ told' = told \cup {"ConnectionEstablished"}
            /\ observing' = TRUE
            /\ fresh' = TRUE
       ELSE UNCHANGED <<comp, told, observing, fresh>>
    /\ panicked' = IF comp = "gone" THEN "despawned" ELSE "no"
    /\ KeepConnection
    /\ UNCHANGED keepalive

ApplyRemove ==
    /\ Apply("remove")
    /\ comp' = IF Connected THEN "bare" ELSE comp
    /\ DropConnection
    /\ UNCHANGED <<keepalive, observing, panicked, told, fresh>>

ApplyDespawn ==
    /\ Apply("despawn")
    /\ comp' = "gone"
    /\ keepalive' = FALSE
    /\ DropConnection
    /\ UNCHANGED <<observing, panicked, told, fresh>>

EndFrame ==
    /\ Running("connection_commands")
    /\ commands = <<>>
    /\ pc' = "poll_endpoints"
    /\ established' = FALSE
    /\ transmit_blocked' = FALSE
    /\ lateKeep' = FALSE
    /\ fresh' = FALSE
    /\ UNCHANGED <<entityVars, quinnVars, implVars, incomingVars, commands,
                   observing, panicked, told, causes>>

-----------------------------------------------------------------------------
(* Time.  poll_connections takes one `now` for all it does. *)

Between == Alive /\ pc \notin {"poll_transmit", "poll_timeout",
                              "poll_endpoint_events", "poll"}

\* Deadlines are of the clock, and of the moment a datagram was received: they
\* pass however far the frame is.
DeadlinePasses ==
    /\ Between
    /\ deadline # "none" /\ ~due
    /\ due' = TRUE
    /\ UNCHANGED <<entityVars, state, slot, events, drainedEvent, packets, deadline,
                   implVars, incomingVars, scheduleVars, historyVars>>

\* The timer counts frame times, and may finish early or late.
TimerElapses ==
    /\ Between
    /\ timeout_timer # "none" /\ ~elapsed
    /\ elapsed' = TRUE
    /\ UNCHANGED <<entityVars, quinnVars, should_poll, io_error, blocked_transmit,
                   timeout_timer, incomingVars, scheduleVars, historyVars>>

-----------------------------------------------------------------------------

PollEndpoints ==
    \/ IncomingArrives
    \/ HandshakeArrives \/ HandshakeCompletes \/ DataArrives
    \/ CloseArrives \/ ResetArrives

HandleIncomingResponses ==
    \/ RespondInVain \/ Refuse \/ Accept \/ RespondFails
    \/ EndIncomingError \/ EndIncomingResponses

PollConnections ==
    \/ VisitNothing \/ VisitDrained \/ VisitOrphan \/ Visit \/ EndVisit
    \/ Transmit \/ TransmitBlocks \/ TransmitFails
    \/ PollTimeout \/ PanicTimeout \/ PollEndpointEvents \/ Poll
    \/ ApplyTrigger \/ ApplyEstablish \/ ApplyRemove \/ ApplyDespawn
    \/ EndFrame

\* What App::update runs of this library, and the return of observers.
Schedule ==
    \/ EndPollEndpoints \/ EndUpdate \/ HandleIncomingResponses
    \/ PollConnections \/ ObserverReturns

ApplicationStep ==
    \/ Connect \/ Close \/ Send \/ SetKeepAlive \/ Remove \/ RemoveEndpoint
    \/ \E r \in Responses : Respond(r)

\* A panic unwinds out of App::update: nothing runs after it.
Halted == ~Alive /\ UNCHANGED vars

Next ==
    \/ PollEndpoints \/ Schedule \/ ApplicationStep
    \/ DeadlinePasses \/ TimerElapses \/ Halted

Spec == Init /\ [][Next]_vars

\* App::update is called again and again, time passes, and the socket that would
\* block does not do so for ever.  Network and application promise nothing.
FairSpec ==
    /\ Spec
    /\ WF_vars(Schedule)
    /\ SF_vars(DeadlinePasses)
    /\ SF_vars(TimerElapses)
    /\ SF_vars(Transmit)

-----------------------------------------------------------------------------
(* Properties *)

\* What observers are about to be told.
AboutToTell(news) ==
    /\ Applying
    /\ Head(commands).do = news
    /\ news = "ConnectionEstablished" => comp = "Connecting"

\* Observers are told everything once, nothing after ConnectionDrained, and
\* after the loss of the connection only that the socket failed or that it has
\* drained: no event of an earlier frame, loop or command comes late
\* (connection.rs:749, 832-862).
ToldInOrder ==
    \A news \in News : AboutToTell(news) =>
      /\ news \notin told
      /\ "ConnectionDrained" \notin told
      /\ "Lost" \in told => news \in {"IoError", "ConnectionDrained"}

\* A connection that has drained was reported lost or failed before, unless the
\* application closed it or a datagram drained it at once: a timeout is polled
\* in the frame it happens in, before the connection is found drained
\* (connection.rs:747, 775, 852).
EndsAreExplained ==
    "ConnectionDrained" \in told =>
      causes # {} \/ told \cap {"Lost", "IoError"} # {}

\* When observers hear that a connection has drained, quinn has its handle back,
\* unless a datagram drained it at once (connection.rs:747, 828-831).
DrainedHandlesAreFree ==
    "ConnectionDrained" \in told =>
      ~slot \/ "drained in handle_event" \in causes

\* An error is told under the name of the component the observers find, or of
\* the one they would have found a frame ago: ConnectingError for a Connection
\* only in the frame that established it (connection.rs:744, 811-816, 852-857).
ErrorsAreOneFrameStale ==
    \A news \in {"Lost", "IoError"} :
      (AboutToTell(news) /\ Connected) => Head(commands).to = comp \/ fresh

\* The library despawns an entity with a KeepAlive only if that was put on after
\* poll_connections read that there was none: "it will never be automatically
\* despawned by this library" (lib.rs:38, 49-54; incoming.rs:254-268).
KeepAliveIsHonoured ==
    [][(~observing /\ pc # "Update" /\ comp # "gone" /\ comp' = "gone")
         => ~keepalive \/ lateKeep]_vars

\* A response for an entity whose connection an earlier one has made, in the
\* same frame or before, leaves the connection alone (incoming.rs:208-212).
ResponsesSpareConnections ==
    [][(reading' # reading /\ Connected) => comp' = comp]_vars

\* A connection that is closed leaves its entity in the end, whichever side
\* closed it and whatever the clocks, the timers and the socket do
\* (connection.rs:658-666, 687-709).
ClosedLeaves == (state = "closed" /\ Connected) ~> (~Connected \/ ~Alive)

\* What there is to send leaves in the end, refused transmits included, if the
\* connection lasts (connection.rs:800-820, 883-885).
TransmitsLeave ==
    (HasTransmit /\ Connected) ~> (~HasTransmit \/ ~Connected \/ ~Alive)

\* expect("Monotonicity violated"): quinn's next timeout is never in the past when
\* a timer is made for it (connection.rs:697-700).
MonotonicityHolds == panicked # "timer"
=============================================================================
