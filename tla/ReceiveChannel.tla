----------------------------- MODULE ReceiveChannel -----------------------------
(***************************************************************************)
(* What the systems may count on of the socket's task and the channel it   *)
(* fills: nothing is put into the channel while one of them holds the      *)
(* endpoint's mutex, except that the task has failed; that is the last of  *)
(* it; events come out in the order in which quinn made them.              *)
(*                                                                         *)
(* EndpointRouting has this for its Receive, DriverFails and DriverStops;  *)
(* SocketDriver is the task that keeps the promise.                        *)
(***************************************************************************)
EXTENDS Sequences

CONSTANTS
    Events,  \* what quinn makes of datagrams
    Error    \* the I/O error that ends the task

VARIABLES
    queue,    \* events made and not yet taken
    running,  \* the task
    open,     \* the Endpoint, with the channel's receiver
    holder    \* the mutex: "none" but for the systems, "draining" for
              \* poll_endpoints, which takes all there is, "other"

channelVars == <<queue, running, open, holder>>

Init ==
    /\ queue = <<>> /\ running = TRUE /\ open = TRUE /\ holder = "none"

Receive(e) ==
    /\ running /\ open /\ holder = "none"
    /\ queue' = Append(queue, e)
    /\ UNCHANGED <<running, open, holder>>

Fail ==
    /\ running /\ open
    /\ queue' = Append(queue, Error)
    /\ running' = FALSE
    /\ UNCHANGED <<open, holder>>

\* The task notices that there is no receiver.
Stop ==
    /\ running /\ ~open
    /\ running' = FALSE
    /\ UNCHANGED <<queue, open, holder>>

Acquire(h) ==
    /\ open /\ holder = "none"
    /\ holder' = h
    /\ UNCHANGED <<queue, running, open>>

Take ==
    /\ holder = "draining" /\ queue # <<>>
    /\ queue' = Tail(queue)
    /\ UNCHANGED <<running, open, holder>>

\* poll_endpoints goes on until nothing is left.
Release ==
    /\ holder \in {"draining", "other"}
    /\ holder = "draining" => queue = <<>>
    /\ holder' = "none"
    /\ UNCHANGED <<queue, running, open>>

\* The Endpoint is dropped with what is in the channel.
Drop ==
    /\ open /\ holder = "none"
    /\ open' = FALSE
    /\ queue' = <<>>
    /\ UNCHANGED <<running, holder>>

Next ==
    \/ \E e \in Events : Receive(e)
    \/ Fail \/ Stop
    \/ \E h \in {"draining", "other"} : Acquire(h)
    \/ Take \/ Release \/ Drop

Spec == Init /\ [][Next]_channelVars
=============================================================================
