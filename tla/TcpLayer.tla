------------------------------ MODULE TcpLayer ------------------------------
(***************************************************************************)
(* TCPLayer (mitmproxy/proxy/layers/tcp.py) between a client and a server, *)
(* with what it depends on in layer.py and server.py: events that arrive   *)
(* while it is paused are queued, Connection.state is changed by the       *)
(* connections' handlers at once, and the layer reads it later.            *)
(*                                                                         *)
(* A message is a pair of its sender and its number.  One action is one    *)
(* event of a socket or hook, or the handling of one queued event; queued  *)
(* events are handled before anything else can happen (Settled).           *)
(***************************************************************************)
EXTENDS Naturals, SequencesExt

CONSTANTS
  Ignoring,     \* values of ignore: does the layer run without a flow?
  MaxMessages,  \* bound on the messages of each peer
  MaxInjected,  \* bound on the messages the user injects
  Losses        \* connections may be lost without having been closed

ASSUME BoundsAssumption ==
  /\ MaxMessages \in Nat /\ MaxInjected \in Nat
  /\ Ignoring \subseteq BOOLEAN /\ Losses \in BOOLEAN

Conns == {"client", "server"}
Other(c) == IF c = "client" THEN "server" ELSE "client"
Event == [kind : {"data", "closed"}, conn : Conns, n : Nat]
Data(c, n) == [kind |-> "data", conn |-> c, n |-> n]
Closed(c) == [kind |-> "closed", conn |-> c, n |-> 0]

VARIABLES
  ignore,     \* the layer has no flow, and runs no hooks; never changes
  phase,      \* where the layer's generator is suspended, relay or done if nowhere
  current,    \* event whose hook runs
  queue,      \* _paused_event_queue
  state,      \* Connection.state of both connections
  handler,    \* task that serves each connection
  cancelled,  \* handlers that were cancelled and do not know it yet
  arrived,    \* history: messages from each connection, in the order of their events
  out,        \* history: messages written to each connection
  injected,   \* number of injected messages
  ended,      \* history: hooks tcp_end and tcp_error
  cleaned,    \* handle_client has cancelled the handlers left at its end
  disturbed   \* history: a handler was cancelled, not by the layer

sockets == <<state, handler, cancelled>>
vars == <<ignore, phase, current, queue, state, handler, cancelled, arrived, out,
          injected, ended, cleaned, disturbed>>
history == <<ignore, arrived, out, injected, ended, cleaned, disturbed>>

\* Of open_connection: what runs before the layer gets its answer.
Opening == {"connect_hook", "connecting", "connected_hook", "refused_hook"}
Hooks == {"start_hook", "connect_hook", "connected_hook", "refused_hook",
          "message_hook", "error_hook", "end_hook"}

TypeOK ==
  /\ ignore \in Ignoring
  /\ phase \in Hooks \cup Opening \cup {"relay", "done"}
  /\ current \in Event
  /\ queue \in Seq(Event)
  /\ state \in [Conns -> SUBSET {"R", "W"}]
  /\ handler \in [Conns -> {"none", "read", "closing", "half_closed", "gone"}]
  /\ cancelled \subseteq Conns
  /\ arrived \in [Conns -> Seq(1..MaxMessages)]
  /\ out \in [Conns -> Seq(1..MaxMessages)]
  /\ injected \in 0..MaxInjected
  /\ ended \in Seq({"end", "error"})
  /\ cleaned \in BOOLEAN
  /\ disturbed \in BOOLEAN

\* What follows tcp_start, or begins a layer that ignores: the server connection
\* is opened, unless somebody has done that before.
Start(h) == IF h["server"] = "none" THEN "connect_hook" ELSE "relay"

\* Start was handled.
Init ==
  /\ ignore \in Ignoring
  /\ current = Closed("client")
  /\ queue = << >>
  /\ \E there \in {{"client"}, Conns} :
       /\ state = [c \in Conns |-> IF c \in there THEN {"R", "W"} ELSE {}]
       /\ handler = [c \in Conns |-> IF c \in there THEN "read" ELSE "none"]
  /\ phase = IF ignore THEN Start(handler) ELSE "start_hook"
  /\ cancelled = {}
  /\ arrived = [c \in Conns |-> << >>]
  /\ out = [c \in Conns |-> << >>]
  /\ injected = 0
  /\ ended = << >>
  /\ cleaned = FALSE
  /\ disturbed = FALSE

\* The connection is in transports, with a writer.
Served(c) == handler[c] \in {"read", "closing", "half_closed"}

\* No event is being handled, and no handler is on its way from server_event to
\* its next await.
Handled == phase \in {"relay", "done"} => queue = << >>
Settled == Handled /\ \A c \in Conns : handler[c] # "closing"

-----------------------------------------------------------------------------
(* The layer handles the first queued event (relay_messages, done).        *)

\* SendData to c, dropped by server_event if the connection is gone.
Send(c, n) ==
  out' = IF Served(c) THEN [out EXCEPT ![c] = Append(@, n)] ELSE out

\* Faulty variant: messages are forwarded before the hook has seen them.
RelayDataAtOnce(e) ==
  /\ e.kind = "data"
  /\ phase' = IF ignore THEN "relay" ELSE "message_hook"
  /\ Send(Other(e.conn), e.n)
  /\ current' = e
  /\ UNCHANGED <<sockets, ended>>

RelayData(e) ==
  /\ e.kind = "data"
  /\ IF ignore
     THEN Send(Other(e.conn), e.n) /\ UNCHANGED <<phase, current>>
     ELSE phase' = "message_hook" /\ current' = e /\ UNCHANGED out
  /\ UNCHANGED <<sockets, ended>>

\* Faulty variant: half-closed connections do not count.
AllClosed == \A c \in Conns : state[c] = {}

AllDone == \A c \in Conns : "R" \notin state[c]

\* Both sides are closed for reading: everything is closed, and tcp_end runs.
RelayLastClosed(e) ==
  /\ e.kind = "closed"
  /\ AllDone
  /\ cancelled' = cancelled \cup {c \in Conns : state[c] # {} /\ Served(c)}
  /\ state' = [c \in Conns |-> {}]
  /\ IF ignore THEN phase' = "done" /\ UNCHANGED ended
     ELSE phase' = "end_hook" /\ ended' = Append(ended, "end")
  /\ UNCHANGED <<current, out, handler>>

\* One side is closed: half-close the other one, which is closed altogether if
\* the peer has gone, or if the socket turns out to be dead.
RelayHalfClose(e) ==
  LET to == Other(e.conn) IN
  /\ e.kind = "closed"
  /\ ~AllDone
  /\ IF Served(to) /\ "W" \in state[to]
     THEN \E left \in {state[to] \ {"W"}} \cup (IF Losses THEN {{}} ELSE {}) :
            /\ state' = [state EXCEPT ![to] = left]
            /\ cancelled' = IF left = {} THEN cancelled \cup {to} ELSE cancelled
     ELSE UNCHANGED <<state, cancelled>>
  /\ UNCHANGED <<phase, current, out, handler, ended>>

HandleQueued ==
  /\ phase = "relay" /\ queue # << >>
  /\ \/ RelayData(Head(queue))
     \/ RelayLastClosed(Head(queue))
     \/ RelayHalfClose(Head(queue))
  /\ queue' = Tail(queue)
  /\ UNCHANGED <<arrived, injected, cleaned, disturbed,
                 ignore>>

\* done() swallows all further events.
Swallow ==
  /\ phase = "done" /\ queue # << >>
  /\ queue' = << >>
  /\ UNCHANGED <<phase, current, sockets, history>>

-----------------------------------------------------------------------------
(* Replies to the blocking commands of the layer.                          *)

StartHookEnds ==
  /\ Settled
  /\ phase = "start_hook"
  /\ phase' = Start(handler)
  /\ UNCHANGED <<current, queue, sockets, history>>

\* The server_connect hook is over; if it has killed the connection, the
\* server_connect_error hook runs.
ConnectHookEnds ==
  /\ Settled
  /\ phase = "connect_hook" /\ "server" \notin cancelled
  /\ phase' \in {"connecting", "refused_hook"}
  /\ UNCHANGED <<current, queue, sockets, history>>

ServerConnected ==
  /\ Settled
  /\ phase = "connecting" /\ "server" \notin cancelled
  /\ phase' = "connected_hook"
  /\ state' = [state EXCEPT !["server"] = {"R", "W"}]
  /\ UNCHANGED <<current, queue, handler, cancelled, history>>

\* OpenConnectionCompleted, without an error.
ConnectedHookEnds ==
  /\ Settled
  /\ phase = "connected_hook" /\ "server" \notin cancelled
  /\ phase' = "relay"
  /\ handler' = [handler EXCEPT !["server"] = "read"]
  /\ UNCHANGED <<current, queue, state, cancelled, history>>

\* CloseConnection(client), dropped if the connection is gone.
CloseClient ==
  /\ state' = IF Served("client") THEN [state EXCEPT !["client"] = {}] ELSE state
  /\ cancelled' = IF Served("client") THEN cancelled \cup {"client"} ELSE cancelled
  /\ UNCHANGED handler

\* The attempt is refused or was cancelled: the server_connect_error hook runs,
\* and the cancellation is forgotten until it is over.
ConnectFails ==
  /\ Settled
  /\ phase = "connecting"
  /\ phase' = "refused_hook"
  /\ cancelled' = cancelled \ {"server"}
  /\ UNCHANGED <<current, queue, state, handler, history>>

\* OpenConnectionCompleted, with an error.
RefusedHookEnds ==
  /\ Settled
  /\ phase = "refused_hook" /\ "server" \notin cancelled
  /\ IF ignore
     THEN phase' = "done" /\ CloseClient /\ UNCHANGED ended
     ELSE phase' = "error_hook" /\ ended' = Append(ended, "error") /\ UNCHANGED sockets
  /\ UNCHANGED <<current, queue, arrived, out, injected, cleaned, disturbed,
                 ignore>>

\* open_connection is cancelled in a hook: the layer gets no answer.
ServerConnectCancelled ==
  /\ Settled
  /\ phase \in Opening \cap Hooks
  /\ "server" \in cancelled /\ handler["server"] = "none"
  /\ handler' = [handler EXCEPT !["server"] = "gone"]
  /\ UNCHANGED <<phase, current, queue, state, cancelled, history>>

MessageHookEnds ==
  /\ Settled
  /\ phase = "message_hook"
  /\ phase' = "relay"
  /\ Send(Other(current.conn), current.n)
  /\ UNCHANGED <<current, queue, sockets, arrived, injected, ended, cleaned, disturbed,
                 ignore>>

\* Faulty variant: a failed flow is reported as ended, too.
ErrorHookEndsTwice ==
  /\ Settled
  /\ phase = "error_hook"
  /\ phase' = "end_hook"
  /\ ended' = Append(ended, "end")
  /\ CloseClient
  /\ UNCHANGED <<current, queue, arrived, out, injected, cleaned, disturbed,
                 ignore>>

ErrorHookEnds ==
  /\ Settled
  /\ phase = "error_hook"
  /\ phase' = "done"
  /\ CloseClient
  /\ UNCHANGED <<current, queue, history>>

EndHookEnds ==
  /\ Settled
  /\ phase = "end_hook"
  /\ phase' = "done"
  /\ UNCHANGED <<current, queue, sockets, history>>

-----------------------------------------------------------------------------
(* The handlers of the connections (handle_connection, handle_client), and *)
(* their peers.                                                            *)

Deliver(e) == queue' = Append(queue, e)

\* A message of connection c reaches the layer.
Arrive(c) ==
  /\ Len(arrived[c]) < MaxMessages
  /\ arrived' = [arrived EXCEPT ![c] = Append(@, Len(@) + 1)]
  /\ Deliver(Data(c, Len(arrived[c]) + 1))

PeerSends(c) ==
  /\ Settled
  /\ handler[c] = "read" /\ c \notin cancelled
  /\ Arrive(c)
  /\ UNCHANGED <<phase, current, sockets, out, injected, ended, cleaned, disturbed,
                 ignore>>

\* TcpMessageInjected; nothing is injected for a peer that has closed its side.
Inject(c) ==
  /\ Settled
  /\ injected < MaxInjected
  /\ handler[c] = "read" /\ "R" \in state[c]
  /\ Arrive(c)
  /\ injected' = injected + 1
  /\ UNCHANGED <<phase, current, sockets, out, ended, cleaned, disturbed,
                 ignore>>

\* The peer closes its side, or the connection breaks.
PeerCloses(c) ==
  /\ Settled
  /\ handler[c] = "read" /\ c \notin cancelled
  /\ state' = [state EXCEPT ![c] = @ \ {"R"}]
  /\ handler' = [handler EXCEPT ![c] = "closing"]
  /\ Deliver(Closed(c))
  /\ UNCHANGED <<phase, current, cancelled, history>>

\* server_event(ConnectionClosed) has returned to the handler: it stays if the
\* connection is half-closed, else it closes the socket.
AfterClosed(c) ==
  /\ Handled
  /\ handler[c] = "closing"
  /\ handler' = [handler EXCEPT ![c] = IF state[c] = {"W"} THEN "half_closed" ELSE "gone"]
  /\ UNCHANGED <<phase, current, queue, state, cancelled, history>>

\* A cancelled handler stops reading, or no longer waits half-closed.
CancelDelivered(c) ==
  /\ Settled
  /\ c \in cancelled
  /\ cancelled' = cancelled \ {c}
  /\ \/ /\ handler[c] = "read"
        /\ state' = [state EXCEPT ![c] = {}]
        /\ handler' = [handler EXCEPT ![c] = "closing"]
        /\ Deliver(Closed(c))
     \/ /\ handler[c] = "half_closed"
        /\ handler' = [handler EXCEPT ![c] = "gone"]
        /\ UNCHANGED <<state, queue>>
  /\ UNCHANGED <<phase, current, history>>

CancelByOthers(c) ==
  /\ Settled
  /\ Served(c)
  /\ cancelled' = cancelled \cup {c}
  /\ disturbed' = TRUE
  /\ UNCHANGED <<phase, current, queue, state, handler, arrived, out, injected,
                 ended, cleaned, ignore>>

\* The connection is lost, and a handler finds out in drain_writers, after data.
Lose(c) ==
  /\ Losses
  /\ \E d \in Conns : handler[d] = "read" /\ arrived[d] # << >>
  /\ CancelByOthers(c)

\* on_timeout: disarmed while a hook runs, and an attempt to connect fails
\* long before TCP_TIMEOUT is over.
Timeout == phase \in {"relay", "done"} /\ CancelByOthers("client")

\* The client's handler is gone, and handle_client cancels the server's one.
CleanUp ==
  /\ Settled
  /\ handler["client"] = "gone" /\ ~cleaned
  /\ cleaned' = TRUE
  /\ cancelled' = IF Served("server") \/ phase \in Opening
                  THEN cancelled \cup {"server"} ELSE cancelled
  /\ UNCHANGED <<phase, current, queue, state, handler, arrived, out, injected,
                 ended, disturbed, ignore>>

-----------------------------------------------------------------------------
Layer ==
  \/ HandleQueued
  \/ Swallow
  \/ StartHookEnds
  \/ ConnectHookEnds
  \/ ServerConnected
  \/ ConnectedHookEnds
  \/ ConnectFails
  \/ RefusedHookEnds
  \/ ServerConnectCancelled
  \/ MessageHookEnds
  \/ ErrorHookEnds
  \/ EndHookEnds

Peer(c) == PeerSends(c) \/ PeerCloses(c) \/ Lose(c) \/ Inject(c)

Handlers == CleanUp \/ \E c \in Conns : AfterClosed(c) \/ CancelDelivered(c)

Next == Layer \/ Handlers \/ Timeout \/ \E c \in Conns : Peer(c)

(* Hooks come back, attempts to connect are answered or cancelled, the     *)
(* event loop runs every handler, and idle clients time out, as long as    *)
(* their watchdog is alive (a client_connected hook that outlasts the      *)
(* timeout ends it, see TimeoutWatchdog.tla).  Peers need neither send nor *)
(* close.                                                                  *)
Fairness == WF_vars(Layer) /\ WF_vars(Handlers) /\ WF_vars(Timeout)

Spec == Init /\ [][Next]_vars
FairSpec == Spec /\ Fairness

-----------------------------------------------------------------------------
(* Messages are relayed in the order in which they arrived, each once and  *)
(* with no gap, across hooks, injection and the loss of connections        *)
(* (relay_messages).                                                       *)
RelayedInOrder == \A c \in Conns : IsPrefix(out[Other(c)], arrived[c])

(* A peer sees our half-close only after all data of the other side        *)
(* (CloseTcpConnection waits its turn in the queue).                       *)
EofLast ==
  \A c \in Conns : handler[c] = "read" /\ state[c] = {"R"} => out[c] = arrived[Other(c)]

(* A flow never gets both tcp_error and tcp_end, nor one of them twice     *)
(* (tcp.py:49).                                                            *)
EndedOnce == Len(ended) <= 1

(* Every TCP flow gets tcp_error or tcp_end (tcp.py:49), with two          *)
(* exceptions: the attempt to connect was cancelled in one of its hooks    *)
(* (server_connect, server_connected, server_connect_error), so that       *)
(* OpenConnection has no answer, or the server connection outlives         *)
(* handle_client because it was opened too late, and the server is silent. *)
EndOrError ==
  \/ <>(\/ ended # << >>
        \/ ignore
        \/ phase \in Opening \cap Hooks /\ handler["server"] = "gone")
  \/ <>[](cleaned /\ Served("server"))

(* Data received is forwarded, also after the other connection has been    *)
(* half-closed (test_tcp.py:89), unless a connection is lost or times out. *)
RelaysEverything ==
  phase = "done" /\ handler["server"] # "none" /\ ~disturbed
    => \A c \in Conns : out[Other(c)] = arrived[c]

(* Without hooks, when nothing queues up, all data is indeed forwarded.    *)
RelaysEverythingUnheld == ignore => RelaysEverything

(* What the layer relays is what arrived, in order, before any half-close, *)
(* and complete when no hook held it.                                      *)
Relayed == TypeOK /\ RelayedInOrder /\ EofLast /\ RelaysEverythingUnheld
=============================================================================
