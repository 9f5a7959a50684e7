------------------------- MODULE ConnectionHandler -------------------------
(***************************************************************************)
(* The asyncio tasks of one client connection (mitmproxy/proxy/server.py): *)
(* handle_client, one handler per connection (open_connection and then     *)
(* handle_connection), a blocking hook and a wakeup timer of the layers,   *)
(* and the FIFO lock of server_event through which all of them hand events *)
(* to the layers.                                                          *)
(*                                                                         *)
(* The layers are left open: while an event is handled they may emit any   *)
(* commands.  One action is what a task does between two awaits.  A task   *)
(* that is cancelled learns of it at its next await, wherever that is:     *)
(* that, the lock and the order of clean-up are what the module is about.  *)
(***************************************************************************)
EXTENDS Naturals, FiniteSets, SequencesExt

CONSTANTS
  client,      \* the client connection
  Servers,     \* the server connections, all to one address
  MaxConns,    \* permits of the address' semaphore (5 in the code)
  MaxReads,    \* bound on successful reads, over all connections
  MaxHooks,    \* bound on blocking hooks of layers
  EarlyData,   \* the client may send before its handler was created
  LateOpen     \* layers may open connections once the client is gone

Conns == Servers \cup {client}
Tasks == Conns \cup {"main", "hook", "timer"}

ASSUME ConnsAssumption ==
  /\ IsFiniteSet(Servers) /\ client \notin Servers
  /\ Conns \cap {"main", "hook", "timer", "nobody"} = {}
ASSUME BoundsAssumption ==
  /\ MaxConns \in Nat \ {0} /\ MaxReads \in Nat /\ MaxHooks \in Nat
  /\ EarlyData \in BOOLEAN /\ LateOpen \in BOOLEAN

VARIABLES
  main,        \* what handle_client awaits
  pc,          \* what the handler of each connection awaits
  event,       \* the event a handler hands to server_event
  state,       \* Connection.state: can it be read ("R"), written ("W")?
  sock,        \* the socket: none, open, or closed by us
  transports,  \* keys of the dictionary of that name
  holder,      \* task inside server_event, "nobody" if the lock is free
  waiters,     \* tasks queued for the lock
  pending,     \* handlers that were cancelled and do not know it yet
  permits,     \* free permits of the semaphore
  full,        \* writers above their high-water mark
  drainer,     \* handler that holds _drain_lock, or "nobody"
  todo,        \* writers it has not drained yet
  hook, timer, \* the hook task and the wakeup timer of the layers
  awaited,     \* handlers handle_client waits for at its end
  registered,  \* the client's handler is in its transports entry
  watching,    \* the timeout watchdog is alive
  crashed,     \* history: an assertion failed inside server_event
  reads, hooks,\* counted against their bounds
  saw,         \* history: server hooks that ran for each connection
  answered,    \* history: servers with an OpenConnectionCompleted
  cancels      \* history: handlers that were ever cancelled

locking == <<holder, waiters>>
draining == <<drainer, todo>>
layer == <<hook, timer, hooks>>
history == <<saw, answered>>
cleanup == <<main, awaited, registered, watching>>
cancelling == <<pending, cancels>>
vars == <<locking, draining, layer, history, cleanup, cancelling, pc, event,
          state, sock, transports, permits, full, crashed, reads>>

Hooking == {"connect_hook", "kill_hook", "error_hook", "connected_hook",
            "disconnect_hook"}
Reading == {"read", "drain_lock", "drain"}
OPEN == {"R", "W"}
CLOSED == {}

TypeOK ==
  /\ main \in {"connect_hook", "start", "serving", "disconnect_hook", "closing", "done"}
  /\ pc \in [Conns -> Hooking \cup Reading \cup
              {"none", "semaphore", "connecting", "event", "half_closed", "done"}]
  /\ event \in [Conns -> {"none", "killed", "failed", "completed", "data", "closed"}]
  /\ state \in [Conns -> SUBSET OPEN]
  /\ sock \in [Conns -> {"none", "open", "closed"}]
  /\ transports \subseteq Conns
  /\ holder \in Tasks \cup {"nobody"}
  /\ waiters \in Seq(Tasks) /\ Len(waiters) <= Cardinality(Tasks)
  /\ pending \subseteq Conns
  /\ permits \in 0..MaxConns
  /\ full \subseteq Conns
  /\ drainer \in Conns \cup {"nobody"}
  /\ todo \subseteq Conns
  /\ hook \in {"none", "running", "event"}
  /\ timer \in {"none", "sleeping", "event"}
  /\ awaited \subseteq Conns
  /\ registered \in BOOLEAN /\ watching \in BOOLEAN /\ crashed \in BOOLEAN
  /\ reads \in 0..MaxReads /\ hooks \in 0..MaxHooks
  /\ saw \in [Conns -> SUBSET {"connect", "connected", "error", "disconnected"}]
  /\ answered \subseteq Servers
  /\ cancels \subseteq Conns

\* The client was accepted, and its client_connected hook runs.
Init ==
  /\ main = "connect_hook"
  /\ pc = [c \in Conns |-> "none"]
  /\ event = [c \in Conns |-> "none"]
  /\ state = [c \in Conns |-> IF c = client THEN OPEN ELSE CLOSED]
  /\ sock = [c \in Conns |-> IF c = client THEN "open" ELSE "none"]
  /\ transports = {client}
  /\ holder = "nobody" /\ waiters = << >>
  /\ pending = {} /\ cancels = {}
  /\ permits = MaxConns
  /\ full = {} /\ drainer = "nobody" /\ todo = {}
  /\ hook = "none" /\ timer = "none"
  /\ awaited = {}
  /\ registered = FALSE /\ watching = TRUE /\ crashed = FALSE
  /\ reads = 0 /\ hooks = 0
  /\ saw = [c \in Conns |-> {}]
  /\ answered = {}

-----------------------------------------------------------------------------
(* The lock of server_event, and cancellation.                             *)

\* Task t calls server_event: it runs at once unless others are ahead of it.
Call(t) ==
  IF holder = "nobody" /\ waiters = << >>
  THEN holder' = t /\ UNCHANGED waiters
  ELSE waiters' = Append(waiters, t) /\ UNCHANGED holder

\* The task inside server_event leaves it.
Release == holder' = "nobody" /\ UNCHANGED waiters

\* It leaves and calls server_event again before anything else can run.
ReleaseAndCall(t) ==
  IF waiters = << >> THEN UNCHANGED locking
  ELSE holder' = "nobody" /\ waiters' = Append(waiters, t)

\* Handler c hands event e to server_event.
HandOver(c, e) ==
  /\ pc' = [pc EXCEPT ![c] = "event"]
  /\ event' = [event EXCEPT ![c] = e]
  /\ Call(c)

Goto(c, where) == pc' = [pc EXCEPT ![c] = where]
Running(c) == pc[c] \notin {"none", "done"}

\* handler.cancel() for the handlers in cs.
Cancel(cs) ==
  /\ pending' = pending \cup {c \in cs : Running(c)}
  /\ cancels' = cancels \cup {c \in cs : Running(c)}

\* Between two events every handler but a cancelled one may go on.
Free(c) == holder = "nobody" /\ c \notin pending

\* Does handler c hold a permit?  The killed path is outside of the semaphore.
HasPermit(c) ==
  /\ c \in Servers
  /\ pc[c] \notin {"none", "connect_hook", "kill_hook", "semaphore", "done"}
  /\ pc[c] = "event" => event[c] # "killed"

Saw(c, h) == saw' = [saw EXCEPT ![c] = @ \cup {h}]

\* Faulty variant: a handler keeps its permit when it ends.
EndWithPermit(c) ==
  /\ Goto(c, "done")
  /\ UNCHANGED permits

\* The handler's coroutine ends, and with it "async with self.max_conns[...]".
End(c) ==
  /\ Goto(c, "done")
  /\ permits' = permits + (IF HasPermit(c) THEN 1 ELSE 0)

\* The next task in the queue gets the lock.
Acquire ==
  /\ holder = "nobody"
  /\ waiters # << >>
  /\ holder' = Head(waiters)
  /\ waiters' = Tail(waiters)
  /\ UNCHANGED <<draining, layer, history, cleanup, cancelling, pc, event, state,
                 sock, transports, permits, full, crashed, reads>>

-----------------------------------------------------------------------------
(* open_connection, up to its last server_event.                           *)

\* The server_connect hook is over, it may have set an error.
ConnectHookEnds(c) ==
  /\ pc[c] = "connect_hook" /\ Free(c)
  /\ \/ Goto(c, "semaphore") /\ UNCHANGED saw
     \/ Goto(c, "kill_hook") /\ Saw(c, "error")
  /\ UNCHANGED <<locking, draining, layer, cleanup, cancelling, event, state, sock,
                 transports, permits, full, crashed, reads, answered>>

GetPermit(c) ==
  /\ pc[c] = "semaphore" /\ Free(c)
  /\ permits > 0
  /\ permits' = permits - 1
  /\ Goto(c, "connecting")
  /\ UNCHANGED <<locking, draining, layer, history, cleanup, cancelling, event,
                 state, sock, transports, full, crashed, reads>>

Connected(c) ==
  /\ pc[c] = "connecting" /\ Free(c)
  /\ state' = [state EXCEPT ![c] = OPEN]
  /\ sock' = [sock EXCEPT ![c] = "open"]
  /\ transports' = transports \cup {c}
  /\ Goto(c, "connected_hook") /\ Saw(c, "connected")
  /\ UNCHANGED <<locking, draining, layer, cleanup, cancelling, event, permits,
                 full, crashed, reads, answered>>

ConnectFails(c) ==
  /\ pc[c] = "connecting" /\ Free(c)
  /\ Goto(c, "error_hook") /\ Saw(c, "error")
  /\ UNCHANGED <<locking, draining, layer, cleanup, cancelling, event, state, sock,
                 transports, permits, full, crashed, reads, answered>>

\* A hook is over, and its outcome is handed to server_event.
OutcomeHookEnds(c) ==
  /\ Free(c)
  /\ \/ pc[c] = "kill_hook" /\ HandOver(c, "killed")
     \/ pc[c] = "error_hook" /\ HandOver(c, "failed")
     \/ pc[c] = "connected_hook" /\ HandOver(c, "completed")
  /\ UNCHANGED <<draining, layer, history, cleanup, cancelling, state, sock,
                 transports, permits, full, crashed, reads>>

-----------------------------------------------------------------------------
(* handle_connection.                                                      *)

ReadData(c) ==
  /\ pc[c] = "read" /\ Free(c)
  /\ reads < MaxReads
  /\ reads' = reads + 1
  /\ HandOver(c, "data")
  /\ UNCHANGED <<draining, layer, history, cleanup, cancelling, state, sock,
                 transports, permits, full, crashed>>

\* The peer has closed its side, or the connection is broken.
ReadEof(c) ==
  /\ pc[c] = "read" /\ Free(c)
  /\ state' = [state EXCEPT ![c] = @ \ {"R"}]
  /\ HandOver(c, "closed")
  /\ UNCHANGED <<draining, layer, history, cleanup, cancelling, sock, transports,
                 permits, full, crashed, reads>>

\* drain_writers gets _drain_lock and lists the writers.
DrainBegins(c) ==
  /\ pc[c] = "drain_lock" /\ Free(c)
  /\ drainer = "nobody"
  /\ drainer' = c
  /\ todo' = {w \in transports : sock[w] = "open"}
  /\ Goto(c, "drain")
  /\ UNCHANGED <<locking, layer, history, cleanup, cancelling, event, state, sock,
                 transports, permits, full, crashed, reads>>

\* The next writer is below its mark.
DrainOne(c, w) ==
  /\ drainer = c /\ Free(c)
  /\ w \in todo \ full
  /\ todo' = todo \ {w}
  /\ UNCHANGED <<locking, layer, history, cleanup, cancelling, pc, event, state,
                 sock, transports, permits, full, drainer, crashed, reads>>

\* Its connection turns out to be lost, and that connection's handler is
\* cancelled.  Nothing makes this happen to a peer that just does not read.
DrainLost(c, w) ==
  /\ drainer = c /\ Free(c)
  /\ w \in todo
  /\ todo' = todo \ {w}
  /\ Cancel({w})
  /\ full' = full \ {w}
  /\ UNCHANGED <<locking, layer, history, cleanup, pc, event, state, sock,
                 transports, permits, drainer, crashed, reads>>

DrainEnds(c) ==
  /\ drainer = c /\ Free(c)
  /\ todo = {}
  /\ drainer' = "nobody"
  /\ Goto(c, "read")
  /\ UNCHANGED <<locking, layer, history, cleanup, cancelling, event, state, sock,
                 transports, permits, full, todo, crashed, reads>>

\* The end of handle_connection: the writer is closed and its entry dropped.
\* For a server, open_connection then runs the server_disconnected hook.
CloseSocket(c) ==
  /\ sock' = [sock EXCEPT ![c] = "closed"]
  /\ transports' = transports \ {c}
  /\ IF c = client THEN End(c) /\ UNCHANGED saw
     ELSE Goto(c, "disconnect_hook") /\ Saw(c, "disconnected") /\ UNCHANGED permits

DisconnectHookEnds(c) ==
  /\ pc[c] = "disconnect_hook" /\ Free(c)
  /\ End(c)
  /\ UNCHANGED <<locking, draining, layer, history, cleanup, cancelling, event,
                 state, sock, transports, full, crashed, reads>>

-----------------------------------------------------------------------------
(* A handler leaves server_event and goes on without an await.             *)

OpenConnectionAnswered(c) ==
  /\ holder = c
  /\ event[c] \in {"killed", "failed", "completed"}
  /\ answered' = answered \cup {c}
  /\ IF event[c] = "completed" THEN Goto(c, "read") /\ UNCHANGED permits ELSE End(c)
  /\ Release
  /\ UNCHANGED <<draining, layer, cleanup, cancelling, event, state, sock,
                 transports, full, crashed, reads, saw>>

\* Data was handled.  If nothing makes the handler wait in drain_writers, and
\* the reader has more data, the next event follows at once.
DataHandled(c) ==
  /\ holder = c /\ event[c] = "data"
  /\ registered' = TRUE
  /\ \/ Goto(c, "drain_lock") /\ Release /\ UNCHANGED reads
     \/ /\ drainer = "nobody" /\ full \cap transports = {}
        /\ reads < MaxReads
        /\ reads' = reads + 1
        /\ ReleaseAndCall(c) /\ UNCHANGED pc
  /\ UNCHANGED <<draining, layer, history, cancelling, event, state, sock, transports,
                 permits, full, crashed, main, awaited, watching>>

\* Faulty variant: a half-closed connection is closed at once.
ClosedHandledAtOnce(c) ==
  /\ holder = c /\ event[c] = "closed"
  /\ CloseSocket(c)
  /\ Release
  /\ UNCHANGED <<draining, layer, cleanup, cancelling, event, state, full, crashed,
                 reads, answered>>

\* ConnectionClosed was handled: a half-closed connection stays.
ClosedHandled(c) ==
  /\ holder = c /\ event[c] = "closed"
  /\ IF state[c] = {"W"}
     THEN Goto(c, "half_closed") /\ UNCHANGED <<sock, transports, permits, saw>>
     ELSE CloseSocket(c)
  /\ Release
  /\ UNCHANGED <<draining, layer, cleanup, cancelling, event, state, full, crashed,
                 reads, answered>>

-----------------------------------------------------------------------------
(* A cancelled handler gets to know.                                       *)

Told(c) ==
  /\ c \in pending /\ holder = "nobody"
  /\ pending' = pending \ {c}
  /\ UNCHANGED cancels

\* Faulty variant: the hooks, too, are inside the try statement.
CancelledInTry(c) ==
  /\ pc[c] \in Hooking \cup {"semaphore"}
  /\ Told(c)
  /\ IF pc[c] = "connected_hook"
     THEN Goto(c, "error_hook") /\ Saw(c, "error") /\ UNCHANGED permits
     ELSE End(c) /\ UNCHANGED saw
  /\ UNCHANGED <<locking, draining, layer, cleanup, event, state, sock, transports,
                 full, crashed, reads, answered>>

\* In a hook or while it waits for the semaphore: the coroutine just ends.
CancelledWhileOpening(c) ==
  /\ pc[c] \in Hooking \cup {"semaphore"}
  /\ Told(c)
  /\ End(c)
  /\ UNCHANGED <<locking, draining, layer, history, cleanup, event, state, sock,
                 transports, full, crashed, reads>>

\* While it connects: treated as a failure.
CancelledConnecting(c) ==
  /\ pc[c] = "connecting"
  /\ Told(c)
  /\ Goto(c, "error_hook") /\ Saw(c, "error")
  /\ UNCHANGED <<locking, draining, layer, cleanup, event, state, sock, transports,
                 permits, full, crashed, reads, answered>>

\* Faulty variant: a cancelled task stays in the queue for the lock.
CancelledStaysQueued(c) ==
  /\ pc[c] = "event"
  /\ Told(c)
  /\ End(c)
  /\ UNCHANGED <<locking, draining, layer, history, cleanup, event, state, sock,
                 transports, full, crashed, reads>>

\* In the queue for the lock: handle_connection is left without further ado,
\* the server_disconnected hook runs if it had begun.
CancelledInQueue(c) ==
  /\ pc[c] = "event"
  /\ Told(c)
  /\ \E k \in DOMAIN waiters : waiters[k] = c /\ waiters' = RemoveAt(waiters, k)
  /\ UNCHANGED holder
  /\ IF c \in Servers /\ event[c] \in {"data", "closed"}
     THEN Goto(c, "disconnect_hook") /\ Saw(c, "disconnected") /\ UNCHANGED permits
     ELSE End(c) /\ UNCHANGED saw
  /\ UNCHANGED <<draining, layer, cleanup, event, state, sock, transports, full,
                 crashed, reads, answered>>

\* In reader.read or drain_writers: the loop is left.
CancelledReading(c) ==
  /\ pc[c] \in Reading
  /\ Told(c)
  /\ drainer' = IF drainer = c THEN "nobody" ELSE drainer
  /\ todo' = IF drainer = c THEN {} ELSE todo
  /\ state' = [state EXCEPT ![c] = CLOSED]
  /\ HandOver(c, "closed")
  /\ UNCHANGED <<layer, history, cleanup, sock, transports, permits, full, crashed,
                 reads>>

\* In Event().wait(): what a half-closed connection waits for.
CancelledHalfClosed(c) ==
  /\ pc[c] = "half_closed"
  /\ Told(c)
  /\ CloseSocket(c)
  /\ UNCHANGED <<locking, draining, layer, cleanup, event, state, full, crashed,
                 reads, answered>>

-----------------------------------------------------------------------------
(* Commands of the layers, while an event is being handled.                *)

\* The generator of the layers is still there.
Emitting == holder # "nobody" /\ (crashed => registered)

\* A connection is opened.  A handler whose hooks do not wait can be in the
\* queue for the lock already when create_task returns.
OpenConnection(c) ==
  /\ Emitting
  /\ pc[c] = "none" /\ c \in Servers
  /\ LateOpen \/ main \notin {"closing", "done"}
  /\ transports' = transports \cup {c}
  /\ \/ Goto(c, "connect_hook") /\ Saw(c, "connect") /\ UNCHANGED <<locking, event>>
     \/ HandOver(c, "killed") /\ saw' = [saw EXCEPT ![c] = {"connect", "error"}]
  /\ UNCHANGED <<draining, layer, cleanup, cancelling, state, sock, permits, full,
                 crashed, reads, answered>>

\* Layers write to and close what they know to be open.
KnownOpen(c) ==
  /\ c \in transports
  /\ c = client \/ (c \in answered /\ sock[c] = "open")

\* SendData, when it fills the buffer.
SendData(c) ==
  /\ Emitting
  /\ KnownOpen(c)
  /\ full' = full \cup {c}
  /\ UNCHANGED <<locking, draining, layer, history, cleanup, cancelling, pc, event,
                 state, sock, transports, permits, crashed, reads>>

\* CloseConnection.  The client's handler may not be known yet.
CloseConnection(c) ==
  /\ Emitting
  /\ KnownOpen(c)
  /\ c = client /\ ~registered => holder = client
  /\ state' = [state EXCEPT ![c] = CLOSED]
  /\ IF c = client /\ ~registered
     THEN crashed' = TRUE /\ UNCHANGED cancelling
     ELSE Cancel({c}) /\ UNCHANGED crashed
  /\ UNCHANGED <<locking, draining, layer, history, cleanup, pc, event, sock,
                 transports, permits, full, reads>>

\* CloseTcpConnection(half_close=True), which closes fully what cannot be
\* written any more or was closed by the peer.
HalfClose(c) ==
  /\ Emitting
  /\ KnownOpen(c) /\ registered
  /\ "W" \in state[c]
  /\ \E left \in {state[c] \ {"W"}, CLOSED} :
       /\ state' = [state EXCEPT ![c] = left]
       /\ IF left = CLOSED THEN Cancel({c}) ELSE UNCHANGED cancelling
  /\ UNCHANGED <<locking, draining, layer, history, cleanup, pc, event, sock,
                 transports, permits, full, crashed, reads>>

\* A blocking hook, whose addons may be done when create_task returns.
StartHook ==
  /\ Emitting
  /\ hook = "none" /\ hooks < MaxHooks
  /\ hooks' = hooks + 1
  /\ \/ hook' = "running" /\ UNCHANGED locking
     \/ hook' = "event" /\ Call("hook")
  /\ UNCHANGED <<draining, history, cleanup, cancelling, pc, event, state, sock,
                 transports, permits, full, crashed, reads, timer>>

RequestWakeup ==
  /\ Emitting
  /\ timer = "none"
  /\ timer' = "sleeping"
  /\ UNCHANGED <<locking, draining, history, cleanup, cancelling, pc, event, state,
                 sock, transports, permits, full, crashed, reads, hook, hooks>>

-----------------------------------------------------------------------------
(* The layers' hook task and timer.                                        *)

HookEnds ==
  /\ hook = "running" /\ holder = "nobody"
  /\ hook' = "event"
  /\ Call("hook")
  /\ UNCHANGED <<draining, history, cleanup, cancelling, pc, event, state, sock,
                 transports, permits, full, crashed, reads, timer, hooks>>

TimerFires ==
  /\ timer = "sleeping" /\ holder = "nobody"
  /\ timer' = "event"
  /\ Call("timer")
  /\ UNCHANGED <<draining, history, cleanup, cancelling, pc, event, state, sock,
                 transports, permits, full, crashed, reads, hook, hooks>>

\* HookCompleted or Wakeup was handled.
TaskHandled ==
  /\ \/ holder = "hook" /\ hook' = "none" /\ UNCHANGED timer
     \/ holder = "timer" /\ timer' = "none" /\ UNCHANGED hook
  /\ Release
  /\ UNCHANGED <<draining, history, cleanup, cancelling, pc, event, state, sock,
                 transports, permits, full, crashed, reads, hooks>>

-----------------------------------------------------------------------------
(* handle_client.                                                          *)

\* The client_connected hook is over; it may have set an error, and if it
\* outlasted the timeout, the watchdog has failed (see TimeoutWatchdog.tla).
ClientConnectHookEnds ==
  /\ main = "connect_hook"
  /\ watching' \in BOOLEAN
  /\ \/ main' = "start" /\ Call("main") /\ UNCHANGED <<sock, transports>>
     \/ /\ main' = "disconnect_hook"
        /\ sock' = [sock EXCEPT ![client] = "closed"]
        /\ transports' = transports \ {client}
        /\ UNCHANGED locking
  /\ UNCHANGED <<draining, layer, history, cancelling, pc, event, state, permits,
                 full, crashed, reads, awaited, registered>>

\* Start was handled, and the client's handler is created.  As an eager task it
\* runs until its first await before it is entered into transports.
ServeClient ==
  /\ main = "start" /\ holder = "main"
  /\ main' = "serving"
  /\ \/ /\ Goto(client, "read")
        /\ registered' = TRUE
        /\ Release
        /\ UNCHANGED <<event, reads>>
     \/ /\ EarlyData /\ reads < MaxReads
        /\ reads' = reads + 1
        /\ pc' = [pc EXCEPT ![client] = "event"]
        /\ event' = [event EXCEPT ![client] = "data"]
        /\ registered' = (waiters # << >>)
        /\ IF waiters = << >> THEN holder' = client /\ UNCHANGED waiters
           ELSE holder' = "nobody" /\ waiters' = Append(waiters, client)
  /\ UNCHANGED <<draining, layer, history, cancelling, state, sock, transports,
                 permits, full, crashed, awaited, watching>>

\* on_timeout, see TimeoutWatchdog.tla; not while events are being handled.
Timeout ==
  /\ watching
  /\ main = "serving" /\ holder = "nobody"
  /\ waiters = << >> /\ Running(client)
  /\ Cancel({client})
  /\ UNCHANGED <<locking, draining, layer, history, cleanup, pc, event, state, sock,
                 transports, permits, full, crashed, reads>>

\* The client's handler has ended: the timer is cancelled if it still sleeps.
ClientHandlerEnds ==
  /\ main = "serving" /\ holder = "nobody"
  /\ ~Running(client)
  /\ main' = "disconnect_hook"
  /\ timer' = IF timer = "sleeping" THEN "none" ELSE timer
  /\ UNCHANGED <<locking, draining, history, cancelling, pc, event, state, sock,
                 transports, permits, full, crashed, reads, awaited, registered,
                 watching, hook, hooks>>

\* Faulty variant: the handlers are waited for, but not cancelled.
ClosingTransportsNoCancel ==
  /\ main = "disconnect_hook" /\ holder = "nobody"
  /\ awaited' = transports
  /\ main' = IF transports = {} THEN "done" ELSE "closing"
  /\ UNCHANGED <<locking, draining, layer, history, cancelling, pc, event, state,
                 sock, transports, permits, full, crashed, reads, registered, watching>>

\* The client_disconnected hook is over: all handlers left are cancelled.
ClosingTransports ==
  /\ main = "disconnect_hook" /\ holder = "nobody"
  /\ Cancel(transports)
  /\ awaited' = transports
  /\ main' = IF transports = {} THEN "done" ELSE "closing"
  /\ UNCHANGED <<locking, draining, layer, history, pc, event, state, sock,
                 transports, permits, full, crashed, reads, registered, watching>>

TransportsClosed ==
  /\ main = "closing" /\ holder = "nobody"
  /\ \A c \in awaited : ~Running(c)
  /\ main' = "done"
  /\ UNCHANGED <<locking, draining, layer, history, cancelling, pc, event, state,
                 sock, transports, permits, full, crashed, reads, awaited, registered,
                 watching>>

\* A peer reads, or gives up, and a buffer drains.
PeerReads(c) ==
  /\ holder = "nobody"
  /\ c \in full
  /\ full' = full \ {c}
  /\ UNCHANGED <<locking, draining, layer, history, cleanup, cancelling, pc, event,
                 state, sock, transports, permits, crashed, reads>>

-----------------------------------------------------------------------------
Open(c) ==
  \/ ConnectHookEnds(c)
  \/ GetPermit(c)
  \/ Connected(c)
  \/ ConnectFails(c)
  \/ OutcomeHookEnds(c)
  \/ DisconnectHookEnds(c)

Peer(c) ==
  \/ ReadData(c)
  \/ ReadEof(c)
  \/ PeerReads(c)
  \/ \E w \in todo : DrainLost(c, w)

Drain(c) ==
  \/ DrainBegins(c)
  \/ \E w \in todo : DrainOne(c, w)
  \/ DrainEnds(c)

Handled(c) == OpenConnectionAnswered(c) \/ DataHandled(c) \/ ClosedHandled(c)

Cancelled(c) ==
  \/ CancelledWhileOpening(c)
  \/ CancelledConnecting(c)
  \/ CancelledInQueue(c)
  \/ CancelledReading(c)
  \/ CancelledHalfClosed(c)

Command ==
  \/ \E c \in Conns : OpenConnection(c) \/ SendData(c) \/ CloseConnection(c) \/ HalfClose(c)
  \/ StartHook
  \/ RequestWakeup

HandleClient ==
  \/ ClientConnectHookEnds
  \/ ServeClient
  \/ ClientHandlerEnds
  \/ ClosingTransports
  \/ TransportsClosed

Next ==
  \/ HandleClient
  \/ Timeout
  \/ Acquire
  \/ \E c \in Conns : Open(c) \/ Peer(c) \/ Drain(c) \/ Handled(c) \/ Cancelled(c)
  \/ Command
  \/ HookEnds
  \/ TimerFires
  \/ TaskHandled

(* The event loop runs every task that can run.  Hooks come back, attempts *)
(* to connect succeed or fail, the bounded reads leave the connection idle *)
(* until the watchdog fires, if it is alive.  Peers need not send, close,  *)
(* read, or lose their connection, so a writer may stay full for ever.     *)
Fairness ==
  /\ WF_vars(HandleClient)
  /\ WF_vars(Timeout)
  /\ WF_vars(Acquire)
  /\ \A c \in Conns : /\ WF_vars(Open(c))
                      /\ WF_vars(Drain(c))
                      /\ WF_vars(Handled(c))
                      /\ WF_vars(Cancelled(c))
  /\ WF_vars(HookEnds)
  /\ WF_vars(TaskHandled)

Spec == Init /\ [][Next]_vars
FairSpec == Spec /\ Fairness

-----------------------------------------------------------------------------
(* Every permit of the semaphore is held by exactly one handler or free,   *)
(* on whatever path the handlers leave open_connection.                    *)
PermitsKept ==
  permits + Cardinality({c \in Servers : HasPermit(c)}) = MaxConns

(* server_connected and server_connect_error exclude each other, and       *)
(* server_disconnected follows server_connected only (server_hooks.py:73). *)
(* A connection gets neither of them only if its attempt was cancelled.    *)
HooksMatch ==
  \A c \in Servers :
    /\ ~({"connected", "error"} \subseteq saw[c])
    /\ "disconnected" \in saw[c] => "connected" \in saw[c]
    /\ pc[c] = "done" /\ saw[c] \cap {"connected", "error"} = {} => c \in cancels

(* The two locks.  The queue of the first holds exactly the tasks that     *)
(* wait in server_event, each once: no event of a task is dropped or        *)
(* handled twice; _drain_lock is held exactly while its holder drains.      *)
(* Both hold also when tasks are cancelled where they wait.                 *)
LocksKept ==
  /\ IsInjective(waiters)
  /\ holder \notin ToSet(waiters)
  /\ \A c \in Conns : pc[c] = "event" <=> c = holder \/ c \in ToSet(waiters)
  /\ hook = "event" <=> "hook" = holder \/ "hook" \in ToSet(waiters)
  /\ timer = "event" <=> "timer" = holder \/ "timer" \in ToSet(waiters)
  /\ \A c \in Conns : pc[c] = "drain" <=> drainer = c

(* An attempt to connect that ends without an answer for the layer that    *)
(* waits for it was cancelled.                                             *)
OpenAnswered ==
  \A c \in Servers :
    pc[c] = "done" => c \in answered \/ c \in cancels

(* The socket of a connection the layers may still write to is only closed *)
(* if its handler was cancelled: half-closed connections stay.             *)
NoPrematureClose ==
  [][\A c \in Servers : sock[c] = "open" /\ sock'[c] = "closed"
        => state[c] = CLOSED \/ c \in cancels]_vars

(* When handle_client is through, no handler reads, writes or connects any *)
(* more; at most a server_disconnected hook is still running.              *)
NothingRunsOn ==
  main = "done" => \A c \in Conns : pc[c] \in {"none", "done", "disconnect_hook"}

(* handle_client ends, whoever is stuck: peers that do not read, writers   *)
(* that wait for each other, handlers that wait for a permit.  Without its *)
(* watchdog an idle or stuck connection stays for ever.                    *)
Terminates == <>(~watching \/ (main = "done" /\ \A c \in Conns : ~Running(c)))

(* All sockets are closed when handle_client says so (server.py:181).      *)
SocketsAreClosed == main = "done" => \A c \in Conns : sock[c] # "open"

(* Nothing outlives its use on any path out of the handlers: the places in *)
(* the queue of the lock, the drain lock, permits, and the handlers        *)
(* themselves once handle_client is through.                               *)
NothingLeaks == TypeOK /\ LocksKept /\ PermitsKept /\ NothingRunsOn

(* With more servers than permits no step loses or doubles a permit, and   *)
(* nobody who waits for one keeps handle_client from ending.               *)
PermitsGoRound == [][PermitsKept']_vars /\ Terminates

(* Hooks and the answer of OpenConnection agree on how an attempt to       *)
(* connect went, at whichever await it was cancelled.                      *)
AttemptsAccountedFor == HooksMatch /\ OpenAnswered
=============================================================================
