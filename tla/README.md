# mitmproxy in TLA+

A formal model of the parts of mitmproxy where order, concurrency and
cancellation decide whether it works: the layers that turn events into
commands, the tasks of a client connection, the timeouts, the relaying of TCP,
the exchange of a request for a response and the interception of flows; and of
mitmweb's client, whose state runs after the server's over a WebSocket and HTTP:
the flow list, the filters, the command bar, and the editors of modes, options,
headers, fields and contents. Each module is translated from the source under
`src/mitmproxy/` or `src/web/src/js/`; `PROJECT.json` maps every definition to
its lines.

    tlc -workers 2 -config MCLayer.cfg MCLayer.tla      # one run
    tlapm LayerProofs.tla                               # the proofs

## 1. The system

mitmproxy runs one asyncio event loop. A listener (`mode_servers.py`) accepts a
client and creates one `ConnectionHandler` (`proxy/server.py`), which owns the
sockets of that client and of all server connections made for it. Every I/O
result becomes an *event* handed to the outermost *layer*
(`server_event` -> `layer.handle_event`); layers are generators that yield
*commands* (open, send, close, start a hook, wake me up), and a blocking command
pauses a layer until the reply event comes. Addons run in *hooks*; a hook on a
flow also waits while the user has that flow intercepted. The user acts on
flows through commands of the consoles: resume, kill, revert, replay.

mitmweb serves a page (`tools/web/app.py`, `web/src/js`) that keeps a copy of
the server's flows, options and servers in one Redux store. The server pushes
changes over a WebSocket; the page fetches whole lists and sends every edit over
HTTP, in requests that overtake each other and the pushed messages. Each editor
keeps a state of its own between the store and the user.

| component | state | operations | how it interacts | what is hard |
|---|---|---|---|---|
| Layer (`proxy/layer.py`) | `_paused`, `_paused_event_queue`, the generator | handle_event, `__process`, `__continue` | called by the layer above, passes commands up | replies and new events interleave with a paused generator; pauses nest |
| ConnectionHandler (`proxy/server.py`) | `transports`, `max_conns`, `wakeup_timer`, two locks, one task per connection, hook and timer | handle_client, open_connection, handle_connection, drain_writers, server_event, close_connection, hook_task, wakeup | reads and writes sockets, runs hooks, feeds layers | cancellation at every await, FIFO locks, permits, clean-up |
| TimeoutWatchdog (`proxy/server.py`) | `last_activity`, `can_timeout`, `blocker` | watch, register_activity, disarm | cancels the client's handler | decides on state read before a sleep |
| TCPLayer (`layers/tcp.py`) | `_handle_event`, flow, connection states | start, relay_messages, done | between client and server, hooks on each message | half-closes, injection, events queued behind hooks |
| Flow (`flow.py`), Intercept addon, `handle_hook` | `intercepted`, `live`, `error`, `_resume_event`, `_backup` | intercept, wait_for_resume, resume, kill, backup, revert | user commands against hook tasks | the user acts before, during and after the wait |
| NextLayer | recorded events | ask, replay | addon `next_layer` | replay of events while an addon decides |
| TunnelLayer, TLS (`tunnel.py`, `layers/tls.py`) | `tunnel_state`, event queue, pending open | handshake, send, close | between two layers | commands during a handshake, close in mid-handshake |
| HttpStream (`layers/http/__init__.py`) | `client_state`, `server_state`, the flow, two body buffers | one handler per state, streaming, send_response, handle_protocol_error, check_killed, CONNECT | Http1/2/3 connections on both sides, a hook for each part of the flow | early responses, errors and kills in any pair of states, bodies that are streamed at half way |
| HttpLayer (`layers/http/__init__.py`) | streams, connections, waiting streams | get_connection, routing | streams, Http1/2/3 connections | sharing of connections |
| HTTP/1, HTTP/2, HTTP/3, QUIC | read states, stream tables, stream queue | parse, send, flow control | h2, aioquic | limits of streams, resets |
| WebSocket, DNS, UDP layers | frame buffers, pending queries | relay | hooks per message | fragments, closing |
| Modes, Proxyserver (`mode_servers.py`, `addons/proxyserver.py`) | instances, listeners, connections | update, start, stop, inject | options | options that change during an update |
| Client and server playback, Save, View, Addon manager, Master | queues, flow maps | hooks and commands | events of flows | see the hazards in `PROJECT.json` |
| OptManager (`optmanager.py`) | option values | update, rollback | addons subscribe, web client and console set | rejection after others were told |
| Flow store (`ducks/flows/index.ts`) | list, sorted and filtered view, positions of both, selection, highlights | one branch per action | dispatched to by the WebSocket backend and the user | all structures move together |
| WebSocket backend (`backends/websocket.tsx`) | the active fetches and their queues, messages waiting, the filters sent | onOpen, onMessage, receive, onStoreUpdate | server, store | fetched lists race with pushed events |
| Filter language (`filt/filt.js`, `flowfilter.py`) | none | two parsers | filter inputs, server | two grammars for one language |
| Filter inputs (`FilterInput.tsx`) | the text | onChange, new props | store, options | options come back while the user types |
| Command bar (`CommandBar.tsx`, `filt/command.js`) | text, history, completion, results | keys | commands of the server | answers arrive in any order, completion replaces what is completed |
| Capture tab (`modes/`, `ducks/modes/`, `components/Modes/`) | eight lists of servers | toggle, set a field, add, remove | PUT /options, announcements of servers | late rejections, announcements that replace entries |
| Options editor (`ducks/ui/optionsEditor.ts`, `components/Modal/`) | an entry per option being set | startUpdate, updateSuccess, updateError | PUT /options, options/update | the modal closes, updates cross |
| Message editors (`components/editors/`, `components/contentviews/`) | a text in the DOM, a copy of the headers, a fetched content | DOM events, fetches, saves | PUT /flows, flows/update | focus and blur call each other, contents arrive late |
| Consoles, the rest of the web client, content views, certificates, tools | presentation, pure functions, cryptography | | | |

What makes them correct: events reach a layer once and in order; a reply finds
the pause it belongs to; each connection and flow gets its promised hooks, and
one end; nothing outlives its client; every wait ends if its cause does; nothing
is relayed that was killed, nothing is lost that was not; idle connections end
and busy ones do not. In the page: once everything that is under way has
arrived, it shows what the server has; what the user typed goes where it was
typed for; and what is shown in between is consistent.

## 2. Modules

### Layer, Mailbox, LayerProofs (`proxy/layer.py`)

`Layer` is a stack of `Depth` nested layers, 1 the outermost. `mode[i]` says
whether layer i has no generator, runs, or is paused; `cmd[i]` is the command it
is paused at, `queue[i]` its `_paused_event_queue`, `active` the layer whose code
runs (0: nobody is in `server_event`). `ServerEventIo` and `ServerEventReply` are
`server_event` with its lock; `StartHandler`, `Postpone` and `Continue` are the
three branches of `handle_event`; `Forward`, `Block`, `Return` and `NextQueued`
are the segments of a generator. A blocking command suspends the layer that
yields it, and only that one. What a concrete layer does is left open: it blocks
any number of times before and after it hands its event on.

`Mailbox` is what a layer promises to its caller: a FIFO of events, each handled
once. The run `layer` checks that every layer of the stack implements one
(`ImplementsMailbox`, liveness included, together with the reply that is always
on its way to the pause it belongs to). `LayerProofs` proves the safety invariants
for every depth and every number of events.

### ConnectionHandler, HandlerProofs (`proxy/server.py`, 99-463)

`pc[c]` says what the handler task of connection c awaits, `main` what
`handle_client` awaits. `holder` and `waiters` are the FIFO lock of
`server_event`, `drainer` and `todo` the drain lock, `permits` the semaphore,
`transports` the registered connections, `sock` and `state` the socket and what
`Connection.state` says of it. `Cancel` puts a handler into `pending`; it learns
of that at its await, with one action for each place where it can strike
(`CancelledWhileOpening`, `CancelledInQueue`, ...). `full` are the writers above their
high-water mark: whoever drains such a writer waits until its peer reads (`PeerReads`),
its connection is lost (`DrainLost`), or it is cancelled before its turn. `watching` says
whether the watchdog is alive: a `client_connected` hook that outlasts the timeout
kills it (see `slow_connect` below). The layers are
nondeterministic: while a task holds the lock (`Emitting`) they may yield any
commands the code accepts, so what is checked holds for every layer.

Abstractions: TCP only; all servers have one address (so they share a
semaphore); the path for a connection without an address is one of the ways a
connection attempt can fail; one hook and one timer at a time, and only blocking
hooks. `LateOpen` lets a layer open connections after `handle_client` has
finished; it is FALSE in these runs, since that case is a finding of `TcpLayer`.

### TimeoutWatchdog, WatchdogProofs (`proxy/server.py`, 51-89, 345-355)

Discrete time; a task that is due runs before the clock has moved on by two.
`Races` selects the timings that break the watchdog: a hook that starts as the
reply to another (`chained_hook`), one that `open_connection` starts
(`silent_hook`), a `client_connected` hook that outlasts the timeout
(`slow_connect`). All of them may happen in the run `watchdog`; `raced` tells
which hooks they hit, and all others are safe (`HooksInTimeAreSafe`).

### TcpLayer, TcpProofs (`layers/tcp.py`)

The layer with the part of `ConnectionHandler` and `Layer` that it depends on:
its event queue, the handlers of both connections with their half-closed
states, hooks that take arbitrarily long, data injected by the user, and
connections that are lost. Data are numbered per direction. `ignore` is chosen
in the initial state: with it the layer has no flow and runs no hooks. The server
connection is there when the layer starts (an eager connection), or the layer opens
it, which ends in `ServerConnects` or, by way of the hook `server_connect_error`
(`ConnectFails`, phase `refused_hook`), in `ServerConnectFails`.

Left out: messages injected towards a peer that was half-closed. asyncio raises
RuntimeError there, `server_event` logs a crash, and the generators it was driving
are gone (a hazard without a property). And of an ignored connection whose server
was there already, the events that `NextLayer` had recorded before the layer started.

### HttpStream, HttpStreamProofs, HttpMessageProofs (`layers/http/__init__.py`, 159-918)

One stream with its HTTP connections as peers. `cstate` and `sstate` are
`client_state` and `server_state`. A generator that is suspended is the sequence
`todo` of the steps it has left: the first one is the hook or the command whose
answer it waits for (`Blocking`), and each step that follows is an action named
for it (`At("end_request")` is `EndRequest`). Nested generators are steps in
front of the rest (`Then`); a return out of the whole handler empties `todo`,
and a return out of `handle_protocol_error` alone leaves what its caller still
does (`AbandonRequest`). Steps in `Checked` are those the code begins with
`check_killed`, which looks at the flow and into `queue`, the
`_paused_event_queue`.

The client and the server send the events of a message in order, or an error in
place of any rest of it, and the server may respond before it has the whole
request. Bodies are counted in chunks. Whether a message is invalid, too large
or to be streamed (`Verdicts`), whether a response switches protocols and what
addons change is nondeterministic; the user kills the flow at any time.
`toClient`, `toServer` and `hooks` are histories of what was sent and of the
hooks that ran. After `passthrough` events go to a child layer, and the model
drops them (`Swallow`). Left out: the 100 Continue response, callables that
rewrite a streamed body, and a response set together with request streaming,
which the code answers with NotImplementedError.

### FlowInterception, InterceptionProofs (`flow.py`, `addons/intercept.py`, `handle_hook`, `layers/http/__init__.py`)

One HTTP flow through its hooks (`stage`), the task of the current hook
(`hook`), addons that intercept, kill or respond, and the user, whose commands
(`UserActions`) come at any time. `event` is the `_resume_event` (none, clear or
set), `woken` whether the waiter was resumed, `backup` the backed up state,
`tampered` whether kill() or revert() interfered with an interception.

### FlowStore, FlowSync, MCFlowSync, FlowSyncProofs (`ducks/flows`, `backends/websocket.tsx`, `tools/web`)

`FlowStore` is the reducer of the flow list, one operator for each branch
(`FlowsAdd`, `FlowsUpdate`, ...), on a record of the list, the view, the positions
in both, the selection and the highlights. `resurrected`, `revived` and `swallowed`
are histories: flows that an update brought back after their removal, since the last
list was received or ever, and flows whose add was ignored since that list had them.

`FlowSync` puts a server in front of it: `served` is its view, `inbox` and
`outbox` the WebSocket, `requests` the fetches, of which only `activeFetch` counts;
`awaited` and `connection` are the state of the connection indicator, `filter` and
`filterState` the filters wanted and sent. A flow is an identity and a value, which
it is sorted and matched by. Dispatching tells the subscribers (`Told`): one of
them selects the flow named in the page's address.

### Peg, Filter, FilterInput (`filt/filt.js`, `flowfilter.py`, `FilterInput.tsx`)

`Peg` is what the generated parsers share: expressions of a parsing grammar as
records (`Cat`, `Alt`, `Many`, ...) and `Eval`, which reads a text by them with
ordered choice and without backtracking into what matched. `Filter` holds the rules
of the client's grammar, and of the server's pyparsing grammar, in its order of
alternatives and with pyparsing's quoted strings; both yield trees. A regular expression
is compiled by JavaScript or by Python (`ClientCompiles`, `ServerCompiles`), of which
the model has groups and backslashes: Python refuses an escaped letter that means
nothing to it. Character classes, quantifiers and what follows `(?` are left out. `FilterInput` is an input with its server: the
search filter (checked by the client, sent over the WebSocket) or an option such as
intercept (checked by the server, announced to everybody). What the texts match is
left out; the text of a literal is kept.

### Command, CommandBar (`filt/command.js`, `CommandBar.tsx`)

`Command` is the grammar of command lines, which also reads unfinished strings.
`CommandBar` is the bar key by key: the history and its position, the commands that
complete the first word, and the requests whose answers are put into the results of
the render in which they were sent (`held`).

### ModeSpecs, WebModes (`modes/`, `ducks/modes/`, `components/Modes/`)

`ModeSpecs` writes and reads the specification of each mode, and has the checks the
server makes of a list of them. `WebModes` has the eight slices, one row of the tab
for each type with what its inputs set, and mitmproxy's side: the option, its
rollback, and `Servers.update`, which announces the servers before and after they
start. Falsy values of a field ("", undefined, NaN) are one value, as the code tests
for truth only. Ports are typed as text: every row but the reverse one makes a number
of it (`Typed`). The server checks that a port is one, that a mode has data where it
needs them and none where it does not, that no two modes listen on one address, and
that the platform has transparent modes (`Valid`, `Acceptable`); what int() takes
besides digits, and what makes a host name valid, are left out. `parseSpec` throws for
ports the server refuses, so that no announcement makes it throw.

### WebOptions (`ducks/options*.ts`, `ducks/ui/optionsEditor.ts`, `components/Modal/`)

One option of each type: what its input hands on (`Given`), the entry of the editor
while the update is under way, and the answer, which may come after the modal was
closed, after another update, or not at all.

### ValueEditor, HeaderEditor, ContentEditor (`components/editors/`, `components/contentviews/`)

`ValueEditor` is a field in place: one action per DOM handler, on `span`, which
holds the text in the DOM, whether it is editable and focused, and
`suppress_events`. React writes the text only if its value has changed. The selected
flow may change under it. The server makes its own value of a text (`Stored`): a method
is read in upper case, a status code is a number, the reason is set under a name
nothing reads; and a request may be lost or refused (`PutFails`). `HeaderEditor` is the table of such fields; a click is one
step. `ContentEditor` is the content of a message: the view or the editor that is
mounted (`pane`), the fetch that counts, the saves under way, the views that are cut
after so many lines, and the toggle that splits and joins the lines of JSON strings
(`ProcessJson` on trees).

`MCWebInputs` and `MCWebEditing` check these modules together, one part at a time
(the variable `use` or `part`), so that one run has one state space for parts that
do not interact.

## 3. Runs

| run | bounds | shows |
|---|---|---|
| layer | 3 layers, 2 events, 4 commands | order (`InOrder`), call stack (`CallStack`), nothing left in a queue (`NothingLeftBehind`), each layer implements Mailbox and replies find their pause (`ImplementsMailbox`) |
| handler | 1 server, 2 reads, 1 hook, early data | locks, permits and tasks are given back (`NothingLeaks`); every connection attempt gets its hooks and reply (`AttemptsAccountedFor`); no premature close; handle_client ends if its watchdog lives (`Terminates`) |
| handler_two | 2 servers, 1 permit, no reads | permits go round and handle_client ends (`PermitsGoRound`) |
| tcp | 2 messages each way, 1 injected, losses, with and without hooks, a server that is there, is opened, or fails | order, EOF last, everything relayed without hooks (`Relayed`), one end (`EndedOnce`), flows end (`EndOrError`) |
| watchdog | timeout 3, clock to 11, 2 hooks, all races | idle connections are noticed, armed only without hooks (`IdleIsTimedOut`); `HooksInTimeAreSafe` |
| flow | all commands of the user | interception holds, killed flows are not forwarded, hooks are not left waiting, flows end |
| http_stream | 2 chunks in both bodies together, all verdicts, CONNECT, early responses | one outcome, after which the flow is not live (`OneOutcomeEndsLife`); hooks and events in order; whole and well-formed messages (`MessagesWhole`); killed flows are not answered; every flow and client concluded (`Concluded`) |
| stream_both | 1 chunk, no limits, no CONNECT | finding |
| web_flows | 2 flows that race with fetches (3 changes, or changes with a reset, a filter, a failure), 3 flows the user browses while they change | the store is consistent after each dispatch (`StoreConsistent`), the page at rest has the server's flows and matches (`ClientInSync`), fetches end (`CatchesUp`) |
| web_flows_race | as above | finding |
| web_inputs | filters of 4 pieces out of three alphabets (operators, names, and quotes with backslashes and `~meta`), 3 or 4 keys typed, a bar with 2 commands, command lines of 2 words of 2 characters in every quoting | `ReadAlikeByBoth`, `ShownIsInForce`, `NothingEnteredIsLost`, `CompletesWhatWasTyped`, `LinesReadBack` |
| web_editing | each pair of modes that compete for a port, 1 or 2 edits, ports that are none, a platform without transparent modes; each type of option, 2 or 3 updates, a lost request, another client; fields of 1 or 2 flows, of each kind (method, code, reason, version), with lost requests; tables of 2 rows, 4 or 5 keys; contents with nested strings, 3 or 4 actions | what is shown is what the server has (`ShownAreRunning`, `OptionsShown`, `FieldsKept`, `HeadersKept`, `ContentShown`), what is saved is what was shown (`SavedAsShown`), and conversions are inverse (`SpecsRoundTrip`, `TogglingRestores`) |

Why the bounds are enough: three layers have an outermost, a middle and an
innermost one, and four commands let two of them be paused with replies owed in
either order. One permit and two servers give the competition that five permits
and six servers give. A handler reaches each of its awaits with one read; two
let it drain, read and be cancelled while another waits for the drain lock. Two
messages per side are the least with which one can be relayed and one still be
queued when a close is handled. The clock reaches three timeouts, so the
watchdog sleeps, is disarmed and sleeps again. With two chunks in a body one is
buffered and the second makes it cross a limit, and with one in each body both
sides stream at the same time. In the page, a race takes a fetch and two changes of
the same flow; a third flow is the least with which a view has an inside, so that
moves, range selections and positions differ. Two updates, requests or edits are the
least that overtake each other, with a third actor (another client, a failure)
beside them. Filters of four pieces have one operator with two operands, and two
without them; nesting deeper repeats the same rules. `CHECK_DEADLOCK FALSE` is set in
all runs: each of these parts comes to an end (a closed connection, a finished
flow, a used-up bound), where the model stops.

Each property has a mutant in its module, an operator that changes the code the
way a plausible bug would (`Faulty variant: ...`); under the same configuration
it violates the property.

### Fairness

The event loop runs every ready task, so weak fairness holds for the steps of
tasks. Addons' hooks come back; a connection attempt succeeds, fails or is
cancelled; an idle client times out. In `FlowInterception` the user resumes what
is intercepted (`AttentiveSpec`): without a user an intercepted flow is held for
ever, and should be. Nothing is assumed of peers: they need not send, close or
read, nor lose their connection, so a writer may stay above its mark for ever
(`PeerReads` and `DrainLost` are not fair). What ends such a connection is the
inactivity timeout: it cancels the client's handler, and `handle_client` then cancels
those that wait. `Terminates` therefore assumes that the watchdog is alive
(`watching`), which a slow `client_connected` hook can end; that the timeout comes one
day assumes a client that is idle, and one that sends for ever is served for ever, but
the bounds of the run let every client stop. `HttpStream` alone does
assume that a peer which has begun a message completes it or loses its
connection (the inactivity timeout sees to that); one that has completed its
message may stay for ever. In `FlowSync` messages and answers that were sent arrive
and are handled (`WF_vars(Transport)`) unless the connection or the request fails;
nothing is assumed of the user or of the flows. The other modules of the page are
checked for safety only: their properties speak of states in which nothing is under
way.

### Findings

Two runs end in a counterexample on purpose: the code does something else than a
docstring or comment says. `PROJECT.json` quotes the lines.

- stream_both: a flow gets an error and a response. While the request hook of a
  streamed request runs, the client leaves and the server responds; no
  check_killed follows that hook, `handle_protocol_error` runs the error hook and
  leaves `server_state` alone, and then the response is taken from the queue.
- web_flows_race: a flow that was updated and removed while the list was fetched
  stays in the page's list. The queued update appends it without a position, and
  the queued removal, which looks for the position, is ignored.

Four more configurations, kept beside the runs, reproduce further
counterexamples in the same modules (`tlc -config X.cfg M`):

- `ConnectionHandlerSockets.cfg` (`SocketsAreClosed`): a handler cancelled while
  it waits for the `server_event` lock never closes its socket, although
  "transports closed!" is logged.
- `TcpLayerHeld.cfg` (`RelaysEverything`): data queued behind a half-close are
  dropped if the other side has closed in the meantime, since `all_done` reads the
  present connection states.
- `TimeoutWatchdogChained.cfg` (`OnlyIdleTimesOut`): a hook that starts as the
  reply to another is not safe from the inactivity timeout; an intercepted flow is
  such a hook.
- `FlowInterceptionKillResume.cfg` (`ResumeIsHeard`): a flow killed while
  intercepted can never be resumed, its hook task waits for ever.

The passing runs contain further deviations, as exceptions that their
properties name:

- `AttemptsAccountedFor`: a connection cancelled in its `server_connect` hook, or
  while it waits for a permit, gets neither `server_connected` nor
  `server_connect_error` (server_hooks.py:73 promises one of them), and its layer
  no answer; one cancelled in the hook `server_connected` or `server_connect_error`
  had that hook, but its layer gets no answer either (server.py:201, 230).
  `EndOrError`: a TCP flow gets no end in these cases. It has a second exception: a layer held in `tcp_start` when its client goes away opens its
  server connection after the clean-up, and nobody closes that connection.
- `HooksInTimeAreSafe`: hooks that `open_connection` runs are not safe from the
  timeout either; `IdleIsTimedOut`: a `client_connected` hook that outlasts the
  timeout makes `on_timeout` fail its assertion, and the watchdog is gone.
- `crashed` in ConnectionHandler: with eager tasks the client's handler runs
  before it is registered, and a layer that closes the client at once fails the
  assertion in `close_connection`.
- `InterceptionHolds`, `WaitsAreConsistent`: `revert()` restores
  `intercepted` alone: a resumed flow is marked as intercepted without being
  held, and a held one is unmarked without being released. It can also take
  away the response the stream needs (the stage "crashed").
- `OneOutcomeEndsLife` excepts the finding above, and with it all flows whose request
  is streamed, whose request hook has run and whose client is gone, whenever it left
  (`Overtaken`); and requests
  without a destination, which stay live although no hook has seen their flow.
- `MessagesWhole`: an error that waits in the queue behind the end of the
  response is sent to the client's connection after that end; `Http1Server` may
  have moved on to the next request then and fails its assertion
  (_http1.py:236).
- `KilledIsNotAnswered`: a CONNECT is checked once, before its connection
  attempt, and a flow killed later still gets its tunnel. A flow killed in the
  request hook of a streamed request has that request completed.
- `StoreConsistent`: a flow brought back as in the finding has no position, or stands
  in the list and in the table twice, and then its rows can be selected twice. The
  positions that are kept are right all the same, and the view is sorted.
- `ClientInSync`: flows brought back in that way; and a flow whose add is
  ignored, because the fetched list had it, keeps the visibility of the filter
  result before it. `CatchesUp`: after a failed fetch all events are buffered for
  good. A filter set after the connection was closed counts as sent.
- `ReadAlikeByBoth` is about the documented language, and excepts what the client does
  not know of it (`UnknownToClient`): `~meta`, which the server's filter help lists
  (flowfilter.py:591), is missing in filt.js; and in quotes the server takes a
  backslash before any character, the client only before quotes, backslash, n, r
  and t. `"google\.com"` is refused by the page; in single quotes it is read with
  its quotes, as one unquoted word. Outside of the documented language the grammars
  differ, too: the client reads `(~e)`, `~e|~q` and `foo~` in ways the server does not,
  or does not read at all. A search filter that the server refuses closes the
  WebSocket, and nothing reconnects.
- `NothingEnteredIsLost`: of commands that overlap one result is lost, and a history
  that arrives late replaces what was entered since.
- `ShownAreRunning`: a reverse specification not in the client's own form (without
  a protocol) is listed again with each announcement; entries in error are left out
  of every later PUT. `SpecsRoundTrip`: a host without a port is dropped, as is the
  port 0; a port of a reverse row is kept as the text that was typed (`080`) and reads
  back as a number; an `@` in the data is taken for the separator.
- `OptionsShown`: an error that is answered after the modal was closed throws in
  `updateError` (optionsEditor.ts:35) and is not shown; a textarea never follows
  the store; 0 cannot be given to an optional number; and the line meant for the
  message of an error reads `options_meta`, where there is none
  (OptionModal.tsx:16).
- `FieldsKept`: fields have no key: an edit goes on in the next flow if the
  value there is the same. Enter reports a text twice. A text the server did not
  take stays in the field, since the value that is rendered is still the same
  (`LeftStanding`): when the PUT failed, which nobody looks at; when the server made the
  old value of it (`get` over `GET`, `0200` over `200`); and every reason, which
  the page sends as `msg` and the server sets as such (app.py:604). The URL, which is
  put together from several fields of the request, is not modelled.
- `HeadersKept`: a row cleared above its equal leaves that one cleared, since
  React has no reason to write it; a row that vanishes while it is edited keeps
  Add from working until another one was edited; the first row is never noticed
  (its index is falsy).
- `SavedAsShown`: a text deleted as a whole saves the old content; a content that
  arrives after the user typed replaces what is shown, not what is saved.
  `ContentShown`: the text "Error getting content" of a failed fetch can be saved.
  `TogglingRestores`: an array of single lines is joined as if it had been split; the
  toggle writes the text of its view, also when the server has another one by then.

## 4. Proofs

Eight modules hold theorems, each about the component it extends (HttpStream has two). They hold for
every value of the constants, and so for any number of layers, events,
connections, messages, hooks, chunks and flows: the bounds of the models are
constants, and no proof uses more of them than that they are natural numbers. In every
module an inductive invariant is the conjunction of named parts; `InitInv` and
`StepInv` show that it holds at first and is kept, with one step for each action and
below it one for each part the action can disturb. TLC checked each of these
invariants on the component's run before it was proved.

What is assumed of the constants is declared beside them and evaluated by TLC in
the runs: there is a layer (`DepthAssumption`), a timeout (`TimeoutAssumption`) and a
permit; the servers are finitely many, and no connection has the name of another
task (`ConnsAssumption`: in the code these are different asyncio tasks); messages
may be fine, and their verdicts are among the three (`HttpStreamAssumption`); flows
are finitely many and have integers to be sorted by (`FlowStoreAssumption`), and the
server has each of them once to begin with (`FlowSyncAssumption`: its view is keyed by
id).

### LayerProofs

- `LayerTypes`, `LayerKeepsOrder`, `LayerCallStack`, `LayerLeavesNothingBehind`:
  `Spec => []TypeOK`, `[]InOrder`, `[]CallStack`, `[]NothingLeftBehind`
- `LayerLosesNoReply`: `Spec => [][ReplyOnItsWay']_vars`
- `LayerIsMailbox`: `Spec => Mailbox!Init /\ [][Mailbox!Next]_(Mailbox!vars)`

`InOrder` says that what a layer has started, followed by its queue, is what it
has received. It is not inductive: `StartHandler` appends to the started events
and leaves the queue alone, which keeps the order only if the queue is empty.
That a layer which is idle, or runs a generator of its own rather than one below
`__continue`, has an empty queue is `QueueDiscipline`; that only the layers on the call
stack run is `CallStack`, which shows that the layer which receives an event is
not running already. `IInv` is the conjunction of these with `TypeOK`.

For replies and mailboxes, `RInv` adds three parts. `CommandsDiffer`: no two
suspended layers wait for the same command, so that a reply which one layer takes
is not the one another layer needs. `EventsWereSent`: what is worked on or queued
came from the environment. `ReplyOnItsWay`: the reply to each suspended command is
owed, or a layer above has it in its queue or in hand. With them each action of the
stack is a step of layer i's mailbox or leaves it as it is.

### HandlerProofs

- `LocksAndPermits`: `Spec => [](LocksKept /\ PermitsKept)`
- `HandlersLeakNothing`: `Spec => []NothingLeaks`, assuming `~LateOpen`
- `AttemptsAreAccountedFor`: `Spec => []AttemptsAccountedFor`
- `HalfClosedStay`: `Spec => NoPrematureClose`

That the lock is left on every path out of a handler needs to know who is in its
queue: exactly those who hand over an event (`Queued`), each once (`InLine`). That
nothing runs on after `handle_client` needs `ServedAreAwaited`: whoever has, or will
have, a connection is in `transports` when `handle_client` collects the handlers it
waits for. A layer that opens a connection after that breaks it, which is what
`LateOpen` stands for: with TCP layers it happens (`EndOrError` under Findings), so
the assumption is stated in the theorem, not made of the module, and
`LocksAndPermits` does without. `HooksRan` says for every await of a handler, and
every event it hands over there, which hooks it has run; the rest (`EventHandedOver`,
`ReadersAnswered`, `PendingWereCancelled`, `ClosedCannotRead`) is what cancellation and
half-closed connections need. `CancelledInQueue` takes the task out of the queue
of the lock with `RemoveAt` at its position, which the invariant shows to be the
only one.

### TcpProofs

- `TcpRelays`: `Spec => []Relayed`
- `TcpEndsOnce`: `Spec => []EndedOnce`

Messages are numbered as they arrive, so that a prefix is a length (`Numbered`,
`NotAhead`). `InFlight` accounts for every message while there is somebody to relay
it to: it was written, is in its hook, or waits in the queue, behind those before
it. The end of a connection is its last event in the queue (`QueueOrder`), so
that a half-close comes after all data (`HalfClosed`). `ServerServed` and `ReadsOn` tie the
phase of the layer to the handlers of both connections. That everything is
relayed when nothing queues up rests on four more parts about undisturbed
connections without hooks: the queue holds at most one event (`OneAtATime`, but for what
came before the server was connected), and a peer is cut off only after it has had
everything (`OpensInPeace`, `StoppedIsComplete`, `DoneIsComplete`). `EndsFlow` gives the
single end: while the layer relays it has run neither tcp_end nor tcp_error.

### WatchdogProofs

- `WatchdogTimesOutIdle`: `Spec => []IdleIsTimedOut`
- `WatchdogSparesHooks`: `Spec => HooksInTimeAreSafe`

`SleepIsShort` bounds the end of a sleep by the last activity, and the clock by the
end of the sleep. `SleepIsTooShort` is why hooks are safe that began in time although
disarm does not wake a sleeping watchdog: the event before the hook registered
activity, so that the sleep ends before the timeout and another one follows.

### InterceptionProofs

- `WaitingIsWoken`: `Spec => []WaitsAreConsistent`
- `InterceptedIsHeld`: `Spec => InterceptionHolds`
- `KilledGoesNowhere`: `Spec => KilledIsNotForwarded`

A flow may be intercepted again after it was resumed, and the event of the first
time must not let it through: `InterceptedIsClear`.

### HttpStreamProofs

- `FlowHasOneOutcome`: `Spec => []OneOutcomeEndsLife`
- `KilledGetsNoAnswer`: `Spec => KilledIsNotAnswered`

What a suspended generator has left to do tells where in the code it is. The
module names these places (`Announced`, `Opening`, `Routing`, ...); `ProgramsOnly`
says that there are no others, `Whereabouts` what a generator at a given step has
left. `StatesKnown` gives the states of client and server at each place, `SentLater`
that no response comes before its request was sent.

That a flow has one outcome (`OutcomeDecides`) rests on who may still cause one.
Once the client is given up, a response must not be handled any more. It is
not if the request was never sent or the server was told to stop and has nothing
in the queue (`GivenUp`); a response that is queued behind the end of the client
is met by a generator that checks the queue at its next step, or that has
given up both sides (`FoundOut`). The one place where neither holds is the
request hook of a streamed request, which is the finding `ErrorOrResponse`; the
invariant excepts the flows that passed through that hook and whose client is gone,
which are more than those of the finding (`Overtaken`).
`AtFirst`, `BeforeFirstHook`, `GoneIsLast`, `StreamsAreMarked` and `ConnectHookRan` say what has
not happened yet at some of the places, `ChunksCounted` bounds the buffers, and
`OverIsNotLive` is the second half of the theorem.

Steps that only take a generator on are proved at once: `Moving` shows that the
invariant is kept by a step from one place to a later one, with a hook or
without. Steps that take an event share the lemmas about what is left of a queue
(`TakesRequest` and its like, `CountsKept`). The strings that name steps are written with underscores, since the
translation to SMT cannot handle spaces in strings.

### HttpMessageProofs

- `HttpMessages`: `Spec => []MInv`
- `HooksRunInOrder`: `Spec => []HooksAndEventsInOrder`
- `WholeMessagesAreTold`: `Spec => []MessagesWhole`

On top of the invariant above, `MInv` relates the places to what has happened at the
ends of the stream: the histories of hooks and of messages, and the peers with what
waits in the queue. It is needed since both properties look at histories only, and
whether the next hook or the next piece of a message is in order depends on where the
stream is and on what is still to come.

- `HooksRun` tells which hooks can have run at a place. With it a step that appends a
  hook keeps `HooksInOrder`.
- `QueueOrdered`, `PeersAhead`, `RequestDrained`, `ResponseTakenTo` say that the queue
  holds the part of each message between the place and the peer: the headers of a
  response come first and an end is last, the headers of the request wait there only
  before anything was done, and while the response is awaited its headers are in the
  queue if there is anything of it. `EventExpected` concludes from these that the event
  at the head is one that the state it meets expects, which is what the `@expect`
  assertions of the code demand.
- `SentKnown` says where the request must have been sent, `ToldWhen`, `ToldSoFar` and
  `SentSoFar` what each side has been told, so that nothing follows an end.
- `RequestChunks` and `ResponseChunks` count: the chunks in the buffer, in the queue
  and told add up to those received, as long as the body is not given up. When
  the end is told the first two are none, which is `BodiesWhole`.

The lemmas at the beginning are about counting in, and the order of, a sequence and a
concatenation (`CountConcat`, `FollowsConcat`), since buffered messages are told at once
as headers, chunks, trailers and end (`MessageOf`).

### FlowSyncProofs

- `StaysInStep`: `Spec => []SInv`
- `AlwaysConsistent`: `Spec => []StoreConsistent`
- `QuietMeansInSync`: `Spec => []ClientInSync`

They hold for any number of flows, values and filters, and for queues of any length on
both sides of the connection. No fairness is used: `ClientInSync` is about the states
in which nothing is on its way, `CatchesUp` (model-checked) about reaching them.

Neither property is inductive, since both look at the state between two dispatches
only. `SInv` has five parts:

- `StoreKept` is about the record of the reducer: every flow of the list and of the view
  has its one position (`Placed`) and every position its flow (`Positioned`), the view
  is sorted, the view and the selection hold versions of the list (`Current`). Each of these
  excepts the resurrected flows, which is what makes them inductive: such a flow is without
  a position, and every later branch has to leave the positions of the others right.
  One lemma for each branch of the reducer (`Adds`, `Updates`, `Removes`, `Receives`,
  `FilterUpdates`, `Selects`, ...) shows that it is kept, and what the branch does to the
  list, the view and the highlights.
- `InTouch` is about the messages pushed and not dispatched yet, `Pending`: the queue of the
  fetch and the inbox behind it. `LastTells`: the last message about a flow says what
  the server has, and the last one that touches a flow and a filter says what the filter
  in force makes of it. `AddsFollow`: of two messages about a flow an add comes after
  a removal only. While no fetch is under way, the store is `InStep` with `Pending`: a flow
  no pending message is about is in the list as the server has it, and in the view exactly
  if the filter in force matches it; what an add is about is not there yet, or is as the server
  has it. During a fetch the same is said of its answer instead of the list, from
  the moment it is given: whatever was pushed before that is in the queue and will be
  dispatched on top, whatever comes later is in it too. A reset makes all of this void
  until the next fetch is answered, and `FiltersFollow` says that the result of each filter in
  force comes behind it, so that the view, which shows everything at first, is filtered.
- `FiltersSent`: of the filters on their way the last of each name is the one wanted, and
  one of which none is on its way is in force.
- `FetchesKnown` (no fetch is younger than the one that counts, and a queue never holds a
  reset) and `ServerKept`.

The proof follows the messages: `InStepNext` dispatches one, `ReceivedKept` an answer with the
queue behind it (by induction over the stages of the dispatch, as a set of numbers:
`Induct`), `SyncedGrown` pushes one, and the `...Shifted` lemmas go from a sequence to a
suffix of it. What the algorithms of the store compute is shown by the same kind of
induction: `Inserted` for the bisection of `findInsertPos`, `Settles` for the moves
between neighbours of `updateViewItem`, `ToSortedRearranges` and `KeptRearranges` for
sorting and filtering a list.

Writing the proof has changed two things that had been checked only: `Indexed` and
`SelectionCurrent` said too much of flows that an update brought back, in states that no run
reaches within its bounds; they are stated now as they hold.

### Only model-checked

- Liveness (`Terminates`, `PermitsGoRound`, `EndOrError`, `FlowEnds`, `Concluded`,
  `CatchesUp`, and the fairness of `Mailbox` in `ImplementsMailbox`): fairness and ENABLED
  are out of the prover's reach.
- What is recursive over data: the parsers (`Peg`), the paths of a content
  (`ProcessJson`) and the names of processes. Those modules declare RECURSIVE operators
  and hold no theorem.
- The inputs and editors of the page.

## 5. Plan

Proofs: the properties of `WebOptions` and `ValueEditor`, in place of a smaller module.

Candidates for later modules: `TunnelLayer` with its queue of commands, `View`,
`HttpLayer` above `HttpStream`.

## 6. Not modelled

What the components table of `PROJECT.json` lists as not modelled: other protocol
layers (TLS tunnels, HTTP/1 to HTTP/3, DNS, UDP, WebSocket) and addons, for which
there is no module yet; presentation (consoles, menus, tables and status lines of
the page), pure functions on messages (parsers, content views, what a filter
matches), cryptography, Python reloading, and the libraries below (asyncio's
streams, React's updates and CodeMirror are modelled by how the code uses them; h2,
aioquic, OpenSSL are not).
