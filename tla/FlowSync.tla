------------------------------- MODULE FlowSync -------------------------------
(***************************************************************************)
(* How the web client keeps its copy of the flows: the WebSocket backend   *)
(* (backends/websocket.tsx) fetches the list over HTTP while the server    *)
(* pushes changes over the WebSocket, and buffers what arrives while a     *)
(* fetch is in flight.  The store is FlowStore; the server is the client   *)
(* connection of tools/web/app.py: one list of flows and, per connection,  *)
(* the filters in force.  The HTTP answers and the WebSocket are separate  *)
(* connections: nothing orders what travels on one against the other.      *)
(***************************************************************************)
EXTENDS FlowStore

CONSTANTS Accepts,   \* the filter expressions, and the values each of them matches
          Scenarios  \* what the server holds at first, and the bounds: how often
                     \* each of the actors may act, which flows may be added

ASSUME FlowSyncAssumption ==
    /\ \A expr \in DOMAIN Accepts : Accepts[expr] \subseteq Values
    /\ \A scenario \in Scenarios :
          /\ scenario.served \in Seq(Item) /\ scenario.linked \subseteq Flows
          /\ \A i, j \in DOMAIN scenario.served :
                scenario.served[i].id = scenario.served[j].id => i = j

VARIABLES
    served,        \* server: the flows of its view, in order
    serverFilters, \* server: self.filters of the connection
    socket,        \* the WebSocket: "connecting", "open" or "closed"
    inbox,         \* WebSocket messages on their way to the client
    outbox,        \* WebSocket messages on their way to the server
    requests,      \* GET ./flows in flight: the id of the fetch, its answer
    activeFetch,   \* client: the fetch that counts and its queue of actions
    awaited,       \* client: what Promise.all of onOpen still waits for
    connection,    \* client: state.connection.state
    flows,         \* client: state.flows
    filter,        \* client: state.ui.filter
    filterState,   \* client: the filters last sent to the server
    messageQueue,  \* client: messages kept until the socket opens
    budget         \* what is left of the bounds; whether a request failed

serverVars  == <<served, serverFilters>>
filterVars  == <<filter, filterState, messageQueue>>
fetchVars   == <<requests, activeFetch, awaited, connection>>
vars == <<serverVars, socket, inbox, outbox, fetchVars, flows, filterVars, budget>>

FilterName == {"search", "highlight"}
NotAnswered == [answered |-> FALSE]
NoFilter == ""
Exprs == DOMAIN Accepts \ {NoFilter}

Spend(who) == budget[who] > 0 /\ budget' = [budget EXCEPT ![who] = @ - 1]

-----------------------------------------------------------------------------
(* The client's reducer on what is dispatched. *)
Reduce(s, msg) ==
    CASE msg.type = "receive" -> FlowsReceive(s, msg.flows)
      [] msg.type = "add"    -> FlowsAdd(s, msg.flow, msg.matching)
      [] msg.type = "update" -> FlowsUpdate(s, msg.flow, msg.matching)
      [] msg.type = "remove" -> FlowsRemove(s, msg.id)
      [] msg.type = "filterUpdate" ->
            FlowsFilterUpdate(s, msg.name, msg.unset, msg.ids)

\* A dispatch tells the subscribers.  One of them selects the flow that the page's
\* address names, as soon as there is one, and unsubscribes (urlState.ts).
Told(s) ==
    LET here == s.linked \cap DOMAIN s.byId
    IN  IF here = {} THEN s
        ELSE [Select(s, <<s.byId[CHOOSE id \in here : TRUE]>>) EXCEPT !.linked = {}]

\* A queue is dispatched, one message after the other, as the set of the one state
\* it leads to.
Dispatch(states, msg) == {Told(s) : s \in {Reduce(t, msg) : t \in states}}
Dispatched(state, queue) ==
    LET after[n \in 0..Len(queue)] ==
            IF n = 0 THEN {state} ELSE Dispatch(after[n - 1], queue[n])
    IN  after[Len(queue)]

\* onStoreUpdate: every filter that differs from what was sent last is sent.
FilterMessages(sent, wanted) ==
    LET Message(name) == IF sent[name] = wanted[name] THEN <<>>
                         ELSE <<[name |-> name, expr |-> wanted[name]]>>
    IN  Message("search") \o Message("highlight")

-----------------------------------------------------------------------------
(* The server: tools/web/app.py and the signal handlers of master.py.      *)
FilterResult(name, expr) ==
    LET matching == IF expr = NoFilter THEN <<>>
                    ELSE Kept(served', {i \in DOMAIN served' : served'[i].v \in Accepts[expr]})
    IN  [type |-> "filterUpdate", name |-> name, unset |-> expr = NoFilter,
         ids |-> [i \in DOMAIN matching |-> matching[i].id]]

MatchingFilters(flow) ==
    [name \in FilterName |->
        IF serverFilters[name] = NoFilter THEN "unset"
        ELSE IF flow.v \in Accepts[serverFilters[name]] THEN "yes" ELSE "no"]

\* A message is pushed to the connections there are.
Broadcast(messages) == inbox' = IF socket = "open" THEN inbox \o messages ELSE inbox

ServerAdd(id, v) ==
    LET flow == [id |-> id, v |-> v]
    IN  /\ Spend("server")
        /\ id \in budget.ids \ Ids(served)
        /\ served' = Append(served, flow)
        /\ Broadcast(<<[type |-> "add", flow |-> flow, matching |-> MatchingFilters(flow)]>>)
        /\ UNCHANGED <<serverFilters, socket, outbox, fetchVars, flows, filterVars>>

ServerUpdate(i, v) ==
    LET flow == [served[i] EXCEPT !.v = v]
    IN  /\ Spend("server")
        /\ served' = [served EXCEPT ![i] = flow]
        /\ Broadcast(<<[type |-> "update", flow |-> flow, matching |-> MatchingFilters(flow)]>>)
        /\ UNCHANGED <<serverFilters, socket, outbox, fetchVars, flows, filterVars>>

ServerRemove(i) ==
    /\ Spend("server")
    /\ served' = RemoveAt(served, i)
    /\ Broadcast(<<[type |-> "remove", id |-> served[i].id]>>)
    /\ UNCHANGED <<serverFilters, socket, outbox, fetchVars, flows, filterVars>>

\* The view is cleared, or only refreshed: a reset, then every filter again.
ServerRefresh(cleared) ==
    LET Again(name) == IF serverFilters[name] = NoFilter THEN <<>>
                       ELSE <<FilterResult(name, serverFilters[name])>>
    IN  /\ Spend("reset")
        /\ served' = IF cleared THEN <<>> ELSE served
        /\ Broadcast(<<[type |-> "reset"]>> \o Again("search") \o Again("highlight"))
        /\ UNCHANGED <<serverFilters, socket, outbox, fetchVars, flows, filterVars>>

\* flows/updateFilter is handled: remembered, and answered with the matches.
ServerUpdateFilter ==
    /\ socket = "open" /\ outbox # <<>>
    /\ LET msg == Head(outbox)
       IN  /\ serverFilters' = [serverFilters EXCEPT ![msg.name] = msg.expr]
           /\ UNCHANGED served
           /\ Broadcast(<<FilterResult(msg.name, msg.expr)>>)
    /\ outbox' = Tail(outbox)
    /\ UNCHANGED <<socket, fetchVars, flows, filterVars, budget>>

\* GET ./flows is handled: the answer is the view at this moment.
ServerAnswer(r) ==
    /\ r.response = NotAnswered
    /\ requests' = (requests \ {r}) \cup
            {[r EXCEPT !.response = [answered |-> TRUE, flows |-> served]]}
    /\ UNCHANGED <<serverVars, socket, inbox, outbox, activeFetch, awaited, connection,
                   flows, filterVars, budget>>

-----------------------------------------------------------------------------
(* The client. *)
\* Faulty variant: a request under way is not repeated.
FetchDataShared ==
    LET id == activeFetch.id + 1
    IN  /\ activeFetch' = [id |-> id, active |-> TRUE, queue |-> <<>>]
        /\ requests' = IF requests # {} THEN requests
                       ELSE {[id |-> id, response |-> NotAnswered]}

\* fetchData: a queue of its own marks the fetch that counts.
FetchData ==
    LET id == activeFetch.id + 1
    IN  /\ activeFetch' = [id |-> id, active |-> TRUE, queue |-> <<>>]
        /\ requests' = requests \cup {[id |-> id, response |-> NotAnswered]}

\* The two waits of onOpen: once neither is left, FETCHING is over.
NoLongerAwaiting(what) ==
    /\ awaited' = awaited \ {what}
    /\ connection' = IF awaited' = {} /\ what \in awaited /\ connection = "FETCHING"
                     THEN "ESTABLISHED" ELSE connection

\* onOpen: queued messages go out, then startFetching, whose dispatch runs
\* onStoreUpdate; then the four resources are fetched.
OnOpen ==
    /\ socket = "connecting"
    /\ socket' = "open"
    /\ outbox' = messageQueue \o FilterMessages(filterState, filter)
    /\ messageQueue' = <<>>
    /\ filterState' = filter
    /\ connection' = IF connection = "INIT" THEN "FETCHING" ELSE connection
    /\ awaited' = {"flows", "others"}
    /\ FetchData
    /\ UNCHANGED <<serverVars, inbox, flows, filter, budget>>

\* State, events and options have arrived too.
OthersReceived ==
    /\ "others" \in awaited
    /\ NoLongerAwaiting("others")
    /\ UNCHANGED <<serverVars, socket, inbox, outbox, requests, activeFetch, flows,
                   filterVars, budget>>

\* A message arrives: a reset supersedes the fetch, anything else is queued
\* while a fetch is active and dispatched otherwise.
OnMessage ==
    /\ inbox # <<>>
    /\ inbox' = Tail(inbox)
    /\ LET msg == Head(inbox)
       IN  \/ /\ msg.type = "reset"
              /\ FetchData
              /\ UNCHANGED flows
           \/ /\ msg.type # "reset" /\ activeFetch.active
              /\ activeFetch' = [activeFetch EXCEPT !.queue = Append(@, msg)]
              /\ UNCHANGED <<requests, flows>>
           \/ /\ msg.type # "reset" /\ ~activeFetch.active
              /\ flows' \in Dispatch({flows}, msg)
              /\ UNCHANGED <<requests, activeFetch>>
    /\ UNCHANGED <<serverVars, socket, outbox, awaited, connection, filterVars, budget>>

\* Faulty variant: what arrived during the fetch is taken to be in its answer.
ReceivedOnly(response) == <<[type |-> "receive", flows |-> response.flows]>>

\* receive: the list, and what was queued behind it.
Received(response) == <<[type |-> "receive", flows |-> response.flows]>> \o activeFetch.queue

\* The answer of a fetch arrives.  Only the fetch that was not superseded
\* replaces the list; the queue is then dispatched on top of it.
OnFetched(r) ==
    /\ r.response # NotAnswered
    /\ requests' = requests \ {r}
    /\ IF activeFetch.active /\ activeFetch.id = r.id
       THEN /\ flows' \in Dispatched(flows, Received(r.response))
            /\ activeFetch' = [activeFetch EXCEPT !.active = FALSE, !.queue = <<>>]
       ELSE UNCHANGED <<flows, activeFetch>>
    /\ IF r.id = 1 THEN NoLongerAwaiting("flows") ELSE UNCHANGED <<awaited, connection>>
    /\ UNCHANGED <<serverVars, socket, inbox, outbox, filterVars, budget>>

\* The request fails, or its answer is no JSON: nobody handles it.
FetchFails(r) ==
    /\ budget.fault > 0
    /\ budget' = [budget EXCEPT !.fault = @ - 1, !.failed = TRUE]
    /\ requests' = requests \ {r}
    /\ UNCHANGED <<serverVars, socket, inbox, outbox, activeFetch, awaited, connection,
                   flows, filterVars>>

\* The connection is lost; nothing reconnects.
OnClose ==
    /\ socket # "closed"
    /\ Spend("fault")
    /\ socket' = "closed"
    /\ inbox' = <<>> /\ outbox' = <<>>
    /\ serverFilters' = [name \in FilterName |-> NoFilter]
    /\ connection' = "ERROR"
    /\ UNCHANGED <<served, requests, activeFetch, awaited, flows, filterVars>>

\* setFilter and setHighlight, and the onStoreUpdate their dispatch runs.
SetFilter(name, expr) ==
    LET wanted   == [filter EXCEPT ![name] = expr]
        messages == FilterMessages(filterState, wanted)
    IN  /\ Spend("filter")
        /\ filter' = wanted
        /\ filterState' = wanted
        /\ outbox' = IF socket = "open" THEN outbox \o messages ELSE outbox
        /\ messageQueue' = IF socket = "connecting" THEN messageQueue \o messages
                           ELSE messageQueue
        /\ UNCHANGED <<serverVars, socket, inbox, fetchVars, flows>>

\* The user sorts the table, clicks a row, or moves with the arrow keys.
Browse(state) ==
    /\ Spend("user")
    /\ flows' = state
    /\ UNCHANGED <<serverVars, socket, inbox, outbox, fetchVars, filterVars>>

\* A click on the head of the column: ascending, then descending, then unsorted.
SortBy ==
    LET sort == flows.sort
    IN  Browse(SetSort(flows, [column |-> ~(sort.column /\ sort.desc),
                               desc |-> sort.column /\ ~sort.desc]))
Click  == \E i \in DOMAIN flows.view : Browse(Select(flows, <<flows.view[i]>>))
ToggleClick == \E i \in DOMAIN flows.view : Browse(SelectToggle(flows, flows.view[i]))
RangeClick == \E i \in DOMAIN flows.view : Browse(SelectRange(flows, flows.view[i]))

\* The keys: by a row, by a page of ten rows, to the ends; Escape selects nothing.
Arrow  == \E shift \in {-10, -1, 1, 10} : Browse(SelectRelative(flows, shift))
Escape == Browse(Select(flows, <<>>))

-----------------------------------------------------------------------------
NoFilters == [name \in FilterName |-> NoFilter]

\* A filter and a flow may come from the page's address, before the backend exists.
Init ==
    /\ \E scenario \in Scenarios :
          /\ served = scenario.served /\ budget = scenario.budget
          /\ flows = [EmptyStore EXCEPT !.linked = scenario.linked]
    /\ serverFilters = NoFilters
    /\ socket = "connecting" /\ inbox = <<>> /\ outbox = <<>>
    /\ requests = {} /\ activeFetch = [id |-> 0, active |-> FALSE, queue |-> <<>>]
    /\ awaited = {} /\ connection = "INIT"
    /\ filter \in {NoFilters} \cup
            {[NoFilters EXCEPT !.search = e] : e \in IF budget.filter > 0 THEN Exprs ELSE {}}
    /\ filterState = NoFilters /\ messageQueue = <<>>

Server ==
    \/ \E f \in Flows, v \in Values : ServerAdd(f, v)
    \/ \E i \in DOMAIN served, v \in Values : ServerUpdate(i, v)
    \/ \E i \in DOMAIN served : ServerRemove(i)
    \/ \E cleared \in BOOLEAN : ServerRefresh(cleared)

User ==
    \/ \E name \in FilterName, expr \in Exprs \cup {NoFilter} : SetFilter(name, expr)
    \/ SortBy \/ Click \/ ToggleClick \/ RangeClick \/ Arrow \/ Escape

Transport ==
    \/ OnOpen \/ OthersReceived \/ OnMessage \/ ServerUpdateFilter
    \/ \E r \in requests : ServerAnswer(r) \/ OnFetched(r)

Fault == OnClose \/ \E r \in requests : FetchFails(r)

Next == Server \/ User \/ Transport \/ Fault

Spec == Init /\ [][Next]_vars /\ WF_vars(Transport)
-----------------------------------------------------------------------------
TypeOK ==
    /\ served \in Seq(Item)
    /\ serverFilters \in [FilterName -> {NoFilter} \cup Exprs]
    /\ socket \in {"connecting", "open", "closed"}
    /\ activeFetch.id \in Nat /\ activeFetch.active \in BOOLEAN
    /\ awaited \subseteq {"flows", "others"}
    /\ connection \in {"INIT", "FETCHING", "ESTABLISHED", "ERROR"}
    /\ flows.list \in Seq(Item) /\ flows.view \in Seq(Item) /\ flows.selected \in Seq(Item)
    /\ flows.selectedIds \subseteq Flows /\ flows.highlightedIds \subseteq Flows
    /\ filter \in [FilterName -> {NoFilter} \cup Exprs] /\ filterState \in [DOMAIN filter -> {NoFilter} \cup Exprs]

NoRepeats(data) == Cardinality(Ids(data)) = Len(data)

\* Whatever position the store keeps, that flow is there.
Positioned(index, data) ==
    \A id \in DOMAIN index : index[id] \in DOMAIN data /\ data[index[id]].id = id

\* The positions the store keeps are those of its lists, and the view shows
\* the version of a flow that the list holds: every reducer branch moves
\* several structures, and the next one trusts them (ducks/flows/index.ts).
\* A flow that an update resurrected has no position, or stands in the list
\* twice, so then only the positions that are kept are right.
Indexed ==
    /\ Positioned(flows.listIndex, flows.list) /\ Positioned(flows.viewIndex, flows.view)
    /\ flows.resurrected = {} =>
        /\ NoRepeats(flows.list) /\ NoRepeats(flows.view)
        /\ flows.listIndex = BuildIndex(flows.list) /\ flows.byId = ById(flows.list)
        /\ flows.viewIndex = BuildIndex(flows.view)
        /\ \A i \in DOMAIN flows.view : flows.view[i] \in ToSet(flows.list)

\* The view is sorted at all times, whichever flow was inserted, removed or
\* moved last (_utils.ts searches it in halves and moves by neighbours).
ViewSorted ==
    \A i, j \in DOMAIN flows.view :
        i < j => MakeSort(flows.sort, flows.view[i], flows.view[j]) <= 0

\* The selection names each flow once, in the version the list holds: what the
\* user does next is done to these objects.  A flow that was ever resurrected may
\* have been selected twice, where it stood twice in the table.
SelectionCurrent ==
    /\ flows.selectedIds = Ids(flows.selected)
    /\ flows.resurrected = {} => ToSet(flows.selected) \subseteq ToSet(flows.list)
    /\ flows.revived = {} => NoRepeats(flows.selected)

\* Nothing is in flight in either direction.
Quiet == /\ socket = "open" /\ inbox = <<>> /\ outbox = <<>>
         /\ requests = {} /\ ~activeFetch.active

\* The structures of the store agree with each other after every dispatch.
StoreConsistent == TypeOK /\ Indexed /\ ViewSorted /\ SelectionCurrent

\* Whatever raced with the fetches: once all is delivered the client holds the
\* server's flows in the server's version.  Excused are the flows that an
\* update brought back after their removal.
InSync ==
    Quiet => \A f \in Flows \ flows.resurrected :
        {g \in ToSet(flows.list) : g.id = f} = {g \in ToSet(served) : g.id = f}

\* ... and shows exactly those that the filter of the user matches, and
\* highlights all that the other filter matches.  Excused are also the flows
\* whose add was ignored because the fetched list had them already.
ViewInSync ==
    Quiet =>
        /\ serverFilters = filter
        /\ \A f \in Flows \ (flows.resurrected \cup flows.swallowed) :
            LET Shown(name) == {g.id : g \in {h \in ToSet(served) :
                    h.id = f /\ (filter[name] = NoFilter \/ h.v \in Accepts[filter[name]])}}
            IN  /\ f \in Ids(flows.view) <=> f \in Shown("search")
                /\ filter.highlight # NoFilter /\ f \in Shown("highlight")
                      => f \in flows.highlightedIds

\* The client's copy and its view, once all is delivered.
ClientInSync == InSync /\ ViewInSync

\* As the comment of the reducer promises of the race of WebSocket and HTTP
\* (ducks/flows/index.ts:69-73), without any excuse.
RaceIsHandled == Quiet => ToSet(flows.list) = ToSet(served)

\* A fetch in progress ends, however often it is superseded, unless a request
\* failed or the connection is lost: while it lasts every change is withheld from
\* the user.
CatchesUp ==
    activeFetch.active ~> ~activeFetch.active \/ socket = "closed" \/ budget.failed
=============================================================================
