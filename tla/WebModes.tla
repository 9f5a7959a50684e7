------------------------------ MODULE WebModes ------------------------------
(***************************************************************************)
(* The Capture tab of the web client (web/src/js/ducks/modes): the servers *)
(* the user switches on and edits, and the servers the proxy runs.         *)
(*                                                                         *)
(* An edit shows at once, and sends the specifications of all servers that *)
(* are active and without an error as the option "mode".  The proxy takes  *)
(* the option or rejects it as a whole; what it took is turned into        *)
(* running servers later, one update at a time (Servers.update), and       *)
(* announced over the WebSocket before and after they started.  An answer  *)
(* is an HTTP answer: it may overtake, or be overtaken by, announcements   *)
(* and other answers.                                                      *)
(***************************************************************************)
EXTENDS ModeSpecs, SequencesExt

CONSTANTS
    Scenarios,   \* what the proxy was started with, whether its platform has
                 \* transparent modes, the types of modes the user touches, what is
                 \* typed into each field, and the bound on the edits
    Others,      \* the lists of modes another client may set
    Processes,   \* the names of the local processes
    MaxReverse   \* bound: reverse servers listed

VARIABLES
    modes,     \* the entries of each type, as listed in the Capture tab
    nextId,    \* ui_id of the next entry (Math.random)
    puts,      \* the option updates under way
    answers,   \* their answers under way
    option,    \* the server's option "mode"
    tasks,     \* the updates of the servers that were asked for
    running,   \* the specifications of the proxy's servers
    starting,  \* the lock is held: they were announced once and are starting
    events,    \* the announcements under way
    removing,  \* the reverse servers to remove once they are switched off
    budget,    \* the scenario, with the edits left
    foreign    \* another client set the option

vars == <<modes, nextId, puts, answers, option, tasks, running, starting, events,
          removing, budget, foreign>>

Types == Range(ModeTypes)
Entries == UNION {Range(modes[t]) : t \in Types}

-----------------------------------------------------------------------------
(* The reducers.                                                           *)

IsActiveMode(m) == m.active /\ m.error # "shown"

\* updateModes: the specifications that are sent, type by type.
ActiveModes(ms) ==
    FlattenSeq([i \in DOMAIN ModeTypes |->
        LET sent == SelectSeq(ms[ModeTypes[i]], IsActiveMode)
        IN  [j \in DOMAIN sent |-> GetSpec(sent[j])]])

\* addSetter's pending: the value is shown, and an error is over.
Pending(ms, m, field, value) ==
    [ms EXCEPT ![m.type] = [i \in DOMAIN @ |->
        IF @[i].id = m.id THEN [@[i] EXCEPT ![field] = value, !.error = "cleared"] ELSE @[i]]]

\* Faulty variant: nothing is made of a rejection.
RejectedSilently(ms, type, id) == ms

\* addSetter's rejected: the entry shows the error, if it is still listed.
Rejected(ms, type, id) ==
    [ms EXCEPT ![type] = [i \in DOMAIN @ |->
        IF @[i].id = id THEN [@[i] EXCEPT !.error = "shown"] ELSE @[i]]]

Announced(specs, type) == SelectSeq(specs, LAMBDA s : ParseSpec(s).name = type)

\* updateState: the entries of a type are replaced by what is announced of it.
Replaced(entries, type, specs, id) ==
    LET announced == Announced(specs, type)
    IN  IF announced # <<>>
        THEN [i \in DOMAIN announced |-> ParseRaw(ParseSpec(announced[i]), id + i)]
        ELSE [i \in DOMAIN entries |-> [entries[i] EXCEPT !.active = FALSE]]

\* updateState of the reverse servers: the listed ones stay, with their active bit
\* corrected; those not listed yet are added; a first one never configured goes.
Merged(entries, specs, id) ==
    LET announced == Announced(specs, "reverse")
        Twin(i) == \E j \in 1..(i - 1) : GetSpec(entries[j]) = GetSpec(entries[i])
        listed == [i \in DOMAIN entries |->
                     [entries[i] EXCEPT !.active =
                        GetSpec(entries[i]) \in Range(announced) /\ ~Twin(i)]]
        added == SelectSeq(announced, LAMBDA s : \A i \in DOMAIN entries : GetSpec(entries[i]) # s)
        all == listed \o [i \in DOMAIN added |-> ParseRaw(ParseSpec(added[i]), id + i)]
    IN  IF Len(all) > 1 /\ all[1] = DefaultReverseState(all[1].id) THEN Tail(all) ELSE all

\* STATE_RECEIVE and STATE_UPDATE in all slices.
UpdateState(ms, specs, id) ==
    [t \in Types |-> IF t = "reverse" THEN Merged(ms[t], specs, id)
                     ELSE Replaced(ms[t], t, specs, id)]

-----------------------------------------------------------------------------
\* The initial state of each slice, and what its setters may change.
RegularSlice     == [initial |-> Entry(0, "regular", TRUE, "", "", "", ""),
                     setters |-> {"host", "port"}]
LocalSlice       == [initial |-> Entry(0, "local", FALSE, "", "", "", ""), setters |-> {"data"}]
WireguardSlice   == [initial |-> Entry(0, "wireguard", FALSE, "", "", "", ""),
                     setters |-> {"host", "port", "data"}]
ReverseSlice     == [initial |-> DefaultReverseState(0),
                     setters |-> {"host", "port", "protocol", "data"}]
TransparentSlice == [initial |-> Entry(0, "transparent", FALSE, "", "", "", ""),
                     setters |-> {"host", "port"}]
SocksSlice       == [initial |-> Entry(0, "socks5", FALSE, "", "", "", ""),
                     setters |-> {"host", "port"}]
UpstreamSlice    == [initial |-> Entry(0, "upstream", FALSE, "", "", "", ""),
                     setters |-> {"host", "port", "data"}]
DnsSlice         == [initial |-> Entry(0, "dns", TRUE, "", "", "", ""),
                     setters |-> {"host", "port"}]

Slices == <<RegularSlice, LocalSlice, WireguardSlice, ReverseSlice, TransparentSlice,
            SocksSlice, UpstreamSlice, DnsSlice>>
SliceOf(t) == Slices[CHOOSE i \in DOMAIN ModeTypes : ModeTypes[i] = t]

\* The page was opened: STATE_RECEIVE, with the servers there are, is under way.
Init ==
    /\ \E s \in Scenarios :
          option = s.option /\ budget = s
    /\ running = option
    /\ modes = [t \in Types |-> <<SliceOf(t).initial>>]
    /\ nextId = 1
    /\ puts = {} /\ answers = {}
    /\ tasks = <<>> /\ starting = FALSE /\ events = <<option>>
    /\ removing = {}
    /\ foreign = FALSE

Server == <<option, tasks, running, starting, events, foreign>>

Edit == budget.edits > 0 /\ budget' = [budget EXCEPT !.edits = @ - 1]

\* A thunk of createModeUpdateThunk: pending is dispatched, then the modes are sent.
Set(m, field, value) ==
    /\ Edit
    /\ modes' = Pending(modes, m, field, value)
    /\ puts' = puts \cup {[edit |-> budget.edits, type |-> m.type, id |-> m.id, specs |-> ActiveModes(modes')]}

\* The value an input makes of what was typed: a port is a number, except in the
\* reverse rows, where it stays the text.
Typed(m, field, text) == IF field = "port" /\ m.type # "reverse" THEN Truthy(ParseInt(text)) ELSE text

\* The checkbox of a row, and its input for a field.
Toggle(m) == Set(m, "active", ~m.active) /\ UNCHANGED <<nextId, answers, removing, Server>>
Input(m, field) ==
    /\ field \in SliceOf(m.type).setters
    /\ \E text \in budget.typed[field] : Set(m, field, Typed(m, field, text))
    /\ UNCHANGED <<nextId, answers, removing, Server>>

Listener(m) == Toggle(m) \/ Input(m, "host") \/ Input(m, "port")
RegularRow(m)     == m.type = "regular" /\ Listener(m)
SocksRow(m)       == m.type = "socks5" /\ Listener(m)
TransparentRow(m) == m.type = "transparent" /\ Listener(m)
DnsRow(m)         == m.type = "dns" /\ Listener(m)
WireguardRow(m)   == m.type = "wireguard" /\ (Listener(m) \/ Input(m, "data"))
UpstreamRow(m)    == m.type = "upstream" /\ (Listener(m) \/ Input(m, "data"))
ReverseRow(m)     ==
    m.type = "reverse" /\ (Listener(m) \/ Input(m, "data") \/ Input(m, "protocol"))

\* The processes of a local mode are one text; commas and what follows separate them.
RECURSIVE Names(_)
Names(text) ==
    LET cut == Partition(text, ",")
        rest == IF IsPrefix(" ", cut[2]) THEN SubSeq(cut[2], 2, Len(cut[2])) ELSE cut[2]
    IN  IF Found(text, ",") = {} THEN <<text>> ELSE <<cut[1]>> \o Names(rest)
Joined(names) ==
    IF names = <<>> THEN "" ELSE FoldLeft(LAMBDA text, n : text \o ", " \o n, Head(names), Tail(names))

AddProcess(m, name) ==
    Set(m, "data", IF m.data = "" THEN name ELSE m.data \o ", " \o name)
RemoveProcess(m, name) == Set(m, "data", Joined(SelectSeq(Names(m.data), LAMBDA n : n # name)))

\* A process of the list is selected if its name occurs in the text.
LocalDropdown(m) ==
    /\ \/ \E name \in Processes :
            IF Found(m.data, name) # {} THEN RemoveProcess(m, name) ELSE AddProcess(m, name)
       \/ \E name \in Processes \cup {""} : AddProcess(m, name)
       \/ Set(m, "data", "")
    /\ UNCHANGED <<nextId, answers, removing, Server>>

\* handleDeletionProcess: the cross behind each name.
DeleteProcess(m) ==
    /\ \E name \in Range(Names(m.data)) \ {""} : RemoveProcess(m, name)
    /\ UNCHANGED <<nextId, answers, removing, Server>>

LocalRow(m) == m.type = "local" /\ (Toggle(m) \/ LocalDropdown(m) \/ DeleteProcess(m))

AddServer ==
    /\ Edit
    /\ "reverse" \in budget.touched
    /\ Len(modes["reverse"]) < MaxReverse
    /\ modes' = [modes EXCEPT !["reverse"] = Append(@, DefaultReverseState(nextId))]
    /\ nextId' = nextId + 1
    /\ UNCHANGED <<puts, answers, removing, Server>>

Without(ms, id) == [ms EXCEPT !["reverse"] = SelectSeq(@, LAMBDA m : m.id # id)]

\* deleteServer: an active server is switched off first, and removed when that was
\* answered; only the first one cannot be removed.
DeleteServer(i) ==
    /\ "reverse" \in budget.touched
    /\ i \in 2..Len(modes["reverse"])
    /\ LET m == modes["reverse"][i]
       IN  IF m.active THEN Set(m, "active", FALSE) /\ removing' = removing \cup {budget.edits}
           ELSE /\ Edit
                /\ modes' = Without(modes, m.id)
                /\ UNCHANGED <<puts, removing>>
    /\ UNCHANGED <<nextId, answers, Server>>

\* PUT /options: the option is set, or left as it was, of which every addon is told
\* again (OptManager.rollback); the servers follow later.
ServerOptions(p) ==
    /\ puts' = puts \ {p}
    /\ LET ok == Acceptable(p.specs, budget.transparent)
       IN  /\ answers' = answers \cup {[edit |-> p.edit, type |-> p.type, id |-> p.id, ok |-> ok]}
           /\ option' = IF ok THEN p.specs ELSE option
    /\ tasks' = Append(tasks, option')
    /\ UNCHANGED <<modes, nextId, running, starting, events, removing, budget, foreign>>

\* Another client, or the command line, sets the option.
OtherClient ==
    /\ ~foreign
    /\ \E specs \in Others : option' = specs /\ tasks' = Append(tasks, specs)
    /\ foreign' = TRUE
    /\ UNCHANGED <<modes, nextId, puts, answers, running, starting, events, removing, budget>>

\* Servers.update: nothing to start or to stop is nothing to announce.
UpdateServers ==
    /\ tasks # <<>> /\ ~starting
    /\ tasks' = Tail(tasks)
    /\ IF ToSet(Head(tasks)) = ToSet(running) THEN UNCHANGED <<running, starting, events>>
       ELSE running' = Head(tasks) /\ starting' = TRUE /\ events' = Append(events, running')
    /\ UNCHANGED <<modes, nextId, puts, answers, option, removing, budget, foreign>>

\* They have started, or failed to; they are announced again.
Started ==
    /\ starting
    /\ starting' = FALSE
    /\ events' = Append(events, running)
    /\ UNCHANGED <<modes, nextId, puts, answers, option, tasks, running, removing, budget, foreign>>

\* The answer to an edit: an error is shown; a removal is completed.
Answered(a) ==
    /\ answers' = answers \ {a}
    /\ modes' = IF ~a.ok THEN Rejected(modes, a.type, a.id)
                ELSE IF a.edit \in removing THEN Without(modes, a.id)
                ELSE modes
    /\ removing' = removing \ {a.edit}
    /\ UNCHANGED <<nextId, puts, budget, Server>>

\* STATE_UPDATE.
StateUpdate ==
    /\ events # <<>>
    /\ Len(modes["reverse"]) <= MaxReverse
    /\ events' = Tail(events)
    /\ modes' = UpdateState(modes, Head(events), nextId)
    /\ nextId' = nextId + Len(Head(events)) + 1
    /\ UNCHANGED <<puts, answers, option, tasks, running, starting, removing, budget, foreign>>

Next ==
    \/ \E m \in Entries :
        /\ m.type \in budget.touched
        /\ \/ RegularRow(m) \/ LocalRow(m) \/ WireguardRow(m) \/ ReverseRow(m)
           \/ TransparentRow(m) \/ SocksRow(m) \/ UpstreamRow(m) \/ DnsRow(m)
    \/ AddServer
    \/ \E i \in DOMAIN modes["reverse"] : DeleteServer(i)
    \/ \E p \in puts : ServerOptions(p)
    \/ OtherClient
    \/ UpdateServers
    \/ Started
    \/ \E a \in answers : Answered(a)
    \/ StateUpdate

Spec == Init /\ [][Next]_vars

-----------------------------------------------------------------------------
\* An entry the server takes reads back as it was written, so that what the user
\* typed is what is shown once it is announced; except for what cannot be written (a
\* host without a port, a port 0), for a port of a reverse row that is not written as
\* a number is, and for data that holds the separator.
SpecsRoundTrip ==
    \A m \in Entries :
        /\ m.port = "" => m.host = ""
        /\ m.port # "0" /\ (m.port = "" \/ IsPort(m.port))
        /\ Found(m.data, "@") = {}
        /\ Valid(GetSpec(m))
        => ParseRaw(ParseSpec(GetSpec(m)), m.id) = [m EXCEPT !.active = TRUE, !.error = "none"]

Quiet == puts = {} /\ answers = {} /\ tasks = <<>> /\ ~starting /\ events = <<>>

\* When everything has arrived and no entry shows an error, the entries that are
\* shown as active are the servers the proxy runs, each of them once, whatever was
\* rejected, overtaken or set by others on the way.  (The proxy was not given
\* specifications the client writes in another way.)
ShownAreRunning ==
    Quiet /\ (\A m \in Entries : m.error # "shown") /\ (\A s \in ToSet(running) : Canonical(s)) =>
        LET shown == ActiveModes(modes)
        IN  ToSet(shown) = ToSet(running) /\ IsInjective(shown)
=============================================================================
