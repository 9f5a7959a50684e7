------------------------------ MODULE FilterInput ------------------------------
(***************************************************************************)
(* A filter input of the web client (components/Header/FilterInput.tsx)    *)
(* from the key the user presses to the filter the server has in force.    *)
(* There are two kinds (components/Header/FlowListMenu.tsx).  "search"     *)
(* puts a valid text into the store, which sends it over the WebSocket;    *)
(* the server closes the connection over a filter it cannot parse.         *)
(* "intercept" sends a valid text as an option by HTTP; the server         *)
(* announces the options it changed over the WebSocket, and only that      *)
(* changes the store.                                                      *)
(*                                                                         *)
(* The input shows its own text, and takes over the store's whenever it is *)
(* rendered with a new one.                                                *)
(***************************************************************************)
EXTENDS Filter

CONSTANTS
    Scenarios,  \* the uses of an input: its kind, the texts the store may hold at
                \* first (an address may name any), the keys, the bound on edits
    MaxUpdates  \* bound: option updates under way at a time

VARIABLES
    kind,       \* "search" or "intercept"
    keys,       \* what the user may type
    edits,      \* edits left
    value,      \* the input's text
    prop,       \* the text in the store
    sent,       \* "search": the filters on their way to the server
    updates,    \* "intercept": the option updates on their way; HTTP keeps no order
    events,     \* "intercept": the values on their way back to the store
    inForce,    \* the filter the server uses
    connected,  \* the WebSocket is open
    picked      \* history: the text was picked from the list, not typed

vars == <<kind, keys, edits, value, prop, sent, updates, events, inForce, connected, picked>>

\* isValid: the client can parse it, or there is nothing to parse.
IsValid(text) == text = "" \/ Parse(text).ok
\* What the server accepts: update_filter and the intercept option take "" for none.
Accepted(text) == text = "" \/ ServerParse(text).ok

Init ==
    /\ \E s \in Scenarios :
          kind = s.kind /\ keys = s.keys /\ edits = s.edits /\ value \in s.texts
    /\ prop = value
    /\ sent = (IF kind = "search" /\ value # "" THEN <<value>> ELSE <<>>)
    /\ updates = {} /\ events = <<>>
    /\ inForce = (IF kind = "search" THEN "" ELSE value)
    /\ connected = TRUE
    /\ picked = FALSE

Edit == edits > 0 /\ edits' = edits - 1

\* onChange, with the handler of its kind: an invalid text stays in the input.
Change(text) ==
    /\ Edit
    /\ value' = text
    /\ picked' = FALSE
    /\ IF ~IsValid(text) THEN UNCHANGED <<prop, sent, updates>>
       ELSE IF kind = "search"
       THEN /\ prop' = text
            /\ sent' = (IF text = prop \/ ~connected THEN sent ELSE Append(sent, text))
            /\ UNCHANGED updates
       ELSE /\ Cardinality(updates) < MaxUpdates
            /\ updates' = updates \cup {[id |-> edits, text |-> text]}
            /\ UNCHANGED <<prop, sent>>
    /\ UNCHANGED <<kind, keys, events, inForce, connected>>

\* selectFilter, from the list of the filters there are (FilterDocs.tsx): the text
\* is shown, and told to nobody.
SelectFilter(command) ==
    /\ Edit
    /\ value = ""
    /\ value' = command \o " "
    /\ picked' = TRUE
    /\ UNCHANGED <<kind, keys, prop, sent, updates, events, inForce, connected>>

\* The parent is rendered anew (componentWillReceiveProps).
Rendered ==
    /\ value # prop
    /\ value' = prop
    /\ picked' = FALSE
    /\ UNCHANGED <<kind, keys, prop, sent, updates, events, inForce, connected, edits>>

\* The server's on_message: update_filter, or the connection is closed.
ServerFilters ==
    /\ sent # <<>> /\ connected
    /\ IF Accepted(Head(sent))
       THEN inForce' = Head(sent) /\ sent' = Tail(sent) /\ UNCHANGED connected
       ELSE connected' = FALSE /\ sent' = <<>> /\ UNCHANGED inForce
    /\ UNCHANGED <<kind, keys, value, prop, updates, events, edits, picked>>

\* PUT /options: the option is changed, or left as it was (OptManager.rollback), and
\* announced in both cases.
ServerUpdates(u) ==
    /\ updates' = updates \ {u}
    /\ inForce' = IF Accepted(u.text) THEN u.text ELSE inForce
    /\ events' = Append(events, inForce')
    /\ UNCHANGED <<kind, keys, value, prop, sent, connected, edits, picked>>

\* Faulty variant: the input is not rendered anew.
OptionsUpdateUnseen ==
    /\ events # <<>>
    /\ events' = Tail(events)
    /\ prop' = Head(events)
    /\ UNCHANGED <<kind, keys, sent, updates, inForce, connected, edits, value, picked>>

\* OPTIONS_UPDATE: the input is rendered if the store's text is another one now.
OptionsUpdate ==
    /\ events # <<>>
    /\ events' = Tail(events)
    /\ prop' = Head(events)
    /\ IF Head(events) = prop THEN UNCHANGED <<value, picked>>
       ELSE value' = Head(events) /\ picked' = FALSE
    /\ UNCHANGED <<kind, keys, sent, updates, inForce, connected, edits>>

Next ==
    \/ \E key \in keys : Change(value \o key)
    \/ value # "" /\ Change("")
    \/ \E command \in {"~e", "~b"} : SelectFilter(command)
    \/ Rendered
    \/ ServerFilters
    \/ \E u \in updates : ServerUpdates(u)
    \/ OptionsUpdate

Spec == Init /\ [][Next]_vars

-----------------------------------------------------------------------------
\* A text of the documented language is read alike by the client, which decides
\* whether to send it, and by the server, which applies it: same operators, same
\* operands.  Excepted are what only the server knows, ~meta and some escapes.
ReadAlikeByBoth == ReadAlike(value)

\* When everything sent has arrived, a text both know of that language is the
\* filter in the store and the filter in force, although updates overtake each
\* other and come back while the user types on.  A picked text is not sent at all
\* until it is edited.
ShownIsInForce ==
    sent = <<>> /\ updates = {} /\ events = <<>> /\ connected /\ ~picked
        /\ (value = "" \/ PlainToBoth(value))
    => prop = value /\ inForce = value
=============================================================================
