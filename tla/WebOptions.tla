------------------------------ MODULE WebOptions ------------------------------
(***************************************************************************)
(* One option of the proxy in the options editor of the web client         *)
(* (components/Modal, ducks/options.ts, ducks/ui/optionsEditor.ts).  Every *)
(* change of the input is sent at once by HTTP.  Until it is answered, and *)
(* for as long as it is in error, the input shows the value of its entry   *)
(* in the editor; otherwise it shows the store's, which follows what the   *)
(* server announces over the WebSocket.  Requests and answers keep no      *)
(* order, announcements do.                                                *)
(*                                                                         *)
(* A value is a string, or the sequence of the lines of a "sequence of     *)
(* str".  The option is also a switch in the menu if it is a bool.         *)
(***************************************************************************)
EXTENDS Integers, Sequences, SequencesExt, FiniteSetsExt

CONSTANTS
    Scenarios,   \* the type of the option, its value, what is typed, what an addon
                 \* rejects, what others set, and the bounds on edits and faults
    NoEntry      \* undefined, the entry of an option that is not being edited

VARIABLES
    option,      \* the scenario, with what is left of its bounds
    value,       \* the server's value
    stored,      \* state.options and state.options_meta
    editor,      \* state.ui.optionsEditor: the entry of the option
    open,        \* the modal is shown
    text,        \* the textarea of a sequence has a state of its own
    requests,    \* PUT /options on their way
    answers,     \* the answers on their way
    events,      \* options/update on their way
    latest,      \* history: the latest update, and its outcome while the modal is open
    crossed,     \* history: an update was sent while another one was under way
    foreign      \* history: the option changed while the modal showed another value

vars == <<option, value, stored, editor, open, text, requests, answers, events,
          latest, crossed, foreign>>

Lines == "sequence of str"
Negated(bool) == IF bool = "true" THEN "false" ELSE "true"
UnderWay == requests # {} \/ answers # {} \/ events # <<>>

-----------------------------------------------------------------------------
(* What the inputs hand on (OptionInput.tsx).                              *)
NonBlank(line) == {i \in 1..Len(line) : SubSeq(line, i, i) # " "}
Trim(line) ==
    IF NonBlank(line) = {} THEN ""
    ELSE SubSeq(line, Min(NonBlank(line)), Max(NonBlank(line)))

ParseInt(typed) == IF typed = "" THEN "NaN" ELSE typed
NumberOption(typed) == ParseInt(typed)

\* onChange(x ? x : null): 0 and NaN are no numbers to it, and "" is no text.
Optional(x) == IF x \in {"", "0", "NaN"} THEN "null" ELSE x

\* Only the lines that are not blank are sent.
StringSequenceOption(lines) ==
    SelectSeq([i \in DOMAIN lines |-> Trim(lines[i])], LAMBDA line : line # "")

Given(type, typed) ==
    CASE type = Lines          -> StringSequenceOption(typed)
      [] type = "int"          -> NumberOption(typed)
      [] type = "optional str" -> Optional(typed)
      [] type = "optional int" -> Optional(NumberOption(typed))
      [] OTHER                 -> typed      \* bool, str, and the choices

\* What the input is given to show (OptionInput).
InputValue == IF editor = NoEntry THEN stored ELSE editor.value

-----------------------------------------------------------------------------
Init ==
    /\ option \in Scenarios
    /\ value = option.value /\ stored = option.value
    /\ editor = NoEntry /\ open = FALSE /\ text = <<>>
    /\ requests = {} /\ answers = {} /\ events = <<>>
    /\ latest = [id |-> 0, outcome |-> "none"]
    /\ crossed = FALSE /\ foreign = FALSE

Open ==
    /\ ~open
    /\ open' = TRUE
    /\ text' = IF option.type = Lines THEN InputValue ELSE <<>>
    /\ foreign' = UnderWay
    /\ UNCHANGED <<option, value, stored, editor, requests, answers, events, latest, crossed>>

\* hideModal: the editor forgets all entries, also those still being updated.
HideModal ==
    /\ open
    /\ open' = FALSE
    /\ editor' = NoEntry
    /\ text' = <<>>
    /\ latest' = [latest EXCEPT !.outcome = "none"]
    /\ UNCHANGED <<option, value, stored, requests, answers, events, crossed, foreign>>

\* update: startUpdate, and the request is made.
Update(v) ==
    /\ option.edits > 0
    /\ option' = [option EXCEPT !.edits = @ - 1]
    /\ editor' = [value |-> v, isUpdating |-> TRUE, error |-> FALSE]
    /\ requests' = requests \cup {[id |-> latest.id + 1, value |-> v]}
    /\ latest' = [id |-> latest.id + 1, outcome |-> "none"]
    /\ crossed' = (crossed \/ requests # {} \/ answers # {})
    /\ UNCHANGED <<value, stored, open, answers, events, foreign>>

\* The user changes the input.
Change ==
    /\ open
    /\ \E typed \in option.inputs :
          /\ text' = IF option.type = Lines THEN typed ELSE <<>>
          /\ Update(Given(option.type, typed))

\* OptionsToggle: a switch of the menu, which the modal covers.  It negates the
\* store's value, not the one being sent.
Toggle ==
    /\ ~open /\ option.type = "bool"
    /\ Update(Negated(stored))
    /\ UNCHANGED text

\* PUT /options.  A value of another type (JSON has no NaN, it is sent as null) is a
\* TypeError; what an addon rejects is rolled back, and the old value announced.
ServerPut(r) ==
    LET typed == ~(option.type = "int" /\ r.value = "NaN")
        ok    == typed /\ r.value \notin option.rejected
    IN  /\ requests' = requests \ {r}
        /\ value' = IF ok THEN r.value ELSE value
        /\ events' = IF typed THEN Append(events, value') ELSE events
        /\ answers' = answers \cup {[id |-> r.id, ok |-> ok]}
        /\ UNCHANGED <<option, stored, editor, open, text, latest, crossed, foreign>>

\* The request does not arrive, or its answer does not: fetch rejects.
NetworkFails ==
    /\ option.faults > 0
    /\ option' = [option EXCEPT !.faults = @ - 1]
    /\ \/ \E r \in requests :
            /\ requests' = requests \ {r}
            /\ answers' = answers \cup {[id |-> r.id, ok |-> FALSE]}
       \/ \E a \in answers :
            /\ answers' = (answers \ {a}) \cup {[a EXCEPT !.ok = FALSE]}
            /\ UNCHANGED requests
    /\ UNCHANGED <<value, stored, editor, open, text, events, latest, crossed, foreign>>

\* Another client, or a command, sets the option.
OtherClient ==
    /\ option.others # {}
    /\ \E v \in option.others : value' = v /\ events' = Append(events, v)
    /\ option' = [option EXCEPT !.others = {}]
    /\ foreign' = TRUE
    /\ UNCHANGED <<stored, editor, open, text, requests, answers, latest, crossed>>

Outcome(a) ==
    latest' = IF a.id = latest.id /\ (open \/ editor # NoEntry)
              THEN [latest EXCEPT !.outcome = IF a.ok THEN "accepted" ELSE "rejected"]
              ELSE latest

\* Faulty variant: a switch stays where the user put it.
UpdateErrorAsTyped(a) ==
    /\ ~a.ok
    /\ answers' = answers \ {a}
    /\ Outcome(a)
    /\ editor' = IF editor = NoEntry THEN NoEntry
                 ELSE [editor EXCEPT !.isUpdating = FALSE, !.error = TRUE]
    /\ UNCHANGED <<option, value, stored, open, text, requests, events, crossed, foreign>>

\* The answer is an error: the entry keeps its value, a switch goes back.  Without
\* an entry updateError throws, and nobody hears of the error.
UpdateError(a) ==
    /\ ~a.ok
    /\ answers' = answers \ {a}
    /\ Outcome(a)
    /\ editor' = IF editor = NoEntry THEN NoEntry
                 ELSE [value |-> IF option.type = "bool" THEN Negated(editor.value)
                                 ELSE editor.value,
                       isUpdating |-> FALSE, error |-> TRUE]
    /\ UNCHANGED <<option, value, stored, open, text, requests, events, crossed, foreign>>

UpdateSuccess(a) ==
    /\ a.ok
    /\ answers' = answers \ {a}
    /\ Outcome(a)
    /\ editor' = NoEntry
    /\ UNCHANGED <<option, value, stored, open, text, requests, events, crossed, foreign>>

\* OPTIONS_UPDATE, in both slices.  A textarea that is shown keeps its text.
OptionsUpdate ==
    /\ events # <<>>
    /\ events' = Tail(events)
    /\ stored' = Head(events)
    /\ UNCHANGED <<option, value, editor, open, text, requests, answers, latest, crossed, foreign>>

Next ==
    \/ Open \/ HideModal \/ Change \/ Toggle
    \/ \E r \in requests : ServerPut(r)
    \/ NetworkFails \/ OtherClient
    \/ \E a \in answers : UpdateError(a) \/ UpdateSuccess(a)
    \/ OptionsUpdate

Spec == Init /\ [][Next]_vars

-----------------------------------------------------------------------------
\* When everything has arrived, an option that shows no error shows the server's
\* value, however updates overtook each other, failed or were joined by others'.
\* Only a textarea, which keeps its own text, needs that nobody else changed the
\* option since it was opened, and that updates were made one by one and none failed.
ShownIsServed ==
    ~UnderWay /\ (editor = NoEntry \/ ~editor.error) =>
        /\ InputValue = value
        /\ open /\ option.type = Lines /\ ~foreign /\ ~crossed
              => StringSequenceOption(text) = value

\* When everything has arrived, the entry is in error if and only if the latest
\* update failed while the user was looking, and a switch is back at the server's
\* value then (if no answer was lost on the way); unless updates crossed each other,
\* or others changed the option.
RejectionIsSeen ==
    ~UnderWay /\ ~crossed /\ ~foreign =>
        /\ editor # NoEntry <=> latest.outcome = "rejected"
        /\ editor # NoEntry /\ option.type = "bool" /\ option.faults > 0
              => editor.value = value
=============================================================================
