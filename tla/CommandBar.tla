------------------------------ MODULE CommandBar ------------------------------
(***************************************************************************)
(* The command bar of the web client                                       *)
(* (web/src/js/components/CommandBar.tsx): a text input with completion by *)
(* Tab, a history by the arrow keys, and the results of the commands.      *)
(*                                                                         *)
(* A handler sees the state of the last rendering; what it hands to a      *)
(* request's callback is the state of the rendering the request was made   *)
(* in.  A key goes down (the handlers that change the text) and comes up   *)
(* again (the handler that parses it); another key may go down in between. *)
(* What the popover says of the command (its signature, its help) is left  *)
(* out: nothing is computed from it.                                       *)
(***************************************************************************)
EXTENDS Command, SequencesExt

CONSTANTS
    Keys,        \* the characters the user types
    AllCommands, \* the names of the server's commands, in its order
    Earlier,     \* the server's history when the bar is opened
    MaxText,     \* bound: characters typed into one text
    MaxEntered,  \* bound: times Enter is pressed
    MaxTabs,     \* bound: times Tab is pressed on one text
    Undefined,   \* JavaScript's undefined
    NaN          \* JavaScript's NaN

VARIABLES
    bar,         \* the component's state
    loading,     \* the requests made on mounting that are not answered yet
    requests,    \* the commands that were sent and not answered yet
    held,        \* the keys that are down
    entered,     \* history: the texts Enter was pressed on
    answered,    \* history: the commands that were answered, in that order
    overlapped,  \* history: a command was sent before another was answered
    late,        \* history: the server's history came after a first Enter
    untouched    \* history: since the text changed, only Tab was pressed, and
                 \* never while another key was down

vars == <<bar, loading, requests, held, entered, answered, overlapped, late, untouched>>

\* getAvailableCommands(commands, input): an undefined input is its default, "".
Available(commands, word) ==
    SelectSeq(commands, LAMBDA c : word = Undefined \/ IsPrefix(word, c))

\* parts[0] of a parsed text, and the text the completion starts from.
FirstWord(parts) == IF parts = <<>> THEN Undefined ELSE parts[1]

EmptyBar ==
    [input |-> "", original |-> "", completion |-> 0, candidates |-> <<>>, available |-> <<>>,
     commands |-> <<>>,
     results |-> <<>>, history |-> <<>>, pos |-> Undefined]

\* An array read with any index: undefined where there is nothing.
At(seq, i) == IF i # NaN /\ i \in 0..(Len(seq) - 1) THEN seq[i + 1] ELSE Undefined

\* A text can be parsed; undefined and what the grammar does not read throw.
Parses(text) == text # Undefined /\ Parse(text).ok

-----------------------------------------------------------------------------
Init ==
    /\ bar = EmptyBar
    /\ loading = {"commands", "history"}
    /\ requests = {}
    /\ held = 0
    /\ entered = <<>> /\ answered = <<>>
    /\ overlapped = FALSE /\ late = FALSE /\ untouched = FALSE

\* The first effect: GET /commands.
CommandsLoaded ==
    /\ "commands" \in loading
    /\ loading' = loading \ {"commands"}
    /\ bar' = [bar EXCEPT !.commands = AllCommands,
                          !.candidates = AllCommands,
                          !.available = AllCommands]
    /\ untouched' = FALSE
    /\ UNCHANGED <<requests, held, entered, answered, overlapped, late>>

\* The second effect: commands.history.get.  The server answered it before or after
\* it was told of any of the texts entered meanwhile.
HistoryLoaded ==
    /\ "history" \in loading
    /\ loading' = loading \ {"history"}
    /\ \E n \in 0..Len(entered) :
          bar' = [bar EXCEPT !.history = Earlier \o SubSeq(entered, 1, n)]
    /\ late' = (entered # <<>>)
    /\ UNCHANGED <<requests, held, entered, answered, overlapped, untouched>>

KeyDown == held < 2 /\ held' = held + 1

\* onChange: a character is typed.
Type(c) ==
    /\ KeyDown
    /\ LET value == (IF bar.input = Undefined THEN "" ELSE bar.input) \o c
       IN  /\ Len(value) <= MaxText
           /\ bar' = [bar EXCEPT !.input = value, !.original = value, !.completion = 0]
    /\ untouched' = TRUE
    /\ UNCHANGED <<loading, requests, entered, answered, overlapped, late>>

\* Enter: the command is sent, and the bar made ready for the next one before it is
\* answered.  A text that does not parse throws before anything is done.
Enter ==
    /\ KeyDown
    /\ Len(entered) < MaxEntered
    /\ IF Parses(bar.input)
       THEN /\ bar' = [bar EXCEPT !.history = Append(@, bar.input),
                                  !.input = "", !.original = "", !.completion = 0,
                                  !.candidates = bar.available]
            /\ requests' = requests \cup
                   {[id |-> Len(entered), command |-> bar.input, results |-> bar.results]}
            /\ entered' = Append(entered, bar.input)
            /\ overlapped' = (overlapped \/ requests # {})
            /\ untouched' = FALSE
       ELSE UNCHANGED <<bar, requests, entered, overlapped, untouched>>
    /\ UNCHANGED <<loading, answered, late>>

\* Faulty variant: an answer takes the place of the results.
AnswerAlone(r) ==
    /\ requests' = requests \ {r}
    /\ bar' = [bar EXCEPT !.pos = Undefined, !.results = <<r.command>>]
    /\ answered' = Append(answered, r.command)
    /\ UNCHANGED <<loading, held, entered, overlapped, late, untouched>>

\* The answer, or the error: it is shown after the results there were when the
\* command was sent.
Answer(r) ==
    /\ requests' = requests \ {r}
    /\ bar' = [bar EXCEPT !.pos = Undefined, !.results = Append(r.results, r.command)]
    /\ answered' = Append(answered, r.command)
    /\ UNCHANGED <<loading, held, entered, overlapped, late, untouched>>

Browse(pos, text) ==
    /\ bar' = [bar EXCEPT !.input = text, !.original = text, !.pos = pos]
    /\ untouched' = FALSE
    /\ UNCHANGED <<loading, requests, entered, answered, overlapped, late>>

ArrowUp ==
    /\ KeyDown
    /\ LET pos == IF bar.pos = Undefined THEN Len(bar.history) - 1
                  ELSE IF bar.pos > 0 THEN bar.pos - 1 ELSE 0
       IN  Browse(pos, At(bar.history, pos))

\* A history that was replaced by a shorter one is left behind, and never met again:
\* the position is compared with its last one only.
ArrowDown ==
    /\ KeyDown
    /\ bar.pos # Undefined
    /\ bar.pos < Len(Earlier) + MaxEntered    \* bound: how far off the end
    /\ IF bar.pos = Len(bar.history) - 1 THEN Browse(Undefined, "")
       ELSE Browse(bar.pos + 1, At(bar.history, bar.pos + 1))

\* Tab: the next candidate, and around again; x % 0 is NaN, and stays it.
Tab ==
    /\ KeyDown
    /\ bar.completion \in {NaN} \cup 0..(MaxTabs - 1)
    /\ bar' = [bar EXCEPT
          !.input = At(bar.candidates, bar.completion),
          !.completion = IF @ = NaN \/ bar.candidates = <<>> THEN NaN
                         ELSE (@ + 1) % Len(bar.candidates)]
    /\ untouched' = (untouched /\ held = 0)
    /\ UNCHANGED <<loading, requests, entered, answered, overlapped, late>>

\* Faulty variant: the text that Tab put into the input is completed.
KeyUpOnInput ==
    /\ held > 0
    /\ held' = held - 1
    /\ bar' = IF ~Parses(bar.input) THEN bar
              ELSE [bar EXCEPT
                      !.candidates = Available(bar.commands, FirstWord(Parse(bar.input).val))]
    /\ UNCHANGED <<loading, requests, entered, answered, overlapped, late, untouched>>

\* onKeyUp, with parseCommand: nothing is changed by a text that does not parse.
KeyUp ==
    /\ held > 0
    /\ held' = held - 1
    /\ bar' =
          IF bar.input \in {"", Undefined} THEN [bar EXCEPT !.available = bar.commands]
          ELSE IF ~Parses(bar.input) \/ ~Parses(bar.original) THEN bar
          ELSE [bar EXCEPT
                  !.candidates = Available(bar.commands, FirstWord(Parse(bar.original).val)),
                  !.available = Available(bar.commands, FirstWord(Parse(bar.input).val))]
    /\ UNCHANGED <<loading, requests, entered, answered, overlapped, late, untouched>>

Next ==
    \/ CommandsLoaded
    \/ HistoryLoaded
    \/ \E c \in Keys : Type(c)
    \/ Enter
    \/ \E r \in requests : Answer(r)
    \/ ArrowUp
    \/ ArrowDown
    \/ Tab
    \/ KeyUp

Spec == Init /\ [][Next]_vars

-----------------------------------------------------------------------------
\* The results shown are those of the commands that were answered, in that order,
\* unless two commands overlapped: each answer replaces the results by those there
\* were when its command was sent, and one more.
ResultsKept == ~overlapped => bar.results = answered

\* The texts entered are in the history, after those of earlier sessions, unless
\* the server's history arrived only after the first of them and replaced it.
HistoryKept ==
    ~late => bar.history = (IF "history" \in loading THEN <<>> ELSE Earlier) \o entered

\* Once the keys are up, completion is about the text that was typed, however often
\* Tab replaced it: the candidates are the commands it begins, and the input is the
\* typed text or one of them.
CompletesWhatWasTyped ==
    untouched /\ held = 0 /\ Parses(bar.original) =>
        LET fitting == Available(bar.commands, FirstWord(Parse(bar.original).val))
        IN  /\ bar.candidates = fitting
            /\ bar.input \in {bar.original} \cup Range(fitting)
                   \cup (IF fitting = <<>> THEN {Undefined} ELSE {})
=============================================================================
