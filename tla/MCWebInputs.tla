----------------------------- MODULE MCWebInputs -----------------------------
(***************************************************************************)
(* The texts the user types, one use at a time: filters of up to n keys,   *)
(* to be read; a filter input, in which a few keys are typed; the command  *)
(* bar with one key and two commands; and command lines of two words of up *)
(* to two characters, each written in every way there is, and typed        *)
(* character by character.  The variable `use` says which; the others are  *)
(* at rest.                                                                *)
(***************************************************************************)
EXTENDS Integers, Sequences, FiniteSets

CONSTANTS Undefined, NaN,
          Uses  \* among "read", "type", "bar" and "line"

VARIABLES use, line  \* a command line: its words, how they are written, what is typed of it

VARIABLES kind, keys, edits, value, prop, sent, updates, events, inForce, connected, picked
filterVars == <<kind, keys, edits, value, prop, sent, updates, events, inForce, connected, picked>>

VARIABLES bar, loading, requests, held, entered, answered, overlapped, late, untouched
barVars == <<bar, loading, requests, held, entered, answered, overlapped, late, untouched>>

RECURSIVE MCTexts(_, _)
MCTexts(chunks, n) ==
    IF n = 0 THEN {""}
    ELSE LET shorter == MCTexts(chunks, n - 1)
         IN  shorter \cup {text \o chunk : text \in shorter, chunk \in chunks}

MCAtRest == [kind |-> "search", keys |-> {}, edits |-> 0, texts |-> {""}]
MCScenarios ==
    {MCAtRest,
     [kind |-> "intercept", keys |-> {}, edits |-> 0,
      texts |-> MCTexts({"x ", "!", "& x ", "| x ", "( ", ") "}, 4)],
     [kind |-> "intercept", keys |-> {}, edits |-> 0,
      texts |-> MCTexts({"~a", "ll", "~b", " ", "x", "\""}, 4)
                \cup MCTexts({"~a", "ll", "~b", " ", "x", "\"", "~c", "2"}, 3)
                \cup MCTexts({"~m", "eta", " ", "\"", "'", "\\", "."}, 4)],
     [kind |-> "search", keys |-> {"~e", "(", ")", " "}, edits |-> 4, texts |-> {""}],
     [kind |-> "intercept", keys |-> {"~e", "(", ")", " "}, edits |-> 3, texts |-> {"", "~q"}]}

F == INSTANCE FilterInput WITH Scenarios <- MCScenarios, MaxUpdates <- 2

C == INSTANCE CommandBar WITH
        Keys <- {"a"}, AllCommands <- <<"a", "ab">>, Earlier <- <<"ab">>,
        MaxText <- 1, MaxEntered <- 2, MaxTabs <- 3

Characters == {"a", " ", "\"", "'", "\\"}
Words == {""} \cup Characters \cup {c \o d : c \in Characters, d \in Characters}

NoLine == [words |-> <<>>, text |-> "", typed |-> 0]
Lines == UNION {{[words |-> <<w, v>>, text |-> s \o " " \o t, typed |-> 0] :
                    s \in C!Written(w), t \in C!Written(v)} : w \in Words, v \in Words}

Init ==
    /\ use \in Uses
    /\ F!Init
    /\ C!Init
    /\ keys # {} <=> use = "type"
    /\ kind = "search" /\ keys = {} <=> use \in {"bar", "line"}
    /\ line \in IF use = "line" THEN Lines ELSE {NoLine}

TypeLine ==
    /\ line.typed < Len(line.text)
    /\ line' = [line EXCEPT !.typed = @ + 1]

Next ==
    \/ use = "type" /\ F!Next /\ UNCHANGED <<use, line, barVars>>
    \/ use = "bar" /\ C!Next /\ UNCHANGED <<use, line, filterVars>>
    \/ use = "line" /\ TypeLine /\ UNCHANGED <<use, filterVars, barVars>>

Spec == Init /\ [][Next]_<<use, line, filterVars, barVars>>

-----------------------------------------------------------------------------
\* A text of the documented filter language is read alike by the client's parser,
\* which decides whether it is sent, and by the server's (filt.js, flowfilter.py),
\* unless it holds ~meta or an escape the client does not know.
ReadAlikeByBoth == use \in {"read", "type"} => F!ReadAlikeByBoth

\* When all messages have arrived, the filter in the input is the one in force,
\* whatever overtook what while the user typed on (FilterInput.tsx).
ShownIsInForce == F!ShownIsInForce

\* No result and no entered text is lost from what the command bar shows, unless
\* commands overlapped or the server's history came late (CommandBar.tsx).
NothingEnteredIsLost == C!ResultsKept /\ C!HistoryKept

\* Completion is about the text that was typed, however often Tab replaced it
\* (CommandBar.tsx, onKeyDown and onKeyUp).
CompletesWhatWasTyped == C!CompletesWhatWasTyped

\* A command line is read as the words it was written for, however they are quoted;
\* and while it is typed the bar can parse it, so that completion works and Enter
\* does not throw, except right after a backslash.
LinesReadBack ==
    use = "line" =>
        LET text == SubSeq(line.text, 1, line.typed)
            read == C!Parse(text)
        IN  /\ read.ok \/ C!EndsInEscape(text)
            /\ line.typed = Len(line.text) => read.ok /\ read.val = line.words
=============================================================================
