------------------------------- MODULE Command -------------------------------
(***************************************************************************)
(* The command line of the web client (web/src/js/filt/command.js): a text *)
(* is a list of words, the command and its arguments.  A word is quoted,   *)
(* or goes on to the next whitespace; the last one may be a quoted word    *)
(* that is still being typed.  No words at all are "" in the code and the  *)
(* empty sequence here: both have no first element and no length.          *)
(***************************************************************************)
EXTENDS Peg, TLC

Expr ==
    Alt(<<List(Cat(<<Ref("StringLiteral"), Plenty(Ref("ws")), Ref("Expr")>>), 1, 3),
          List(Cat(<<Ref("StringLiteral")>>), 1, 0),
          Blank(Many(Ref("ws")))>>)

\* Faulty variant: no word is still being typed.
FinishedLiteral ==
    Alt(<<Quoted("\"", "DoubleStringChar"), Quoted("'", "SingleStringChar"), UnquotedString>>)

\* The alternatives for what is still unfinished come last, so that "'" (which is
\* no control character) begins an unquoted word before it begins an unfinished one.
StringLiteral ==
    Alt(<<Quoted("\"", "DoubleStringChar"), Quoted("'", "SingleStringChar"), UnquotedString,
          Unfinished("\"", "DoubleStringChar"), Unfinished("'", "SingleStringChar")>>)

Rules == LexicalRules @@ [Expr |-> Expr, StringLiteral |-> StringLiteral]

\* Filt.parse: the words, or a SyntaxError.
Parse(text) == ParseText(Rules, "Expr", text)

-----------------------------------------------------------------------------
(* How a word can be written: as it is, or quoted with the quote and the   *)
(* backslash escaped.                                                      *)
RECURSIVE Escaped(_, _)
Escaped(word, quote) ==
    IF word = "" THEN ""
    ELSE LET c == Char(word, 1)
         IN  (IF c \in {quote, "\\"} THEN "\\" \o c ELSE c) \o Escaped(SubSeq(word, 2, Len(word)), quote)

InQuotes(word, quote) == quote \o Escaped(word, quote) \o quote

\* A word needs no quotes if it has no whitespace and begins with no control
\* character and no quote.
NeedsNoQuotes(word) ==
    /\ word # ""
    /\ Char(word, 1) \notin {"|", "&", "!", "(", ")", "~", "\"", "'"}
    /\ \A i \in 1..Len(word) : Char(word, i) \notin Whitespace

Written(word) ==
    {InQuotes(word, "\""), InQuotes(word, "'")} \cup (IF NeedsNoQuotes(word) THEN {word} ELSE {})

\* The text ends with a backslash that escapes nothing yet.
RECURSIVE EndsInEscape(_)
EndsInEscape(text) ==
    text # "" /\ Char(text, Len(text)) = "\\" /\ ~EndsInEscape(SubSeq(text, 1, Len(text) - 1))
=============================================================================
