-------------------------------- MODULE Filter --------------------------------
(***************************************************************************)
(* The filter language of the web client (web/src/js/filt/filt.js), rule   *)
(* by rule as the generated parser tries them, beside the grammar the      *)
(* server builds for the same texts (mitmproxy/flowfilter.py, on           *)
(* pyparsing).  The client checks what the user types with the first; the  *)
(* server compiles what it is sent with the second.                        *)
(*                                                                         *)
(* An operand is a leaf of the syntax tree: the code of the filter and its *)
(* argument.  Juxtaposition ("then") is kept apart from "&" until the      *)
(* trees are compared.                                                     *)
(***************************************************************************)
EXTENDS Peg, FiniteSets, TLC

-----------------------------------------------------------------------------
(* What an alternative of the client's Expr may look like.                 *)

\* "~e": nothing has to follow.
Flag(code) == Leaf(code, Lit(code), 0)
\* "~b" ws+ s:StringLiteral
Pattern(code) ==
    Leaf(code, Cat(<<Lit(code), Plenty(Ref("ws")), Ref("StringLiteral")>>), 3)
\* "~c" ws+ s:IntegerLiteral
Number(code) ==
    Leaf(code, Cat(<<Lit(code), Plenty(Ref("ws")), Ref("IntegerLiteral")>>), 3)

\* The alternatives of Expr, in the order in which they are tried: a name that
\* begins another one comes after it, or needs whitespace where that one goes on.
\* Faulty variant: the shorter name is tried first.
ShortNamesFirst == <<Flag("~a"), Flag("~all"), Pattern("~b"), Pattern("~bq"), Pattern("~bs")>>

AllToBodies == <<Flag("~all"), Flag("~a"), Pattern("~b"), Pattern("~bq"), Pattern("~bs")>>
CodeToDestination ==
    <<Number("~c"), Pattern("~comment"), Pattern("~d"), Flag("~dns"), Pattern("~dst")>>
ErrorToHttp == <<Flag("~e"), Pattern("~h"), Pattern("~hq"), Pattern("~hs"), Flag("~http")>>
MarkedToReplays ==
    <<Flag("~marked"), Pattern("~marker"), Pattern("~m"), Flag("~q"),
      Flag("~replayq"), Flag("~replays"), Flag("~replay")>>
SourceToUdp == <<Pattern("~src"), Flag("~s"), Flag("~tcp"), Flag("~udp")>>
ContentTypes == <<Pattern("~tq"), Pattern("~ts"), Pattern("~t")>>
UrlToNaked == <<Pattern("~u"), Flag("~websocket"), Leaf("~u", Cat(<<Ref("StringLiteral")>>), 1)>>

Expr == Alt(AllToBodies \o CodeToDestination \o ErrorToHttp \o MarkedToReplays
            \o SourceToUdp \o ContentTypes \o UrlToNaked)

-----------------------------------------------------------------------------
(* The rules above Expr.                                                   *)
start == Pick(Cat(<<Ref("space"), Ref("OrExpr"), Ref("space")>>), 2)

Infix(op, left, sign, right) ==
    Node(op, Cat(<<Ref(left), Ref("space"), Lit(sign), Ref("space"), Ref(right)>>), <<1, 5>>)

OrExpr == Alt(<<Infix("or", "AndExpr", "|", "OrExpr"), Ref("AndExpr")>>)

AndExpr ==
    Alt(<<Infix("and", "NotExpr", "&", "AndExpr"),
          Node("then", Cat(<<Ref("NotExpr"), Plenty(Ref("ws")), Ref("AndExpr")>>), <<1, 3>>),
          Ref("NotExpr")>>)

NotExpr ==
    Alt(<<Node("not", Cat(<<Lit("!"), Ref("space"), Ref("NotExpr")>>), <<3>>),
          Ref("BindingExpr")>>)

BindingExpr ==
    Alt(<<Node("binding", Cat(<<Lit("("), Ref("space"), Ref("OrExpr"), Ref("space"), Lit(")")>>),
               <<3>>),
          Ref("Expr")>>)

Digits == {"0", "1", "2", "3", "4", "5", "6", "7", "8", "9"}
AnyQuote == Maybe(Class({"'", "\""}))
IntegerLiteral == Pick(Cat(<<AnyQuote, Text(Plenty(Class(Digits))), AnyQuote>>), 2)

StringLiteral ==
    Alt(<<Quoted("\"", "DoubleStringChar"), Quoted("'", "SingleStringChar"), UnquotedString>>)

Rules ==
    LexicalRules @@
    [start |-> start, OrExpr |-> OrExpr, AndExpr |-> AndExpr, NotExpr |-> NotExpr,
     BindingExpr |-> BindingExpr, Expr |-> Expr,
     IntegerLiteral |-> IntegerLiteral, StringLiteral |-> StringLiteral]

-----------------------------------------------------------------------------
(* Regular expressions.  JavaScript (new RegExp) and Python (re.compile)   *)
(* do not take the same ones: (?i)x is Python's alone, (?<n>x) is          *)
(* JavaScript's, \m is JavaScript's again.  Of what can be wrong with a    *)
(* pattern the model has the groups and the backslashes: both refuse a     *)
(* group that is not closed or closed twice and a backslash at the end,    *)
(* and Python refuses an escaped letter or digit that means nothing to it  *)
(* (back references, \x41 and the like are left out, as are [...],         *)
(* quantifiers and what follows "(?").                                     *)
Meaningless ==
    {"c", "e", "g", "h", "i", "j", "k", "l", "m", "o", "p", "q", "u", "x", "y", "z",
     "1", "2", "3", "4", "5", "6", "7", "8", "9"}

\* The character at p, or the end of the text, follows a backslash that escapes it.
IsEscaped(text) ==
    LET escaped[p \in 1..Len(text) + 1] ==
            p > 1 /\ Char(text, p - 1) = "\\" /\ ~escaped[p - 1]
    IN  escaped

\* new RegExp(regex, "i"), which otherwise throws as a syntax error does.
ClientCompiles(text) ==
    LET escaped == IsEscaped(text)
        Count(c, p) == Cardinality({q \in 1..p : Char(text, q) = c /\ ~escaped[q]})
    IN  /\ \A p \in 1..Len(text) : Count("(", p) >= Count(")", p)
        /\ Count("(", Len(text)) = Count(")", Len(text))
        /\ ~escaped[Len(text) + 1]

\* re.compile(expr), which otherwise raises a ValueError.
ServerCompiles(text) ==
    /\ ClientCompiles(text)
    /\ \A p \in 1..Len(text) : IsEscaped(text)[p] => Char(text, p) \notin Meaningless

RECURSIVE Leaves(_)
Leaves(t) == IF t.args = <<>> THEN {t} ELSE UNION {Leaves(t.args[i]) : i \in DOMAIN t.args}

Compiled(r, Compiles(_)) ==
    IF r.ok /\ \A leaf \in Leaves(r.val) : Compiles(leaf.text) THEN r ELSE Failed

\* Filt.parse: the tree, or a SyntaxError.
Parse(text) ==
    Compiled(ParseText(Rules, "start", text), ClientCompiles)

-----------------------------------------------------------------------------
(* The server's grammar.  pyparsing skips whitespace before a token; a name *)
(* ends where a printable character does not follow (WordEnd); a word may   *)
(* hold "&", "|" and "!" but no parenthesis, quote or "~"; juxtaposition is *)
(* the loosest operator, and none is read inside parentheses.               *)
UnaryCodes == <<"~a", "~e", "~http", "~marked", "~replay", "~replayq", "~replays", "~q",
                "~s", "~tcp", "~udp", "~dns", "~websocket", "~all">>
RegexCodes == <<"~b", "~bq", "~bs", "~t", "~tq", "~ts", "~d", "~dst", "~h", "~hq", "~hs",
                "~m", "~src", "~u", "~meta", "~marker", "~comment">>

Skip(e) == Pick(Cat(<<Ref("space"), e>>), 2)
WordEnd == Not(Cat(<<Not(Ref("ws")), AnyChar>>))
SpecialChars == {"(", ")", "~", "'", "\""}
Word == Text(Plenty(Pick(Cat(<<Not(Class(SpecialChars \cup Whitespace)), AnyChar>>), 2)))

\* QuotedString(quote, escChar): on one line, with a backslash before any character.
\* A line break or a tab is written as a letter, the character itself otherwise.
InQuotes(quote) ==
    Alt(<<Pick(Cat(<<Not(Class({quote, "\\", "\n", "\r"})), AnyChar>>), 2),
          Yields(Lit("\\n"), "\n"), Yields(Lit("\\r"), "\r"),
          Yields(Lit("\\t"), "\t"), Yields(Lit("\\f"), "\f"),
          Pick(Cat(<<Lit("\\"), Not(Lit("\n")), AnyChar>>), 3)>>)
QuotedRules == [InDoubleQuotes |-> InQuotes("\""), InSingleQuotes |-> InQuotes("'")]
AnyQuoted == Alt(<<Quoted("\"", "InDoubleQuotes"), Quoted("'", "InSingleQuotes")>>)
Argument == Skip(Alt(<<Word, AnyQuoted>>))

ServerUnary(code) == Leaf(code, Skip(Cat(<<Lit(code), WordEnd>>)), 0)
ServerRegex(code) == Leaf(code, Cat(<<Skip(Cat(<<Lit(code), WordEnd>>)), Argument>>), 2)
ServerNumber ==
    Leaf("~c", Cat(<<Skip(Cat(<<Lit("~c"), WordEnd>>)), Skip(Text(Plenty(Class(Digits))))>>), 2)

ServerAtom ==
    Alt([i \in DOMAIN UnaryCodes |-> ServerUnary(UnaryCodes[i])]
        \o [i \in DOMAIN RegexCodes |-> ServerRegex(RegexCodes[i])]
        \o <<ServerNumber, Leaf("~u", Cat(<<Argument>>), 1)>>)

ServerRules ==
    LexicalRules @@ QuotedRules @@
    [base  |-> Alt(<<ServerAtom,
                     Pick(Cat(<<Skip(Lit("(")), Ref("or"), Skip(Lit(")"))>>), 2)>>),
     not   |-> Alt(<<Node("not", Cat(<<Skip(Lit("!")), Ref("not")>>), <<2>>), Ref("base")>>),
     and   |-> Chain("and", Ref("not"), Skip(Lit("&"))),
     or    |-> Chain("or", Ref("and"), Skip(Lit("|"))),
     start |-> Pick(Cat(<<Chain("then", Ref("or"), Ref("space")), Ref("space")>>), 1)]

\* flowfilter.parse: an empty or an unreadable filter is a ValueError.
ServerParse(text) == Compiled(ParseText(ServerRules, "start", text), ServerCompiles)

-----------------------------------------------------------------------------
(* The language both are meant to read, as the documentation describes it  *)
(* and the filter help lists it: a name is a word of its own, an unquoted  *)
(* argument has none of the special characters, a quoted one is what the   *)
(* server takes for one, and operands that merely follow each other are    *)
(* joined by "&", outside of parentheses and away from "|".                *)
PlainSign(sign) == Cat(<<Ref("space"), Lit(sign), Ref("space")>>)
PlainArgument == Alt(<<AnyQuoted, Pick(Cat(<<Not(Ref("cc")), Word, WordEnd>>), 2)>>)
PlainPattern(code) == Leaf(code, Cat(<<Lit(code), Plenty(Ref("ws")), PlainArgument>>), 3)
PlainOperand ==
    Alt([i \in DOMAIN UnaryCodes |-> Leaf(UnaryCodes[i], Cat(<<Lit(UnaryCodes[i]), WordEnd>>), 0)]
        \o [i \in DOMAIN RegexCodes |-> PlainPattern(RegexCodes[i])]
        \o <<Leaf("~c", Cat(<<Lit("~c"), Plenty(Ref("ws")), Text(Plenty(Class(Digits))), WordEnd>>), 3),
             Leaf("~u", Cat(<<PlainArgument>>), 1)>>)
PlainWhole(rule) == Pick(Cat(<<Ref("space"), Ref(rule), Ref("space"), Not(AnyChar)>>), 2)

PlainRules ==
    LexicalRules @@ QuotedRules @@
    [not   |-> Alt(<<Node("not", Cat(<<Lit("!"), Ref("space"), Ref("not")>>), <<3>>),
                     Pick(Cat(<<Lit("("), Ref("space"), Ref("or"), Ref("space"), Lit(")")>>), 3),
                     PlainOperand>>),
     and   |-> Chain("and", Ref("not"), PlainSign("&")),
     or    |-> Chain("or", Ref("and"), PlainSign("|")),
     list  |-> Chain("and", Ref("and"), Plenty(Ref("ws"))),
     start |-> Alt(<<PlainWhole("list"), PlainWhole("or")>>)]

PlainParse(text) == Compiled(ParseText(PlainRules, "start", text), ServerCompiles)

\* The same, with the client's escapes in quotes.
ClientQuotesRules ==
    [InDoubleQuotes |-> DoubleStringChar, InSingleQuotes |-> SingleStringChar] @@ PlainRules

\* What the client lacks of that language: the filter ~meta, and a backslash before
\* a character other than the quotes, the backslash, n, r and t.
UnknownToClient(text) ==
    \/ ~ParseText(ClientQuotesRules, "start", text).ok
    \/ \E leaf \in Leaves(PlainParse(text).val) : leaf.op = "~meta"

\* What a tree means: parentheses do nothing more, "then" is "&", and a chain of
\* one operator has no inner structure.
RECURSIVE Flat(_), Flattened(_, _)
Flattened(op, args) ==
    IF args = <<>> THEN <<>>
    ELSE LET t == Flat(Head(args))
         IN  (IF t.op = op THEN t.args ELSE <<t>>) \o Flattened(op, Tail(args))
Flat(t) ==
    CASE t.op = "binding"       -> Flat(t.args[1])
      [] t.op \in {"and", "then"} -> Tree("and", Flattened("and", t.args), "")
      [] t.op = "or"            -> Tree("or", Flattened("or", t.args), "")
      [] t.op = "not"           -> Tree("not", <<Flat(t.args[1])>>, "")
      [] OTHER                  -> t

\* A text of the documented language, all of which the client knows.
PlainToBoth(text) == PlainParse(text).ok /\ ~UnknownToClient(text)

\* The readings of a text of the documented language are one.
ReadAlike(text) ==
    LET plain == PlainParse(text)
        Agrees(read) == read.ok /\ Flat(read.val) = Flat(plain.val)
    IN  plain.ok => /\ Agrees(ServerParse(text))
                    /\ Agrees(Parse(text)) \/ UnknownToClient(text)
=============================================================================
