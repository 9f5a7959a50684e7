--------------------------------- MODULE Peg ---------------------------------
(***************************************************************************)
(* Parsing expression grammars, as the generated parsers of the web client *)
(* run them (filt/filt.js, filt/command.js: PEG.js 0.9.0).  A rule is a    *)
(* parsing expression; a grammar is a record of rules; Eval walks the text *)
(* as the generated functions do: an alternative is tried only when those  *)
(* before it failed, a repetition takes all it can, and what failed leaves *)
(* the position where it was.                                              *)
(*                                                                         *)
(* A text is a string.  The value of an expression is the string it took,  *)
(* the sequence of its parts, or a node of the syntax tree.                *)
(***************************************************************************)
EXTENDS Integers, Sequences

Char(text, p) == SubSeq(text, p, p)

Lit(s)      == [k |-> "lit", s |-> s]        \* "s"
Class(cs)   == [k |-> "class", cs |-> cs]    \* [cs]
AnyChar     == [k |-> "any"]                 \* .
Ref(rule)   == [k |-> "ref", rule |-> rule]
Cat(es)     == [k |-> "cat", es |-> es]      \* e1 e2 ...
Alt(es)     == [k |-> "alt", es |-> es]      \* e1 / e2 / ...
Many(e)     == [k |-> "many", e |-> e, least |-> 0]   \* e*
Plenty(e)   == [k |-> "many", e |-> e, least |-> 1]   \* e+
Maybe(e)    == [k |-> "maybe", e |-> e]      \* e?
Not(e)      == [k |-> "not", e |-> e]        \* !e
Text(e)     == [k |-> "text", e |-> e]       \* e { return chars.join(""); }
Pick(e, i)  == [k |-> "pick", e |-> e, i |-> i]       \* e { return its i-th part; }
Node(op, e, parts) == [k |-> "node", op |-> op, e |-> e, parts |-> parts]
Leaf(op, e, i)     == [k |-> "leaf", op |-> op, e |-> e, i |-> i]
List(e, first, rest) == [k |-> "list", e |-> e, first |-> first, rest |-> rest]
Yields(e, s) == [k |-> "yields", e |-> e, s |-> s]    \* e { return s; }
Blank(e)    == [k |-> "blank", e |-> e]      \* e { return ""; }
Chain(op, e, sep)  == [k |-> "chain", op |-> op, e |-> Cat(<<e, Many(Pick(Cat(<<sep, e>>), 2))>>)]

\* A node of the syntax tree: an operator, its operands and its text.
Tree(op, args, text) == [op |-> op, args |-> args, text |-> text]

Failed == [ok |-> FALSE]
Found(end, val) == [ok |-> TRUE, end |-> end, val |-> val]

RECURSIVE Join(_)
Join(parts) == IF parts = <<>> THEN "" ELSE Head(parts) \o Join(Tail(parts))

RECURSIVE Eval(_, _, _, _), EvalCat(_, _, _, _, _), EvalAlt(_, _, _, _),
          EvalMany(_, _, _, _, _)

\* s1, s2, ... of a generated function: all match in turn, or none counts.
EvalCat(g, text, es, p, vals) ==
    IF es = <<>> THEN Found(p, vals)
    ELSE LET r == Eval(g, text, Head(es), p)
         IN  IF r.ok THEN EvalCat(g, text, Tail(es), r.end, Append(vals, r.val)) ELSE Failed

\* if (s0 === peg$FAILED) { ... the next alternative ... }
EvalAlt(g, text, es, p) ==
    IF es = <<>> THEN Failed
    ELSE LET r == Eval(g, text, Head(es), p)
         IN  IF r.ok THEN r ELSE EvalAlt(g, text, Tail(es), p)

\* while (s1 !== peg$FAILED) { s0.push(s1); s1 = ...; }
EvalMany(g, text, e, p, vals) ==
    LET r == Eval(g, text, e, p)
    IN  IF r.ok THEN EvalMany(g, text, e, r.end, Append(vals, r.val)) ELSE Found(p, vals)

\* The value a semantic action makes of a match.
Made(r, make(_)) == IF r.ok THEN Found(r.end, make(r.val)) ELSE Failed

Eval(g, text, e, p) ==
    CASE e.k = "lit"   -> IF p + Len(e.s) - 1 <= Len(text) /\ SubSeq(text, p, p + Len(e.s) - 1) = e.s
                          THEN Found(p + Len(e.s), e.s) ELSE Failed
      [] e.k = "class" -> IF p <= Len(text) /\ Char(text, p) \in e.cs
                          THEN Found(p + 1, Char(text, p)) ELSE Failed
      [] e.k = "any"   -> IF p <= Len(text) THEN Found(p + 1, Char(text, p)) ELSE Failed
      [] e.k = "ref"   -> Eval(g, text, g[e.rule], p)
      [] e.k = "cat"   -> EvalCat(g, text, e.es, p, <<>>)
      [] e.k = "alt"   -> EvalAlt(g, text, e.es, p)
      [] e.k = "many"  -> LET r == EvalMany(g, text, e.e, p, <<>>)
                          IN  IF Len(r.val) >= e.least THEN r ELSE Failed
      [] e.k = "maybe" -> LET r == Eval(g, text, e.e, p) IN IF r.ok THEN r ELSE Found(p, "")
      [] e.k = "not"   -> IF Eval(g, text, e.e, p).ok THEN Failed ELSE Found(p, "")
      [] e.k = "text"  -> Made(Eval(g, text, e.e, p), Join)
      [] e.k = "pick"  -> Made(Eval(g, text, e.e, p), LAMBDA val : val[e.i])
      [] e.k = "node"  -> Made(Eval(g, text, e.e, p), LAMBDA val :
                              Tree(e.op, [i \in DOMAIN e.parts |-> val[e.parts[i]]], ""))
      [] e.k = "leaf"  -> Made(Eval(g, text, e.e, p), LAMBDA val :
                              Tree(e.op, <<>>, IF e.i = 0 THEN "" ELSE val[e.i]))
      [] e.k = "list"  -> Made(Eval(g, text, e.e, p), LAMBDA val :
                              <<val[e.first]>> \o (IF e.rest = 0 THEN <<>> ELSE val[e.rest]))
      [] e.k = "yields" -> Made(Eval(g, text, e.e, p), LAMBDA val : e.s)
      [] e.k = "blank" -> Made(Eval(g, text, e.e, p), LAMBDA val : <<>>)
      [] e.k = "chain" -> Made(Eval(g, text, e.e, p), LAMBDA val :
                              IF val[2] = <<>> THEN val[1] ELSE Tree(e.op, <<val[1]>> \o val[2], ""))

\* The parser: the rule it starts from has to take the whole text.
ParseText(g, start, text) ==
    LET r == Eval(g, text, Ref(start), 1)
    IN  IF r.ok /\ r.end = Len(text) + 1 THEN r ELSE Failed

-----------------------------------------------------------------------------
(* The rules both grammars of the web client have.                         *)
Whitespace == {" ", "\t", "\n", "\r"}

ws == Class(Whitespace)
cc == Class({"|", "&", "!", "(", ")", "~", "\""})
OptionalWhitespace == Many(Ref("ws"))

EscapeSequence ==
    Alt(<<Class({"'", "\"", "\\"}),
          Yields(Lit("n"), "\n"), Yields(Lit("r"), "\r"), Yields(Lit("t"), "\t")>>)

\* A quoted string: anything but the quote and the backslash, or an escape.
StringChar(quote) ==
    Alt(<<Pick(Cat(<<Not(Class({quote, "\\"})), AnyChar>>), 2),
          Pick(Cat(<<Lit("\\"), Ref("EscapeSequence")>>), 2)>>)
DoubleStringChar == StringChar("\"")
SingleStringChar == StringChar("'")

\* An unquoted string goes on to the next whitespace, whatever it contains.
UnquotedStringChar == Pick(Cat(<<Not(Ref("ws")), AnyChar>>), 2)
UnquotedString == Pick(Cat(<<Not(Ref("cc")), Text(Plenty(Ref("UnquotedStringChar")))>>), 2)

Quoted(quote, chars) == Pick(Cat(<<Lit(quote), Text(Many(Ref(chars))), Lit(quote)>>), 2)
Unfinished(quote, chars) == Pick(Cat(<<Lit(quote), Text(Many(Ref(chars)))>>), 2)

LexicalRules ==
    [ws |-> ws, cc |-> cc, space |-> OptionalWhitespace, EscapeSequence |-> EscapeSequence,
     DoubleStringChar |-> DoubleStringChar, SingleStringChar |-> SingleStringChar,
     UnquotedStringChar |-> UnquotedStringChar]
=============================================================================
