----------------------------- MODULE MCWebEditing -----------------------------
(***************************************************************************)
(* What the user edits on the server, one part of the page at a time: the  *)
(* modes of the proxy, two types that compete for a port; an option, of    *)
(* each type; a field of the selected flow; its headers; its content.  The *)
(* variable `part` says which; the others are at rest.                     *)
(***************************************************************************)
EXTENDS Integers, Sequences

CONSTANT NoEntry

VARIABLE part

-----------------------------------------------------------------------------
(* The modes.                                                              *)
VARIABLES modes, nextId, puttings, replies, modeOption, tasks, running, starting, states,
          removing, budget, otherMode
modeVars == <<modes, nextId, puttings, replies, modeOption, tasks, running, starting, states,
              removing, budget, otherMode>>

MCValues(ports) == [host |-> {"h"}, port |-> ports, data |-> {"x"}, protocol |-> {"http"}]
MCServers(specs, types, n) ==
    [option |-> specs, touched |-> types, edits |-> n, transparent |-> TRUE,
     typed |-> MCValues({"8"})]
MCPorts(ports, scenario) == [scenario EXCEPT !.typed = MCValues(ports)]
MCNoTransparent(scenario) == [scenario EXCEPT !.transparent = FALSE]
MCServersAtRest == MCServers(<<"regular">>, {}, 0)
MCModes ==
    {MCServersAtRest,
     MCServers(<<"regular">>, {"regular", "upstream"}, 2),
     MCServers(<<"regular@8", "reverse:http://x">>, {"reverse"}, 2),
     MCPorts({"", "08", "70000"}, MCServers(<<"regular">>, {"regular"}, 2)),
     MCPorts({"0", "08", "x"}, MCServers(<<"reverse:http://x">>, {"reverse"}, 1)),
     MCServers(<<"reverse:x">>, {"reverse"}, 1),
     MCServers(<<"local:aa, b">>, {"local"}, 2),
     MCServers(<<"regular">>, {"wireguard", "socks5"}, 1),
     MCServers(<<"dns", "wireguard:x@8">>, {"dns", "transparent"}, 1),
     MCNoTransparent(MCServers(<<"regular">>, {"transparent"}, 2))}

M == INSTANCE WebModes WITH
        puts <- puttings, answers <- replies, option <- modeOption, events <- states,
        foreign <- otherMode,
        Scenarios <- MCModes, Others <- {<<"regular">>}, Processes <- {"a", "b"}, MaxReverse <- 3

-----------------------------------------------------------------------------
(* An option.                                                              *)
VARIABLES option, value, stored, editor, open, text, requests, answers, events, latest,
          crossed, foreign
optionVars == <<option, value, stored, editor, open, text, requests, answers, events, latest,
                crossed, foreign>>

MCOption(type, v, inputs, rejected, others, edits, faults) ==
    [type |-> type, value |-> v, inputs |-> inputs, rejected |-> rejected,
     others |-> others, edits |-> edits, faults |-> faults]
MCOptionAtRest == MCOption("str", "x", {}, {}, {}, 0, 0)
MCOptions ==
    {MCOptionAtRest,
     MCOption("bool", "true", {"true", "false"}, {"false"}, {}, 3, 1),
     MCOption("bool", "true", {"true", "false"}, {}, {"false"}, 3, 0),
     MCOption("str", "x", {"", "y"}, {"y"}, {"z"}, 2, 1),
     MCOption("optional str", "x", {"", "x"}, {}, {"y"}, 2, 1),
     MCOption("int", "1", {"", "0", "1"}, {}, {"2"}, 2, 1),
     MCOption("optional int", "1", {"", "0", "2"}, {}, {}, 2, 1),
     MCOption("sequence of str", <<"x">>, {<<"">>, <<"x", "">>, <<"x", " y ">>}, {<<"x", "y">>},
              {}, 2, 1),
     MCOption("sequence of str", <<"x">>, {<<"">>, <<"x", "">>, <<"x", " y ">>}, {},
              {<<"z">>}, 2, 0)}

O == INSTANCE WebOptions WITH Scenarios <- MCOptions

-----------------------------------------------------------------------------
(* A field.                                                                *)
VARIABLES field, served, known, selected, span, puts, updates, untaken
fieldVars == <<field, served, known, selected, span, puts, updates, untaken>>

MCField(type, values, selectAll, texts, valid, foreign0, keys, others, failures) ==
    [kind |-> type, values |-> values, selectAll |-> selectAll, texts |-> texts,
     valid |-> valid, foreign |-> foreign0, keys |-> keys, others |-> others,
     failures |-> failures]
MCFieldAtRest == MCField("version", <<"a">>, TRUE, {}, {"a"}, {}, 0, 0, 0)
MCFields ==
    {MCFieldAtRest,
     MCField("version", <<"a", "a">>, TRUE, {"b", "!"}, {"a", "b"}, {}, 5, 0, 0),
     MCField("version", <<"a", "b">>, FALSE, {"b", "!"}, {"a", "b", "!"}, {"a", "b"}, 3, 1, 0),
     MCField("version", <<"a">>, TRUE, {"b", "!"}, {"a", "b"}, {"a", "b"}, 4, 1, 1),
     MCField("method", <<"A">>, TRUE, {"", "a", "b"}, {"A", "B", "a", "b"}, {"B"}, 4, 1, 0),
     MCField("code", <<"1", "2">>, TRUE, {"01", "02", "!"}, {"1", "2", "01", "02"}, {}, 4, 0, 1),
     MCField("reason", <<"a">>, TRUE, {"", "b"}, {"", "a", "b"}, {"b"}, 4, 1, 0)}

V == INSTANCE ValueEditor WITH FieldScenarios <- MCFields

-----------------------------------------------------------------------------
(* The headers.                                                            *)
VARIABLES table, headers, currentList, cells, cell, currentlyEditing, justFinishedEditing,
          lists, announced, mark
tableVars == <<table, headers, currentList, cells, cell, currentlyEditing,
               justFinishedEditing, lists, announced, mark>>

MCTable(list, texts, lists2, keys, others, failures) ==
    [headers |-> list, texts |-> texts, foreign |-> lists2, keys |-> keys,
     others |-> others, failures |-> failures]
MCTableAtRest == MCTable(<<>>, {}, {}, 0, 0, 0)
MCTables ==
    {MCTableAtRest,
     MCTable(<<<<"a", "1">>, <<"a", "2">>>>, {"", "b"}, {}, 5, 0, 0),
     MCTable(<<<<"a", "1">>, <<"b", "1">>>>, {"", "a"},
             {<<<<"a", "1">>>>, <<<<"b", "1">>, <<"a", "1">>>>}, 4, 1, 1)}

H == INSTANCE HeaderEditor WITH TableScenarios <- MCTables

-----------------------------------------------------------------------------
(* The content.                                                            *)
VARIABLES message, body, hash, hashes, chosen, split, pane, fetch, saves, origin
contentVars == <<message, body, hash, hashes, chosen, split, pane, fetch, saves, origin>>

MCText(kind, lines, kids) == [kind |-> kind, lines |-> lines, kids |-> kids]
MCLine  == MCText("string", <<"a">>, <<>>)
MCTwo   == MCText("string", <<"a", "b">>, <<>>)
MCPlain == MCText("text", <<"x">>, <<>>)
MCBlank == MCText("text", <<>>, <<>>)
MCObject(kids) == MCText("object", <<>>, kids)
MCArray(kids)  == MCText("array", <<>>, kids)

MCContent(text0, isSplit, typed, others0, cutoff, acts, others, failures) ==
    [body |-> text0, split |-> isSplit, typed |-> typed, foreign |-> others0,
     cutoff |-> cutoff, acts |-> acts, others |-> others, failures |-> failures]
MCContentAtRest == MCContent(MCPlain, FALSE, {}, {}, 0, 0, 0, 0)
MCContents ==
    {MCContentAtRest,
     MCContent(MCObject(<<MCTwo, MCArray(<<MCTwo, MCLine>>)>>), FALSE, {}, {MCPlain},
               20, 4, 1, 0),
     MCContent(MCObject(<<MCArray(<<MCLine, MCLine>>)>>), FALSE, {MCBlank}, {MCArray(<<MCTwo>>)},
               4, 3, 0, 1),
     MCContent(MCArray(<<MCTwo>>), TRUE, {MCBlank, MCPlain}, {MCPlain}, 3, 3, 0, 0),
     MCContent(MCPlain, TRUE, {MCLine}, {MCArray(<<MCTwo>>)}, 3, 3, 1, 0)}

E == INSTANCE ContentEditor WITH ContentScenarios <- MCContents

-----------------------------------------------------------------------------
allVars == <<part, modeVars, optionVars, fieldVars, tableVars, contentVars>>

Init ==
    /\ part \in {"modes", "option", "field", "headers", "content"}
    /\ M!Init /\ (budget.touched # {} <=> part = "modes")
    /\ O!Init /\ (option.edits > 0 <=> part = "option")
    /\ V!Init /\ (field.keys > 0 <=> part = "field")
    /\ H!Init /\ (table.keys > 0 <=> part = "headers")
    /\ E!Init /\ (message.acts > 0 <=> part = "content")

Next ==
    /\ UNCHANGED part
    /\ \/ part = "modes"   /\ M!Next /\ UNCHANGED <<optionVars, fieldVars, tableVars, contentVars>>
       \/ part = "option"  /\ O!Next /\ UNCHANGED <<modeVars, fieldVars, tableVars, contentVars>>
       \/ part = "field"   /\ V!Next /\ UNCHANGED <<modeVars, optionVars, tableVars, contentVars>>
       \/ part = "headers" /\ H!Next /\ UNCHANGED <<modeVars, optionVars, fieldVars, contentVars>>
       \/ part = "content" /\ E!Next /\ UNCHANGED <<modeVars, optionVars, fieldVars, tableVars>>

Spec == Init /\ [][Next]_allVars

-----------------------------------------------------------------------------
\* What the page writes for a mode is read back as that mode (modes/*.ts).
SpecsRoundTrip == part = "modes" => M!SpecsRoundTrip

\* When all is answered, the servers shown as active are those that run, with the
\* reason when one does not (ducks/modes).
ShownAreRunning == part = "modes" => M!ShownAreRunning

\* The value the options editor shows is the server's, and a value the server
\* rejected is marked (ducks/ui/optionsEditor.ts).
OptionsShown == part = "option" => O!ShownIsServed /\ O!RejectionIsSeen

\* An edit of a field goes to the flow it was typed for, and a field that is not
\* being edited shows the flow's value, or what was typed when that changed nothing
\* (ValueEditor.tsx).
FieldsKept == part = "field" => V!EditsStayWithTheirFlow /\ V!FieldShown

\* The table of headers shows those the server has, none disappears that was not
\* cleared, and Add opens a new one (KeyValueListEditor.tsx).
HeadersKept ==
    part = "headers" => H!HeadersShown /\ H!RemovedByTyping /\ H!AddAnswers

\* The content shown is the current one of the flow (useContent.tsx).
ContentShown == part = "content" => E!ContentShown

\* What Done saves is what the editor displays (HttpMessage.tsx).
SavedAsShown == part = "content" => E!SavedAsShown

\* Splitting and joining the lines of JSON strings are inverse (HttpMessage.tsx).
TogglingRestores == part = "content" => E!TogglingRestores
=============================================================================
