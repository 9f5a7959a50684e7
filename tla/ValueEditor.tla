----------------------------- MODULE ValueEditor -----------------------------
(***************************************************************************)
(* A field of the selected flow that is edited in place: the method, a     *)
(* version, the status code, the reason (components/editors/ValueEditor.tsx *)
(* and ValidateEditor.tsx, as FlowView/HttpMessages.tsx uses them).  What  *)
(* the server makes of a typed text depends on the field (Stored).         *)
(*                                                                         *)
(* The field is a span that becomes editable when it is clicked or reached *)
(* by the keyboard, and reports its text when it is left.  React writes    *)
(* the text of the span only when the value it renders is another one; the *)
(* user writes it too.  A report is sent to the server by HTTP, in no      *)
(* order, and the server announces every change over the WebSocket.        *)
(***************************************************************************)
EXTENDS Integers, Sequences, FiniteSets, TLC

CONSTANTS
    FieldScenarios  \* the kind of field, its value in each flow, whether clicks select
                    \* all, the texts typed, those that are valid, the values others
                    \* give it, the bounds

VARIABLES
    field,      \* the scenario, with what is left of its bounds
    served,     \* the server's value of the field in each flow
    known,      \* the store's
    selected,   \* the flow whose field is shown
    span,       \* text, contentEditable and focus of the span; suppress_events; the
                \* frame requested; the mouse went down on it; the flow it was typed
                \* for, with those that took its place under the same value
    puts,       \* PUT /flows/... on their way
    updates,    \* flows/update on their way
    untaken     \* history: the texts sent for a flow that did not become its value as
                \* they were typed

fieldVars == <<field, served, known, selected, span, puts, updates, untaken>>

Content == known[selected]
IsValid(text) == text \in field.valid

Upper(text) == (("a" :> "A") @@ ("b" :> "B") @@ (text :> text))[text]

RECURSIVE ParseInt(_)
ParseInt(digits) ==
    IF Len(digits) > 1 /\ SubSeq(digits, 1, 1) = "0"
    THEN ParseInt(SubSeq(digits, 2, Len(digits))) ELSE digits

\* What the field of an http flow is after PUT /flows/...: a method reads in upper
\* case, a status code is a number, a reason is set under a name (msg) that nothing
\* reads, and a version is stored as it is.
Stored(old, text) ==
    CASE field.kind = "method"  -> Upper(text)
      [] field.kind = "code"    -> ParseInt(text)
      [] field.kind = "reason"  -> old
      [] field.kind = "version" -> text

\* onEditDone of ValueEditor and of ValidateEditor: an invalid text is reset.
Reported(s) ==
    IF IsValid(s.text)
    THEN [s EXCEPT !.sent = @ \cup {[flow |-> selected, text |-> s.text, typedFor |-> s.typedFor,
                                     copy |-> Cardinality(@), id |-> field.keys]}]
    ELSE [s EXCEPT !.text = Content, !.typedFor = {}]

\* finishEditing: the blur it causes is handled before it returns, and unless events
\* are suppressed that handler is finishEditing again.
FinishEditing(s) ==
    LET once  == Reported(s)
        twice == IF s.focused /\ ~s.suppress THEN Reported(once) ELSE once
    IN  [twice EXCEPT !.focused = FALSE, !.editable = FALSE]

ResetValue(s) == [s EXCEPT !.text = Content, !.typedFor = {}]

\* startEditing: not focused until the next frame.
StartEditing(s) ==
    IF s.editable THEN s
    ELSE [s EXCEPT !.suppress = TRUE, !.focused = FALSE, !.editable = TRUE, !.frame = TRUE]

\* The focus comes to the span; onFocus is about those it did not suppress.
Focused(s) ==
    LET focused == [s EXCEPT !.focused = TRUE]
    IN  IF s.focused \/ s.suppress THEN focused ELSE StartEditing(focused)

\* The handlers run on the span, and what they reported is under way.
Handled(s) ==
    /\ span' = [s EXCEPT !.sent = {}]
    /\ puts' = puts \cup s.sent
    /\ UNCHANGED <<served, known, selected, updates, untaken>>

Key == field.keys > 0 /\ field' = [field EXCEPT !.keys = @ - 1]

-----------------------------------------------------------------------------
Init ==
    /\ field \in FieldScenarios
    /\ served = field.values /\ known = field.values
    /\ selected = 1
    /\ span = [text |-> field.values[1], editable |-> FALSE, focused |-> FALSE,
               suppress |-> FALSE, frame |-> FALSE, pressed |-> FALSE,
               typedFor |-> {}, sent |-> {}]
    /\ puts = {} /\ updates = <<>> /\ untaken = {}

\* The browser focuses the span after onMouseDown.
OnMouseDown ==
    /\ Key
    /\ ~span.pressed
    /\ Handled([span EXCEPT !.suppress = TRUE, !.pressed = TRUE, !.focused = TRUE])

\* Anywhere on the page.  A field that is selected as a whole by a click is edited
\* only if the mouse did not select a part of it.
OnMouseUp ==
    /\ span.pressed
    /\ \E onElement, selection \in BOOLEAN :
        LET starts  == onElement /\ ~(field.selectAll /\ selection)
            started == IF starts THEN StartEditing(span) ELSE span
        IN  Handled([started EXCEPT !.suppress = FALSE, !.pressed = FALSE])
    /\ UNCHANGED field

\* The keyboard or the window brings the focus.
OnFocus ==
    /\ Key
    /\ ~span.focused
    /\ Handled(Focused(span))

\* requestAnimationFrame.  If editing is over by then and events are not suppressed,
\* the focus starts it again, with a frame of its own.
Frame ==
    /\ span.frame
    /\ Handled([Focused([span EXCEPT !.frame = FALSE]) EXCEPT !.suppress = FALSE])
    /\ UNCHANGED field

OnInput ==
    /\ Key
    /\ span.focused /\ span.editable
    /\ \E text \in field.texts : Handled([span EXCEPT !.text = text, !.typedFor = {selected}])

\* The focus goes elsewhere; also from a span that was only focused.
OnBlur ==
    /\ span.focused
    /\ LET blurred == [span EXCEPT !.focused = FALSE]
       IN  Handled(IF span.suppress THEN blurred ELSE FinishEditing(blurred))
    /\ UNCHANGED field

Enter ==
    /\ Key
    /\ span.focused
    /\ Handled(FinishEditing(span))

Escape ==
    /\ Key
    /\ span.focused
    /\ Handled(FinishEditing(ResetValue(span)))

\* Faulty variant: the text is spared while it is edited.
RewrittenAtRest(content) ==
    IF span.editable THEN span ELSE [span EXCEPT !.text = content, !.typedFor = {}]

\* render: React writes the text, only if the value is another one.
Rewritten(content) == [span EXCEPT !.text = content, !.typedFor = {}]

\* PUT /flows/...: done and announced; nobody looks at the answer.
ServerPut(p) ==
    LET stored == Stored(served[p.flow], p.text)
    IN  /\ puts' = puts \ {p}
        /\ served' = [served EXCEPT ![p.flow] = stored]
        /\ updates' = Append(updates, [flow |-> p.flow, text |-> stored])
        /\ untaken' = untaken \cup (IF stored = p.text THEN {} ELSE {<<p.flow, p.text>>})
        /\ UNCHANGED <<field, known, selected, span>>

\* The request is lost or refused: nobody learns of it.
PutFails(p) ==
    /\ field.failures > 0
    /\ field' = [field EXCEPT !.failures = @ - 1]
    /\ puts' = puts \ {p}
    /\ untaken' = untaken \cup {<<p.flow, p.text>>}
    /\ UNCHANGED <<served, known, selected, span, updates>>

\* Another client, or an addon, changes the field.
OtherClient ==
    /\ field.others > 0
    /\ field' = [field EXCEPT !.others = @ - 1]
    /\ \E flow \in DOMAIN served, text \in field.foreign :
          /\ served' = [served EXCEPT ![flow] = text]
          /\ updates' = Append(updates, [flow |-> flow, text |-> text])
    /\ UNCHANGED <<known, selected, span, puts, untaken>>

FlowUpdate ==
    /\ updates # <<>>
    /\ updates' = Tail(updates)
    /\ known' = [known EXCEPT ![Head(updates).flow] = Head(updates).text]
    /\ span' = IF known'[selected] = Content THEN span ELSE Rewritten(known'[selected])
    /\ UNCHANGED <<field, served, selected, puts, untaken>>

\* The selected flow is removed and the selection moves on: the same span shows
\* another flow.  (The user who selects another row leaves the field first.)
SelectionMoves ==
    /\ selected + 1 \in DOMAIN known
    /\ selected' = selected + 1
    /\ span' = IF known[selected + 1] # Content THEN Rewritten(known[selected + 1])
               ELSE [span EXCEPT !.typedFor = IF @ = {} THEN {} ELSE @ \cup {selected + 1}]
    /\ UNCHANGED <<field, served, known, puts, updates, untaken>>

Next ==
    \/ OnMouseDown \/ OnMouseUp \/ OnFocus \/ Frame \/ OnInput \/ OnBlur \/ Enter \/ Escape
    \/ \E p \in puts : ServerPut(p) \/ PutFails(p)
    \/ OtherClient \/ FlowUpdate \/ SelectionMoves

Spec == Init /\ [][Next]_fieldVars

-----------------------------------------------------------------------------
\* What is sent for a flow was typed into its field, or shown there: a text typed
\* for another flow is sent only if that flow went away under the edit while this
\* one had the same value, since React then had no reason to write the text anew.
EditsStayWithTheirFlow == \A p \in puts : p.typedFor = {} \/ p.flow \in p.typedFor

\* When everything has arrived and nobody edits, the span shows the flow's value,
\* whatever was typed, reset, refused, normalised or changed by others; and the dance
\* of frames and events never leaves the span deaf to the focus.  Two texts are left
\* standing, because the value that is rendered does not change: one kept for a flow
\* it was not typed for, and one that did not become the value as it was typed: the
\* PUT failed, or the server made the value it had already of it ("get" over "GET",
\* "0200" over "200", and every reason).
LeftStanding ==
    \/ Cardinality(span.typedFor) > 1
    \/ span.typedFor # {} /\ <<selected, span.text>> \in untaken

FieldShown ==
    puts = {} /\ updates = <<>> /\ ~span.frame /\ ~span.pressed =>
        /\ ~span.editable /\ ~LeftStanding => span.text = served[selected]
        /\ ~span.suppress
=============================================================================
