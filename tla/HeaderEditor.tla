---------------------------- MODULE HeaderEditor ----------------------------
(***************************************************************************)
(* The list of headers of the selected message, edited in place            *)
(* (components/editors/KeyValueListEditor.tsx, as FlowView/HttpMessages.tsx*)
(* uses it).  Trailers are edited by the same component; the page is sent  *)
(* those of a response only, and has an empty list for a request's.        *)
(*                                                                         *)
(* The editor works on a copy of the list, which is thrown away when the   *)
(* server announces the flow again, and tells the server the whole list    *)
(* whenever an edit changes it.  Rows are identified by their index, and   *)
(* React writes the text of a cell only when the value it renders there is *)
(* another one: what the user typed stays otherwise.                       *)
(*                                                                         *)
(* A click, from the mouse button's press to its release, is one step;     *)
(* the user waits for the frame in which a cell becomes editable.          *)
(***************************************************************************)
EXTENDS Integers, Sequences, FiniteSets, SequencesExt

CONSTANT TableScenarios  \* the headers, the texts typed, the lists others set, the bounds

VARIABLES
    table,                \* the scenario, with what is left of its bounds
    headers,              \* the server's list
    currentList,          \* the editor's copy
    cells,                \* the texts on the screen
    cell,                 \* the cell edited, or about to be; what was typed there
    currentlyEditing,     \* the row edited, or 0
    justFinishedEditing,  \* ... when the mouse last went down, or 0
    lists,                \* PUT /flows/... on their way
    announced,            \* flows/update on their way
    mark                  \* a history of what went wrong in a way known

tableVars == <<table, headers, currentList, cells, cell, currentlyEditing,
               justFinishedEditing, lists, announced, mark>>

Empty  == <<"", "">>
NoCell == [row |-> 0, col |-> 0, phase |-> "none", typed |-> FALSE]
Starting(row, col) == [row |-> row, col |-> col, phase |-> "frame", typed |-> FALSE]
Start(list, row, col) == IF row \in DOMAIN list THEN Starting(row, col) ELSE NoCell

\* render: rows in the screen's order, the text written where the value is another one.
Rendered(old, texts, new) ==
    [i \in DOMAIN new |->
        [c \in 1..2 |-> IF i \in DOMAIN old /\ old[i][c] = new[i][c]
                        THEN texts[i][c] ELSE new[i][c]]]

\* onEditDone: a row without a name is removed.
Edited(list, row, item) ==
    IF item[1] # "" THEN [list EXCEPT ![row] = item] ELSE RemoveAt(list, row)

\* The row below the edited one, which takes its place, has the same text there.
Twin(list, row, col) == row + 1 \in DOMAIN list /\ list[row + 1][col] = list[row][col]

\* What finishEditing does: the list `list` and the texts `texts` after it, given the
\* text reported; `times` is 2 when it is called again by the blur it causes.
Done(list, texts, text, times) ==
    LET item == [list[cell.row] EXCEPT ![cell.col] = text]
        new  == Edited(list, cell.row, item)
    IN  [list  |-> new,
         cells |-> Rendered(list, [texts EXCEPT ![cell.row][cell.col] = text], new),
         puts  |-> IF new = list THEN {}
                   ELSE {[list |-> new, key |-> table.keys, copy |-> n,
                          drops |-> item[1] = "" /\ list[cell.row][1] # "",
                          typed |-> cell.typed] : n \in 1..times},
         mark  |-> IF item[1] = "" /\ Twin(list, cell.row, cell.col) /\ text # list[cell.row][cell.col]
                   THEN [mark EXCEPT !.twin = TRUE] ELSE mark]

\* No cell is edited: leaving it changes nothing.
Same(list, texts) == [list |-> list, cells |-> texts, puts |-> {}, mark |-> mark]

\* The blur of the cell edited, if there is one.
Blurred(list, texts) ==
    IF cell.phase = "editing"
    THEN Done(list, texts, texts[cell.row][cell.col], 1) ELSE Same(list, texts)

Becomes(d) ==
    /\ currentList' = d.list /\ cells' = d.cells
    /\ lists' = lists \cup d.puts
    /\ mark' = d.mark

\* setState: another list is rendered, nothing is reported.
Replaced(d, new) == [d EXCEPT !.list = new, !.cells = Rendered(d.list, d.cells, new)]

\* onClickEmptyArea: a new row below `row`; the first row is not noticed (its index is 0).
Refused(finished) == finished > 1
Added(d, row) == Replaced(d, InsertAt(d.list, row + 1, Empty))

\* Faulty variant: the row still counts as edited.
LeavesUnnoticed == cell.phase = "editing" /\ UNCHANGED currentlyEditing

Leaves == cell.phase = "editing" /\ currentlyEditing' = 0
Stays  == cell.phase # "editing" /\ UNCHANGED currentlyEditing

Key    == table.keys > 0 /\ table' = [table EXCEPT !.keys = @ - 1] /\ cell.phase # "frame"
Local  == UNCHANGED <<headers, announced>>

-----------------------------------------------------------------------------
Init ==
    /\ table \in TableScenarios
    /\ headers = table.headers
    /\ currentList = headers /\ cells = headers
    /\ cell = NoCell /\ currentlyEditing = 0 /\ justFinishedEditing = 0
    /\ lists = {} /\ announced = <<>>
    /\ mark = [twin |-> FALSE, vanished |-> FALSE, failed |-> FALSE]

\* On a cell; on the cell that is edited, nothing but onMouseDown happens.
ClickCell ==
    /\ Key /\ Local
    /\ justFinishedEditing' = currentlyEditing
    /\ \E row \in DOMAIN currentList, col \in 1..2 :
        IF cell.phase = "editing" /\ cell.row = row /\ cell.col = col
        THEN UNCHANGED <<currentList, cells, cell, currentlyEditing, lists, mark>>
        ELSE LET d == Blurred(currentList, cells)
             IN  /\ Becomes(d)
                 /\ cell' = Start(d.list, row, col)
                 /\ Leaves \/ Stays

\* On the Add button (below the last row), or on the free area of a row.
ClickEmptyArea ==
    /\ Key /\ Local
    /\ justFinishedEditing' = currentlyEditing
    /\ LET d == Blurred(currentList, cells)
       IN  \E row \in DOMAIN d.list \cup {Len(d.list)} :
             IF Refused(currentlyEditing)
             THEN Becomes(d) /\ cell' = NoCell
             ELSE Becomes(Added(d, row)) /\ cell' = Starting(row + 1, 1)
    /\ Leaves \/ Stays

\* Outside of the editor.
ClickElsewhere ==
    /\ Key /\ Local
    /\ cell.phase = "editing"
    /\ Becomes(Blurred(currentList, cells))
    /\ cell' = NoCell /\ Leaves
    /\ UNCHANGED justFinishedEditing

\* onTabNext, when the value of the last row is left: the new row is there when the
\* browser moves the focus.
Tab ==
    /\ Key /\ Local
    /\ cell.phase = "editing"
    /\ LET last == cell.col = 2 /\ cell.row = Len(currentList)
           s    == IF last /\ ~Refused(justFinishedEditing)
                   THEN Added(Same(currentList, cells), cell.row) ELSE Same(currentList, cells)
           d    == Blurred(s.list, s.cells)
       IN  /\ Becomes(d)
           /\ cell' = IF cell.col = 1 THEN Start(d.list, cell.row, 2)
                                      ELSE Start(d.list, cell.row + 1, 1)
    /\ Leaves
    /\ UNCHANGED justFinishedEditing

\* The frame: the cell has the focus, and onEditStart is called.
Frame ==
    /\ cell.phase = "frame"
    /\ cell' = [cell EXCEPT !.phase = "editing"]
    /\ currentlyEditing' = cell.row
    /\ mark' = [mark EXCEPT !.vanished = FALSE]
    /\ UNCHANGED <<table, headers, currentList, cells, justFinishedEditing, lists, announced>>

Type ==
    /\ Key
    /\ cell.phase = "editing"
    /\ \E text \in table.texts :
        /\ cells' = [cells EXCEPT ![cell.row][cell.col] = text]
        /\ cell' = [cell EXCEPT !.typed = TRUE]
    /\ UNCHANGED <<headers, currentList, currentlyEditing, justFinishedEditing, lists,
                   announced, mark>>

\* Enter reports the text and then leaves the cell, which reports it again.  Escape
\* takes the value of the list.
Finish ==
    /\ Key /\ Local
    /\ cell.phase = "editing"
    /\ \E text \in {cells[cell.row][cell.col], currentList[cell.row][cell.col]} :
          Becomes(Done(currentList, cells, text, 2))
    /\ cell' = NoCell /\ Leaves
    /\ UNCHANGED justFinishedEditing

\* PUT /flows/...: done and announced.
ServerPut(p) ==
    /\ lists' = lists \ {p}
    /\ headers' = p.list
    /\ announced' = Append(announced, p.list)
    /\ UNCHANGED <<table, currentList, cells, cell, currentlyEditing, justFinishedEditing, mark>>

\* It never arrives; nobody is told.
NetworkFails(p) ==
    /\ table.failures > 0
    /\ table' = [table EXCEPT !.failures = @ - 1]
    /\ lists' = lists \ {p}
    /\ mark' = [mark EXCEPT !.failed = TRUE]
    /\ UNCHANGED <<headers, currentList, cells, cell, currentlyEditing, justFinishedEditing,
                   announced>>

\* Another client, or an addon, changes the message.
OtherClient ==
    /\ table.others > 0
    /\ table' = [table EXCEPT !.others = @ - 1]
    /\ \E list \in table.foreign : headers' = list /\ announced' = Append(announced, list)
    /\ UNCHANGED <<currentList, cells, cell, currentlyEditing, justFinishedEditing, lists, mark>>

\* getDerivedStateFromProps: new data replaces the copy.  The row edited stays if
\* there still is one of its index; otherwise it goes without a blur.
FlowUpdate ==
    /\ announced # <<>>
    /\ announced' = Tail(announced)
    /\ currentList' = Head(announced)
    /\ cells' = Rendered(currentList, cells, Head(announced))
    /\ LET gone == cell.row > Len(Head(announced))
       IN  /\ cell' = IF gone THEN NoCell ELSE cell
           /\ mark' = [mark EXCEPT !.vanished = @ \/ (gone /\ cell.phase = "editing"),
                                   !.failed = FALSE]
    /\ UNCHANGED <<table, headers, currentlyEditing, justFinishedEditing, lists>>

Next ==
    \/ ClickCell \/ ClickEmptyArea \/ ClickElsewhere \/ Tab \/ Frame \/ Type \/ Finish
    \/ \E p \in lists : ServerPut(p) \/ NetworkFails(p)
    \/ OtherClient \/ FlowUpdate

Spec == Init /\ [][Next]_tableVars

-----------------------------------------------------------------------------
\* When everything has arrived and nothing is edited, the screen shows the server's
\* headers, whatever rows were added, removed, abandoned or replaced meanwhile;
\* except that a row whose text was cleared over an equal row leaves that one
\* cleared, and that a list that never arrived stays on the screen.
HeadersShown ==
    lists = {} /\ announced = <<>> /\ cell = NoCell /\ ~mark.twin /\ ~mark.failed =>
        cells = headers

\* A header is removed only by an edit in which the user typed; except the row that
\* was left cleared by the removal of its equal.
RemovedByTyping == \A p \in lists : p.drops => p.typed \/ mark.twin

\* While no row is edited none counts as edited, so that Add works; except after the
\* row edited was taken away by new data.
AddAnswers == cell.phase = "none" => currentlyEditing = 0 \/ mark.vanished
=============================================================================
