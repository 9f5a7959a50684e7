------------------------------ MODULE FlowStore ------------------------------
(***************************************************************************)
(* The Redux store of flows of the web client (ducks/flows): the list of   *)
(* all flows, the filtered and sorted view of them, the position of every  *)
(* flow in both, the selection and the highlighted flows.  The reducer is  *)
(* a pure function, so each of its branches is an operator from a state of *)
(* the store and a payload to the next state; FlowSync dispatches them.    *)
(*                                                                         *)
(* A flow is its id and one value: the value decides which filters match   *)
(* it and where it is sorted.  Positions count from 1.                     *)
(***************************************************************************)
EXTENDS Integers, Sequences, FiniteSets, SequencesExt

CONSTANTS Flows,    \* the ids of the flows
          Values    \* the values a flow goes through, integers

ASSUME FlowStoreAssumption == IsFiniteSet(Flows) /\ Values \subseteq Int

Item == [id : Flows, v : Values]

\* What the server says of one filter and one flow; "unset" is an absent key.
Match == {"yes", "no", "unset"}

-----------------------------------------------------------------------------
Ids(data) == {data[i].id : i \in DOMAIN data}

\* new Map(data.map((f, i) => [f.id, i])): of two entries the later one stays.
BuildIndex(data) ==
    [k \in Ids(data) |-> CHOOSE i \in DOMAIN data :
        data[i].id = k /\ \A j \in DOMAIN data : data[j].id = k => j <= i]

\* The comparer of a sort order: negative, zero or positive.
MakeSort(sort, a, b) ==
    IF ~sort.column \/ a.v = b.v THEN 0
    ELSE IF (a.v > b.v) = sort.desc THEN -1 ELSE 1

\* Array.prototype.filter: what is at the positions kept, in order.
Kept(data, kept) ==
    LET Rank(i) == Cardinality({j \in kept : j <= i})
    IN  [r \in 1..Cardinality(kept) |-> data[CHOOSE i \in kept : Rank(i) = r]]

\* Array.prototype.toSorted, which is stable.
ToSorted(data, sort) ==
    LET Before(j, i) == \/ MakeSort(sort, data[j], data[i]) < 0
                        \/ MakeSort(sort, data[j], data[i]) = 0 /\ j < i
        Rank(i) == 1 + Cardinality({j \in DOMAIN data : Before(j, i)})
    IN  [r \in DOMAIN data |-> data[CHOOSE i \in DOMAIN data : Rank(i) = r]]

\* The positions from..to of the view are written to the index again.
Reindexed(index, view, from, to) ==
    LET moved == {view[i].id : i \in from..to}
    IN  [k \in DOMAIN index \cup moved |->
            IF k \in moved THEN CHOOSE i \in from..to : view[i].id = k ELSE index[k]]

\* The fast path at the end, then a binary search over the half-open low..high.
FindInsertPos(data, item, sort) ==
    LET Bounds == 0..Len(data)
        search[part \in Bounds \X Bounds] ==
            LET low    == part[1]
                high   == part[2]
                middle == (low + high) \div 2
            IN  IF low >= high THEN low
                ELSE IF MakeSort(sort, item, data[middle + 1]) >= 0
                     THEN search[<<middle + 1, high>>]
                     ELSE search[<<low, middle>>]
    IN  IF Len(data) = 0 \/ MakeSort(sort, data[Len(data)], item) <= 0
        THEN Len(data) ELSE search[<<0, Len(data)>>]

InsertViewItem(s, item) ==
    LET pos  == FindInsertPos(s.view, item, s.sort) + 1
        view == InsertAt(s.view, pos, item)
    IN  [s EXCEPT !.view = view, !.viewIndex = Reindexed(@, view, pos, Len(view))]

\* Faulty variant: the flow that moved up to the free position keeps its old one.
RemoveViewItemPast(s, pos) ==
    LET view == RemoveAt(s.view, pos)
        kept == [k \in DOMAIN s.viewIndex \ {s.view[pos].id} |-> s.viewIndex[k]]
    IN  [s EXCEPT !.view = view, !.viewIndex = Reindexed(kept, view, pos + 1, Len(view))]

RemoveViewItemAt(s, pos) ==
    LET view == RemoveAt(s.view, pos)
        kept == [k \in DOMAIN s.viewIndex \ {s.view[pos].id} |-> s.viewIndex[k]]
    IN  [s EXCEPT !.view = view, !.viewIndex = Reindexed(kept, view, pos, Len(view))]

\* The item moves past the neighbours it now sorts after, or before.
UpdateViewItem(s, item) ==
    LET view == s.view
        pos  == s.viewIndex[item.id]
        up[p \in DOMAIN view] ==
            IF p + 1 <= Len(view) /\ MakeSort(s.sort, item, view[p + 1]) > 0
            THEN up[p + 1] ELSE p
        down[p \in DOMAIN view] ==
            IF p > 1 /\ MakeSort(s.sort, item, view[p - 1]) < 0
            THEN down[p - 1] ELSE p
        target == IF up[pos] # pos THEN up[pos] ELSE down[pos]
        moved  == InsertAt(RemoveAt(view, pos), target, item)
    IN  [s EXCEPT !.view = moved,
                  !.viewIndex = IF target >= pos THEN Reindexed(@, moved, pos, target)
                                                 ELSE Reindexed(@, moved, target, pos)]

-----------------------------------------------------------------------------
\* resurrected and swallowed are history: the flows that the two branches for
\* the race of WebSocket and HTTP added without a position, or did not add, since
\* the list was received; revived are those that were ever resurrected.
\* linked is not the reducer's: the flow of the page's address, while it is awaited.
EmptyStore ==
    [list |-> <<>>, listIndex |-> BuildIndex(<<>>), byId |-> BuildIndex(<<>>),
     view |-> <<>>, viewIndex |-> BuildIndex(<<>>),
     sort |-> [column |-> FALSE, desc |-> FALSE],
     selected |-> <<>>, selectedIds |-> {}, highlightedIds |-> {},
     resurrected |-> {}, swallowed |-> {}, revived |-> {}, linked |-> {}]

ById(list) == LET index == BuildIndex(list) IN [k \in DOMAIN index |-> list[index[k]]]

FlowsReceive(s, list) ==
    LET view     == ToSorted(list, s.sort)
        byId     == ById(list)
        known    == Kept(s.selected, {i \in DOMAIN s.selected : s.selected[i].id \in DOMAIN byId})
        selected == [i \in DOMAIN known |-> byId[known[i].id]]
    IN  [s EXCEPT !.list = list, !.listIndex = BuildIndex(list), !.byId = byId,
                  !.view = view, !.viewIndex = BuildIndex(view),
                  !.selected = selected, !.selectedIds = Ids(selected),
                  !.highlightedIds = {}, !.resurrected = {}, !.swallowed = {}]

With(map, key, value) == [k \in DOMAIN map \cup {key} |-> IF k = key THEN value ELSE map[k]]
Without(map, key) == [k \in DOMAIN map \ {key} |-> map[k]]

FlowsAdd(s, flow, matching) ==
    LET added == [s EXCEPT !.list = Append(@, flow),
                           !.listIndex = With(@, flow.id, Len(s.list) + 1),
                           !.byId = With(@, flow.id, flow)]
        shown == IF matching.search # "no" THEN InsertViewItem(added, flow) ELSE added
    IN  IF flow.id \in DOMAIN s.listIndex
        THEN [s EXCEPT !.swallowed = @ \cup {flow.id}]
        ELSE [shown EXCEPT !.highlightedIds =
                 IF matching.highlight = "yes" THEN @ \cup {flow.id} ELSE @]

FlowsUpdate(s, flow, matching) ==
    LET known   == flow.id \in DOMAIN s.listIndex
        hasOld  == flow.id \in DOMAIN s.viewIndex
        hasNew  == matching.search # "no"
        listed  == [s EXCEPT !.list = IF known THEN [@ EXCEPT ![s.listIndex[flow.id]] = flow]
                                               ELSE Append(@, flow),
                             !.byId = With(@, flow.id, flow)]
        shown   == CASE hasNew /\ ~hasOld -> InsertViewItem(listed, flow)
                     [] ~hasNew /\ hasOld -> RemoveViewItemAt(listed, s.viewIndex[flow.id])
                     [] hasNew /\ hasOld  -> UpdateViewItem(listed, flow)
                     [] OTHER             -> listed
    IN  [shown EXCEPT
            !.selected = [i \in DOMAIN @ |-> IF @[i].id = flow.id THEN flow ELSE @[i]],
            !.highlightedIds = IF matching.highlight = "yes" THEN @ \cup {flow.id}
                                                             ELSE @ \ {flow.id},
            !.resurrected = IF known THEN @ ELSE @ \cup {flow.id},
            !.revived = IF known THEN @ ELSE @ \cup {flow.id},
            !.swallowed = @ \ {flow.id}]

\* A selection of one visible flow moves on to the flow that takes its place.
SelectionWithout(s, after, id) ==
    IF Len(s.selected) = 1 /\ id \in DOMAIN s.viewIndex
    THEN LET pos == s.viewIndex[id]
         IN  IF pos \in DOMAIN after.view THEN <<after.view[pos]>>
             ELSE IF pos - 1 \in DOMAIN after.view THEN <<after.view[pos - 1]>> ELSE <<>>
    ELSE Kept(s.selected, {i \in DOMAIN s.selected : s.selected[i].id # id})

FlowsRemove(s, id) ==
    LET list     == RemoveAt(s.list, s.listIndex[id])
        listed   == [s EXCEPT !.list = list, !.listIndex = BuildIndex(list),
                              !.byId = Without(@, id)]
        shown    == IF id \in DOMAIN s.viewIndex
                    THEN RemoveViewItemAt(listed, s.viewIndex[id]) ELSE listed
        selected == IF id \in s.selectedIds THEN SelectionWithout(s, shown, id) ELSE s.selected
    IN  IF id \notin DOMAIN s.listIndex THEN s
        ELSE [shown EXCEPT !.selected = selected, !.selectedIds = Ids(selected),
                           !.highlightedIds = @ \ {id}, !.swallowed = @ \ {id}]

\* The answer to a filter: the ids that match, or that no filter is set.
FlowsFilterUpdate(s, name, unset, ids) ==
    LET known == Kept(ids, {i \in DOMAIN ids : ids[i] \in DOMAIN s.byId})
        found == IF unset THEN s.list ELSE [i \in DOMAIN known |-> s.byId[known[i]]]
        view  == ToSorted(found, s.sort)
    IN  IF name = "search"
        THEN [s EXCEPT !.view = view, !.viewIndex = BuildIndex(view)]
        ELSE [s EXCEPT !.highlightedIds = ToSet(ids)]

SetSort(s, sort) ==
    LET view == IF sort.column THEN ToSorted(s.view, sort)
                ELSE Kept(s.list, {i \in DOMAIN s.list : s.list[i].id \in DOMAIN s.viewIndex})
    IN  [s EXCEPT !.sort = sort, !.view = view, !.viewIndex = BuildIndex(view)]

Select(s, flows) == [s EXCEPT !.selected = flows, !.selectedIds = Ids(flows)]

-----------------------------------------------------------------------------
\* The position of a flow of the selection in the view; 0 when it has none.
ViewPos(s, flows) ==
    IF flows # <<>> /\ Last(flows).id \in DOMAIN s.viewIndex
    THEN s.viewIndex[Last(flows).id] ELSE 0

Clamped(i, max) == IF i > max THEN max ELSE IF i < 1 THEN 1 ELSE i

\* The arrow keys: shift rows from the last selected flow, inside the view.
SelectRelative(s, shift) ==
    LET current == ViewPos(s, s.selected)
        target  == IF current # 0 THEN Clamped(current + shift, Len(s.view))
                   ELSE IF shift < 0 THEN 1 ELSE Len(s.view)
    IN  Select(s, IF target \in DOMAIN s.view THEN <<s.view[target]>> ELSE <<>>)

\* Control + click.
SelectToggle(s, flow) ==
    Select(s, IF flow.id \in s.selectedIds
              THEN Kept(s.selected, {i \in DOMAIN s.selected : s.selected[i] # flow})
              ELSE Append(s.selected, flow))

\* Shift + click.
SelectRange(s, flow) ==
    LET this == ViewPos(s, <<flow>>)
        prev == ViewPos(s, s.selected)
    IN  Select(s, IF this = 0 \/ prev = 0 THEN <<flow>>
                  ELSE IF this <= prev THEN SubSeq(s.view, this, prev)
                  ELSE Append(SubSeq(s.view, prev + 1, this), Last(s.selected)))
=============================================================================
