------------------------------ MODULE MCFlowSync ------------------------------
(***************************************************************************)
(* Bounds for FlowSync: two or three flows, two values, one filter that     *)
(* matches the second value.                                               *)
(***************************************************************************)
EXTENDS FlowSync

\* The filter expression "two" matches the value 2.
MCAccepts == [two |-> {2}]

Budget(server, reset, filters, fault, user, ids) ==
    [server |-> server, reset |-> reset, filter |-> filters, fault |-> fault,
     user |-> user, ids |-> ids, failed |-> FALSE]

\* Changes race with the fetches, alone, with a reset, with a filter and with
\* a failure; then the user browses three flows while they change.
Races == {Budget(3, 0, 0, 0, 0, {1, 2}), Budget(2, 1, 0, 0, 0, {1, 2}),
          Budget(2, 0, 1, 0, 0, {1, 2}), Budget(1, 1, 1, 0, 0, {1, 2}),
          Budget(1, 0, 1, 1, 0, {1, 2})}

MCScenarios ==
    [served : {<<>>} \cup {<<[id |-> 1, v |-> v]>> : v \in Values}, budget : Races,
     linked : {{}}]
    \cup
    [served : {<<[id |-> 1, v |-> 1], [id |-> 2, v |-> 2], [id |-> 3, v |-> 1]>>},
     budget : {Budget(2, 0, 0, 0, 2, {}), Budget(1, 0, 1, 0, 1, {})}, linked : {{}}]
    \cup
    [served : {<<>>, <<[id |-> 1, v |-> 1], [id |-> 2, v |-> 2]>>},
     budget : {Budget(2, 0, 0, 0, 1, {2})}, linked : {{2}}]
=============================================================================
