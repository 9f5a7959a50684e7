------------------------------ MODULE Mailbox ------------------------------
(***************************************************************************)
(* What a layer promises to its event source: every owner has a mailbox,   *)
(* events are put in at one end, and their handlers are started from the   *)
(* other end, one by one, none skipped, none twice, each of them one day.  *)
(***************************************************************************)
EXTENDS Naturals, Sequences

CONSTANTS Owners, Event

VARIABLES
  received,  \* per owner, all events put into its mailbox
  started    \* per owner, all events taken out of it

vars == <<received, started>>

Init ==
  /\ received = [o \in Owners |-> << >>]
  /\ started = [o \in Owners |-> << >>]

Put(o, e) ==
  /\ received' = [received EXCEPT ![o] = Append(@, e)]
  /\ UNCHANGED started

Take(o) ==
  /\ Len(started[o]) < Len(received[o])
  /\ started' = [started EXCEPT ![o] = Append(@, received[o][Len(@) + 1])]
  /\ UNCHANGED received

\* An event that finds the mailbox empty is taken out at once.
Pass(o, e) ==
  /\ started[o] = received[o]
  /\ received' = [received EXCEPT ![o] = Append(@, e)]
  /\ started' = [started EXCEPT ![o] = Append(@, e)]

Next == \E o \in Owners : Take(o) \/ \E e \in Event : Put(o, e) \/ Pass(o, e)

Spec ==
  /\ Init
  /\ [][Next]_vars
  /\ \A o \in Owners : WF_vars(Take(o))
=============================================================================
