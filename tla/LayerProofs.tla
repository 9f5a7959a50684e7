---------------------------- MODULE LayerProofs ----------------------------
(***************************************************************************)
(* For every depth of the stack and every number of events and commands:   *)
(* the type invariant, the call stack discipline and the order of events.  *)
(***************************************************************************)
EXTENDS Layer, SequenceTheorems, TLAPS

(* A layer that is not suspended, and not below __continue, has an empty   *)
(* queue: what makes it right that handle_event does not look at it.       *)
QueueDiscipline ==
  \A i \in Layers :
    mode[i] = "idle" \/ (mode[i] = "running" /\ ~replaying[i]) => queue[i] = << >>

IInv == TypeOK /\ CallStack /\ QueueDiscipline /\ InOrder

(* Events are records of the two kinds the environment sends. *)
LEMMA EventTypes ==
  ASSUME NEW n \in Nat
  PROVE  Io(n) \in Event /\ Reply(n) \in Event
BY DEF Event, Io, Reply

(* Appending to the second part of a concatenation appends to the whole. *)
LEMMA ConcatAppend ==
  ASSUME NEW S, NEW s \in Seq(S), NEW q \in Seq(S), NEW e \in S
  PROVE  s \o Append(q, e) = Append(s \o q, e)
<1>1. s \o Append(q, e) \in Seq(S) /\ Append(s \o q, e) \in Seq(S)
  BY ConcatProperties
<1>2. Len(s \o Append(q, e)) = Len(Append(s \o q, e))
  BY ConcatProperties
<1>3. ASSUME NEW k \in 1..Len(s \o Append(q, e))
      PROVE  (s \o Append(q, e))[k] = Append(s \o q, e)[k]
  <2> DEFINE qe == Append(q, e)
             sq == s \o q
  <2>1. /\ qe \in Seq(S)
        /\ Len(qe) = Len(q) + 1
        /\ \A j \in 1..Len(q) : qe[j] = q[j]
        /\ qe[Len(q) + 1] = e
    OBVIOUS
  <2>2. /\ sq \in Seq(S)
        /\ Len(sq) = Len(s) + Len(q)
        /\ \A j \in 1..(Len(s) + Len(q)) :
             sq[j] = IF j <= Len(s) THEN s[j] ELSE q[j - Len(s)]
    BY ConcatProperties
  <2>3. /\ Append(sq, e)[Len(sq) + 1] = e
        /\ \A j \in 1..Len(sq) : Append(sq, e)[j] = sq[j]
    BY <2>2
  <2>4. /\ k \in 1..(Len(s) + Len(qe))
        /\ (s \o qe)[k] = IF k <= Len(s) THEN s[k] ELSE qe[k - Len(s)]
    BY <2>1, ConcatProperties
  <2> HIDE DEF qe, sq
  <2>5. Len(s) \in Nat /\ Len(q) \in Nat
    OBVIOUS
  <2>6. CASE k <= Len(s)
    BY <2>1, <2>2, <2>3, <2>4, <2>5, <2>6 DEF sq, qe
  <2>7. CASE k > Len(s) /\ k <= Len(s) + Len(q)
    <3>1. k - Len(s) \in 1..Len(q) /\ k \in 1..(Len(s) + Len(q))
      BY <2>4, <2>5, <2>7, <2>1
    <3>2. (s \o qe)[k] = q[k - Len(s)]
      <4>1. qe[k - Len(s)] = q[k - Len(s)]
        BY <3>1, <2>1
      <4>2. k \in Int /\ ~(k <= Len(s))
        BY <3>1, <2>5, <2>7
      <4>3. QED BY <4>1, <4>2, <2>4
    <3>3. Append(sq, e)[k] = q[k - Len(s)]
      BY <3>1, <2>2, <2>3, <2>5, <2>7
    <3>4. QED BY <3>2, <3>3 DEF sq, qe
  <2>8. CASE k = Len(s) + Len(q) + 1
    BY <2>1, <2>2, <2>3, <2>4, <2>5, <2>8 DEF sq, qe
  <2>9. QED BY <2>1, <2>4, <2>5, <2>6, <2>7, <2>8
<1>4. QED BY <1>1, <1>2, <1>3, SeqEqual

(* Moving the head of the second part to the end of the first part leaves  *)
(* the concatenation alone.                                                *)
LEMMA ConcatShift ==
  ASSUME NEW S, NEW s \in Seq(S), NEW q \in Seq(S), q # << >>
  PROVE  Append(s, Head(q)) \o Tail(q) = s \o q
<1>1. /\ Head(q) \in S
      /\ Tail(q) \in Seq(S)
      /\ <<Head(q)>> \in Seq(S)
  BY HeadTailProperties
<1>2. Append(s, Head(q)) = s \o <<Head(q)>>
  BY <1>1
<1>3. q = <<Head(q)>> \o Tail(q)
  BY <1>1, HeadTailProperties
<1>4. QED BY <1>1, <1>2, <1>3, ConcatAssociative

(* handle_event, called on a layer whose parents are exactly the running   *)
(* ones, keeps the invariant.                                              *)
LEMMA HandleEventInv ==
  ASSUME IInv, NEW i \in Layers, active = i - 1,
         NEW e \in Event, NEW to \in [Layers -> BOOLEAN],
         HandleEvent(i, e, to),
         arrived' \in Nat, issued' \in Nat, outstanding' \subseteq Nat
  PROVE  IInv'
<1> USE DepthAssumption DEF Layers
<1>0. /\ TypeOK /\ CallStack /\ QueueDiscipline /\ InOrder
      /\ mode[i] # "running"
      /\ i \in 1..Depth
  BY DEF IInv, CallStack
<1>1. CASE StartHandler(i, e, to)
  <2>1. mode[i] = "idle" /\ queue[i] = << >>
    BY <1>0, <1>1 DEF StartHandler, TypeOK, QueueDiscipline
  <2>2. TypeOK'
    <3>1. received[i] \in Seq(Event) /\ started[i] \in Seq(Event)
      BY <1>0 DEF TypeOK
    <3>2. /\ Append(received[i], e) \in Seq(Event)
          /\ Append(started[i], e) \in Seq(Event)
      BY <3>1
    <3>3. active' \in 0..Depth /\ mode' \in [Layers -> {"idle", "running", "paused"}]
      BY <1>0, <1>1 DEF StartHandler, TypeOK
    <3>4. current' \in [Layers -> Event] /\ passed' \in [Layers -> BOOLEAN]
      BY <1>0, <1>1 DEF StartHandler, TypeOK
    <3>5. replaying' \in [Layers -> BOOLEAN] /\ cmd' \in [Layers -> Nat]
      BY <1>0, <1>1 DEF StartHandler, TypeOK
    <3>6. /\ queue' \in [Layers -> Seq(Event)]
          /\ received' \in [Layers -> Seq(Event)]
          /\ started' \in [Layers -> Seq(Event)]
      BY <1>0, <1>1, <3>2 DEF StartHandler, TypeOK
    <3>7. QED BY <3>3, <3>4, <3>5, <3>6 DEF TypeOK
  <2>3. CallStack'
    <3>1. ASSUME NEW j \in Layers
          PROVE  (mode'[j] = "running") <=> (j <= active')
      <4>1. (j <= i) <=> (j = i \/ j <= active)
        BY <1>0
      <4>2. (mode'[j] = "running") <=> (j = i \/ mode[j] = "running")
        BY <1>0, <1>1 DEF StartHandler, TypeOK
      <4>3. QED BY <1>0, <1>1, <4>1, <4>2 DEF StartHandler, CallStack
    <3>2. QED BY <3>1 DEF CallStack
  <2>4. QueueDiscipline'
    BY <1>0, <1>1, <2>1 DEF StartHandler, TypeOK, QueueDiscipline
  <2>5. InOrder'
    <3>1. ASSUME NEW j \in Layers, j # i
          PROVE  (started[j] \o queue[j] = received[j])'
      BY <1>0, <1>1, <3>1 DEF StartHandler, TypeOK, InOrder
    <3>2. (started[i] \o queue[i] = received[i])'
      <4>1. started[i] = received[i]
        BY <1>0, <2>1, ConcatEmptySeq DEF TypeOK, InOrder
      <4>2. /\ started'[i] = Append(started[i], e)
            /\ received'[i] = Append(received[i], e)
            /\ queue'[i] = << >>
        BY <1>0, <1>1, <2>1 DEF StartHandler, TypeOK
      <4>3. started'[i] \in Seq(Event)
        BY <2>2 DEF TypeOK
      <4>4. QED BY <4>1, <4>2, <4>3, ConcatEmptySeq
    <3>3. QED BY <3>1, <3>2 DEF InOrder
  <2>6. QED BY <2>2, <2>3, <2>4, <2>5 DEF IInv
<1>2. CASE Postpone(i, e, to)
  <2>2. TypeOK'
    <3>1. received[i] \in Seq(Event) /\ queue[i] \in Seq(Event)
      BY <1>0 DEF TypeOK
    <3>2. /\ Append(received[i], e) \in Seq(Event)
          /\ Append(queue[i], e) \in Seq(Event)
      BY <3>1
    <3>3. QED BY <1>0, <1>2, <3>2 DEF Postpone, TypeOK
  <2>3. CallStack'
    BY <1>0, <1>2 DEF Postpone, TypeOK, CallStack
  <2>4. QueueDiscipline'
    BY <1>0, <1>2 DEF Postpone, TypeOK, QueueDiscipline
  <2>5. InOrder'
    <3>1. ASSUME NEW j \in Layers, j # i
          PROVE  (started[j] \o queue[j] = received[j])'
      BY <1>0, <1>2, <3>1 DEF Postpone, TypeOK, InOrder
    <3>2. (started[i] \o queue[i] = received[i])'
      <4>1. /\ started'[i] = started[i]
            /\ queue'[i] = Append(queue[i], e)
            /\ received'[i] = Append(received[i], e)
            /\ started[i] \in Seq(Event) /\ queue[i] \in Seq(Event)
            /\ started[i] \o queue[i] = received[i]
        BY <1>0, <1>2 DEF Postpone, TypeOK, InOrder
      <4>2. started[i] \o Append(queue[i], e) = Append(started[i] \o queue[i], e)
        <5> DEFINE s == started[i]
                   q == queue[i]
        <5>1. s \in Seq(Event) /\ q \in Seq(Event) /\ e \in Event
          BY <4>1
        <5> HIDE DEF s, q
        <5>2. s \o Append(q, e) = Append(s \o q, e)
          BY <5>1, ConcatAppend
        <5>3. QED BY <5>2 DEF s, q
      <4>3. QED BY <4>1, <4>2
    <3>3. QED BY <3>1, <3>2 DEF InOrder
  <2>6. QED BY <2>2, <2>3, <2>4, <2>5 DEF IInv
<1>3. CASE Continue(i, e, to)
  <2>2. TypeOK'
    <3>1. active' \in 0..Depth
      BY <1>3 DEF Continue, Layers
    <3>2. /\ mode' \in [Layers -> {"idle", "running", "paused"}]
          /\ replaying' \in [Layers -> BOOLEAN]
      BY <1>0, <1>3 DEF Continue, TypeOK
    <3>3. cmd' \in [Layers -> Nat]
      BY <1>0, <1>3 DEF Continue, TypeOK
    <3>4. QED BY <1>0, <1>3, <3>1, <3>2, <3>3 DEF Continue, TypeOK
  <2>3. CallStack'
    <3>1. ASSUME NEW j \in Layers
          PROVE  (mode'[j] = "running") <=> (j <= active')
      <4>1. (j <= active') <=> (j = i \/ j <= active)
        BY <1>3 DEF Continue, Layers
      <4>2. (mode'[j] = "running") <=> (j = i \/ mode[j] = "running")
        BY <1>0, <1>3 DEF Continue, TypeOK
      <4>3. QED BY <1>0, <4>1, <4>2 DEF CallStack
    <3>2. QED BY <3>1 DEF CallStack
  <2>4. QueueDiscipline'
    BY <1>0, <1>3 DEF Continue, TypeOK, QueueDiscipline
  <2>5. InOrder'
    BY <1>0, <1>3 DEF Continue, InOrder
  <2>6. QED BY <2>2, <2>3, <2>4, <2>5 DEF IInv
<1>4. QED BY <1>1, <1>2, <1>3 DEF HandleEvent

(* The invariant holds initially. *)
LEMMA InitInv == Init => IInv
<1> SUFFICES ASSUME Init PROVE IInv
  OBVIOUS
<1> USE DepthAssumption DEF Layers, Init
<1>1. TypeOK
  BY DEF TypeOK, Event, NoEvent
<1>2. CallStack
  BY DEF CallStack
<1>3. QueueDiscipline
  BY DEF QueueDiscipline
<1>4. InOrder
  <2>1. << >> \o << >> = << >>
    BY EmptySeq, ConcatEmptySeq
  <2>2. QED BY <2>1 DEF InOrder
<1>5. QED BY <1>1, <1>2, <1>3, <1>4 DEF IInv

(* Every step keeps it. *)
LEMMA StepInv == IInv /\ [Next]_vars => IInv'
<1> SUFFICES ASSUME IInv, [Next]_vars PROVE IInv'
  OBVIOUS
<1> USE DepthAssumption
<1>0. TypeOK /\ CallStack /\ QueueDiscipline /\ InOrder
  BY DEF IInv
<1>1. CASE ServerEventIo
  <2>1. 1 \in Layers /\ active = 1 - 1 /\ Io(arrived + 1) \in Event
    BY <1>0, <1>1, EventTypes DEF ServerEventIo, TypeOK, Layers
  <2>2. arrived' \in Nat /\ issued' \in Nat /\ outstanding' \subseteq Nat
    BY <1>0, <1>1 DEF ServerEventIo, TypeOK
  <2>3. passed \in [Layers -> BOOLEAN] /\ HandleEvent(1, Io(arrived + 1), passed)
    BY <1>0, <1>1 DEF ServerEventIo, TypeOK
  <2>4. QED BY <2>1, <2>2, <2>3, HandleEventInv
<1>2. ASSUME NEW c \in outstanding, ServerEventReply(c)
      PROVE  IInv'
  <2>1. 1 \in Layers /\ active = 1 - 1 /\ Reply(c) \in Event
    BY <1>0, <1>2, EventTypes DEF ServerEventReply, TypeOK, Layers
  <2>2. arrived' \in Nat /\ issued' \in Nat /\ outstanding' \subseteq Nat
    BY <1>0, <1>2 DEF ServerEventReply, TypeOK
  <2>3. passed \in [Layers -> BOOLEAN] /\ HandleEvent(1, Reply(c), passed)
    BY <1>0, <1>2 DEF ServerEventReply, TypeOK
  <2>4. QED BY <2>1, <2>2, <2>3, HandleEventInv
<1>3. ASSUME NEW i \in Layers, Forward(i)
      PROVE  IInv'
  <2>1. i + 1 \in Layers /\ active = (i + 1) - 1 /\ current[i] \in Event
    BY <1>0, <1>3 DEF Forward, TypeOK, Layers
  <2>2. arrived' \in Nat /\ issued' \in Nat /\ outstanding' \subseteq Nat
    BY <1>0, <1>3 DEF Forward, TypeOK
  <2>3. /\ [passed EXCEPT ![i] = TRUE] \in [Layers -> BOOLEAN]
        /\ HandleEvent(i + 1, current[i], [passed EXCEPT ![i] = TRUE])
    BY <1>0, <1>3 DEF Forward, TypeOK
  <2>4. QED BY <2>1, <2>2, <2>3, HandleEventInv
<1>4. ASSUME NEW i \in Layers, Block(i)
      PROVE  IInv'
  <2>1. TypeOK'
    <3>1. active' \in 0..Depth
      BY <1>4 DEF Block, Layers
    <3>2. mode' \in [Layers -> {"idle", "running", "paused"}]
      BY <1>0, <1>4 DEF Block, TypeOK
    <3>3. issued' \in Nat /\ cmd' \in [Layers -> Nat] /\ outstanding' \subseteq Nat
      BY <1>0, <1>4 DEF Block, TypeOK
    <3>4. QED BY <1>0, <1>4, <3>1, <3>2, <3>3 DEF Block, TypeOK
  <2>2. CallStack'
    <3>1. ASSUME NEW j \in Layers
          PROVE  (mode'[j] = "running") <=> (j <= active')
      <4>0. active = i /\ i \in Nat /\ j \in Nat
        BY <1>4 DEF Block, Layers
      <4>1. (j <= i - 1) <=> (j # i /\ j <= active)
        BY <4>0
      <4>2. (mode'[j] = "running") <=> (j # i /\ mode[j] = "running")
        BY <1>0, <1>4 DEF Block, TypeOK
      <4>3. QED BY <1>0, <1>4, <4>1, <4>2 DEF Block, CallStack
    <3>2. QED BY <3>1 DEF CallStack
  <2>3. QueueDiscipline'
    BY <1>0, <1>4 DEF Block, TypeOK, QueueDiscipline
  <2>4. InOrder'
    BY <1>0, <1>4 DEF Block, InOrder
  <2>5. QED BY <2>1, <2>2, <2>3, <2>4 DEF IInv
<1>5. ASSUME NEW i \in Layers, Return(i)
      PROVE  IInv'
  <2>1. TypeOK'
    <3>1. active' \in 0..Depth
      BY <1>5 DEF Return, Layers
    <3>2. mode' \in [Layers -> {"idle", "running", "paused"}]
      BY <1>0, <1>5 DEF Return, TypeOK
    <3>3. QED BY <1>0, <1>5, <3>1, <3>2 DEF Return, TypeOK
  <2>2. CallStack'
    <3>1. ASSUME NEW j \in Layers
          PROVE  (mode'[j] = "running") <=> (j <= active')
      <4>0. active = i /\ i \in Nat /\ j \in Nat
        BY <1>5 DEF Return, MayEnd, Layers
      <4>1. (j <= i - 1) <=> (j # i /\ j <= active)
        BY <4>0
      <4>2. (mode'[j] = "running") <=> (j # i /\ mode[j] = "running")
        BY <1>0, <1>5 DEF Return, TypeOK
      <4>3. active' = i - 1
        BY <1>5 DEF Return
      <4>4. QED BY <1>0, <4>1, <4>2, <4>3 DEF CallStack
    <3>2. QED BY <3>1 DEF CallStack
  <2>3. mode[i] = "running"
    BY <1>0, <1>5 DEF Return, MayEnd, CallStack, TypeOK, Layers
  <2>4. QueueDiscipline'
    BY <1>0, <1>5, <2>3 DEF Return, MayEnd, TypeOK, QueueDiscipline
  <2>5. InOrder'
    BY <1>0, <1>5 DEF Return, InOrder
  <2>6. QED BY <2>1, <2>2, <2>4, <2>5 DEF IInv
<1>6. ASSUME NEW i \in Layers, NextQueued(i)
      PROVE  IInv'
  <2>1. Head(queue[i]) \in Event /\ Tail(queue[i]) \in Seq(Event)
    BY <1>0, <1>6, HeadTailProperties DEF NextQueued, TypeOK
  <2>2. TypeOK'
    BY <1>0, <1>6, <2>1 DEF NextQueued, TypeOK
  <2>3. CallStack'
    BY <1>0, <1>6 DEF NextQueued, CallStack
  <2>4. QueueDiscipline'
    <3>1. mode[i] = "running"
      BY <1>0, <1>6 DEF NextQueued, MayEnd, CallStack, TypeOK, Layers
    <3>2. QED BY <1>0, <1>6, <3>1 DEF NextQueued, TypeOK, QueueDiscipline
  <2>5. InOrder'
    <3>1. ASSUME NEW j \in Layers, j # i
          PROVE  (started[j] \o queue[j] = received[j])'
      BY <1>0, <1>6, <3>1 DEF NextQueued, TypeOK, InOrder
    <3>2. (started[i] \o queue[i] = received[i])'
      <4>1. /\ started'[i] = Append(started[i], Head(queue[i]))
            /\ queue'[i] = Tail(queue[i])
            /\ received'[i] = received[i]
            /\ started[i] \in Seq(Event) /\ queue[i] \in Seq(Event)
            /\ queue[i] # << >>
            /\ started[i] \o queue[i] = received[i]
        BY <1>0, <1>6 DEF NextQueued, TypeOK, InOrder
      <4>2. QED BY <4>1, ConcatShift
    <3>3. QED BY <3>1, <3>2 DEF InOrder
  <2>6. QED BY <2>2, <2>3, <2>4, <2>5 DEF IInv
<1>7. CASE UNCHANGED vars
  BY <1>0, <1>7 DEF vars, IInv, TypeOK, CallStack, QueueDiscipline, InOrder
<1>8. QED
  BY <1>1, <1>2, <1>3, <1>4, <1>5, <1>6, <1>7 DEF Next, LayerStep

(* The inductive invariant holds throughout. *)
THEOREM LayerInvariant == Spec => []IInv
<1>1. QED BY InitInv, StepInv, PTL DEF Spec

(* Every variable keeps its type, whatever the depth of the stack. *)
THEOREM LayerTypes == Spec => []TypeOK
<1>1. IInv => TypeOK
  BY DEF IInv
<1>2. QED BY <1>1, LayerInvariant, PTL

(* Events are handled in the order of their arrival, each exactly once, at *)
(* every layer of a stack of any depth (Layer.handle_event, __continue).   *)
THEOREM LayerKeepsOrder == Spec => []InOrder
<1>1. IInv => InOrder
  BY DEF IInv
<1>2. QED BY <1>1, LayerInvariant, PTL

(* No generator is entered while another event is being handled: the       *)
(* running generators are always exactly those on the call stack.          *)
THEOREM LayerCallStack == Spec => []CallStack
<1>1. IInv => CallStack
  BY DEF IInv
<1>2. QED BY <1>1, LayerInvariant, PTL

(* The loop of __continue leaves no event behind in an idle layer. *)
THEOREM LayerLeavesNothingBehind == Spec => []NothingLeftBehind
<1>1. IInv => NothingLeftBehind
  BY DEF IInv, QueueDiscipline, NothingLeftBehind
<1>2. QED BY <1>1, LayerInvariant, PTL

-----------------------------------------------------------------------------
(* Replies, and the refinement of the mailboxes.                           *)

\* The events the environment can send.
Sendable == {Io(n) : n \in 1..MaxEvents} \cup {Reply(c) : c \in 1..MaxCommands}

\* Commands are numbered in the order in which they are issued, and no two
\* suspended layers wait for the same one.
CommandsDiffer ==
  /\ arrived <= MaxEvents
  /\ issued <= MaxCommands
  /\ outstanding \subseteq 1..issued
  /\ \A i \in Layers : mode[i] = "paused" => cmd[i] \in 1..issued
  /\ \A i, j \in Layers : mode[i] = "paused" /\ mode[j] = "paused" /\ i # j => cmd[i] # cmd[j]

\* Events are not made up: a layer works on, and keeps, what was sent.
EventsWereSent ==
  \A i \in Layers :
    /\ mode[i] # "idle" => current[i] \in Sendable
    /\ \A k \in 1..Len(queue[i]) : queue[i][k] \in Sendable

RInv == IInv /\ CommandsDiffer /\ EventsWereSent /\ ReplyOnItsWay

(* handle_event hands on, or keeps, the event it is given. *)
LEMMA HandleEventSent ==
  ASSUME TypeOK, EventsWereSent, NEW i \in Layers, NEW e \in Sendable, NEW to,
         HandleEvent(i, e, to)
  PROVE  EventsWereSent'
<1>1. ASSUME NEW j \in Layers
      PROVE  /\ mode'[j] # "idle" => current'[j] \in Sendable
             /\ \A k \in 1..Len(queue'[j]) : queue'[j][k] \in Sendable
  <2>1. CASE StartHandler(i, e, to)
    BY <2>1 DEF StartHandler, TypeOK, EventsWereSent
  <2>2. CASE Postpone(i, e, to) /\ j = i
    <3>1. queue'[i] = Append(queue[i], e)
      BY <2>2 DEF Postpone, TypeOK
    <3>2. queue[i] \in Seq(Event)
      BY DEF TypeOK
    <3>3. \A k \in 1..Len(queue[i]) : queue[i][k] \in Sendable
      BY DEF EventsWereSent
    <3>4. \A k \in 1..Len(queue'[i]) : queue'[i][k] \in Sendable
      BY <3>1, <3>3
    <3>5. QED BY <2>2 DEF Postpone, EventsWereSent
  <2>3. CASE Postpone(i, e, to) /\ j # i
    BY <2>3 DEF Postpone, EventsWereSent
  <2>4. CASE Continue(i, e, to)
    BY <2>4 DEF Continue, EventsWereSent
  <2>5. QED BY <2>1, <2>2, <2>3, <2>4 DEF HandleEvent
<1>2. QED BY <1>1 DEF EventsWereSent

(* handle_event issues no command, and suspends nobody. *)
LEMMA HandleEventCommands ==
  ASSUME TypeOK, CommandsDiffer, NEW i \in Layers, NEW e, NEW to,
         HandleEvent(i, e, to), issued' = issued,
         arrived' <= MaxEvents, outstanding' \subseteq outstanding
  PROVE  CommandsDiffer'
<1>1. \A j \in Layers : mode'[j] = "paused" => mode[j] = "paused" /\ cmd'[j] = cmd[j]
  BY DEF HandleEvent, StartHandler, Postpone, Continue, TypeOK
<1>2. QED BY <1>1 DEF CommandsDiffer

(* handle_event loses no reply: if e is the reply to a command of layer l, *)
(* then the caller has not lost it by handing it to layer i.               *)
LEMMA HandleEventReplies ==
  ASSUME TypeOK, CallStack, QueueDiscipline, CommandsDiffer,
         NEW i \in Layers, active = i - 1, NEW e, NEW to \in [Layers -> BOOLEAN],
         HandleEvent(i, e, to),
         \A l \in Layers : mode[l] = "paused" =>
           \/ cmd[l] \in outstanding'
           \/ e = Reply(cmd[l]) /\ i <= l
           \/ \E j \in 1..(l - 1) :
                \/ \E k \in 1..Len(queue[j]) : queue[j][k] = Reply(cmd[l])
                \/ current[j] = Reply(cmd[l]) /\ ~to[j] /\ mode[j] # "idle"
  PROVE  ReplyOnItsWay'
<1>0. mode[i] # "running" /\ i \in 1..Depth
  BY DEF CallStack, Layers
<1>1. SUFFICES ASSUME NEW l \in Layers, mode'[l] = "paused", cmd'[l] \notin outstanding'
      PROVE  \E j \in 1..(l - 1) :
               \/ \E k \in 1..Len(queue'[j]) : queue'[j][k] = Reply(cmd'[l])
               \/ current'[j] = Reply(cmd'[l]) /\ ~passed'[j] /\ mode'[j] # "idle"
  BY DEF ReplyOnItsWay
<1>2. mode[l] = "paused" /\ cmd'[l] = cmd[l]
  BY <1>1 DEF HandleEvent, StartHandler, Postpone, Continue, TypeOK
<1>3. CASE StartHandler(i, e, to)
  <2>1. l # i /\ queue[i] = << >> /\ mode[i] = "idle"
    BY <1>0, <1>1, <1>3 DEF StartHandler, TypeOK, QueueDiscipline
  <2>2. CASE e = Reply(cmd[l]) /\ i <= l
    <3>1. i \in 1..(l - 1)
      BY <2>1, <2>2 DEF Layers
    <3>2. current'[i] = e /\ ~passed'[i] /\ mode'[i] # "idle"
      BY <1>3 DEF StartHandler, TypeOK
    <3>3. QED BY <1>2, <2>2, <3>1, <3>2
  <2>3. ASSUME NEW j \in 1..(l - 1), NEW k \in 1..Len(queue[j]), queue[j][k] = Reply(cmd[l])
        PROVE  \E m \in 1..Len(queue'[j]) : queue'[j][m] = Reply(cmd'[l])
    BY <1>3, <2>3 DEF StartHandler
  <2>4. ASSUME NEW j \in 1..(l - 1), current[j] = Reply(cmd[l]), ~to[j], mode[j] # "idle"
        PROVE  current'[j] = Reply(cmd'[l]) /\ ~passed'[j] /\ mode'[j] # "idle"
    <3>1. j \in Layers /\ j # i
      BY <2>1, <2>4, DepthAssumption DEF Layers
    <3>2. QED BY <1>3, <2>4, <3>1 DEF StartHandler
  <2>5. QED BY <1>1, <1>2, <2>2, <2>3, <2>4
<1>4. CASE Postpone(i, e, to)
  <2>0. /\ queue' = [queue EXCEPT ![i] = Append(queue[i], e)]
        /\ queue[i] \in Seq(Event)
        /\ queue \in [Layers -> Seq(Event)]
    BY <1>4 DEF Postpone, TypeOK
  <2>1. CASE e = Reply(cmd[l]) /\ i <= l
    <3>1. i \in 1..(l - 1)
      BY <1>4, <2>1 DEF Postpone, Layers
    <3>2. Len(queue'[i]) \in 1..Len(queue'[i]) /\ queue'[i][Len(queue'[i])] = e
      <4>1. queue'[i] = Append(queue[i], e)
        BY <2>0
      <4>2. QED BY <4>1
    <3>3. QED BY <1>2, <2>1, <3>1, <3>2
  <2>2. ASSUME NEW j \in 1..(l - 1), NEW k \in 1..Len(queue[j]), queue[j][k] = Reply(cmd[l])
        PROVE  \E m \in 1..Len(queue'[j]) : queue'[j][m] = Reply(cmd'[l])
    <3>1. CASE j = i
      <4>1. queue'[i] = Append(queue[i], e)
        BY <2>0
      <4>2. k \in 1..Len(queue'[i]) /\ queue'[i][k] = queue[i][k]
        BY <3>1, <4>1
      <4>3. QED BY <1>2, <2>2, <3>1, <4>2
    <3>2. CASE j # i
      <4>1. queue'[j] = queue[j]
        BY <2>0, <3>2
      <4>2. QED BY <1>2, <2>2, <4>1
    <3>3. QED BY <3>1, <3>2
  <2>3. ASSUME NEW j \in 1..(l - 1), current[j] = Reply(cmd[l]), ~to[j], mode[j] # "idle"
        PROVE  current'[j] = Reply(cmd'[l]) /\ ~passed'[j] /\ mode'[j] # "idle"
    BY <1>4, <2>3 DEF Postpone
  <2>4. QED BY <1>1, <1>2, <2>1, <2>2, <2>3
<1>5. CASE Continue(i, e, to)
  <2>1. l # i /\ cmd[l] # cmd[i]
    BY <1>2, <1>5 DEF Continue, TypeOK, CommandsDiffer
  <2>2. e # Reply(cmd[l])
    BY <1>5, <2>1 DEF Continue, Reply
  <2>3. ASSUME NEW j \in 1..(l - 1), NEW k \in 1..Len(queue[j]), queue[j][k] = Reply(cmd[l])
        PROVE  \E m \in 1..Len(queue'[j]) : queue'[j][m] = Reply(cmd'[l])
    BY <1>2, <1>5, <2>3 DEF Continue
  <2>4. ASSUME NEW j \in 1..(l - 1), current[j] = Reply(cmd[l]), ~to[j], mode[j] # "idle"
        PROVE  current'[j] = Reply(cmd'[l]) /\ ~passed'[j] /\ mode'[j] # "idle"
    <3>1. j \in Layers
      BY DepthAssumption DEF Layers
    <3>2. QED BY <1>2, <1>5, <2>4 DEF Continue
  <2>5. QED BY <1>1, <1>2, <2>2, <2>3, <2>4
<1>6. QED BY <1>3, <1>4, <1>5 DEF HandleEvent

(* The extended invariant holds initially. *)
LEMMA InitReplies == Init => RInv
<1> SUFFICES ASSUME Init PROVE RInv
  OBVIOUS
<1>1. CommandsDiffer
  BY BoundsAssumption DEF Init, CommandsDiffer
<1>2. EventsWereSent
  BY DEF Init, EventsWereSent
<1>3. ReplyOnItsWay
  BY DEF Init, ReplyOnItsWay
<1>4. QED BY <1>1, <1>2, <1>3, InitInv DEF RInv

(* Every step keeps it: a reply leaves the hands of one layer only for     *)
(* those of the next.                                                      *)
LEMMA StepReplies == RInv /\ [Next]_vars => RInv'
<1> SUFFICES ASSUME RInv, [Next]_vars PROVE RInv'
  OBVIOUS
<1> USE DepthAssumption
<1>0. /\ TypeOK /\ CallStack /\ QueueDiscipline
      /\ CommandsDiffer /\ EventsWereSent /\ ReplyOnItsWay
  BY DEF RInv, IInv
<1>i. IInv'
  BY StepInv DEF RInv
<1>1. CASE ServerEventIo
  <2>1. 1 \in Layers /\ active = 1 - 1
    BY <1>1 DEF ServerEventIo, Layers
  <2>2. Io(arrived + 1) \in Sendable
    <3>1. arrived + 1 \in 1..MaxEvents
      BY <1>0, <1>1, BoundsAssumption DEF ServerEventIo, TypeOK
    <3>2. QED BY <3>1 DEF Sendable
  <2>3. /\ passed \in [Layers -> BOOLEAN] /\ HandleEvent(1, Io(arrived + 1), passed)
        /\ arrived' <= MaxEvents /\ issued' = issued /\ outstanding' = outstanding
    BY <1>0, <1>1, BoundsAssumption DEF ServerEventIo, TypeOK
  <2>4. CommandsDiffer'
    BY <1>0, <2>1, <2>3, HandleEventCommands
  <2>5. EventsWereSent'
    BY <1>0, <2>1, <2>2, <2>3, HandleEventSent
  <2>6. ReplyOnItsWay'
    BY <1>0, <2>1, <2>3, HandleEventReplies DEF ReplyOnItsWay
  <2>7. QED BY <1>i, <2>4, <2>5, <2>6 DEF RInv
<1>2. ASSUME NEW c \in outstanding, ServerEventReply(c)
      PROVE  RInv'
  <2>1. 1 \in Layers /\ active = 1 - 1
    BY <1>2 DEF ServerEventReply, Layers
  <2>2. Reply(c) \in Sendable
    BY <1>0, BoundsAssumption DEF TypeOK, CommandsDiffer, Sendable
  <2>3. /\ passed \in [Layers -> BOOLEAN] /\ HandleEvent(1, Reply(c), passed)
        /\ arrived' = arrived /\ issued' = issued /\ outstanding' = outstanding \ {c}
    BY <1>0, <1>2 DEF ServerEventReply, TypeOK
  <2>4. CommandsDiffer'
    <3>1. arrived' <= MaxEvents /\ outstanding' \subseteq outstanding
      BY <1>0, <2>3 DEF CommandsDiffer
    <3>2. QED BY <1>0, <2>1, <2>3, <3>1, HandleEventCommands
  <2>5. EventsWereSent'
    BY <1>0, <2>1, <2>2, <2>3, HandleEventSent
  <2>6. ReplyOnItsWay'
    <3>1. ASSUME NEW l \in Layers, mode[l] = "paused"
          PROVE  \/ cmd[l] \in outstanding'
                 \/ Reply(c) = Reply(cmd[l]) /\ 1 <= l
                 \/ \E j \in 1..(l - 1) :
                      \/ \E k \in 1..Len(queue[j]) : queue[j][k] = Reply(cmd[l])
                      \/ current[j] = Reply(cmd[l]) /\ ~passed[j] /\ mode[j] # "idle"
      <4>1. 1 <= l
        BY DEF Layers
      <4>2. QED BY <1>0, <2>3, <3>1, <4>1 DEF ReplyOnItsWay
    <3>2. QED BY <1>0, <2>1, <2>3, <3>1, HandleEventReplies
  <2>7. QED BY <1>i, <2>4, <2>5, <2>6 DEF RInv
<1>3. ASSUME NEW i \in Layers, Forward(i)
      PROVE  RInv'
  <2> DEFINE to == [passed EXCEPT ![i] = TRUE]
  <2>1. /\ i + 1 \in Layers /\ active = (i + 1) - 1
        /\ mode[i] # "idle" /\ current[i] \in Sendable
    BY <1>0, <1>3 DEF Forward, CallStack, EventsWereSent, Layers
  <2>2. /\ to \in [Layers -> BOOLEAN] /\ HandleEvent(i + 1, current[i], to)
        /\ arrived' = arrived /\ issued' = issued /\ outstanding' = outstanding
        /\ \A j \in Layers : j # i => to[j] = passed[j]
    BY <1>0, <1>3 DEF Forward, TypeOK
  <2> HIDE DEF to
  <2>3. CommandsDiffer'
    BY <1>0, <2>1, <2>2, HandleEventCommands DEF CommandsDiffer
  <2>4. EventsWereSent'
    BY <1>0, <2>1, <2>2, HandleEventSent
  <2>5. ReplyOnItsWay'
    <3>1. ASSUME NEW l \in Layers, mode[l] = "paused", cmd[l] \notin outstanding'
          PROVE  \/ current[i] = Reply(cmd[l]) /\ i + 1 <= l
                 \/ \E j \in 1..(l - 1) :
                      \/ \E k \in 1..Len(queue[j]) : queue[j][k] = Reply(cmd[l])
                      \/ current[j] = Reply(cmd[l]) /\ ~to[j] /\ mode[j] # "idle"
      <4>1. PICK j \in 1..(l - 1) :
              \/ \E k \in 1..Len(queue[j]) : queue[j][k] = Reply(cmd[l])
              \/ current[j] = Reply(cmd[l]) /\ ~passed[j] /\ mode[j] # "idle"
        BY <1>0, <2>2, <3>1 DEF ReplyOnItsWay
      <4>2. CASE j = i
        BY <4>1, <4>2
      <4>3. CASE j # i
        <5>1. to[j] = passed[j]
          BY <2>2, <4>3 DEF Layers
        <5>2. QED BY <4>1, <5>1
      <4>4. QED BY <4>2, <4>3
    <3>2. QED BY <1>0, <2>1, <2>2, <3>1, HandleEventReplies
  <2>6. QED BY <1>i, <2>3, <2>4, <2>5 DEF RInv
<1>4. ASSUME NEW i \in Layers, Block(i)
      PROVE  RInv'
  <2>1. mode[i] = "running"
    BY <1>0, <1>4 DEF Block, CallStack, Layers
  <2>2. CommandsDiffer'
    <3>1. /\ issued \in Nat /\ issued' = issued + 1 /\ issued' <= MaxCommands
          /\ arrived' <= MaxEvents
      BY <1>0, <1>4, BoundsAssumption DEF Block, CommandsDiffer, TypeOK
    <3>2. outstanding' \subseteq 1..issued'
      BY <1>0, <1>4, <3>1 DEF Block, CommandsDiffer
    <3>3. \A j \in Layers : mode'[j] = "paused" =>
            \/ j = i /\ cmd'[j] = issued + 1
            \/ j # i /\ mode[j] = "paused" /\ cmd'[j] = cmd[j] /\ cmd[j] \in 1..issued
      BY <1>0, <1>4 DEF Block, CommandsDiffer, TypeOK
    <3>4. \A j \in Layers : mode'[j] = "paused" => cmd'[j] \in 1..issued'
      BY <3>1, <3>3
    <3>5. ASSUME NEW j \in Layers, NEW k \in Layers, mode'[j] = "paused",
                 mode'[k] = "paused", j # k
          PROVE  cmd'[j] # cmd'[k]
      BY <1>0, <3>1, <3>3, <3>5 DEF CommandsDiffer
    <3>6. QED BY <3>1, <3>2, <3>4, <3>5 DEF CommandsDiffer
  <2>3. EventsWereSent'
    BY <1>0, <1>4, <2>1 DEF Block, EventsWereSent
  <2>4. ReplyOnItsWay'
    <3>1. ASSUME NEW l \in Layers, mode'[l] = "paused", cmd'[l] \notin outstanding'
          PROVE  \E j \in 1..(l - 1) :
                   \/ \E k \in 1..Len(queue'[j]) : queue'[j][k] = Reply(cmd'[l])
                   \/ current'[j] = Reply(cmd'[l]) /\ ~passed'[j] /\ mode'[j] # "idle"
      <4>1. l # i /\ mode[l] = "paused" /\ cmd'[l] = cmd[l] /\ cmd[l] \notin outstanding
        BY <1>0, <1>4, <3>1 DEF Block, TypeOK
      <4>2. PICK j \in 1..(l - 1) :
              \/ \E k \in 1..Len(queue[j]) : queue[j][k] = Reply(cmd[l])
              \/ current[j] = Reply(cmd[l]) /\ ~passed[j] /\ mode[j] # "idle"
        BY <1>0, <4>1 DEF ReplyOnItsWay
      <4>3. mode[j] # "idle" => mode'[j] # "idle"
        BY <1>4 DEF Block
      <4>4. QED BY <1>4, <4>1, <4>2 DEF Block
    <3>2. QED BY <3>1 DEF ReplyOnItsWay
  <2>5. QED BY <1>i, <2>2, <2>3, <2>4 DEF RInv
<1>5. ASSUME NEW i \in Layers, Return(i)
      PROVE  RInv'
  <2>1. CommandsDiffer'
    BY <1>0, <1>5 DEF Return, CommandsDiffer
  <2>2. EventsWereSent'
    BY <1>0, <1>5 DEF Return, EventsWereSent
  <2>3. ReplyOnItsWay'
    <3>1. ASSUME NEW l \in Layers, mode'[l] = "paused", cmd'[l] \notin outstanding'
          PROVE  \E j \in 1..(l - 1) :
                   \/ \E k \in 1..Len(queue'[j]) : queue'[j][k] = Reply(cmd'[l])
                   \/ current'[j] = Reply(cmd'[l]) /\ ~passed'[j] /\ mode'[j] # "idle"
      <4>1. mode[l] = "paused" /\ cmd'[l] = cmd[l] /\ cmd[l] \notin outstanding
        BY <1>5, <3>1 DEF Return
      <4>2. PICK j \in 1..(l - 1) :
              \/ \E k \in 1..Len(queue[j]) : queue[j][k] = Reply(cmd[l])
              \/ current[j] = Reply(cmd[l]) /\ ~passed[j] /\ mode[j] # "idle"
        BY <1>0, <4>1 DEF ReplyOnItsWay
      <4>3. current[j] = Reply(cmd[l]) /\ ~passed[j] => j # i
        BY <1>5 DEF Return, MayEnd, Reply
      <4>4. j # i => mode'[j] = mode[j]
        BY <1>5 DEF Return
      <4>5. QED BY <1>5, <4>2, <4>3 DEF Return
    <3>2. QED BY <3>1 DEF ReplyOnItsWay
  <2>4. QED BY <1>i, <2>1, <2>2, <2>3 DEF RInv
<1>6. ASSUME NEW i \in Layers, NextQueued(i)
      PROVE  RInv'
  <2>1. /\ queue[i] \in Seq(Event) /\ queue[i] # << >>
        /\ mode[i] = "running"
    BY <1>0, <1>6 DEF NextQueued, MayEnd, CallStack, TypeOK
  <2>2. /\ Head(queue[i]) = queue[i][1] /\ 1 \in 1..Len(queue[i])
        /\ Len(Tail(queue[i])) = Len(queue[i]) - 1
        /\ \A k \in 1..Len(Tail(queue[i])) :
             k + 1 \in 1..Len(queue[i]) /\ Tail(queue[i])[k] = queue[i][k + 1]
    BY <2>1
  <2>3. CommandsDiffer'
    BY <1>0, <1>6 DEF NextQueued, CommandsDiffer
  <2>4. EventsWereSent'
    BY <1>0, <1>6 DEF NextQueued, EventsWereSent
  <2>5. ReplyOnItsWay'
    <3>1. ASSUME NEW l \in Layers, mode[l] = "paused", cmd[l] \notin outstanding
          PROVE  \E j \in 1..(l - 1) :
                   \/ \E k \in 1..Len(queue'[j]) : queue'[j][k] = Reply(cmd[l])
                   \/ current'[j] = Reply(cmd[l]) /\ ~passed'[j] /\ mode[j] # "idle"
      <4>1. PICK j \in 1..(l - 1) :
              \/ \E k \in 1..Len(queue[j]) : queue[j][k] = Reply(cmd[l])
              \/ current[j] = Reply(cmd[l]) /\ ~passed[j] /\ mode[j] # "idle"
        BY <1>0, <3>1 DEF ReplyOnItsWay
      <4>2. CASE j # i
        <5>1. j \in Layers
          BY DEF Layers
        <5>2. /\ queue'[j] = queue[j] /\ current'[j] = current[j]
              /\ passed'[j] = passed[j]
          BY <1>6, <4>2 DEF NextQueued
        <5>3. QED BY <4>1, <5>2
      <4>3. CASE j = i
        <5>1. PICK k \in 1..Len(queue[i]) : queue[i][k] = Reply(cmd[l])
          BY <1>6, <4>1, <4>3 DEF NextQueued, MayEnd, Reply
        <5>2. /\ queue'[i] = Tail(queue[i]) /\ current'[i] = Head(queue[i])
              /\ ~passed'[i]
          BY <1>0, <1>6 DEF NextQueued, TypeOK
        <5>3. CASE k = 1
          BY <2>1, <4>3, <5>1, <5>2, <5>3
        <5>4. CASE k # 1
          <6>1. k - 1 \in 1..Len(Tail(queue[i])) /\ (k - 1) + 1 = k
            BY <5>4
          <6>2. Tail(queue[i])[k - 1] = Reply(cmd[l])
            BY <5>1, <6>1
          <6>3. QED BY <4>3, <5>2, <6>1, <6>2
        <5>5. QED BY <5>3, <5>4
      <4>4. QED BY <4>2, <4>3
    <3>2. mode' = mode /\ cmd' = cmd /\ outstanding' = outstanding
      BY <1>6 DEF NextQueued
    <3>3. ASSUME NEW l \in Layers, mode'[l] = "paused", cmd'[l] \notin outstanding'
          PROVE  \E j \in 1..(l - 1) :
                   \/ \E k \in 1..Len(queue'[j]) : queue'[j][k] = Reply(cmd'[l])
                   \/ current'[j] = Reply(cmd'[l]) /\ ~passed'[j] /\ mode'[j] # "idle"
      BY <3>1, <3>2, <3>3
    <3>4. QED BY <3>3 DEF ReplyOnItsWay
  <2>6. QED BY <1>i, <2>3, <2>4, <2>5 DEF RInv
<1>7. CASE UNCHANGED vars
  <2>1. CommandsDiffer' /\ EventsWereSent' /\ ReplyOnItsWay'
    BY <1>0, <1>7 DEF vars, CommandsDiffer, EventsWereSent, ReplyOnItsWay
  <2>2. QED BY <1>i, <2>1 DEF RInv
<1>8. QED
  BY <1>1, <1>2, <1>3, <1>4, <1>5, <1>6, <1>7 DEF Next, LayerStep

(* The extended invariant holds throughout. *)
THEOREM RepliesInvariant == Spec => []RInv
<1>1. QED BY InitReplies, StepReplies, PTL DEF Spec

(* No step loses the reply to a command that suspended a layer, however    *)
(* many layers are suspended at the same time: it is owed, or a parent has *)
(* it in its queue or in hand (handle_event, __continue).                  *)
THEOREM LayerLosesNoReply == Spec => [][ReplyOnItsWay']_vars
<1>1. RInv /\ [Next]_vars => [ReplyOnItsWay']_vars
  BY StepReplies DEF RInv
<1>2. QED BY <1>1, RepliesInvariant, PTL DEF Spec

(* A call of handle_event puts the event into the layer's mailbox, passes  *)
(* it on at once, or (the reply to __continue) has nothing to do with it.  *)
LEMMA HandleEventRefines ==
  ASSUME IInv, NEW i \in Layers, active = i - 1, NEW e \in Sendable, NEW to,
         HandleEvent(i, e, to)
  PROVE  Mailbox!Next \/ UNCHANGED Mailbox!vars
<1>1. CASE StartHandler(i, e, to)
  <2>1. mode[i] = "idle"
    BY <1>1, DepthAssumption DEF IInv, TypeOK, CallStack, StartHandler, Layers
  <2>2. queue[i] = << >>
    BY <2>1 DEF IInv, QueueDiscipline
  <2>3. started[i] = received[i]
    BY <2>2, ConcatEmptySeq DEF IInv, TypeOK, InOrder
  <2>4. Mailbox!Pass(i, e)
    BY <1>1, <2>3 DEF StartHandler, Mailbox!Pass
  <2>5. QED BY <2>4 DEF Mailbox!Next, Sendable
<1>2. CASE Postpone(i, e, to)
  <2>1. Mailbox!Put(i, e)
    BY <1>2 DEF Postpone, Mailbox!Put
  <2>2. QED BY <2>1 DEF Mailbox!Next, Sendable
<1>3. CASE Continue(i, e, to)
  BY <1>3 DEF Continue, Mailbox!vars
<1>4. QED BY <1>1, <1>2, <1>3 DEF HandleEvent

(* Every step of the layers is a step of the mailboxes, or changes none. *)
LEMMA StepRefines == RInv /\ [Next]_vars => [Mailbox!Next]_(Mailbox!vars)
<1> SUFFICES ASSUME RInv, [Next]_vars PROVE Mailbox!Next \/ UNCHANGED Mailbox!vars
  OBVIOUS
<1> USE DepthAssumption
<1>0. IInv /\ TypeOK /\ CommandsDiffer /\ EventsWereSent
  BY DEF RInv, IInv
<1>1. CASE ServerEventIo
  <2>1. 1 \in Layers /\ active = 1 - 1 /\ arrived + 1 \in 1..MaxEvents
    BY <1>0, <1>1, BoundsAssumption DEF ServerEventIo, TypeOK, Layers
  <2>2. Io(arrived + 1) \in Sendable
    BY <2>1 DEF Sendable
  <2>3. QED BY <1>0, <1>1, <2>1, <2>2, HandleEventRefines DEF ServerEventIo
<1>2. ASSUME NEW c \in outstanding, ServerEventReply(c)
      PROVE  Mailbox!Next \/ UNCHANGED Mailbox!vars
  <2>1. 1 \in Layers /\ active = 1 - 1 /\ Reply(c) \in Sendable
    BY <1>0, <1>2, BoundsAssumption DEF ServerEventReply, TypeOK,
       CommandsDiffer, Sendable, Layers
  <2>2. QED BY <1>0, <1>2, <2>1, HandleEventRefines DEF ServerEventReply
<1>3. ASSUME NEW i \in Layers, Forward(i)
      PROVE  Mailbox!Next \/ UNCHANGED Mailbox!vars
  <2>1. i + 1 \in Layers /\ active = (i + 1) - 1 /\ current[i] \in Sendable
    BY <1>0, <1>3 DEF Forward, IInv, CallStack, EventsWereSent, Layers
  <2>2. QED BY <1>0, <1>3, <2>1, HandleEventRefines DEF Forward
<1>4. ASSUME NEW i \in Layers, Block(i) \/ Return(i)
      PROVE  UNCHANGED Mailbox!vars
  BY <1>4 DEF Block, Return, Mailbox!vars
<1>5. ASSUME NEW i \in Layers, NextQueued(i)
      PROVE  Mailbox!Next
  <2> DEFINE s == started[i]
             q == queue[i]
  <2>1. s \in Seq(Event) /\ q \in Seq(Event) /\ q # << >> /\ s \o q = received[i]
    BY <1>0, <1>5 DEF NextQueued, TypeOK, IInv, InOrder
  <2>2. started' = [started EXCEPT ![i] = Append(@, Head(q))] /\ received' = received
    BY <1>5 DEF NextQueued
  <2> HIDE DEF s, q
  <2>3. Len(q) \in Nat \ {0} /\ Len(s) \in Nat /\ Head(q) = q[1]
    BY <2>1
  <2>4. Len(received[i]) = Len(s) + Len(q)
    BY <2>1
  <2>5. received[i][Len(s) + 1] = Head(q)
    <3>1. Len(s) + 1 \in 1..(Len(s) + Len(q)) /\ ~(Len(s) + 1 <= Len(s))
      BY <2>3
    <3>2. (s \o q)[Len(s) + 1] = q[(Len(s) + 1) - Len(s)]
      BY <3>1
    <3>3. (Len(s) + 1) - Len(s) = 1
      OBVIOUS
    <3>4. QED BY <2>1
  <2>6. Mailbox!Take(i)
    <3>1. Len(started[i]) < Len(received[i])
      BY <2>3, <2>4 DEF s
    <3>2. received[i][Len(started[i]) + 1] = Head(q)
      BY <2>5 DEF s
    <3>3. QED BY <2>2, <3>1, <3>2 DEF Mailbox!Take
  <2>7. QED BY <2>6 DEF Mailbox!Next
<1>6. CASE UNCHANGED vars
  BY <1>6 DEF vars, Mailbox!vars
<1>7. QED
  BY <1>1, <1>2, <1>3, <1>4, <1>5, <1>6 DEF Next, LayerStep

(* Every layer of a stack of any depth implements a mailbox: events are    *)
(* taken out in the order in which they were put in, each at most once.    *)
(* That they are all taken out one day is liveness, and left to TLC.       *)
THEOREM LayerIsMailbox ==
  Spec => Mailbox!Init /\ [][Mailbox!Next]_(Mailbox!vars)
<1>1. Init => Mailbox!Init
  BY DEF Init, Mailbox!Init
<1>2. QED BY <1>1, StepRefines, RepliesInvariant, PTL DEF Spec
=============================================================================
