----------------------------- MODULE TcpProofs -----------------------------
(***************************************************************************)
(* Proofs about TcpLayer, for any number of messages, with and without     *)
(* hooks, injection and lost connections: what is relayed, what a          *)
(* half-close comes after, and how flows end.                              *)
(***************************************************************************)
EXTENDS TcpLayer, SequenceTheorems, TLAPS

Finished == {"closing", "half_closed", "gone"}
\* Phases in which the layer relays, or will.
Open == Opening \cup {"start_hook", "relay", "message_hook"}

\* Messages are numbered, on their arrival and where they are written.
Numbered ==
  \A c \in Conns : /\ \A k \in 1..Len(arrived[c]) : arrived[c][k] = k
                   /\ \A k \in 1..Len(out[c]) : out[c][k] = k

NotAhead == \A c \in Conns : Len(out[Other(c)]) <= Len(arrived[c])

\* The last message of c that the layer has taken up, if it has kept up.
Handling(c) ==
  IF phase = "message_hook" /\ current.conn = c THEN current.n ELSE Len(out[Other(c)])

\* While there is somebody to relay to, nothing is missing: what has arrived was
\* written, is in its hook, or waits in the queue.
InFlight ==
  phase \in Open =>
    \A c \in Conns : handler[Other(c)] # "gone" =>
      /\ Handling(c) <= Len(arrived[c])
      /\ phase = "message_hook" /\ current.conn = c => current.n = Len(out[Other(c)]) + 1
      /\ \A k \in 1..Len(queue) :
           queue[k].kind = "data" /\ queue[k].conn = c => queue[k].n > Handling(c)
      /\ \A m \in (Handling(c) + 1)..Len(arrived[c]) :
           \E k \in 1..Len(queue) : queue[k] = Data(c, m)

\* The events of a connection are queued in their order, and its end is last.
QueueOrder ==
  /\ \A k \in 1..Len(queue) :
       /\ queue[k].kind = "data" => queue[k].n <= Len(arrived[queue[k].conn])
       /\ queue[k].kind = "closed" => handler[queue[k].conn] \in Finished
       /\ queue[k].conn = "server" => handler["server"] \in Finished \cup {"read"}
  /\ \A k, l \in 1..Len(queue) : k < l /\ queue[k].conn = queue[l].conn =>
       /\ queue[k].kind = "data"
       /\ queue[l].kind = "data" => queue[k].n < queue[l].n

\* The server connection is served from the moment the layer relays; an attempt
\* to connect that was cancelled in a hook leaves the layer where it is.
ServerServed ==
  /\ handler["client"] # "none"
  /\ phase \in {"relay", "message_hook", "end_hook"} => handler["server"] # "none"
  /\ phase \in {"connecting", "error_hook"} => handler["server"] = "none"
  /\ phase \in {"connect_hook", "connected_hook", "refused_hook"} =>
       \/ handler["server"] = "none"
       \/ handler["server"] = "gone" /\ "server" \in cancelled
  /\ phase \in Opening =>
       \A k \in 1..Len(queue) : queue[k].conn = "client"
  /\ phase = "connected_hook" => state["server"] = {"R", "W"}

\* A connection that we have half-closed has seen everything, and nothing more
\* is coming.
HalfClosed ==
  \A c \in Conns : handler[c] = "read" /\ state[c] = {"R"} =>
    handler[Other(c)] \in Finished /\ out[c] = arrived[Other(c)]

\* The layer runs tcp_error or tcp_end when it gives up, and not before.
EndsFlow ==
  /\ phase \in Open => ended = << >>
  /\ Len(ended) <= 1

\* A connection that can still be read is open for reading, or its handler has
\* been told to stop.
ReadsOn ==
  phase \in Open =>
    \A c \in Conns : handler[c] = "read" => "R" \in state[c] \/ c \in cancelled

-----------------------------------------------------------------------------
(* Without hooks and disturbances.                                         *)

\* What arrives before the server connection is there queues up; afterwards
\* there is never more than one event in the queue.
OneAtATime ==
  ignore =>
    /\ phase \in Opening \cup {"relay", "done"}
    /\ phase = "relay" /\ Len(queue) > 1 =>
         state["server"] = {"R", "W"} /\ \A k \in 1..Len(queue) : queue[k].conn = "client"

Undisturbed == ignore /\ ~disturbed

OpensInPeace ==
  Undisturbed /\ phase \in Opening =>
    /\ cancelled = {}
    /\ handler["client"] # "gone"
    /\ state["client"] = IF handler["client"] = "read" THEN {"R", "W"} ELSE {"W"}

\* The layer has written its last to c, or soon will not be able to.
Stopped(c) ==
  \/ c \in cancelled
  \/ handler[c] = "gone"
  \/ handler[c] = "read" /\ state[c] # {"R", "W"}
  \/ handler[c] \in {"closing", "half_closed"} /\ state[c] # {"W"}

\* Only a peer that has had everything is cut off.
StoppedIsComplete ==
  Undisturbed /\ phase = "relay" =>
    \A c \in Conns : Stopped(c) =>
      handler[Other(c)] \in Finished /\ out[c] = arrived[Other(c)]

DoneIsComplete ==
  Undisturbed /\ phase = "done" /\ handler["server"] # "none" =>
    \A c \in Conns :
      /\ out[Other(c)] = arrived[c]
      /\ handler[c] = "read" => c \in cancelled /\ state[c] = {}

IInv ==
  /\ TypeOK /\ Numbered /\ NotAhead /\ InFlight /\ QueueOrder /\ ServerServed
  /\ HalfClosed /\ EndsFlow /\ ReadsOn
  /\ OneAtATime /\ OpensInPeace /\ StoppedIsComplete /\ DoneIsComplete

-----------------------------------------------------------------------------
(* Lemmas about the histories and the queue.                               *)

LEMMA PrefixOfNumbered ==
  ASSUME TypeOK, Numbered, NotAhead, NEW c \in Conns
  PROVE  IsPrefix(out[Other(c)], arrived[c])
<1> DEFINE s == out[Other(c)]
           t == arrived[c]
<1>1. /\ s \in Seq(1..MaxMessages) /\ t \in Seq(1..MaxMessages)
      /\ Len(s) <= Len(t)
      /\ \A k \in 1..Len(s) : s[k] = k
      /\ \A k \in 1..Len(t) : t[k] = k
  BY DEF TypeOK, Numbered, NotAhead, Conns, Other
<1> HIDE DEF s, t
<1>2. IsPrefix(s, t)
  BY <1>1 DEF IsPrefix
<1>3. QED BY <1>2 DEF s, t

LEMMA SameLengthSame ==
  ASSUME TypeOK, Numbered, NEW c \in Conns, NEW d \in Conns,
         Len(out[d]) = Len(arrived[c])
  PROVE  out[d] = arrived[c]
BY SeqEqual DEF TypeOK, Numbered

LEMMA QueueAppend ==
  ASSUME TypeOK, NEW e \in Event, Deliver(e)
  PROVE  /\ queue' \in Seq(Event) /\ Len(queue) \in Nat
         /\ Len(queue') = Len(queue) + 1
         /\ \A k \in 1..Len(queue) : queue'[k] = queue[k]
         /\ queue'[Len(queue) + 1] = e
BY DEF TypeOK, Deliver

LEMMA QueueTail ==
  ASSUME TypeOK, queue # << >>, queue' = Tail(queue)
  PROVE  /\ Head(queue) \in Event /\ Head(queue) = queue[1]
         /\ 1 \in 1..Len(queue) /\ Len(queue) \in Nat
         /\ queue' \in Seq(Event) /\ Len(queue') = Len(queue) - 1
         /\ \A k \in 1..Len(queue') : k + 1 \in 1..Len(queue) /\ queue'[k] = queue[k + 1]
BY DEF TypeOK

(* The first message in the queue is the next one, if it can be written.   *)
LEMMA FirstIsNext ==
  ASSUME TypeOK, InFlight, QueueOrder, phase = "relay", queue # << >>, NEW c \in Conns,
         queue[1].kind = "data", queue[1].conn = c, handler[Other(c)] # "gone"
  PROVE  queue[1].n = Len(out[Other(c)]) + 1 /\ queue[1].n <= Len(arrived[c])
<1> DEFINE h == Len(out[Other(c)])
           l == Len(arrived[c])
<1>0. /\ h \in Nat /\ l \in Nat /\ 1 \in 1..Len(queue) /\ Len(queue) \in Nat
      /\ queue[1] \in Event
  BY DEF TypeOK
<1>1. /\ Handling(c) = h
      /\ queue[1].n > h
      /\ \A m \in (h + 1)..l : \E k \in 1..Len(queue) : queue[k] = Data(c, m)
  BY DEF InFlight, Handling, Open, Opening
<1>2. queue[1].n <= l
  BY DEF QueueOrder
<1>3. queue[1].n \in Nat
  BY <1>0 DEF Event
<1> HIDE DEF h, l
<1>4. PICK k \in 1..Len(queue) : queue[k] = Data(c, h + 1)
  <2>1. h + 1 \in (h + 1)..l
    BY <1>0, <1>1, <1>2, <1>3
  <2>2. QED BY <1>1, <2>1
<1>5. CASE k = 1
  BY <1>2, <1>4, <1>5 DEF Data, h, l
<1>6. CASE k > 1
  <2>1. queue[1].n < queue[k].n
    BY <1>4, <1>6 DEF QueueOrder, Data
  <2>2. queue[k].n = h + 1
    BY <1>4 DEF Data
  <2>3. QED BY <1>0, <1>1, <1>3, <2>1, <2>2
<1>7. QED BY <1>5, <1>6

(* When the end of c is next, all its messages are written, if they could  *)
(* be.                                                                     *)
LEMMA EndIsLast ==
  ASSUME TypeOK, Numbered, NotAhead, InFlight, QueueOrder, phase = "relay", NEW c \in Conns,
         \/ queue = << >>
         \/ queue[1].kind = "closed" /\ queue[1].conn = c
         \/ ~(Len(queue) > 1) /\ queue[1].kind = "closed",
         handler[Other(c)] # "gone"
  PROVE  out[Other(c)] = arrived[c]
<1> DEFINE h == Len(out[Other(c)])
           l == Len(arrived[c])
<1>0. h \in Nat /\ l \in Nat /\ h <= l /\ Other(c) \in Conns /\ queue \in Seq(Event)
  BY DEF TypeOK, NotAhead, Conns, Other
<1>1. \A m \in (h + 1)..l : \E k \in 1..Len(queue) : queue[k] = Data(c, m)
  BY DEF InFlight, Handling, Open, Opening
<1> HIDE DEF h, l
<1>2. ~ \E k \in 1..Len(queue) : queue[k].kind = "data" /\ queue[k].conn = c
  <2>1. SUFFICES ASSUME NEW k \in 1..Len(queue), queue[k].kind = "data", queue[k].conn = c
                 PROVE  FALSE
    OBVIOUS
  <2>2. QED BY <2>1 DEF QueueOrder
<1>3. ASSUME h < l PROVE FALSE
  <2>1. h + 1 \in (h + 1)..l
    BY <1>0, <1>3
  <2>2. PICK k \in 1..Len(queue) : queue[k] = Data(c, h + 1)
    BY <1>1, <2>1
  <2>3. QED BY <1>2, <2>2 DEF Data
<1>4. h = l
  BY <1>0, <1>3
<1>5. QED BY <1>0, <1>4, SameLengthSame DEF h, l

(* The invariant holds initially. *)
LEMMA InitInv == Init => IInv
<1> SUFFICES ASSUME Init PROVE IInv
  OBVIOUS
<1>1. /\ handler \in [Conns -> {"none", "read"}] /\ state \in [Conns -> {{}, {"R", "W"}}]
      /\ handler["client"] = "read"
      /\ \A c \in Conns : handler[c] = "read" => state[c] = {"R", "W"}
      /\ phase \in {"start_hook", "connect_hook", "relay"}
      /\ phase = "relay" => handler["server"] = "read"
      /\ phase = "connect_hook" => handler["server"] = "none" /\ state["server"] = {}
      /\ ignore => phase # "start_hook"
  <2>1. PICK there \in {{"client"}, Conns} :
          /\ state = [c \in Conns |-> IF c \in there THEN {"R", "W"} ELSE {}]
          /\ handler = [c \in Conns |-> IF c \in there THEN "read" ELSE "none"]
    BY DEF Init
  <2>2. phase = IF ignore THEN (IF handler["server"] = "none" THEN "connect_hook" ELSE "relay")
                ELSE "start_hook"
    BY DEF Init, Start
  <2>3. "client" \in there /\ there \subseteq Conns /\ "server" \in Conns
    BY DEF Conns
  <2>4. QED BY <2>1, <2>2, <2>3
<1>2. TypeOK
  <2>1. phase \in Hooks \cup {"relay"}
    BY <1>1 DEF Hooks
  <2>2. current \in Event /\ queue \in Seq(Event)
    BY DEF Init, Event, Closed, Conns
  <2>3. /\ arrived \in [Conns -> Seq(1..MaxMessages)] /\ out \in [Conns -> Seq(1..MaxMessages)]
        /\ ended \in Seq({"end", "error"})
    BY DEF Init
  <2>4. injected \in 0..MaxInjected
    BY BoundsAssumption DEF Init
  <2>5. ignore \in Ignoring /\ cancelled = {} /\ cleaned = FALSE /\ disturbed = FALSE
    BY DEF Init
  <2>6. state \in [Conns -> SUBSET {"R", "W"}]
    BY <1>1
  <2>7. handler \in [Conns -> {"none", "read", "closing", "half_closed", "gone"}]
    BY <1>1
  <2>8. QED BY <2>1, <2>2, <2>3, <2>4, <2>5, <2>6, <2>7 DEF TypeOK
<1>3. /\ queue = << >> /\ ended = << >> /\ cancelled = {}
      /\ \A c \in Conns : arrived[c] = << >> /\ out[c] = << >>
  BY DEF Init
<1>4. Numbered /\ NotAhead /\ QueueOrder /\ EndsFlow
  BY <1>3 DEF Numbered, NotAhead, QueueOrder, EndsFlow, Conns, Other
<1>5. ServerServed /\ HalfClosed /\ ReadsOn
  BY <1>1, <1>3 DEF ServerServed, HalfClosed, ReadsOn, Conns, Opening
<1>6. InFlight
  <2>1. phase # "message_hook"
    BY <1>1
  <2>2. QED BY <1>3, <2>1 DEF InFlight, Handling, Conns, Other
<1>7. OneAtATime /\ DoneIsComplete
  BY <1>1, <1>3 DEF OneAtATime, DoneIsComplete, Opening
<1>8. OpensInPeace
  BY <1>1, <1>3 DEF OpensInPeace, Opening, Conns
<1>9. StoppedIsComplete
  BY <1>1, <1>3 DEF StoppedIsComplete, Stopped, Conns
<1>10. QED BY <1>2, <1>4, <1>5, <1>6, <1>7, <1>8, <1>9 DEF IInv

(* The end of a connection joins the queue behind all its messages. *)
LEMMA ClosedArrives ==
  ASSUME TypeOK, InFlight, QueueOrder, NEW c \in Conns, handler[c] = "read",
         handler' = [handler EXCEPT ![c] = "closing"], Deliver(Closed(c)),
         UNCHANGED <<phase, current, arrived, out>>
  PROVE  InFlight' /\ QueueOrder'
<1>1. Closed(c) \in Event /\ Closed(c).kind = "closed" /\ Closed(c).conn = c
  BY DEF Closed, Event
<1>2. /\ queue' \in Seq(Event) /\ Len(queue) \in Nat
      /\ Len(queue') = Len(queue) + 1
      /\ \A k \in 1..Len(queue) : queue'[k] = queue[k]
      /\ queue'[Len(queue) + 1] = Closed(c)
  BY <1>1, QueueAppend
<1>3. \A d \in Conns : handler'[d] = IF d = c THEN "closing" ELSE handler[d]
  BY DEF TypeOK
<1>4. InFlight'
  <2>1. SUFFICES ASSUME phase \in Open, NEW d \in Conns, handler[Other(d)] # "gone"
        PROVE  (/\ Handling(d) <= Len(arrived[d])
                /\ phase = "message_hook" /\ current.conn = d => current.n = Len(out[Other(d)]) + 1
                /\ \A k \in 1..Len(queue) :
                     queue[k].kind = "data" /\ queue[k].conn = d => queue[k].n > Handling(d)
                /\ \A m \in (Handling(d) + 1)..Len(arrived[d]) :
                     \E k \in 1..Len(queue) : queue[k] = Data(d, m))'
    BY DEF InFlight
  <2>2. Handling(d)' = Handling(d)
    BY DEF Handling
  <2>3. \A k \in 1..Len(queue') :
           queue'[k].kind = "data" /\ queue'[k].conn = d => queue'[k].n > Handling(d)
    BY <1>1, <1>2, <2>1 DEF InFlight
  <2>4. \A m \in (Handling(d) + 1)..Len(arrived[d]) :
           \E k \in 1..Len(queue') : queue'[k] = Data(d, m)
    BY <1>2, <2>1 DEF InFlight
  <2>5. QED BY <2>1, <2>2, <2>3, <2>4 DEF InFlight
<1>5. QueueOrder'
  <2>1. \A k \in 1..Len(queue') : k \in 1..Len(queue) \/ k = Len(queue) + 1
    BY <1>2
  <2>2. ASSUME NEW k \in 1..Len(queue')
        PROVE  /\ queue'[k].kind = "data" => queue'[k].n <= Len(arrived[queue'[k].conn])
               /\ queue'[k].kind = "closed" => handler'[queue'[k].conn] \in Finished
               /\ queue'[k].conn = "server" => handler'["server"] \in Finished \cup {"read"}
    BY <1>1, <1>2, <1>3 DEF QueueOrder, Finished
  <2>3. ASSUME NEW k \in 1..Len(queue'), NEW l \in 1..Len(queue'), k < l,
               queue'[k].conn = queue'[l].conn
        PROVE  /\ queue'[k].kind = "data"
               /\ queue'[l].kind = "data" => queue'[k].n < queue'[l].n
    <3>1. k \in 1..Len(queue) /\ queue'[k] = queue[k] /\ queue[k] \in Event
      BY <1>2, <2>3
    <3>2. CASE l \in 1..Len(queue)
      BY <1>2, <2>3, <3>2 DEF QueueOrder
    <3>3. CASE l = Len(queue) + 1
      BY <1>1, <1>2, <2>3, <3>1, <3>3 DEF QueueOrder, Finished, Event
    <3>4. QED BY <2>1, <3>2, <3>3
  <2>4. QED BY <2>2, <2>3 DEF QueueOrder
<1>6. QED BY <1>4, <1>5

(* A message arrives, or is injected. *)
LEMMA ArriveKeeps ==
  ASSUME IInv, Settled, NEW c \in Conns, handler[c] = "read",
         c \notin cancelled \/ "R" \in state[c], Arrive(c),
         injected' \in 0..MaxInjected,
         UNCHANGED <<phase, current, state, handler, cancelled, out, ended, cleaned,
                     disturbed, ignore>>
  PROVE  IInv'
<1>0. /\ TypeOK /\ Numbered /\ NotAhead /\ InFlight /\ QueueOrder /\ ServerServed
      /\ HalfClosed /\ EndsFlow /\ ReadsOn
      /\ OneAtATime /\ OpensInPeace /\ StoppedIsComplete /\ DoneIsComplete
  BY DEF IInv
<1> DEFINE n == Len(arrived[c]) + 1
<1>1. /\ n \in 1..MaxMessages /\ n = Len(arrived[c]) + 1 /\ Len(arrived[c]) \in Nat
      /\ arrived' = [arrived EXCEPT ![c] = Append(arrived[c], n)]
      /\ Data(c, n) \in Event /\ Deliver(Data(c, n))
  BY BoundsAssumption DEF Arrive, Data, Event
<1> HIDE DEF n
<1>2. /\ queue' \in Seq(Event) /\ Len(queue) \in Nat
      /\ Len(queue') = Len(queue) + 1
      /\ \A k \in 1..Len(queue) : queue'[k] = queue[k]
      /\ queue'[Len(queue) + 1] = Data(c, n)
  BY <1>0, <1>1, QueueAppend
<1>3. /\ Append(arrived[c], n) \in Seq(1..MaxMessages)
      /\ Len(Append(arrived[c], n)) = n
      /\ \A k \in 1..(n - 1) : Append(arrived[c], n)[k] = arrived[c][k]
      /\ Append(arrived[c], n)[n] = n
  BY <1>0, <1>1 DEF TypeOK
<1>4. /\ arrived'[c] = Append(arrived[c], n)
      /\ Len(arrived'[c]) = n
      /\ \A d \in Conns : d # c => arrived'[d] = arrived[d]
      /\ \A d \in Conns : Len(arrived[d]) \in Nat /\ Len(arrived[d]) <= Len(arrived'[d])
  BY <1>0, <1>1 DEF TypeOK
<1>5. Data(c, n).kind = "data" /\ Data(c, n).conn = c /\ Data(c, n).n = n
  BY DEF Data
<1>6. \A k \in 1..Len(queue') : k \in 1..Len(queue) \/ k = Len(queue) + 1
  BY <1>2
<1>7. TypeOK'
  BY <1>0, <1>1, <1>2 DEF TypeOK
<1>8. Numbered' /\ NotAhead'
  <2>1. \A k \in 1..n : Append(arrived[c], n)[k] = k
    BY <1>0, <1>3 DEF Numbered
  <2>2. Numbered'
    BY <1>0, <1>4, <2>1 DEF Numbered
  <2>3. NotAhead'
    BY <1>0, <1>4 DEF NotAhead, TypeOK, Conns, Other
  <2>4. QED BY <2>2, <2>3
<1>9. InFlight'
  <2>1. SUFFICES ASSUME phase \in Open, NEW d \in Conns, handler[Other(d)] # "gone"
        PROVE  (/\ Handling(d) <= Len(arrived[d])
                /\ phase = "message_hook" /\ current.conn = d => current.n = Len(out[Other(d)]) + 1
                /\ \A k \in 1..Len(queue) :
                     queue[k].kind = "data" /\ queue[k].conn = d => queue[k].n > Handling(d)
                /\ \A m \in (Handling(d) + 1)..Len(arrived[d]) :
                     \E k \in 1..Len(queue) : queue[k] = Data(d, m))'
    BY DEF InFlight
  <2>2. Handling(d)' = Handling(d) /\ Handling(d) \in Nat
    BY <1>0 DEF Handling, TypeOK, Event
  <2>3. /\ Handling(d) <= Len(arrived[d])
        /\ phase = "message_hook" /\ current.conn = d => current.n = Len(out[Other(d)]) + 1
        /\ \A k \in 1..Len(queue) :
             queue[k].kind = "data" /\ queue[k].conn = d => queue[k].n > Handling(d)
        /\ \A m \in (Handling(d) + 1)..Len(arrived[d]) :
             \E k \in 1..Len(queue) : queue[k] = Data(d, m)
    BY <1>0, <2>1 DEF InFlight
  <2>4. Handling(d) <= Len(arrived'[d])
    BY <1>4, <2>2, <2>3
  <2>5. ASSUME NEW k \in 1..Len(queue'), queue'[k].kind = "data", queue'[k].conn = d
        PROVE  queue'[k].n > Handling(d)
    <3>1. CASE k \in 1..Len(queue)
      BY <1>2, <2>3, <2>5, <3>1
    <3>2. CASE k = Len(queue) + 1
      BY <1>1, <1>2, <1>5, <2>2, <2>3, <2>5, <3>2
    <3>3. QED BY <1>6, <3>1, <3>2
  <2>6. ASSUME NEW m \in (Handling(d) + 1)..Len(arrived'[d])
        PROVE  \E k \in 1..Len(queue') : queue'[k] = Data(d, m)
    <3>1. CASE m \in (Handling(d) + 1)..Len(arrived[d])
      BY <1>2, <2>3, <3>1
    <3>2. CASE m > Len(arrived[d])
      <4>1. d = c /\ m = n
        BY <1>4, <3>2
      <4>2. QED BY <1>2, <4>1
    <3>3. QED BY <3>1, <3>2
  <2>7. QED BY <2>2, <2>3, <2>4, <2>5, <2>6
<1>10. QueueOrder'
  <2>1. ASSUME NEW k \in 1..Len(queue')
        PROVE  /\ queue'[k].kind = "data" => queue'[k].n <= Len(arrived'[queue'[k].conn])
               /\ queue'[k].kind = "closed" => handler'[queue'[k].conn] \in Finished
               /\ queue'[k].conn = "server" => handler'["server"] \in Finished \cup {"read"}
    <3>1. CASE k \in 1..Len(queue)
      <4>1. queue'[k] = queue[k] /\ queue[k] \in Event
        BY <1>2, <3>1
      <4>2. queue[k].conn \in Conns /\ queue[k].n \in Nat
        BY <4>1 DEF Event
      <4>3. queue[k].kind = "data" => queue[k].n <= Len(arrived[queue[k].conn])
        BY <1>0, <3>1 DEF QueueOrder
      <4>4. queue'[k].kind = "data" => queue'[k].n <= Len(arrived'[queue'[k].conn])
        BY <1>4, <4>1, <4>2, <4>3
      <4>5. QED BY <1>0, <3>1, <4>1, <4>4 DEF QueueOrder
    <3>2. CASE k = Len(queue) + 1
      BY <1>2, <1>4, <1>5, <3>2
    <3>3. QED BY <1>6, <3>1, <3>2
  <2>2. ASSUME NEW k \in 1..Len(queue'), NEW l \in 1..Len(queue'), k < l,
               queue'[k].conn = queue'[l].conn
        PROVE  /\ queue'[k].kind = "data"
               /\ queue'[l].kind = "data" => queue'[k].n < queue'[l].n
    <3>1. k \in 1..Len(queue) /\ queue'[k] = queue[k] /\ queue[k] \in Event
      BY <1>2, <2>2
    <3>2. CASE l \in 1..Len(queue)
      BY <1>0, <1>2, <2>2, <3>2 DEF QueueOrder
    <3>3. CASE l = Len(queue) + 1
      <4>1. queue[k].conn = c /\ queue'[l].n = n
        BY <1>2, <1>5, <2>2, <3>3
      <4>2. queue[k].kind \in {"data", "closed"} /\ queue[k].n \in Nat
        BY <3>1 DEF Event
      <4>3. queue[k].kind = "data" /\ queue[k].n <= Len(arrived[c])
        BY <1>0, <3>1, <4>1, <4>2 DEF QueueOrder, Finished
      <4>4. QED BY <1>1, <3>1, <4>1, <4>2, <4>3
    <3>4. QED BY <1>6, <3>2, <3>3
  <2>3. QED BY <2>1, <2>2 DEF QueueOrder
<1>11. ServerServed'
  <2>1. ASSUME phase \in Opening,
               NEW k \in 1..Len(queue')
        PROVE  queue'[k].conn = "client"
    <3>1. c = "client"
      BY <1>0, <2>1 DEF Opening, ServerServed, Conns
    <3>2. QED BY <1>0, <1>2, <1>5, <2>1, <3>1 DEF Opening, ServerServed
  <2>2. QED BY <1>0, <2>1 DEF Opening, ServerServed
<1>12. HalfClosed'
  BY <1>0, <1>4 DEF HalfClosed, Finished, Conns, Other
<1>13. EndsFlow' /\ ReadsOn' /\ OpensInPeace'
  BY <1>0 DEF Opening, EndsFlow, ReadsOn, OpensInPeace, Undisturbed
<1>14. OneAtATime'
  BY <1>0, <1>2 DEF Opening, OneAtATime, Settled, Handled
<1>15. StoppedIsComplete'
  <2>1. \A d \in Conns : Stopped(d)' = Stopped(d)
    BY DEF Stopped
  <2>2. QED BY <1>0, <1>4, <2>1 DEF StoppedIsComplete, Undisturbed, Finished,
               Conns, Other
<1>16. DoneIsComplete'
  BY <1>0 DEF DoneIsComplete, Undisturbed
<1>17. QED
  BY <1>7, <1>8, <1>9, <1>10, <1>11, <1>12, <1>13, <1>14, <1>15, <1>16 DEF IInv

(* The layer handles the event at the head of the queue: what this does to *)
(* the queue, whatever the event.                                          *)
LEMMA TailKeepsOrder ==
  ASSUME TypeOK, QueueOrder, queue # << >>, queue' = Tail(queue),
         UNCHANGED <<handler, arrived>>
  PROVE  QueueOrder'
<1>1. ASSUME NEW k \in 1..Len(queue'), NEW l \in 1..Len(queue'), k < l,
             queue'[k].conn = queue'[l].conn
      PROVE  /\ queue'[k].kind = "data"
             /\ queue'[l].kind = "data" => queue'[k].n < queue'[l].n
  <2>1. QED BY <1>1 DEF QueueOrder
<1>2. QED BY DEF QueueOrder

(* A message of c leaves the queue for its hook, or is written.  For the   *)
(* other connection nothing changes.                                       *)
LEMMA DataKeepsFlight ==
  ASSUME TypeOK, InFlight, QueueOrder, phase = "relay", queue # << >>, queue' = Tail(queue),
         NEW c \in Conns, queue[1].kind = "data", queue[1].conn = c,
         \/ phase' = "message_hook" /\ current' = queue[1] /\ out' = out
         \/ phase' = phase /\ current' = current /\ Send(Other(c), queue[1].n),
         handler["server"] # "none", handler["client"] # "none",
         UNCHANGED <<handler, arrived>>
  PROVE  InFlight'
<1>1. SUFFICES ASSUME NEW d \in Conns, handler[Other(d)] # "gone"
      PROVE  (/\ Handling(d) <= Len(arrived[d])
              /\ phase = "message_hook" /\ current.conn = d => current.n = Len(out[Other(d)]) + 1
              /\ \A k \in 1..Len(queue) :
                   queue[k].kind = "data" /\ queue[k].conn = d => queue[k].n > Handling(d)
              /\ \A m \in (Handling(d) + 1)..Len(arrived[d]) :
                   \E k \in 1..Len(queue) : queue[k] = Data(d, m))'
  BY DEF InFlight
<1>2. /\ Handling(d) = Len(out[Other(d)]) /\ Handling(d) <= Len(arrived[d])
      /\ \A k \in 1..Len(queue) :
           queue[k].kind = "data" /\ queue[k].conn = d => queue[k].n > Handling(d)
      /\ \A m \in (Handling(d) + 1)..Len(arrived[d]) :
           \E k \in 1..Len(queue) : queue[k] = Data(d, m)
  BY <1>1 DEF InFlight, Handling, Open, Opening
<1>3. CASE d = c
  <2>1. queue[1].n = Handling(c) + 1 /\ queue[1].n <= Len(arrived[c])
    BY <1>1, <1>2, <1>3, FirstIsNext
  <2>2. /\ Handling(c)' = queue[1].n
        /\ phase' = "message_hook" => current'.n = Len(out'[Other(c)]) + 1
    <3>1. CASE phase' = "message_hook" /\ current' = queue[1] /\ out' = out
      BY <2>1, <3>1 DEF Handling
    <3>2. CASE phase' = phase /\ current' = current /\ Send(Other(c), queue[1].n)
      <4>1. Served(Other(c)) /\ Other(c) \in Conns
        BY <1>1, <1>3 DEF Served, TypeOK, Conns, Other
      <4>2. out'[Other(c)] = Append(out[Other(c)], queue[1].n)
        BY <3>2, <4>1 DEF Send, TypeOK
      <4>3. Len(out'[Other(c)]) = Len(out[Other(c)]) + 1
        BY <4>2
      <4>4. QED BY <2>1, <4>3 DEF Handling
    <3>3. QED BY <3>1, <3>2
  <2>3. ASSUME NEW k \in 1..Len(queue'), queue'[k].kind = "data", queue'[k].conn = c
        PROVE  queue'[k].n > queue[1].n
    <3>1. queue[1].n < queue[k + 1].n
      BY <2>3 DEF QueueOrder
    <3>2. QED BY <3>1
  <2>4. ASSUME NEW m \in (queue[1].n + 1)..Len(arrived[c])
        PROVE  \E k \in 1..Len(queue') : queue'[k] = Data(c, m)
    <3>1. m \in (Handling(c) + 1)..Len(arrived[c]) /\ m # queue[1].n
      BY <1>2, <1>3, <2>1
    <3>2. PICK k \in 1..Len(queue) : queue[k] = Data(c, m)
      BY <1>2, <1>3, <3>1
    <3>3. k # 1
      BY <3>2 DEF Data
    <3>4. k - 1 \in 1..Len(queue') /\ (k - 1) + 1 = k
      BY <3>3
    <3>5. queue'[k - 1] = Data(c, m)
      BY <3>2, <3>4
    <3>6. QED BY <3>4, <3>5
  <2>5. QED BY <1>3, <2>1, <2>2, <2>3, <2>4
<1>4. CASE d # c
  <2>1. /\ Handling(d)' = Handling(d)
        /\ ~(phase' = "message_hook" /\ current'.conn = d)
    <3>1. out'[Other(d)] = out[Other(d)]
      BY <1>4 DEF Send, TypeOK, Conns, Other
    <3>2. QED BY <1>4, <3>1 DEF Handling
  <2>2. ASSUME NEW m \in (Handling(d) + 1)..Len(arrived[d])
        PROVE  \E k \in 1..Len(queue') : queue'[k] = Data(d, m)
    <3>1. PICK k \in 1..Len(queue) : queue[k] = Data(d, m)
      BY <1>2
    <3>2. k # 1
      BY <1>4, <3>1 DEF Data
    <3>3. k - 1 \in 1..Len(queue') /\ (k - 1) + 1 = k
      BY <3>2
    <3>4. queue'[k - 1] = Data(d, m)
      BY <3>1, <3>3
    <3>5. QED BY <3>3, <3>4
  <2>3. QED BY <1>2, <2>1, <2>2
<1>5. QED BY <1>3, <1>4

(* The end of c leaves the queue: no message does. *)
LEMMA ClosedKeepsFlight ==
  ASSUME TypeOK, InFlight, phase = "relay", queue # << >>, queue' = Tail(queue),
         queue[1].kind = "closed",
         UNCHANGED <<phase, current, out, handler, arrived>>
  PROVE  InFlight'
<1>1. SUFFICES ASSUME NEW d \in Conns, handler[Other(d)] # "gone"
      PROVE  (/\ Handling(d) <= Len(arrived[d])
              /\ phase = "message_hook" /\ current.conn = d => current.n = Len(out[Other(d)]) + 1
              /\ \A k \in 1..Len(queue) :
                   queue[k].kind = "data" /\ queue[k].conn = d => queue[k].n > Handling(d)
              /\ \A m \in (Handling(d) + 1)..Len(arrived[d]) :
                   \E k \in 1..Len(queue) : queue[k] = Data(d, m))'
  BY DEF InFlight
<1>2. /\ Handling(d) <= Len(arrived[d])
      /\ \A k \in 1..Len(queue) :
           queue[k].kind = "data" /\ queue[k].conn = d => queue[k].n > Handling(d)
      /\ \A m \in (Handling(d) + 1)..Len(arrived[d]) :
           \E k \in 1..Len(queue) : queue[k] = Data(d, m)
      /\ Handling(d)' = Handling(d)
  BY <1>1 DEF InFlight, Open, Opening, Handling
<1>3. ASSUME NEW m \in (Handling(d) + 1)..Len(arrived[d])
      PROVE  \E k \in 1..Len(queue') : queue'[k] = Data(d, m)
  <2>1. PICK k \in 1..Len(queue) : queue[k] = Data(d, m)
    BY <1>2
  <2>2. k # 1
    BY <2>1 DEF Data
  <2>3. k - 1 \in 1..Len(queue') /\ (k - 1) + 1 = k
    BY <2>2
  <2>4. queue'[k - 1] = Data(d, m)
    BY <2>1, <2>3
  <2>5. QED BY <2>3, <2>4
<1>4. QED BY <1>2, <1>3

LEMMA RelayDataKeeps ==
  ASSUME IInv, phase = "relay", queue # << >>, queue' = Tail(queue),
         RelayData(Head(queue)), UNCHANGED <<arrived, injected, cleaned,
         disturbed, ignore>>
  PROVE  IInv'
<1>0. /\ TypeOK /\ Numbered /\ NotAhead /\ InFlight /\ QueueOrder /\ ServerServed
      /\ HalfClosed /\ EndsFlow /\ ReadsOn
      /\ OneAtATime /\ OpensInPeace /\ StoppedIsComplete /\ DoneIsComplete
  BY DEF IInv
<1> DEFINE e == Head(queue)
           c == e.conn
           to == Other(c)
<1>1. /\ e \in Event /\ e = queue[1] /\ queue' \in Seq(Event)
      /\ Len(queue) \in Nat /\ Len(queue') = Len(queue) - 1 /\ 1 \in 1..Len(queue)
      /\ \A k \in 1..Len(queue') : k + 1 \in 1..Len(queue) /\ queue'[k] = queue[k + 1]
  BY <1>0, QueueTail
<1>2. /\ c \in Conns /\ to \in Conns /\ Other(to) = c /\ e.n \in Nat
  BY <1>1 DEF Event, Conns, Other
<1>3. /\ e.kind = "data" /\ state' = state /\ handler' = handler
      /\ cancelled' = cancelled /\ ended' = ended
      /\ \/ ignore /\ phase' = phase /\ current' = current /\ Send(to, e.n)
         \/ ~ignore /\ phase' = "message_hook" /\ current' = e /\ out' = out
  BY DEF RelayData, sockets
<1> HIDE DEF e, c, to
\* If the message is written, it is the next one.
<1>4. \/ out' = out
      \/ /\ out' = [out EXCEPT ![to] = Append(out[to], e.n)]
         /\ handler[to] # "gone"
         /\ e.n = Len(out[to]) + 1
         /\ e.n <= Len(arrived[c])
  <2>1. CASE Send(to, e.n) /\ Served(to)
    <3>1. handler[to] # "gone"
      BY <2>1 DEF Served
    <3>2. e.n = Len(out[to]) + 1 /\ e.n <= Len(arrived[c])
      BY <1>0, <1>1, <1>2, <1>3, <3>1, FirstIsNext DEF c, to
    <3>3. QED BY <2>1, <3>1, <3>2 DEF Send
  <2>2. CASE Send(to, e.n) /\ ~Served(to)
    BY <2>2 DEF Send
  <2>3. QED BY <1>3, <2>1, <2>2
<1>5. Len(out[to]) \in Nat /\ Len(arrived[c]) \in Nat /\ out[to] \in Seq(1..MaxMessages)
  BY <1>0, <1>2 DEF TypeOK
<1>6. out' \in [Conns -> Seq(1..MaxMessages)]
  <2>1. CASE out' = out
    BY <1>0, <2>1 DEF TypeOK
  <2>2. CASE out' # out
    <3>1. e.n \in 1..Len(arrived[c])
      BY <1>4, <2>2
    <3>2. arrived[c][e.n] \in 1..MaxMessages /\ arrived[c][e.n] = e.n
      BY <1>0, <1>2, <3>1, ElementOfSeq DEF TypeOK, Numbered
    <3>3. Append(out[to], e.n) \in Seq(1..MaxMessages)
      BY <1>5, <3>2
    <3>4. QED BY <1>0, <1>4, <3>3 DEF TypeOK
  <2>3. QED BY <2>1, <2>2
<1>7. TypeOK'
  <2>1. phase' \in {"relay", "message_hook"} /\ current' \in Event
    BY <1>0, <1>1, <1>3 DEF TypeOK
  <2>2. QED BY <1>0, <1>3, <1>6, <2>1 DEF TypeOK, Hooks
<1>8. Numbered' /\ NotAhead'
  <2>1. CASE out' = out
    BY <1>0, <2>1 DEF Numbered, NotAhead
  <2>2. CASE out' # out
    <3>1. /\ out'[to] = Append(out[to], e.n)
          /\ \A d \in Conns : d # to => out'[d] = out[d]
      BY <1>0, <1>2, <1>4, <2>2 DEF TypeOK
    <3>2. /\ Len(out'[to]) = Len(out[to]) + 1
          /\ \A k \in 1..Len(out[to]) : out'[to][k] = out[to][k]
          /\ out'[to][Len(out[to]) + 1] = e.n
      BY <3>1
    <3>3. ASSUME NEW k \in 1..Len(out'[to]) PROVE out'[to][k] = k
      <4>1. k \in 1..Len(out[to]) => out[to][k] = k
        BY <1>0, <1>2 DEF Numbered
      <4>2. QED BY <1>4, <3>2, <4>1
    <3>4. Numbered'
      BY <1>0, <3>1, <3>3 DEF Numbered
    <3>5. Len(out'[to]) <= Len(arrived[c])
      BY <1>4, <3>2
    <3>6. NotAhead'
      BY <1>0, <1>2, <3>1, <3>5 DEF NotAhead, Conns, Other
    <3>7. QED BY <3>4, <3>6
  <2>3. QED BY <2>1, <2>2
<1>9. InFlight'
  BY <1>0, <1>1, <1>2, <1>3, DataKeepsFlight DEF Opening, ServerServed, c, to
<1>10. QueueOrder'
  BY <1>0, <1>3, TailKeepsOrder
<1>11. ServerServed'
  BY <1>0, <1>3 DEF Opening, ServerServed
\* Nothing is written to somebody who has had everything.
<1>12. ASSUME NEW d \in Conns, out[d] = arrived[Other(d)]
       PROVE  out'[d] = out[d]
  <2>1. CASE d = to
    BY <1>2, <1>4, <1>12, <2>1
  <2>2. CASE d # to
    BY <1>0, <1>4, <2>2 DEF TypeOK
  <2>3. QED BY <2>1, <2>2
<1>13. HalfClosed'
  BY <1>0, <1>3, <1>12 DEF HalfClosed
<1>14. EndsFlow' /\ ReadsOn' /\ OpensInPeace' /\ DoneIsComplete'
  BY <1>0, <1>3 DEF EndsFlow, ReadsOn, OpensInPeace, DoneIsComplete, Open, Opening
<1>15. OneAtATime'
  BY <1>0, <1>3 DEF Opening, OneAtATime
<1>16. StoppedIsComplete'
  <2>1. \A d \in Conns : Stopped(d)' = Stopped(d)
    BY <1>3 DEF Stopped
  <2>2. QED BY <1>0, <1>3, <1>12, <2>1 DEF StoppedIsComplete, Undisturbed
<1>17. QED
  BY <1>7, <1>8, <1>9, <1>10, <1>11, <1>13, <1>14, <1>15, <1>16 DEF IInv

LEMMA RelayLastClosedKeeps ==
  ASSUME IInv, phase = "relay", queue # << >>, queue' = Tail(queue),
         RelayLastClosed(Head(queue)),
         UNCHANGED <<arrived, injected, cleaned, disturbed, ignore>>
  PROVE  IInv'
<1>0. /\ TypeOK /\ Numbered /\ NotAhead /\ InFlight /\ QueueOrder /\ ServerServed
      /\ HalfClosed /\ EndsFlow /\ ReadsOn
      /\ OneAtATime /\ OpensInPeace /\ StoppedIsComplete /\ DoneIsComplete
  BY DEF IInv
<1>1. /\ queue[1].kind = "closed" /\ AllDone
      /\ cancelled' = cancelled \cup {c \in Conns : state[c] # {} /\ Served(c)}
      /\ state' = [c \in Conns |-> {}]
      /\ phase' \in {"done", "end_hook"} /\ (ignore <=> phase' = "done")
      /\ ended' = IF ignore THEN ended ELSE Append(ended, "end")
      /\ current' = current /\ out' = out /\ handler' = handler
  BY DEF RelayLastClosed
<1>2. TypeOK'
  <2>1. QED BY <1>0, <1>1 DEF TypeOK, Hooks
<1>3. Numbered' /\ NotAhead'
  BY <1>0, <1>1 DEF Numbered, NotAhead
<1>4. InFlight' /\ ReadsOn' /\ OpensInPeace' /\ StoppedIsComplete'
  BY <1>1 DEF InFlight, Open, Opening, ReadsOn, OpensInPeace, StoppedIsComplete
<1>5. QueueOrder'
  BY <1>0, <1>1, TailKeepsOrder
<1>6. ServerServed'
  BY <1>0, <1>1 DEF Opening, ServerServed
<1>7. HalfClosed'
  BY <1>1 DEF HalfClosed
<1>8. EndsFlow'
  BY <1>0, <1>1 DEF EndsFlow, Open, Opening
<1>9. OneAtATime'
  BY <1>1 DEF Opening, OneAtATime
<1>10. DoneIsComplete'
  <2>1. SUFFICES ASSUME Undisturbed, NEW c \in Conns
                 PROVE  /\ out[Other(c)] = arrived[c]
                        /\ handler[c] = "read" => c \in cancelled'
    BY <1>1 DEF DoneIsComplete, Undisturbed
  <2>2. ~(Len(queue) > 1)
    <3>1. state["server"] # {"R", "W"}
      BY <1>1 DEF AllDone, Conns
    <3>2. QED BY <1>0, <2>1, <3>1 DEF Opening, OneAtATime, Undisturbed
  <2>3. out[Other(c)] = arrived[c]
    <3>1. CASE handler[Other(c)] # "gone"
      BY <1>0, <1>1, <2>2, <3>1, EndIsLast
    <3>2. CASE handler[Other(c)] = "gone"
      BY <1>0, <2>1, <3>2 DEF StoppedIsComplete, Stopped, Conns, Other
    <3>3. QED BY <3>1, <3>2
  <2>4. handler[c] = "read" => c \in cancelled'
    BY <1>0, <1>1 DEF ReadsOn, AllDone, Open, Opening
  <2>5. QED BY <2>3, <2>4
<1>11. QED
  BY <1>2, <1>3, <1>4, <1>5, <1>6, <1>7, <1>8, <1>9, <1>10 DEF IInv

LEMMA RelayHalfCloseKeeps ==
  ASSUME IInv, phase = "relay", queue # << >>, queue' = Tail(queue),
         RelayHalfClose(Head(queue)),
         UNCHANGED <<arrived, injected, cleaned, disturbed, ignore>>
  PROVE  IInv'
<1>0. /\ TypeOK /\ Numbered /\ NotAhead /\ InFlight /\ QueueOrder /\ ServerServed
      /\ HalfClosed /\ EndsFlow /\ ReadsOn
      /\ OneAtATime /\ OpensInPeace /\ StoppedIsComplete /\ DoneIsComplete
  BY DEF IInv
<1> DEFINE c == Head(queue).conn
           to == Other(c)
<1>1. /\ Head(queue) = queue[1] /\ queue[1] \in Event
      /\ queue' \in Seq(Event) /\ Len(queue) \in Nat \ {0} /\ Len(queue') = Len(queue) - 1
      /\ \A k \in 1..Len(queue') : k + 1 \in 1..Len(queue) /\ queue'[k] = queue[k + 1]
  BY <1>0, QueueTail
<1>2. c \in Conns /\ to \in Conns /\ to = Other(c) /\ c = Other(to) /\ c # to
  BY <1>1 DEF Event, Conns, Other
<1>3. /\ queue[1].kind = "closed" /\ queue[1].conn = c
      /\ phase' = phase /\ current' = current /\ out' = out
      /\ handler' = handler /\ ended' = ended
      /\ \/ state' = state /\ cancelled' = cancelled
         \/ /\ Served(to)
            /\ \E left \in {state[to] \ {"W"}, {}} :
                 /\ state' = [state EXCEPT ![to] = left]
                 /\ cancelled' = IF left = {} THEN cancelled \cup {to} ELSE cancelled
  BY DEF RelayHalfClose
<1> HIDE DEF c, to
\* The peer that is half-closed has had everything.
<1>4. handler[c] \in Finished
  BY <1>0, <1>3 DEF QueueOrder
<1>5. Served(to) => out[to] = arrived[c]
  BY <1>0, <1>2, <1>3, EndIsLast DEF Served
<1>6. /\ state' \in [Conns -> SUBSET {"R", "W"}] /\ cancelled' \subseteq Conns
      /\ cancelled \subseteq cancelled'
      /\ \A d \in Conns : d # to => state'[d] = state[d] /\ (d \in cancelled' <=> d \in cancelled)
      /\ \/ state' = state /\ cancelled' = cancelled
         \/ Served(to) /\ state'[to] = state[to] \ {"W"}
         \/ Served(to) /\ state'[to] = {} /\ to \in cancelled'
  <2>1. CASE state' = state /\ cancelled' = cancelled
    BY <1>0, <2>1 DEF TypeOK
  <2>2. ASSUME Served(to), NEW left \in {state[to] \ {"W"}, {}},
               state' = [state EXCEPT ![to] = left],
               cancelled' = IF left = {} THEN cancelled \cup {to} ELSE cancelled
        PROVE  /\ state' \in [Conns -> SUBSET {"R", "W"}] /\ cancelled' \subseteq Conns
               /\ cancelled \subseteq cancelled'
               /\ \A d \in Conns :
                    d # to => state'[d] = state[d] /\ (d \in cancelled' <=> d \in cancelled)
               /\ \/ state'[to] = state[to] \ {"W"}
                  \/ state'[to] = {} /\ to \in cancelled'
    <3>1. state' \in [Conns -> SUBSET {"R", "W"}] /\ state'[to] = left
      BY <1>0, <1>2, <2>2 DEF TypeOK
    <3>2. \A d \in Conns : d # to => state'[d] = state[d]
      BY <2>2
    <3>3. /\ cancelled' \subseteq Conns /\ cancelled \subseteq cancelled'
          /\ left = {} => to \in cancelled'
          /\ \A d \in Conns : d # to => (d \in cancelled' <=> d \in cancelled)
      BY <1>0, <1>2, <2>2 DEF TypeOK
    <3>4. QED BY <3>1, <3>2, <3>3
  <2>3. QED BY <1>3, <2>1, <2>2
<1>7. TypeOK'
  BY <1>0, <1>3, <1>6 DEF TypeOK
<1>8. Numbered' /\ NotAhead' /\ EndsFlow'
  BY <1>0, <1>3 DEF Numbered, NotAhead, EndsFlow
<1>9. InFlight'
  BY <1>0, <1>3, ClosedKeepsFlight
<1>10. QueueOrder'
  BY <1>0, <1>3, TailKeepsOrder
<1>11. ServerServed' /\ OpensInPeace' /\ DoneIsComplete'
  BY <1>0, <1>3 DEF Opening, ServerServed, OpensInPeace, DoneIsComplete
<1>12. HalfClosed'
  BY <1>0, <1>2, <1>3, <1>4, <1>5, <1>6 DEF HalfClosed
<1>13. ReadsOn'
  BY <1>0, <1>3, <1>6 DEF ReadsOn
<1>14. OneAtATime'
  <2>1. ASSUME ignore PROVE Len(queue) <= 1
    <3>1. SUFFICES ASSUME Len(queue) > 1 PROVE FALSE
      OBVIOUS
    <3>2. 1 \in 1..Len(queue) /\ 2 \in 1..Len(queue)
      BY <3>1
    <3>3. queue[1].conn = "client" /\ queue[2].conn = "client"
      BY <1>0, <2>1, <3>2 DEF Opening, OneAtATime
    <3>4. QED BY <1>0, <1>3, <3>2, <3>3 DEF QueueOrder
  <2>2. ignore => ~(Len(queue') > 1)
    BY <2>1
  <2>3. QED BY <1>3, <2>2 DEF Opening, OneAtATime
<1>15. StoppedIsComplete'
  <2>1. ASSUME Undisturbed, NEW d \in Conns, Stopped(d)'
        PROVE  handler[Other(d)] \in Finished /\ out[d] = arrived[Other(d)]
    <3>1. CASE d = to /\ Served(to)
      BY <1>2, <1>4, <1>5, <3>1
    <3>2. CASE d # to \/ ~Served(to)
      <4>1. Stopped(d)
        BY <1>3, <1>6, <2>1, <3>2 DEF Stopped
      <4>2. QED BY <1>0, <2>1, <4>1 DEF StoppedIsComplete
    <3>3. QED BY <3>1, <3>2
  <2>2. QED BY <1>3, <2>1 DEF StoppedIsComplete, Undisturbed
<1>16. QED
  BY <1>7, <1>8, <1>9, <1>10, <1>11, <1>12, <1>13, <1>14, <1>15 DEF IInv

LEMMA HandleQueuedKeeps ==
  ASSUME IInv, HandleQueued
  PROVE  IInv'
BY RelayDataKeeps, RelayLastClosedKeeps, RelayHalfCloseKeeps DEF HandleQueued

(* Steps that touch neither the messages nor the queue. *)
LEMMA FlightFrame ==
  ASSUME InFlight, UNCHANGED <<current, queue, arrived, out>>,
         phase' \in Open => phase \in Open,
         phase' = phase \/ (phase # "message_hook" /\ phase' # "message_hook"),
         \A c \in Conns : handler[c] = "gone" => handler'[c] = "gone"
  PROVE  InFlight'
<1>1. SUFFICES ASSUME phase \in Open, NEW d \in Conns, handler[Other(d)] # "gone"
      PROVE  (/\ Handling(d) <= Len(arrived[d])
              /\ phase = "message_hook" /\ current.conn = d => current.n = Len(out[Other(d)]) + 1
              /\ \A k \in 1..Len(queue) :
                   queue[k].kind = "data" /\ queue[k].conn = d => queue[k].n > Handling(d)
              /\ \A m \in (Handling(d) + 1)..Len(arrived[d]) :
                   \E k \in 1..Len(queue) : queue[k] = Data(d, m))'
  BY DEF InFlight, Conns, Other
<1>2. Handling(d)' = Handling(d)
  BY DEF Handling
<1>3. QED BY <1>1, <1>2 DEF InFlight

\* Nothing has changed that these parts speak of.
LEMMA MessagesFrame ==
  ASSUME Numbered, NotAhead, UNCHANGED <<arrived, out>>
  PROVE  Numbered' /\ NotAhead'
BY DEF Numbered, NotAhead

LEMMA OrderFrame ==
  ASSUME QueueOrder, UNCHANGED <<queue, arrived>>,
         \A c \in Conns : handler[c] \in Finished => handler'[c] \in Finished,
         handler["server"] \in Finished \cup {"read"} => handler'["server"] \in Finished \cup {"read"},
         TypeOK
  PROVE  QueueOrder'
<1>1. ASSUME NEW k \in 1..Len(queue) PROVE queue[k].conn \in Conns
  <2>1. queue[k] \in Event
    BY DEF TypeOK
  <2>2. QED BY <2>1 DEF Event
<1>2. QED BY <1>1 DEF QueueOrder

(* The hook of the message is over, and the message is written. *)
LEMMA WrittenFromHook ==
  ASSUME IInv, MessageHookEnds
  PROVE  TypeOK' /\ Numbered' /\ NotAhead' /\ InFlight' /\ HalfClosed'
<1>0. TypeOK /\ Numbered /\ NotAhead /\ InFlight /\ ServerServed /\ HalfClosed
  BY DEF IInv
<1> DEFINE c == current.conn
           to == Other(c)
<1>1. /\ current \in Event /\ c \in Conns /\ to \in Conns
      /\ to = Other(c) /\ c = Other(to) /\ c # to
  BY <1>0 DEF TypeOK, Event, Conns, Other
<1>2. /\ phase = "message_hook" /\ phase' = "relay" /\ Send(to, current.n)
      /\ UNCHANGED <<current, queue, sockets, arrived, injected, ended, cleaned, disturbed, ignore>>
  BY DEF MessageHookEnds
<1> HIDE DEF c, to
<1>3. Len(out[to]) \in Nat /\ Len(arrived[c]) \in Nat /\ out[to] \in Seq(1..MaxMessages)
  BY <1>0, <1>1 DEF TypeOK
<1>4. CASE ~Served(to)
  <2>1. out' = out
    BY <1>2, <1>4 DEF Send
  <2>2. handler[to] = "gone"
    BY <1>0, <1>1, <1>2, <1>4 DEF Opening, Served, TypeOK, ServerServed, Conns
  <2>3. TypeOK'
    BY <1>0, <1>2, <2>1 DEF TypeOK, sockets
  <2>4. Numbered' /\ NotAhead'
    BY <1>0, <1>2, <2>1, MessagesFrame
  <2>5. InFlight'
    <3>1. SUFFICES ASSUME NEW d \in Conns, handler[Other(d)] # "gone"
          PROVE  (/\ Handling(d) <= Len(arrived[d])
                  /\ phase = "message_hook" /\ current.conn = d => current.n = Len(out[Other(d)]) + 1
                  /\ \A k \in 1..Len(queue) :
                       queue[k].kind = "data" /\ queue[k].conn = d => queue[k].n > Handling(d)
                  /\ \A m \in (Handling(d) + 1)..Len(arrived[d]) :
                       \E k \in 1..Len(queue) : queue[k] = Data(d, m))'
      BY <1>2 DEF InFlight, sockets
    <3>2. d # c
      BY <1>1, <2>2, <3>1
    <3>3. Handling(d)' = Handling(d) /\ phase' # "message_hook"
      BY <1>2, <2>1, <3>2 DEF Handling, c
    <3>4. QED BY <1>0, <1>2, <3>1, <3>3 DEF InFlight, Open, Opening
  <2>6. HalfClosed'
    BY <1>0, <1>2, <2>1 DEF HalfClosed, sockets
  <2>7. QED BY <2>3, <2>4, <2>5, <2>6
<1>5. CASE Served(to)
  <2>1. handler[to] # "gone" /\ out' = [out EXCEPT ![to] = Append(out[to], current.n)]
    BY <1>2, <1>5 DEF Served, Send
  <2>2. current.n = Len(out[to]) + 1 /\ current.n <= Len(arrived[c])
    BY <1>0, <1>1, <1>2, <2>1 DEF InFlight, Open, Opening, Handling, c
  <2>3. current.n \in 1..MaxMessages
    <3>1. current.n \in 1..Len(arrived[c])
      BY <2>2
    <3>2. arrived[c][current.n] \in 1..MaxMessages /\ arrived[c][current.n] = current.n
      BY <1>0, <1>1, <3>1, ElementOfSeq DEF TypeOK, Numbered
    <3>3. QED BY <3>2
  <2>4. /\ out'[to] = Append(out[to], current.n)
        /\ \A d \in Conns : d # to => out'[d] = out[d]
    BY <1>0, <1>1, <2>1 DEF TypeOK
  <2>5. /\ Append(out[to], current.n) \in Seq(1..MaxMessages)
        /\ Len(out'[to]) = Len(out[to]) + 1
        /\ \A k \in 1..Len(out[to]) : out'[to][k] = out[to][k]
        /\ out'[to][Len(out[to]) + 1] = current.n
    BY <1>3, <2>3, <2>4
  <2>6. TypeOK'
    <3>1. out' \in [Conns -> Seq(1..MaxMessages)]
      BY <1>0, <2>1, <2>5 DEF TypeOK
    <3>2. QED BY <1>0, <1>2, <3>1 DEF TypeOK, sockets
  <2>7. Numbered'
    <3>1. ASSUME NEW k \in 1..Len(out'[to]) PROVE out'[to][k] = k
      <4>1. k \in 1..Len(out[to]) \/ k = Len(out[to]) + 1
        BY <2>5
      <4>2. k \in 1..Len(out[to]) => out[to][k] = k
        BY <1>0, <1>1 DEF Numbered
      <4>3. QED BY <2>2, <2>5, <4>1, <4>2
    <3>2. QED BY <1>0, <1>2, <2>4, <3>1 DEF Numbered
  <2>8. NotAhead'
    <3>1. Len(out'[to]) <= Len(arrived[c])
      BY <2>2, <2>5
    <3>2. QED BY <1>0, <1>1, <1>2, <2>4, <3>1 DEF NotAhead, Conns
  <2>9. InFlight'
    <3>1. SUFFICES ASSUME NEW d \in Conns, handler[Other(d)] # "gone"
          PROVE  (/\ Handling(d) <= Len(arrived[d])
                  /\ phase = "message_hook" /\ current.conn = d => current.n = Len(out[Other(d)]) + 1
                  /\ \A k \in 1..Len(queue) :
                       queue[k].kind = "data" /\ queue[k].conn = d => queue[k].n > Handling(d)
                  /\ \A m \in (Handling(d) + 1)..Len(arrived[d]) :
                       \E k \in 1..Len(queue) : queue[k] = Data(d, m))'
      BY <1>2 DEF InFlight, sockets
    <3>2. Handling(d)' = Handling(d) /\ phase' # "message_hook"
      <4>1. CASE d = c
        BY <1>1, <1>2, <2>2, <2>5, <4>1 DEF Handling, c
      <4>2. CASE d # c
        <5>1. Other(d) # to /\ Other(d) \in Conns
          BY <1>1, <4>2 DEF Conns
        <5>2. out'[Other(d)] = out[Other(d)]
          BY <2>4, <5>1
        <5>3. QED BY <1>2, <4>2, <5>2 DEF Handling, c
      <4>3. QED BY <4>1, <4>2
    <3>3. QED BY <1>0, <1>2, <3>1, <3>2 DEF InFlight, Open, Opening
  <2>10. HalfClosed'
    <3>1. ASSUME NEW d \in Conns, out[d] = arrived[Other(d)]
          PROVE  out'[d] = out[d]
      <4>1. Len(out[to]) # Len(arrived[c])
        BY <2>2
      <4>2. QED BY <1>1, <2>4, <3>1, <4>1
    <3>2. QED BY <1>0, <1>2, <3>1 DEF HalfClosed, sockets
  <2>11. QED BY <2>6, <2>7, <2>8, <2>9, <2>10
<1>6. QED BY <1>4, <1>5

(* A connection is read no more: its peer has closed it, or its handler    *)
(* was cancelled.                                                          *)
LEMMA StopReadingKeeps ==
  ASSUME IInv, Settled, NEW c \in Conns, handler[c] = "read",
         handler' = [handler EXCEPT ![c] = "closing"], Deliver(Closed(c)),
         NEW left \in SUBSET (state[c] \ {"R"}),
         state' = [state EXCEPT ![c] = left],
         c \in cancelled \/ left = state[c] \ {"R"}, cancelled' = cancelled \ {c},
         UNCHANGED <<phase, current, history>>
  PROVE  IInv'
<1>0. /\ TypeOK /\ Numbered /\ NotAhead /\ InFlight /\ QueueOrder /\ ServerServed
      /\ HalfClosed /\ EndsFlow /\ ReadsOn
      /\ OneAtATime /\ OpensInPeace /\ StoppedIsComplete /\ DoneIsComplete
  BY DEF IInv
<1>1. UNCHANGED <<phase, current, ignore, arrived, out, injected, ended, cleaned, disturbed>>
  BY DEF history
<1>2. /\ handler'[c] = "closing" /\ state'[c] = left
      /\ \A d \in Conns : d # c => handler'[d] = handler[d] /\ state'[d] = state[d]
      /\ \A d \in Conns : d # c => (d \in cancelled' <=> d \in cancelled)
  BY <1>0 DEF TypeOK
<1>3. Closed(c) \in Event /\ Closed(c).conn = c
  BY DEF Closed, Event
<1>4. /\ queue' \in Seq(Event) /\ Len(queue) \in Nat
      /\ Len(queue') = Len(queue) + 1
      /\ \A k \in 1..Len(queue) : queue'[k] = queue[k]
      /\ queue'[Len(queue) + 1] = Closed(c)
  BY <1>0, <1>3, QueueAppend
<1>5. TypeOK'
  <2>1. QED BY <1>0, <1>1, <1>4 DEF TypeOK
<1>6. Numbered' /\ NotAhead'
  BY <1>0, <1>1, MessagesFrame
<1>7. InFlight' /\ QueueOrder'
  BY <1>0, <1>1, ClosedArrives
<1>8. ServerServed'
  <2>1. phase \in Opening \cup {"error_hook"} => c = "client"
    BY <1>0 DEF ServerServed, Opening, Conns
  <2>2. c = "client" /\ (\A k \in 1..Len(queue) : queue[k].conn = "client")
          => \A k \in 1..Len(queue') : queue'[k].conn = "client"
    <3>1. QED BY <1>3, <1>4
  <2>3. QED BY <1>0, <2>1, <2>2 DEF Opening, ServerServed
<1>9. HalfClosed'
  BY <1>0, <1>1 DEF HalfClosed, Finished
<1>10. EndsFlow' /\ ReadsOn'
  BY <1>0, <1>1, <1>2 DEF EndsFlow, ReadsOn
<1>11. OneAtATime'
  BY <1>0, <1>1, <1>4 DEF Opening, OneAtATime, Settled, Handled
<1>12. OpensInPeace'
  <2>1. SUFFICES ASSUME Undisturbed, phase \in Opening
                 PROVE  c = "client" /\ c \notin cancelled /\ left = {"W"}
    BY <1>0, <1>1, <1>2 DEF Opening, OpensInPeace, Undisturbed
  <2>2. c = "client"
    BY <1>0, <2>1 DEF Opening, ServerServed, Conns
  <2>3. QED BY <1>0, <2>1, <2>2 DEF Opening, OpensInPeace
<1>13. StoppedIsComplete'
  <2>1. ASSUME NEW d \in Conns, Stopped(d)' PROVE Stopped(d)
    <3>1. CASE d = c
      BY <1>2, <2>1 DEF Stopped
    <3>2. CASE d # c
      BY <2>1, <3>2 DEF Stopped
    <3>3. QED BY <3>1, <3>2
  <2>2. \A d \in Conns : handler[d] \in Finished => handler'[d] \in Finished
    BY DEF Finished
  <2>3. QED BY <1>0, <1>1, <2>1, <2>2 DEF StoppedIsComplete, Undisturbed
<1>14. DoneIsComplete'
  BY <1>0, <1>1, <1>2 DEF DoneIsComplete, Undisturbed
<1>15. QED
  BY <1>5, <1>6, <1>7, <1>8, <1>9, <1>10, <1>11, <1>12, <1>13, <1>14 DEF IInv

\* What CloseConnection(client) does at most.
LEMMA ClosesClientOnly ==
  ASSUME TypeOK, CloseClient \/ UNCHANGED sockets
  PROVE  /\ handler' = handler
         /\ state' \in [Conns -> SUBSET {"R", "W"}] /\ cancelled' \subseteq Conns
         /\ cancelled \subseteq cancelled'
         /\ \A c \in Conns : state'[c] = state[c] \/ state'[c] = {}
         /\ "server" \in cancelled' <=> "server" \in cancelled
BY DEF TypeOK, CloseClient, sockets, Conns

(* Every step keeps the invariant. *)
LEMMA StepInv == IInv /\ [Next]_vars => IInv'
<1> SUFFICES ASSUME IInv, [Next]_vars PROVE IInv'
  OBVIOUS
<1>0. /\ TypeOK /\ Numbered /\ NotAhead /\ InFlight /\ QueueOrder /\ ServerServed
      /\ HalfClosed /\ EndsFlow /\ ReadsOn
      /\ OneAtATime /\ OpensInPeace /\ StoppedIsComplete /\ DoneIsComplete
  BY DEF IInv
<1>1. CASE Swallow
  <2>1. TypeOK'
    BY <1>0, <1>1 DEF TypeOK, Hooks, Opening, Swallow, sockets, history
  <2>2. InFlight'
    BY <1>1 DEF InFlight, Open, Opening, Swallow
  <2>3. QueueOrder'
    BY <1>1 DEF QueueOrder, Swallow
  <2>4. ServerServed'
    BY <1>0, <1>1 DEF Opening, ServerServed, Swallow, sockets
  <2>5. OneAtATime'
    BY <1>1 DEF Opening, OneAtATime, Swallow
  <2>6. Numbered' /\ NotAhead' /\ HalfClosed' /\ EndsFlow' /\ ReadsOn' /\ OpensInPeace' /\
     StoppedIsComplete' /\ DoneIsComplete'
    BY <1>0, <1>1 DEF Opening, Numbered, NotAhead, HalfClosed, EndsFlow, ReadsOn,
       OpensInPeace, Undisturbed, StoppedIsComplete, DoneIsComplete, Swallow,
       sockets, history
  <2>7. QED
    BY <2>1, <2>2, <2>3, <2>4, <2>5, <2>6 DEF IInv
<1>2. CASE StartHookEnds
  <2>1. TypeOK'
    BY <1>0, <1>2 DEF TypeOK, Opening, StartHookEnds, Start, sockets, history
  <2>2. InFlight'
    BY <1>0, <1>2, FlightFrame DEF StartHookEnds, Start, history, sockets, Open,
       Opening
  <2>3. ServerServed'
    <3>1. CASE handler["server"] = "none"
      <4>1. \A k \in 1..Len(queue) : queue[k].conn = "client"
        <5>1. ASSUME NEW k \in 1..Len(queue) PROVE queue[k] \in Event
          BY <1>0 DEF TypeOK
        <5>2. \A k \in 1..Len(queue) : queue[k].conn # "server"
          BY <1>0, <3>1 DEF QueueOrder, Finished
        <5>3. QED BY <5>1, <5>2 DEF Event, Conns
      <4>2. QED BY <1>0, <1>2, <3>1, <4>1 DEF ServerServed, Opening, StartHookEnds,
                   Start, sockets
    <3>2. CASE handler["server"] # "none"
      BY <1>0, <1>2, <3>2 DEF ServerServed, Opening, StartHookEnds, Start, sockets
    <3>3. QED BY <3>1, <3>2
  <2>4. EndsFlow'
    BY <1>0, <1>2 DEF EndsFlow, Open, Opening, StartHookEnds, Start, history
  <2>5. ReadsOn'
    BY <1>0, <1>2 DEF ReadsOn, Open, Opening, StartHookEnds, Start, sockets
  <2>6. OneAtATime'
    BY <1>0, <1>2 DEF Opening, OneAtATime, history, StartHookEnds, Start
  <2>7. OpensInPeace'
    BY <1>0, <1>2 DEF Opening, OneAtATime, OpensInPeace, Undisturbed,
       StartHookEnds, Start,
       history
  <2>8. StoppedIsComplete'
    BY <1>0, <1>2 DEF OneAtATime, Opening, Undisturbed, history,
       StoppedIsComplete, StartHookEnds, Start
  <2>9. DoneIsComplete'
    BY <1>2 DEF DoneIsComplete, StartHookEnds, Start
  <2>10. Numbered' /\ NotAhead' /\ QueueOrder' /\ HalfClosed'
    BY <1>0, <1>2 DEF Numbered, NotAhead, QueueOrder, HalfClosed, StartHookEnds,
       Start,
       sockets, history
  <2>11. QED
    BY <2>1, <2>2, <2>3, <2>4, <2>5, <2>6, <2>7, <2>8, <2>9, <2>10 DEF IInv
<1>3. CASE ConnectHookEnds
  <2>1. TypeOK'
    BY <1>0, <1>3 DEF TypeOK, Opening, ConnectHookEnds, sockets, history
  <2>2. InFlight'
    BY <1>0, <1>3, FlightFrame DEF ConnectHookEnds, history, sockets, Open, Opening
  <2>3. ServerServed'
    BY <1>0, <1>3 DEF Opening, ServerServed, ConnectHookEnds, sockets
  <2>4. EndsFlow'
    BY <1>0, <1>3 DEF EndsFlow, Open, Opening, ConnectHookEnds, history
  <2>5. ReadsOn'
    BY <1>0, <1>3 DEF ReadsOn, Open, Opening, ConnectHookEnds, sockets
  <2>6. OneAtATime'
    BY <1>3 DEF Opening, OneAtATime, ConnectHookEnds
  <2>7. OpensInPeace'
    BY <1>0, <1>3 DEF Opening, OpensInPeace, Undisturbed, ConnectHookEnds, sockets,
       history
  <2>8. StoppedIsComplete'
    BY <1>3 DEF StoppedIsComplete, ConnectHookEnds
  <2>9. DoneIsComplete'
    BY <1>3 DEF DoneIsComplete, ConnectHookEnds
  <2>10. Numbered' /\ NotAhead' /\ QueueOrder' /\ HalfClosed'
    BY <1>0, <1>3 DEF Numbered, NotAhead, QueueOrder, HalfClosed,
       ConnectHookEnds, sockets, history
  <2>11. QED
    BY <2>1, <2>2, <2>3, <2>4, <2>5, <2>6, <2>7, <2>8, <2>9, <2>10 DEF IInv
<1>4. CASE ServerConnected
  <2>1. TypeOK'
    BY <1>0, <1>4 DEF TypeOK, Opening, ServerConnected, history
  <2>2. InFlight'
    BY <1>0, <1>4, FlightFrame DEF ServerConnected, history, Open, Opening
  <2>3. ServerServed'
    BY <1>0, <1>4 DEF Opening, TypeOK, Conns, ServerServed, ServerConnected
  <2>4. HalfClosed'
    BY <1>0, <1>4 DEF HalfClosed, ServerConnected, history
  <2>5. EndsFlow'
    BY <1>0, <1>4 DEF EndsFlow, Open, Opening, ServerConnected, history
  <2>6. ReadsOn'
    BY <1>0, <1>4 DEF ReadsOn, Open, Opening, ServerConnected
  <2>7. OneAtATime'
    BY <1>4 DEF Opening, OneAtATime, ServerConnected
  <2>8. OpensInPeace'
    BY <1>0, <1>4 DEF Opening, OpensInPeace, Undisturbed, ServerConnected, history
  <2>9. StoppedIsComplete'
    BY <1>4 DEF StoppedIsComplete, ServerConnected
  <2>10. DoneIsComplete'
    BY <1>4 DEF DoneIsComplete, ServerConnected
  <2>11. Numbered' /\ NotAhead' /\ QueueOrder'
    BY <1>0, <1>4 DEF Numbered, NotAhead, QueueOrder, ServerConnected, history
  <2>12. QED
    BY <2>1, <2>2, <2>3, <2>4, <2>5, <2>6, <2>7, <2>8, <2>9, <2>10, <2>11
       DEF IInv
<1>5. CASE ConnectedHookEnds
  <2>1. TypeOK'
    BY <1>0, <1>5 DEF TypeOK, ConnectedHookEnds, history
  <2>2. InFlight'
    <3>1. handler["server"] = "none"
      BY <1>0, <1>5 DEF Opening, ConnectedHookEnds, ServerServed
    <3>2. \A c \in Conns : handler[c] = "gone" => handler'[c] = "gone"
      BY <1>5, <3>1 DEF ConnectedHookEnds
    <3>3. QED BY <1>0, <1>5, <3>2, FlightFrame DEF Opening, ConnectedHookEnds,
       history,
                 Open
  <2>3. QueueOrder'
    BY <1>0, <1>5 DEF TypeOK, Hooks, Opening, Event, Conns, Numbered, NotAhead,
       Other, InFlight, Open, Opening, Handling, QueueOrder, ServerServed,
       HalfClosed,
       EndsFlow, OpensInPeace, Undisturbed, StoppedIsComplete, Stopped,
       DoneIsComplete, ConnectedHookEnds, history
  <2>4. ServerServed'
    BY <1>0, <1>5 DEF Opening, TypeOK, Conns, ServerServed, ConnectedHookEnds
  <2>5. HalfClosed'
    <3>1. handler["server"] = "none" /\ state["server"] = {"R", "W"}
      BY <1>0, <1>5 DEF Opening, ConnectedHookEnds, ServerServed
    <3>2. QED BY <1>0, <1>5, <3>1 DEF ConnectedHookEnds, HalfClosed, Finished,
                 Conns, Other
  <2>6. EndsFlow'
    BY <1>0, <1>5 DEF EndsFlow, Open, Opening, ConnectedHookEnds, history
  <2>7. ReadsOn'
    <3>1. state["server"] = {"R", "W"}
      BY <1>0, <1>5 DEF Opening, ConnectedHookEnds, ServerServed
    <3>2. QED BY <1>0, <1>5, <3>1 DEF ConnectedHookEnds, ReadsOn, Open, Opening
  <2>8. OneAtATime'
    BY <1>0, <1>5 DEF Opening, ServerServed, OneAtATime, ConnectedHookEnds
  <2>9. OpensInPeace'
    BY <1>5 DEF Opening, OpensInPeace, ConnectedHookEnds
  <2>10. StoppedIsComplete'
    BY <1>0, <1>5 DEF TypeOK, Hooks, Event, Conns, InFlight, Open, Opening,
       Handling,
       Finished, ServerServed, HalfClosed, OpensInPeace, Undisturbed,
       StoppedIsComplete, Stopped, ConnectedHookEnds, history
  <2>11. DoneIsComplete'
    BY <1>5 DEF DoneIsComplete, ConnectedHookEnds
  <2>12. Numbered' /\ NotAhead'
    BY <1>0, <1>5 DEF Numbered, NotAhead, ConnectedHookEnds, history
  <2>13. QED
    BY <2>1, <2>2, <2>3, <2>4, <2>5, <2>6, <2>7, <2>8, <2>9, <2>10, <2>11, <2>12
       DEF IInv
<1>6. CASE ConnectFails
  <2>1. TypeOK'
    BY <1>0, <1>6 DEF TypeOK, Opening, Hooks, ConnectFails, history
  <2>2. InFlight'
    BY <1>0, <1>6, FlightFrame DEF ConnectFails, history, Open, Opening
  <2>3. ServerServed'
    BY <1>0, <1>6 DEF ServerServed, Opening, ConnectFails
  <2>4. EndsFlow'
    BY <1>0, <1>6 DEF EndsFlow, Open, Opening, ConnectFails, history
  <2>5. ReadsOn'
    BY <1>0, <1>6 DEF ReadsOn, ServerServed, Open, Opening, ConnectFails
  <2>6. OneAtATime'
    BY <1>0, <1>6 DEF OneAtATime, Opening, ConnectFails, history
  <2>7. OpensInPeace'
    BY <1>0, <1>6 DEF OpensInPeace, Opening, Undisturbed, ConnectFails, history
  <2>8. StoppedIsComplete' /\ DoneIsComplete'
    BY <1>6 DEF StoppedIsComplete, DoneIsComplete, ConnectFails
  <2>9. Numbered' /\ NotAhead' /\ QueueOrder' /\ HalfClosed'
    BY <1>0, <1>6 DEF Numbered, NotAhead, QueueOrder, HalfClosed, ConnectFails,
       history
  <2>10. QED
    BY <2>1, <2>2, <2>3, <2>4, <2>5, <2>6, <2>7, <2>8, <2>9 DEF IInv
<1>7. CASE RefusedHookEnds
  <2>1. TypeOK'
    <3>1. ended' = ended \/ ended' = Append(ended, "error")
      BY <1>7 DEF RefusedHookEnds
    <3>2. ended \in Seq({"end", "error"})
      BY <1>0 DEF TypeOK
    <3>3. ended' \in Seq({"end", "error"})
      BY <3>1, <3>2
    <3>4. QED BY <1>0, <1>7, <3>3, ClosesClientOnly DEF RefusedHookEnds,
                 TypeOK, Hooks
  <2>2. Numbered'
    BY <1>0, <1>7, MessagesFrame DEF RefusedHookEnds
  <2>3. NotAhead'
    BY <1>0, <1>7, MessagesFrame DEF RefusedHookEnds
  <2>4. InFlight'
    BY <1>0, <1>7, FlightFrame DEF Opening, RefusedHookEnds, sockets, CloseClient,
       Open
  <2>5. QueueOrder'
    BY <1>0, <1>7, OrderFrame DEF RefusedHookEnds, sockets, CloseClient
  <2>6. ServerServed'
    BY <1>0, <1>7 DEF Opening, ServerServed, RefusedHookEnds, CloseClient, sockets
  <2>7. HalfClosed'
    <3>1. QED BY <1>0, <1>7, ClosesClientOnly DEF RefusedHookEnds, HalfClosed
  <2>8. EndsFlow'
    <3>0. phase = "refused_hook" /\ phase' \in {"done", "error_hook"}
      BY <1>7 DEF RefusedHookEnds
    <3>1. ended = << >>
      BY <1>0, <3>0 DEF EndsFlow, Open, Opening
    <3>2. Len(ended') <= 1
      BY <1>7, <3>1 DEF RefusedHookEnds
    <3>3. QED BY <3>0, <3>2 DEF EndsFlow, Open, Opening
  <2>9. ReadsOn'
    BY <1>7 DEF ReadsOn, Open, Opening, RefusedHookEnds
  <2>10. OneAtATime'
    BY <1>7 DEF Opening, OneAtATime, RefusedHookEnds
  <2>11. OpensInPeace'
    BY <1>7 DEF Opening, OpensInPeace, RefusedHookEnds
  <2>12. StoppedIsComplete'
    BY <1>7 DEF StoppedIsComplete, RefusedHookEnds
  <2>13. DoneIsComplete'
    BY <1>0, <1>7 DEF Opening, ServerServed, DoneIsComplete, RefusedHookEnds,
       CloseClient
  <2>14. QED
    BY <2>1, <2>2, <2>3, <2>4, <2>5, <2>6, <2>7, <2>8, <2>9, <2>10, <2>11,
       <2>12, <2>13 DEF IInv
<1>8. CASE ServerConnectCancelled
  <2>0. phase \in {"connect_hook", "connected_hook", "refused_hook"}
    BY <1>8 DEF ServerConnectCancelled, Opening, Hooks
  <2>1. TypeOK'
    BY <1>0, <1>8 DEF TypeOK, ServerConnectCancelled, history
  <2>2. InFlight'
    BY <1>0, <1>8, FlightFrame DEF ServerConnectCancelled, history
  <2>3. QueueOrder'
    BY <1>0, <1>8 DEF QueueOrder, Finished, ServerConnectCancelled, history
  <2>4. ServerServed'
    BY <1>0, <1>8, <2>0 DEF ServerServed, ServerConnectCancelled
  <2>5. HalfClosed'
    BY <1>0, <1>8 DEF HalfClosed, Finished, ServerConnectCancelled, history
  <2>6. ReadsOn'
    BY <1>0, <1>8 DEF ReadsOn, ServerConnectCancelled
  <2>7. OpensInPeace'
    BY <1>0, <1>8 DEF Opening, OpensInPeace, Undisturbed, ServerConnectCancelled,
       history
  <2>8. StoppedIsComplete'
    BY <1>8, <2>0 DEF StoppedIsComplete, ServerConnectCancelled
  <2>9. DoneIsComplete'
    BY <1>8, <2>0 DEF DoneIsComplete, ServerConnectCancelled
  <2>10. Numbered' /\ NotAhead' /\ EndsFlow' /\ OneAtATime'
    BY <1>0, <1>8 DEF Opening, Numbered, NotAhead, EndsFlow, OneAtATime,
       ServerConnectCancelled, history
  <2>11. QED
    BY <2>1, <2>2, <2>3, <2>4, <2>5, <2>6, <2>7, <2>8, <2>9, <2>10 DEF IInv
<1>9. CASE MessageHookEnds
  <2>1. TypeOK'
    BY <1>9, WrittenFromHook
  <2>2. Numbered'
    BY <1>9, WrittenFromHook
  <2>3. NotAhead'
    BY <1>9, WrittenFromHook
  <2>4. InFlight'
    BY <1>9, WrittenFromHook
  <2>5. ServerServed'
    BY <1>0, <1>9 DEF Opening, ServerServed, MessageHookEnds, sockets
  <2>6. HalfClosed'
    BY <1>9, WrittenFromHook
  <2>7. EndsFlow'
    BY <1>0, <1>9 DEF EndsFlow, Open, Opening, MessageHookEnds
  <2>8. ReadsOn'
    BY <1>0, <1>9 DEF ReadsOn, Open, Opening, MessageHookEnds, sockets
  <2>9. OneAtATime'
    BY <1>0, <1>9 DEF Opening, OneAtATime, MessageHookEnds
  <2>10. OpensInPeace'
    BY <1>9 DEF Opening, OpensInPeace, MessageHookEnds
  <2>11. StoppedIsComplete'
    BY <1>0, <1>9 DEF Opening, OneAtATime, Undisturbed, StoppedIsComplete,
       MessageHookEnds
  <2>12. DoneIsComplete'
    BY <1>9 DEF DoneIsComplete, MessageHookEnds
  <2>13. QueueOrder'
    BY <1>0, <1>9 DEF QueueOrder, MessageHookEnds, sockets
  <2>14. QED
    BY <2>1, <2>2, <2>3, <2>4, <2>5, <2>6, <2>7, <2>8, <2>9, <2>10, <2>11,
       <2>12, <2>13 DEF IInv
<1>10. CASE ErrorHookEnds
  <2>1. TypeOK'
    BY <1>0, <1>10 DEF TypeOK, Conns, ErrorHookEnds, CloseClient, history
  <2>2. Numbered'
    BY <1>0, <1>10, MessagesFrame DEF ErrorHookEnds, history
  <2>3. NotAhead'
    BY <1>0, <1>10, MessagesFrame DEF ErrorHookEnds, history
  <2>4. InFlight'
    BY <1>10 DEF InFlight, Open, Opening, ErrorHookEnds
  <2>5. QueueOrder'
    BY <1>0, <1>10, OrderFrame DEF ErrorHookEnds, history, CloseClient
  <2>6. ServerServed'
    BY <1>0, <1>10 DEF Opening, ServerServed, ErrorHookEnds, CloseClient
  <2>7. HalfClosed'
    BY <1>0, <1>10 DEF HalfClosed, ErrorHookEnds, CloseClient, history
  <2>8. EndsFlow'
    BY <1>0, <1>10 DEF EndsFlow, Open, Opening, ErrorHookEnds, history
  <2>9. ReadsOn'
    BY <1>10 DEF ReadsOn, Open, Opening, ErrorHookEnds
  <2>10. OneAtATime'
    BY <1>10 DEF Opening, OneAtATime, ErrorHookEnds
  <2>11. OpensInPeace'
    BY <1>10 DEF Opening, OpensInPeace, ErrorHookEnds
  <2>12. StoppedIsComplete'
    BY <1>10 DEF StoppedIsComplete, ErrorHookEnds
  <2>13. DoneIsComplete'
    BY <1>0, <1>10 DEF Opening, OneAtATime, Undisturbed, DoneIsComplete,
       ErrorHookEnds,
       history
  <2>14. QED
    BY <2>1, <2>2, <2>3, <2>4, <2>5, <2>6, <2>7, <2>8, <2>9, <2>10, <2>11,
       <2>12, <2>13 DEF IInv
<1>11. CASE EndHookEnds
  <2>1. TypeOK'
    BY <1>0, <1>11 DEF TypeOK, EndHookEnds, sockets, history
  <2>2. InFlight'
    BY <1>11 DEF InFlight, Open, Opening, EndHookEnds
  <2>3. ServerServed'
    BY <1>0, <1>11 DEF Opening, ServerServed, EndHookEnds, sockets
  <2>4. EndsFlow'
    BY <1>0, <1>11 DEF EndsFlow, Open, Opening, EndHookEnds, history
  <2>5. ReadsOn'
    BY <1>11 DEF ReadsOn, Open, Opening, EndHookEnds
  <2>6. OneAtATime'
    BY <1>11 DEF Opening, OneAtATime, EndHookEnds
  <2>7. OpensInPeace'
    BY <1>11 DEF Opening, OpensInPeace, EndHookEnds
  <2>8. StoppedIsComplete'
    BY <1>11 DEF StoppedIsComplete, EndHookEnds
  <2>9. DoneIsComplete'
    BY <1>0, <1>11 DEF Opening, OneAtATime, Undisturbed, DoneIsComplete,
       EndHookEnds,
       history
  <2>10. Numbered' /\ NotAhead' /\ QueueOrder' /\ HalfClosed'
    BY <1>0, <1>11 DEF Numbered, NotAhead, QueueOrder, HalfClosed, EndHookEnds,
       sockets, history
  <2>11. QED
    BY <2>1, <2>2, <2>3, <2>4, <2>5, <2>6, <2>7, <2>8, <2>9, <2>10 DEF IInv
<1>12. CASE CleanUp
  <2>1. TypeOK'
    BY <1>0, <1>12 DEF TypeOK, Conns, CleanUp
  <2>2. InFlight'
    BY <1>0, <1>12, FlightFrame DEF CleanUp
  <2>3. ServerServed'
    BY <1>0, <1>12 DEF Opening, ServerServed, CleanUp
  <2>4. ReadsOn'
    BY <1>0, <1>12 DEF ReadsOn, CleanUp
  <2>5. OpensInPeace'
    BY <1>0, <1>12 DEF Opening, OpensInPeace, Undisturbed, CleanUp
  <2>6. StoppedIsComplete'
    <3>1. \A d \in Conns : Stopped(d)' => Stopped(d) \/ d = "server"
      BY <1>12 DEF CleanUp, Stopped
    <3>2. ASSUME Undisturbed, phase = "relay"
          PROVE  handler["client"] \in Finished /\ out["server"] = arrived["client"]
      <4>1. handler["client"] \in Finished /\ queue = << >> /\ "client" \in Conns /\ Other("client") = "server"
        BY <1>12, <3>2 DEF CleanUp, Settled, Handled, Finished, Conns, Other
      <4>2. CASE handler["server"] # "gone"
        BY <1>0, <3>2, <4>1, <4>2, EndIsLast
      <4>3. CASE handler["server"] = "gone"
        BY <1>0, <3>2, <4>3 DEF StoppedIsComplete, Stopped, Conns, Other
      <4>4. QED BY <4>2, <4>3
    <3>3. Undisturbed' = Undisturbed
      BY <1>12 DEF CleanUp, Undisturbed
    <3>4. QED BY <1>0, <1>12, <3>1, <3>2, <3>3 DEF CleanUp, StoppedIsComplete,
                 Other
  <2>7. DoneIsComplete'
    BY <1>0, <1>12 DEF DoneIsComplete, Undisturbed, CleanUp
  <2>8. Numbered' /\ NotAhead' /\ QueueOrder' /\ HalfClosed' /\ EndsFlow' /\ OneAtATime'
    BY <1>0, <1>12 DEF Opening, Numbered, NotAhead, QueueOrder, HalfClosed,
       EndsFlow,
       OneAtATime, CleanUp
  <2>9. QED
    BY <2>1, <2>2, <2>3, <2>4, <2>5, <2>6, <2>7, <2>8 DEF IInv
<1>13. ASSUME NEW c \in Conns, AfterClosed(c)
      PROVE  IInv'
  <2>1. TypeOK'
    BY <1>0, <1>13 DEF TypeOK, AfterClosed, history
  <2>2. InFlight'
    BY <1>0, <1>13, FlightFrame DEF AfterClosed, history
  <2>3. QueueOrder'
    BY <1>0, <1>13 DEF QueueOrder, Finished, AfterClosed, history
  <2>4. ServerServed'
    BY <1>0, <1>13 DEF Opening, ServerServed, AfterClosed
  <2>5. HalfClosed'
    BY <1>0, <1>13 DEF HalfClosed, Finished, AfterClosed, history
  <2>6. ReadsOn'
    BY <1>0, <1>13 DEF ReadsOn, AfterClosed
  <2>7. OpensInPeace'
    BY <1>0, <1>13 DEF Opening, OpensInPeace, Undisturbed, AfterClosed, history
  <2>8. StoppedIsComplete'
    BY <1>0, <1>13 DEF StoppedIsComplete, Undisturbed, Stopped, Finished,
       AfterClosed, history
  <2>9. DoneIsComplete'
    BY <1>0, <1>13 DEF DoneIsComplete, Undisturbed, AfterClosed, history
  <2>10. Numbered' /\ NotAhead' /\ EndsFlow' /\ OneAtATime'
    BY <1>0, <1>13 DEF Opening, Numbered, NotAhead, EndsFlow, OneAtATime,
       AfterClosed,
       history
  <2>11. QED
    BY <2>1, <2>2, <2>3, <2>4, <2>5, <2>6, <2>7, <2>8, <2>9, <2>10 DEF IInv
<1>14. ASSUME NEW c \in Conns, CancelByOthers(c)
      PROVE  IInv'
  <2>1. TypeOK'
    BY <1>0, <1>14 DEF TypeOK, CancelByOthers
  <2>2. InFlight'
    BY <1>0, <1>14, FlightFrame DEF CancelByOthers
  <2>3. ServerServed'
    BY <1>0, <1>14 DEF Opening, ServerServed, CancelByOthers
  <2>4. ReadsOn'
    BY <1>0, <1>14 DEF ReadsOn, CancelByOthers
  <2>5. OpensInPeace'
    BY <1>14 DEF Opening, OpensInPeace, Undisturbed, CancelByOthers
  <2>6. StoppedIsComplete'
    BY <1>14 DEF StoppedIsComplete, Undisturbed, CancelByOthers
  <2>7. DoneIsComplete'
    BY <1>14 DEF DoneIsComplete, Undisturbed, CancelByOthers
  <2>8. Numbered' /\ NotAhead' /\ QueueOrder' /\ HalfClosed' /\ EndsFlow' /\ OneAtATime'
    BY <1>0, <1>14 DEF Opening, Numbered, NotAhead, QueueOrder, HalfClosed,
       EndsFlow,
       OneAtATime, CancelByOthers
  <2>9. QED
    BY <2>1, <2>2, <2>3, <2>4, <2>5, <2>6, <2>7, <2>8 DEF IInv
<1>15. ASSUME NEW c \in Conns, CancelDelivered(c), handler[c] = "half_closed"
      PROVE  IInv'
  <2>1. TypeOK'
    BY <1>0, <1>15 DEF TypeOK, CancelDelivered, history
  <2>2. InFlight'
    <3>1. \A d \in Conns : handler[d] = "gone" => handler'[d] = "gone"
      BY <1>0, <1>15 DEF CancelDelivered, TypeOK
    <3>2. QED BY <1>0, <1>15, <3>1, FlightFrame DEF CancelDelivered, history
  <2>3. QueueOrder'
    <3>1. handler' = [handler EXCEPT ![c] = "gone"] /\ handler \in [Conns -> {"none", "read", "closing", "half_closed", "gone"}]
      BY <1>0, <1>15 DEF CancelDelivered, TypeOK
    <3>2. \A d \in Conns : handler'[d] = handler[d] \/ handler'[d] = "gone"
      BY <3>1
    <3>3. QED BY <1>0, <1>15, <3>2, OrderFrame DEF CancelDelivered, history,
                 Finished, Conns
  <2>4. ServerServed'
    BY <1>0, <1>15 DEF TypeOK, Hooks, Opening, Conns, NotAhead, Other, Open,
       Opening,
       ServerServed, CancelDelivered
  <2>5. HalfClosed'
    BY <1>0, <1>15 DEF TypeOK, Hooks, Opening, Conns, Numbered, NotAhead, Other,
       Finished, HalfClosed, CancelDelivered, history
  <2>6. ReadsOn'
    BY <1>0, <1>15 DEF TypeOK, Hooks, Opening, Event, Conns, Numbered, NotAhead,
       Other, InFlight, EndsFlow, ReadsOn, OpensInPeace, CancelDelivered
  <2>7. OneAtATime'
    BY <1>0, <1>15 DEF Opening, OneAtATime, CancelDelivered, history
  <2>8. OpensInPeace'
    BY <1>0, <1>15 DEF Opening, OpensInPeace, Undisturbed, CancelDelivered, history
  <2>9. StoppedIsComplete'
    BY <1>0, <1>15 DEF TypeOK, Hooks, Conns, NotAhead, Other, Finished,
       Undisturbed, StoppedIsComplete, Stopped, CancelDelivered, history
  <2>10. DoneIsComplete'
    BY <1>0, <1>15 DEF TypeOK, Hooks, Opening, Conns, Undisturbed,
       DoneIsComplete, CancelDelivered, history
  <2>11. Numbered' /\ NotAhead' /\ EndsFlow'
    BY <1>0, <1>15 DEF Numbered, NotAhead, EndsFlow, CancelDelivered, history
  <2>12. QED
    BY <2>1, <2>2, <2>3, <2>4, <2>5, <2>6, <2>7, <2>8, <2>9, <2>10, <2>11
       DEF IInv
<1>16. ASSUME NEW c \in Conns, PeerSends(c)
      PROVE  IInv'
  BY <1>16, ArriveKeeps DEF PeerSends, sockets, IInv, TypeOK
<1>17. ASSUME NEW c \in Conns, Inject(c)
      PROVE  IInv'
  <2>1. injected' \in 0..MaxInjected
    BY <1>0, <1>17, BoundsAssumption DEF Inject, TypeOK
  <2>2. QED BY <1>17, <2>1, ArriveKeeps DEF Inject, sockets
<1>18. CASE HandleQueued
  BY <1>18, HandleQueuedKeeps
<1>19. ASSUME NEW c \in Conns, PeerCloses(c)
      PROVE  IInv'
  <2>1. QED BY <1>19, StopReadingKeeps DEF PeerCloses
<1>20. ASSUME NEW c \in Conns, CancelDelivered(c), handler[c] = "read"
      PROVE  IInv'
  <2>1. QED BY <1>20, StopReadingKeeps DEF CancelDelivered
<1>21. CASE UNCHANGED vars
  <2>1. Numbered' /\ NotAhead' /\ InFlight' /\ QueueOrder'
    BY <1>0, <1>21, MessagesFrame, FlightFrame, OrderFrame DEF vars
  <2>2. TypeOK' /\ ServerServed' /\ HalfClosed' /\ EndsFlow' /\ ReadsOn'
    BY <1>0, <1>21 DEF Opening, vars, TypeOK, ServerServed, HalfClosed, EndsFlow,
       ReadsOn
  <2>3. OneAtATime' /\ OpensInPeace' /\ StoppedIsComplete' /\ DoneIsComplete'
    BY <1>0, <1>21 DEF Opening, vars, OneAtATime, OpensInPeace, StoppedIsComplete,
       DoneIsComplete, Stopped, Undisturbed
  <2>4. QED BY <2>1, <2>2, <2>3 DEF IInv
<1>22. CASE Timeout
  <2>1. "client" \in Conns
    BY DEF Conns
  <2>2. QED BY <1>22, <2>1, <1>14 DEF Timeout
<1>23. ASSUME NEW c \in Conns, CancelDelivered(c)
      PROVE  IInv'
  BY <1>15, <1>20, <1>23 DEF CancelDelivered
<1>24. QED
  BY <1>1, <1>2, <1>3, <1>4, <1>5, <1>7, <1>8, <1>9, <1>10, <1>11, <1>12, <1>13,
     <1>14, <1>16, <1>17, <1>18, <1>19, <1>21, <1>22, <1>23, <1>6 DEF Next, Layer,
     Handlers, Peer, Lose

(* The inductive invariant holds throughout. *)
THEOREM TcpInvariant == Spec => []IInv
<1>1. QED BY InitInv, StepInv, PTL DEF Spec

(* A peer gets what the other one sent, in order, with no gap, before any  *)
(* half-close, and all of it when no hook held it and nothing was lost     *)
(* (relay_messages), for any number of messages.                           *)
THEOREM TcpRelays == Spec => []Relayed
<1>1. ASSUME IInv PROVE Relayed
  <2>1. RelayedInOrder
    BY <1>1, PrefixOfNumbered DEF IInv, RelayedInOrder
  <2>2. EofLast
    BY <1>1 DEF IInv, HalfClosed, EofLast
  <2>3. RelaysEverythingUnheld
    BY <1>1 DEF IInv, DoneIsComplete, Undisturbed, RelaysEverythingUnheld,
       RelaysEverything
  <2>4. QED BY <1>1, <2>1, <2>2, <2>3 DEF IInv, Relayed
<1>2. QED BY <1>1, TcpInvariant, PTL

(* A flow gets tcp_end or tcp_error, never both, and neither twice         *)
(* (tcp.py:49).                                                            *)
THEOREM TcpEndsOnce == Spec => []EndedOnce
<1>1. IInv => EndedOnce
  BY DEF IInv, EndsFlow, EndedOnce
<1>2. QED BY <1>1, TcpInvariant, PTL
=============================================================================
