---------------------------- MODULE HandlerProofs ---------------------------
(***************************************************************************)
(* Proofs about ConnectionHandler, for any number of servers, permits,     *)
(* reads and hooks: what the two locks and the semaphore keep on every     *)
(* path out of the handlers, cancelled or not.                             *)
(***************************************************************************)
EXTENDS ConnectionHandler, FiniteSetTheorems, SequenceTheorems, TLAPS

\* Task t is in server_event, or waits for its turn.
Inside(t) == t = holder \/ t \in ToSet(waiters)

\* The queue of the lock: nobody is in it twice.
InLine == IsInjective(waiters) /\ holder \notin ToSet(waiters)

\* Exactly those are inside who have handed over an event.
Queued ==
  /\ \A c \in Conns : pc[c] = "event" <=> Inside(c)
  /\ hook = "event" <=> Inside("hook")
  /\ timer = "event" <=> Inside("timer")
  /\ main = "start" <=> Inside("main")

Drains == \A c \in Conns : pc[c] = "drain" <=> drainer = c

\* The handler of the client is created once, and has nothing to open.
ClientIsServed ==
  /\ main \in {"connect_hook", "start"} => pc[client] = "none"
  /\ pc[client] \in Reading \cup {"none", "event", "half_closed", "done"}
  /\ pc[client] = "event" => event[client] \in {"data", "closed"}

\* Handler c is at one of these places, or hands over one of these events.
At(c, places, events) == pc[c] \in places \/ (pc[c] = "event" /\ event[c] \in events)

\* Its connection is established, and the layer knows.
Established(c) == At(c, Reading \cup {"half_closed"}, {"data", "closed"})

\* What a handler has got to says which hooks it has run.
Ran(c) ==
  /\ pc[c] = "none" => saw[c] = {}
  /\ pc[c] \in {"connect_hook", "semaphore", "connecting"} => saw[c] = {"connect"}
  /\ At(c, {"kill_hook", "error_hook"}, {"killed", "failed"}) =>
       saw[c] = {"connect", "error"}
  /\ At(c, {"connected_hook"}, {"completed"}) \/ Established(c) =>
       saw[c] = {"connect", "connected"}
  /\ pc[c] = "disconnect_hook" => saw[c] = {"connect", "connected", "disconnected"}

HooksRan == \A c \in Servers : Ran(c)

\* An event is there from when it is handed over.
EventHandedOver == \A c \in Conns : pc[c] = "event" => event[c] # "none"

\* Handlers that read, or have read, have answered the layer.
ReadersAnswered ==
  \A c \in Servers :
    Established(c) \/ pc[c] = "disconnect_hook" => c \in answered

PendingWereCancelled == pending \subseteq cancels

\* Who reports its end cannot be read any more.
ClosedCannotRead ==
  \A c \in Conns : pc[c] = "event" /\ event[c] = "closed" => "R" \notin state[c]

\* Handlers that have a connection, or will have one.
Serving(c) == pc[c] \notin {"none", "done", "disconnect_hook"}

\* handle_client finds every such handler in transports, and waits for it.
ServedAreAwaited ==
  /\ main \in {"connect_hook", "start"} => client \in transports
  /\ \A c \in Conns : Serving(c) => c \in transports
  /\ ~LateOpen =>
       /\ main = "closing" => \A c \in Conns : Serving(c) => c \in awaited
       /\ main = "done" => \A c \in Conns : ~Serving(c)

IInv ==
  /\ TypeOK /\ InLine /\ Queued /\ Drains /\ ClientIsServed /\ PermitsKept
  /\ HooksRan /\ HooksMatch /\ OpenAnswered
  /\ EventHandedOver /\ ReadersAnswered
  /\ PendingWereCancelled /\ ClosedCannotRead /\ ServedAreAwaited

-----------------------------------------------------------------------------
(* The lock of server_event.                                               *)

Places == Hooking \cup Reading \cup
  {"none", "semaphore", "connecting", "event", "half_closed", "done"}
Events == {"none", "killed", "failed", "completed", "data", "closed"}
HooksOfServers == {"connect", "connected", "error", "disconnected"}

LockKept ==
  /\ waiters \in Seq(Tasks) /\ Len(waiters) <= Cardinality(Tasks)
  /\ holder \in Tasks \cup {"nobody"}
  /\ InLine

(* There are finitely many tasks, and they have names of their own.        *)
LEMMA TasksAreFinite ==
  /\ IsFiniteSet(Tasks) /\ "nobody" \notin Tasks
  /\ {"main", "hook", "timer"} \subseteq Tasks /\ Conns \subseteq Tasks
  /\ client \in Conns /\ Servers = Conns \ {client}
  /\ Conns \cap {"main", "hook", "timer"} = {}
<1>1. IsFiniteSet(Conns)
  BY ConnsAssumption, FS_AddElement DEF Conns
<1>2. IsFiniteSet(Conns \cup {"main"} \cup {"hook"} \cup {"timer"})
  BY <1>1, FS_AddElement
<1>3. Tasks = Conns \cup {"main"} \cup {"hook"} \cup {"timer"}
  BY DEF Tasks
<1>4. QED BY <1>2, <1>3, ConnsAssumption DEF Conns

(* A queue in which nobody is twice is not longer than there are tasks.    *)
LEMMA QueueIsShort ==
  ASSUME NEW q \in Seq(Tasks), IsInjective(q)
  PROVE  Len(q) <= Cardinality(Tasks)
<1>1. q \in Injection(1..Len(q), Tasks)
  <2>1. QED BY DEF Injection
<1>2. Cardinality(1..Len(q)) = Len(q)
  <2>1. Cardinality(1..Len(q)) = IF 1 > Len(q) THEN 0 ELSE Len(q) - 1 + 1
    BY FS_Interval
  <2>2. QED BY <2>1
<1>3. QED BY <1>1, <1>2, FS_Injection, TasksAreFinite

(* A task joins the end of a queue it is not in.                           *)
LEMMA JoiningQueue ==
  ASSUME NEW q \in Seq(Tasks), IsInjective(q), NEW t \in Tasks, t \notin ToSet(q)
  PROVE  /\ Append(q, t) \in Seq(Tasks) /\ IsInjective(Append(q, t))
         /\ ToSet(Append(q, t)) = ToSet(q) \cup {t}
<1>1. IsInjective(Append(q, t))
  BY DEF IsInjective, ToSet
<1>2. ToSet(Append(q, t)) = ToSet(q) \cup {t}
  BY DEF ToSet
<1>3. QED BY <1>1, <1>2

(* The first of a queue leaves it.                                         *)
LEMMA LeavingFirst ==
  ASSUME NEW q \in Seq(Tasks), IsInjective(q), q # << >>
  PROVE  /\ Head(q) \in Tasks /\ Tail(q) \in Seq(Tasks) /\ IsInjective(Tail(q))
         /\ ToSet(Tail(q)) = ToSet(q) \ {Head(q)} /\ Head(q) \in ToSet(q)
<1>1. IsInjective(Tail(q))
  BY DEF IsInjective
<1>2. ToSet(Tail(q)) \subseteq ToSet(q) \ {Head(q)}
  BY DEF IsInjective, ToSet
<1>3. ASSUME NEW k \in DOMAIN q, q[k] # Head(q)
      PROVE  q[k] \in ToSet(Tail(q))
  <2>1. k - 1 \in DOMAIN Tail(q) /\ Tail(q)[k - 1] = q[k]
    BY <1>3
  <2>2. QED BY <2>1 DEF ToSet
<1>4. ToSet(q) \ {Head(q)} \subseteq ToSet(Tail(q))
  <2>1. \A x \in ToSet(q) : \E k \in DOMAIN q : x = q[k]
    BY DEF ToSet
  <2>2. QED BY <1>3, <2>1
<1>5. Head(q) \in ToSet(q)
  BY DEF ToSet
<1>6. QED BY <1>1, <1>2, <1>4, <1>5

\* a is what is in front of place k of q, b what is behind it.
Around(q, k, a, b) ==
  /\ Len(a) = k - 1 /\ \A j \in 1..(k - 1) : a[j] = q[j]
  /\ Len(b) = Len(q) - k /\ \A j \in 1..(Len(q) - k) : b[j] = q[j + k]

\* r is q without what is at place k.
Without(q, k, r) ==
  /\ r \in Seq(Tasks) /\ Len(r) = Len(q) - 1
  /\ \A j \in 1..(Len(q) - 1) : r[j] = IF j < k THEN q[j] ELSE q[j + 1]

(* The two parts around a place make up the queue without it.              *)
LEMMA Joined ==
  ASSUME NEW q \in Seq(Tasks), NEW k \in 1..Len(q),
         NEW a \in Seq(Tasks), NEW b \in Seq(Tasks), Around(q, k, a, b)
  PROVE  Without(q, k, a \o b)
<1>0. /\ Len(a) = k - 1 /\ \A j \in 1..(k - 1) : a[j] = q[j]
      /\ Len(b) = Len(q) - k /\ \A j \in 1..(Len(q) - k) : b[j] = q[j + k]
  BY DEF Around
<1>1. a \o b \in Seq(Tasks) /\ Len(a \o b) = Len(q) - 1
  <2>1. Len(a \o b) = Len(a) + Len(b)
    OBVIOUS
  <2>2. QED BY <1>0, <2>1
<1>2. ASSUME NEW j \in 1..(Len(q) - 1)
      PROVE  (a \o b)[j] = IF j < k THEN q[j] ELSE q[j + 1]
  <2>1. CASE j < k
    <3>1. (a \o b)[j] = a[j] /\ a[j] = q[j]
      BY <1>0, <2>1
    <3>2. QED BY <2>1, <3>1
  <2>2. CASE j >= k
    <3>1. j - (k - 1) \in 1..(Len(q) - k) /\ (j - (k - 1)) + k = j + 1
      BY <2>2
    <3>2. b[j - (k - 1)] = q[j + 1]
      BY <1>0, <3>1
    <3>3. (a \o b)[j] = b[j - (k - 1)]
      BY <1>0, <2>2
    <3>4. (a \o b)[j] = q[j + 1]
      BY <3>2, <3>3
    <3>5. ~(j < k)
      BY <2>2
    <3>6. QED BY <3>4, <3>5
  <2>3. j < k \/ j >= k
    OBVIOUS
  <2>4. QED BY <2>1, <2>2, <2>3
<1>3. QED BY <1>1, <1>2 DEF Without

(* A task leaves a queue from where it is.                                 *)
LEMMA LeavingQueue ==
  ASSUME NEW q \in Seq(Tasks), IsInjective(q), NEW k \in DOMAIN q
  PROVE  /\ RemoveAt(q, k) \in Seq(Tasks) /\ IsInjective(RemoveAt(q, k))
         /\ ToSet(RemoveAt(q, k)) = ToSet(q) \ {q[k]}
<1> DEFINE r == RemoveAt(q, k)
<1>1. PICK a \in Seq(Tasks) :
        /\ a = SubSeq(q, 1, k - 1) /\ Len(a) = k - 1
        /\ \A j \in 1..(k - 1) : a[j] = q[j]
  <2>1. /\ SubSeq(q, 1, k - 1) \in Seq(Tasks) /\ Len(SubSeq(q, 1, k - 1)) = k - 1
        /\ \A j \in 1..(k - 1) : SubSeq(q, 1, k - 1)[j] = q[j]
    OBVIOUS
  <2>2. QED BY <2>1
<1>2. PICK b \in Seq(Tasks) :
        /\ b = SubSeq(q, k + 1, Len(q)) /\ Len(b) = Len(q) - k
        /\ \A j \in 1..(Len(q) - k) : b[j] = q[j + k]
  <2>1. SubSeq(q, k + 1, Len(q)) \in Seq(Tasks)
    OBVIOUS
  <2>2. Len(SubSeq(q, k + 1, Len(q))) = Len(q) - k
    OBVIOUS
  <2>3. \A j \in 1..(Len(q) - k) : SubSeq(q, k + 1, Len(q))[j] = q[j + k]
    OBVIOUS
  <2>4. QED BY <2>1, <2>2, <2>3
<1>3. /\ r \in Seq(Tasks) /\ Len(r) = Len(q) - 1
      /\ \A j \in 1..(Len(q) - 1) : r[j] = IF j < k THEN q[j] ELSE q[j + 1]
  <2>1. r = a \o b
    BY <1>1, <1>2 DEF RemoveAt
  <2>2. k \in 1..Len(q)
    OBVIOUS
  <2> HIDE DEF r
  <2>3. Around(q, k, a, b)
    BY <1>1, <1>2 DEF Around
  <2>4. Without(q, k, r)
    BY <2>1, <2>2, <2>3, Joined
  <2>5. QED BY <2>4 DEF Without
<1> HIDE DEF r
<1>4. DOMAIN r = 1..(Len(q) - 1)
  BY <1>3
<1>5. \A i \in DOMAIN r : \E j \in DOMAIN q :
        /\ r[i] = q[j] /\ j # k /\ j = IF i < k THEN i ELSE i + 1
  BY <1>3
<1>6. IsInjective(r)
  <2> SUFFICES ASSUME NEW i \in DOMAIN r, NEW j \in DOMAIN r, r[i] = r[j]
               PROVE  i = j
    BY DEF IsInjective
  <2>1. /\ (IF i < k THEN i ELSE i + 1) \in DOMAIN q
        /\ (IF j < k THEN j ELSE j + 1) \in DOMAIN q
        /\ q[IF i < k THEN i ELSE i + 1] = q[IF j < k THEN j ELSE j + 1]
    BY <1>5
  <2>2. (IF i < k THEN i ELSE i + 1) = (IF j < k THEN j ELSE j + 1)
    BY <2>1 DEF IsInjective
  <2>3. QED BY <1>4, <2>2
<1>7. ToSet(r) \subseteq ToSet(q) \ {q[k]}
  BY <1>5 DEF IsInjective, ToSet
<1>8. ASSUME NEW j \in DOMAIN q, j # k
      PROVE  q[j] \in ToSet(r)
  <2>1. CASE j < k
    <3>1. j \in DOMAIN r /\ r[j] = q[j]
      BY <1>3, <2>1
    <3>2. QED BY <3>1 DEF ToSet
  <2>2. CASE j > k
    <3>1. j - 1 \in DOMAIN r /\ r[j - 1] = q[j]
      BY <1>3, <2>2
    <3>2. QED BY <3>1 DEF ToSet
  <2>3. QED BY <1>8, <2>1, <2>2
<1>9. ToSet(q) \ {q[k]} \subseteq ToSet(r)
  <2>1. \A x \in ToSet(q) : \E j \in DOMAIN q : x = q[j]
    BY DEF ToSet
  <2>2. QED BY <1>8, <2>1
<1>10. QED BY <1>3, <1>6, <1>7, <1>9 DEF r

(* Who calls server_event is inside, or in line for it.                    *)
LEMMA Calls ==
  ASSUME LockKept, NEW t \in Tasks, ~Inside(t), Call(t)
  PROVE  LockKept' /\ \A u \in Tasks : Inside(u)' <=> Inside(u) \/ u = t
<1>1. CASE holder = "nobody" /\ waiters = << >>
  <2>1. holder' = t /\ waiters' = waiters
    BY <1>1 DEF Call
  <2>2. QED BY <1>1, <2>1, TasksAreFinite DEF LockKept, InLine, Inside
<1>2. CASE ~(holder = "nobody" /\ waiters = << >>)
  <2>1. holder' = holder /\ waiters' = Append(waiters, t)
    BY <1>2 DEF Call
  <2>2. t # holder /\ t \notin ToSet(waiters)
    BY DEF Inside
  <2>3. /\ waiters' \in Seq(Tasks) /\ IsInjective(waiters')
        /\ ToSet(waiters') = ToSet(waiters) \cup {t}
    BY <2>1, <2>2, JoiningQueue DEF LockKept, InLine
  <2>4. QED BY <2>1, <2>3, QueueIsShort DEF LockKept, InLine, Inside
<1>3. QED BY <1>1, <1>2

(* Who leaves server_event leaves the others in line.                      *)
LEMMA Releases ==
  ASSUME LockKept, Release
  PROVE  LockKept' /\ \A u \in Tasks : Inside(u)' <=> Inside(u) /\ u # holder
BY TasksAreFinite DEF LockKept, InLine, Inside, Release, ToSet

(* Who leaves it and calls again at once is inside still, or again in line. *)
LEMMA ReleasesAndCalls ==
  ASSUME LockKept, NEW t \in Tasks, holder = t, ReleaseAndCall(t)
  PROVE  LockKept' /\ \A u \in Tasks : Inside(u)' <=> Inside(u)
<1>1. CASE waiters = << >>
  BY <1>1 DEF ReleaseAndCall, locking, LockKept, InLine, Inside
<1>2. CASE waiters # << >>
  <2>1. holder' = "nobody" /\ waiters' = Append(waiters, t)
    BY <1>2 DEF ReleaseAndCall
  <2>2. /\ waiters' \in Seq(Tasks) /\ IsInjective(waiters')
        /\ ToSet(waiters') = ToSet(waiters) \cup {t}
    BY <2>1, JoiningQueue DEF LockKept, InLine
  <2>3. ToSet(waiters') \subseteq Tasks
    BY <2>2 DEF ToSet
  <2>4. QED BY <2>1, <2>2, <2>3, QueueIsShort, TasksAreFinite DEF LockKept,
               InLine, Inside
<1>3. QED BY <1>1, <1>2

(* The next in line gets in.                                               *)
LEMMA Acquires ==
  ASSUME LockKept, Acquire
  PROVE  LockKept' /\ \A u \in Tasks : Inside(u)' <=> Inside(u)
<1>1. holder' = Head(waiters) /\ waiters' = Tail(waiters) /\ waiters # << >>
  BY DEF Acquire
<1>2. /\ holder' \in Tasks /\ waiters' \in Seq(Tasks) /\ IsInjective(waiters')
      /\ ToSet(waiters') = ToSet(waiters) \ {holder'} /\ holder' \in ToSet(waiters)
  BY <1>1, LeavingFirst DEF LockKept, InLine
<1>3. QED BY <1>2, QueueIsShort, TasksAreFinite DEF LockKept, InLine, Inside,
             Acquire

(* A cancelled task leaves the line.                                       *)
LEMMA Leaves ==
  ASSUME LockKept, NEW t \in Tasks, UNCHANGED holder, t # holder,
         \E k \in DOMAIN waiters : waiters[k] = t /\ waiters' = RemoveAt(waiters, k)
  PROVE  LockKept' /\ \A u \in Tasks : Inside(u)' <=> Inside(u) /\ u # t
<1>1. PICK k \in DOMAIN waiters : waiters[k] = t /\ waiters' = RemoveAt(waiters, k)
  OBVIOUS
<1>2. /\ waiters' \in Seq(Tasks) /\ IsInjective(waiters')
      /\ ToSet(waiters') = ToSet(waiters) \ {t}
  BY LeavingQueue DEF LockKept, InLine
<1>3. QED BY <1>2, QueueIsShort DEF LockKept, InLine, Inside

LEMMA LockFrame ==
  ASSUME LockKept, UNCHANGED locking
  PROVE  LockKept' /\ \A u \in Tasks : Inside(u)' <=> Inside(u)
BY DEF LockKept, InLine, Inside, locking

-----------------------------------------------------------------------------
(* The semaphore.                                                          *)

\* A step of handler c takes a permit, returns one, or leaves them all.
PermitMoves(c) ==
  /\ \A d \in Servers \ {c} : HasPermit(d)' <=> HasPermit(d)
  /\ \/ (HasPermit(c)' <=> HasPermit(c)) /\ UNCHANGED permits
     \/ ~HasPermit(c) /\ HasPermit(c)' /\ permits > 0 /\ permits' = permits - 1
     \/ HasPermit(c) /\ ~HasPermit(c)' /\ permits' = permits + 1

(* What is taken and returned one at a time adds up.                       *)
LEMMA PermitStep ==
  ASSUME permits \in 0..MaxConns, PermitsKept, NEW c \in Conns, PermitMoves(c)
  PROVE  PermitsKept' /\ permits' \in 0..MaxConns
<1> DEFINE H == {d \in Servers : HasPermit(d)}
           G == {d \in Servers : HasPermit(d)'}
<1>1. IsFiniteSet(H) /\ Cardinality(H) \in Nat
  BY ConnsAssumption, FS_Subset, FS_CardinalityType
<1>2. HasPermit(c) => c \in H
  BY DEF HasPermit
<1>3. HasPermit(c)' => c \in G
  BY DEF HasPermit
<1>4. permits \in Nat /\ MaxConns \in Nat /\ permits + Cardinality(H) = MaxConns
  BY BoundsAssumption DEF PermitsKept
<1>5. PermitsKept' <=> permits' + Cardinality(G) = MaxConns
  BY DEF PermitsKept
<1>6. \A d \in Servers \ {c} : HasPermit(d)' <=> HasPermit(d)
  BY DEF PermitMoves
<1>7. CASE (HasPermit(c)' <=> HasPermit(c)) /\ UNCHANGED permits
  <2>1. G = H
    BY <1>6, <1>7
  <2>2. permits' = permits
    BY <1>7
  <2>3. QED BY <1>4, <1>5, <2>1, <2>2
<1>8. CASE ~HasPermit(c) /\ HasPermit(c)' /\ permits > 0 /\ permits' = permits - 1
  <2>1. G = H \cup {c} /\ c \notin H
    BY <1>3, <1>6, <1>8
  <2>2. Cardinality(G) = Cardinality(H) + 1
    BY <1>1, <2>1, FS_AddElement
  <2>3. permits > 0 /\ permits' = permits - 1
    BY <1>8
  <2>4. QED
    <3> HIDE DEF G, H
    <3>1. QED BY <1>1, <1>4, <1>5, <2>2, <2>3
<1>9. CASE HasPermit(c) /\ ~HasPermit(c)' /\ permits' = permits + 1
  <2>1. G = H \ {c} /\ c \in H
    BY <1>2, <1>6, <1>9
  <2>2. Cardinality(G) = Cardinality(H) - 1 /\ Cardinality(G) \in Nat
    <3> HIDE DEF G, H
    <3>1. IsFiniteSet(G) /\ Cardinality(G) = Cardinality(H) - 1
      BY <1>1, <2>1, FS_RemoveElement
    <3>2. QED BY <3>1, FS_CardinalityType
  <2>3. permits' = permits + 1
    BY <1>9
  <2>4. QED
    <3> HIDE DEF G, H
    <3>1. QED BY <1>1, <1>4, <1>5, <2>2, <2>3
<1>10. QED BY <1>7, <1>8, <1>9 DEF PermitMoves

(* A task leaves server_event, and another calls it before the others run. *)
LEMMA Swaps ==
  ASSUME LockKept, NEW t \in Tasks, ~Inside(t), holder \in Tasks,
         IF waiters = << >> THEN holder' = t /\ UNCHANGED waiters
         ELSE holder' = "nobody" /\ waiters' = Append(waiters, t)
  PROVE  LockKept' /\ \A u \in Tasks : Inside(u)' <=> u = t \/ (Inside(u) /\ u # holder)
<1>1. CASE waiters = << >>
  <2>1. holder' = t /\ waiters' = waiters
    BY <1>1
  <2>2. QED BY <2>1 DEF LockKept, InLine, Inside
<1>2. CASE waiters # << >>
  <2>1. holder' = "nobody" /\ waiters' = Append(waiters, t)
    BY <1>2
  <2>2. t \notin ToSet(waiters)
    BY DEF Inside
  <2>3. /\ waiters' \in Seq(Tasks) /\ IsInjective(waiters')
        /\ ToSet(waiters') = ToSet(waiters) \cup {t}
    BY <2>1, <2>2, JoiningQueue DEF LockKept, InLine
  <2>4. ToSet(waiters') \subseteq Tasks
    BY <2>3 DEF ToSet
  <2>5. QED
    BY <2>3, <2>4, QueueIsShort, TasksAreFinite DEF LockKept, InLine, Inside
<1>3. QED BY <1>1, <1>2

-----------------------------------------------------------------------------
(* Every step keeps the invariant. *)
LEMMA StepInv == IInv /\ [Next]_vars => IInv'
<1> SUFFICES ASSUME IInv, [Next]_vars PROVE IInv'
  OBVIOUS
<1> USE TasksAreFinite
<1>0. /\ TypeOK /\ InLine /\ Queued /\ Drains /\ ClientIsServed /\ PermitsKept
      /\ HooksRan /\ HooksMatch /\ OpenAnswered
      /\ EventHandedOver /\ ReadersAnswered
      /\ PendingWereCancelled /\ ClosedCannotRead /\ ServedAreAwaited
      /\ LockKept /\ permits \in 0..MaxConns
  BY DEF IInv, TypeOK, LockKept
<1>1. /\ pc \in [Conns -> Places] /\ event \in [Conns -> Events]
      /\ sock \in [Conns -> {"none", "open", "closed"}]
      /\ state \in [Conns -> SUBSET OPEN]
      /\ saw \in [Conns -> SUBSET HooksOfServers]
  BY <1>0 DEF TypeOK, Places, Events, HooksOfServers
<1>2. CASE Acquire
  <2>1. LockKept' /\ \A u \in Tasks : Inside(u)' <=> Inside(u)
    BY <1>0, <1>2, Acquires
  <2>2. /\ UNCHANGED <<pc, event, permits>>
       /\ \A d \in Servers : HasPermit(d)' <=> HasPermit(d)
    BY <1>2 DEF HasPermit, Acquire
  <2>3. PermitsKept' /\ permits' \in 0..MaxConns
    BY <1>0, <2>2 DEF PermitsKept
  <2>4. TypeOK'
    BY <1>0, <1>2, <2>1 DEF TypeOK, LockKept, Acquire, draining, layer, history,
       cleanup, cancelling
  <2>5. Queued'
    BY <1>0, <1>2, <2>1 DEF Queued, Acquire, layer, cleanup
  <2>6. Drains' /\ ClientIsServed' /\ HooksRan' /\ HooksMatch' /\ OpenAnswered' /\
     EventHandedOver' /\ ReadersAnswered' /\ PendingWereCancelled' /\
     ClosedCannotRead' /\ ServedAreAwaited'
    BY <1>0, <1>2 DEF Drains, ClientIsServed, HooksRan, Ran, At, Established,
       HooksMatch, OpenAnswered, EventHandedOver, ReadersAnswered,
       PendingWereCancelled, ClosedCannotRead, ServedAreAwaited, Serving,
       Acquire, draining, history, cleanup, cancelling
  <2>7. QED
    BY <2>1, <2>3, <2>4, <2>5, <2>6 DEF IInv, LockKept
<1>3. ASSUME NEW c \in Conns, ConnectHookEnds(c)
      PROVE  IInv'
  <2>1. c \in Servers
    BY <1>0, <1>3 DEF ClientIsServed, Reading, ConnectHookEnds
  <2>2. LockKept' /\ \A u \in Tasks : Inside(u)' <=> Inside(u)
    BY <1>0, <1>3, LockFrame DEF ConnectHookEnds
  <2>3. PermitMoves(c)
    BY <1>1, <1>3 DEF PermitMoves, HasPermit, ConnectHookEnds, Goto
  <2>4. PermitsKept' /\ permits' \in 0..MaxConns
    BY <1>0, <2>3, PermitStep
  <2>5. pc' \in [Conns -> Places]
    BY <1>1, <1>3 DEF Places, Hooking, ConnectHookEnds, Goto
  <2>6. TypeOK'
    BY <1>0, <1>1, <1>3, <2>1, <2>2, <2>5 DEF TypeOK, LockKept, Places,
       ConnectHookEnds, Goto, Saw, draining, layer, cleanup, cancelling
  <2>7. Queued'
    BY <1>0, <1>1, <1>3, <2>2 DEF Queued, ConnectHookEnds, Goto, layer, cleanup
  <2>8. Drains'
    BY <1>0, <1>1, <1>3 DEF Drains, ConnectHookEnds, Goto, draining
  <2>9. ClientIsServed'
    BY <1>0, <1>1, <1>3, <2>1 DEF ClientIsServed, ConnectHookEnds, Goto, cleanup
  <2>10. HooksRan'
    BY <1>0, <1>1, <1>3 DEF HooksRan, Ran, At, Established, Reading,
       ConnectHookEnds, Goto, Saw
  <2>11. HooksMatch'
    BY <1>0, <1>1, <1>3 DEF HooksMatch, HooksRan, Ran, ConnectHookEnds, Goto,
       Saw, cancelling
  <2>12. OpenAnswered'
    BY <1>0, <1>1, <1>3 DEF OpenAnswered, ConnectHookEnds, Goto, cancelling
  <2>13. EventHandedOver'
    BY <1>0, <1>1, <1>3 DEF EventHandedOver, ConnectHookEnds, Goto
  <2>14. ReadersAnswered'
    BY <1>0, <1>1, <1>3 DEF ReadersAnswered, Established, At, Reading,
       ConnectHookEnds, Goto
  <2>15. ClosedCannotRead'
    BY <1>0, <1>1, <1>3 DEF ClosedCannotRead, ConnectHookEnds, Goto
  <2>16. ServedAreAwaited'
    BY <1>0, <1>1, <1>3 DEF ServedAreAwaited, Serving, ConnectHookEnds, Goto,
       cleanup
  <2>17. PendingWereCancelled'
    BY <1>0, <1>3 DEF PendingWereCancelled, ConnectHookEnds, cancelling
  <2>18. QED
    BY <2>2, <2>4, <2>6, <2>7, <2>8, <2>9, <2>10, <2>11, <2>12, <2>13, <2>14,
       <2>15, <2>16, <2>17 DEF IInv, LockKept
<1>4. ASSUME NEW c \in Conns, GetPermit(c)
      PROVE  IInv'
  <2>1. c \in Servers
    BY <1>0, <1>4 DEF ClientIsServed, Reading, GetPermit
  <2>2. LockKept' /\ \A u \in Tasks : Inside(u)' <=> Inside(u)
    BY <1>0, <1>4, LockFrame DEF GetPermit
  <2>3. PermitMoves(c)
    BY <1>1, <1>4, <2>1 DEF PermitMoves, HasPermit, GetPermit, Goto
  <2>4. PermitsKept' /\ permits' \in 0..MaxConns
    BY <1>0, <2>3, PermitStep
  <2>5. TypeOK'
    BY <1>0, <1>4, <2>2, <2>4 DEF TypeOK, LockKept, GetPermit, Goto, draining,
       layer, history, cleanup, cancelling
  <2>6. Queued'
    BY <1>0, <1>4, <2>2 DEF Queued, GetPermit, Goto, layer, cleanup
  <2>7. Drains'
    BY <1>0, <1>4 DEF Drains, GetPermit, Goto, draining
  <2>8. ClientIsServed'
    BY <1>0, <1>4, <2>1 DEF ClientIsServed, GetPermit, Goto, cleanup
  <2>9. HooksRan'
    BY <1>0, <1>4 DEF HooksRan, Ran, At, Established, Reading, GetPermit, Goto,
       history
  <2>10. HooksMatch'
    BY <1>0, <1>4 DEF HooksMatch, GetPermit, Goto, history, cancelling
  <2>11. OpenAnswered'
    BY <1>0, <1>4 DEF OpenAnswered, GetPermit, Goto, history, cancelling
  <2>12. EventHandedOver'
    BY <1>0, <1>4 DEF EventHandedOver, GetPermit, Goto
  <2>13. ReadersAnswered'
    BY <1>0, <1>4 DEF ReadersAnswered, Established, At, Reading, GetPermit,
       Goto, history
  <2>14. ClosedCannotRead'
    BY <1>0, <1>4 DEF ClosedCannotRead, GetPermit, Goto
  <2>15. ServedAreAwaited'
    BY <1>0, <1>4 DEF ServedAreAwaited, Serving, GetPermit, Goto, cleanup
  <2>16. PendingWereCancelled'
    BY <1>0, <1>4 DEF PendingWereCancelled, GetPermit, cancelling
  <2>17. QED
    BY <2>2, <2>4, <2>5, <2>6, <2>7, <2>8, <2>9, <2>10, <2>11, <2>12, <2>13,
       <2>14, <2>15, <2>16 DEF IInv, LockKept
<1>5. ASSUME NEW c \in Conns, Connected(c)
      PROVE  IInv'
  <2>1. c \in Servers
    BY <1>0, <1>5 DEF ClientIsServed, Reading, Connected
  <2>2. LockKept' /\ \A u \in Tasks : Inside(u)' <=> Inside(u)
    BY <1>0, <1>5, LockFrame DEF Connected
  <2>3. PermitMoves(c)
    BY <1>5 DEF PermitMoves, HasPermit, Connected, Goto
  <2>4. PermitsKept' /\ permits' \in 0..MaxConns
    BY <1>0, <2>3, PermitStep
  <2>5. TypeOK'
    BY <1>0, <1>5, <2>2 DEF TypeOK, Hooking, LockKept, Connected, Goto, Saw,
       draining, layer, cleanup, cancelling
  <2>6. Queued'
    BY <1>0, <1>5, <2>2 DEF Queued, Connected, Goto, layer, cleanup
  <2>7. Drains'
    BY <1>0, <1>5 DEF Drains, Connected, Goto, draining
  <2>8. ClientIsServed'
    BY <1>0, <1>5, <2>1 DEF ClientIsServed, Connected, Goto, cleanup
  <2>9. HooksRan'
    BY <1>0, <1>1, <1>5 DEF HooksRan, Ran, At, Established, Connected, Goto, Saw
  <2>10. HooksMatch'
    BY <1>0, <1>5 DEF HooksMatch, HooksRan, Ran, Connected, Goto, Saw,
       cancelling
  <2>11. OpenAnswered'
    BY <1>0, <1>5 DEF OpenAnswered, Connected, Goto, cancelling
  <2>12. EventHandedOver'
    BY <1>0, <1>5 DEF EventHandedOver, Connected, Goto
  <2>13. ReadersAnswered'
    BY <1>0, <1>5 DEF ReadersAnswered, Established, At, Reading, Connected, Goto
  <2>14. ClosedCannotRead'
    BY <1>0, <1>5 DEF ClosedCannotRead, Connected, Goto
  <2>15. ServedAreAwaited'
    BY <1>0, <1>5 DEF ServedAreAwaited, Serving, Connected, Goto, cleanup
  <2>16. PendingWereCancelled'
    BY <1>0, <1>5 DEF PendingWereCancelled, Connected, cancelling
  <2>17. QED
    BY <2>2, <2>4, <2>5, <2>6, <2>7, <2>8, <2>9, <2>10, <2>11, <2>12, <2>13,
       <2>14, <2>15, <2>16 DEF IInv, LockKept
<1>6. ASSUME NEW c \in Conns, ConnectFails(c)
      PROVE  IInv'
  <2>1. c \in Servers
    BY <1>0, <1>6 DEF ClientIsServed, Reading, ConnectFails
  <2>2. LockKept' /\ \A u \in Tasks : Inside(u)' <=> Inside(u)
    BY <1>0, <1>6, LockFrame DEF ConnectFails
  <2>3. PermitMoves(c)
    BY <1>6 DEF PermitMoves, HasPermit, ConnectFails, Goto
  <2>4. PermitsKept' /\ permits' \in 0..MaxConns
    BY <1>0, <2>3, PermitStep
  <2>5. TypeOK'
    BY <1>0, <1>6, <2>2 DEF TypeOK, Hooking, LockKept, ConnectFails, Goto, Saw,
       draining, layer, cleanup, cancelling
  <2>6. Queued'
    BY <1>0, <1>6, <2>2 DEF Queued, ConnectFails, Goto, layer, cleanup
  <2>7. Drains'
    BY <1>0, <1>6 DEF Drains, ConnectFails, Goto, draining
  <2>8. ClientIsServed'
    BY <1>0, <1>6, <2>1 DEF ClientIsServed, ConnectFails, Goto, cleanup
  <2>9. HooksRan'
    BY <1>0, <1>1, <1>6 DEF HooksRan, Ran, At, Established, Reading,
       ConnectFails, Goto, Saw
  <2>10. HooksMatch'
    BY <1>0, <1>6 DEF HooksMatch, HooksRan, Ran, ConnectFails, Goto, Saw,
       cancelling
  <2>11. OpenAnswered'
    BY <1>0, <1>6 DEF OpenAnswered, ConnectFails, Goto, cancelling
  <2>12. EventHandedOver'
    BY <1>0, <1>6 DEF EventHandedOver, ConnectFails, Goto
  <2>13. ReadersAnswered'
    BY <1>0, <1>6 DEF ReadersAnswered, Established, At, Reading, ConnectFails,
       Goto
  <2>14. ClosedCannotRead'
    BY <1>0, <1>6 DEF ClosedCannotRead, ConnectFails, Goto
  <2>15. ServedAreAwaited'
    BY <1>0, <1>6 DEF ServedAreAwaited, Serving, ConnectFails, Goto, cleanup
  <2>16. PendingWereCancelled'
    BY <1>0, <1>6 DEF PendingWereCancelled, ConnectFails, cancelling
  <2>17. QED
    BY <2>2, <2>4, <2>5, <2>6, <2>7, <2>8, <2>9, <2>10, <2>11, <2>12, <2>13,
       <2>14, <2>15, <2>16 DEF IInv, LockKept
<1>7. ASSUME NEW c \in Conns, OutcomeHookEnds(c)
      PROVE  IInv'
  <2>1. c \in Servers
    BY <1>0, <1>7 DEF ClientIsServed, Reading, OutcomeHookEnds
  <2>2. ~Inside(c) /\ Call(c)
    BY <1>0, <1>7 DEF Queued, OutcomeHookEnds, HandOver
  <2>3. LockKept' /\ \A u \in Tasks : Inside(u)' <=> Inside(u) \/ u = c
    BY <1>0, <2>2, Calls
  <2>4. PermitMoves(c)
    BY <1>1, <1>7 DEF PermitMoves, HasPermit, OutcomeHookEnds, HandOver
  <2>5. PermitsKept' /\ permits' \in 0..MaxConns
    BY <1>0, <2>4, PermitStep
  <2>6. event' \in [Conns -> Events]
    BY <1>1, <1>7 DEF Events, OutcomeHookEnds, HandOver
  <2>7. TypeOK'
    BY <1>0, <1>7, <2>3, <2>6 DEF TypeOK, LockKept, Events, OutcomeHookEnds,
       HandOver, draining, layer, history, cleanup, cancelling
  <2>8. Queued'
    BY <1>0, <1>1, <1>7, <2>3 DEF Queued, OutcomeHookEnds, HandOver, layer,
       cleanup
  <2>9. Drains'
    BY <1>0, <1>1, <1>7 DEF Drains, OutcomeHookEnds, HandOver, draining
  <2>10. ClientIsServed'
    BY <1>0, <1>1, <1>7, <2>1 DEF ClientIsServed, OutcomeHookEnds, HandOver,
       cleanup
  <2>11. HooksRan'
    BY <1>0, <1>1, <1>7 DEF HooksRan, Ran, At, Established, Reading,
       OutcomeHookEnds, HandOver, history
  <2>12. HooksMatch'
    BY <1>0, <1>1, <1>7 DEF HooksMatch, OutcomeHookEnds, HandOver, history,
       cancelling
  <2>13. OpenAnswered'
    BY <1>0, <1>1, <1>7 DEF OpenAnswered, OutcomeHookEnds, HandOver, history,
       cancelling
  <2>14. EventHandedOver'
    BY <1>0, <1>1, <1>7 DEF EventHandedOver, OutcomeHookEnds, HandOver
  <2>15. ReadersAnswered'
    BY <1>0, <1>1, <1>7 DEF ReadersAnswered, Established, At, Reading,
       OutcomeHookEnds, HandOver, history
  <2>16. ClosedCannotRead'
    BY <1>0, <1>1, <1>7 DEF ClosedCannotRead, OutcomeHookEnds, HandOver
  <2>17. ServedAreAwaited'
    BY <1>0, <1>1, <1>7 DEF ServedAreAwaited, Serving, OutcomeHookEnds,
       HandOver, cleanup
  <2>18. PendingWereCancelled'
    BY <1>0, <1>7 DEF PendingWereCancelled, OutcomeHookEnds, cancelling
  <2>19. QED
    BY <2>3, <2>5, <2>7, <2>8, <2>9, <2>10, <2>11, <2>12, <2>13, <2>14, <2>15,
       <2>16, <2>17, <2>18 DEF IInv, LockKept
<1>8. ASSUME NEW c \in Conns, DisconnectHookEnds(c)
      PROVE  IInv'
  <2>1. c \in Servers
    BY <1>0, <1>8 DEF ClientIsServed, Reading, DisconnectHookEnds
  <2>2. LockKept' /\ \A u \in Tasks : Inside(u)' <=> Inside(u)
    BY <1>0, <1>8, LockFrame DEF DisconnectHookEnds
  <2>3. PermitMoves(c)
    BY <1>1, <1>8, <2>1 DEF PermitMoves, HasPermit, DisconnectHookEnds, End,
       Goto
  <2>4. PermitsKept' /\ permits' \in 0..MaxConns
    BY <1>0, <2>3, PermitStep
  <2>5. TypeOK'
    BY <1>0, <1>8, <2>2, <2>4 DEF TypeOK, LockKept, DisconnectHookEnds, End,
       Goto, draining, layer, history, cleanup, cancelling
  <2>6. Queued'
    BY <1>0, <1>8, <2>2 DEF Queued, DisconnectHookEnds, End, Goto, layer,
       cleanup
  <2>7. Drains'
    BY <1>0, <1>8 DEF Drains, DisconnectHookEnds, End, Goto, draining
  <2>8. ClientIsServed'
    BY <1>0, <1>8 DEF ClientIsServed, DisconnectHookEnds, End, Goto, cleanup
  <2>9. HooksRan'
    BY <1>0, <1>8 DEF HooksRan, Ran, At, Established, Reading,
       DisconnectHookEnds, End, Goto, history
  <2>10. HooksMatch'
    BY <1>0, <1>8 DEF HooksMatch, HooksRan, Ran, DisconnectHookEnds, End, Goto,
       history, cancelling
  <2>11. OpenAnswered'
    BY <1>0, <1>8 DEF OpenAnswered, ReadersAnswered, DisconnectHookEnds, End,
       Goto, history, cancelling
  <2>12. EventHandedOver'
    BY <1>0, <1>8 DEF EventHandedOver, DisconnectHookEnds, End, Goto
  <2>13. ReadersAnswered'
    BY <1>0, <1>8 DEF ReadersAnswered, Established, At, DisconnectHookEnds, End,
       Goto, history
  <2>14. ClosedCannotRead'
    BY <1>0, <1>8 DEF ClosedCannotRead, DisconnectHookEnds, End, Goto
  <2>15. ServedAreAwaited'
    BY <1>0, <1>8 DEF ServedAreAwaited, Serving, DisconnectHookEnds, End, Goto,
       cleanup
  <2>16. PendingWereCancelled'
    BY <1>0, <1>8 DEF PendingWereCancelled, DisconnectHookEnds, cancelling
  <2>17. QED
    BY <2>2, <2>4, <2>5, <2>6, <2>7, <2>8, <2>9, <2>10, <2>11, <2>12, <2>13,
       <2>14, <2>15, <2>16 DEF IInv, LockKept
<1>9. ASSUME NEW c \in Conns, ReadData(c)
      PROVE  IInv'
  <2>1. ~Inside(c) /\ Call(c)
    BY <1>0, <1>9 DEF Queued, ReadData, HandOver
  <2>2. LockKept' /\ \A u \in Tasks : Inside(u)' <=> Inside(u) \/ u = c
    BY <1>0, <2>1, Calls
  <2>3. PermitMoves(c)
    BY <1>1, <1>9 DEF PermitMoves, HasPermit, ReadData, HandOver
  <2>4. PermitsKept' /\ permits' \in 0..MaxConns
    BY <1>0, <2>3, PermitStep
  <2>5. reads' \in 0..MaxReads
    BY <1>0, <1>9, BoundsAssumption DEF TypeOK, ReadData
  <2>6. TypeOK'
    BY <1>0, <1>9, <2>2, <2>5 DEF TypeOK, LockKept, ReadData, HandOver,
       draining, layer, history, cleanup, cancelling
  <2>7. Queued'
    BY <1>0, <1>1, <1>9, <2>2 DEF Queued, ReadData, HandOver, layer, cleanup
  <2>8. Drains'
    BY <1>0, <1>9 DEF Drains, ReadData, HandOver, draining
  <2>9. ClientIsServed'
    BY <1>0, <1>1, <1>9 DEF ClientIsServed, ReadData, HandOver, cleanup
  <2>10. HooksRan'
    BY <1>0, <1>1, <1>9 DEF HooksRan, Ran, At, Established, Reading, ReadData,
       HandOver, history
  <2>11. HooksMatch'
    BY <1>0, <1>9 DEF HooksMatch, ReadData, HandOver, history, cancelling
  <2>12. OpenAnswered'
    BY <1>0, <1>9 DEF OpenAnswered, ReadData, HandOver, history, cancelling
  <2>13. EventHandedOver'
    BY <1>0, <1>1, <1>9 DEF EventHandedOver, ReadData, HandOver
  <2>14. ReadersAnswered'
    BY <1>0, <1>9 DEF ReadersAnswered, Established, At, Reading, ReadData,
       HandOver, history
  <2>15. ClosedCannotRead'
    BY <1>0, <1>1, <1>9 DEF ClosedCannotRead, ReadData, HandOver
  <2>16. ServedAreAwaited'
    BY <1>0, <1>9 DEF ServedAreAwaited, Serving, ReadData, HandOver, cleanup
  <2>17. PendingWereCancelled'
    BY <1>0, <1>9 DEF PendingWereCancelled, ReadData, cancelling
  <2>18. QED
    BY <2>2, <2>4, <2>6, <2>7, <2>8, <2>9, <2>10, <2>11, <2>12, <2>13, <2>14,
       <2>15, <2>16, <2>17 DEF IInv, LockKept
<1>10. ASSUME NEW c \in Conns, ReadEof(c)
      PROVE  IInv'
  <2>1. ~Inside(c) /\ Call(c)
    BY <1>0, <1>10 DEF Queued, ReadEof, HandOver
  <2>2. LockKept' /\ \A u \in Tasks : Inside(u)' <=> Inside(u) \/ u = c
    BY <1>0, <2>1, Calls
  <2>3. PermitMoves(c)
    BY <1>1, <1>10 DEF PermitMoves, HasPermit, ReadEof, HandOver
  <2>4. PermitsKept' /\ permits' \in 0..MaxConns
    BY <1>0, <2>3, PermitStep
  <2>5. TypeOK'
    BY <1>0, <1>10, <2>2 DEF TypeOK, LockKept, Events, ReadEof, HandOver,
       draining, layer, history, cleanup, cancelling
  <2>6. Queued'
    BY <1>0, <1>1, <1>10, <2>2 DEF Queued, ReadEof, HandOver, layer, cleanup
  <2>7. Drains'
    BY <1>0, <1>10 DEF Drains, ReadEof, HandOver, draining
  <2>8. ClientIsServed'
    BY <1>0, <1>1, <1>10 DEF ClientIsServed, ReadEof, HandOver, cleanup
  <2>9. HooksRan'
    BY <1>0, <1>1, <1>10 DEF HooksRan, Ran, At, Established, Reading, ReadEof,
       HandOver, history
  <2>10. HooksMatch'
    BY <1>0, <1>10 DEF HooksMatch, ReadEof, HandOver, history, cancelling
  <2>11. OpenAnswered'
    BY <1>0, <1>10 DEF OpenAnswered, ReadEof, HandOver, history, cancelling
  <2>12. EventHandedOver'
    BY <1>0, <1>1, <1>10 DEF EventHandedOver, ReadEof, HandOver
  <2>13. ReadersAnswered'
    BY <1>0, <1>10 DEF ReadersAnswered, Established, At, Reading, ReadEof,
       HandOver, history
  <2>14. ClosedCannotRead'
    BY <1>0, <1>1, <1>10 DEF ClosedCannotRead, ReadEof, HandOver
  <2>15. ServedAreAwaited'
    BY <1>0, <1>10 DEF ServedAreAwaited, Serving, ReadEof, HandOver, cleanup
  <2>16. PendingWereCancelled'
    BY <1>0, <1>10 DEF PendingWereCancelled, ReadEof, cancelling
  <2>17. QED
    BY <2>2, <2>4, <2>5, <2>6, <2>7, <2>8, <2>9, <2>10, <2>11, <2>12, <2>13,
       <2>14, <2>15, <2>16 DEF IInv, LockKept
<1>11. ASSUME NEW c \in Conns, PeerReads(c)
      PROVE  IInv'
  <2>1. LockKept' /\ \A u \in Tasks : Inside(u)' <=> Inside(u)
    BY <1>0, <1>11, LockFrame DEF PeerReads
  <2>2. /\ UNCHANGED <<pc, event, permits>>
       /\ \A d \in Servers : HasPermit(d)' <=> HasPermit(d)
    BY <1>11 DEF HasPermit, PeerReads
  <2>3. PermitsKept' /\ permits' \in 0..MaxConns
    BY <1>0, <2>2 DEF PermitsKept
  <2>4. TypeOK'
    BY <1>0, <1>11, <2>1 DEF TypeOK, LockKept, PeerReads, draining, layer,
       history, cleanup, cancelling
  <2>5. Queued'
    BY <1>0, <1>11, <2>1 DEF Queued, PeerReads, layer, cleanup
  <2>6. Drains' /\ ClientIsServed' /\ HooksRan' /\ HooksMatch' /\ OpenAnswered' /\
     EventHandedOver' /\ ReadersAnswered' /\ PendingWereCancelled' /\
     ClosedCannotRead' /\ ServedAreAwaited'
    BY <1>0, <1>11 DEF Drains, ClientIsServed, HooksRan, Ran, At, Established,
       HooksMatch, OpenAnswered, EventHandedOver, ReadersAnswered,
       PendingWereCancelled, ClosedCannotRead, ServedAreAwaited, Serving,
       PeerReads, draining, history, cleanup, cancelling
  <2>7. QED
    BY <2>1, <2>3, <2>4, <2>5, <2>6 DEF IInv, LockKept
<1>12. ASSUME NEW c \in Conns, DrainBegins(c)
      PROVE  IInv'
  <2>1. LockKept' /\ \A u \in Tasks : Inside(u)' <=> Inside(u)
    BY <1>0, <1>12, LockFrame DEF DrainBegins
  <2>2. PermitMoves(c)
    BY <1>12 DEF PermitMoves, HasPermit, DrainBegins, Goto
  <2>3. PermitsKept' /\ permits' \in 0..MaxConns
    BY <1>0, <2>2, PermitStep
  <2>4. TypeOK'
    BY <1>0, <1>1, <1>12, <2>1, <2>3 DEF TypeOK, Reading, OPEN, Tasks, LockKept,
       DrainBegins, Free, Goto, layer, history, cleanup, cancelling
  <2>5. Queued'
    BY <1>0, <1>12, <2>1 DEF Queued, DrainBegins, Goto, layer, cleanup
  <2>6. Drains'
    BY <1>0, <1>1, <1>12 DEF Drains, DrainBegins, Goto
  <2>7. ClientIsServed'
    BY <1>0, <1>12 DEF ClientIsServed, Reading, DrainBegins, Goto, cleanup
  <2>8. HooksRan'
    BY <1>0, <1>12 DEF HooksRan, Ran, At, Established, Reading, DrainBegins,
       Goto, history
  <2>9. HooksMatch'
    BY <1>0, <1>12 DEF HooksMatch, DrainBegins, Goto, history, cancelling
  <2>10. OpenAnswered'
    BY <1>0, <1>12 DEF OpenAnswered, DrainBegins, Goto, history, cancelling
  <2>11. EventHandedOver'
    BY <1>0, <1>12 DEF EventHandedOver, DrainBegins, Goto
  <2>12. ReadersAnswered'
    BY <1>0, <1>12 DEF ReadersAnswered, Established, At, Reading, DrainBegins,
       Goto, history
  <2>13. ClosedCannotRead'
    BY <1>0, <1>12 DEF ClosedCannotRead, DrainBegins, Goto
  <2>14. ServedAreAwaited'
    BY <1>0, <1>12 DEF ServedAreAwaited, Serving, DrainBegins, Goto, cleanup
  <2>15. PendingWereCancelled'
    BY <1>0, <1>12 DEF PendingWereCancelled, DrainBegins, cancelling
  <2>16. QED
    BY <2>1, <2>3, <2>4, <2>5, <2>6, <2>7, <2>8, <2>9, <2>10, <2>11, <2>12,
       <2>13, <2>14, <2>15 DEF IInv, LockKept
<1>13. ASSUME NEW c \in Conns, NEW w \in todo, DrainOne(c, w) \/ DrainLost(c, w)
      PROVE  IInv'
  <2>1. LockKept' /\ \A u \in Tasks : Inside(u)' <=> Inside(u)
    BY <1>0, <1>13, LockFrame DEF DrainOne, DrainLost
  <2>2. PermitMoves(c)
    BY <1>13 DEF PermitMoves, HasPermit, DrainOne, DrainLost
  <2>3. PermitsKept' /\ permits' \in 0..MaxConns
    BY <1>0, <2>2, PermitStep
  <2>4. pending' \subseteq Conns /\ cancels' \subseteq Conns /\ full' \subseteq Conns
    BY <1>0, <1>13 DEF TypeOK, DrainOne, DrainLost, Cancel, cancelling
  <2>5. TypeOK'
    BY <1>0, <1>13, <2>1, <2>4 DEF TypeOK, LockKept, DrainOne, DrainLost,
       layer, history, cleanup, cancelling
  <2>6. Queued'
    BY <1>0, <1>13, <2>1 DEF Queued, DrainOne, DrainLost, layer, cleanup
  <2>7. HooksMatch'
    BY <1>0, <1>13 DEF HooksMatch, DrainOne, DrainLost, cancelling, Cancel, history
  <2>8. OpenAnswered'
    BY <1>0, <1>13 DEF OpenAnswered, DrainOne, DrainLost, cancelling, Cancel, history
  <2>9. PendingWereCancelled'
    BY <1>0, <1>13 DEF PendingWereCancelled, DrainOne, DrainLost, cancelling, Cancel
  <2>10. Drains' /\ ClientIsServed' /\ HooksRan' /\ EventHandedOver' /\
     ReadersAnswered' /\ ClosedCannotRead' /\ ServedAreAwaited'
    BY <1>0, <1>13 DEF Drains, ClientIsServed, HooksRan, Ran, At, Established,
       EventHandedOver, ReadersAnswered, ClosedCannotRead, ServedAreAwaited,
       Serving, DrainOne, DrainLost, history, cleanup
  <2>11. QED
    BY <2>1, <2>3, <2>5, <2>6, <2>7, <2>8, <2>9, <2>10 DEF IInv, LockKept
<1>14. ASSUME NEW c \in Conns, DrainEnds(c)
      PROVE  IInv'
  <2>1. pc[c] = "drain"
    BY <1>0, <1>14 DEF Drains, DrainEnds
  <2>2. LockKept' /\ \A u \in Tasks : Inside(u)' <=> Inside(u)
    BY <1>0, <1>14, LockFrame DEF DrainEnds
  <2>3. PermitMoves(c)
    BY <1>14, <2>1 DEF PermitMoves, HasPermit, DrainEnds, Goto
  <2>4. PermitsKept' /\ permits' \in 0..MaxConns
    BY <1>0, <2>3, PermitStep
  <2>5. TypeOK'
    BY <1>0, <1>14, <2>2 DEF TypeOK, Reading, LockKept, DrainEnds, Goto, layer,
       history, cleanup, cancelling
  <2>6. Queued'
    BY <1>0, <1>14, <2>1, <2>2 DEF Queued, DrainEnds, Goto, layer, cleanup
  <2>7. Drains'
    BY <1>0, <1>1, <1>14 DEF Drains, DrainEnds, Goto
  <2>8. ClientIsServed'
    BY <1>0, <1>14, <2>1 DEF ClientIsServed, Reading, DrainEnds, Goto, cleanup
  <2>9. HooksRan'
    BY <1>0, <1>14, <2>1 DEF HooksRan, Ran, At, Established, Reading, DrainEnds,
       Goto, history
  <2>10. HooksMatch'
    BY <1>0, <1>14 DEF HooksMatch, DrainEnds, Goto, history, cancelling
  <2>11. OpenAnswered'
    BY <1>0, <1>14 DEF OpenAnswered, DrainEnds, Goto, history, cancelling
  <2>12. EventHandedOver'
    BY <1>0, <1>14 DEF EventHandedOver, DrainEnds, Goto
  <2>13. ReadersAnswered'
    BY <1>0, <1>14, <2>1 DEF ReadersAnswered, Established, At, Reading,
       DrainEnds, Goto, history
  <2>14. ClosedCannotRead'
    BY <1>0, <1>14 DEF ClosedCannotRead, DrainEnds, Goto
  <2>15. ServedAreAwaited'
    BY <1>0, <1>14, <2>1 DEF ServedAreAwaited, Serving, DrainEnds, Goto, cleanup
  <2>16. PendingWereCancelled'
    BY <1>0, <1>14 DEF PendingWereCancelled, DrainEnds, cancelling
  <2>17. QED
    BY <2>2, <2>4, <2>5, <2>6, <2>7, <2>8, <2>9, <2>10, <2>11, <2>12, <2>13,
       <2>14, <2>15, <2>16 DEF IInv, LockKept
<1>15. ASSUME NEW c \in Conns, OpenConnectionAnswered(c)
      PROVE  IInv'
  <2>1. pc[c] = "event"
    BY <1>0, <1>15 DEF Queued, Inside, OpenConnectionAnswered
  <2>2. c \in Servers
    BY <1>0, <1>15, <2>1 DEF ClientIsServed, OpenConnectionAnswered
  <2>3. Release
    BY <1>15 DEF OpenConnectionAnswered
  <2>4. LockKept' /\ \A u \in Tasks : Inside(u)' <=> Inside(u) /\ u # holder
    BY <1>0, <2>3, Releases
  <2>5. PermitMoves(c)
    BY <1>0, <1>1, <1>15, <2>1 DEF PermitMoves, HasPermit,
       OpenConnectionAnswered, Goto, End
  <2>6. PermitsKept' /\ permits' \in 0..MaxConns
    BY <1>0, <2>5, PermitStep
  <2>7. pc' \in [Conns -> Places]
    BY <1>1, <1>15 DEF Places, Reading, OpenConnectionAnswered, Goto, End
  <2>8. TypeOK'
    BY <1>0, <1>15, <2>2, <2>4, <2>6, <2>7 DEF TypeOK, LockKept, Places,
       OpenConnectionAnswered, draining, layer, cleanup, cancelling
  <2>9. Queued'
    BY <1>0, <1>1, <1>15, <2>4 DEF Queued, OpenConnectionAnswered, Goto, End,
       layer, cleanup
  <2>10. Drains'
    BY <1>0, <1>1, <1>15, <2>1 DEF Drains, OpenConnectionAnswered, Goto, End,
       draining
  <2>11. ClientIsServed'
    BY <1>0, <1>1, <1>15, <2>2 DEF ClientIsServed, OpenConnectionAnswered, Goto,
       End, cleanup
  <2>12. HooksRan'
    BY <1>0, <1>1, <1>15, <2>1 DEF HooksRan, Ran, At, Established, Reading,
       OpenConnectionAnswered, Goto, End
  <2>13. HooksMatch'
    BY <1>0, <1>1, <1>15, <2>1 DEF HooksMatch, HooksRan, Ran, At,
       OpenConnectionAnswered, Goto, End, cancelling
  <2>14. OpenAnswered'
    BY <1>0, <1>1, <1>15 DEF OpenAnswered, OpenConnectionAnswered, Goto, End,
       cancelling
  <2>15. EventHandedOver'
    BY <1>0, <1>1, <1>15 DEF EventHandedOver, OpenConnectionAnswered, Goto, End
  <2>16. ReadersAnswered'
    BY <1>0, <1>1, <1>15 DEF ReadersAnswered, Established, At,
       OpenConnectionAnswered, Goto, End
  <2>17. ClosedCannotRead'
    BY <1>0, <1>1, <1>15 DEF ClosedCannotRead, OpenConnectionAnswered, Goto, End
  <2>18. ServedAreAwaited'
    BY <1>0, <1>1, <1>15, <2>1 DEF ServedAreAwaited, Serving,
       OpenConnectionAnswered, Goto, End, cleanup
  <2>19. PendingWereCancelled'
    BY <1>0, <1>15 DEF PendingWereCancelled, OpenConnectionAnswered, cancelling
  <2>20. QED
    BY <2>4, <2>6, <2>8, <2>9, <2>10, <2>11, <2>12, <2>13, <2>14, <2>15, <2>16,
       <2>17, <2>18, <2>19 DEF IInv, LockKept
<1>16. ASSUME NEW c \in Conns, DataHandled(c), 
         Goto(c, "drain_lock"), Release
      PROVE  IInv'
  <2>1. pc[c] = "event"
    BY <1>0, <1>16 DEF Queued, Inside, DataHandled
  <2>2. Release
    BY <1>16
  <2>3. LockKept' /\ \A u \in Tasks : Inside(u)' <=> Inside(u) /\ u # holder
    BY <1>0, <2>2, Releases
  <2>4. PermitMoves(c)
    BY <1>16, <2>1 DEF PermitMoves, HasPermit, DataHandled, Goto
  <2>5. PermitsKept' /\ permits' \in 0..MaxConns
    BY <1>0, <2>4, PermitStep
  <2>6. pc' \in [Conns -> Places]
    BY <1>1, <1>16 DEF Places, Reading, Goto
  <2>7. reads' \in 0..MaxReads
    BY <1>0, <1>16, BoundsAssumption DEF TypeOK, DataHandled
  <2>8. TypeOK'
    BY <1>0, <1>16, <2>3, <2>6, <2>7 DEF TypeOK, LockKept, Places, Events,
       DataHandled, draining, layer, history, cancelling
  <2>9. Queued'
    BY <1>0, <1>1, <1>16, <2>3 DEF Queued, DataHandled, Goto, layer
  <2>10. Drains'
    BY <1>0, <1>16, <2>1 DEF Drains, DataHandled, Goto, draining
  <2>11. ClientIsServed'
    BY <1>0, <1>16, <2>1 DEF ClientIsServed, Reading, DataHandled, Goto
  <2>12. HooksRan'
    BY <1>0, <1>16, <2>1 DEF HooksRan, Ran, At, Established, DataHandled, Goto,
       history
  <2>13. HooksMatch'
    BY <1>0, <1>16 DEF HooksMatch, DataHandled, Goto, history, cancelling
  <2>14. OpenAnswered'
    BY <1>0, <1>16 DEF OpenAnswered, DataHandled, Goto, history, cancelling
  <2>15. EventHandedOver'
    BY <1>0, <1>16 DEF EventHandedOver, DataHandled, Goto
  <2>16. ReadersAnswered'
    BY <1>0, <1>16, <2>1 DEF ReadersAnswered, Established, At, DataHandled,
       Goto, history
  <2>17. ClosedCannotRead'
    BY <1>0, <1>16 DEF ClosedCannotRead, DataHandled, Goto
  <2>18. ServedAreAwaited'
    BY <1>0, <1>16, <2>1 DEF ServedAreAwaited, Serving, DataHandled, Goto
  <2>19. PendingWereCancelled'
    BY <1>0, <1>16 DEF PendingWereCancelled, DataHandled, cancelling
  <2>20. QED
    BY <2>3, <2>5, <2>8, <2>9, <2>10, <2>11, <2>12, <2>13, <2>14, <2>15, <2>16,
       <2>17, <2>18, <2>19 DEF IInv, LockKept
<1>17. ASSUME NEW c \in Conns, DataHandled(c), 
         ReleaseAndCall(c), UNCHANGED pc
      PROVE  IInv'
  <2>1. holder = c
    BY <1>17 DEF DataHandled
  <2>2. LockKept' /\ \A u \in Tasks : Inside(u)' <=> Inside(u)
    BY <1>0, <1>17, <2>1, ReleasesAndCalls
  <2>3. PermitMoves(c)
    BY <1>17 DEF PermitMoves, HasPermit, DataHandled
  <2>4. PermitsKept' /\ permits' \in 0..MaxConns
    BY <1>0, <2>3, PermitStep
  <2>5. reads' \in 0..MaxReads
    BY <1>0, <1>17, BoundsAssumption DEF TypeOK, DataHandled
  <2>6. TypeOK'
    BY <1>0, <1>17, <2>2, <2>5 DEF TypeOK, LockKept, DataHandled, draining,
       layer, history, cancelling
  <2>7. Queued'
    BY <1>0, <1>17, <2>2 DEF Queued, DataHandled, layer
  <2>8. Drains'
    BY <1>0, <1>17 DEF Drains, DataHandled, draining
  <2>9. ClientIsServed'
    BY <1>0, <1>17 DEF ClientIsServed, DataHandled
  <2>10. HooksRan'
    BY <1>0, <1>17 DEF HooksRan, Ran, At, Established, DataHandled, history
  <2>11. HooksMatch'
    BY <1>0, <1>17 DEF HooksMatch, DataHandled, history, cancelling
  <2>12. OpenAnswered'
    BY <1>0, <1>17 DEF OpenAnswered, DataHandled, history, cancelling
  <2>13. EventHandedOver'
    BY <1>0, <1>17 DEF EventHandedOver, DataHandled
  <2>14. ReadersAnswered'
    BY <1>0, <1>17 DEF ReadersAnswered, Established, At, DataHandled, history
  <2>15. ClosedCannotRead'
    BY <1>0, <1>17 DEF ClosedCannotRead, DataHandled
  <2>16. ServedAreAwaited'
    BY <1>0, <1>17 DEF ServedAreAwaited, Serving, DataHandled
  <2>17. PendingWereCancelled'
    BY <1>0, <1>17 DEF PendingWereCancelled, DataHandled, cancelling
  <2>18. QED
    BY <2>2, <2>4, <2>6, <2>7, <2>8, <2>9, <2>10, <2>11, <2>12, <2>13, <2>14,
       <2>15, <2>16, <2>17 DEF IInv, LockKept
<1>18. ASSUME NEW c \in Conns, ClosedHandled(c)
      PROVE  IInv'
  <2>1. pc[c] = "event"
    BY <1>0, <1>18 DEF Queued, Inside, ClosedHandled
  <2>2. Release
    BY <1>18 DEF ClosedHandled
  <2>3. LockKept' /\ \A u \in Tasks : Inside(u)' <=> Inside(u) /\ u # holder
    BY <1>0, <2>2, Releases
  <2>4. PermitMoves(c)
    BY <1>0, <1>1, <1>18, <2>1 DEF PermitMoves, HasPermit, ClosedHandled, Goto,
       CloseSocket, End
  <2>5. PermitsKept' /\ permits' \in 0..MaxConns
    BY <1>0, <2>4, PermitStep
  <2>6. pc' \in [Conns -> Places]
    BY <1>1, <1>18 DEF Places, Hooking, ClosedHandled, Goto, CloseSocket, End
  <2>7. sock' \in [Conns -> {"none", "open", "closed"}]
    BY <1>1, <1>18 DEF ClosedHandled, CloseSocket
  <2>8. TypeOK'
    BY <1>0, <1>18, <2>3, <2>5, <2>6, <2>7 DEF TypeOK, LockKept, Places,
       ClosedHandled, CloseSocket, Saw, draining, layer, cleanup, cancelling
  <2>9. Queued'
    BY <1>0, <1>1, <1>18, <2>3 DEF Queued, ClosedHandled, Goto, CloseSocket,
       End, layer, cleanup
  <2>10. Drains'
    BY <1>0, <1>1, <1>18, <2>1 DEF Drains, ClosedHandled, Goto, CloseSocket,
       End, draining
  <2>11. ClientIsServed'
    BY <1>0, <1>1, <1>18, <2>1 DEF ClientIsServed, ClosedHandled, Goto,
       CloseSocket, End, cleanup
  <2>12. HooksRan'
    BY <1>0, <1>1, <1>18, <2>1 DEF HooksRan, Ran, At, Established, Reading,
       ClosedHandled, Goto, CloseSocket, End, Saw
  <2>13. HooksMatch'
    BY <1>0, <1>1, <1>18, <2>1 DEF HooksMatch, HooksRan, Ran, At, Established,
       ClosedHandled, Goto, CloseSocket, End, Saw, cancelling
  <2>14. OpenAnswered'
    BY <1>0, <1>1, <1>18 DEF OpenAnswered, ClosedHandled, Goto, CloseSocket,
       End, cancelling
  <2>15. EventHandedOver'
    BY <1>0, <1>1, <1>18 DEF EventHandedOver, ClosedHandled, Goto, CloseSocket,
       End
  <2>16. ReadersAnswered'
    BY <1>0, <1>1, <1>18, <2>1 DEF ReadersAnswered, Established, At,
       ClosedHandled, Goto, CloseSocket, End
  <2>17. ClosedCannotRead'
    BY <1>0, <1>1, <1>18 DEF ClosedCannotRead, ClosedHandled, Goto, CloseSocket,
       End
  <2>18. ServedAreAwaited'
    BY <1>0, <1>1, <1>18, <2>1 DEF ServedAreAwaited, Serving, ClientIsServed,
       ClosedHandled, Goto, CloseSocket, End, cleanup
  <2>19. PendingWereCancelled'
    BY <1>0, <1>18 DEF PendingWereCancelled, ClosedHandled, cancelling
  <2>20. QED
    BY <2>3, <2>5, <2>8, <2>9, <2>10, <2>11, <2>12, <2>13, <2>14, <2>15, <2>16,
       <2>17, <2>18, <2>19 DEF IInv, LockKept
<1>19. ASSUME NEW c \in Conns, CancelledWhileOpening(c)
      PROVE  IInv'
  <2>1. c \in Servers
    BY <1>0, <1>19 DEF ClientIsServed, Hooking, Reading, CancelledWhileOpening
  <2>2. LockKept' /\ \A u \in Tasks : Inside(u)' <=> Inside(u)
    BY <1>0, <1>19, LockFrame DEF CancelledWhileOpening
  <2>3. PermitMoves(c)
    BY <1>0, <1>1, <1>19 DEF PermitMoves, HasPermit, CancelledWhileOpening, End,
       Goto
  <2>4. PermitsKept' /\ permits' \in 0..MaxConns
    BY <1>0, <2>3, PermitStep
  <2>5. TypeOK'
    BY <1>0, <1>19, <2>2, <2>4 DEF TypeOK, LockKept, CancelledWhileOpening,
       Told, End, Goto, draining, layer, history, cleanup
  <2>6. Queued'
    BY <1>0, <1>19, <2>2 DEF Queued, CancelledWhileOpening, Hooking, End, Goto,
       layer, cleanup
  <2>7. Drains'
    BY <1>0, <1>19 DEF Drains, CancelledWhileOpening, Hooking, End, Goto,
       draining
  <2>8. ClientIsServed'
    BY <1>0, <1>19, <2>1 DEF ClientIsServed, CancelledWhileOpening, End, Goto,
       cleanup
  <2>9. HooksRan'
    BY <1>0, <1>19 DEF HooksRan, Ran, At, Established, Reading,
       CancelledWhileOpening, End, Goto, history
  <2>10. HooksMatch'
    BY <1>0, <1>19 DEF HooksMatch, PendingWereCancelled, CancelledWhileOpening,
       Told, End, Goto, history
  <2>11. OpenAnswered'
    BY <1>0, <1>19 DEF OpenAnswered, PendingWereCancelled,
       CancelledWhileOpening, Told, End, Goto, history
  <2>12. EventHandedOver'
    BY <1>0, <1>19 DEF EventHandedOver, CancelledWhileOpening, End, Goto
  <2>13. ReadersAnswered'
    BY <1>0, <1>19 DEF ReadersAnswered, Established, At, Reading,
       CancelledWhileOpening, End, Goto, history
  <2>14. PendingWereCancelled'
    BY <1>0, <1>19 DEF PendingWereCancelled, CancelledWhileOpening, Told
  <2>15. ClosedCannotRead'
    BY <1>0, <1>19 DEF ClosedCannotRead, CancelledWhileOpening, End, Goto
  <2>16. ServedAreAwaited'
    BY <1>0, <1>19 DEF ServedAreAwaited, Serving, CancelledWhileOpening, End,
       Goto, cleanup
  <2>17. QED
    BY <2>2, <2>4, <2>5, <2>6, <2>7, <2>8, <2>9, <2>10, <2>11, <2>12, <2>13,
       <2>14, <2>15, <2>16 DEF IInv, LockKept
<1>20. ASSUME NEW c \in Conns, CancelledConnecting(c)
      PROVE  IInv'
  <2>1. c \in Servers
    BY <1>0, <1>20 DEF ClientIsServed, Reading, CancelledConnecting
  <2>2. LockKept' /\ \A u \in Tasks : Inside(u)' <=> Inside(u)
    BY <1>0, <1>20, LockFrame DEF CancelledConnecting
  <2>3. PermitMoves(c)
    BY <1>20 DEF PermitMoves, HasPermit, CancelledConnecting, Goto
  <2>4. PermitsKept' /\ permits' \in 0..MaxConns
    BY <1>0, <2>3, PermitStep
  <2>5. TypeOK'
    BY <1>0, <1>20, <2>2 DEF TypeOK, Hooking, LockKept, CancelledConnecting,
       Told, Goto, Saw, draining, layer, cleanup
  <2>6. Queued'
    BY <1>0, <1>20, <2>2 DEF Queued, CancelledConnecting, Goto, layer, cleanup
  <2>7. Drains'
    BY <1>0, <1>20 DEF Drains, CancelledConnecting, Goto, draining
  <2>8. ClientIsServed'
    BY <1>0, <1>20, <2>1 DEF ClientIsServed, CancelledConnecting, Goto, cleanup
  <2>9. HooksRan'
    BY <1>0, <1>1, <1>20 DEF HooksRan, Ran, At, Established, Reading,
       CancelledConnecting, Goto, Saw
  <2>10. HooksMatch'
    BY <1>0, <1>20 DEF HooksMatch, HooksRan, Ran, CancelledConnecting, Told,
       Goto, Saw
  <2>11. OpenAnswered'
    BY <1>0, <1>20 DEF OpenAnswered, CancelledConnecting, Told, Goto
  <2>12. EventHandedOver'
    BY <1>0, <1>20 DEF EventHandedOver, CancelledConnecting, Goto
  <2>13. ReadersAnswered'
    BY <1>0, <1>20 DEF ReadersAnswered, Established, At, Reading,
       CancelledConnecting, Goto
  <2>14. PendingWereCancelled'
    BY <1>0, <1>20 DEF PendingWereCancelled, CancelledConnecting, Told
  <2>15. ClosedCannotRead'
    BY <1>0, <1>20 DEF ClosedCannotRead, CancelledConnecting, Goto
  <2>16. ServedAreAwaited'
    BY <1>0, <1>20 DEF ServedAreAwaited, Serving, CancelledConnecting, Goto,
       cleanup
  <2>17. QED
    BY <2>2, <2>4, <2>5, <2>6, <2>7, <2>8, <2>9, <2>10, <2>11, <2>12, <2>13,
       <2>14, <2>15, <2>16 DEF IInv, LockKept
<1>21. ASSUME NEW c \in Conns, CancelledInQueue(c)
      PROVE  IInv'
  <2>1. holder = "nobody"
    BY <1>21 DEF CancelledInQueue, Told
  <2>2. LockKept' /\ \A u \in Tasks : Inside(u)' <=> Inside(u) /\ u # c
    BY <1>0, <1>21, <2>1, Leaves DEF CancelledInQueue
  <2>3. PermitMoves(c)
    BY <1>0, <1>1, <1>21 DEF PermitMoves, HasPermit, CancelledInQueue, Goto, End
  <2>4. PermitsKept' /\ permits' \in 0..MaxConns
    BY <1>0, <2>3, PermitStep
  <2>5. pc' \in [Conns -> Places]
    BY <1>1, <1>21 DEF Places, Hooking, CancelledInQueue, Goto, End
  <2>6. saw' \in [Conns -> SUBSET HooksOfServers]
    BY <1>1, <1>21 DEF HooksOfServers, CancelledInQueue, Saw
  <2>7. TypeOK'
    BY <1>0, <1>21, <2>2, <2>4, <2>5, <2>6 DEF TypeOK, LockKept, Places,
       HooksOfServers, CancelledInQueue, Told, draining, layer, cleanup
  <2>8. Queued'
    BY <1>0, <1>1, <1>21, <2>2 DEF Queued, CancelledInQueue, Goto, End, layer,
       cleanup
  <2>9. Drains'
    BY <1>0, <1>1, <1>21 DEF Drains, CancelledInQueue, Goto, End, draining
  <2>10. ClientIsServed'
    BY <1>0, <1>1, <1>21 DEF ClientIsServed, CancelledInQueue, Goto, End,
       cleanup
  <2>11. HooksRan'
    BY <1>0, <1>1, <1>21 DEF HooksRan, Ran, At, Established, Reading,
       CancelledInQueue, Goto, Saw, End
  <2>12. HooksMatch'
    BY <1>0, <1>1, <1>21 DEF HooksMatch, HooksRan, Ran, At, Established,
       PendingWereCancelled, CancelledInQueue, Told, Goto, Saw, End
  <2>13. OpenAnswered'
    BY <1>0, <1>1, <1>21 DEF OpenAnswered, PendingWereCancelled,
       CancelledInQueue, Told, Goto, End
  <2>14. EventHandedOver'
    BY <1>0, <1>1, <1>21 DEF EventHandedOver, CancelledInQueue, Goto, End
  <2>15. ReadersAnswered'
    BY <1>0, <1>1, <1>21 DEF ReadersAnswered, Established, At, Reading,
       CancelledInQueue, Goto, End
  <2>16. PendingWereCancelled'
    BY <1>0, <1>21 DEF PendingWereCancelled, CancelledInQueue, Told
  <2>17. ClosedCannotRead'
    BY <1>0, <1>1, <1>21 DEF ClosedCannotRead, CancelledInQueue, Goto, End
  <2>18. ServedAreAwaited'
    BY <1>0, <1>1, <1>21 DEF ServedAreAwaited, Serving, CancelledInQueue, Goto,
       End, cleanup
  <2>19. QED
    BY <2>2, <2>4, <2>7, <2>8, <2>9, <2>10, <2>11, <2>12, <2>13, <2>14, <2>15,
       <2>16, <2>17, <2>18 DEF IInv, LockKept
<1>22. ASSUME NEW c \in Conns, CancelledReading(c)
      PROVE  IInv'
  <2>1. ~Inside(c) /\ Call(c)
    BY <1>0, <1>22 DEF Queued, CancelledReading, Reading, HandOver
  <2>2. LockKept' /\ \A u \in Tasks : Inside(u)' <=> Inside(u) \/ u = c
    BY <1>0, <2>1, Calls
  <2>3. PermitMoves(c)
    BY <1>1, <1>22 DEF PermitMoves, HasPermit, CancelledReading, Reading,
       HandOver
  <2>4. PermitsKept' /\ permits' \in 0..MaxConns
    BY <1>0, <2>3, PermitStep
  <2>5. pc' \in [Conns -> Places]
    BY <1>1, <1>22 DEF Places, CancelledReading, HandOver
  <2>6. event' \in [Conns -> Events]
    BY <1>1, <1>22 DEF Events, CancelledReading, HandOver
  <2>7. state' \in [Conns -> SUBSET OPEN]
    BY <1>1, <1>22 DEF CLOSED, CancelledReading
  <2>8. TypeOK'
    BY <1>0, <1>1, <1>22, <2>2, <2>4, <2>5, <2>6, <2>7 DEF TypeOK, Hooking,
       Reading, OPEN, LockKept, Places, Events, CancelledReading, Told, CLOSED,
       HandOver, layer, history, cleanup
  <2>9. Queued'
    BY <1>0, <1>1, <1>22, <2>2 DEF Queued, CancelledReading, HandOver, layer,
       cleanup
  <2>10. Drains'
    BY <1>0, <1>1, <1>22 DEF Drains, CancelledReading, HandOver
  <2>11. ClientIsServed'
    BY <1>0, <1>1, <1>22 DEF ClientIsServed, Reading, CancelledReading,
       HandOver, cleanup
  <2>12. HooksRan'
    BY <1>0, <1>1, <1>22 DEF HooksRan, Ran, At, Established, CancelledReading,
       HandOver, history
  <2>13. HooksMatch'
    BY <1>0, <1>22 DEF HooksMatch, CancelledReading, Told, HandOver, history
  <2>14. OpenAnswered'
    BY <1>0, <1>22 DEF OpenAnswered, CancelledReading, Told, HandOver, history
  <2>15. EventHandedOver'
    BY <1>0, <1>1, <1>22 DEF EventHandedOver, CancelledReading, HandOver
  <2>16. ReadersAnswered'
    BY <1>0, <1>22 DEF ReadersAnswered, Established, At, CancelledReading,
       HandOver, history
  <2>17. PendingWereCancelled'
    BY <1>0, <1>22 DEF PendingWereCancelled, CancelledReading, Told
  <2>18. ClosedCannotRead'
    BY <1>0, <1>1, <1>22 DEF ClosedCannotRead, CancelledReading, CLOSED,
       HandOver
  <2>19. ServedAreAwaited'
    BY <1>0, <1>22 DEF ServedAreAwaited, Serving, Reading, CancelledReading,
       HandOver, cleanup
  <2>20. QED
    BY <2>2, <2>4, <2>8, <2>9, <2>10, <2>11, <2>12, <2>13, <2>14, <2>15, <2>16,
       <2>17, <2>18, <2>19 DEF IInv, LockKept
<1>23. ASSUME NEW c \in Conns, CancelledHalfClosed(c)
      PROVE  IInv'
  <2>1. LockKept' /\ \A u \in Tasks : Inside(u)' <=> Inside(u)
    BY <1>0, <1>23, LockFrame DEF CancelledHalfClosed
  <2>2. PermitMoves(c)
    BY <1>0, <1>1, <1>23 DEF PermitMoves, HasPermit, CancelledHalfClosed,
       CloseSocket, End, Goto
  <2>3. PermitsKept' /\ permits' \in 0..MaxConns
    BY <1>0, <2>2, PermitStep
  <2>4. pc' \in [Conns -> Places]
    BY <1>1, <1>23 DEF Places, Hooking, CancelledHalfClosed, CloseSocket, End,
       Goto
  <2>5. sock' \in [Conns -> {"none", "open", "closed"}]
    BY <1>1, <1>23 DEF CancelledHalfClosed, CloseSocket
  <2>6. saw' \in [Conns -> SUBSET HooksOfServers]
    BY <1>1, <1>23 DEF HooksOfServers, CancelledHalfClosed, CloseSocket, Saw
  <2>7. TypeOK'
    BY <1>0, <1>23, <2>1, <2>3, <2>4, <2>5, <2>6 DEF TypeOK, Reading, LockKept,
       Places, Events, HooksOfServers, CancelledHalfClosed, Told, CloseSocket,
       End, draining, layer, cleanup
  <2>8. Queued'
    BY <1>0, <1>1, <1>23, <2>1 DEF Queued, CancelledHalfClosed, CloseSocket,
       End, Goto, layer, cleanup
  <2>9. Drains'
    BY <1>0, <1>1, <1>23 DEF Drains, CancelledHalfClosed, CloseSocket, End,
       Goto, draining
  <2>10. ClientIsServed'
    BY <1>0, <1>1, <1>23 DEF ClientIsServed, CancelledHalfClosed, CloseSocket,
       End, Goto, cleanup
  <2>11. HooksRan'
    BY <1>0, <1>1, <1>23 DEF HooksRan, Ran, At, Established, Reading,
       CancelledHalfClosed, CloseSocket, End, Goto, Saw
  <2>12. HooksMatch'
    BY <1>0, <1>1, <1>23 DEF HooksMatch, HooksRan, Ran, At, Established,
       CancelledHalfClosed, Told, CloseSocket, End, Goto, Saw
  <2>13. OpenAnswered'
    BY <1>0, <1>1, <1>23 DEF OpenAnswered, CancelledHalfClosed, Told,
       CloseSocket, End, Goto
  <2>14. EventHandedOver'
    BY <1>0, <1>1, <1>23 DEF EventHandedOver, CancelledHalfClosed, CloseSocket,
       End, Goto
  <2>15. ReadersAnswered'
    BY <1>0, <1>1, <1>23 DEF ReadersAnswered, Established, At,
       CancelledHalfClosed, CloseSocket, End, Goto
  <2>16. PendingWereCancelled'
    BY <1>0, <1>23 DEF PendingWereCancelled, CancelledHalfClosed, Told
  <2>17. ClosedCannotRead'
    BY <1>0, <1>1, <1>23 DEF ClosedCannotRead, CancelledHalfClosed, CloseSocket,
       End, Goto
  <2>18. ServedAreAwaited'
    BY <1>0, <1>1, <1>23 DEF ServedAreAwaited, Serving, ClientIsServed,
       CancelledHalfClosed, CloseSocket, End, Goto, cleanup
  <2>19. QED
    BY <2>1, <2>3, <2>7, <2>8, <2>9, <2>10, <2>11, <2>12, <2>13, <2>14, <2>15,
       <2>16, <2>17, <2>18 DEF IInv, LockKept
<1>24. ASSUME NEW c \in Conns, OpenConnection(c), 
         UNCHANGED <<locking, event>>, Goto(c, "connect_hook"),
         Saw(c, "connect")
      PROVE  IInv'
  <2>1. LockKept' /\ \A u \in Tasks : Inside(u)' <=> Inside(u)
    BY <1>0, <1>24, LockFrame
  <2>2. PermitMoves(c)
    BY <1>24 DEF PermitMoves, HasPermit, OpenConnection, Goto
  <2>3. PermitsKept' /\ permits' \in 0..MaxConns
    BY <1>0, <2>2, PermitStep
  <2>4. pc' \in [Conns -> Places]
    BY <1>1, <1>24 DEF Places, Hooking, Goto
  <2>5. saw' \in [Conns -> SUBSET HooksOfServers]
    BY <1>1, <1>24 DEF HooksOfServers, Saw
  <2>6. TypeOK'
    BY <1>0, <1>24, <2>1, <2>4, <2>5 DEF TypeOK, LockKept, Places,
       OpenConnection, Saw, draining, layer, cleanup, cancelling
  <2>7. Queued'
    BY <1>0, <1>24, <2>1 DEF Queued, OpenConnection, Goto, layer, cleanup
  <2>8. Drains'
    BY <1>0, <1>24 DEF Drains, OpenConnection, Goto, draining
  <2>9. ClientIsServed'
    BY <1>0, <1>24 DEF ClientIsServed, OpenConnection, Goto, cleanup
  <2>10. HooksRan'
    BY <1>0, <1>1, <1>24 DEF HooksRan, Ran, At, Established, Reading,
       OpenConnection, Goto, Saw
  <2>11. HooksMatch'
    BY <1>0, <1>24 DEF HooksMatch, OpenConnection, Goto, Saw, cancelling
  <2>12. OpenAnswered'
    BY <1>0, <1>24 DEF OpenAnswered, OpenConnection, Goto, cancelling
  <2>13. EventHandedOver'
    BY <1>0, <1>24 DEF EventHandedOver, Goto
  <2>14. ReadersAnswered'
    BY <1>0, <1>24 DEF ReadersAnswered, Established, At, Reading,
       OpenConnection, Goto
  <2>15. ClosedCannotRead'
    BY <1>0, <1>24 DEF ClosedCannotRead, OpenConnection, Goto
  <2>16. ServedAreAwaited'
    BY <1>0, <1>24 DEF ServedAreAwaited, Serving, OpenConnection, Goto, cleanup
  <2>17. PendingWereCancelled'
    BY <1>0, <1>24 DEF PendingWereCancelled, OpenConnection, cancelling
  <2>18. QED
    BY <2>1, <2>3, <2>6, <2>7, <2>8, <2>9, <2>10, <2>11, <2>12, <2>13, <2>14,
       <2>15, <2>16, <2>17 DEF IInv, LockKept
<1>25. ASSUME NEW c \in Conns, OpenConnection(c), 
         HandOver(c, "killed"),
         saw' = [saw EXCEPT ![c] = {"connect", "error"}]
      PROVE  IInv'
  <2>1. ~Inside(c) /\ Call(c)
    BY <1>0, <1>25 DEF Queued, OpenConnection, HandOver
  <2>2. LockKept' /\ \A u \in Tasks : Inside(u)' <=> Inside(u) \/ u = c
    BY <1>0, <2>1, Calls
  <2>3. PermitMoves(c)
    BY <1>1, <1>25 DEF PermitMoves, HasPermit, OpenConnection, HandOver
  <2>4. PermitsKept' /\ permits' \in 0..MaxConns
    BY <1>0, <2>3, PermitStep
  <2>5. TypeOK'
    BY <1>0, <1>25, <2>2 DEF TypeOK, LockKept, OpenConnection, HandOver,
       draining, layer, cleanup, cancelling
  <2>6. Queued'
    BY <1>0, <1>1, <1>25, <2>2 DEF Queued, OpenConnection, HandOver, layer,
       cleanup
  <2>7. Drains'
    BY <1>0, <1>25 DEF Drains, OpenConnection, HandOver, draining
  <2>8. ClientIsServed'
    BY <1>0, <1>25 DEF ClientIsServed, OpenConnection, HandOver, cleanup
  <2>9. HooksRan'
    BY <1>0, <1>1, <1>25 DEF HooksRan, Ran, At, Established, Reading, HandOver
  <2>10. HooksMatch'
    BY <1>0, <1>25 DEF HooksMatch, OpenConnection, HandOver, cancelling
  <2>11. OpenAnswered'
    BY <1>0, <1>25 DEF OpenAnswered, OpenConnection, HandOver, cancelling
  <2>12. EventHandedOver'
    BY <1>0, <1>1, <1>25 DEF EventHandedOver, HandOver
  <2>13. ReadersAnswered'
    BY <1>0, <1>1, <1>25 DEF ReadersAnswered, Established, At, Reading,
       OpenConnection, HandOver
  <2>14. ClosedCannotRead'
    BY <1>0, <1>1, <1>25 DEF ClosedCannotRead, OpenConnection, HandOver
  <2>15. ServedAreAwaited'
    BY <1>0, <1>25 DEF ServedAreAwaited, Serving, OpenConnection, HandOver,
       cleanup
  <2>16. PendingWereCancelled'
    BY <1>0, <1>25 DEF PendingWereCancelled, OpenConnection, cancelling
  <2>17. QED
    BY <2>2, <2>4, <2>5, <2>6, <2>7, <2>8, <2>9, <2>10, <2>11, <2>12, <2>13,
       <2>14, <2>15, <2>16 DEF IInv, LockKept
<1>26. ASSUME NEW c \in Conns, SendData(c)
      PROVE  IInv'
  <2>1. LockKept' /\ \A u \in Tasks : Inside(u)' <=> Inside(u)
    BY <1>0, <1>26, LockFrame DEF SendData
  <2>2. /\ UNCHANGED <<pc, event, permits>>
       /\ \A d \in Servers : HasPermit(d)' <=> HasPermit(d)
    BY <1>26 DEF HasPermit, SendData
  <2>3. PermitsKept' /\ permits' \in 0..MaxConns
    BY <1>0, <2>2 DEF PermitsKept
  <2>4. TypeOK'
    BY <1>0, <1>26, <2>1 DEF TypeOK, LockKept, SendData, draining, layer,
       history, cleanup, cancelling
  <2>5. Queued'
    BY <1>0, <1>26, <2>1 DEF Queued, SendData, layer, cleanup
  <2>6. Drains' /\ ClientIsServed' /\ HooksRan' /\ HooksMatch' /\ OpenAnswered' /\
     EventHandedOver' /\ ReadersAnswered' /\ PendingWereCancelled' /\
     ClosedCannotRead' /\ ServedAreAwaited'
    BY <1>0, <1>26 DEF Drains, ClientIsServed, HooksRan, Ran, At, Established,
       HooksMatch, OpenAnswered, EventHandedOver, ReadersAnswered,
       PendingWereCancelled, ClosedCannotRead, ServedAreAwaited, Serving,
       SendData, draining, history, cleanup, cancelling
  <2>7. QED
    BY <2>1, <2>3, <2>4, <2>5, <2>6 DEF IInv, LockKept
<1>27. ASSUME NEW c \in Conns, CloseConnection(c)
      PROVE  IInv'
  <2>1. LockKept' /\ \A u \in Tasks : Inside(u)' <=> Inside(u)
    BY <1>0, <1>27, LockFrame DEF CloseConnection
  <2>2. /\ UNCHANGED <<pc, event, permits>>
       /\ \A d \in Servers : HasPermit(d)' <=> HasPermit(d)
    BY <1>27 DEF HasPermit, CloseConnection
  <2>3. PermitsKept' /\ permits' \in 0..MaxConns
    BY <1>0, <2>2 DEF PermitsKept
  <2>4. TypeOK'
    <3>1. pending' \subseteq Conns /\ cancels' \subseteq Conns /\ crashed' \in BOOLEAN
      BY <1>0, <1>27 DEF CloseConnection, cancelling, Cancel, TypeOK
    <3>2. state' \in [Conns -> SUBSET OPEN]
      BY <1>0, <1>27 DEF CloseConnection, CLOSED, TypeOK
    <3>3. /\ UNCHANGED <<main, pc, event, sock, transports, permits, full, drainer, todo>>
          /\ UNCHANGED <<hook, timer, awaited, registered, watching, reads, hooks>>
          /\ UNCHANGED <<saw, answered>>
      BY <1>27 DEF CloseConnection, draining, layer, history, cleanup
    <3>4. QED BY <1>0, <2>1, <3>1, <3>2, <3>3 DEF TypeOK, LockKept
  <2>5. Queued'
    BY <1>0, <1>27, <2>1 DEF Queued, CloseConnection, layer, cleanup
  <2>6. HooksMatch'
    BY <1>0, <1>27 DEF HooksMatch, CloseConnection, cancelling, Cancel, history
  <2>7. OpenAnswered'
    BY <1>0, <1>27 DEF OpenAnswered, CloseConnection, cancelling, Cancel,
       history
  <2>8. PendingWereCancelled'
    BY <1>0, <1>27 DEF PendingWereCancelled, CloseConnection, cancelling, Cancel
  <2>9. ClosedCannotRead'
    BY <1>0, <1>27 DEF ClosedCannotRead, CloseConnection, CLOSED
  <2>10. Drains' /\ ClientIsServed' /\ HooksRan' /\ EventHandedOver' /\
     ReadersAnswered' /\ ServedAreAwaited'
    BY <1>0, <1>27 DEF Drains, ClientIsServed, HooksRan, Ran, At, Established,
       EventHandedOver, ReadersAnswered, ServedAreAwaited, Serving,
       CloseConnection, draining, history, cleanup
  <2>11. QED
    BY <2>1, <2>3, <2>4, <2>5, <2>6, <2>7, <2>8, <2>9, <2>10 DEF IInv, LockKept
<1>28. ASSUME NEW c \in Conns, HalfClose(c)
      PROVE  IInv'
  <2>1. LockKept' /\ \A u \in Tasks : Inside(u)' <=> Inside(u)
    BY <1>0, <1>28, LockFrame DEF HalfClose
  <2>2. /\ UNCHANGED <<pc, event, permits>>
       /\ \A d \in Servers : HasPermit(d)' <=> HasPermit(d)
    BY <1>28 DEF HasPermit, HalfClose
  <2>3. PermitsKept' /\ permits' \in 0..MaxConns
    BY <1>0, <2>2 DEF PermitsKept
  <2>4. state' \in [Conns -> SUBSET OPEN]
    BY <1>1, <1>28 DEF CLOSED, HalfClose
  <2>5. TypeOK'
    BY <1>0, <1>28, <2>1, <2>4 DEF TypeOK, LockKept, HalfClose, Cancel,
       cancelling, draining, layer, history, cleanup
  <2>6. Queued'
    BY <1>0, <1>28, <2>1 DEF Queued, HalfClose, layer, cleanup
  <2>7. HooksMatch'
    BY <1>0, <1>28 DEF HooksMatch, HalfClose, Cancel, cancelling, history
  <2>8. OpenAnswered'
    BY <1>0, <1>28 DEF OpenAnswered, HalfClose, Cancel, cancelling, history
  <2>9. PendingWereCancelled'
    BY <1>0, <1>28 DEF PendingWereCancelled, HalfClose, Cancel, cancelling
  <2>10. ClosedCannotRead'
    BY <1>0, <1>28 DEF ClosedCannotRead, HalfClose, CLOSED
  <2>11. Drains' /\ ClientIsServed' /\ HooksRan' /\ EventHandedOver' /\
     ReadersAnswered' /\ ServedAreAwaited'
    BY <1>0, <1>28 DEF Drains, ClientIsServed, HooksRan, Ran, At, Established,
       EventHandedOver, ReadersAnswered, ServedAreAwaited, Serving, HalfClose,
       draining, history, cleanup
  <2>12. QED
    BY <2>1, <2>3, <2>5, <2>6, <2>7, <2>8, <2>9, <2>10, <2>11 DEF IInv, LockKept
<1>29. ASSUME StartHook, 
         UNCHANGED locking, hook' = "running"
      PROVE  IInv'
  <2>1. LockKept' /\ \A u \in Tasks : Inside(u)' <=> Inside(u)
    BY <1>0, <1>29, LockFrame
  <2>2. /\ UNCHANGED <<pc, event, permits>>
       /\ \A d \in Servers : HasPermit(d)' <=> HasPermit(d)
    BY <1>29 DEF HasPermit, StartHook
  <2>3. PermitsKept' /\ permits' \in 0..MaxConns
    BY <1>0, <2>2 DEF PermitsKept
  <2>4. hooks' \in 0..MaxHooks
    BY <1>0, <1>29, BoundsAssumption DEF TypeOK, StartHook
  <2>5. TypeOK'
    BY <1>0, <1>29, <2>1, <2>4 DEF TypeOK, LockKept, StartHook, draining,
       history, cleanup, cancelling
  <2>6. Queued'
    BY <1>0, <1>29, <2>1 DEF Queued, StartHook, cleanup
  <2>7. Drains' /\ ClientIsServed' /\ HooksRan' /\ HooksMatch' /\ OpenAnswered' /\
     EventHandedOver' /\ ReadersAnswered' /\ PendingWereCancelled' /\
     ClosedCannotRead' /\ ServedAreAwaited'
    BY <1>0, <1>29 DEF Drains, ClientIsServed, HooksRan, Ran, At, Established,
       HooksMatch, OpenAnswered, EventHandedOver, ReadersAnswered,
       PendingWereCancelled, ClosedCannotRead, ServedAreAwaited, Serving,
       StartHook, draining, history, cleanup, cancelling
  <2>8. QED
    BY <2>1, <2>3, <2>5, <2>6, <2>7 DEF IInv, LockKept
<1>30. ASSUME StartHook, 
         hook' = "event", Call("hook")
      PROVE  IInv'
  <2>1. ~Inside("hook") /\ Call("hook")
    BY <1>0, <1>30 DEF Queued, StartHook
  <2>2. LockKept' /\ \A u \in Tasks : Inside(u)' <=> Inside(u) \/ u = "hook"
    BY <1>0, <2>1, Calls
  <2>3. /\ UNCHANGED <<pc, event, permits>>
       /\ \A d \in Servers : HasPermit(d)' <=> HasPermit(d)
    BY <1>30 DEF HasPermit, StartHook
  <2>4. PermitsKept' /\ permits' \in 0..MaxConns
    BY <1>0, <2>3 DEF PermitsKept
  <2>5. hooks' \in 0..MaxHooks
    BY <1>0, <1>30, BoundsAssumption DEF TypeOK, StartHook
  <2>6. TypeOK'
    BY <1>0, <1>30, <2>2, <2>5 DEF TypeOK, LockKept, StartHook, draining,
       history, cleanup, cancelling
  <2>7. Queued'
    BY <1>0, <1>30, <2>2 DEF Queued, StartHook, cleanup
  <2>8. Drains' /\ ClientIsServed' /\ HooksRan' /\ HooksMatch' /\ OpenAnswered' /\
     EventHandedOver' /\ ReadersAnswered' /\ PendingWereCancelled' /\
     ClosedCannotRead' /\ ServedAreAwaited'
    BY <1>0, <1>30 DEF Drains, ClientIsServed, HooksRan, Ran, At, Established,
       HooksMatch, OpenAnswered, EventHandedOver, ReadersAnswered,
       PendingWereCancelled, ClosedCannotRead, ServedAreAwaited, Serving,
       StartHook, draining, history, cleanup, cancelling
  <2>9. QED
    BY <2>2, <2>4, <2>6, <2>7, <2>8 DEF IInv, LockKept
<1>31. CASE RequestWakeup
  <2>1. LockKept' /\ \A u \in Tasks : Inside(u)' <=> Inside(u)
    BY <1>0, <1>31, LockFrame DEF RequestWakeup
  <2>2. /\ UNCHANGED <<pc, event, permits>>
       /\ \A d \in Servers : HasPermit(d)' <=> HasPermit(d)
    BY <1>31 DEF HasPermit, RequestWakeup
  <2>3. PermitsKept' /\ permits' \in 0..MaxConns
    BY <1>0, <2>2 DEF PermitsKept
  <2>4. TypeOK'
    BY <1>0, <1>31, <2>1 DEF TypeOK, LockKept, RequestWakeup, draining, history,
       cleanup, cancelling
  <2>5. Queued'
    BY <1>0, <1>31, <2>1 DEF Queued, RequestWakeup, cleanup
  <2>6. Drains' /\ ClientIsServed' /\ HooksRan' /\ HooksMatch' /\ OpenAnswered' /\
     EventHandedOver' /\ ReadersAnswered' /\ PendingWereCancelled' /\
     ClosedCannotRead' /\ ServedAreAwaited'
    BY <1>0, <1>31 DEF Drains, ClientIsServed, HooksRan, Ran, At, Established,
       HooksMatch, OpenAnswered, EventHandedOver, ReadersAnswered,
       PendingWereCancelled, ClosedCannotRead, ServedAreAwaited, Serving,
       RequestWakeup, draining, history, cleanup, cancelling
  <2>7. QED
    BY <2>1, <2>3, <2>4, <2>5, <2>6 DEF IInv, LockKept
<1>32. CASE HookEnds
  <2>1. ~Inside("hook") /\ Call("hook")
    BY <1>0, <1>32 DEF Queued, HookEnds
  <2>2. LockKept' /\ \A u \in Tasks : Inside(u)' <=> Inside(u) \/ u = "hook"
    BY <1>0, <2>1, Calls
  <2>3. /\ UNCHANGED <<pc, event, permits>>
       /\ \A d \in Servers : HasPermit(d)' <=> HasPermit(d)
    BY <1>32 DEF HasPermit, HookEnds
  <2>4. PermitsKept' /\ permits' \in 0..MaxConns
    BY <1>0, <2>3 DEF PermitsKept
  <2>5. TypeOK'
    BY <1>0, <1>32, <2>2 DEF TypeOK, LockKept, HookEnds, draining, history,
       cleanup, cancelling
  <2>6. Queued'
    BY <1>0, <1>32, <2>2 DEF Queued, HookEnds, cleanup
  <2>7. Drains' /\ ClientIsServed' /\ HooksRan' /\ HooksMatch' /\ OpenAnswered' /\
     EventHandedOver' /\ ReadersAnswered' /\ PendingWereCancelled' /\
     ClosedCannotRead' /\ ServedAreAwaited'
    BY <1>0, <1>32 DEF Drains, ClientIsServed, HooksRan, Ran, At, Established,
       HooksMatch, OpenAnswered, EventHandedOver, ReadersAnswered,
       PendingWereCancelled, ClosedCannotRead, ServedAreAwaited, Serving,
       HookEnds, draining, history, cleanup, cancelling
  <2>8. QED
    BY <2>2, <2>4, <2>5, <2>6, <2>7 DEF IInv, LockKept
<1>33. CASE TimerFires
  <2>1. ~Inside("timer") /\ Call("timer")
    BY <1>0, <1>33 DEF Queued, TimerFires
  <2>2. LockKept' /\ \A u \in Tasks : Inside(u)' <=> Inside(u) \/ u = "timer"
    BY <1>0, <2>1, Calls
  <2>3. /\ UNCHANGED <<pc, event, permits>>
       /\ \A d \in Servers : HasPermit(d)' <=> HasPermit(d)
    BY <1>33 DEF HasPermit, TimerFires
  <2>4. PermitsKept' /\ permits' \in 0..MaxConns
    BY <1>0, <2>3 DEF PermitsKept
  <2>5. TypeOK'
    BY <1>0, <1>33, <2>2 DEF TypeOK, LockKept, TimerFires, draining, history,
       cleanup, cancelling
  <2>6. Queued'
    BY <1>0, <1>33, <2>2 DEF Queued, TimerFires, cleanup
  <2>7. Drains' /\ ClientIsServed' /\ HooksRan' /\ HooksMatch' /\ OpenAnswered' /\
     EventHandedOver' /\ ReadersAnswered' /\ PendingWereCancelled' /\
     ClosedCannotRead' /\ ServedAreAwaited'
    BY <1>0, <1>33 DEF Drains, ClientIsServed, HooksRan, Ran, At, Established,
       HooksMatch, OpenAnswered, EventHandedOver, ReadersAnswered,
       PendingWereCancelled, ClosedCannotRead, ServedAreAwaited, Serving,
       TimerFires, draining, history, cleanup, cancelling
  <2>8. QED
    BY <2>2, <2>4, <2>5, <2>6, <2>7 DEF IInv, LockKept
<1>34. CASE TaskHandled
  <2>1. Release
    BY <1>34 DEF TaskHandled
  <2>2. LockKept' /\ \A u \in Tasks : Inside(u)' <=> Inside(u) /\ u # holder
    BY <1>0, <2>1, Releases
  <2>3. /\ UNCHANGED <<pc, event, permits>>
       /\ \A d \in Servers : HasPermit(d)' <=> HasPermit(d)
    BY <1>34 DEF HasPermit, TaskHandled
  <2>4. PermitsKept' /\ permits' \in 0..MaxConns
    BY <1>0, <2>3 DEF PermitsKept
  <2>5. TypeOK'
    BY <1>0, <1>34, <2>2 DEF TypeOK, LockKept, TaskHandled, draining, history,
       cleanup, cancelling
  <2>6. Queued'
    BY <1>0, <1>34, <2>2 DEF Queued, TaskHandled, cleanup
  <2>7. Drains' /\ ClientIsServed' /\ HooksRan' /\ HooksMatch' /\ OpenAnswered' /\
     EventHandedOver' /\ ReadersAnswered' /\ PendingWereCancelled' /\
     ClosedCannotRead' /\ ServedAreAwaited'
    BY <1>0, <1>34 DEF Drains, ClientIsServed, HooksRan, Ran, At, Established,
       HooksMatch, OpenAnswered, EventHandedOver, ReadersAnswered,
       PendingWereCancelled, ClosedCannotRead, ServedAreAwaited, Serving,
       TaskHandled, draining, history, cleanup, cancelling
  <2>8. QED
    BY <2>2, <2>4, <2>5, <2>6, <2>7 DEF IInv, LockKept
<1>35. ASSUME ClientConnectHookEnds, 
         main' = "start", Call("main"), UNCHANGED <<sock, transports>>
      PROVE  IInv'
  <2>1. ~Inside("main") /\ Call("main")
    BY <1>0, <1>35 DEF Queued, ClientConnectHookEnds
  <2>2. LockKept' /\ \A u \in Tasks : Inside(u)' <=> Inside(u) \/ u = "main"
    BY <1>0, <2>1, Calls
  <2>3. /\ UNCHANGED <<pc, event, permits>>
       /\ \A d \in Servers : HasPermit(d)' <=> HasPermit(d)
    BY <1>35 DEF HasPermit, ClientConnectHookEnds
  <2>4. PermitsKept' /\ permits' \in 0..MaxConns
    BY <1>0, <2>3 DEF PermitsKept
  <2>5. TypeOK'
    BY <1>0, <1>35, <2>2 DEF TypeOK, LockKept, ClientConnectHookEnds, draining,
       layer, history, cancelling
  <2>6. Queued'
    BY <1>0, <1>35, <2>2 DEF Queued, ClientConnectHookEnds, layer
  <2>7. ClientIsServed'
    BY <1>0, <1>35 DEF ClientIsServed, ClientConnectHookEnds
  <2>8. ServedAreAwaited'
    BY <1>0, <1>35 DEF ServedAreAwaited, Serving, ClientConnectHookEnds
  <2>9. Drains' /\ HooksRan' /\ HooksMatch' /\ OpenAnswered' /\ EventHandedOver' /\
     ReadersAnswered' /\ PendingWereCancelled' /\ ClosedCannotRead'
    BY <1>0, <1>35 DEF Drains, HooksRan, Ran, At, Established, HooksMatch,
       OpenAnswered, EventHandedOver, ReadersAnswered, PendingWereCancelled,
       ClosedCannotRead, ClientConnectHookEnds, draining, history, cancelling
  <2>10. QED
    BY <2>2, <2>4, <2>5, <2>6, <2>7, <2>8, <2>9 DEF IInv, LockKept
<1>36. ASSUME ClientConnectHookEnds, 
         main' = "disconnect_hook", UNCHANGED locking,
         transports' = transports \ {client}, sock' = [sock EXCEPT ![client] = "closed"]
      PROVE  IInv'
  <2>1. LockKept' /\ \A u \in Tasks : Inside(u)' <=> Inside(u)
    BY <1>0, <1>36, LockFrame
  <2>2. /\ UNCHANGED <<pc, event, permits>>
       /\ \A d \in Servers : HasPermit(d)' <=> HasPermit(d)
    BY <1>36 DEF HasPermit, ClientConnectHookEnds
  <2>3. PermitsKept' /\ permits' \in 0..MaxConns
    BY <1>0, <2>2 DEF PermitsKept
  <2>4. TypeOK'
    BY <1>0, <1>36, <2>1 DEF TypeOK, LockKept, ClientConnectHookEnds, draining,
       layer, history, cancelling
  <2>5. Queued'
    BY <1>0, <1>36, <2>1 DEF Queued, ClientConnectHookEnds, layer
  <2>6. ClientIsServed'
    BY <1>0, <1>36 DEF ClientIsServed, ClientConnectHookEnds
  <2>7. ServedAreAwaited'
    BY <1>0, <1>36 DEF ServedAreAwaited, Serving, ClientIsServed,
       ClientConnectHookEnds
  <2>8. Drains' /\ HooksRan' /\ HooksMatch' /\ OpenAnswered' /\ EventHandedOver' /\
     ReadersAnswered' /\ PendingWereCancelled' /\ ClosedCannotRead'
    BY <1>0, <1>36 DEF Drains, HooksRan, Ran, At, Established, HooksMatch,
       OpenAnswered, EventHandedOver, ReadersAnswered, PendingWereCancelled,
       ClosedCannotRead, ClientConnectHookEnds, draining, history, cancelling
  <2>9. QED
    BY <2>1, <2>3, <2>4, <2>5, <2>6, <2>7, <2>8 DEF IInv, LockKept
<1>37. ASSUME ServeClient, 
         Goto(client, "read"), registered' = TRUE, Release,
         UNCHANGED <<event, reads>>
      PROVE  IInv'
  <2>1. Release
    BY <1>37
  <2>2. LockKept' /\ \A u \in Tasks : Inside(u)' <=> Inside(u) /\ u # holder
    BY <1>0, <2>1, Releases
  <2>3. PermitMoves(client)
    BY <1>37 DEF PermitMoves, HasPermit, ServeClient, Goto
  <2>4. PermitsKept' /\ permits' \in 0..MaxConns
    BY <1>0, <2>3, PermitStep
  <2>5. pc[client] = "none"
    BY <1>0, <1>37 DEF ClientIsServed, ServeClient
  <2>6. pc' \in [Conns -> Places]
    BY <1>1, <1>37 DEF Places, Reading, Goto
  <2>7. TypeOK'
    BY <1>0, <1>37, <2>2, <2>6 DEF TypeOK, LockKept, Places, ServeClient,
       draining, layer, history, cancelling
  <2>8. Queued'
    BY <1>0, <1>37, <2>5, <2>2 DEF Queued, ServeClient, Goto, layer
  <2>9. Drains'
    BY <1>0, <1>37, <2>5 DEF Drains, ServeClient, Goto, draining
  <2>10. ClientIsServed'
    BY <1>37, <2>5 DEF ClientIsServed, Reading, ServeClient, Goto
  <2>11. HooksRan'
    BY <1>0, <1>37 DEF HooksRan, Ran, At, Established, ServeClient, Goto,
       history
  <2>12. HooksMatch'
    BY <1>0, <1>37 DEF HooksMatch, ServeClient, Goto, history, cancelling
  <2>13. OpenAnswered'
    BY <1>0, <1>37 DEF OpenAnswered, ServeClient, Goto, history, cancelling
  <2>14. EventHandedOver'
    BY <1>0, <1>37 DEF EventHandedOver, Goto
  <2>15. ReadersAnswered'
    BY <1>0, <1>37 DEF ReadersAnswered, Established, At, ServeClient, Goto,
       history
  <2>16. ClosedCannotRead'
    BY <1>0, <1>37 DEF ClosedCannotRead, ServeClient, Goto
  <2>17. ServedAreAwaited'
    BY <1>0, <1>37 DEF ServedAreAwaited, Serving, ServeClient, Goto
  <2>18. PendingWereCancelled'
    BY <1>0, <1>37 DEF PendingWereCancelled, ServeClient, cancelling
  <2>19. QED
    BY <2>2, <2>4, <2>7, <2>8, <2>9, <2>10, <2>11, <2>12, <2>13, <2>14, <2>15,
       <2>16, <2>17, <2>18 DEF IInv, LockKept
<1>38. ASSUME ServeClient, 
         reads < MaxReads, reads' = reads + 1, pc' = [pc EXCEPT ![client] = "event"],
         event' = [event EXCEPT ![client] = "data"], registered' \in BOOLEAN,
         IF waiters = << >> THEN holder' = client /\ UNCHANGED waiters
         ELSE holder' = "nobody" /\ waiters' = Append(waiters, client)
      PROVE  IInv'
  <2>1. ~Inside(client) /\ holder \in Tasks /\ client \in Tasks
    BY <1>0, <1>38 DEF Queued, ClientIsServed, ServeClient
  <2>2. LockKept' /\ \A u \in Tasks : Inside(u)' <=> u = client \/ (Inside(u) /\ u # holder)
    BY <1>0, <1>38, <2>1, Swaps
  <2>3. PermitMoves(client)
    BY <1>38 DEF PermitMoves, HasPermit, ServeClient
  <2>4. PermitsKept' /\ permits' \in 0..MaxConns
    BY <1>0, <2>3, PermitStep
  <2>5. pc[client] = "none"
    BY <1>0, <1>38 DEF ClientIsServed, ServeClient
  <2>6. reads' \in 0..MaxReads
    BY <1>0, <1>38, BoundsAssumption DEF TypeOK
  <2>7. TypeOK'
    BY <1>0, <1>38, <2>2, <2>6 DEF TypeOK, LockKept, ServeClient, draining,
       layer, history, cancelling
  <2>8. Queued'
    BY <1>0, <1>1, <1>38, <2>2 DEF Queued, ServeClient, layer
  <2>9. Drains'
    BY <1>0, <1>38, <2>5 DEF Drains, ServeClient, draining
  <2>10. ClientIsServed'
    BY <1>1, <1>38 DEF ClientIsServed, ServeClient
  <2>11. HooksRan'
    BY <1>0, <1>38 DEF HooksRan, Ran, At, Established, ServeClient, history
  <2>12. HooksMatch'
    BY <1>0, <1>38 DEF HooksMatch, ServeClient, history, cancelling
  <2>13. OpenAnswered'
    BY <1>0, <1>38 DEF OpenAnswered, ServeClient, history, cancelling
  <2>14. EventHandedOver'
    BY <1>0, <1>1, <1>38 DEF EventHandedOver
  <2>15. ReadersAnswered'
    BY <1>0, <1>38 DEF ReadersAnswered, Established, At, ServeClient, history
  <2>16. ClosedCannotRead'
    BY <1>0, <1>1, <1>38 DEF ClosedCannotRead, ServeClient
  <2>17. ServedAreAwaited'
    BY <1>0, <1>38 DEF ServedAreAwaited, Serving, ServeClient
  <2>18. PendingWereCancelled'
    BY <1>0, <1>38 DEF PendingWereCancelled, ServeClient, cancelling
  <2>19. QED
    BY <2>2, <2>4, <2>7, <2>8, <2>9, <2>10, <2>11, <2>12, <2>13, <2>14, <2>15,
       <2>16, <2>17, <2>18 DEF IInv, LockKept
<1>39. CASE Timeout
  <2>1. LockKept' /\ \A u \in Tasks : Inside(u)' <=> Inside(u)
    BY <1>0, <1>39, LockFrame DEF Timeout
  <2>2. /\ UNCHANGED <<pc, event, permits>>
       /\ \A d \in Servers : HasPermit(d)' <=> HasPermit(d)
    BY <1>39 DEF HasPermit, Timeout
  <2>3. PermitsKept' /\ permits' \in 0..MaxConns
    BY <1>0, <2>2 DEF PermitsKept
  <2>4. TypeOK'
    <3>1. pending' \subseteq Conns /\ cancels' \subseteq Conns
      BY <1>0, <1>39 DEF Timeout, Cancel, TypeOK
    <3>2. /\ UNCHANGED <<main, pc, event, state, sock, transports, permits, full, drainer>>
          /\ UNCHANGED <<todo, hook, timer, awaited, registered, watching, crashed>>
          /\ UNCHANGED <<reads, hooks, saw, answered>>
      BY <1>39 DEF Timeout, draining, layer, history, cleanup
    <3>3. QED BY <1>0, <2>1, <3>1, <3>2 DEF TypeOK, LockKept
  <2>5. Queued'
    BY <1>0, <1>39, <2>1 DEF Queued, Timeout, layer, cleanup
  <2>6. HooksMatch'
    BY <1>0, <1>39 DEF HooksMatch, Timeout, Cancel, history
  <2>7. OpenAnswered'
    BY <1>0, <1>39 DEF OpenAnswered, Timeout, Cancel, history
  <2>8. PendingWereCancelled'
    BY <1>0, <1>39 DEF PendingWereCancelled, Timeout, Cancel
  <2>9. Drains' /\ ClientIsServed' /\ HooksRan' /\ EventHandedOver' /\ ReadersAnswered' /\
     ClosedCannotRead' /\ ServedAreAwaited'
    BY <1>0, <1>39 DEF Drains, ClientIsServed, HooksRan, Ran, At, Established,
       EventHandedOver, ReadersAnswered, ClosedCannotRead, ServedAreAwaited,
       Serving, Timeout, draining, history, cleanup
  <2>10. QED
    BY <2>1, <2>3, <2>4, <2>5, <2>6, <2>7, <2>8, <2>9 DEF IInv, LockKept
<1>40. CASE ClientHandlerEnds
  <2>1. LockKept' /\ \A u \in Tasks : Inside(u)' <=> Inside(u)
    BY <1>0, <1>40, LockFrame DEF ClientHandlerEnds
  <2>2. /\ UNCHANGED <<pc, event, permits>>
       /\ \A d \in Servers : HasPermit(d)' <=> HasPermit(d)
    BY <1>40 DEF HasPermit, ClientHandlerEnds
  <2>3. PermitsKept' /\ permits' \in 0..MaxConns
    BY <1>0, <2>2 DEF PermitsKept
  <2>4. TypeOK'
    BY <1>0, <1>40, <2>1 DEF TypeOK, LockKept, ClientHandlerEnds, draining,
       history, cancelling
  <2>5. Queued'
    BY <1>0, <1>40, <2>1 DEF Queued, ClientHandlerEnds
  <2>6. ClientIsServed'
    BY <1>0, <1>40 DEF ClientIsServed, ClientHandlerEnds
  <2>7. ServedAreAwaited'
    BY <1>0, <1>40 DEF ServedAreAwaited, Serving, ClientHandlerEnds
  <2>8. Drains' /\ HooksRan' /\ HooksMatch' /\ OpenAnswered' /\ EventHandedOver' /\
     ReadersAnswered' /\ PendingWereCancelled' /\ ClosedCannotRead'
    BY <1>0, <1>40 DEF Drains, HooksRan, Ran, At, Established, HooksMatch,
       OpenAnswered, EventHandedOver, ReadersAnswered, PendingWereCancelled,
       ClosedCannotRead, ClientHandlerEnds, draining, history, cancelling
  <2>9. QED
    BY <2>1, <2>3, <2>4, <2>5, <2>6, <2>7, <2>8 DEF IInv, LockKept
<1>41. CASE ClosingTransports
  <2>1. LockKept' /\ \A u \in Tasks : Inside(u)' <=> Inside(u)
    BY <1>0, <1>41, LockFrame DEF ClosingTransports
  <2>2. /\ UNCHANGED <<pc, event, permits>>
       /\ \A d \in Servers : HasPermit(d)' <=> HasPermit(d)
    BY <1>41 DEF HasPermit, ClosingTransports
  <2>3. PermitsKept' /\ permits' \in 0..MaxConns
    BY <1>0, <2>2 DEF PermitsKept
  <2>4. TypeOK'
    BY <1>0, <1>41, <2>1 DEF TypeOK, LockKept, ClosingTransports, Cancel,
       draining, layer, history
  <2>5. Queued'
    BY <1>0, <1>41, <2>1 DEF Queued, ClosingTransports, layer
  <2>6. ClientIsServed'
    BY <1>0, <1>41 DEF ClientIsServed, ClosingTransports
  <2>7. HooksMatch'
    BY <1>0, <1>41 DEF HooksMatch, ClosingTransports, Cancel, history
  <2>8. OpenAnswered'
    BY <1>0, <1>41 DEF OpenAnswered, ClosingTransports, Cancel, history
  <2>9. PendingWereCancelled'
    BY <1>0, <1>41 DEF PendingWereCancelled, ClosingTransports, Cancel
  <2>10. ServedAreAwaited'
    BY <1>0, <1>41 DEF ServedAreAwaited, Serving, ClosingTransports
  <2>11. Drains' /\ HooksRan' /\ EventHandedOver' /\ ReadersAnswered' /\
     ClosedCannotRead'
    BY <1>0, <1>41 DEF Drains, HooksRan, Ran, At, Established, EventHandedOver,
       ReadersAnswered, ClosedCannotRead, ClosingTransports, draining, history
  <2>12. QED
    BY <2>1, <2>3, <2>4, <2>5, <2>6, <2>7, <2>8, <2>9, <2>10, <2>11 DEF IInv,
       LockKept
<1>42. CASE TransportsClosed
  <2>1. LockKept' /\ \A u \in Tasks : Inside(u)' <=> Inside(u)
    BY <1>0, <1>42, LockFrame DEF TransportsClosed
  <2>2. /\ UNCHANGED <<pc, event, permits>>
       /\ \A d \in Servers : HasPermit(d)' <=> HasPermit(d)
    BY <1>42 DEF HasPermit, TransportsClosed
  <2>3. PermitsKept' /\ permits' \in 0..MaxConns
    BY <1>0, <2>2 DEF PermitsKept
  <2>4. TypeOK'
    BY <1>0, <1>42, <2>1 DEF TypeOK, LockKept, TransportsClosed, draining,
       layer, history, cancelling
  <2>5. Queued'
    BY <1>0, <1>42, <2>1 DEF Queued, TransportsClosed, layer
  <2>6. ClientIsServed'
    BY <1>0, <1>42 DEF ClientIsServed, TransportsClosed
  <2>7. ServedAreAwaited'
    BY <1>0, <1>42 DEF ServedAreAwaited, Serving, TransportsClosed, Running
  <2>8. Drains' /\ HooksRan' /\ HooksMatch' /\ OpenAnswered' /\ EventHandedOver' /\
     ReadersAnswered' /\ PendingWereCancelled' /\ ClosedCannotRead'
    BY <1>0, <1>42 DEF Drains, HooksRan, Ran, At, Established, HooksMatch,
       OpenAnswered, EventHandedOver, ReadersAnswered, PendingWereCancelled,
       ClosedCannotRead, TransportsClosed, draining, history, cancelling
  <2>9. QED
    BY <2>1, <2>3, <2>4, <2>5, <2>6, <2>7, <2>8 DEF IInv, LockKept
<1>43. CASE UNCHANGED vars
  <2>1. LockKept'
    BY <1>0, <1>43, LockFrame DEF vars
  <2>2. /\ TypeOK' /\ Queued' /\ Drains' /\ ClientIsServed' /\ PermitsKept'
        /\ HooksRan' /\ HooksMatch' /\ OpenAnswered'
        /\ EventHandedOver' /\ ReadersAnswered'
        /\ PendingWereCancelled' /\ ClosedCannotRead' /\ ServedAreAwaited'
    BY <1>0, <1>43 DEF vars, TypeOK, OPEN, Queued, Inside, Drains,
       ClientIsServed, HooksRan, Ran, At, Established, HooksMatch, OpenAnswered,
       EventHandedOver, ReadersAnswered, PendingWereCancelled, ClosedCannotRead,
       ServedAreAwaited, Serving, PermitsKept, HasPermit, draining, layer,
       history, cleanup, cancelling, locking
  <2>3. QED BY <2>1, <2>2 DEF IInv, LockKept
<1>44. ASSUME NEW c \in Conns, DataHandled(c)
      PROVE  IInv'
  BY <1>44, <1>16, <1>17 DEF DataHandled
<1>45. ASSUME NEW c \in Conns, OpenConnection(c)
      PROVE  IInv'
  BY <1>45, <1>24, <1>25 DEF OpenConnection
<1>46. CASE StartHook
  BY <1>46, <1>29, <1>30 DEF StartHook
<1>47. CASE ClientConnectHookEnds
  BY <1>47, <1>35, <1>36 DEF ClientConnectHookEnds
<1>48. CASE ServeClient
  BY <1>48, <1>37, <1>38 DEF ServeClient
<1>49. QED
  BY <1>2, <1>3, <1>4, <1>5, <1>6, <1>7, <1>8, <1>9, <1>10, <1>11, <1>12, <1>13,
     <1>14, <1>15, <1>18, <1>19, <1>20, <1>21, <1>22, <1>23, <1>26, <1>27,
     <1>28, <1>31, <1>32, <1>33, <1>34, <1>39, <1>40, <1>41, <1>42, <1>43,
     <1>44, <1>45, <1>46, <1>47, <1>48 DEF Next, HandleClient, Open, Peer,
     Drain, Handled, Cancelled, Command

(* The state in which the client was accepted satisfies the invariant.     *)
LEMMA InitInv == Init => IInv
<1> SUFFICES ASSUME Init PROVE IInv
  OBVIOUS
<1>1. pc = [c \in Conns |-> "none"] /\ saw = [c \in Conns |-> {}] /\ client \in Conns
  BY TasksAreFinite DEF Init
<1>2. waiters = << >> /\ holder = "nobody" /\ ToSet(waiters) = {} /\ IsInjective(waiters)
  BY DEF Init, ToSet, IsInjective
<1>3. InLine /\ \A t \in Tasks : ~Inside(t)
  BY <1>2, TasksAreFinite DEF InLine, Inside
<1>4. permits = MaxConns /\ Cardinality({c \in Servers : HasPermit(c)}) = 0
  <2>1. {c \in Servers : HasPermit(c)} = {}
    BY <1>1, TasksAreFinite DEF HasPermit
  <2>2. QED BY <2>1, FS_EmptySet DEF Init
<1>5. TypeOK
  <2>1. Len(waiters) = 0 /\ waiters \in Seq(Tasks) /\ Cardinality(Tasks) \in Nat
    BY <1>2, TasksAreFinite, FS_CardinalityType
  <2>2. /\ permits \in 0..MaxConns /\ reads \in 0..MaxReads /\ hooks \in 0..MaxHooks
    BY BoundsAssumption DEF Init
  <2>3. /\ pc \in [Conns -> Places] /\ event \in [Conns -> Events]
        /\ sock \in [Conns -> {"none", "open", "closed"}]
    BY DEF Init, Places, Events
  <2>4. state \in [Conns -> SUBSET OPEN]
    BY DEF Init, CLOSED
  <2>5. saw \in [Conns -> SUBSET HooksOfServers]
    BY DEF Init
  <2>6. /\ main = "connect_hook" /\ transports \subseteq Conns /\ holder = "nobody"
        /\ drainer = "nobody" /\ hook = "none" /\ timer = "none"
        /\ pending = {} /\ full = {} /\ todo = {} /\ awaited = {}
        /\ registered \in BOOLEAN /\ watching \in BOOLEAN /\ crashed \in BOOLEAN
        /\ answered = {} /\ cancels = {}
    BY <1>1 DEF Init
  <2>7. QED
    BY <2>1, <2>2, <2>3, <2>4, <2>5, <2>6 DEF TypeOK, Places, Events,
       HooksOfServers
<1>6. Queued
  BY <1>3, TasksAreFinite DEF Init, Queued
<1>7. PermitsKept
  BY <1>4, BoundsAssumption DEF PermitsKept
<1>8. Drains /\ ClientIsServed /\ ServedAreAwaited
  BY TasksAreFinite DEF Init, Drains, ClientIsServed, ServedAreAwaited, Serving
<1>9. HooksRan /\ HooksMatch
  BY <1>1, TasksAreFinite DEF HooksRan, Ran, At, Established, HooksMatch,
     Reading
<1>10. OpenAnswered /\ EventHandedOver /\ ReadersAnswered
  BY <1>1, TasksAreFinite DEF OpenAnswered, EventHandedOver, ReadersAnswered,
     At, Established, Reading
<1>11. PendingWereCancelled /\ ClosedCannotRead
  BY DEF Init, PendingWereCancelled, ClosedCannotRead
<1>12. QED
  BY <1>3, <1>5, <1>6, <1>7, <1>8, <1>9, <1>10, <1>11 DEF IInv

(* The invariant holds in every state handle_client and its tasks reach.   *)
THEOREM HandlerInvariant == Spec => []IInv
<1>1. Init => IInv
  BY InitInv
<1>2. IInv /\ [Next]_vars => IInv'
  BY StepInv
<1>3. QED BY <1>1, <1>2, PTL DEF Spec

(* On every path out of the handlers, cancelled or not: whoever hands over  *)
(* an event is in the queue of the lock once, and leaves it; permits add up *)
(* (open_connection); and if layers do not open connections once the       *)
(* client is gone, no handler but a server_disconnected hook runs on after *)
(* handle_client.                                                          *)
THEOREM HandlersLeakNothing ==
  ASSUME ~LateOpen
  PROVE  Spec => []NothingLeaks
<1>1. IInv => NothingLeaks
  <2> SUFFICES ASSUME IInv PROVE NothingLeaks
    OBVIOUS
  <2>1. TypeOK /\ PermitsKept
    BY DEF IInv
  <2>2. LocksKept
    BY DEF IInv, LocksKept, InLine, Queued, Drains, Inside
  <2>3. NothingRunsOn
    BY DEF IInv, NothingRunsOn, ServedAreAwaited, Serving
  <2>4. QED BY <2>1, <2>2, <2>3 DEF NothingLeaks
<1>2. QED BY <1>1, HandlerInvariant, PTL

(* Whatever the layers do, and however late they open connections: one     *)
(* task holds the lock of server_event and the others queue for it at most *)
(* once, one handler drains, and the permits of the semaphore add up.      *)
THEOREM LocksAndPermits == Spec => [](LocksKept /\ PermitsKept)
<1>1. IInv => LocksKept /\ PermitsKept
  BY DEF IInv, LocksKept, InLine, Queued, Drains, Inside
<1>2. QED BY <1>1, HandlerInvariant, PTL

(* The hooks of a server connection and the answer to OpenConnection agree *)
(* on how the attempt to connect went, wherever it was cancelled.          *)
THEOREM AttemptsAreAccountedFor == Spec => []AttemptsAccountedFor
<1>1. IInv => AttemptsAccountedFor
  BY DEF IInv, AttemptsAccountedFor
<1>2. QED BY <1>1, HandlerInvariant, PTL

(* handle_connection does not close the socket of a server that layers may *)
(* still write to unless its handler was cancelled.                        *)
THEOREM HalfClosedStay == Spec => NoPrematureClose
<1> DEFINE Stays == \A c \in Servers : sock[c] = "open" /\ sock'[c] = "closed"
                      => state[c] = CLOSED \/ c \in cancels
           Closes == \/ UNCHANGED sock \/ ClientConnectHookEnds
                     \/ \E c \in Conns : \/ Connected(c) \/ ClosedHandled(c)
                                         \/ CancelledHalfClosed(c)
<1>1. ASSUME IInv, [Next]_vars
      PROVE  Stays
  <2> SUFFICES ASSUME NEW s \in Servers, sock[s] = "open", sock'[s] = "closed"
               PROVE  state[s] = CLOSED \/ s \in cancels
    OBVIOUS
  <2>0. /\ s \in Conns /\ s # client
        /\ sock \in [Conns -> {"none", "open", "closed"}]
        /\ state[s] \in SUBSET OPEN
    BY <1>1, TasksAreFinite DEF IInv, TypeOK
  <2>1. ASSUME NEW c \in Conns, CancelledHalfClosed(c)
        PROVE  s \in cancels
    BY <1>1, <2>1 DEF CancelledHalfClosed, CloseSocket, Told, IInv,
       PendingWereCancelled
  <2>2. ASSUME NEW c \in Conns, ClosedHandled(c)
        PROVE  state[s] = CLOSED
    <3>1. c = s /\ state[s] # {"W"} /\ event[s] = "closed" /\ holder = s
      BY <2>0, <2>2 DEF ClosedHandled, CloseSocket
    <3>2. pc[s] = "event"
      BY <1>1, <3>1 DEF IInv, Queued, Inside
    <3>3. "R" \notin state[s]
      BY <1>1, <3>1, <3>2 DEF IInv, ClosedCannotRead
    <3>4. QED BY <2>0, <3>1, <3>3 DEF OPEN, CLOSED
  <2>3. CASE UNCHANGED sock
    BY <2>3
  <2>4. ASSUME NEW c \in Conns, Connected(c)
        PROVE  FALSE
    BY <2>4 DEF Connected
  <2>5. ASSUME ClientConnectHookEnds
        PROVE  FALSE
    BY <2>0, <2>5 DEF ClientConnectHookEnds
  <2>6. Closes
    <3>1. CASE HandleClient
      BY <3>1 DEF HandleClient, ServeClient, ClientHandlerEnds,
         ClosingTransports, TransportsClosed
    <3>2. CASE Timeout
      BY <3>2 DEF Timeout
    <3>3. CASE Acquire
      BY <3>3 DEF Acquire
    <3>4. CASE Command
      BY <3>4 DEF Command, OpenConnection, SendData, CloseConnection, HalfClose,
         StartHook, RequestWakeup
    <3>5. CASE HookEnds \/ TimerFires \/ TaskHandled
      BY <3>5 DEF HookEnds, TimerFires, TaskHandled
    <3>6. ASSUME NEW c \in Conns, Open(c)
         PROVE  Closes
      BY <3>6 DEF Open, ConnectHookEnds, GetPermit, ConnectFails,
         OutcomeHookEnds, DisconnectHookEnds
    <3>7. ASSUME NEW c \in Conns, Peer(c) \/ Drain(c)
         PROVE  Closes
      BY <3>7 DEF Peer, ReadData, ReadEof, PeerReads, Drain, DrainBegins,
         DrainOne, DrainLost, DrainEnds
    <3>8. ASSUME NEW c \in Conns, Handled(c) \/ Cancelled(c)
         PROVE  Closes
      BY <3>8 DEF Handled, OpenConnectionAnswered, DataHandled, Cancelled,
         CancelledWhileOpening, CancelledConnecting, CancelledInQueue,
         CancelledReading
    <3>9. CASE UNCHANGED vars
      BY <3>9 DEF vars
    <3>10. QED
      BY <1>1, <3>1, <3>2, <3>3, <3>4, <3>5, <3>6, <3>7, <3>8, <3>9 DEF Next
  <2>7. QED BY <2>1, <2>2, <2>4, <2>5, <2>6
<1>2. Spec => []IInv
  BY HandlerInvariant
<1>3. QED BY <1>1, <1>2, PTL DEF Spec, NoPrematureClose
=============================================================================
