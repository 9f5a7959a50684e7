---------------------------- MODULE FlowSyncProofs ----------------------------
(***************************************************************************)
(* Proofs about FlowSync: whatever arrives, and in whatever order, the     *)
(* store of the web client stays consistent, and once all is delivered the *)
(* client holds and shows the flows of the server.                         *)
(***************************************************************************)
EXTENDS FlowSync, TLAPS, FiniteSetTheorems, SequenceTheorems, WellFoundedInduction

-----------------------------------------------------------------------------
(* The inductive invariant: the store.                                     *)

Orders == [column : BOOLEAN, desc : BOOLEAN]
Maps(S) == UNION {[D -> S] : D \in SUBSET Flows}
Stores ==
  [list : Seq(Item), listIndex : Maps(Nat), byId : Maps(Item),
   view : Seq(Item), viewIndex : Maps(Nat), sort : Orders,
   selected : Seq(Item), selectedIds : SUBSET Flows, highlightedIds : SUBSET Flows,
   resurrected : SUBSET Flows, swallowed : SUBSET Flows, revived : SUBSET Flows,
   linked : SUBSET Flows]

\* But for the flows in except, each has its one position.
Placed(index, data, except) ==
  \A i \in DOMAIN data :
    data[i].id \notin except => data[i].id \in DOMAIN index /\ index[data[i].id] = i

\* The list, its positions, and the flows by id.
ListOk(list, index, byId, except) ==
  /\ list \in Seq(Item) /\ index \in Maps(Nat) /\ byId \in Maps(Item)
  /\ Positioned(index, list) /\ Placed(index, list, except)
  /\ \A id \in DOMAIN byId : byId[id].id = id
  /\ \A i \in DOMAIN list : list[i].id \notin except =>
       list[i].id \in DOMAIN byId /\ byId[list[i].id] = list[i]
  /\ \A id \in DOMAIN byId \ except : id \in Ids(list)

Sorted(data, sort) ==
  \A i, j \in DOMAIN data : i < j => MakeSort(sort, data[i], data[j]) <= 0

ViewOk(view, index, sort, except) ==
  /\ view \in Seq(Item) /\ index \in Maps(Nat)
  /\ Positioned(index, view) /\ Placed(index, view, except) /\ Sorted(view, sort)

\* Those of data whose id is not in except are flows of the list as they are there.
Current(list, data, except) ==
  \A i \in DOMAIN data : data[i].id \notin except => data[i] \in ToSet(list)

\* But for the flows in except, nothing is there twice.
UniqueBut(data, except) ==
  \A i, j \in DOMAIN data : data[i].id = data[j].id /\ i # j => data[i].id \in except

StoreKept(s) ==
  /\ s \in Stores
  /\ ListOk(s.list, s.listIndex, s.byId, s.resurrected)
  /\ ViewOk(s.view, s.viewIndex, s.sort, s.resurrected)
  /\ Current(s.list, s.view, s.resurrected)
  /\ s.selectedIds = Ids(s.selected)
  /\ Current(s.list, s.selected, s.resurrected) /\ UniqueBut(s.selected, s.revived)
  /\ s.resurrected \subseteq s.revived

-----------------------------------------------------------------------------
(* The inductive invariant: what is on its way.                            *)

\* The answer of a filter names a flow once.
Names == {ids \in Seq(Flows) : \A i, j \in DOMAIN ids : ids[i] = ids[j] => i = j}

Messages ==
  [type : {"add", "update"}, flow : Item, matching : [FilterName -> Match]]
    \cup [type : {"remove"}, id : Flows]
    \cup [type : {"filterUpdate"}, name : FilterName, unset : BOOLEAN, ids : Names]
    \cup [type : {"reset"}]

Unique(data) == \A i, j \in DOMAIN data : data[i].id = data[j].id => i = j
Lists == {data \in Seq(Item) : Unique(data)}

Answers == {NotAnswered} \cup [answered : {TRUE}, flows : Lists]

\* Requests have their own ids, and the last of them is that of the fetch that counts.
FetchesKnown ==
  /\ requests \in SUBSET [id : Nat, response : Answers]
  /\ activeFetch \in [id : Nat, active : BOOLEAN, queue : Seq(Messages)]
  /\ \A r \in requests : r.id <= activeFetch.id
  /\ ~activeFetch.active => activeFetch.queue = << >>
  /\ \A i \in DOMAIN activeFetch.queue : activeFetch.queue[i].type # "reset"
  /\ inbox \in Seq(Messages)
  /\ socket = "connecting" =>
       /\ inbox = << >> /\ outbox = << >> /\ requests = {} /\ ~activeFetch.active
       /\ serverFilters = NoFilters

\* What has been pushed and not dispatched yet.
Pending == activeFetch.queue \o inbox

About(m, f) ==
  \/ m.type \in {"add", "update"} /\ m.flow.id = f
  \/ m.type = "remove" /\ m.id = f

\* A message that decides whether a filter matches a flow.
Touches(m, f, name) == About(m, f) \/ (m.type = "filterUpdate" /\ m.name = name)

\* After position n of q there is no reset.
Settled(q, n) == \A i \in DOMAIN q : i > n => q[i].type # "reset"
\* ... and no message about f, nor one that touches f.
Silent(q, n, f) == Settled(q, n) /\ \A i \in DOMAIN q : i > n => ~About(q[i], f)
Untouched(q, n, f, name) ==
  Settled(q, n) /\ \A i \in DOMAIN q : i > n => ~Touches(q[i], f, name)

\* In what follows the server had a list of flows, and force are the filters of the
\* connection.
Entry(data, f) == {g \in ToSet(data) : g.id = f}
Matches(had, f, expr) == \E g \in Entry(had, f) : g.v \in Accepts[expr]

Verdict(flow, expr) ==
  IF expr = NoFilter THEN "unset" ELSE IF flow.v \in Accepts[expr] THEN "yes" ELSE "no"

\* What m says of f, and of f and a filter, is so.
SaysOf(m, f, had) == IF m.type = "remove" THEN f \notin Ids(had) ELSE m.flow \in ToSet(had)
SaysBy(m, f, name, had, expr) ==
  /\ About(m, f) /\ m.type # "remove" => m.matching[name] = Verdict(m.flow, expr)
  /\ m.type = "filterUpdate" /\ m.name = name =>
       /\ m.unset <=> expr = NoFilter
       /\ ~m.unset => (f \in ToSet(m.ids) <=> Matches(had, f, expr))

\* What the last message says is what the server has.
LastTells(q, had, force) ==
  \A n \in DOMAIN q, f \in Flows :
    /\ About(q[n], f) /\ Silent(q, n, f) => SaysOf(q[n], f, had)
    /\ \A name \in FilterName :
         Untouched(q, n, f, name) => SaysBy(q[n], f, name, had, force[name])

\* A flow is added when it is not there: at first, or after its removal.
AddsFollow(q) ==
  \A m, n \in DOMAIN q, f \in Flows :
    (/\ m < n /\ About(q[m], f) /\ About(q[n], f) /\ q[n].type = "add"
     /\ \A i \in DOMAIN q : m < i /\ i < n => ~About(q[i], f) /\ q[i].type # "reset")
      => q[m].type = "remove"

\* Where the messages of q after the n-th start from: data has what they do not tell.
StartsFrom(data, q, n, f, had) ==
  /\ Silent(q, n, f) => Entry(data, f) = Entry(had, f)
  /\ \A m \in DOMAIN q :
       (/\ m > n /\ About(q[m], f) /\ q[m].type = "add" /\ Silent(q, m, f)
        /\ Settled(q, n) /\ \A i \in DOMAIN q : n < i /\ i < m => ~About(q[i], f))
         => Entry(data, f) \subseteq Entry(had, f)

\* ... and so has the view, and the highlighted flows.
ShownFrom(s, q, n, f, had, force) ==
  /\ Untouched(q, n, f, "search") =>
       (f \in Ids(s.view) <=>
          f \in Ids(had) /\ (force["search"] = NoFilter \/ Matches(had, f, force["search"])))
  /\ (/\ Untouched(q, n, f, "highlight") /\ force["highlight"] # NoFilter
      /\ Matches(had, f, force["highlight"])) => f \in s.highlightedIds

\* The store, before the messages of q after the n-th are dispatched.
InStep(s, q, n, had, force) ==
  /\ \A f \in Flows \ s.resurrected : StartsFrom(s.list, q, n, f, had)
  /\ \A f \in Flows \ (s.resurrected \cup s.swallowed) : ShownFrom(s, q, n, f, had, force)

\* A filter that is set will be applied to the answer of a fetch.
FiltersFollow(q, force) ==
  \A name \in FilterName : force[name] # NoFilter =>
    \E n \in DOMAIN q : q[n].type = "filterUpdate" /\ q[n].name = name /\ Settled(q, n)

\* The messages q of the server are in touch with it, and so is what the client has.
Synced(q, had, force, store, fetch, asked) ==
  /\ LastTells(q, had, force) /\ AddsFollow(q)
  /\ fetch.active => \A r \in asked :
       r.id = fetch.id /\ r.response # NotAnswered =>
         \A f \in Flows : StartsFrom(r.response.flows, q, 0, f, had)
  /\ ~fetch.active => InStep(store, q, 0, had, force)

InTouch ==
  socket = "open" =>
    /\ Synced(Pending, served, serverFilters, flows, activeFetch, requests)
    /\ activeFetch.active \/ ~Settled(Pending, 0) => FiltersFollow(Pending, serverFilters)

\* Of the filters on their way, the last one of a name is the one to be in force.
LastSent(queue, force, wanted) ==
  \A name \in FilterName :
    /\ (\A i \in DOMAIN queue : queue[i].name # name) => force[name] = wanted[name]
    /\ \A n \in DOMAIN queue :
         queue[n].name = name /\ (\A i \in DOMAIN queue : i > n => queue[i].name # name)
           => queue[n].expr = wanted[name]

Filters == [FilterName -> {NoFilter} \cup Exprs]
Wishes == [name : FilterName, expr : {NoFilter} \cup Exprs]

FiltersSent ==
  /\ filter \in Filters /\ filterState \in Filters /\ serverFilters \in Filters
  /\ outbox \in Seq(Wishes) /\ messageQueue \in Seq(Wishes)
  /\ socket = "open" => filterState = filter /\ LastSent(outbox, serverFilters, filterState)
  /\ socket = "connecting" => LastSent(messageQueue, serverFilters, filterState)

ServerKept ==
  /\ served \in Lists
  /\ socket \in {"connecting", "open", "closed"}
  /\ awaited \subseteq {"flows", "others"}
  /\ connection \in {"INIT", "FETCHING", "ESTABLISHED", "ERROR"}

SInv == ServerKept /\ StoreKept(flows) /\ FetchesKnown /\ InTouch /\ FiltersSent
-----------------------------------------------------------------------------
(* Natural numbers: the least one of a set, the greatest, and induction.   *)

LEMMA Least ==
  ASSUME NEW P \in SUBSET Nat, P # {}
  PROVE  \E m \in P : \A k \in P : m <= k
<1> DEFINE Less == {p \in Nat \X Nat : p[1] < p[2]}
<1>1. IsWellFoundedOn(Less, Nat)
  BY NatLessThanWellFounded DEF OpToRel
<1> HIDE DEF Less
<1>2. PICK m \in P : \A k \in P : ~(<<k, m>> \in Less)
  <2>1. PICK R : R = Less
    OBVIOUS
  <2>2. \E m \in P : \A k \in P : ~(<<k, m>> \in R)
    BY <1>1, <2>1, WFMin
  <2>3. QED
    BY <2>1, <2>2
<1>3. ASSUME NEW k \in P PROVE m <= k
  <2>1. m \in Nat /\ k \in Nat /\ ~(<<k, m>> \in Less)
    BY <1>2
  <2>2. (<<k, m>> \in Less) <=> k < m
    BY <2>1 DEF Less
  <2>3. QED
    BY <2>1, <2>2
<1>4. QED
  BY <1>3

LEMMA Greatest ==
  ASSUME NEW P \in SUBSET Nat, P # {}, NEW n \in Nat, \A k \in P : k <= n
  PROVE  \E m \in P : \A k \in P : k <= m
<1> DEFINE Q == {d \in Nat : n - d \in P}
<1>1. Q \in SUBSET Nat /\ Q # {}
  <2>1. PICK k \in P : TRUE
    OBVIOUS
  <2>2. n - k \in Nat /\ n - (n - k) = k
    OBVIOUS
  <2>3. QED
    BY <2>1, <2>2
<1>2. PICK d \in Q : \A e \in Q : d <= e
  BY <1>1, Least
<1>3. ASSUME NEW k \in P PROVE k <= n - d
  <2>1. n - k \in Nat /\ n - (n - k) = k
    OBVIOUS
  <2>2. d <= n - k
    BY <1>2, <2>1
  <2>3. QED
    BY <2>2
<1>4. QED
  BY <1>3

LEMMA Induct ==
  ASSUME NEW P \in SUBSET Nat, 0 \in P, \A n \in P : n + 1 \in P
  PROVE  P = Nat
<1>1. SUFFICES ASSUME Nat \ P # {} PROVE FALSE
  OBVIOUS
<1>2. PICK m \in Nat \ P : \A k \in Nat \ P : m <= k
  BY <1>1, Least
<1>3. m # 0 /\ m - 1 \in Nat
  BY <1>2
<1>4. QED
  BY <1>2, <1>3

-----------------------------------------------------------------------------
(* A finite set in a strict order: the number of what comes before an element *)
(* numbers them all.                                                       *)

Ranked(K, R) == [i \in K |-> 1 + Cardinality({j \in K : <<j, i>> \in R})]

Ordering(K, R) ==
  /\ \A i \in K : <<i, i>> \notin R
  /\ \A i, j, k \in K : <<i, j>> \in R /\ <<j, k>> \in R => <<i, k>> \in R
  /\ \A i, j \in K : i # j => <<i, j>> \in R \/ <<j, i>> \in R

\* In a finite strict order, one more than the number of predecessors is a position.
LEMMA RanksAreNumbers ==
  ASSUME NEW K, IsFiniteSet(K), NEW R, Ordering(K, R)
  PROVE  /\ Cardinality(K) \in Nat
         /\ Ranked(K, R) \in Bijection(K, 1..Cardinality(K))
         /\ \A i, j \in K : <<i, j>> \in R <=> Ranked(K, R)[i] < Ranked(K, R)[j]
<1> DEFINE n == Cardinality(K)
           Ahead(i) == {j \in K : <<j, i>> \in R}
           r == Ranked(K, R)
<1>1. n \in Nat /\ IsFiniteSet(1..n) /\ Cardinality(1..n) = n
  <2>1. n \in Nat
    BY FS_CardinalityType
  <2>2. QED
    BY <2>1, FS_Interval
<1>2. ASSUME NEW i \in K
      PROVE  /\ IsFiniteSet(Ahead(i)) /\ Cardinality(Ahead(i)) \in Nat
             /\ Cardinality(Ahead(i)) < n
  <2>1. Ahead(i) \in SUBSET (K \ {i})
    BY DEF Ordering
  <2>2. IsFiniteSet(K \ {i}) /\ Cardinality(K \ {i}) = n - 1
    BY FS_RemoveElement
  <2>3. IsFiniteSet(Ahead(i)) /\ Cardinality(Ahead(i)) <= Cardinality(K \ {i})
    <3> HIDE DEF Ahead
    <3>1. QED
      BY <2>1, <2>2, FS_Subset
  <2>4. Cardinality(Ahead(i)) \in Nat
    BY <2>3, FS_CardinalityType
  <2>5. QED
    BY <1>1, <2>2, <2>3, <2>4
<1>3. ASSUME NEW i \in K, NEW j \in K, <<i, j>> \in R
      PROVE  Cardinality(Ahead(i)) < Cardinality(Ahead(j))
  <2>1. Ahead(i) \in SUBSET Ahead(j) /\ i \in Ahead(j) /\ i \notin Ahead(i)
    BY <1>3 DEF Ordering
  <2>2. Cardinality(Ahead(i)) <= Cardinality(Ahead(j)) /\ Cardinality(Ahead(j)) # Cardinality(Ahead(i))
    <3>1. IsFiniteSet(Ahead(j))
      BY <1>2
    <3>2. PICK T : T = Ahead(i)
      OBVIOUS
    <3>3. PICK S : S = Ahead(j)
      OBVIOUS
    <3>4. S # T /\ T \in SUBSET S /\ IsFiniteSet(S)
      BY <2>1, <3>1, <3>2, <3>3
    <3>5. Cardinality(T) <= Cardinality(S) /\ Cardinality(S) # Cardinality(T)
      BY <3>4, FS_Subset
    <3>6. QED
      BY <3>2, <3>3, <3>5
  <2>3. Cardinality(Ahead(i)) \in Nat /\ Cardinality(Ahead(j)) \in Nat
    BY <1>2
  <2> HIDE DEF Ahead
  <2>4. QED
    BY <2>2, <2>3
<1>4. \A i \in K : r[i] = 1 + Cardinality(Ahead(i))
  BY DEF Ranked
<1>5. r \in [K -> 1..n]
  <2>1. ASSUME NEW i \in K PROVE 1 + Cardinality(Ahead(i)) \in 1..n
    <3> HIDE DEF Ahead, n
    <3>1. QED
      BY <1>1, <1>2
  <2>2. QED
    BY <2>1 DEF Ranked
<1>6. \A i, j \in K : <<i, j>> \in R => r[i] < r[j]
  <2> SUFFICES ASSUME NEW i \in K, NEW j \in K, <<i, j>> \in R PROVE r[i] < r[j]
    OBVIOUS
  <2>1. /\ Cardinality(Ahead(i)) \in Nat /\ Cardinality(Ahead(j)) \in Nat
        /\ Cardinality(Ahead(i)) < Cardinality(Ahead(j))
    BY <1>2, <1>3
  <2>2. r[i] = 1 + Cardinality(Ahead(i)) /\ r[j] = 1 + Cardinality(Ahead(j))
    BY <1>4
  <2> HIDE DEF r, Ahead
  <2>3. QED
    BY <2>1, <2>2
<1> HIDE DEF r, n
<1>7. \A i, j \in K : r[i] < r[j] => <<i, j>> \in R
  <2> SUFFICES ASSUME NEW i \in K, NEW j \in K, r[i] < r[j], <<i, j>> \notin R PROVE FALSE
    OBVIOUS
  <2>1. r[i] \in Int /\ r[j] \in Int
    BY <1>1, <1>5
  <2>2. i # j
    BY <2>1
  <2>3. <<j, i>> \in R
    BY <2>2 DEF Ordering
  <2>4. QED
    BY <1>6, <2>1, <2>3
<1>8. r \in Injection(K, 1..n)
  <2> SUFFICES ASSUME NEW i \in K, NEW j \in K, r[i] = r[j], i # j PROVE FALSE
    BY <1>5 DEF Injection, IsInjective
  <2>1. r[i] \in Int /\ r[j] \in Int
    BY <1>1, <1>5
  <2>2. <<i, j>> \in R \/ <<j, i>> \in R
    BY DEF Ordering
  <2>3. QED
    BY <1>6, <2>1, <2>2
<1>9. r \in Surjection(K, 1..n)
  BY <1>1, <1>8, FS_Injection DEF n
<1>10. QED
  BY <1>1, <1>6, <1>7, <1>8, <1>9 DEF Bijection, r, n

-----------------------------------------------------------------------------
(* Filtering and sorting rearrange a sequence.                             *)

\* t has what data has at the positions in kept, in some order.
Rearranges(t, data, kept) ==
  /\ \A i \in DOMAIN t : \E a \in kept : t[i] = data[a]
  /\ \A a \in kept : \E i \in DOMAIN t : t[i] = data[a]
  /\ \A i, j \in DOMAIN t : i # j =>
       \E a, b \in kept : a # b /\ t[i] = data[a] /\ t[j] = data[b]

\* f numbers the positions K of data, and t has them in the order of their numbers.
Numbers(S, data, K, n, f, at, t) ==
  /\ data \in Seq(S) /\ K \in SUBSET DOMAIN data /\ n \in Nat /\ f \in Bijection(K, 1..n)
  /\ at \in [1..n -> K] /\ \A r \in 1..n : f[at[r]] = r
  /\ t \in [1..n -> S] /\ \A r \in 1..n : t[r] = data[at[r]]

LEMMA Numbered ==
  ASSUME NEW S, NEW data, NEW K, NEW n, NEW f, NEW at, NEW t,
         Numbers(S, data, K, n, f, at, t)
  PROVE  t \in Seq(S) /\ Len(t) = n /\ DOMAIN t = 1..n /\ Rearranges(t, data, K)
<1>1. /\ data \in Seq(S) /\ K \in SUBSET DOMAIN data /\ n \in Nat /\ f \in Bijection(K, 1..n)
      /\ at \in [1..n -> K] /\ \A r \in 1..n : f[at[r]] = r
      /\ t \in [1..n -> S] /\ \A r \in 1..n : t[r] = data[at[r]]
  BY DEF Numbers
<1>2. DOMAIN t = 1..n /\ \A r \in 1..n : t[r] = data[at[r]] /\ at[r] \in K
  BY <1>1
<1>4. t \in Seq(S) /\ Len(t) = n
  BY <1>1
<1>5. \A i \in DOMAIN t : \E a \in K : t[i] = data[a]
  BY <1>2
<1>6. ASSUME NEW a \in K PROVE \E i \in DOMAIN t : t[i] = data[a]
  <2>1. f \in [K -> 1..n] /\ (\A x, y \in K : f[x] = f[y] => x = y)
    BY <1>1 DEF Bijection, Injection, IsInjective
  <2>2. f[a] \in 1..n
    BY <2>1
  <2>3. at[f[a]] = a
    BY <1>1, <2>1, <2>2
  <2>4. QED
    BY <1>1, <1>2, <2>2, <2>3
<1>7. ASSUME NEW i \in DOMAIN t, NEW j \in DOMAIN t, i # j
      PROVE  \E a, b \in K : a # b /\ t[i] = data[a] /\ t[j] = data[b]
  <2>1. at[i] # at[j]
    BY <1>1, <1>2, <1>7
  <2>2. QED
    BY <1>2, <2>1
<1>8. QED
  BY <1>2, <1>4, <1>5, <1>6, <1>7 DEF Rearranges

\* What is kept of a sequence (Array.prototype.filter) is there once, in the order it had.
LEMMA KeptRearranges ==
  ASSUME NEW S, NEW data \in Seq(S), NEW kept \in SUBSET DOMAIN data
  PROVE  Kept(data, kept) \in Seq(S) /\ Rearranges(Kept(data, kept), data, kept)
<1> DEFINE R == {p \in kept \X kept : p[1] < p[2]}
           n == Cardinality(kept)
           Rank(i) == Cardinality({j \in kept : j <= i})
           At(r) == CHOOSE i \in kept : Rank(i) = r
           at == [r \in 1..n |-> At(r)]
           t == [r \in 1..n |-> data[At(r)]]
           f == Ranked(kept, R)
<1>1. Len(data) \in Nat /\ DOMAIN data = 1..Len(data)
  BY LenProperties
<1>2. kept \in SUBSET Nat /\ IsFiniteSet(kept)
  <2>1. IsFiniteSet(1..Len(data))
    BY <1>1, FS_Interval
  <2>2. QED
    BY <1>1, <2>1, FS_Subset
<1>3. Ordering(kept, R)
  <2>1. \A i, j \in kept : <<i, j>> \in R <=> i < j
    OBVIOUS
  <2> HIDE DEF R
  <2>2. QED
    BY <1>2, <2>1 DEF Ordering
<1>4. n \in Nat /\ f \in Bijection(kept, 1..n)
  <2> HIDE DEF R
  <2>1. QED
    BY <1>2, <1>3, RanksAreNumbers
<1>5. ASSUME NEW i \in kept PROVE f[i] = Rank(i)
  <2> DEFINE A == {j \in kept : <<j, i>> \in R}
  <2>1. Rank(i) = Cardinality(A \cup {i}) /\ i \notin A
    <3>1. {j \in kept : j <= i} = A \cup {i} /\ i \notin A
      BY <1>2
    <3>2. QED
      BY <3>1
  <2>2. IsFiniteSet(A) /\ A \in SUBSET kept
    BY <1>2, FS_Subset
  <2>3. Cardinality(A) \in Nat
    BY <2>2, FS_CardinalityType
  <2>4. f[i] = 1 + Cardinality(A)
    BY DEF Ranked
  <2> HIDE DEF A, Rank
  <2>5. Cardinality(A \cup {i}) = Cardinality(A) + 1
    BY <2>1, <2>2, FS_AddElement
  <2>6. QED
    BY <2>1, <2>3, <2>4, <2>5
<1>6. ASSUME NEW r \in 1..n PROVE At(r) \in kept /\ f[At(r)] = r
  <2>1. \E i \in kept : f[i] = r
    BY <1>4 DEF Bijection, Surjection
  <2> HIDE DEF f
  <2>2. \E i \in kept : Rank(i) = r
    BY <1>5, <2>1
  <2> HIDE DEF Rank
  <2>3. At(r) \in kept /\ Rank(At(r)) = r
    BY <2>2
  <2>4. QED
    BY <1>5, <2>3
<1>7. Kept(data, kept) = t
  BY DEF Kept
<1> HIDE DEF At
<1>8. at \in [1..n -> kept] /\ \A r \in 1..n : at[r] = At(r)
  BY <1>6
<1>9. t \in [1..n -> S] /\ \A r \in 1..n : t[r] = data[at[r]]
  BY <1>1, <1>8, ElementOfSeq
<1> HIDE DEF at, t, n, f
<1>10. \A r \in 1..n : f[at[r]] = r
  BY <1>6, <1>8
<1>11. Numbers(S, data, kept, n, f, at, t)
  BY <1>4, <1>8, <1>9, <1>10 DEF Numbers
<1>12. QED
  BY <1>7, <1>11, Numbered

\* What MakeSort says of any three flows.
LEMMA Compares ==
  ASSUME NEW sort \in Orders, NEW a \in Item, NEW b \in Item, NEW c \in Item
  PROVE  /\ MakeSort(sort, a, b) \in {-1, 0, 1}
         /\ MakeSort(sort, a, a) = 0
         /\ MakeSort(sort, a, b) < 0 <=> MakeSort(sort, b, a) > 0
         /\ MakeSort(sort, a, b) > 0 <=> MakeSort(sort, b, a) < 0
         /\ MakeSort(sort, a, b) <= 0 /\ MakeSort(sort, b, c) <= 0 =>
              MakeSort(sort, a, c) <= 0
         /\ MakeSort(sort, a, b) < 0 /\ MakeSort(sort, b, c) <= 0 =>
              MakeSort(sort, a, c) < 0
         /\ MakeSort(sort, a, b) <= 0 /\ MakeSort(sort, b, c) < 0 =>
              MakeSort(sort, a, c) < 0
<1> DEFINE av == a.v
           bv == b.v
           cv == c.v
           on == sort.column
           desc == sort.desc
<1>1. av \in Int /\ bv \in Int /\ cv \in Int /\ on \in BOOLEAN /\ desc \in BOOLEAN
  BY FlowStoreAssumption DEF Item, Orders
<1>2. /\ MakeSort(sort, a, b) = IF ~on \/ av = bv THEN 0 ELSE IF (av > bv) = desc THEN -1 ELSE 1
      /\ MakeSort(sort, b, a) = IF ~on \/ bv = av THEN 0 ELSE IF (bv > av) = desc THEN -1 ELSE 1
      /\ MakeSort(sort, b, c) = IF ~on \/ bv = cv THEN 0 ELSE IF (bv > cv) = desc THEN -1 ELSE 1
      /\ MakeSort(sort, a, c) = IF ~on \/ av = cv THEN 0 ELSE IF (av > cv) = desc THEN -1 ELSE 1
      /\ MakeSort(sort, a, a) = IF ~on \/ av = av THEN 0 ELSE IF (av > av) = desc THEN -1 ELSE 1
  BY DEF MakeSort
<1> HIDE DEF av, bv, cv, on, desc
<1>3. CASE ~on
  BY <1>2, <1>3
<1>4. CASE on /\ desc
  <2>1. /\ MakeSort(sort, a, b) = IF av = bv THEN 0 ELSE IF av > bv THEN -1 ELSE 1
        /\ MakeSort(sort, b, a) = IF bv = av THEN 0 ELSE IF bv > av THEN -1 ELSE 1
        /\ MakeSort(sort, b, c) = IF bv = cv THEN 0 ELSE IF bv > cv THEN -1 ELSE 1
        /\ MakeSort(sort, a, c) = IF av = cv THEN 0 ELSE IF av > cv THEN -1 ELSE 1
        /\ MakeSort(sort, a, a) = 0
    BY <1>1, <1>2, <1>4
  <2>2. QED
    BY <1>1, <2>1
<1>5. CASE on /\ ~desc
  <2>1. /\ MakeSort(sort, a, b) = IF av = bv THEN 0 ELSE IF av > bv THEN 1 ELSE -1
        /\ MakeSort(sort, b, a) = IF bv = av THEN 0 ELSE IF bv > av THEN 1 ELSE -1
        /\ MakeSort(sort, b, c) = IF bv = cv THEN 0 ELSE IF bv > cv THEN 1 ELSE -1
        /\ MakeSort(sort, a, c) = IF av = cv THEN 0 ELSE IF av > cv THEN 1 ELSE -1
        /\ MakeSort(sort, a, a) = 0
    BY <1>1, <1>2, <1>5
  <2>2. QED
    BY <1>1, <2>1
<1>6. QED
  BY <1>1, <1>3, <1>4, <1>5

\* toSorted (ducks/flows/_compat.ts) keeps what is there, and sorts it.
LEMMA ToSortedRearranges ==
  ASSUME NEW data \in Seq(Item), NEW sort \in Orders
  PROVE  /\ ToSorted(data, sort) \in Seq(Item)
         /\ Rearranges(ToSorted(data, sort), data, DOMAIN data)
         /\ Sorted(ToSorted(data, sort), sort)
<1> DEFINE K == DOMAIN data
           Before(j, i) == \/ MakeSort(sort, data[j], data[i]) < 0
                           \/ MakeSort(sort, data[j], data[i]) = 0 /\ j < i
           R == {p \in K \X K : Before(p[1], p[2])}
           n == Cardinality(K)
           Rank(i) == 1 + Cardinality({j \in K : Before(j, i)})
           At(r) == CHOOSE i \in K : Rank(i) = r
           at == [r \in 1..n |-> At(r)]
           t == [r \in K |-> data[At(r)]]
           f == Ranked(K, R)
<1>1. Len(data) \in Nat /\ K = 1..Len(data) /\ \A i \in K : data[i] \in Item
  BY LenProperties, ElementOfSeq
<1>2. K \in SUBSET Nat /\ IsFiniteSet(K) /\ n = Len(data) /\ K = 1..n
  <2>1. IsFiniteSet(1..Len(data)) /\ Cardinality(1..Len(data)) = Len(data)
    BY <1>1, FS_Interval
  <2>2. QED
    BY <1>1, <2>1
<1>3. \A i, j \in K : <<i, j>> \in R <=> Before(i, j)
  OBVIOUS
<1>4. Ordering(K, R)
  <2> HIDE DEF R
  <2>1. ASSUME NEW i \in K PROVE ~Before(i, i)
    <3>1. MakeSort(sort, data[i], data[i]) = 0
      BY <1>1, Compares
    <3>2. QED
      BY <1>2, <3>1
  <2>2. ASSUME NEW i \in K, NEW j \in K, NEW k \in K, Before(i, j), Before(j, k)
        PROVE  Before(i, k)
    <3> DEFINE x == MakeSort(sort, data[i], data[j])
               y == MakeSort(sort, data[j], data[k])
               z == MakeSort(sort, data[i], data[k])
    <3>1. /\ x \in {-1, 0, 1} /\ y \in {-1, 0, 1} /\ z \in {-1, 0, 1}
          /\ (x <= 0 /\ y <= 0 => z <= 0) /\ (x < 0 /\ y <= 0 => z < 0) /\ (x <= 0 /\ y < 0 => z < 0)
      BY <1>1, Compares
    <3>2. (x < 0 \/ (x = 0 /\ i < j)) /\ (y < 0 \/ (y = 0 /\ j < k)) /\ i \in Nat /\ j \in Nat /\ k \in Nat
      BY <1>2, <2>2
    <3> HIDE DEF x, y, z
    <3>3. z < 0 \/ (z = 0 /\ i < k)
      BY <3>1, <3>2
    <3>4. QED
      BY <3>3 DEF z
  <2>3. ASSUME NEW i \in K, NEW j \in K, i # j PROVE Before(i, j) \/ Before(j, i)
    <3> DEFINE x == MakeSort(sort, data[i], data[j])
               y == MakeSort(sort, data[j], data[i])
    <3>1. x \in {-1, 0, 1} /\ y \in {-1, 0, 1} /\ (x < 0 <=> y > 0) /\ (x > 0 <=> y < 0)
      BY <1>1, Compares
    <3>2. i \in Nat /\ j \in Nat
      BY <1>2
    <3> HIDE DEF x, y
    <3>3. (x < 0 \/ (x = 0 /\ i < j)) \/ (y < 0 \/ (y = 0 /\ j < i))
      BY <2>3, <3>1, <3>2
    <3>4. QED
      BY <3>3 DEF x, y
  <2> HIDE DEF Before
  <2>4. QED
    BY <1>3, <2>1, <2>2, <2>3 DEF Ordering
<1>5. /\ n \in Nat /\ f \in Bijection(K, 1..n)
      /\ \A i, j \in K : <<i, j>> \in R <=> f[i] < f[j]
  <2> HIDE DEF R
  <2>1. QED
    BY <1>2, <1>4, RanksAreNumbers
<1>6. ASSUME NEW i \in K PROVE f[i] = Rank(i)
  <2>1. f[i] = 1 + Cardinality({j \in K : <<j, i>> \in R})
    BY DEF Ranked
  <2>2. {j \in K : <<j, i>> \in R} = {j \in K : Before(j, i)}
    <3> HIDE DEF Before, R
    <3>1. QED
      BY <1>3
  <2>3. QED
    BY <2>1, <2>2
<1>7. ASSUME NEW r \in 1..n PROVE At(r) \in K /\ f[At(r)] = r
  <2>1. \E i \in K : f[i] = r
    BY <1>5 DEF Bijection, Surjection
  <2> HIDE DEF f
  <2>2. \E i \in K : Rank(i) = r
    BY <1>6, <2>1
  <2> HIDE DEF Rank
  <2>3. At(r) \in K /\ Rank(At(r)) = r
    BY <2>2
  <2>4. QED
    BY <1>6, <2>3
<1>8. ToSorted(data, sort) = t
  BY DEF ToSorted
<1> HIDE DEF At
<1>9. at \in [1..n -> K] /\ \A r \in 1..n : at[r] = At(r)
  BY <1>7
<1>10. t \in [1..n -> Item] /\ \A r \in 1..n : t[r] = data[at[r]]
  BY <1>1, <1>2, <1>9
<1> HIDE DEF at, t, n, f
<1>11. \A r \in 1..n : f[at[r]] = r
  BY <1>7, <1>9
<1>12. Numbers(Item, data, K, n, f, at, t)
  BY <1>5, <1>9, <1>10, <1>11 DEF Numbers
<1>13. t \in Seq(Item) /\ DOMAIN t = 1..n /\ Rearranges(t, data, K)
  BY <1>12, Numbered
<1>14. ASSUME NEW i \in 1..n, NEW j \in 1..n, i < j PROVE MakeSort(sort, t[i], t[j]) <= 0
  <2>1. at[i] \in K /\ at[j] \in K /\ f[at[i]] < f[at[j]]
    BY <1>9, <1>11, <1>14
  <2>2. <<at[i], at[j]>> \in R
    BY <1>5, <2>1
  <2>3. Before(at[i], at[j])
    BY <1>3, <2>1, <2>2
  <2>4. MakeSort(sort, data[at[i]], data[at[j]]) \in {-1, 0, 1}
    BY <1>1, <2>1, Compares
  <2>5. MakeSort(sort, data[at[i]], data[at[j]]) <= 0
    BY <2>3, <2>4
  <2>6. QED
    BY <1>10, <2>5
<1>15. Sorted(t, sort)
  BY <1>13, <1>14 DEF Sorted
<1>16. QED
  BY <1>8, <1>13, <1>15

-----------------------------------------------------------------------------
(* Positions: how they are built, and written again after a change.        *)

LEMMA MapsAre ==
  ASSUME NEW S, NEW m
  PROVE  m \in Maps(S) <=> DOMAIN m \in SUBSET Flows /\ m \in [DOMAIN m -> S]
BY DEF Maps

LEMMA Data ==
  ASSUME NEW data \in Seq(Item)
  PROVE  /\ Len(data) \in Nat /\ DOMAIN data = 1..Len(data)
         /\ \A i \in DOMAIN data : /\ i \in Nat /\ i >= 1 /\ i <= Len(data)
                                   /\ data[i] \in Item /\ data[i].id \in Flows
         /\ Ids(data) \in SUBSET Flows /\ ToSet(data) \in SUBSET Item
<1>1. Len(data) \in Nat /\ DOMAIN data = 1..Len(data) /\ \A i \in DOMAIN data : data[i] \in Item
  BY LenProperties, ElementOfSeq
<1>2. \A g \in Item : g.id \in Flows
  BY DEF Item
<1>3. QED
  BY <1>1, <1>2 DEF Ids, ToSet

LEMMA PlacedIsUnique ==
  ASSUME NEW data, NEW index, NEW except, Placed(index, data, except)
  PROVE  UniqueBut(data, except)
BY DEF Placed, UniqueBut

LEMMA Built ==
  ASSUME NEW data \in Seq(Item), NEW except, UniqueBut(data, except)
  PROVE  /\ BuildIndex(data) \in Maps(Nat) /\ DOMAIN BuildIndex(data) = Ids(data)
         /\ Positioned(BuildIndex(data), data) /\ Placed(BuildIndex(data), data, except)
<1> DEFINE b == BuildIndex(data)
           Latest(k) == CHOOSE i \in DOMAIN data :
                          data[i].id = k /\ \A j \in DOMAIN data : data[j].id = k => j <= i
<1>1. DOMAIN b = Ids(data) /\ \A k \in Ids(data) : b[k] = Latest(k)
  BY DEF BuildIndex
<1>2. ASSUME NEW k \in Ids(data) PROVE Latest(k) \in DOMAIN data /\ data[Latest(k)].id = k
  <2> DEFINE P == {i \in DOMAIN data : data[i].id = k}
  <2>1. P \in SUBSET Nat /\ P # {} /\ (\A i \in P : i <= Len(data)) /\ Len(data) \in Nat
    BY Data DEF Ids
  <2>2. \E i \in P : \A j \in P : j <= i
    <3> HIDE DEF P
    <3>1. QED
      BY <2>1, Greatest
  <2>3. \E i \in DOMAIN data :
           data[i].id = k /\ \A j \in DOMAIN data : data[j].id = k => j <= i
    BY <2>2
  <2>4. QED
    BY <2>3
<1> HIDE DEF b, Latest
<1>3. \A k \in DOMAIN b : b[k] \in DOMAIN data /\ data[b[k]].id = k
  BY <1>1, <1>2
<1>4. b \in Maps(Nat)
  <2>1. b = [k \in Ids(data) |-> b[k]]
    BY DEF b, BuildIndex
  <2>2. \A k \in Ids(data) : b[k] \in Nat
    BY <1>1, <1>3, Data
  <2>3. b \in [Ids(data) -> Nat] /\ Ids(data) \in SUBSET Flows
    BY <2>1, <2>2, Data
  <2>4. QED
    BY <1>1, <2>3, MapsAre
<1>5. Positioned(b, data)
  BY <1>3 DEF Positioned
<1>6. Placed(b, data, except)
  <2> SUFFICES ASSUME NEW i \in DOMAIN data, data[i].id \notin except
               PROVE  data[i].id \in DOMAIN b /\ b[data[i].id] = i
    BY DEF Placed
  <2>1. data[i].id \in DOMAIN b
    BY <1>1 DEF Ids
  <2>2. b[data[i].id] \in DOMAIN data /\ data[b[data[i].id]].id = data[i].id
    BY <1>3, <2>1
  <2>3. QED
    BY <2>1, <2>2 DEF UniqueBut
<1>7. QED
  BY <1>1, <1>4, <1>5, <1>6 DEF b

\* The positions from..to are new, the others were right before.
LEMMA Reindexing ==
  ASSUME NEW index \in Maps(Nat), NEW view \in Seq(Item), NEW from \in Nat, NEW to \in Nat,
         NEW except, UniqueBut(view, except), from >= 1, to <= Len(view),
         \A k \in DOMAIN index :
           \/ \E i \in from..to : view[i].id = k
           \/ index[k] \in DOMAIN view /\ view[index[k]].id = k,
         \A j \in DOMAIN view : j \notin from..to /\ view[j].id \notin except =>
           view[j].id \in DOMAIN index /\ index[view[j].id] = j
  PROVE  /\ Reindexed(index, view, from, to) \in Maps(Nat)
         /\ Positioned(Reindexed(index, view, from, to), view)
         /\ Placed(Reindexed(index, view, from, to), view, except)
<1> DEFINE moved == {view[i].id : i \in from..to}
           At(k) == CHOOSE i \in from..to : view[i].id = k
           x == Reindexed(index, view, from, to)
<1>1. \A i \in from..to : i \in DOMAIN view
  BY Data
<1>2. ASSUME NEW k \in moved PROVE At(k) \in from..to /\ view[At(k)].id = k
  <2>1. \E i \in from..to : view[i].id = k
    OBVIOUS
  <2>2. QED
    BY <2>1
<1>3. /\ DOMAIN x = DOMAIN index \cup moved
      /\ \A k \in DOMAIN x : x[k] = IF k \in moved THEN At(k) ELSE index[k]
      /\ x = [k \in DOMAIN x |-> x[k]]
  BY DEF Reindexed
<1>4. \A k \in moved : k \in Flows
  BY <1>1, Data
<1>5. DOMAIN index \in SUBSET Flows /\ \A k \in DOMAIN index : index[k] \in Nat
  BY MapsAre
<1> HIDE DEF x, At
<1>6. \A k \in DOMAIN x : x[k] \in DOMAIN view /\ view[x[k]].id = k
  <2> SUFFICES ASSUME NEW k \in DOMAIN x PROVE x[k] \in DOMAIN view /\ view[x[k]].id = k
    OBVIOUS
  <2>1. CASE k \in moved
    BY <1>1, <1>2, <1>3, <2>1
  <2>2. CASE k \notin moved
    <3>1. k \in DOMAIN index /\ x[k] = index[k] /\ ~\E i \in from..to : view[i].id = k
      BY <1>3, <2>2
    <3>2. QED
      BY <3>1
  <2>3. QED
    BY <2>1, <2>2
<1>7. x \in Maps(Nat)
  <2>1. DOMAIN x \in SUBSET Flows
    BY <1>3, <1>4, <1>5
  <2>2. \A k \in DOMAIN x : x[k] \in Nat
    BY <1>6, Data
  <2>3. x \in [DOMAIN x -> Nat]
    BY <1>3, <2>2
  <2>4. QED
    BY <2>1, <2>3, MapsAre
<1>8. Placed(x, view, except)
  <2> SUFFICES ASSUME NEW j \in DOMAIN view, view[j].id \notin except
               PROVE  view[j].id \in DOMAIN x /\ x[view[j].id] = j
    BY DEF Placed
  <2>1. view[j].id \in DOMAIN x
    BY <1>3
  <2>2. x[view[j].id] \in DOMAIN view /\ view[x[view[j].id]].id = view[j].id
    BY <1>6, <2>1
  <2>3. QED
    BY <2>1, <2>2 DEF UniqueBut
<1>9. QED
  BY <1>6, <1>7, <1>8 DEF Positioned, x

\* One item is taken out of a sequence ...
LEMMA TakenOut ==
  ASSUME NEW S, NEW s \in Seq(S), NEW i \in DOMAIN s
  PROVE  /\ RemoveAt(s, i) \in Seq(S) /\ Len(RemoveAt(s, i)) = Len(s) - 1
         /\ Len(s) \in Nat /\ i \in 1..Len(s) /\ DOMAIN RemoveAt(s, i) = 1..Len(s) - 1
         /\ \A j \in 1..Len(s) - 1 : RemoveAt(s, i)[j] = IF j < i THEN s[j] ELSE s[j + 1]
<1> DEFINE a == SubSeq(s, 1, i - 1)
           b == SubSeq(s, i + 1, Len(s))
           n == Len(s)
<1>1. n \in Nat /\ DOMAIN s = 1..n /\ i \in 1..n /\ \A j \in 1..n : s[j] \in S
  BY LenProperties, ElementOfSeq
<1>2. /\ 1 \in Int /\ i - 1 \in Int /\ i + 1 \in Int /\ n \in Int
      /\ (\A j \in 1..i - 1 : s[j] \in S) /\ (\A j \in i + 1..n : s[j] \in S)
  BY <1>1
<1>3. a \in Seq(S) /\ Len(a) = i - 1 /\ \A j \in 1..i - 1 : a[j] = s[j]
  <2>1. /\ a \in Seq(S) /\ Len(a) = IF 1 <= i - 1 THEN i - 1 - 1 + 1 ELSE 0
        /\ \A j \in 1..i - 1 - 1 + 1 : a[j] = s[1 + j - 1]
    BY <1>2, SubSeqProperties
  <2> HIDE DEF a
  <2>2. QED
    BY <1>1, <2>1
<1>4. b \in Seq(S) /\ Len(b) = n - i /\ \A j \in 1..n - i : b[j] = s[i + j]
  <2>1. /\ b \in Seq(S) /\ Len(b) = IF i + 1 <= n THEN n - (i + 1) + 1 ELSE 0
        /\ \A j \in 1..n - (i + 1) + 1 : b[j] = s[(i + 1) + j - 1]
    BY <1>2, SubSeqProperties
  <2> HIDE DEF b, n
  <2>2. Len(b) = n - i
    BY <1>1, <2>1
  <2>3. ASSUME NEW j \in 1..n - i PROVE b[j] = s[i + j]
    <3>1. j \in 1..n - (i + 1) + 1 /\ (i + 1) + j - 1 = i + j
      BY <1>1
    <3>2. QED
      BY <2>1, <3>1
  <2>4. QED
    BY <2>1, <2>2, <2>3
<1>5. RemoveAt(s, i) = a \o b
  BY DEF RemoveAt
<1> HIDE DEF a, b
<1> DEFINE u == a \o b
<1>6. /\ u \in Seq(S) /\ Len(u) = Len(a) + Len(b)
      /\ \A j \in 1..Len(a) + Len(b) : u[j] = IF j <= Len(a) THEN a[j] ELSE b[j - Len(a)]
  BY <1>3, <1>4, ConcatProperties
<1> HIDE DEF u, n
<1>7. Len(u) = n - 1 /\ DOMAIN u = 1..n - 1
  BY <1>1, <1>3, <1>4, <1>6, LenProperties
<1>8. ASSUME NEW j \in 1..n - 1 PROVE u[j] = IF j < i THEN s[j] ELSE s[j + 1]
  <2>1. u[j] = IF j <= i - 1 THEN a[j] ELSE b[j - (i - 1)]
    BY <1>1, <1>3, <1>4, <1>6
  <2>2. CASE j < i
    BY <1>1, <1>3, <2>1, <2>2
  <2>3. CASE ~(j < i)
    <3>1. j - (i - 1) \in 1..n - i /\ i + (j - (i - 1)) = j + 1 /\ ~(j <= i - 1)
      BY <1>1, <2>3
    <3>2. QED
      BY <1>4, <2>1, <2>3, <3>1
  <2>4. QED
    BY <2>2, <2>3
<1>9. QED
  BY <1>1, <1>5, <1>6, <1>7, <1>8 DEF u, n

\* ... and one is put in.
LEMMA PutIn ==
  ASSUME NEW S, NEW s \in Seq(S), NEW i \in 1..Len(s) + 1, NEW e \in S
  PROVE  /\ InsertAt(s, i, e) \in Seq(S) /\ Len(InsertAt(s, i, e)) = Len(s) + 1
         /\ Len(s) \in Nat /\ DOMAIN InsertAt(s, i, e) = 1..Len(s) + 1
         /\ \A j \in 1..Len(s) + 1 : InsertAt(s, i, e)[j] =
              IF j < i THEN s[j] ELSE IF j = i THEN e ELSE s[j - 1]
<1> DEFINE a == SubSeq(s, 1, i - 1)
           m == <<e>>
           b == SubSeq(s, i, Len(s))
           n == Len(s)
<1>1. n \in Nat /\ DOMAIN s = 1..n /\ i \in 1..n + 1 /\ \A j \in 1..n : s[j] \in S
  BY LenProperties, ElementOfSeq
<1>2. /\ 1 \in Int /\ i - 1 \in Int /\ i \in Int /\ n \in Int
      /\ (\A j \in 1..i - 1 : s[j] \in S) /\ (\A j \in i..n : s[j] \in S)
  BY <1>1
<1>3. a \in Seq(S) /\ Len(a) = i - 1 /\ \A j \in 1..i - 1 : a[j] = s[j]
  <2>1. /\ a \in Seq(S) /\ Len(a) = IF 1 <= i - 1 THEN i - 1 - 1 + 1 ELSE 0
        /\ \A j \in 1..i - 1 - 1 + 1 : a[j] = s[1 + j - 1]
    BY <1>2, SubSeqProperties
  <2> HIDE DEF a
  <2>2. Len(a) = i - 1
    BY <1>1, <2>1
  <2>3. ASSUME NEW j \in 1..i - 1 PROVE a[j] = s[j]
    <3>1. j \in 1..i - 1 - 1 + 1 /\ 1 + j - 1 = j
      BY <1>1
    <3>2. QED
      BY <2>1, <3>1
  <2>4. QED
    BY <2>1, <2>2, <2>3
<1>4. b \in Seq(S) /\ Len(b) = n - i + 1 /\ \A j \in 1..n - i + 1 : b[j] = s[i + j - 1]
  <2>1. /\ b \in Seq(S) /\ Len(b) = IF i <= n THEN n - i + 1 ELSE 0
        /\ \A j \in 1..n - i + 1 : b[j] = s[i + j - 1]
    BY <1>2, SubSeqProperties
  <2> HIDE DEF b, n
  <2>2. QED
    BY <1>1, <2>1
<1>5. m \in Seq(S) /\ Len(m) = 1 /\ m[1] = e
  OBVIOUS
<1>6. InsertAt(s, i, e) = (a \o m) \o b
  BY DEF InsertAt
<1> HIDE DEF a, b, m
<1> DEFINE w == a \o m
           u == w \o b
<1>7. /\ w \in Seq(S) /\ Len(w) = Len(a) + Len(m)
      /\ \A j \in 1..Len(a) + Len(m) : w[j] = IF j <= Len(a) THEN a[j] ELSE m[j - Len(a)]
  BY <1>3, <1>5, ConcatProperties
<1> HIDE DEF w
<1>8. /\ u \in Seq(S) /\ Len(u) = Len(w) + Len(b)
      /\ \A j \in 1..Len(w) + Len(b) : u[j] = IF j <= Len(w) THEN w[j] ELSE b[j - Len(w)]
  <2>1. w \in Seq(S) /\ b \in Seq(S)
    BY <1>4, <1>7
  <2>2. QED
    BY <2>1, ConcatProperties
<1>0. InsertAt(s, i, e) = u
  BY <1>6 DEF w
<1> HIDE DEF u, n
<1>9. Len(w) = i /\ Len(u) = n + 1 /\ DOMAIN u = 1..n + 1
  BY <1>1, <1>3, <1>4, <1>5, <1>7, <1>8, LenProperties
<1>10. ASSUME NEW j \in 1..n + 1
       PROVE  u[j] = IF j < i THEN s[j] ELSE IF j = i THEN e ELSE s[j - 1]
  <2>1. u[j] = IF j <= i THEN w[j] ELSE b[j - i]
    BY <1>8, <1>9
  <2>2. CASE j < i
    <3>1. j \in 1..i - 1 /\ j \in 1..Len(a) + Len(m) /\ j <= Len(a) /\ j <= i
      BY <1>1, <1>3, <1>5, <2>2
    <3>2. QED
      BY <1>3, <1>7, <2>1, <2>2, <3>1
  <2>3. CASE j = i
    <3>1. i \in 1..Len(a) + Len(m) /\ ~(i <= Len(a)) /\ i - Len(a) = 1 /\ i <= i /\ ~(i < i)
      BY <1>1, <1>3, <1>5
    <3>2. w[i] = e
      BY <1>5, <1>7, <3>1
    <3>3. QED
      BY <2>1, <2>3, <3>1, <3>2
  <2>4. CASE j > i
    <3>1. j - i \in 1..n - i + 1 /\ i + (j - i) - 1 = j - 1 /\ ~(j <= i) /\ ~(j < i) /\ j # i
      BY <1>1, <2>4
    <3>2. QED
      BY <1>4, <2>1, <3>1
  <2>5. QED
    BY <1>1, <2>2, <2>3, <2>4
<1>11. /\ u \in Seq(S) /\ Len(u) = Len(s) + 1 /\ Len(s) \in Nat /\ DOMAIN u = 1..Len(s) + 1
       /\ \A j \in 1..Len(s) + 1 : u[j] = IF j < i THEN s[j] ELSE IF j = i THEN e ELSE s[j - 1]
  BY <1>1, <1>8, <1>9, <1>10 DEF n
<1>12. QED
  BY <1>0, <1>11

-----------------------------------------------------------------------------
(* Where a flow is inserted, and how far an updated one moves.             *)

\* The bisection ends where the flows that sort after the item begin.
LEMMA InsertPos ==
  ASSUME NEW data \in Seq(Item), NEW item \in Item, NEW sort \in Orders, Sorted(data, sort)
  PROVE  /\ FindInsertPos(data, item, sort) \in 0..Len(data)
         /\ \A i \in DOMAIN data :
              /\ i <= FindInsertPos(data, item, sort) => MakeSort(sort, data[i], item) <= 0
              /\ i > FindInsertPos(data, item, sort) => MakeSort(sort, item, data[i]) <= 0
<1> DEFINE n == Len(data)
           Bounds == 0..n
           Past(i) == MakeSort(sort, item, data[i + 1]) >= 0
           Solves(f) == f = [part \in Bounds \X Bounds |->
             LET low    == part[1]
                 high   == part[2]
                 middle == (low + high) \div 2
             IN  IF low >= high THEN low
                 ELSE IF MakeSort(sort, item, data[middle + 1]) >= 0
                      THEN f[<<middle + 1, high>>]
                      ELSE f[<<low, middle>>]]
           search == CHOOSE f : Solves(f)
           quick == n = 0 \/ MakeSort(sort, data[n], item) <= 0
<1>1. n \in Nat /\ DOMAIN data = 1..n /\ \A i \in 1..n : data[i] \in Item
  BY Data
<1>2. FindInsertPos(data, item, sort) = IF quick THEN n ELSE search[<<0, n>>]
  BY DEF FindInsertPos
<1>0. n = Len(data)
  OBVIOUS
<1> HIDE DEF n
<1>3. \A i, j \in 1..n : i < j => MakeSort(sort, data[i], data[j]) <= 0
  BY <1>1 DEF Sorted
<1>4. ASSUME NEW i \in 0..n - 1, NEW j \in 0..n - 1, i < j, Past(j) PROVE Past(i)
  <2>1. /\ data[i + 1] \in Item /\ data[j + 1] \in Item
        /\ MakeSort(sort, data[i + 1], data[j + 1]) <= 0
    BY <1>1, <1>3, <1>4
  <2>2. MakeSort(sort, data[j + 1], item) <= 0
    <3>1. /\ MakeSort(sort, data[j + 1], item) \in {-1, 0, 1}
          /\ MakeSort(sort, item, data[j + 1]) \in {-1, 0, 1}
          /\ MakeSort(sort, data[j + 1], item) > 0 <=> MakeSort(sort, item, data[j + 1]) < 0
      BY <2>1, Compares
    <3>2. QED
      BY <1>4, <3>1
  <2>3. MakeSort(sort, data[i + 1], item) <= 0
    BY <2>1, <2>2, Compares
  <2>4. /\ MakeSort(sort, data[i + 1], item) \in {-1, 0, 1}
        /\ MakeSort(sort, item, data[i + 1]) \in {-1, 0, 1}
        /\ MakeSort(sort, data[i + 1], item) > 0 <=> MakeSort(sort, item, data[i + 1]) < 0
    BY <2>1, Compares
  <2>5. QED
    BY <2>3, <2>4
<1> HIDE DEF Past
<1>5. PICK t \in 0..n : \A i \in 0..n - 1 : Past(i) <=> i < t
  <2> DEFINE P == {i \in 0..n : i = n \/ ~Past(i)}
  <2>1. P \in SUBSET Nat /\ P # {}
    BY <1>1
  <2>2. PICK t \in P : \A i \in P : t <= i
    <3> HIDE DEF P
    <3>1. QED
      BY <2>1, Least
  <2>3. ASSUME NEW i \in 0..n - 1, i < t PROVE Past(i)
    <3>1. i \in 0..n /\ i # n /\ ~(t <= i)
      BY <1>1, <2>3
    <3>2. QED
      BY <2>2, <3>1
  <2>4. ASSUME NEW i \in 0..n - 1, Past(i), ~(i < t) PROVE FALSE
    <3>1. t <= i /\ t \in 0..n - 1 /\ ~Past(t)
      <4>1. t \in Nat /\ t <= i /\ i < n
        BY <1>1, <2>4
      <4>2. t # n
        BY <1>1, <4>1
      <4>3. QED
        BY <1>1, <2>2, <4>1, <4>2
    <3>2. t # i
      BY <2>4, <3>1
    <3>3. t < i
      BY <1>1, <3>1, <3>2
    <3>4. QED
      BY <1>4, <2>4, <3>1, <3>3
  <2>5. QED
    BY <2>2, <2>3, <2>4
<1>6. Solves(search)
  <2> DEFINE f == [part \in Bounds \X Bounds |->
                     IF part[1] >= part[2] \/ t < part[1] THEN part[1]
                     ELSE IF t > part[2] THEN part[2] ELSE t]
             next == [part \in Bounds \X Bounds |->
             LET low    == part[1]
                 high   == part[2]
                 middle == (low + high) \div 2
             IN  IF low >= high THEN low
                 ELSE IF MakeSort(sort, item, data[middle + 1]) >= 0
                      THEN f[<<middle + 1, high>>]
                      ELSE f[<<low, middle>>]]
  <2>1. ASSUME NEW low \in Bounds, NEW high \in Bounds
        PROVE  f[<<low, high>>] = IF low >= high \/ t < low THEN low
                                  ELSE IF t > high THEN high ELSE t
    OBVIOUS
  <2>2. ASSUME NEW part \in Bounds \X Bounds PROVE f[part] = next[part]
    <3>1. PICK low \in Bounds, high \in Bounds : part = <<low, high>>
      OBVIOUS
    <3> DEFINE middle == (low + high) \div 2
    <3>2. low \in Nat /\ high \in Nat /\ low <= n /\ high <= n /\ t \in Nat /\ t <= n
      BY <1>1
    <3>3. low < high => /\ middle \in Nat /\ low <= middle /\ middle < high
                        /\ middle \in 0..n - 1 /\ middle \in Bounds /\ middle + 1 \in Bounds
      BY <1>1, <3>2
    <3>4. next[part] = IF low >= high THEN low
                       ELSE IF Past(middle) THEN f[<<middle + 1, high>>] ELSE f[<<low, middle>>]
      <4>1. part[1] = low /\ part[2] = high /\ part \in Bounds \X Bounds
        BY <3>1
      <4> HIDE DEF f
      <4>2. QED
        BY <4>1 DEF Past
    <3> HIDE DEF f, next, middle
    <3>5. CASE low >= high
      BY <2>1, <3>1, <3>4, <3>5
    <3>6. CASE low < high /\ Past(middle)
      <4>1. middle < t
        BY <1>5, <3>3, <3>6
      <4>2. next[part] = f[<<middle + 1, high>>]
        BY <3>2, <3>4, <3>6
      <4>3. f[<<middle + 1, high>>] = IF middle + 1 >= high \/ t < middle + 1 THEN middle + 1
                                      ELSE IF t > high THEN high ELSE t
        BY <2>1, <3>3, <3>6
      <4>4. f[part] = IF low >= high \/ t < low THEN low ELSE IF t > high THEN high ELSE t
        BY <2>1, <3>1
      <4>5. QED
        BY <3>2, <3>3, <3>6, <4>1, <4>2, <4>3, <4>4
    <3>7. CASE low < high /\ ~Past(middle)
      <4>1. t <= middle
        BY <1>5, <3>2, <3>3, <3>7
      <4>2. next[part] = f[<<low, middle>>]
        BY <3>2, <3>4, <3>7
      <4>3. f[<<low, middle>>] = IF low >= middle \/ t < low THEN low
                                 ELSE IF t > middle THEN middle ELSE t
        BY <2>1, <3>3, <3>7
      <4>4. f[part] = IF low >= high \/ t < low THEN low ELSE IF t > high THEN high ELSE t
        BY <2>1, <3>1
      <4>5. f[part] = IF t < low THEN low ELSE t
        BY <3>2, <3>3, <3>7, <4>1, <4>4
      <4>6. f[<<low, middle>>] = IF t < low THEN low ELSE t
        <5>1. low <= middle /\ (low >= middle => t <= low)
          BY <3>2, <3>3, <3>7, <4>1
        <5>2. CASE t < low
          BY <4>3, <5>2
        <5>3. CASE ~(t < low)
          <6>1. low >= middle => low = t
            BY <3>2, <3>3, <3>7, <5>1, <5>3
          <6>2. ~(t > middle)
            BY <3>2, <3>3, <3>7, <4>1
          <6>3. QED
            BY <4>3, <5>3, <6>1, <6>2
        <5>4. QED
          BY <5>2, <5>3
      <4>7. QED
        BY <4>2, <4>5, <4>6
    <3>8. QED
      BY <3>2, <3>5, <3>6, <3>7
  <2>3. f = next
    <3>1. /\ f = [part \in Bounds \X Bounds |-> f[part]]
          /\ next = [part \in Bounds \X Bounds |-> next[part]]
      OBVIOUS
    <3> HIDE DEF f, next
    <3>2. QED
      BY <2>2, <3>1
  <2>4. Solves(f)
    BY <2>3
  <2> HIDE DEF Solves, f
  <2>5. QED
    BY <2>4
<1>7. ASSUME NEW low \in Bounds, NEW high \in Bounds
      PROVE  search[<<low, high>>] =
               IF low >= high THEN low
               ELSE IF Past((low + high) \div 2) THEN search[<<(low + high) \div 2 + 1, high>>]
                    ELSE search[<<low, (low + high) \div 2>>]
  <2> HIDE DEF search
  <2>1. <<low, high>> \in Bounds \X Bounds
    OBVIOUS
  <2>2. QED
    BY <1>6, <2>1 DEF Past
<1> HIDE DEF search, Solves
<1>8. search[<<0, n>>] = t
  <2> DEFINE P == {d \in Nat : \E low, high \in Bounds :
                     low <= t /\ t <= high /\ d = high - low /\ search[<<low, high>>] # t}
  <2>1. SUFFICES ASSUME P # {} PROVE FALSE
    <3>1. n \in Nat /\ 0 \in Bounds /\ n \in Bounds /\ 0 <= t /\ t <= n /\ n = n - 0
      BY <1>1
    <3>2. QED
      BY <3>1
  <2>2. PICK d \in P : \A e \in P : d <= e
    <3>1. P \in SUBSET Nat
      OBVIOUS
    <3> HIDE DEF P
    <3>2. QED
      BY <2>1, <3>1, Least
  <2>3. PICK low \in Bounds, high \in Bounds :
          low <= t /\ t <= high /\ d = high - low /\ search[<<low, high>>] # t
    BY <2>2
  <2> DEFINE middle == (low + high) \div 2
  <2>4. low \in Nat /\ high \in Nat /\ t \in Nat /\ low <= n /\ high <= n
    BY <1>1
  <2>5. low < high
    <3>1. low >= high => low = t
      BY <2>3, <2>4
    <3>2. low >= high => search[<<low, high>>] = low
      BY <1>7
    <3>3. QED
      BY <2>3, <2>4, <3>1, <3>2
  <2>6. /\ middle \in Nat /\ low <= middle /\ middle < high /\ middle \in 0..n - 1
        /\ middle \in Bounds /\ middle + 1 \in Bounds
    BY <1>1, <2>4, <2>5
  <2>7. search[<<low, high>>] = IF Past(middle) THEN search[<<middle + 1, high>>]
                                ELSE search[<<low, middle>>]
    BY <1>7, <2>4, <2>5
  <2> HIDE DEF middle
  <2>8. CASE Past(middle)
    <3>1. middle < t
      BY <1>5, <2>6, <2>8
    <3>2. /\ middle + 1 <= t /\ high - (middle + 1) \in Nat /\ high - (middle + 1) < d
      BY <2>3, <2>4, <2>6, <3>1
    <3>3. high - (middle + 1) \in P
      BY <2>3, <2>6, <2>7, <2>8, <3>2
    <3> HIDE DEF P
    <3>4. QED
      BY <2>2, <2>3, <2>4, <3>2, <3>3
  <2>9. CASE ~Past(middle)
    <3>1. t <= middle
      BY <1>5, <2>4, <2>6, <2>9
    <3>2. middle - low \in Nat /\ middle - low < d
      BY <2>3, <2>4, <2>6, <3>1
    <3>3. middle - low \in P
      BY <2>3, <2>6, <2>7, <2>9, <3>1, <3>2
    <3> HIDE DEF P
    <3>4. QED
      BY <2>2, <2>3, <2>4, <3>2, <3>3
  <2>10. QED
    BY <2>8, <2>9
<1>9. CASE quick
  <2>1. FindInsertPos(data, item, sort) = n
    BY <1>2, <1>9
  <2>2. ASSUME NEW i \in 1..n PROVE MakeSort(sort, data[i], item) <= 0
    <3>1. n \in 1..n /\ MakeSort(sort, data[n], item) <= 0 /\ data[n] \in Item
      BY <1>1, <1>9
    <3>2. CASE i = n
      BY <3>1, <3>2
    <3>3. CASE i # n
      <4>1. i < n
        BY <1>1, <3>3
      <4>2. MakeSort(sort, data[i], data[n]) <= 0
        BY <1>3, <3>1, <4>1
      <4>3. QED
        BY <1>1, <3>1, <4>2, Compares
    <3>4. QED
      BY <3>2, <3>3
  <2>3. n \in 0..n /\ \A i \in 1..n : ~(i > n)
    BY <1>1
  <2>4. QED
    BY <1>0, <1>1, <2>1, <2>2, <2>3
<1>10. CASE ~quick
  <2>1. FindInsertPos(data, item, sort) = t
    BY <1>2, <1>8, <1>10
  <2>2. ASSUME NEW i \in 1..n
        PROVE  /\ i <= t => MakeSort(sort, data[i], item) <= 0
               /\ i > t => MakeSort(sort, item, data[i]) <= 0
    <3>1. i - 1 \in 0..n - 1 /\ (i - 1) + 1 = i /\ (i - 1 < t <=> i <= t)
      BY <1>1
    <3>2. MakeSort(sort, item, data[i]) >= 0 <=> i <= t
      BY <1>5, <3>1 DEF Past
    <3>3. /\ MakeSort(sort, data[i], item) \in {-1, 0, 1}
          /\ MakeSort(sort, item, data[i]) \in {-1, 0, 1}
          /\ MakeSort(sort, data[i], item) > 0 <=> MakeSort(sort, item, data[i]) < 0
      BY <1>1, Compares
    <3>4. QED
      BY <1>1, <3>2, <3>3
  <2>3. QED
    BY <1>0, <1>1, <2>1, <2>2
<1>11. QED
  BY <1>0, <1>1, <1>9, <1>10

\* Upwards: past all neighbours that sort before the item.
ClimbsPast(f, n, Moves) == f = [p \in 1..n |-> IF p + 1 <= n /\ p + 1 \in Moves THEN f[p + 1] ELSE p]

\* updateViewItem moves an item up past its neighbours as long as they sort after it ...
LEMMA Upwards ==
  ASSUME NEW n \in Nat, NEW Moves, NEW pos \in 1..n
  PROVE  /\ \E f : ClimbsPast(f, n, Moves)
         /\ \A f : ClimbsPast(f, n, Moves) =>
              /\ f[pos] \in pos..n
              /\ \A i \in pos + 1..f[pos] : i \in Moves
              /\ f[pos] = n \/ f[pos] + 1 \notin Moves
<1> DEFINE Goes(p) == p + 1 <= n /\ p + 1 \in Moves
           Solves(g) == g = [p \in 1..n |-> IF Goes(p) THEN g[p + 1] ELSE p]
           Stops(p) == {q \in p..n : ~Goes(q)}
           Stop(p) == CHOOSE q \in Stops(p) : \A r \in Stops(p) : q <= r
<1>1. ASSUME NEW p \in 1..n
      PROVE  Stop(p) \in Stops(p) /\ \A r \in Stops(p) : Stop(p) <= r
  <2>1. n \in Stops(p) /\ Stops(p) \in SUBSET Nat
    OBVIOUS
  <2>2. PICK S : S = Stops(p)
    OBVIOUS
  <2>3. \E q \in S : \A r \in S : q <= r
    <3>1. S # {} /\ S \in SUBSET Nat
      BY <2>1, <2>2
    <3>2. QED
      BY <3>1, Least
  <2> HIDE DEF Stops
  <2>4. QED
    BY <2>2, <2>3
<1>2. \E g : Solves(g)
  <2> DEFINE g == [p \in 1..n |-> Stop(p)]
  <2>1. ASSUME NEW p \in 1..n PROVE Stop(p) = IF Goes(p) THEN g[p + 1] ELSE p
    <3>1. CASE Goes(p)
      <4>0. p + 1 \in 1..n
        BY <3>1
      <4>1. p + 1 \in 1..n /\ g[p + 1] = Stop(p + 1)
        <5> HIDE DEF Stop
        <5>1. QED
          BY <4>0
      <4>2. Stops(p) = Stops(p + 1)
        <5>1. \A q \in p..n : q = p \/ q \in p + 1..n
          OBVIOUS
        <5>2. \A q \in p + 1..n : q \in p..n
          OBVIOUS
        <5> HIDE DEF Goes
        <5>3. QED
          BY <3>1, <5>1, <5>2
      <4> HIDE DEF g, Goes, Stops
      <4>3. Stop(p) = Stop(p + 1)
        BY <4>2
      <4>4. QED
        BY <3>1, <4>1, <4>3
    <3>2. CASE ~Goes(p)
      <4>1. p \in Stops(p)
        BY <3>2
      <4>2. Stop(p) <= p /\ Stop(p) \in p..n
        BY <1>1, <4>1
      <4> HIDE DEF Stop, Goes
      <4>3. Stop(p) = p
        BY <4>2
      <4>4. QED
        BY <3>2, <4>3
    <3>3. QED
      BY <3>1, <3>2
  <2> HIDE DEF Stop, Goes
  <2>2. Solves(g)
    BY <2>1
  <2> HIDE DEF Solves
  <2>3. QED
    BY <2>2
<1>3. SUFFICES ASSUME NEW f, Solves(f)
      PROVE  /\ f[pos] \in pos..n
             /\ \A i \in pos + 1..f[pos] : i \in Moves
             /\ f[pos] = n \/ f[pos] + 1 \notin Moves
  BY <1>2 DEF ClimbsPast
<1>4. ASSUME NEW p \in 1..n PROVE f[p] = IF Goes(p) THEN f[p + 1] ELSE p
  BY <1>3
<1> DEFINE Good(p) == /\ f[p] \in p..n
                      /\ \A i \in p + 1..f[p] : i \in Moves
                      /\ f[p] = n \/ f[p] + 1 \notin Moves
           Bad == {p \in 1..n : ~Good(p)}
<1>5. SUFFICES ASSUME Bad # {} PROVE FALSE
  <2>1. Bad = {} => Good(pos)
    OBVIOUS
  <2>2. QED
    BY <2>1
<1>6. PICK p \in Bad : \A q \in Bad : q <= p
  <2>1. Bad \in SUBSET Nat /\ \A q \in Bad : q <= n
    OBVIOUS
  <2> HIDE DEF Bad
  <2>2. QED
    BY <1>5, <2>1, Greatest
<1>7. p \in 1..n /\ ~Good(p) /\ p \in Nat
  BY <1>6
<1> HIDE DEF Solves
<1>8. CASE Goes(p)
  <2>1. p + 1 \in 1..n /\ p + 1 \notin Bad
    <3>1. p + 1 \in 1..n /\ ~(p + 1 <= p)
      BY <1>7, <1>8
    <3> HIDE DEF Bad
    <3>2. QED
      BY <1>6, <3>1
  <2>2. Good(p + 1)
    BY <2>1
  <2>3. f[p] = f[p + 1]
    BY <1>4, <1>7, <1>8
  <2>4. f[p] \in p..n /\ (f[p] = n \/ f[p] + 1 \notin Moves)
    BY <1>7, <2>2, <2>3
  <2>5. ASSUME NEW i \in p + 1..f[p] PROVE i \in Moves
    <3>1. i = p + 1 \/ i \in p + 1 + 1..f[p + 1]
      BY <1>7, <2>2, <2>3
    <3>2. QED
      BY <1>8, <2>2, <3>1
  <2>6. QED
    BY <1>7, <2>4, <2>5
<1>9. CASE ~Goes(p)
  <2>1. f[p] = p
    BY <1>4, <1>7, <1>9
  <2>2. p \in p..n /\ (p = n \/ p + 1 \notin Moves) /\ ~\E i \in p + 1..p : TRUE
    BY <1>7, <1>9
  <2>3. QED
    BY <1>7, <2>1, <2>2
<1>10. QED
  BY <1>8, <1>9

\* Downwards: past all neighbours that sort after it.
SinksPast(f, n, Moves) == f = [p \in 1..n |-> IF p > 1 /\ p - 1 \in Moves THEN f[p - 1] ELSE p]

\* ... and down past those that sort before it.
LEMMA Downwards ==
  ASSUME NEW n \in Nat, NEW Moves, NEW pos \in 1..n
  PROVE  /\ \E f : SinksPast(f, n, Moves)
         /\ \A f : SinksPast(f, n, Moves) =>
              /\ f[pos] \in 1..pos
              /\ \A i \in f[pos]..pos - 1 : i \in Moves
              /\ f[pos] = 1 \/ f[pos] - 1 \notin Moves
<1> DEFINE Goes(p) == p > 1 /\ p - 1 \in Moves
           Solves(g) == g = [p \in 1..n |-> IF Goes(p) THEN g[p - 1] ELSE p]
           Stops(p) == {q \in 1..p : ~Goes(q)}
           Stop(p) == CHOOSE q \in Stops(p) : \A r \in Stops(p) : r <= q
<1>1. ASSUME NEW p \in 1..n
      PROVE  Stop(p) \in Stops(p) /\ \A r \in Stops(p) : r <= Stop(p)
  <2>1. 1 \in Stops(p) /\ Stops(p) \in SUBSET Nat /\ p \in Nat /\ \A r \in Stops(p) : r <= p
    OBVIOUS
  <2>2. PICK S : S = Stops(p)
    OBVIOUS
  <2>3. \E q \in S : \A r \in S : r <= q
    <3>1. S # {} /\ S \in SUBSET Nat /\ p \in Nat /\ \A r \in S : r <= p
      BY <2>1, <2>2
    <3>2. QED
      BY <3>1, Greatest
  <2> HIDE DEF Stops
  <2>4. QED
    BY <2>2, <2>3
<1>2. \E g : Solves(g)
  <2> DEFINE g == [p \in 1..n |-> Stop(p)]
  <2>1. ASSUME NEW p \in 1..n PROVE Stop(p) = IF Goes(p) THEN g[p - 1] ELSE p
    <3>1. CASE Goes(p)
      <4>0. p - 1 \in 1..n
        BY <3>1
      <4>1. p - 1 \in 1..n /\ g[p - 1] = Stop(p - 1)
        <5> HIDE DEF Stop
        <5>1. QED
          BY <4>0
      <4>2. Stops(p) = Stops(p - 1)
        <5>1. \A q \in 1..p : q = p \/ q \in 1..p - 1
          OBVIOUS
        <5>2. \A q \in 1..p - 1 : q \in 1..p
          OBVIOUS
        <5> HIDE DEF Goes
        <5>3. QED
          BY <3>1, <5>1, <5>2
      <4> HIDE DEF g, Goes, Stops
      <4>3. Stop(p) = Stop(p - 1)
        BY <4>2
      <4>4. QED
        BY <3>1, <4>1, <4>3
    <3>2. CASE ~Goes(p)
      <4>1. p \in Stops(p)
        BY <3>2
      <4>2. p <= Stop(p) /\ Stop(p) \in 1..p
        BY <1>1, <4>1
      <4> HIDE DEF Stop, Goes
      <4>3. Stop(p) = p
        BY <4>2
      <4>4. QED
        BY <3>2, <4>3
    <3>3. QED
      BY <3>1, <3>2
  <2> HIDE DEF Stop, Goes
  <2>2. Solves(g)
    BY <2>1
  <2> HIDE DEF Solves
  <2>3. QED
    BY <2>2
<1>3. SUFFICES ASSUME NEW f, Solves(f)
      PROVE  /\ f[pos] \in 1..pos
             /\ \A i \in f[pos]..pos - 1 : i \in Moves
             /\ f[pos] = 1 \/ f[pos] - 1 \notin Moves
  BY <1>2 DEF SinksPast
<1>4. ASSUME NEW p \in 1..n PROVE f[p] = IF Goes(p) THEN f[p - 1] ELSE p
  BY <1>3
<1> DEFINE Good(p) == /\ f[p] \in 1..p
                      /\ \A i \in f[p]..p - 1 : i \in Moves
                      /\ f[p] = 1 \/ f[p] - 1 \notin Moves
           Bad == {p \in 1..n : ~Good(p)}
<1>5. SUFFICES ASSUME Bad # {} PROVE FALSE
  <2>1. Bad = {} => Good(pos)
    OBVIOUS
  <2>2. QED
    BY <2>1
<1>6. PICK p \in Bad : \A q \in Bad : p <= q
  <2>1. Bad \in SUBSET Nat
    OBVIOUS
  <2> HIDE DEF Bad
  <2>2. QED
    BY <1>5, <2>1, Least
<1>7. p \in 1..n /\ ~Good(p) /\ p \in Nat
  BY <1>6
<1> HIDE DEF Solves
<1>8. CASE Goes(p)
  <2>1. p - 1 \in 1..n /\ p - 1 \notin Bad
    <3>1. p - 1 \in 1..n /\ ~(p <= p - 1)
      BY <1>7, <1>8
    <3> HIDE DEF Bad
    <3>2. QED
      BY <1>6, <3>1
  <2>2. Good(p - 1)
    BY <2>1
  <2>3. f[p] = f[p - 1]
    BY <1>4, <1>7, <1>8
  <2>4. f[p] \in 1..p /\ (f[p] = 1 \/ f[p] - 1 \notin Moves)
    BY <1>7, <2>2, <2>3
  <2>5. ASSUME NEW i \in f[p]..p - 1 PROVE i \in Moves
    <3>1. i = p - 1 \/ i \in f[p - 1]..p - 1 - 1
      BY <1>7, <2>2, <2>3
    <3>2. QED
      BY <1>8, <2>2, <3>1
  <2>6. QED
    BY <1>7, <2>4, <2>5
<1>9. CASE ~Goes(p)
  <2>1. f[p] = p
    BY <1>4, <1>7, <1>9
  <2>2. p \in 1..p /\ (p = 1 \/ p - 1 \notin Moves) /\ ~\E i \in p..p - 1 : TRUE
    BY <1>7, <1>9
  <2>3. QED
    BY <1>7, <2>1, <2>2
<1>10. QED
  BY <1>8, <1>9

-----------------------------------------------------------------------------
(* The view stays sorted when a flow is put in, taken out, or moved.       *)

\* Put between those that may precede it and those that may follow it.
Fits(data, pos, item, sort) ==
  \A i \in DOMAIN data :
    /\ i < pos => MakeSort(sort, data[i], item) <= 0
    /\ i >= pos => MakeSort(sort, item, data[i]) <= 0

LEMMA SortedPutIn ==
  ASSUME NEW data \in Seq(Item), NEW sort \in Orders, Sorted(data, sort),
         NEW item \in Item, NEW pos \in 1..Len(data) + 1, Fits(data, pos, item, sort)
  PROVE  /\ Sorted(InsertAt(data, pos, item), sort)
         /\ ToSet(InsertAt(data, pos, item)) = ToSet(data) \cup {item}
<1> DEFINE n == Len(data)
           u == InsertAt(data, pos, item)
<1>1. /\ n \in Nat /\ DOMAIN u = 1..n + 1 /\ DOMAIN data = 1..n
      /\ \A j \in 1..n + 1 : u[j] = IF j < pos THEN data[j] ELSE IF j = pos THEN item ELSE data[j - 1]
  BY PutIn, Data
<1>2. pos \in 1..n + 1
  OBVIOUS
<1> HIDE DEF n, u
<1>3. Sorted(u, sort)
  <2> SUFFICES ASSUME NEW i \in 1..n + 1, NEW j \in 1..n + 1, i < j
               PROVE  MakeSort(sort, u[i], u[j]) <= 0
    BY <1>1 DEF Sorted
  <2>1. /\ u[i] = IF i < pos THEN data[i] ELSE IF i = pos THEN item ELSE data[i - 1]
        /\ u[j] = IF j < pos THEN data[j] ELSE IF j = pos THEN item ELSE data[j - 1]
    BY <1>1
  <2>2. CASE j < pos
    <3>1. i \in 1..n /\ j \in 1..n /\ i < pos
      BY <1>1, <1>2, <2>2
    <3>2. QED
      BY <1>1, <2>1, <2>2, <3>1 DEF Sorted
  <2>3. CASE j = pos
    <3>1. i \in 1..n /\ i < pos /\ ~(j < pos)
      BY <1>1, <1>2, <2>3
    <3>2. QED
      BY <1>1, <2>1, <2>3, <3>1 DEF Fits
  <2>4. CASE i = pos
    <3>1. j - 1 \in 1..n /\ j - 1 >= pos /\ ~(i < pos) /\ ~(j < pos) /\ j # pos
      BY <1>1, <1>2, <2>4
    <3>2. QED
      BY <1>1, <2>1, <2>4, <3>1 DEF Fits
  <2>5. CASE i < pos /\ pos < j
    <3>1. i \in 1..n /\ j - 1 \in 1..n /\ i < j - 1 /\ ~(j < pos) /\ j # pos
      BY <1>1, <1>2, <2>5
    <3>2. QED
      BY <1>1, <2>1, <2>5, <3>1 DEF Sorted
  <2>6. CASE pos < i
    <3>1. /\ i - 1 \in 1..n /\ j - 1 \in 1..n /\ i - 1 < j - 1
          /\ ~(i < pos) /\ i # pos /\ ~(j < pos) /\ j # pos
      BY <1>1, <1>2, <2>6
    <3>2. QED
      BY <1>1, <2>1, <3>1 DEF Sorted
  <2>7. QED
    BY <1>1, <1>2, <2>2, <2>3, <2>4, <2>5, <2>6
<1>4. ToSet(u) = ToSet(data) \cup {item}
  <2>1. ASSUME NEW j \in 1..n + 1 PROVE u[j] = item \/ \E i \in 1..n : u[j] = data[i]
    <3>1. CASE j < pos
      <4>1. j \in 1..n
        BY <1>1, <1>2, <3>1
      <4>2. QED
        BY <1>1, <3>1, <4>1
    <3>2. CASE j = pos
      <4>1. ~(j < pos)
        BY <1>2, <3>2
      <4>2. QED
        BY <1>1, <3>2, <4>1
    <3>3. CASE j > pos
      <4>1. j - 1 \in 1..n /\ ~(j < pos) /\ j # pos
        BY <1>1, <1>2, <3>3
      <4>2. QED
        BY <1>1, <4>1
    <3>4. QED
      BY <1>1, <1>2, <3>1, <3>2, <3>3
  <2>2. ASSUME NEW i \in 1..n PROVE \E j \in 1..n + 1 : u[j] = data[i]
    <3>1. CASE i < pos
      <4>1. i \in 1..n + 1
        BY <1>1
      <4>2. QED
        BY <1>1, <3>1, <4>1
    <3>2. CASE i >= pos
      <4>1. i + 1 \in 1..n + 1 /\ ~(i + 1 < pos) /\ i + 1 # pos /\ (i + 1) - 1 = i
        BY <1>1, <1>2, <3>2
      <4>2. u[i + 1] = data[i]
        BY <1>1, <4>1
      <4>3. QED
        BY <4>1, <4>2
    <3>3. QED
      BY <1>1, <1>2, <3>1, <3>2
  <2>3. u[pos] = item /\ pos \in DOMAIN u
    <3>1. ~(pos < pos)
      BY <1>2
    <3>2. QED
      BY <1>1, <1>2, <3>1
  <2>4. /\ \A j \in DOMAIN u : u[j] = item \/ \E i \in DOMAIN data : u[j] = data[i]
        /\ \A i \in DOMAIN data : \E j \in DOMAIN u : u[j] = data[i]
        /\ \E j \in DOMAIN u : u[j] = item
    BY <1>1, <2>1, <2>2, <2>3
  <2>5. ToSet(u) = {u[j] : j \in DOMAIN u} /\ ToSet(data) = {data[i] : i \in DOMAIN data}
    BY DEF ToSet
  <2>6. QED
    BY <2>4, <2>5
<1>5. QED
  BY <1>3, <1>4 DEF u

LEMMA SortedTakenOut ==
  ASSUME NEW data \in Seq(Item), NEW sort \in Orders, Sorted(data, sort), NEW pos \in DOMAIN data
  PROVE  /\ Sorted(RemoveAt(data, pos), sort)
         /\ ToSet(RemoveAt(data, pos)) = {data[i] : i \in DOMAIN data \ {pos}}
<1> DEFINE n == Len(data)
           u == RemoveAt(data, pos)
<1>1. /\ n \in Nat /\ DOMAIN u = 1..n - 1 /\ DOMAIN data = 1..n /\ pos \in 1..n
      /\ \A j \in 1..n - 1 : u[j] = IF j < pos THEN data[j] ELSE data[j + 1]
  BY TakenOut, Data
<1> HIDE DEF n, u
<1>2. ASSUME NEW j \in 1..n - 1
      PROVE  LET i == IF j < pos THEN j ELSE j + 1 IN u[j] = data[i] /\ i \in 1..n /\ i # pos
  <2>1. CASE j < pos
    <3>1. j \in 1..n /\ j # pos
      BY <1>1, <2>1
    <3>2. QED
      BY <1>1, <2>1, <3>1
  <2>2. CASE ~(j < pos)
    <3>1. j + 1 \in 1..n /\ j + 1 # pos
      BY <1>1, <2>2
    <3>2. QED
      BY <1>1, <2>2, <3>1
  <2>3. QED
    BY <2>1, <2>2
<1>3. Sorted(u, sort)
  <2> SUFFICES ASSUME NEW i \in 1..n - 1, NEW j \in 1..n - 1, i < j
               PROVE  MakeSort(sort, u[i], u[j]) <= 0
    BY <1>1 DEF Sorted
  <2> DEFINE k == IF i < pos THEN i ELSE i + 1
             m == IF j < pos THEN j ELSE j + 1
  <2>1. u[i] = data[k] /\ k \in 1..n /\ u[j] = data[m] /\ m \in 1..n
    BY <1>2
  <2>2. k < m
    BY <1>1
  <2> HIDE DEF k, m
  <2>3. QED
    BY <1>1, <2>1, <2>2 DEF Sorted
<1>4. ToSet(u) = {data[i] : i \in DOMAIN data \ {pos}}
  <2>1. \A j \in 1..n - 1 : \E i \in 1..n : i # pos /\ u[j] = data[i]
    BY <1>2
  <2>2. ASSUME NEW i \in 1..n, i # pos PROVE \E j \in 1..n - 1 : u[j] = data[i]
    <3>1. CASE i < pos
      <4>1. i \in 1..n - 1
        BY <1>1, <3>1
      <4>2. QED
        BY <1>1, <3>1, <4>1
    <3>2. CASE i > pos
      <4>1. i - 1 \in 1..n - 1 /\ ~(i - 1 < pos) /\ (i - 1) + 1 = i
        BY <1>1, <3>2
      <4>2. u[i - 1] = data[i]
        BY <1>1, <4>1
      <4>3. QED
        BY <4>1, <4>2
    <3>3. QED
      BY <1>1, <2>2, <3>1, <3>2
  <2>3. /\ \A j \in DOMAIN u : \E i \in DOMAIN data \ {pos} : u[j] = data[i]
        /\ \A i \in DOMAIN data \ {pos} : \E j \in DOMAIN u : u[j] = data[i]
    BY <1>1, <2>1, <2>2
  <2>4. QED
    BY <2>3 DEF ToSet
<1>5. QED
  BY <1>3, <1>4 DEF u

\* Where a flow of the view is after another one was moved from pos to target.
LEMMA Moved ==
  ASSUME NEW data \in Seq(Item), NEW item \in Item,
         NEW pos \in DOMAIN data, NEW target \in DOMAIN data
  PROVE  LET moved == InsertAt(RemoveAt(data, pos), target, item)
         IN  /\ moved \in Seq(Item) /\ DOMAIN moved = DOMAIN data /\ Len(moved) = Len(data)
             /\ \A j \in DOMAIN data : moved[j] =
                  IF j = target THEN item
                  ELSE data[IF pos <= j /\ j < target THEN j + 1
                            ELSE IF target < j /\ j <= pos THEN j - 1 ELSE j]
<1> DEFINE n == Len(data)
           w == RemoveAt(data, pos)
           m == Len(w)
           moved == InsertAt(w, target, item)
<1>1. /\ n \in Nat /\ w \in Seq(Item) /\ m = n - 1 /\ DOMAIN data = 1..n /\ pos \in 1..n
      /\ \A j \in 1..n - 1 : w[j] = IF j < pos THEN data[j] ELSE data[j + 1]
  <2>1. /\ w \in Seq(Item) /\ Len(w) = Len(data) - 1 /\ Len(data) \in Nat /\ pos \in 1..Len(data)
        /\ \A j \in 1..Len(data) - 1 : w[j] = IF j < pos THEN data[j] ELSE data[j + 1]
    BY TakenOut
  <2>2. DOMAIN data = 1..Len(data)
    BY Data
  <2>3. QED
    BY <2>1, <2>2
<1>2. target \in 1..n
  BY <1>1
<1>0. n = Len(data) /\ m = Len(w)
  OBVIOUS
<1> HIDE DEF n, w, m
<1>3. target \in 1..m + 1 /\ m + 1 = n
  BY <1>1, <1>2
<1>4. /\ moved \in Seq(Item) /\ Len(moved) = n /\ DOMAIN moved = 1..n
      /\ \A j \in 1..n : moved[j] = IF j < target THEN w[j] ELSE IF j = target THEN item ELSE w[j - 1]
  <2>1. target \in 1..Len(w) + 1
    BY <1>0, <1>3
  <2>2. /\ moved \in Seq(Item) /\ Len(moved) = Len(w) + 1 /\ DOMAIN moved = 1..Len(w) + 1
        /\ \A j \in 1..Len(w) + 1 :
              moved[j] = IF j < target THEN w[j] ELSE IF j = target THEN item ELSE w[j - 1]
    <3>1. \A t \in 1..Len(w) + 1 :
             /\ InsertAt(w, t, item) \in Seq(Item) /\ Len(InsertAt(w, t, item)) = Len(w) + 1
             /\ DOMAIN InsertAt(w, t, item) = 1..Len(w) + 1
             /\ \A j \in 1..Len(w) + 1 : InsertAt(w, t, item)[j] =
                  IF j < t THEN w[j] ELSE IF j = t THEN item ELSE w[j - 1]
      BY <1>1, PutIn
    <3>2. QED
      BY <2>1, <3>1
  <2>3. QED
    BY <1>0, <1>3, <2>2
<1> HIDE DEF moved
<1>5. ASSUME NEW j \in 1..n
      PROVE  moved[j] = IF j = target THEN item
                        ELSE data[IF pos <= j /\ j < target THEN j + 1
                                  ELSE IF target < j /\ j <= pos THEN j - 1 ELSE j]
  <2>1. CASE j = target
    <3>1. ~(j < target)
      BY <1>2, <2>1
    <3>2. QED
      BY <1>4, <2>1, <3>1
  <2>2. CASE j < target
    <3>1. j \in 1..n - 1 /\ j # target /\ ~(target < j) /\ (j < pos <=> ~(pos <= j))
      BY <1>1, <1>2, <2>2
    <3>2. moved[j] = w[j]
      BY <1>4, <2>2
    <3>3. w[j] = IF j < pos THEN data[j] ELSE data[j + 1]
      BY <1>1, <3>1
    <3>4. QED
      BY <2>2, <3>1, <3>2, <3>3
  <2>3. CASE j > target
    <3>1. /\ j - 1 \in 1..n - 1 /\ j # target /\ ~(j < target) /\ (j - 1) + 1 = j
          /\ (j - 1 < pos <=> j <= pos) /\ target < j
      BY <1>1, <1>2, <2>3
    <3>2. moved[j] = w[j - 1]
      BY <1>4, <3>1
    <3>3. w[j - 1] = IF j - 1 < pos THEN data[j - 1] ELSE data[(j - 1) + 1]
      BY <1>1, <3>1
    <3>4. QED
      BY <3>1, <3>2, <3>3
  <2>4. QED
    BY <1>1, <1>2, <2>1, <2>2, <2>3
<1>6. QED
  BY <1>0, <1>1, <1>4, <1>5 DEF moved, w

-----------------------------------------------------------------------------
(* The view and its positions, after a flow is inserted, removed, updated. *)

\* insertViewItem: the bisection of findInsertPos keeps the view sorted and its positions right.
LEMMA Inserted ==
  ASSUME NEW data, NEW index, NEW sort \in Orders, NEW except,
         ViewOk(data, index, sort, except), NEW item \in Item,
         item.id \in except \/ item.id \notin Ids(data)
  PROVE  LET pos == FindInsertPos(data, item, sort) + 1
             u   == InsertAt(data, pos, item)
         IN  /\ ViewOk(u, Reindexed(index, u, pos, Len(u)), sort, except)
             /\ ToSet(u) = ToSet(data) \cup {item}
<1> DEFINE n == Len(data)
           pos == FindInsertPos(data, item, sort) + 1
           u == InsertAt(data, pos, item)
           x == Reindexed(index, u, pos, Len(u))
<1>1. /\ data \in Seq(Item) /\ index \in Maps(Nat) /\ Sorted(data, sort)
      /\ Positioned(index, data) /\ Placed(index, data, except) /\ UniqueBut(data, except)
  BY PlacedIsUnique DEF ViewOk
<1>2. n \in Nat /\ DOMAIN data = 1..n
  BY <1>1, Data
<1>3. pos \in 1..n + 1 /\ Fits(data, pos, item, sort)
  <2> DEFINE p == FindInsertPos(data, item, sort)
  <2>1. /\ p \in 0..n
        /\ \A i \in DOMAIN data : /\ i <= p => MakeSort(sort, data[i], item) <= 0
                                  /\ i > p => MakeSort(sort, item, data[i]) <= 0
    BY <1>1, InsertPos
  <2>2. pos = p + 1
    OBVIOUS
  <2> HIDE DEF p, pos, n
  <2>3. pos \in 1..n + 1
    BY <1>2, <2>1, <2>2
  <2>4. \A i \in DOMAIN data : (i < pos <=> i <= p) /\ (i >= pos <=> i > p)
    BY <1>2, <2>1, <2>2
  <2>5. QED
    BY <2>1, <2>3, <2>4 DEF Fits
<1> HIDE DEF pos
<1>4. /\ u \in Seq(Item) /\ Len(u) = n + 1 /\ DOMAIN u = 1..n + 1
      /\ \A j \in 1..n + 1 : u[j] = IF j < pos THEN data[j] ELSE IF j = pos THEN item ELSE data[j - 1]
  BY <1>1, <1>3, PutIn
<1>5. Sorted(u, sort) /\ ToSet(u) = ToSet(data) \cup {item}
  BY <1>1, <1>3, SortedPutIn
<1> HIDE DEF u, n
<1>6. UniqueBut(u, except)
  <2> SUFFICES ASSUME NEW i \in 1..n + 1, NEW j \in 1..n + 1, u[i].id = u[j].id, i # j,
                      u[i].id \notin except
               PROVE  FALSE
    BY <1>4 DEF UniqueBut
  <2> DEFINE k == IF i < pos THEN i ELSE i - 1
             m == IF j < pos THEN j ELSE j - 1
  <2>1. i # pos => u[i] = data[k] /\ k \in 1..n
    BY <1>2, <1>3, <1>4
  <2>2. j # pos => u[j] = data[m] /\ m \in 1..n
    BY <1>2, <1>3, <1>4
  <2>3. u[pos] = item
    <3>1. ~(pos < pos)
      BY <1>3
    <3>2. QED
      BY <1>3, <1>4, <3>1
  <2>4. i # pos /\ j # pos
    BY <1>2, <2>1, <2>2, <2>3 DEF Ids
  <2>5. k # m
    BY <1>2, <1>3, <2>4
  <2> HIDE DEF k, m
  <2>6. QED
    BY <1>1, <1>2, <2>1, <2>2, <2>4, <2>5 DEF UniqueBut
<1>7. x \in Maps(Nat) /\ Positioned(x, u) /\ Placed(x, u, except)
  <2> DEFINE to == Len(u)
  <2>1. pos \in Nat /\ to \in Nat /\ pos >= 1 /\ to <= Len(u) /\ to = n + 1
    BY <1>2, <1>3, <1>4
  <2>2. ASSUME NEW k \in DOMAIN index
        PROVE  \/ \E i \in pos..to : u[i].id = k
               \/ index[k] \in DOMAIN u /\ u[index[k]].id = k
    <3>1. index[k] \in 1..n /\ data[index[k]].id = k
      BY <1>1, <1>2 DEF Positioned
    <3>2. CASE index[k] < pos
      <4>1. index[k] \in 1..n + 1
        BY <1>2, <3>1
      <4>2. QED
        BY <1>4, <3>1, <3>2, <4>1
    <3>3. CASE ~(index[k] < pos)
      <4>1. index[k] + 1 \in pos..to /\ index[k] + 1 \in 1..n + 1 /\ ~(index[k] + 1 < pos)
            /\ index[k] + 1 # pos /\ (index[k] + 1) - 1 = index[k]
        BY <1>2, <1>3, <2>1, <3>1, <3>3
      <4>2. u[index[k] + 1] = data[index[k]]
        BY <1>4, <4>1
      <4>3. QED
        BY <3>1, <4>1, <4>2
    <3>4. QED
      BY <3>2, <3>3
  <2>3. ASSUME NEW j \in DOMAIN u, j \notin pos..to, u[j].id \notin except
        PROVE  u[j].id \in DOMAIN index /\ index[u[j].id] = j
    <3>1. j \in 1..n + 1 /\ j \in 1..n /\ j < pos
      BY <1>2, <1>3, <1>4, <2>1, <2>3
    <3>2. u[j] = data[j]
      BY <1>4, <3>1
    <3>3. QED
      BY <1>1, <1>2, <2>3, <3>1, <3>2 DEF Placed
  <2>4. x = Reindexed(index, u, pos, to)
    BY DEF x
  <2> HIDE DEF to, x
  <2>5. /\ Reindexed(index, u, pos, to) \in Maps(Nat)
        /\ Positioned(Reindexed(index, u, pos, to), u)
        /\ Placed(Reindexed(index, u, pos, to), u, except)
    BY <1>1, <1>4, <1>6, <2>1, <2>2, <2>3, Reindexing
  <2>6. QED
    BY <2>4, <2>5
<1>8. ViewOk(u, x, sort, except)
  BY <1>4, <1>5, <1>7 DEF ViewOk
<1>9. QED
  BY <1>5, <1>8 DEF u, x, pos

\* removeViewItemAt: what is left is sorted still, at the positions that were written again.
LEMMA Removed ==
  ASSUME NEW data, NEW index, NEW sort \in Orders, NEW except,
         ViewOk(data, index, sort, except), NEW pos \in DOMAIN data
  PROVE  LET u    == RemoveAt(data, pos)
             kept == [k \in DOMAIN index \ {data[pos].id} |-> index[k]]
         IN  /\ ViewOk(u, Reindexed(kept, u, pos, Len(u)), sort, except)
             /\ ToSet(u) = {data[i] : i \in DOMAIN data \ {pos}}
<1> DEFINE n == Len(data)
           u == RemoveAt(data, pos)
           kept == [k \in DOMAIN index \ {data[pos].id} |-> index[k]]
           x == Reindexed(kept, u, pos, Len(u))
<1>1. /\ data \in Seq(Item) /\ index \in Maps(Nat) /\ Sorted(data, sort)
      /\ Positioned(index, data) /\ Placed(index, data, except) /\ UniqueBut(data, except)
  BY PlacedIsUnique DEF ViewOk
<1>2. n \in Nat /\ DOMAIN data = 1..n /\ pos \in 1..n
  BY <1>1, Data
<1>4. /\ u \in Seq(Item) /\ Len(u) = n - 1 /\ DOMAIN u = 1..n - 1
      /\ \A j \in 1..n - 1 : u[j] = IF j < pos THEN data[j] ELSE data[j + 1]
  BY <1>1, TakenOut
<1>5. Sorted(u, sort) /\ ToSet(u) = {data[i] : i \in DOMAIN data \ {pos}}
  BY <1>1, SortedTakenOut
<1> HIDE DEF u, n
<1>6. UniqueBut(u, except)
  <2> SUFFICES ASSUME NEW i \in 1..n - 1, NEW j \in 1..n - 1, u[i].id = u[j].id, i # j,
                      u[i].id \notin except
               PROVE  FALSE
    BY <1>4 DEF UniqueBut
  <2> DEFINE k == IF i < pos THEN i ELSE i + 1
             m == IF j < pos THEN j ELSE j + 1
  <2>1. u[i] = data[k] /\ k \in 1..n /\ u[j] = data[m] /\ m \in 1..n
    BY <1>2, <1>4
  <2>2. k # m
    BY <1>2
  <2> HIDE DEF k, m
  <2>3. QED
    BY <1>1, <1>2, <2>1, <2>2 DEF UniqueBut
<1>3. /\ kept \in Maps(Nat) /\ DOMAIN kept = DOMAIN index \ {data[pos].id}
      /\ \A k \in DOMAIN kept : kept[k] = index[k]
  BY <1>1, MapsAre
<1> HIDE DEF kept
<1>7. x \in Maps(Nat) /\ Positioned(x, u) /\ Placed(x, u, except)
  <2> DEFINE to == Len(u)
  <2>1. pos \in Nat /\ to \in Nat /\ pos >= 1 /\ to <= Len(u) /\ to = n - 1
    BY <1>2, <1>4
  <2>2. ASSUME NEW k \in DOMAIN kept
        PROVE  \/ \E i \in pos..to : u[i].id = k
               \/ kept[k] \in DOMAIN u /\ u[kept[k]].id = k
    <3>1. kept[k] = index[k] /\ index[k] \in 1..n /\ data[index[k]].id = k /\ index[k] # pos
      BY <1>1, <1>2, <1>3 DEF Positioned
    <3>2. CASE index[k] < pos
      <4>1. index[k] \in 1..n - 1
        BY <1>2, <3>1, <3>2
      <4>2. QED
        BY <1>4, <3>1, <3>2, <4>1
    <3>3. CASE ~(index[k] < pos)
      <4>1. index[k] - 1 \in pos..to /\ index[k] - 1 \in 1..n - 1 /\ ~(index[k] - 1 < pos)
            /\ (index[k] - 1) + 1 = index[k]
        BY <1>2, <2>1, <3>1, <3>3
      <4>2. u[index[k] - 1] = data[index[k]]
        BY <1>4, <4>1
      <4>3. QED
        BY <3>1, <4>1, <4>2
    <3>4. QED
      BY <3>2, <3>3
  <2>3. ASSUME NEW j \in DOMAIN u, j \notin pos..to, u[j].id \notin except
        PROVE  u[j].id \in DOMAIN kept /\ kept[u[j].id] = j
    <3>1. j \in 1..n - 1 /\ j \in 1..n /\ j < pos /\ j # pos
      BY <1>2, <1>4, <2>1, <2>3
    <3>2. u[j] = data[j]
      BY <1>4, <3>1
    <3>3. data[j].id \in DOMAIN index /\ index[data[j].id] = j
      BY <1>1, <1>2, <2>3, <3>1, <3>2 DEF Placed
    <3>4. data[j].id # data[pos].id
      BY <1>1, <1>2, <2>3, <3>1, <3>2 DEF UniqueBut
    <3>5. QED
      BY <1>3, <3>2, <3>3, <3>4
  <2>4. x = Reindexed(kept, u, pos, to)
    BY DEF x
  <2> HIDE DEF to, x
  <2>5. /\ Reindexed(kept, u, pos, to) \in Maps(Nat)
        /\ Positioned(Reindexed(kept, u, pos, to), u)
        /\ Placed(Reindexed(kept, u, pos, to), u, except)
    BY <1>3, <1>4, <1>6, <2>1, <2>2, <2>3, Reindexing
  <2>6. QED
    BY <2>4, <2>5
<1>8. ViewOk(u, x, sort, except)
  BY <1>4, <1>5, <1>7 DEF ViewOk
<1>9. QED
  BY <1>5, <1>8 DEF u, x, kept

\* The flow is moved to where it is sorted, past its neighbours.
Climb(data, sort, item) == CHOOSE f : f = [p \in DOMAIN data |->
  IF p + 1 <= Len(data) /\ MakeSort(sort, item, data[p + 1]) > 0 THEN f[p + 1] ELSE p]
Sink(data, sort, item) == CHOOSE f : f = [p \in DOMAIN data |->
  IF p > 1 /\ MakeSort(sort, item, data[p - 1]) < 0 THEN f[p - 1] ELSE p]

\* Moved by neighbours in one direction, an item whose value changed is where it belongs.
LEMMA Settles ==
  ASSUME NEW data \in Seq(Item), NEW sort \in Orders, Sorted(data, sort),
         NEW item \in Item, NEW pos \in DOMAIN data, NEW up, NEW down, NEW target,
         up = Climb(data, sort, item), down = Sink(data, sort, item),
         target = IF up[pos] # pos THEN up[pos] ELSE down[pos]
  PROVE  target \in DOMAIN data /\ Fits(RemoveAt(data, pos), target, item, sort)
<1> DEFINE n == Len(data)
           Up(f) == f = [p \in DOMAIN data |->
              IF p + 1 <= Len(data) /\ MakeSort(sort, item, data[p + 1]) > 0 THEN f[p + 1] ELSE p]
           Down(f) == f = [p \in DOMAIN data |->
              IF p > 1 /\ MakeSort(sort, item, data[p - 1]) < 0 THEN f[p - 1] ELSE p]
           After == {i \in 1..n : MakeSort(sort, item, data[i]) > 0}
           Ahead == {i \in 1..n : MakeSort(sort, item, data[i]) < 0}
           w == RemoveAt(data, pos)
<1>1. n \in Nat /\ DOMAIN data = 1..n /\ pos \in 1..n /\ \A i \in 1..n : data[i] \in Item
  BY Data
<1>2. /\ DOMAIN w = 1..n - 1
      /\ \A j \in 1..n - 1 : w[j] = IF j < pos THEN data[j] ELSE data[j + 1]
  BY <1>1, TakenOut
<1>0. n = Len(data)
  OBVIOUS
<1>3. up = CHOOSE f : Up(f)
  BY DEF Climb
<1>4. down = CHOOSE f : Down(f)
  BY DEF Sink
<1> HIDE DEF n, w
<1>5. ASSUME NEW f PROVE Up(f) <=> ClimbsPast(f, n, After)
  <2>1. ASSUME NEW p \in 1..n
        PROVE  p + 1 <= n /\ MakeSort(sort, item, data[p + 1]) > 0
                 <=> p + 1 <= n /\ p + 1 \in After
    BY <1>1
  <2> HIDE DEF After
  <2>2. QED
    BY <1>0, <1>1, <2>1 DEF ClimbsPast
<1>6. ASSUME NEW f PROVE Down(f) <=> SinksPast(f, n, Ahead)
  <2>1. ASSUME NEW p \in 1..n
        PROVE  p > 1 /\ MakeSort(sort, item, data[p - 1]) < 0 <=> p > 1 /\ p - 1 \in Ahead
    BY <1>1
  <2> HIDE DEF Ahead
  <2>2. QED
    BY <1>1, <2>1 DEF SinksPast
<1>11. ASSUME NEW i \in 1..n
       PROVE  /\ i \in After <=> MakeSort(sort, item, data[i]) > 0
              /\ i \in Ahead <=> MakeSort(sort, item, data[i]) < 0
  OBVIOUS
<1> HIDE DEF After, Ahead
<1>7. ClimbsPast(up, n, After)
  <2>1. \E f : Up(f)
    <3>1. \E f : ClimbsPast(f, n, After)
      BY <1>1, Upwards
    <3> HIDE DEF Up
    <3>2. QED
      BY <1>5, <3>1
  <2> HIDE DEF Up
  <2>2. QED
    BY <1>3, <1>5, <2>1
<1>8. SinksPast(down, n, Ahead)
  <2>1. \E f : Down(f)
    <3>1. \E f : SinksPast(f, n, Ahead)
      BY <1>1, Downwards
    <3> HIDE DEF Down
    <3>2. QED
      BY <1>6, <3>1
  <2> HIDE DEF Down
  <2>2. QED
    BY <1>4, <1>6, <2>1
<1>9. /\ up[pos] \in pos..n /\ \A i \in pos + 1..up[pos] : i \in After
      /\ up[pos] = n \/ up[pos] + 1 \notin After
  BY <1>1, <1>7, Upwards
<1>10. /\ down[pos] \in 1..pos /\ \A i \in down[pos]..pos - 1 : i \in Ahead
       /\ down[pos] = 1 \/ down[pos] - 1 \notin Ahead
  BY <1>1, <1>8, Downwards
<1>13. target \in 1..n
  BY <1>1, <1>9, <1>10
<1>14. \A i, j \in 1..n : i < j => MakeSort(sort, data[i], data[j]) <= 0
  BY <1>1 DEF Sorted
<1>15. \A i \in 1..n : i \in After => MakeSort(sort, data[i], item) < 0
  BY <1>1, <1>11, Compares
<1>16. \A i \in 1..n : i \notin Ahead => MakeSort(sort, data[i], item) <= 0
  <2> SUFFICES ASSUME NEW i \in 1..n, i \notin Ahead PROVE MakeSort(sort, data[i], item) <= 0
    OBVIOUS
  <2>1. /\ MakeSort(sort, data[i], item) \in {-1, 0, 1}
        /\ MakeSort(sort, data[i], item) > 0 <=> MakeSort(sort, item, data[i]) < 0
    BY <1>1, Compares
  <2>2. QED
    BY <1>11, <2>1
<1>17. \A i \in 1..n : i \notin After => MakeSort(sort, item, data[i]) <= 0
  <2> SUFFICES ASSUME NEW i \in 1..n, i \notin After PROVE MakeSort(sort, item, data[i]) <= 0
    OBVIOUS
  <2>1. MakeSort(sort, item, data[i]) \in {-1, 0, 1}
    BY <1>1, Compares
  <2>2. QED
    BY <1>11, <2>1
<1>18. \A i, j \in 1..n : /\ i <= j /\ j \in After => MakeSort(sort, data[i], item) <= 0
                          /\ i <= j /\ j \notin Ahead => MakeSort(sort, data[i], item) <= 0
                          /\ j <= i /\ j \notin After => MakeSort(sort, item, data[i]) <= 0
  <2> SUFFICES ASSUME NEW i \in 1..n, NEW j \in 1..n
               PROVE  /\ i <= j /\ j \in After => MakeSort(sort, data[i], item) <= 0
                      /\ i <= j /\ j \notin Ahead => MakeSort(sort, data[i], item) <= 0
                      /\ j <= i /\ j \notin After => MakeSort(sort, item, data[i]) <= 0
    OBVIOUS
  <2>1. data[i] \in Item /\ data[j] \in Item
    BY <1>1
  <2>2. CASE i = j
    <3>0. MakeSort(sort, data[i], item) \in {-1, 0, 1}
      BY <2>1, Compares
    <3>1. MakeSort(sort, data[i], item) < 0 => MakeSort(sort, data[i], item) <= 0
      BY <3>0
    <3>2. QED
      BY <1>15, <1>16, <1>17, <2>2, <3>1
  <2>3. CASE i < j
    <3>1. MakeSort(sort, data[i], data[j]) <= 0 /\ ~(j <= i)
      BY <1>14, <2>3
    <3>2. MakeSort(sort, data[j], item) <= 0 => MakeSort(sort, data[i], item) <= 0
      BY <2>1, <3>1, Compares
    <3>3. MakeSort(sort, data[j], item) < 0 => MakeSort(sort, data[j], item) <= 0
      BY <2>1, Compares
    <3>4. QED
      BY <1>15, <1>16, <3>1, <3>2, <3>3
  <2>4. CASE j < i
    <3>1. MakeSort(sort, data[j], data[i]) <= 0 /\ ~(i <= j)
      BY <1>14, <2>4
    <3>2. MakeSort(sort, item, data[j]) <= 0 => MakeSort(sort, item, data[i]) <= 0
      BY <2>1, <3>1, Compares
    <3>3. QED
      BY <1>17, <3>1, <3>2
  <2>5. QED
    BY <2>2, <2>3, <2>4
<1>19. Fits(w, target, item, sort)
  <2> SUFFICES ASSUME NEW i \in 1..n - 1
               PROVE  /\ i < target => MakeSort(sort, w[i], item) <= 0
                      /\ i >= target => MakeSort(sort, item, w[i]) <= 0
    BY <1>2 DEF Fits
  <2>1. /\ i < pos => w[i] = data[i]
        /\ i >= pos => w[i] = data[i + 1]
        /\ i \in 1..n /\ i + 1 \in 1..n
    BY <1>1, <1>2
  <2>2. CASE up[pos] # pos
    <3>1. /\ target = up[pos] /\ target \in pos + 1..n /\ \A k \in pos + 1..target : k \in After
          /\ target = n \/ target + 1 \notin After
      <4>1. target = up[pos]
        BY <2>2
      <4>2. target \in pos..n /\ target # pos
        BY <1>9, <2>2, <4>1
      <4>3. target \in pos + 1..n
        BY <1>1, <4>2
      <4>4. QED
        BY <1>9, <4>1, <4>3
    <3>2. ASSUME i < target PROVE MakeSort(sort, w[i], item) <= 0
      <4>1. CASE i < pos
        <5>0. pos + 1 \in 1..n /\ pos + 1 \in pos + 1..target /\ i <= pos + 1
          BY <1>1, <3>1, <4>1
        <5>1. pos + 1 \in After
          BY <3>1, <5>0
        <5>2. QED
          BY <1>18, <2>1, <4>1, <5>0, <5>1
      <4>2. CASE i >= pos
        <5>1. i + 1 \in pos + 1..target /\ i + 1 <= i + 1
          BY <1>1, <3>1, <3>2, <4>2
        <5>2. QED
          BY <1>18, <2>1, <3>1, <4>2, <5>1
      <4>3. QED
        BY <1>1, <4>1, <4>2
    <3>3. ASSUME i >= target PROVE MakeSort(sort, item, w[i]) <= 0
      <4>1. i >= pos /\ target + 1 \in 1..n /\ target # n /\ target + 1 <= i + 1
        BY <1>1, <3>1, <3>3
      <4>2. QED
        BY <1>18, <2>1, <3>1, <4>1
    <3>4. QED
      BY <3>2, <3>3
  <2>3. CASE up[pos] = pos
    <3>1. /\ target = down[pos] /\ target \in 1..pos /\ \A k \in target..pos - 1 : k \in Ahead
          /\ target = 1 \/ target - 1 \notin Ahead
          /\ pos = n \/ pos + 1 \notin After
      BY <1>9, <1>10, <2>3
    <3>2. ASSUME i < target PROVE MakeSort(sort, w[i], item) <= 0
      <4>1. target - 1 \in 1..n /\ target # 1 /\ i <= target - 1 /\ i < pos
        BY <1>1, <3>1, <3>2
      <4>2. QED
        BY <1>18, <2>1, <3>1, <4>1
    <3>3. ASSUME i >= target PROVE MakeSort(sort, item, w[i]) <= 0
      <4>1. CASE i < pos
        <5>1. i \in target..pos - 1
          BY <1>1, <3>1, <3>3, <4>1
        <5>2. MakeSort(sort, item, data[i]) < 0 /\ MakeSort(sort, item, data[i]) \in {-1, 0, 1}
          BY <1>1, <1>11, <2>1, <3>1, <5>1, Compares
        <5>3. QED
          BY <2>1, <4>1, <5>2
      <4>2. CASE i >= pos
        <5>1. pos + 1 \in 1..n /\ pos # n /\ pos + 1 <= i + 1
          BY <1>1, <4>2
        <5>2. QED
          BY <1>18, <2>1, <3>1, <4>2, <5>1
      <4>3. QED
        BY <1>1, <4>1, <4>2
    <3>4. QED
      BY <3>2, <3>3
  <2>4. QED
    BY <2>2, <2>3
<1>20. QED
  BY <1>1, <1>13, <1>19 DEF w

LEMMA UpdatedIndex ==
  ASSUME NEW data, NEW index, NEW sort \in Orders, NEW except,
         ViewOk(data, index, sort, except), NEW item \in Item, item.id \in DOMAIN index,
         NEW pos, pos = index[item.id], NEW target \in DOMAIN data,
         NEW from \in Nat, NEW to \in Nat,
         \/ from = pos /\ to = target /\ pos <= target
         \/ from = target /\ to = pos /\ target <= pos
  PROVE  LET u == InsertAt(RemoveAt(data, pos), target, item)
             x == Reindexed(index, u, from, to)
         IN  x \in Maps(Nat) /\ Positioned(x, u) /\ Placed(x, u, except)
<1> DEFINE n == Len(data)
           u == InsertAt(RemoveAt(data, pos), target, item)
           src(j) == IF j = target THEN pos
                     ELSE IF pos <= j /\ j < target THEN j + 1
                     ELSE IF target < j /\ j <= pos THEN j - 1 ELSE j
           x == Reindexed(index, u, from, to)
<1>1. /\ data \in Seq(Item) /\ index \in Maps(Nat)
      /\ Positioned(index, data) /\ Placed(index, data, except) /\ UniqueBut(data, except)
  BY PlacedIsUnique DEF ViewOk
<1>2. n \in Nat /\ DOMAIN data = 1..n /\ pos \in 1..n /\ data[pos].id = item.id /\ target \in 1..n
  BY <1>1, Data DEF Positioned
<1>3. /\ u \in Seq(Item) /\ DOMAIN u = 1..n /\ Len(u) = n
      /\ \A j \in 1..n : u[j] =
           IF j = target THEN item
           ELSE data[IF pos <= j /\ j < target THEN j + 1
                     ELSE IF target < j /\ j <= pos THEN j - 1 ELSE j]
  <2>1. data \in Seq(Item) /\ pos \in DOMAIN data
    BY <1>1, <1>2
  <2>2. \A p, t \in DOMAIN data :
          LET m == InsertAt(RemoveAt(data, p), t, item)
          IN  /\ m \in Seq(Item) /\ DOMAIN m = DOMAIN data /\ Len(m) = Len(data)
              /\ \A j \in DOMAIN data : m[j] =
                   IF j = t THEN item
                   ELSE data[IF p <= j /\ j < t THEN j + 1
                             ELSE IF t < j /\ j <= p THEN j - 1 ELSE j]
    BY <2>1, Moved
  <2>3. /\ u \in Seq(Item) /\ DOMAIN u = DOMAIN data /\ Len(u) = Len(data)
        /\ \A j \in DOMAIN data : u[j] =
             IF j = target THEN item
             ELSE data[IF pos <= j /\ j < target THEN j + 1
                       ELSE IF target < j /\ j <= pos THEN j - 1 ELSE j]
    BY <2>1, <2>2
  <2> HIDE DEF u
  <2>4. QED
    BY <1>2, <2>3
<1> HIDE DEF u, n
<1>4. ASSUME NEW j \in 1..n
      PROVE  src(j) \in 1..n /\ u[j].id = data[src(j)].id
  <2>1. src(j) \in 1..n
    BY <1>2
  <2>2. CASE j = target
    BY <1>2, <1>3, <2>1, <2>2
  <2>3. CASE j # target
    <3>1. u[j] = data[src(j)]
      BY <1>3, <2>3
    <3> HIDE DEF src
    <3>2. QED
      BY <2>1, <3>1
  <2>4. QED
    BY <2>2, <2>3
<1>5. ASSUME NEW i \in 1..n, NEW j \in 1..n, src(i) = src(j) PROVE i = j
  <2>1. /\ i \in Int /\ j \in Int /\ pos \in Int /\ target \in Int
    BY <1>2
  <2>2. QED
    BY <1>5, <2>1
<1>6. UniqueBut(u, except)
  <2> SUFFICES ASSUME NEW i \in 1..n, NEW j \in 1..n, u[i].id = u[j].id, i # j,
                      u[i].id \notin except
               PROVE  FALSE
    BY <1>3 DEF UniqueBut
  <2>1. src(i) \in 1..n /\ src(j) \in 1..n /\ src(i) # src(j)
    BY <1>4, <1>5
  <2>2. data[src(i)].id = data[src(j)].id /\ data[src(i)].id \notin except
    BY <1>4
  <2> HIDE DEF src
  <2>3. QED
    BY <1>1, <1>2, <2>1, <2>2 DEF UniqueBut
<1>7. from >= 1 /\ to <= Len(u)
  BY <1>2, <1>3
<1>8. ASSUME NEW k \in DOMAIN index
      PROVE  \/ \E i \in from..to : u[i].id = k
             \/ index[k] \in DOMAIN u /\ u[index[k]].id = k
  <2> DEFINE i == index[k]
             j == IF i = pos THEN target
                  ELSE IF pos < i /\ i <= target THEN i - 1
                  ELSE IF target <= i /\ i < pos THEN i + 1 ELSE i
  <2>1. i \in 1..n /\ data[i].id = k
    BY <1>1, <1>2 DEF Positioned
  <2> HIDE DEF i
  <2>2. j \in 1..n /\ src(j) = i
    BY <1>2, <2>1
  <2>3. u[j].id = k
    BY <1>4, <2>1, <2>2
  <2>4. j \in from..to \/ j = i
    BY <1>2, <2>1
  <2> HIDE DEF j
  <2>5. QED
    BY <1>3, <2>2, <2>3, <2>4 DEF i
<1>9. ASSUME NEW j \in DOMAIN u, j \notin from..to, u[j].id \notin except
      PROVE  u[j].id \in DOMAIN index /\ index[u[j].id] = j
  <2>1. j \in 1..n /\ src(j) = j
    BY <1>2, <1>3, <1>9
  <2>2. u[j].id = data[j].id
    BY <1>4, <2>1
  <2>3. QED
    BY <1>1, <1>2, <1>9, <2>1, <2>2 DEF Placed
<1>10. x \in Maps(Nat) /\ Positioned(x, u) /\ Placed(x, u, except)
  BY <1>1, <1>3, <1>6, <1>7, <1>8, <1>9, Reindexing
<1>11. QED
  BY <1>10 DEF u

Updating(data, index, sort, except, item, pos, target, moved, y) ==
  /\ sort \in Orders /\ ViewOk(data, index, sort, except)
  /\ item \in Item /\ item.id \in DOMAIN index /\ pos = index[item.id]
  /\ target \in DOMAIN data /\ Fits(RemoveAt(data, pos), target, item, sort)
  /\ moved = InsertAt(RemoveAt(data, pos), target, item)
  /\ y = IF target >= pos THEN Reindexed(index, moved, pos, target)
                          ELSE Reindexed(index, moved, target, pos)

\* updateViewItem keeps the view sorted, its positions right, and the rest of it as it was.
LEMMA Updated ==
  ASSUME NEW data, NEW index, NEW sort, NEW except, NEW item, NEW pos, NEW target,
         NEW moved, NEW y, Updating(data, index, sort, except, item, pos, target, moved, y)
  PROVE  /\ ViewOk(moved, y, sort, except)
         /\ ToSet(moved) = {data[i] : i \in DOMAIN data \ {pos}} \cup {item}
<1>0. /\ sort \in Orders /\ ViewOk(data, index, sort, except)
      /\ item \in Item /\ item.id \in DOMAIN index /\ pos = index[item.id]
      /\ target \in DOMAIN data /\ Fits(RemoveAt(data, pos), target, item, sort)
      /\ moved = InsertAt(RemoveAt(data, pos), target, item)
      /\ y = IF target >= pos THEN Reindexed(index, moved, pos, target)
                              ELSE Reindexed(index, moved, target, pos)
  BY DEF Updating
<1> USE <1>0
<1> DEFINE w == RemoveAt(data, pos)
           u == InsertAt(w, target, item)
           x == IF target >= pos THEN Reindexed(index, u, pos, target)
                                 ELSE Reindexed(index, u, target, pos)
<1>1. /\ data \in Seq(Item) /\ Sorted(data, sort) /\ pos \in DOMAIN data
      /\ Len(data) \in Nat /\ DOMAIN data = 1..Len(data)
  BY Data DEF ViewOk, Positioned
<1>2. w \in Seq(Item) /\ Len(w) = Len(data) - 1 /\ Sorted(w, sort)
      /\ ToSet(w) = {data[i] : i \in DOMAIN data \ {pos}}
  BY <1>1, TakenOut, SortedTakenOut
<1> HIDE DEF w
<1>3. target \in 1..Len(w) + 1 /\ Fits(w, target, item, sort)
  <2>1. Fits(w, target, item, sort)
    BY DEF w
  <2>2. QED
    BY <1>1, <1>2, <2>1
<1>4. u \in Seq(Item) /\ Sorted(u, sort) /\ ToSet(u) = ToSet(w) \cup {item}
  <2>1. \A t \in 1..Len(w) + 1 : Fits(w, t, item, sort) =>
          /\ InsertAt(w, t, item) \in Seq(Item) /\ Sorted(InsertAt(w, t, item), sort)
          /\ ToSet(InsertAt(w, t, item)) = ToSet(w) \cup {item}
    BY <1>2, PutIn, SortedPutIn
  <2>2. QED
    BY <1>3, <2>1
<1>5. target \in Nat /\ pos \in Nat
  BY <1>1
<1>6. x \in Maps(Nat) /\ Positioned(x, u) /\ Placed(x, u, except)
  <2>1. CASE target >= pos
    <3>1. pos <= target
      BY <1>5, <2>1
    <3>2. x = Reindexed(index, u, pos, target)
      BY <2>1
    <3> HIDE DEF x
    <3>3. QED
      BY <1>5, <3>1, <3>2, UpdatedIndex DEF w
  <2>2. CASE ~(target >= pos)
    <3>1. target <= pos
      BY <1>5, <2>2
    <3>2. x = Reindexed(index, u, target, pos)
      BY <2>2
    <3> HIDE DEF x
    <3>3. QED
      BY <1>5, <3>1, <3>2, UpdatedIndex DEF w
  <2>3. QED
    BY <2>1, <2>2
<1>7. ViewOk(u, x, sort, except)
  <2> HIDE DEF u, x
  <2>1. QED
    BY <1>4, <1>6 DEF ViewOk
<1>8. moved = u /\ y = x
  BY DEF w
<1> HIDE DEF u, x
<1>9. QED
  BY <1>2, <1>4, <1>7, <1>8

-----------------------------------------------------------------------------
(* The list, its positions and the flows by id, after each change.         *)

IsWith(w, S, m, k, e) ==
  /\ w \in Maps(S) /\ DOMAIN w = DOMAIN m \cup {k} /\ w[k] = e
  /\ \A j \in DOMAIN m : j # k => w[j] = m[j]

LEMMA WithAre ==
  ASSUME NEW S, NEW m \in Maps(S), NEW k \in Flows, NEW e \in S
  PROVE  IsWith(With(m, k, e), S, m, k, e)
<1>1. DOMAIN m \in SUBSET Flows /\ \A j \in DOMAIN m : m[j] \in S
  BY MapsAre
<1> DEFINE w == With(m, k, e)
<1>2. /\ DOMAIN w = DOMAIN m \cup {k} /\ w[k] = e /\ \A j \in DOMAIN m : j # k => w[j] = m[j]
      /\ w = [j \in DOMAIN w |-> w[j]]
  BY DEF With
<1> HIDE DEF w
<1>3. w \in [DOMAIN w -> S] /\ DOMAIN w \in SUBSET Flows
  BY <1>1, <1>2
<1>4. w \in Maps(S)
  BY <1>3, MapsAre
<1>5. QED
  BY <1>2, <1>4 DEF w, IsWith

LEMMA Appended ==
  ASSUME NEW data \in Seq(Item), NEW flow \in Item
  PROVE  /\ Append(data, flow) \in Seq(Item) /\ Len(data) \in Nat /\ DOMAIN data = 1..Len(data)
         /\ Len(Append(data, flow)) = Len(data) + 1
         /\ DOMAIN Append(data, flow) = 1..Len(data) + 1
         /\ \A i \in 1..Len(data) : Append(data, flow)[i] = data[i]
         /\ Append(data, flow)[Len(data) + 1] = flow
         /\ ToSet(Append(data, flow)) = ToSet(data) \cup {flow}
         /\ Ids(Append(data, flow)) = Ids(data) \cup {flow.id}
<1> DEFINE u == Append(data, flow)
           n == Len(data)
<1>1. n \in Nat /\ DOMAIN data = 1..n
  BY Data
<1>2. u \in Seq(Item) /\ Len(u) = n + 1 /\ (\A i \in 1..n : u[i] = data[i]) /\ u[n + 1] = flow
  BY AppendProperties
<1>3. DOMAIN u = 1..n + 1
  BY <1>2, Data
<1> HIDE DEF u, n
<1>4. /\ \A j \in DOMAIN u : u[j] = flow \/ \E i \in DOMAIN data : u[j] = data[i]
      /\ \A i \in DOMAIN data : i \in DOMAIN u /\ u[i] = data[i]
      /\ n + 1 \in DOMAIN u
  <2>1. \A j \in 1..n + 1 : j \in 1..n \/ j = n + 1
    BY <1>1
  <2>2. n + 1 \in 1..n + 1 /\ \A i \in 1..n : i \in 1..n + 1
    BY <1>1
  <2>3. QED
    BY <1>1, <1>2, <1>3, <2>1, <2>2
<1>5. ToSet(u) = ToSet(data) \cup {flow}
  <2>1. ToSet(u) = {u[j] : j \in DOMAIN u} /\ ToSet(data) = {data[i] : i \in DOMAIN data}
    BY DEF ToSet
  <2>2. QED
    BY <1>2, <1>4, <2>1
<1>6. Ids(u) = Ids(data) \cup {flow.id}
  <2>1. Ids(u) = {u[j].id : j \in DOMAIN u} /\ Ids(data) = {data[i].id : i \in DOMAIN data}
    BY DEF Ids
  <2>2. QED
    BY <1>2, <1>4, <2>1
<1>7. QED
  BY <1>1, <1>2, <1>3, <1>5, <1>6 DEF u, n

LEMMA IdsAre ==
  ASSUME NEW data
  PROVE  /\ \A g \in ToSet(data) : g.id \in Ids(data)
         /\ \A id \in Ids(data) : \E g \in ToSet(data) : g.id = id
         /\ \A i \in DOMAIN data : data[i] \in ToSet(data) /\ data[i].id \in Ids(data)
         /\ \A g \in ToSet(data) : \E i \in DOMAIN data : data[i] = g
BY DEF Ids, ToSet

\* The list with its positions and the flows by id: a flow is appended ...
LEMMA ListAdded ==
  ASSUME NEW list, NEW index, NEW byId, NEW R, ListOk(list, index, byId, R),
         NEW flow \in Item, flow.id \notin DOMAIN index
  PROVE  /\ ListOk(Append(list, flow), With(index, flow.id, Len(list) + 1),
                   With(byId, flow.id, flow), R)
         /\ flow.id \in R \/ flow.id \notin Ids(list)
<1> DEFINE u == Append(list, flow)
           n == Len(list)
           k == flow.id
           x == With(index, k, n + 1)
           b == With(byId, k, flow)
<1>1. /\ list \in Seq(Item) /\ index \in Maps(Nat) /\ byId \in Maps(Item)
      /\ Positioned(index, list) /\ Placed(index, list, R)
  BY DEF ListOk
<1>2. k \in Flows
  BY DEF Item
<1>3. /\ u \in Seq(Item) /\ n \in Nat /\ DOMAIN list = 1..n /\ DOMAIN u = 1..n + 1
      /\ (\A i \in 1..n : u[i] = list[i]) /\ u[n + 1] = flow /\ Ids(u) = Ids(list) \cup {k}
  BY <1>1, Appended
<1>4. /\ x \in Maps(Nat) /\ DOMAIN x = DOMAIN index \cup {k} /\ x[k] = n + 1
      /\ \A j \in DOMAIN index : j # k => x[j] = index[j]
  <2>1. n + 1 \in Nat
    BY <1>3
  <2> HIDE DEF n, k
  <2>2. IsWith(x, Nat, index, k, n + 1)
    BY <1>1, <1>2, <2>1, WithAre
  <2> HIDE DEF x
  <2>3. QED
    BY <2>2 DEF IsWith
<1>5. /\ b \in Maps(Item) /\ DOMAIN b = DOMAIN byId \cup {k} /\ b[k] = flow
      /\ \A j \in DOMAIN byId : j # k => b[j] = byId[j]
  <2> HIDE DEF k
  <2>1. IsWith(b, Item, byId, k, flow)
    BY <1>1, <1>2, WithAre
  <2> HIDE DEF b
  <2>2. QED
    BY <2>1 DEF IsWith
<1>6. k \in R \/ k \notin Ids(list)
  BY <1>1 DEF Ids, Placed
<1> HIDE DEF u, n, x, b
<1>7. Positioned(x, u)
  <2> SUFFICES ASSUME NEW id \in DOMAIN x PROVE x[id] \in DOMAIN u /\ u[x[id]].id = id
    BY DEF Positioned
  <2>1. CASE id = k
    <3>1. n + 1 \in 1..n + 1
      BY <1>3
    <3>2. QED
      BY <1>3, <1>4, <2>1, <3>1
  <2>2. CASE id # k
    <3>1. id \in DOMAIN index /\ x[id] = index[id]
      BY <1>4, <2>2
    <3>2. index[id] \in 1..n /\ list[index[id]].id = id
      BY <1>1, <1>3, <3>1 DEF Positioned
    <3>3. index[id] \in 1..n + 1
      BY <1>3, <3>2
    <3>4. QED
      BY <1>3, <3>1, <3>2, <3>3
  <2>3. QED
    BY <2>1, <2>2
<1>8. ASSUME NEW i \in DOMAIN u, u[i].id \notin R
      PROVE  /\ u[i].id \in DOMAIN x /\ x[u[i].id] = i
             /\ u[i].id \in DOMAIN b /\ b[u[i].id] = u[i]
  <2>1. CASE i = n + 1
    BY <1>3, <1>4, <1>5, <2>1
  <2>2. CASE i # n + 1
    <3>1. i \in 1..n
      BY <1>3, <2>2
    <3>2. u[i] = list[i] /\ list[i].id \in Ids(list) /\ list[i].id # k
      BY <1>3, <1>6, <1>8, <3>1 DEF Ids
    <3>3. list[i].id \in DOMAIN index /\ index[list[i].id] = i
      BY <1>1, <1>3, <1>8, <3>1, <3>2 DEF Placed
    <3>4. list[i].id \in DOMAIN byId /\ byId[list[i].id] = list[i]
      BY <1>3, <1>8, <3>1, <3>2 DEF ListOk
    <3>5. QED
      BY <1>4, <1>5, <3>2, <3>3, <3>4
  <2>3. QED
    BY <2>1, <2>2
<1>9. \A id \in DOMAIN b : b[id].id = id
  BY <1>5 DEF ListOk
<1>10. \A id \in DOMAIN b \ R : id \in Ids(u)
  BY <1>3, <1>5 DEF ListOk
<1>11. Placed(x, u, R)
  BY <1>8 DEF Placed
<1>12. ListOk(u, x, b, R)
  BY <1>3, <1>4, <1>5, <1>7, <1>8, <1>9, <1>10, <1>11 DEF ListOk
<1>13. QED
  BY <1>6, <1>12 DEF u, n, x, b

\* An update of a flow that has no position: it is appended, without one.
LEMMA ListRevived ==
  ASSUME NEW list, NEW index, NEW byId, NEW R, ListOk(list, index, byId, R),
         NEW flow \in Item, flow.id \notin DOMAIN index
  PROVE  ListOk(Append(list, flow), index, With(byId, flow.id, flow), R \cup {flow.id})
<1> DEFINE u == Append(list, flow)
           n == Len(list)
           k == flow.id
           b == With(byId, k, flow)
<1>1. /\ list \in Seq(Item) /\ index \in Maps(Nat) /\ byId \in Maps(Item)
      /\ Positioned(index, list) /\ Placed(index, list, R)
  BY DEF ListOk
<1>2. k \in Flows
  BY DEF Item
<1>3. /\ u \in Seq(Item) /\ n \in Nat /\ DOMAIN list = 1..n /\ DOMAIN u = 1..n + 1
      /\ (\A i \in 1..n : u[i] = list[i]) /\ u[n + 1] = flow /\ Ids(u) = Ids(list) \cup {k}
  BY <1>1, Appended
<1>5. /\ b \in Maps(Item) /\ DOMAIN b = DOMAIN byId \cup {k} /\ b[k] = flow
      /\ \A j \in DOMAIN byId : j # k => b[j] = byId[j]
  <2> HIDE DEF k
  <2>1. IsWith(b, Item, byId, k, flow)
    BY <1>1, <1>2, WithAre
  <2> HIDE DEF b
  <2>2. QED
    BY <2>1 DEF IsWith
<1> HIDE DEF u, n, b
<1>7. Positioned(index, u)
  <2> SUFFICES ASSUME NEW id \in DOMAIN index PROVE index[id] \in DOMAIN u /\ u[index[id]].id = id
    BY DEF Positioned
  <2>2. index[id] \in 1..n /\ list[index[id]].id = id
    BY <1>1, <1>3 DEF Positioned
  <2>3. index[id] \in 1..n + 1
    BY <1>3, <2>2
  <2>4. QED
    BY <1>3, <2>2, <2>3
<1>8. ASSUME NEW i \in DOMAIN u, u[i].id \notin R \cup {k}
      PROVE  /\ u[i].id \in DOMAIN index /\ index[u[i].id] = i
             /\ u[i].id \in DOMAIN b /\ b[u[i].id] = u[i]
  <2>1. i \in 1..n
    BY <1>3, <1>8
  <2>2. u[i] = list[i] /\ list[i].id # k
    BY <1>3, <1>8, <2>1
  <2>3. list[i].id \in DOMAIN index /\ index[list[i].id] = i
    BY <1>1, <1>3, <1>8, <2>1, <2>2 DEF Placed
  <2>4. list[i].id \in DOMAIN byId /\ byId[list[i].id] = list[i]
    BY <1>3, <1>8, <2>1, <2>2 DEF ListOk
  <2>5. QED
    BY <1>5, <2>2, <2>3, <2>4
<1>9. \A id \in DOMAIN b : b[id].id = id
  BY <1>5 DEF ListOk
<1>10. \A id \in DOMAIN b \ (R \cup {k}) : id \in Ids(u)
  BY <1>3, <1>5 DEF ListOk
<1>11. Placed(index, u, R \cup {k})
  BY <1>8 DEF Placed
<1>12. ListOk(u, index, b, R \cup {k})
  BY <1>1, <1>3, <1>5, <1>7, <1>8, <1>9, <1>10, <1>11 DEF ListOk
<1>13. QED
  BY <1>12 DEF u, b

\* ... a flow is replaced by its new version ...
LEMMA ListUpdated ==
  ASSUME NEW list, NEW index, NEW byId, NEW R, ListOk(list, index, byId, R),
         NEW flow \in Item, flow.id \in DOMAIN index,
         NEW u, u = [list EXCEPT ![index[flow.id]] = flow]
  PROVE  /\ ListOk(u, index, With(byId, flow.id, flow), R)
         /\ flow \in ToSet(u) /\ Ids(u) = Ids(list)
         /\ \A g \in ToSet(list) : g.id # flow.id => g \in ToSet(u)
         /\ \A g \in ToSet(u) : g = flow \/ g \in ToSet(list)
         /\ flow.id \notin R => \A g \in ToSet(u) : g.id = flow.id => g = flow
<1> DEFINE k == flow.id
           p == index[k]
           b == With(byId, k, flow)
<1>1. /\ list \in Seq(Item) /\ index \in Maps(Nat) /\ byId \in Maps(Item)
      /\ Positioned(index, list) /\ Placed(index, list, R)
      /\ p \in DOMAIN list /\ list[p].id = k
  BY DEF ListOk, Positioned
<1>2. k \in Flows
  BY DEF Item
<1>3. /\ u \in Seq(Item) /\ DOMAIN u = DOMAIN list
      /\ \A i \in DOMAIN list : u[i] = IF i = p THEN flow ELSE list[i]
  <2>0. u = [list EXCEPT ![p] = flow]
    OBVIOUS
  <2> HIDE DEF p
  <2>1. [list EXCEPT ![p] = flow] \in Seq(Item)
    BY <1>1, ExceptSeq
  <2>2. /\ DOMAIN [list EXCEPT ![p] = flow] = DOMAIN list
        /\ \A i \in DOMAIN list : [list EXCEPT ![p] = flow][i] = IF i = p THEN flow ELSE list[i]
    BY <1>1
  <2>3. QED
    BY <2>0, <2>1, <2>2
<1>5. /\ b \in Maps(Item) /\ DOMAIN b = DOMAIN byId \cup {k} /\ b[k] = flow
      /\ \A j \in DOMAIN byId : j # k => b[j] = byId[j]
  <2> HIDE DEF k
  <2>1. IsWith(b, Item, byId, k, flow)
    BY <1>1, <1>2, WithAre
  <2> HIDE DEF b
  <2>2. QED
    BY <2>1 DEF IsWith
<1> HIDE DEF p, b
<1>6. \A i \in DOMAIN list : u[i].id = list[i].id /\ (u[i] = list[i] \/ u[i] = flow)
  BY <1>1, <1>3
<1>7. Positioned(index, u)
  BY <1>1, <1>3, <1>6 DEF Positioned
<1>8. Placed(index, u, R)
  BY <1>1, <1>3, <1>6 DEF Placed
<1>9. ASSUME NEW i \in DOMAIN u, u[i].id \notin R
      PROVE  u[i].id \in DOMAIN b /\ b[u[i].id] = u[i]
  <2>1. CASE i = p
    BY <1>3, <1>5, <2>1
  <2>2. CASE i # p
    <3>1. u[i] = list[i] /\ list[i].id \notin R /\ i \in DOMAIN list
      BY <1>3, <1>9, <2>2
    <3>2. list[i].id # k
      <4>1. index[list[i].id] = i
        BY <1>1, <3>1 DEF Placed
      <4>2. QED
        BY <2>2, <4>1 DEF p
    <3>3. list[i].id \in DOMAIN byId /\ byId[list[i].id] = list[i]
      BY <3>1 DEF ListOk
    <3>4. QED
      BY <1>5, <3>1, <3>2, <3>3
  <2>3. QED
    BY <2>1, <2>2
<1>10. Ids(u) = Ids(list)
  <2>1. DOMAIN u = DOMAIN list /\ \A i \in DOMAIN list : u[i].id = list[i].id
    BY <1>3, <1>6
  <2>2. ASSUME NEW f \in Ids(u) PROVE f \in Ids(list)
    <3>1. PICK i \in DOMAIN u : u[i].id = f
      BY DEF Ids
    <3>2. i \in DOMAIN list /\ list[i].id = f
      BY <2>1, <3>1
    <3>3. QED
      BY <3>2 DEF Ids
  <2>3. ASSUME NEW f \in Ids(list) PROVE f \in Ids(u)
    <3>1. PICK i \in DOMAIN list : list[i].id = f
      BY DEF Ids
    <3>2. i \in DOMAIN u /\ u[i].id = f
      BY <2>1, <3>1
    <3>3. QED
      BY <3>2 DEF Ids
  <2>4. QED
    BY <2>2, <2>3, SetExtensionality
<1>11. \A id \in DOMAIN b : b[id].id = id
  BY <1>5 DEF ListOk
<1>12. k \in Ids(list)
  BY <1>1 DEF Ids
<1>13. \A id \in DOMAIN b \ R : id \in Ids(u)
  BY <1>5, <1>10, <1>12 DEF ListOk
<1>14. ListOk(u, index, b, R)
  BY <1>1, <1>3, <1>5, <1>7, <1>8, <1>9, <1>11, <1>13 DEF ListOk
<1>15. /\ flow \in ToSet(u) /\ \A g \in ToSet(list) : g.id # k => g \in ToSet(u)
       /\ \A g \in ToSet(u) : g = flow \/ g \in ToSet(list)
  BY <1>1, <1>3 DEF ToSet
<1>16. k \notin R => \A g \in ToSet(u) : g.id = k => g = flow
  BY <1>5, <1>9 DEF ToSet
<1>17. QED
  BY <1>10, <1>14, <1>15, <1>16 DEF b, p

\* ... a flow is removed ...
LEMMA ListRemoved ==
  ASSUME NEW list, NEW index, NEW byId, NEW R, ListOk(list, index, byId, R),
         NEW id \in DOMAIN index
  PROVE  LET u == RemoveAt(list, index[id])
         IN  /\ ListOk(u, BuildIndex(u), Without(byId, id), R)
             /\ \A g \in ToSet(list) : g.id # id => g \in ToSet(u)
             /\ \A g \in ToSet(u) : g \in ToSet(list)
             /\ id \notin R => id \notin Ids(u)
<1> DEFINE p == index[id]
           u == RemoveAt(list, p)
           x == BuildIndex(u)
           b == Without(byId, id)
<1>1. /\ list \in Seq(Item) /\ index \in Maps(Nat) /\ byId \in Maps(Item)
      /\ Positioned(index, list) /\ Placed(index, list, R)
      /\ p \in DOMAIN list /\ list[p].id = id /\ UniqueBut(list, R)
  BY PlacedIsUnique DEF ListOk, Positioned
<1>2. UniqueBut(u, R) /\ u \in Seq(Item) /\ ToSet(u) = {list[i] : i \in DOMAIN list \ {p}}
  <2> DEFINE sort == [column |-> FALSE, desc |-> FALSE]
  <2>1. sort \in Orders /\ \A c, d : MakeSort(sort, c, d) = 0
    BY DEF Orders, MakeSort
  <2>2. Sorted(list, sort)
    BY <2>1 DEF Sorted
  <2>3. ViewOk(list, index, sort, R)
    BY <1>1, <2>2 DEF ViewOk
  <2> HIDE DEF sort, p
  <2>4. /\ ViewOk(u, Reindexed([k \in DOMAIN index \ {list[p].id} |-> index[k]], u, p, Len(u)), sort, R)
        /\ ToSet(u) = {list[i] : i \in DOMAIN list \ {p}}
    BY <1>1, <2>1, <2>3, Removed
  <2>5. QED
    BY <2>4, PlacedIsUnique DEF ViewOk
<1> HIDE DEF u, p
<1>3. x \in Maps(Nat) /\ Positioned(x, u) /\ Placed(x, u, R)
  BY <1>2, Built
<1>4. /\ b \in Maps(Item) /\ DOMAIN b = DOMAIN byId \ {id} /\ \A k \in DOMAIN b : b[k] = byId[k]
  BY <1>1, MapsAre DEF Without
<1>5. \A i \in DOMAIN list : i # p => list[i] \in ToSet(u)
  BY <1>2
<1>6. \A g \in ToSet(u) : \E i \in DOMAIN list : i # p /\ g = list[i]
  BY <1>2
<1> HIDE DEF x, b
<1>7. id \notin R => id \notin Ids(u)
  <2>1. SUFFICES ASSUME id \notin R, NEW g \in ToSet(u), g.id = id PROVE FALSE
    BY IdsAre
  <2>2. PICK i \in DOMAIN list : i # p /\ g = list[i]
    BY <1>6
  <2>3. QED
    BY <1>1, <2>1, <2>2 DEF UniqueBut
<1>8. ASSUME NEW j \in DOMAIN u, u[j].id \notin R PROVE u[j].id \in DOMAIN b /\ b[u[j].id] = u[j]
  <2>1. u[j] \in ToSet(u) /\ u[j].id \in Ids(u)
    BY IdsAre
  <2>2. PICK i \in DOMAIN list : i # p /\ u[j] = list[i]
    BY <1>6, <2>1
  <2>3. u[j].id \in DOMAIN byId /\ byId[u[j].id] = u[j]
    BY <1>8, <2>2 DEF ListOk
  <2>4. u[j].id # id
    BY <1>7, <1>8, <2>1
  <2>5. QED
    BY <1>4, <2>3, <2>4
<1>9. \A k \in DOMAIN b : b[k].id = k
  BY <1>4 DEF ListOk
<1>10. ASSUME NEW k \in DOMAIN b \ R PROVE k \in Ids(u)
  <2>1. k \in Ids(list) /\ k # id
    BY <1>4, <1>10 DEF ListOk
  <2>2. PICK i \in DOMAIN list : list[i].id = k
    BY <2>1 DEF Ids
  <2>3. i # p
    BY <1>1, <2>1, <2>2
  <2>4. QED
    BY <1>5, <2>2, <2>3, IdsAre
<1>11. ListOk(u, x, b, R)
  BY <1>2, <1>3, <1>4, <1>8, <1>9, <1>10 DEF ListOk
<1>12. /\ \A g \in ToSet(list) : g.id # id => g \in ToSet(u)
       /\ \A g \in ToSet(u) : g \in ToSet(list)
  BY <1>1, <1>5, <1>6 DEF ToSet
<1>13. QED
  BY <1>7, <1>11, <1>12 DEF u, x, b, p

\* ... and the list is fetched.
LEMMA ListReceived ==
  ASSUME NEW list \in Lists
  PROVE  ListOk(list, BuildIndex(list), ById(list), {}) /\ DOMAIN ById(list) = Ids(list)
<1> DEFINE x == BuildIndex(list)
           b == ById(list)
<1>1. list \in Seq(Item) /\ UniqueBut(list, {})
  BY DEF Lists, Unique, UniqueBut
<1>2. /\ x \in Maps(Nat) /\ DOMAIN x = Ids(list) /\ Positioned(x, list) /\ Placed(x, list, {})
  BY <1>1, Built
<1>3. DOMAIN b = DOMAIN x /\ (\A k \in DOMAIN b : b[k] = list[x[k]]) /\ b = [k \in DOMAIN b |-> b[k]]
  BY DEF ById
<1> HIDE DEF x, b
<1>4. \A k \in DOMAIN b : b[k] \in Item /\ b[k].id = k
  BY <1>1, <1>2, <1>3, Data DEF Positioned
<1>5. b \in Maps(Item)
  <2>1. DOMAIN b \in SUBSET Flows
    BY <1>1, <1>2, <1>3, Data
  <2>2. b \in [DOMAIN b -> Item]
    BY <1>3, <1>4
  <2>3. QED
    BY <2>1, <2>2, MapsAre
<1>6. \A i \in DOMAIN list : list[i].id \in DOMAIN b /\ b[list[i].id] = list[i]
  BY <1>2, <1>3 DEF Placed
<1>7. ListOk(list, x, b, {})
  BY <1>1, <1>2, <1>3, <1>4, <1>5, <1>6 DEF ListOk
<1>8. QED
  BY <1>2, <1>3, <1>7 DEF x, b

-----------------------------------------------------------------------------
(* The three ways to change the view, on the store.                        *)

\* All but the view and its positions is as it was.
ViewOnly(s, t) ==
  /\ t \in Stores /\ t.list = s.list /\ t.listIndex = s.listIndex /\ t.byId = s.byId
  /\ t.sort = s.sort /\ t.selected = s.selected /\ t.selectedIds = s.selectedIds
  /\ t.highlightedIds = s.highlightedIds /\ t.resurrected = s.resurrected
  /\ t.swallowed = s.swallowed /\ t.revived = s.revived /\ t.linked = s.linked

ViewIs(s, t, v, y) == ViewOnly(s, t) /\ t.view = v /\ t.viewIndex = y

LEMMA ViewReplaced ==
  ASSUME NEW s \in Stores, NEW v \in Seq(Item), NEW y \in Maps(Nat)
  PROVE  ViewIs(s, [s EXCEPT !.view = v, !.viewIndex = y], v, y)
BY DEF Stores, ViewOnly, ViewIs

LEMMA InsertsViewItem ==
  ASSUME NEW s \in Stores, NEW R, ViewOk(s.view, s.viewIndex, s.sort, R), NEW item \in Item,
         item.id \in R \/ item.id \notin Ids(s.view)
  PROVE  LET t == InsertViewItem(s, item)
         IN  /\ ViewOnly(s, t) /\ ViewOk(t.view, t.viewIndex, s.sort, R)
             /\ ToSet(t.view) = ToSet(s.view) \cup {item}
<1> DEFINE pos == FindInsertPos(s.view, item, s.sort) + 1
           v == InsertAt(s.view, pos, item)
           y == Reindexed(s.viewIndex, v, pos, Len(v))
<1>1. s.sort \in Orders
  BY DEF Stores
<1>2. ViewOk(v, y, s.sort, R) /\ ToSet(v) = ToSet(s.view) \cup {item}
  BY <1>1, Inserted
<1>3. InsertViewItem(s, item) = [s EXCEPT !.view = v, !.viewIndex = y]
  BY DEF InsertViewItem
<1> HIDE DEF pos, v, y
<1>4. v \in Seq(Item) /\ y \in Maps(Nat)
  BY <1>2 DEF ViewOk
<1>5. ViewIs(s, InsertViewItem(s, item), v, y)
  <2>1. ViewIs(s, [s EXCEPT !.view = v, !.viewIndex = y], v, y)
    BY <1>4, ViewReplaced
  <2>2. QED
    BY <1>3, <2>1
<1>6. QED
  BY <1>2, <1>5 DEF ViewIs

LEMMA RemovesViewItemAt ==
  ASSUME NEW s \in Stores, NEW R, ViewOk(s.view, s.viewIndex, s.sort, R),
         NEW pos \in DOMAIN s.view
  PROVE  LET t == RemoveViewItemAt(s, pos)
         IN  /\ ViewOnly(s, t) /\ ViewOk(t.view, t.viewIndex, s.sort, R)
             /\ ToSet(t.view) = {s.view[i] : i \in DOMAIN s.view \ {pos}}
<1> DEFINE v == RemoveAt(s.view, pos)
           kept == [k \in DOMAIN s.viewIndex \ {s.view[pos].id} |-> s.viewIndex[k]]
           y == Reindexed(kept, v, pos, Len(v))
<1>1. s.sort \in Orders
  BY DEF Stores
<1>2. ViewOk(v, y, s.sort, R) /\ ToSet(v) = {s.view[i] : i \in DOMAIN s.view \ {pos}}
  BY <1>1, Removed
<1>3. RemoveViewItemAt(s, pos) = [s EXCEPT !.view = v, !.viewIndex = y]
  BY DEF RemoveViewItemAt
<1> HIDE DEF v, y
<1>4. v \in Seq(Item) /\ y \in Maps(Nat)
  BY <1>2 DEF ViewOk
<1>5. ViewIs(s, RemoveViewItemAt(s, pos), v, y)
  <2>1. ViewIs(s, [s EXCEPT !.view = v, !.viewIndex = y], v, y)
    BY <1>4, ViewReplaced
  <2>2. QED
    BY <1>3, <2>1
<1>6. QED
  BY <1>2, <1>5 DEF ViewIs

LEMMA UpdatesViewItem ==
  ASSUME NEW s \in Stores, NEW R, ViewOk(s.view, s.viewIndex, s.sort, R), NEW item \in Item,
         item.id \in DOMAIN s.viewIndex
  PROVE  LET t == UpdateViewItem(s, item)
         IN  /\ ViewOnly(s, t) /\ ViewOk(t.view, t.viewIndex, s.sort, R)
             /\ ToSet(t.view) =
                  {s.view[i] : i \in DOMAIN s.view \ {s.viewIndex[item.id]}} \cup {item}
<1> DEFINE view == s.view
           pos == s.viewIndex[item.id]
           up == CHOOSE f : f = [p \in DOMAIN view |->
              IF p + 1 <= Len(view) /\ MakeSort(s.sort, item, view[p + 1]) > 0 THEN f[p + 1] ELSE p]
           down == CHOOSE f : f = [p \in DOMAIN view |->
              IF p > 1 /\ MakeSort(s.sort, item, view[p - 1]) < 0 THEN f[p - 1] ELSE p]
           target == IF up[pos] # pos THEN up[pos] ELSE down[pos]
           v == InsertAt(RemoveAt(view, pos), target, item)
           y == IF target >= pos THEN Reindexed(s.viewIndex, v, pos, target)
                                 ELSE Reindexed(s.viewIndex, v, target, pos)
<1>1. s.sort \in Orders /\ view \in Seq(Item) /\ Sorted(view, s.sort) /\ pos \in DOMAIN view
  BY DEF Stores, ViewOk, Positioned
<1>2. UpdateViewItem(s, item) = [s EXCEPT !.view = v, !.viewIndex = y]
  BY DEF UpdateViewItem
<1>3. target \in DOMAIN view /\ Fits(RemoveAt(view, pos), target, item, s.sort)
  <2>1. /\ up = Climb(view, s.sort, item) /\ down = Sink(view, s.sort, item)
        /\ target = IF up[pos] # pos THEN up[pos] ELSE down[pos]
    BY DEF Climb, Sink
  <2> HIDE DEF up, down, target, view, pos
  <2>2. QED
    BY <1>1, <2>1, Settles
<1> HIDE DEF up, down, target
<1>4. ViewOk(v, y, s.sort, R) /\ ToSet(v) = {view[i] : i \in DOMAIN view \ {pos}} \cup {item}
  <2>1. /\ ViewOk(view, s.viewIndex, s.sort, R) /\ item.id \in DOMAIN s.viewIndex
        /\ pos = s.viewIndex[item.id]
    OBVIOUS
  <2>2. PICK index : index = s.viewIndex
    OBVIOUS
  <2>3. PICK sort : sort = s.sort
    OBVIOUS
  <2>4. /\ ViewOk(view, index, sort, R) /\ item.id \in DOMAIN index /\ pos = index[item.id]
        /\ target \in DOMAIN view /\ Fits(RemoveAt(view, pos), target, item, sort)
        /\ sort \in Orders
    BY <1>1, <1>3, <2>1, <2>2, <2>3
  <2>5. /\ v = InsertAt(RemoveAt(view, pos), target, item)
        /\ y = IF target >= pos THEN Reindexed(index, v, pos, target)
                                ELSE Reindexed(index, v, target, pos)
    BY <2>2
  <2> HIDE DEF view, pos, v, y
  <2>6. ViewOk(v, y, sort, R) /\ ToSet(v) = {view[i] : i \in DOMAIN view \ {pos}} \cup {item}
    <3>1. Updating(view, index, sort, R, item, pos, target, v, y)
      BY <2>4, <2>5 DEF Updating
    <3>2. QED
      BY <3>1, Updated
  <2>7. QED
    BY <2>3, <2>6
<1> HIDE DEF v, y
<1>5. v \in Seq(Item) /\ y \in Maps(Nat)
  BY <1>4 DEF ViewOk
<1>6. ViewIs(s, UpdateViewItem(s, item), v, y)
  <2>1. ViewIs(s, [s EXCEPT !.view = v, !.viewIndex = y], v, y)
    BY <1>5, ViewReplaced
  <2>2. QED
    BY <1>2, <2>1
<1>7. QED
  BY <1>4, <1>6 DEF ViewIs

-----------------------------------------------------------------------------
(* The branches of the reducer: what they keep, and what they change.      *)

LEMMA StoreIs ==
  ASSUME NEW s, StoreKept(s)
  PROVE  /\ s \in Stores /\ s.list \in Seq(Item) /\ s.view \in Seq(Item) /\ s.selected \in Seq(Item)
         /\ s.sort \in Orders /\ s.listIndex \in Maps(Nat) /\ s.byId \in Maps(Item)
         /\ s.viewIndex \in Maps(Nat) /\ s.selectedIds \in SUBSET Flows
         /\ s.highlightedIds \in SUBSET Flows /\ s.resurrected \in SUBSET Flows
         /\ s.swallowed \in SUBSET Flows /\ s.revived \in SUBSET Flows /\ s.linked \in SUBSET Flows
         /\ ListOk(s.list, s.listIndex, s.byId, s.resurrected)
         /\ ViewOk(s.view, s.viewIndex, s.sort, s.resurrected)
         /\ Current(s.list, s.view, s.resurrected) /\ Current(s.list, s.selected, s.resurrected)
         /\ s.selectedIds = Ids(s.selected) /\ UniqueBut(s.selected, s.revived)
         /\ s.resurrected \subseteq s.revived
BY DEF StoreKept, Stores

\* t says of f what s says of it.
Untold(s, t, f) ==
  /\ Entry(t.list, f) = Entry(s.list, f)
  /\ f \in Ids(t.view) <=> f \in Ids(s.view)
  /\ f \in t.highlightedIds <=> f \in s.highlightedIds

\* t says of f what a message with this flow said.
Tells(t, flow, matching) ==
  /\ Entry(t.list, flow.id) = {flow}
  /\ flow.id \in Ids(t.view) <=> matching.search # "no"
  /\ matching.highlight = "yes" => flow.id \in t.highlightedIds

LEMMA CurrentIs ==
  ASSUME NEW list, NEW data, NEW R
  PROVE  Current(list, data, R) <=> \A g \in ToSet(data) : g.id \notin R => g \in ToSet(list)
BY DEF Current, ToSet

\* A flow that has no position is not there.
LEMMA Absent ==
  ASSUME NEW data, NEW index, NEW R, Placed(index, data, R), NEW k, k \notin DOMAIN index, k \notin R
  PROVE  k \notin Ids(data)
BY DEF Placed, Ids

LEMMA EntryIs ==
  ASSUME NEW data, NEW other, NEW f,
         \A g \in ToSet(data) : g.id = f => g \in ToSet(other),
         \A g \in ToSet(other) : g.id = f => g \in ToSet(data)
  PROVE  Entry(data, f) = Entry(other, f) /\ (f \in Ids(data) <=> f \in Ids(other))
<1>1. Entry(data, f) = Entry(other, f)
  BY DEF Entry
<1>2. f \in Ids(data) <=> \E g \in ToSet(data) : g.id = f
  BY IdsAre
<1>3. f \in Ids(other) <=> \E g \in ToSet(other) : g.id = f
  BY IdsAre
<1>4. QED
  BY <1>1, <1>2, <1>3

\* FLOWS_ADD: the flow is in the list, and in the view if the filter matches it.
LEMMA Adds ==
  ASSUME NEW s, StoreKept(s), NEW flow \in Item, NEW matching
  PROVE  LET t == FlowsAdd(s, flow, matching)
         IN  /\ StoreKept(t) /\ t.resurrected = s.resurrected /\ t.linked = s.linked
             /\ s.swallowed \subseteq t.swallowed
             /\ \A f \in Flows : f # flow.id => Untold(s, t, f)
             /\ flow.id \notin t.resurrected =>
                  \/ Tells(t, flow, matching)
                  \/ /\ flow.id \in t.swallowed /\ flow.id \in Ids(t.list)
                     /\ Entry(t.list, flow.id) = Entry(s.list, flow.id)
<1> DEFINE t == FlowsAdd(s, flow, matching)
           k == flow.id
           R == s.resurrected
<1>1. k \in Flows
  BY DEF Item
<1>2. CASE k \in DOMAIN s.listIndex
  <2>1. t = [s EXCEPT !.swallowed = @ \cup {k}]
    BY <1>2 DEF FlowsAdd
  <2> HIDE DEF t
  <2>2. /\ t \in Stores /\ t.swallowed = s.swallowed \cup {k}
        /\ t.list = s.list /\ t.listIndex = s.listIndex /\ t.byId = s.byId
        /\ t.view = s.view /\ t.viewIndex = s.viewIndex /\ t.sort = s.sort
        /\ t.selected = s.selected /\ t.selectedIds = s.selectedIds
        /\ t.highlightedIds = s.highlightedIds /\ t.resurrected = s.resurrected
        /\ t.revived = s.revived /\ t.linked = s.linked
    <3>1. s \in Stores
      BY StoreIs
    <3>2. QED
      BY <1>1, <2>1, <3>1 DEF Stores
  <2>3. StoreKept(t)
    BY <2>2, StoreIs DEF StoreKept
  <2>4. \A f \in Flows : Untold(s, t, f)
    BY <2>2 DEF Untold
  <2>5. k \in Ids(t.list)
    <3>1. Positioned(s.listIndex, s.list)
      BY StoreIs DEF ListOk
    <3>2. QED
      BY <1>2, <2>2, <3>1 DEF Positioned, Ids
  <2>6. QED
    BY <2>2, <2>3, <2>4, <2>5 DEF t
<1>3. CASE k \notin DOMAIN s.listIndex
  <2> DEFINE list == Append(s.list, flow)
             index == With(s.listIndex, k, Len(s.list) + 1)
             byId == With(s.byId, k, flow)
             added == [s EXCEPT !.list = Append(@, flow),
                                !.listIndex = With(@, flow.id, Len(s.list) + 1),
                                !.byId = With(@, flow.id, flow)]
             hasNew == matching.search # "no"
             shown == IF hasNew THEN InsertViewItem(added, flow) ELSE added
             highlighted == IF matching.highlight = "yes" THEN s.highlightedIds \cup {k}
                                                         ELSE s.highlightedIds
  <2>1. t = [shown EXCEPT !.highlightedIds =
                IF matching.highlight = "yes" THEN @ \cup {flow.id} ELSE @]
    BY <1>3 DEF FlowsAdd
  <2>2. ListOk(list, index, byId, R) /\ (k \in R \/ k \notin Ids(s.list))
    BY <1>3, StoreIs, ListAdded
  <2>3. list \in Seq(Item) /\ ToSet(list) = ToSet(s.list) \cup {flow}
    BY StoreIs, Appended
  <2>4. /\ added \in Stores /\ added.list = list /\ added.listIndex = index /\ added.byId = byId
        /\ added.view = s.view /\ added.viewIndex = s.viewIndex /\ added.sort = s.sort
        /\ added.selected = s.selected /\ added.selectedIds = s.selectedIds
        /\ added.highlightedIds = s.highlightedIds /\ added.resurrected = s.resurrected
        /\ added.swallowed = s.swallowed /\ added.revived = s.revived /\ added.linked = s.linked
    <3>1. index \in Maps(Nat) /\ byId \in Maps(Item)
      BY <2>2 DEF ListOk
    <3>2. added = [s EXCEPT !.list = list, !.listIndex = index, !.byId = byId]
      OBVIOUS
    <3>3. s \in Stores
      BY StoreIs
    <3> HIDE DEF list, index, byId, added
    <3>4. QED
      BY <2>3, <3>1, <3>2, <3>3 DEF Stores
  <2> HIDE DEF list, index, byId, added
  <2>5. k \in R \/ k \notin Ids(s.view)
    <3>1. SUFFICES ASSUME k \notin R, k \in Ids(s.view) PROVE FALSE
      OBVIOUS
    <3>2. PICK g \in ToSet(s.view) : g.id = k
      BY <3>1, IdsAre
    <3>3. g \in ToSet(s.list)
      BY <3>1, <3>2, StoreIs, CurrentIs
    <3>4. QED
      BY <2>2, <3>1, <3>2, <3>3, IdsAre
  <2>6. /\ ViewOnly(added, shown) /\ ViewOk(shown.view, shown.viewIndex, s.sort, R)
        /\ ToSet(shown.view) = IF hasNew THEN ToSet(s.view) \cup {flow} ELSE ToSet(s.view)
    <3>1. CASE hasNew
      <4>1. shown = InsertViewItem(added, flow)
        BY <3>1
      <4>2. ViewOk(added.view, added.viewIndex, added.sort, R)
        BY <2>4, StoreIs
      <4> HIDE DEF shown, hasNew
      <4>3. QED
        BY <2>4, <2>5, <3>1, <4>1, <4>2, InsertsViewItem
    <3>2. CASE ~hasNew
      <4>1. shown = added
        BY <3>2
      <4> HIDE DEF shown, hasNew
      <4>2. QED
        BY <2>4, <3>2, <4>1, StoreIs DEF ViewOnly
    <3>3. QED
      BY <3>1, <3>2
  <2> HIDE DEF t, shown, hasNew
  <2>7. /\ t \in Stores /\ t.list = list /\ t.listIndex = index /\ t.byId = byId
        /\ t.view = shown.view /\ t.viewIndex = shown.viewIndex /\ t.sort = s.sort
        /\ t.selected = s.selected /\ t.selectedIds = s.selectedIds
        /\ t.highlightedIds = highlighted /\ t.resurrected = s.resurrected
        /\ t.swallowed = s.swallowed /\ t.revived = s.revived /\ t.linked = s.linked
    <3>1. shown \in Stores /\ highlighted \in SUBSET Flows
      BY <1>1, <2>6, StoreIs DEF ViewOnly
    <3>2. shown.highlightedIds = s.highlightedIds
      BY <2>4, <2>6 DEF ViewOnly
    <3>3. t = [shown EXCEPT !.highlightedIds = highlighted]
      BY <2>1, <3>1, <3>2 DEF Stores
    <3> HIDE DEF highlighted
    <3>4. /\ t \in Stores /\ t.list = shown.list /\ t.listIndex = shown.listIndex
          /\ t.byId = shown.byId /\ t.sort = shown.sort
          /\ t.view = shown.view /\ t.viewIndex = shown.viewIndex
          /\ t.selected = shown.selected /\ t.selectedIds = shown.selectedIds
          /\ t.highlightedIds = highlighted /\ t.resurrected = shown.resurrected
          /\ t.swallowed = shown.swallowed /\ t.revived = shown.revived /\ t.linked = shown.linked
      BY <3>1, <3>3 DEF Stores
    <3>5. QED
      BY <2>4, <2>6, <3>4 DEF ViewOnly
  <2>8. Current(list, s.view, R) /\ Current(list, s.selected, R)
    BY <2>3, StoreIs, CurrentIs
  <2>9. Current(list, t.view, R)
    BY <2>3, <2>6, <2>7, <2>8, CurrentIs
  <2>10. StoreKept(t)
    BY <2>2, <2>6, <2>7, <2>8, <2>9, StoreIs DEF StoreKept
  <2>11. ASSUME NEW f \in Flows, f # k PROVE Untold(s, t, f)
    <3>1. \A g \in ToSet(t.list) : g.id = f => g \in ToSet(s.list)
      BY <2>3, <2>7, <2>11
    <3>2. \A g \in ToSet(s.list) : g.id = f => g \in ToSet(t.list)
      BY <2>3, <2>7
    <3>3. \A g \in ToSet(t.view) : g.id = f => g \in ToSet(s.view)
      BY <2>6, <2>7, <2>11
    <3>4. \A g \in ToSet(s.view) : g.id = f => g \in ToSet(t.view)
      BY <2>6, <2>7
    <3>5. f \in t.highlightedIds <=> f \in s.highlightedIds
      BY <2>7, <2>11
    <3>6. QED
      BY <3>1, <3>2, <3>3, <3>4, <3>5, EntryIs DEF Untold
  <2>12. ASSUME k \notin R PROVE Tells(t, flow, matching)
    <3>1. \A g \in ToSet(s.list) : g.id # k
      BY <2>2, <2>12, IdsAre
    <3>2. Entry(t.list, k) = {flow}
      BY <2>3, <2>7, <3>1 DEF Entry
    <3>3. k \in Ids(t.view) <=> \E g \in ToSet(t.view) : g.id = k
      BY IdsAre
    <3>4. ~\E g \in ToSet(s.view) : g.id = k
      BY <2>5, <2>12, IdsAre
    <3>5. k \in Ids(t.view) <=> matching.search # "no"
      BY <2>6, <2>7, <3>3, <3>4 DEF hasNew
    <3>6. matching.highlight = "yes" => k \in t.highlightedIds
      BY <2>7
    <3>7. QED
      BY <3>2, <3>5, <3>6 DEF Tells
  <2>13. QED
    BY <2>7, <2>10, <2>11, <2>12 DEF t
<1>4. QED
  BY <1>2, <1>3

LEMMA Mapped ==
  ASSUME NEW S, NEW T, NEW data \in Seq(S), NEW u \in [DOMAIN data -> T]
  PROVE  u \in Seq(T) /\ Len(u) = Len(data) /\ DOMAIN u = DOMAIN data
<1>1. Len(data) \in Nat /\ DOMAIN data = 1..Len(data)
  BY LenProperties
<1>2. PICK n \in Nat : n = Len(data)
  BY <1>1
<1>3. u \in [1..n -> T] /\ DOMAIN u = 1..n
  BY <1>1, <1>2
<1>4. u \in Seq(T)
  BY <1>2, <1>3
<1>5. Len(u) = n
  <2>1. Len(u) \in Nat /\ DOMAIN u = 1..Len(u)
    BY <1>4, LenProperties
  <2>2. QED
    BY <1>2, <1>3, <2>1
<1>6. QED
  BY <1>1, <1>2, <1>3, <1>4, <1>5

LEMMA ViewOkMore ==
  ASSUME NEW view, NEW index, NEW sort, NEW R, NEW Q, ViewOk(view, index, sort, R), R \subseteq Q
  PROVE  ViewOk(view, index, sort, Q)
BY DEF ViewOk, Placed

ViewUpdated(s, flow, hasNew) ==
  CASE hasNew /\ ~(flow.id \in DOMAIN s.viewIndex) -> InsertViewItem(s, flow)
    [] ~hasNew /\ flow.id \in DOMAIN s.viewIndex -> RemoveViewItemAt(s, s.viewIndex[flow.id])
    [] hasNew /\ flow.id \in DOMAIN s.viewIndex -> UpdateViewItem(s, flow)
    [] OTHER -> s

ViewFollows(s, t, R, flow, hasNew) ==
  /\ ViewOnly(s, t) /\ ViewOk(t.view, t.viewIndex, s.sort, R)
  /\ \A g \in ToSet(t.view) : g = flow \/ (g \in ToSet(s.view) /\ (g.id # flow.id \/ g.id \in R))
  /\ \A g \in ToSet(s.view) : g.id # flow.id => g \in ToSet(t.view)
  /\ flow.id \notin R => (flow.id \in Ids(t.view) <=> hasNew)

\* The view of an update: none of the old versions of the flow is left.
LEMMA UpdatesView ==
  ASSUME NEW s \in Stores, NEW R, ViewOk(s.view, s.viewIndex, s.sort, R), NEW flow \in Item,
         NEW hasNew \in BOOLEAN, NEW t, t = ViewUpdated(s, flow, hasNew)
  PROVE  ViewFollows(s, t, R, flow, hasNew)
<1> DEFINE k == flow.id
           p == s.viewIndex[k]
<1>1. /\ Positioned(s.viewIndex, s.view) /\ Placed(s.viewIndex, s.view, R)
      /\ UniqueBut(s.view, R)
  BY PlacedIsUnique DEF ViewOk
<1>2. \A f : f \in Ids(s.view) <=> \E g \in ToSet(s.view) : g.id = f
  BY IdsAre
<1>3. \A f : f \in Ids(t.view) <=> \E g \in ToSet(t.view) : g.id = f
  BY IdsAre
<1>4. CASE k \notin DOMAIN s.viewIndex
  <2>1. k \in R \/ k \notin Ids(s.view)
    BY <1>1, <1>4, Absent
  <2>2. CASE hasNew
    <3>1. t = InsertViewItem(s, flow)
      BY <1>4, <2>2 DEF ViewUpdated
    <3>2. /\ ViewOnly(s, t) /\ ViewOk(t.view, t.viewIndex, s.sort, R)
          /\ ToSet(t.view) = ToSet(s.view) \cup {flow}
      BY <2>1, <3>1, InsertsViewItem
    <3>3. QED
      BY <1>2, <1>3, <2>1, <2>2, <3>2 DEF ViewFollows
  <2>3. CASE ~hasNew
    <3>1. t = s
      BY <1>4, <2>3 DEF ViewUpdated
    <3>2. ViewOnly(s, t)
      BY <3>1 DEF ViewOnly
    <3>3. QED
      BY <1>2, <1>3, <2>1, <2>3, <3>1, <3>2 DEF ViewFollows
  <2>4. QED
    BY <2>2, <2>3
<1>5. CASE k \in DOMAIN s.viewIndex
  <2>1. p \in DOMAIN s.view /\ s.view[p].id = k
    BY <1>1, <1>5 DEF Positioned
  <2> DEFINE others == {s.view[i] : i \in DOMAIN s.view \ {p}}
  <2>2. \A g \in others : g \in ToSet(s.view) /\ (g.id # k \/ g.id \in R)
    BY <1>1, <2>1, IdsAre DEF UniqueBut
  <2>3. \A g \in ToSet(s.view) : g.id # k => g \in others
    BY <2>1 DEF ToSet
  <2>4. CASE hasNew
    <3>1. t = UpdateViewItem(s, flow)
      BY <1>5, <2>4 DEF ViewUpdated
    <3>2. /\ ViewOnly(s, t) /\ ViewOk(t.view, t.viewIndex, s.sort, R)
          /\ ToSet(t.view) = others \cup {flow}
      BY <1>5, <3>1, UpdatesViewItem
    <3> HIDE DEF others
    <3>3. QED
      BY <1>2, <1>3, <2>2, <2>3, <2>4, <3>2 DEF ViewFollows
  <2>5. CASE ~hasNew
    <3>1. t = RemoveViewItemAt(s, p)
      BY <1>5, <2>5 DEF ViewUpdated
    <3>2. /\ ViewOnly(s, t) /\ ViewOk(t.view, t.viewIndex, s.sort, R) /\ ToSet(t.view) = others
      <4> HIDE DEF p
      <4>1. QED
        BY <2>1, <3>1, RemovesViewItemAt
    <3> HIDE DEF others
    <3>3. QED
      BY <1>2, <1>3, <2>2, <2>3, <2>5, <3>2 DEF ViewFollows
  <2>6. QED
    BY <2>4, <2>5
<1>6. QED
  BY <1>4, <1>5

\* FLOWS_UPDATE: the list, the view and the selection have the new version, and the view is sorted.
LEMMA Updates ==
  ASSUME NEW s, StoreKept(s), NEW flow \in Item, NEW matching
  PROVE  LET t == FlowsUpdate(s, flow, matching)
         IN  /\ StoreKept(t) /\ s.resurrected \subseteq t.resurrected /\ t.linked = s.linked
             /\ s.swallowed \subseteq t.swallowed \cup {flow.id}
             /\ \A f \in Flows : f # flow.id => Untold(s, t, f)
             /\ flow.id \notin t.resurrected => Tells(t, flow, matching)
<1> DEFINE t == FlowsUpdate(s, flow, matching)
           k == flow.id
           known == k \in DOMAIN s.listIndex
           R == IF known THEN s.resurrected ELSE s.resurrected \cup {k}
           V == IF known THEN s.revived ELSE s.revived \cup {k}
           hasNew == matching.search # "no"
           list == IF known THEN [s.list EXCEPT ![s.listIndex[k]] = flow] ELSE Append(s.list, flow)
           byId == With(s.byId, k, flow)
           listed == [s EXCEPT !.list = IF known THEN [@ EXCEPT ![s.listIndex[flow.id]] = flow]
                                                 ELSE Append(@, flow),
                               !.byId = With(@, flow.id, flow)]
           shown == CASE hasNew /\ ~(k \in DOMAIN s.viewIndex) -> InsertViewItem(listed, flow)
                      [] ~hasNew /\ k \in DOMAIN s.viewIndex -> RemoveViewItemAt(listed, s.viewIndex[k])
                      [] hasNew /\ k \in DOMAIN s.viewIndex -> UpdateViewItem(listed, flow)
                      [] OTHER -> listed
           selected == [i \in DOMAIN s.selected |->
                          IF s.selected[i].id = k THEN flow ELSE s.selected[i]]
           highlighted == IF matching.highlight = "yes" THEN s.highlightedIds \cup {k}
                                                       ELSE s.highlightedIds \ {k}
           swallowed == s.swallowed \ {k}
<1>1. k \in Flows
  BY DEF Item
<1>2. t = [shown EXCEPT
            !.selected = [i \in DOMAIN @ |-> IF @[i].id = flow.id THEN flow ELSE @[i]],
            !.highlightedIds = IF matching.highlight = "yes" THEN @ \cup {flow.id}
                                                             ELSE @ \ {flow.id},
            !.resurrected = IF known THEN @ ELSE @ \cup {flow.id},
            !.revived = IF known THEN @ ELSE @ \cup {flow.id},
            !.swallowed = @ \ {flow.id}]
  BY DEF FlowsUpdate
<1>3. /\ ListOk(list, s.listIndex, byId, R) /\ flow \in ToSet(list)
      /\ \A g \in ToSet(s.list) : g.id # k => g \in ToSet(list)
      /\ \A g \in ToSet(list) : g = flow \/ g \in ToSet(s.list)
      /\ k \notin R => \A g \in ToSet(list) : g.id = k => g = flow
  <2>1. CASE known
    <3>1. list = [s.list EXCEPT ![s.listIndex[flow.id]] = flow] /\ R = s.resurrected
      BY <2>1
    <3>2. ListOk(s.list, s.listIndex, s.byId, s.resurrected)
      BY StoreIs
    <3> HIDE DEF list, R
    <3>3. QED
      BY <2>1, <3>1, <3>2, ListUpdated
  <2>2. CASE ~known
    <3>1. ListOk(list, s.listIndex, byId, R) /\ k \in R
      BY <2>2, StoreIs, ListRevived
    <3>2. ToSet(list) = ToSet(s.list) \cup {flow}
      BY <2>2, StoreIs, Appended
    <3>3. QED
      BY <3>1, <3>2
  <2>3. QED
    BY <2>1, <2>2
<1>4. /\ R \in SUBSET Flows /\ V \in SUBSET Flows /\ R \subseteq V /\ s.resurrected \subseteq R
      /\ s.revived \subseteq V
  BY <1>1, StoreIs
<1> HIDE DEF R, V
<1>5. /\ listed \in Stores /\ listed.list = list /\ listed.byId = byId
      /\ listed.listIndex = s.listIndex
      /\ listed.view = s.view /\ listed.viewIndex = s.viewIndex /\ listed.sort = s.sort
      /\ listed.selected = s.selected /\ listed.selectedIds = s.selectedIds
      /\ listed.highlightedIds = s.highlightedIds /\ listed.resurrected = s.resurrected
      /\ listed.swallowed = s.swallowed /\ listed.revived = s.revived /\ listed.linked = s.linked
  <2>1. list \in Seq(Item) /\ byId \in Maps(Item)
    BY <1>3 DEF ListOk
  <2>2. s \in Stores
    BY StoreIs
  <2>3. listed = [s EXCEPT !.list = list, !.byId = byId]
    BY <2>2 DEF Stores
  <2> HIDE DEF list, byId, listed
  <2>4. QED
    BY <2>1, <2>2, <2>3 DEF Stores
<1> HIDE DEF list, byId, listed
<1>6. /\ ViewOnly(listed, shown) /\ ViewOk(shown.view, shown.viewIndex, s.sort, R)
      /\ \A g \in ToSet(shown.view) : g = flow \/ (g \in ToSet(s.view) /\ (g.id # k \/ g.id \in R))
      /\ \A g \in ToSet(s.view) : g.id # k => g \in ToSet(shown.view)
      /\ k \notin R => (k \in Ids(shown.view) <=> hasNew)
  <2>1. ViewOk(listed.view, listed.viewIndex, listed.sort, R)
    BY <1>4, <1>5, StoreIs, ViewOkMore
  <2>2. hasNew \in BOOLEAN
    OBVIOUS
  <2> HIDE DEF hasNew
  <2>3. shown = ViewUpdated(listed, flow, hasNew)
    BY <1>5 DEF ViewUpdated
  <2> HIDE DEF shown
  <2>4. QED
    <3>1. ViewFollows(listed, shown, R, flow, hasNew)
      BY <1>5, <2>1, <2>2, <2>3, UpdatesView
    <3>2. QED
      BY <1>5, <3>1 DEF ViewFollows
<1>7. /\ selected \in Seq(Item) /\ DOMAIN selected = DOMAIN s.selected
      /\ \A i \in DOMAIN s.selected : /\ selected[i].id = s.selected[i].id
                                      /\ selected[i] = flow \/ selected[i] = s.selected[i]
                                      /\ selected[i].id = k => selected[i] = flow
  <2>1. \A i \in DOMAIN s.selected : s.selected[i] \in Item
    BY StoreIs, Data
  <2>2. selected \in [DOMAIN s.selected -> Item]
    BY <2>1
  <2>3. selected \in Seq(Item)
    <3> HIDE DEF selected
    <3>1. QED
      BY <2>2, StoreIs, Mapped
  <2>4. QED
    BY <2>3
<1>8. highlighted \in SUBSET Flows /\ swallowed \in SUBSET Flows
  BY <1>1, StoreIs
<1> HIDE DEF t, shown
<1>9. /\ t \in Stores /\ t.list = list /\ t.byId = byId /\ t.listIndex = s.listIndex
      /\ t.view = shown.view /\ t.viewIndex = shown.viewIndex /\ t.sort = s.sort
      /\ t.selected = selected /\ t.selectedIds = s.selectedIds
      /\ t.highlightedIds = highlighted /\ t.resurrected = R
      /\ t.swallowed = swallowed /\ t.revived = V /\ t.linked = s.linked
  <2>1. /\ shown \in Stores /\ shown.selected = s.selected /\ shown.resurrected = s.resurrected
        /\ shown.highlightedIds = s.highlightedIds /\ shown.swallowed = s.swallowed
        /\ shown.revived = s.revived
    BY <1>5, <1>6 DEF ViewOnly
  <2>2. t = [shown EXCEPT !.selected = selected, !.highlightedIds = highlighted,
                          !.resurrected = R, !.revived = V, !.swallowed = swallowed]
    BY <1>2, <2>1 DEF Stores, R, V
  <2> HIDE DEF selected, highlighted, swallowed
  <2>3. /\ t \in Stores /\ t.list = shown.list /\ t.byId = shown.byId
        /\ t.listIndex = shown.listIndex
        /\ t.view = shown.view /\ t.viewIndex = shown.viewIndex /\ t.sort = shown.sort
        /\ t.selected = selected /\ t.selectedIds = shown.selectedIds
        /\ t.highlightedIds = highlighted /\ t.resurrected = R
        /\ t.swallowed = swallowed /\ t.revived = V /\ t.linked = shown.linked
    BY <1>4, <1>7, <1>8, <2>1, <2>2 DEF Stores
  <2>4. QED
    BY <1>5, <1>6, <2>3 DEF ViewOnly
<1> HIDE DEF selected
<1>10. Current(list, t.view, R)
  <2>1. \A g \in ToSet(s.view) : g.id \notin s.resurrected => g \in ToSet(s.list)
    BY StoreIs, CurrentIs
  <2>2. \A g \in ToSet(t.view) : g.id \notin R => g \in ToSet(list)
    BY <1>3, <1>4, <1>6, <1>9, <2>1
  <2>3. QED
    BY <2>2, CurrentIs
<1>11. Current(list, selected, R)
  <2> SUFFICES ASSUME NEW i \in DOMAIN selected, selected[i].id \notin R
               PROVE  selected[i] \in ToSet(list)
    BY DEF Current
  <2>1. CASE selected[i] = flow
    BY <1>3, <2>1
  <2>2. CASE selected[i] # flow
    <3>1. selected[i] = s.selected[i] /\ i \in DOMAIN s.selected /\ s.selected[i].id # k
      BY <1>7, <2>2
    <3>2. s.selected[i] \in ToSet(s.list)
      BY <1>4, <3>1, StoreIs DEF Current
    <3>3. QED
      BY <1>3, <3>1, <3>2
  <2>3. QED
    BY <2>1, <2>2
<1>12. s.selectedIds = Ids(selected)
  <2>1. /\ Ids(selected) = {selected[i].id : i \in DOMAIN selected}
        /\ Ids(s.selected) = {s.selected[i].id : i \in DOMAIN s.selected}
    BY DEF Ids
  <2>2. QED
    BY <1>7, <2>1, StoreIs
<1>13. UniqueBut(selected, V)
  BY <1>4, <1>7, StoreIs DEF UniqueBut
<1>14. StoreKept(t)
  BY <1>3, <1>4, <1>6, <1>9, <1>10, <1>11, <1>12, <1>13 DEF StoreKept
<1>15. ASSUME NEW f \in Flows, f # k PROVE Untold(s, t, f)
  <2>1. \A g \in ToSet(t.list) : g.id = f => g \in ToSet(s.list)
    BY <1>3, <1>9, <1>15
  <2>2. \A g \in ToSet(s.list) : g.id = f => g \in ToSet(t.list)
    BY <1>3, <1>9, <1>15
  <2>3. \A g \in ToSet(t.view) : g.id = f => g \in ToSet(s.view)
    BY <1>6, <1>9, <1>15
  <2>4. \A g \in ToSet(s.view) : g.id = f => g \in ToSet(t.view)
    BY <1>6, <1>9, <1>15
  <2>5. f \in t.highlightedIds <=> f \in s.highlightedIds
    BY <1>9, <1>15
  <2>6. QED
    BY <2>1, <2>2, <2>3, <2>4, <2>5, EntryIs DEF Untold
<1>16. ASSUME k \notin R PROVE Tells(t, flow, matching)
  <2>1. Entry(t.list, k) = {flow}
    BY <1>3, <1>9, <1>16 DEF Entry
  <2>2. k \in Ids(t.view) <=> matching.search # "no"
    BY <1>6, <1>9, <1>16
  <2>3. matching.highlight = "yes" => k \in t.highlightedIds
    BY <1>9
  <2>4. QED
    BY <2>1, <2>2, <2>3 DEF Tells
<1>17. QED
  BY <1>4, <1>9, <1>14, <1>15, <1>16 DEF t

\* A selection of flows of the list, or revived ones.
Selectable(list, data, R, V) == data \in Seq(Item) /\ Current(list, data, R) /\ UniqueBut(data, V)

LEMMA SelectsOne ==
  ASSUME NEW list, NEW g \in Item, NEW R, NEW V, g.id \in R \/ g \in ToSet(list)
  PROVE  Selectable(list, <<g>>, R, V)
<1>1. <<g>> \in Seq(Item) /\ DOMAIN <<g>> = {1} /\ <<g>>[1] = g
  OBVIOUS
<1> DEFINE u == <<g>>
<1> HIDE DEF u
<1>2. u \in Seq(Item) /\ DOMAIN u = {1} /\ u[1] = g
  BY <1>1 DEF u
<1>3. Selectable(list, u, R, V)
  BY <1>2 DEF Selectable, Current, UniqueBut
<1>4. QED
  BY <1>3 DEF u

LEMMA SelectsNone ==
  ASSUME NEW list, NEW R, NEW V
  PROVE  Selectable(list, << >>, R, V)
<1>1. << >> \in Seq(Item) /\ DOMAIN << >> = {}
  OBVIOUS
<1> DEFINE u == << >>
<1> HIDE DEF u
<1>2. u \in Seq(Item) /\ DOMAIN u = {}
  BY <1>1 DEF u
<1>3. Selectable(list, u, R, V)
  BY <1>2 DEF Selectable, Current, UniqueBut
<1>4. QED
  BY <1>3 DEF u

LEMMA KeptIs ==
  ASSUME NEW data \in Seq(Item), NEW kept \in SUBSET DOMAIN data, NEW V, UniqueBut(data, V)
  PROVE  /\ Kept(data, kept) \in Seq(Item) /\ UniqueBut(Kept(data, kept), V)
         /\ \A g \in ToSet(Kept(data, kept)) : \E a \in kept : g = data[a]
         /\ \A a \in kept : data[a] \in ToSet(Kept(data, kept))
<1> DEFINE u == Kept(data, kept)
<1>1. u \in Seq(Item) /\ Rearranges(u, data, kept)
  BY KeptRearranges
<1> HIDE DEF u
<1>2. UniqueBut(u, V)
  <2> SUFFICES ASSUME NEW i \in DOMAIN u, NEW j \in DOMAIN u, u[i].id = u[j].id, i # j
               PROVE  u[i].id \in V
    BY DEF UniqueBut
  <2>1. PICK a \in kept, b \in kept : a # b /\ u[i] = data[a] /\ u[j] = data[b]
    BY <1>1 DEF Rearranges
  <2>2. QED
    BY <2>1 DEF UniqueBut
<1>3. \A g \in ToSet(u) : \E a \in kept : g = data[a]
  <2> SUFFICES ASSUME NEW g \in ToSet(u) PROVE \E a \in kept : g = data[a]
    OBVIOUS
  <2>1. PICK i \in DOMAIN u : u[i] = g
    BY IdsAre
  <2>2. QED
    BY <1>1, <2>1 DEF Rearranges
<1>4. \A a \in kept : data[a] \in ToSet(u)
  BY <1>1 DEF Rearranges, ToSet
<1>5. QED
  BY <1>1, <1>2, <1>3, <1>4 DEF u

LEMMA SelectsKept ==
  ASSUME NEW list, NEW data, NEW R, NEW V, Selectable(list, data, R, V),
         NEW kept \in SUBSET DOMAIN data
  PROVE  Selectable(list, Kept(data, kept), R, V)
<1>1. data \in Seq(Item) /\ UniqueBut(data, V) /\ Current(list, data, R)
  BY DEF Selectable
<1>2. /\ Kept(data, kept) \in Seq(Item) /\ UniqueBut(Kept(data, kept), V)
      /\ \A g \in ToSet(Kept(data, kept)) : \E a \in kept : g = data[a]
  BY <1>1, KeptIs
<1>3. \A g \in ToSet(Kept(data, kept)) : g.id \notin R => g \in ToSet(list)
  BY <1>1, <1>2 DEF Current
<1>4. QED
  BY <1>1, <1>2, <1>3, CurrentIs DEF Selectable

\* What is selected when a flow is removed.
LEMMA SelectionLeft ==
  ASSUME NEW s, StoreKept(s), NEW id \in Flows, NEW list, NEW shown,
         shown.view \in Seq(Item), Current(list, shown.view, s.resurrected),
         \A g \in ToSet(s.list) : g.id # id => g \in ToSet(list)
  PROVE  Selectable(list, SelectionWithout(s, shown, id), s.resurrected, s.revived)
<1> DEFINE R == s.resurrected
           V == s.revived
           pos == s.viewIndex[id]
           kept == {i \in DOMAIN s.selected : s.selected[i].id # id}
<1>1. \A i \in DOMAIN shown.view :
         shown.view[i] \in Item /\ (shown.view[i].id \in R \/ shown.view[i] \in ToSet(list))
  BY Data DEF Current
<1>2. \A i \in DOMAIN shown.view : Selectable(list, <<shown.view[i]>>, R, V)
  BY <1>1, SelectsOne
<1>3. CASE Len(s.selected) = 1 /\ id \in DOMAIN s.viewIndex
  <2>1. SelectionWithout(s, shown, id) =
          IF pos \in DOMAIN shown.view THEN <<shown.view[pos]>>
          ELSE IF pos - 1 \in DOMAIN shown.view THEN <<shown.view[pos - 1]>> ELSE << >>
    BY <1>3 DEF SelectionWithout
  <2> HIDE DEF pos, R, V
  <2>2. CASE pos \in DOMAIN shown.view
    BY <1>2, <2>1, <2>2 DEF R, V
  <2>3. CASE pos \notin DOMAIN shown.view /\ pos - 1 \in DOMAIN shown.view
    BY <1>2, <2>1, <2>3 DEF R, V
  <2>4. CASE pos \notin DOMAIN shown.view /\ pos - 1 \notin DOMAIN shown.view
    BY <2>1, <2>4, SelectsNone
  <2>5. QED
    BY <2>2, <2>3, <2>4
<1>4. CASE ~(Len(s.selected) = 1 /\ id \in DOMAIN s.viewIndex)
  <2>1. SelectionWithout(s, shown, id) = Kept(s.selected, kept)
    BY <1>4 DEF SelectionWithout
  <2>2. s.selected \in Seq(Item) /\ UniqueBut(s.selected, V) /\ Current(s.list, s.selected, R)
    BY StoreIs
  <2>3. kept \in SUBSET DOMAIN s.selected
    OBVIOUS
  <2>4. /\ Kept(s.selected, kept) \in Seq(Item) /\ UniqueBut(Kept(s.selected, kept), V)
        /\ \A g \in ToSet(Kept(s.selected, kept)) : \E a \in kept : g = s.selected[a]
    <3> HIDE DEF kept, V
    <3>1. QED
      BY <2>2, <2>3, KeptIs
  <2>5. \A g \in ToSet(Kept(s.selected, kept)) : g.id \notin R => g \in ToSet(list)
    <3> SUFFICES ASSUME NEW g \in ToSet(Kept(s.selected, kept)), g.id \notin R
                 PROVE  g \in ToSet(list)
      OBVIOUS
    <3>1. PICK a \in kept : g = s.selected[a]
      BY <2>4
    <3>2. g.id # id /\ g \in ToSet(s.list)
      BY <2>2, <3>1 DEF Current
    <3>3. QED
      BY <3>2
  <2> HIDE DEF kept
  <2>6. QED
    BY <2>1, <2>4, <2>5, CurrentIs DEF Selectable
<1>5. QED
  BY <1>3, <1>4

\* FLOWS_REMOVE: the flow is gone from the list, the view and the selection.
LEMMA Removes ==
  ASSUME NEW s, StoreKept(s), NEW id \in Flows
  PROVE  LET t == FlowsRemove(s, id)
         IN  /\ StoreKept(t) /\ t.resurrected = s.resurrected /\ t.linked = s.linked
             /\ s.swallowed \subseteq t.swallowed \cup {id}
             /\ \A f \in Flows : f # id => Untold(s, t, f)
             /\ id \notin t.resurrected => Entry(t.list, id) = {} /\ id \notin Ids(t.view)
<1> DEFINE t == FlowsRemove(s, id)
           R == s.resurrected
           V == s.revived
           p == s.listIndex[id]
           list == RemoveAt(s.list, p)
           byId == Without(s.byId, id)
           listed == [s EXCEPT !.list = list, !.listIndex = BuildIndex(list), !.byId = Without(@, id)]
           shown == IF id \in DOMAIN s.viewIndex
                    THEN RemoveViewItemAt(listed, s.viewIndex[id]) ELSE listed
           selected == IF id \in s.selectedIds THEN SelectionWithout(s, shown, id) ELSE s.selected
           highlighted == s.highlightedIds \ {id}
           swallowed == s.swallowed \ {id}
<1>1. /\ \A f : f \in Ids(s.view) <=> \E g \in ToSet(s.view) : g.id = f
      /\ \A g \in ToSet(s.view) : g.id \notin R => g \in ToSet(s.list)
  BY StoreIs, CurrentIs, IdsAre
<1>2. CASE id \notin DOMAIN s.listIndex
  <2>1. t = s
    BY <1>2 DEF FlowsRemove
  <2>2. id \notin R => id \notin Ids(s.list)
    BY <1>2, StoreIs, Absent DEF ListOk
  <2>3. id \notin R => Entry(s.list, id) = {} /\ id \notin Ids(s.view)
    BY <1>1, <2>2, IdsAre DEF Entry
  <2> HIDE DEF t
  <2>4. QED
    BY <2>1, <2>3 DEF t, Untold
<1>3. CASE id \in DOMAIN s.listIndex
  <2>1. t = [shown EXCEPT !.selected = selected, !.selectedIds = Ids(selected),
                          !.highlightedIds = @ \ {id}, !.swallowed = @ \ {id}]
    BY <1>3 DEF FlowsRemove
  <2>2. /\ ListOk(list, BuildIndex(list), byId, R)
        /\ \A g \in ToSet(s.list) : g.id # id => g \in ToSet(list)
        /\ \A g \in ToSet(list) : g \in ToSet(s.list)
        /\ id \notin R => id \notin Ids(list)
    BY <1>3, StoreIs, ListRemoved
  <2>3. s \in Stores
    BY StoreIs
  <2>4. /\ listed \in Stores /\ listed.list = list /\ listed.byId = byId
        /\ listed.listIndex = BuildIndex(list)
        /\ listed.view = s.view /\ listed.viewIndex = s.viewIndex /\ listed.sort = s.sort
        /\ listed.selected = s.selected /\ listed.selectedIds = s.selectedIds
        /\ listed.highlightedIds = s.highlightedIds /\ listed.resurrected = s.resurrected
        /\ listed.swallowed = s.swallowed /\ listed.revived = s.revived /\ listed.linked = s.linked
    <3>1. PICK index : index = BuildIndex(list)
      OBVIOUS
    <3>2. list \in Seq(Item) /\ byId \in Maps(Item) /\ index \in Maps(Nat)
      BY <2>2, <3>1 DEF ListOk
    <3>3. listed = [s EXCEPT !.list = list, !.listIndex = index, !.byId = byId]
      BY <3>1
    <3> HIDE DEF list, byId, listed
    <3>4. QED
      BY <2>3, <3>1, <3>2, <3>3 DEF Stores
  <2> HIDE DEF list, byId, listed
  <2>5. /\ ViewOnly(listed, shown) /\ ViewOk(shown.view, shown.viewIndex, s.sort, R)
        /\ \A g \in ToSet(shown.view) : g \in ToSet(s.view) /\ (g.id # id \/ id \in R)
        /\ \A g \in ToSet(s.view) : g.id # id => g \in ToSet(shown.view)
    <3>1. ViewOk(listed.view, listed.viewIndex, listed.sort, R)
      BY <2>4, StoreIs
    <3>2. CASE id \in DOMAIN s.viewIndex
      <4> DEFINE pos == s.viewIndex[id]
                 others == {s.view[i] : i \in DOMAIN s.view \ {pos}}
      <4>1. shown = RemoveViewItemAt(listed, pos)
        BY <3>2
      <4>2. pos \in DOMAIN s.view /\ s.view[pos].id = id /\ UniqueBut(s.view, R)
        BY <2>4, <3>1, <3>2, PlacedIsUnique DEF ViewOk, Positioned
      <4> HIDE DEF pos, shown
      <4>3. /\ ViewOnly(listed, shown) /\ ViewOk(shown.view, shown.viewIndex, s.sort, R)
            /\ ToSet(shown.view) = others
        <5>1. pos \in DOMAIN listed.view
          BY <2>4, <4>2
        <5>2. /\ ViewOnly(listed, shown) /\ ViewOk(shown.view, shown.viewIndex, listed.sort, R)
              /\ ToSet(shown.view) = {listed.view[i] : i \in DOMAIN listed.view \ {pos}}
          BY <2>4, <3>1, <4>1, <5>1, RemovesViewItemAt
        <5>3. QED
          BY <2>4, <5>2
      <4>4. \A g \in others : g \in ToSet(s.view) /\ (g.id # id \/ id \in R)
        BY <4>2, IdsAre DEF UniqueBut
      <4>5. \A g \in ToSet(s.view) : g.id # id => g \in others
        BY <4>2 DEF ToSet
      <4>6. QED
        BY <4>3, <4>4, <4>5
    <3>3. CASE id \notin DOMAIN s.viewIndex
      <4>1. shown = listed
        BY <3>3
      <4>2. id \in R \/ id \notin Ids(s.view)
        BY <3>3, StoreIs, Absent DEF ViewOk
      <4> HIDE DEF shown
      <4>3. \A g \in ToSet(shown.view) : g \in ToSet(s.view) /\ (g.id # id \/ id \in R)
        BY <1>1, <2>4, <4>1, <4>2
      <4>4. QED
        BY <2>4, <3>1, <4>1, <4>3 DEF ViewOnly
    <3>4. QED
      BY <3>2, <3>3
  <2> HIDE DEF shown
  <2>6. Current(list, shown.view, R)
    <3>1. \A g \in ToSet(shown.view) : g.id \notin R => g \in ToSet(list)
      BY <1>1, <2>2, <2>5
    <3>2. QED
      BY <3>1, CurrentIs
  <2>7. Selectable(list, selected, R, V)
    <3>1. CASE id \in s.selectedIds
      <4>1. selected = SelectionWithout(s, shown, id)
        BY <3>1
      <4>2. shown.view \in Seq(Item)
        BY <2>5 DEF ViewOk
      <4>3. QED
        BY <2>2, <2>6, <4>1, <4>2, SelectionLeft
    <3>2. CASE id \notin s.selectedIds
      <4>1. selected = s.selected
        BY <3>2
      <4>2. \A g \in ToSet(s.selected) : g.id # id
        BY <3>2, StoreIs, IdsAre
      <4>3. \A g \in ToSet(s.selected) : g.id \notin R => g \in ToSet(list)
        BY <2>2, <4>2, StoreIs, CurrentIs
      <4>4. QED
        BY <4>1, <4>3, StoreIs, CurrentIs DEF Selectable
    <3>3. QED
      BY <3>1, <3>2
  <2> HIDE DEF selected, t
  <2>8. /\ t \in Stores /\ t.list = list /\ t.byId = byId /\ t.listIndex = BuildIndex(list)
        /\ t.view = shown.view /\ t.viewIndex = shown.viewIndex /\ t.sort = s.sort
        /\ t.selected = selected /\ t.selectedIds = Ids(selected)
        /\ t.highlightedIds = highlighted /\ t.resurrected = R
        /\ t.swallowed = swallowed /\ t.revived = V /\ t.linked = s.linked
    <3>1. /\ shown \in Stores /\ shown.highlightedIds = s.highlightedIds
          /\ shown.swallowed = s.swallowed
      BY <2>4, <2>5 DEF ViewOnly
    <3>2. PICK ids : ids = Ids(selected)
      OBVIOUS
    <3>3. t = [shown EXCEPT !.selected = selected, !.selectedIds = ids,
                            !.highlightedIds = highlighted, !.swallowed = swallowed]
      BY <2>1, <3>1, <3>2 DEF Stores
    <3>4. /\ highlighted \in SUBSET Flows /\ swallowed \in SUBSET Flows
          /\ selected \in Seq(Item) /\ ids \in SUBSET Flows
      BY <2>7, <3>2, StoreIs, Data DEF Selectable
    <3> HIDE DEF highlighted, swallowed
    <3>5. /\ t \in Stores /\ t.list = shown.list /\ t.byId = shown.byId
          /\ t.listIndex = shown.listIndex
          /\ t.view = shown.view /\ t.viewIndex = shown.viewIndex /\ t.sort = shown.sort
          /\ t.selected = selected /\ t.selectedIds = ids
          /\ t.highlightedIds = highlighted /\ t.resurrected = shown.resurrected
          /\ t.swallowed = swallowed /\ t.revived = shown.revived /\ t.linked = shown.linked
      BY <3>1, <3>3, <3>4 DEF Stores
    <3>6. QED
      BY <2>4, <2>5, <3>2, <3>5 DEF ViewOnly
  <2>9. StoreKept(t)
    BY <2>2, <2>5, <2>6, <2>7, <2>8, StoreIs DEF StoreKept, Selectable
  <2>10. ASSUME NEW f \in Flows, f # id PROVE Untold(s, t, f)
    <3>1. \A g \in ToSet(t.list) : g.id = f => g \in ToSet(s.list)
      BY <2>2, <2>8
    <3>2. \A g \in ToSet(s.list) : g.id = f => g \in ToSet(t.list)
      BY <2>2, <2>8, <2>10
    <3>3. \A g \in ToSet(t.view) : g.id = f => g \in ToSet(s.view)
      BY <2>5, <2>8
    <3>4. \A g \in ToSet(s.view) : g.id = f => g \in ToSet(t.view)
      BY <2>5, <2>8, <2>10
    <3>5. f \in t.highlightedIds <=> f \in s.highlightedIds
      BY <2>8, <2>10
    <3>6. QED
      BY <3>1, <3>2, <3>3, <3>4, <3>5, EntryIs DEF Untold
  <2>11. ASSUME id \notin R PROVE Entry(t.list, id) = {} /\ id \notin Ids(t.view)
    BY <2>2, <2>5, <2>8, <2>11, IdsAre DEF Entry
  <2>12. QED
    BY <2>8, <2>9, <2>10, <2>11 DEF t
<1>4. QED
  BY <1>2, <1>3

LEMMA ByIdListed ==
  ASSUME NEW list, NEW index, NEW byId, NEW R, ListOk(list, index, byId, R), NEW k \in DOMAIN byId
  PROVE  /\ byId[k] \in Item /\ byId[k].id = k /\ k \in Flows
         /\ k \notin R => byId[k] \in ToSet(list)
<1>1. byId[k] \in Item /\ byId[k].id = k /\ k \in Flows
  <2>1. byId \in Maps(Item) /\ byId[k].id = k
    BY DEF ListOk
  <2>2. QED
    BY <2>1, MapsAre
<1>2. ASSUME k \notin R PROVE byId[k] \in ToSet(list)
  <2>1. k \in Ids(list)
    BY <1>2 DEF ListOk
  <2>2. PICK i \in DOMAIN list : list[i].id = k
    BY <2>1 DEF Ids
  <2>3. byId[k] = list[i]
    BY <1>2, <2>2 DEF ListOk
  <2>4. QED
    BY <2>3 DEF ToSet
<1>3. QED
  BY <1>1, <1>2

\* A view that is sorted from scratch.
LEMMA Sorts ==
  ASSUME NEW data \in Seq(Item), NEW sort \in Orders, NEW R, UniqueBut(data, R)
  PROVE  /\ ViewOk(ToSorted(data, sort), BuildIndex(ToSorted(data, sort)), sort, R)
         /\ ToSet(ToSorted(data, sort)) = ToSet(data)
<1> DEFINE u == ToSorted(data, sort)
<1>1. u \in Seq(Item) /\ Rearranges(u, data, DOMAIN data) /\ Sorted(u, sort)
  BY ToSortedRearranges
<1> HIDE DEF u
<1>2. UniqueBut(u, R)
  <2> SUFFICES ASSUME NEW i \in DOMAIN u, NEW j \in DOMAIN u, u[i].id = u[j].id, i # j
               PROVE  u[i].id \in R
    BY DEF UniqueBut
  <2>1. PICK a \in DOMAIN data, b \in DOMAIN data : a # b /\ u[i] = data[a] /\ u[j] = data[b]
    BY <1>1 DEF Rearranges
  <2>2. QED
    BY <2>1 DEF UniqueBut
<1>3. ASSUME NEW g \in ToSet(u) PROVE g \in ToSet(data)
  <2>1. PICK i \in DOMAIN u : u[i] = g
    BY IdsAre
  <2>2. PICK a \in DOMAIN data : u[i] = data[a]
    BY <1>1 DEF Rearranges
  <2>3. QED
    BY <2>1, <2>2, IdsAre
<1>4. ASSUME NEW g \in ToSet(data) PROVE g \in ToSet(u)
  <2>1. PICK a \in DOMAIN data : data[a] = g
    BY IdsAre
  <2>2. PICK i \in DOMAIN u : u[i] = data[a]
    BY <1>1 DEF Rearranges
  <2>3. QED
    BY <2>1, <2>2, IdsAre
<1>5. ToSet(u) = ToSet(data)
  BY <1>3, <1>4, SetExtensionality
<1>6. ViewOk(u, BuildIndex(u), sort, R)
  BY <1>1, <1>2, Built DEF ViewOk
<1>7. QED
  BY <1>5, <1>6 DEF u

\* FLOWS_RECEIVE: the view shows the whole list, and the selection has the versions of it.
LEMMA Receives ==
  ASSUME NEW s, StoreKept(s), NEW list \in Lists
  PROVE  LET t == FlowsReceive(s, list)
         IN  /\ StoreKept(t) /\ t.list = list /\ t.resurrected = {} /\ t.swallowed = {}
             /\ \A f \in Flows : f \in Ids(t.view) <=> f \in Ids(list)
<1> DEFINE t == FlowsReceive(s, list)
           index == BuildIndex(list)
           byId == ById(list)
           view == ToSorted(list, s.sort)
           viewIndex == BuildIndex(view)
           kept == {i \in DOMAIN s.selected : s.selected[i].id \in DOMAIN byId}
           known == Kept(s.selected, kept)
           selected == [i \in DOMAIN known |-> byId[known[i].id]]
           ids == Ids(selected)
<1>1. list \in Seq(Item) /\ UniqueBut(list, {})
  BY DEF Lists, Unique, UniqueBut
<1>2. ListOk(list, index, byId, {})
  BY ListReceived
<1>3. ViewOk(view, viewIndex, s.sort, {}) /\ ToSet(view) = ToSet(list)
  BY <1>1, StoreIs, Sorts
<1>4. t = [s EXCEPT !.list = list, !.listIndex = index, !.byId = byId,
                    !.view = view, !.viewIndex = viewIndex,
                    !.selected = selected, !.selectedIds = ids,
                    !.highlightedIds = {}, !.resurrected = {}, !.swallowed = {}]
  BY DEF FlowsReceive
<1> HIDE DEF t, index, byId, view, viewIndex
<1>5. /\ known \in Seq(Item) /\ UniqueBut(known, s.revived)
      /\ \A g \in ToSet(known) : g.id \in DOMAIN byId
  <2>1. s.selected \in Seq(Item) /\ UniqueBut(s.selected, s.revived)
    BY StoreIs
  <2>2. kept \in SUBSET DOMAIN s.selected /\ \A a \in kept : s.selected[a].id \in DOMAIN byId
    OBVIOUS
  <2> HIDE DEF kept
  <2>3. /\ known \in Seq(Item) /\ UniqueBut(known, s.revived)
        /\ \A g \in ToSet(known) : \E a \in kept : g = s.selected[a]
    BY <2>1, <2>2, KeptIs
  <2>4. QED
    BY <2>2, <2>3
<1> HIDE DEF known
<1>6. /\ selected \in Seq(Item) /\ DOMAIN selected = DOMAIN known
      /\ \A i \in DOMAIN known : /\ selected[i].id = known[i].id
                                 /\ selected[i] \in ToSet(list)
  <2>1. \A i \in DOMAIN known : known[i].id \in DOMAIN byId
    BY <1>5, IdsAre
  <2>2. \A k \in DOMAIN byId : byId[k] \in Item /\ byId[k].id = k /\ byId[k] \in ToSet(list)
    BY <1>2, ByIdListed
  <2>3. selected \in [DOMAIN known -> Item]
    BY <2>1, <2>2
  <2>4. selected \in Seq(Item)
    <3> HIDE DEF selected
    <3>1. QED
      BY <1>5, <2>3, Mapped
  <2>5. QED
    BY <2>1, <2>2, <2>4
<1> HIDE DEF selected
<1>7. UniqueBut(selected, s.revived) /\ Current(list, selected, {})
  BY <1>5, <1>6 DEF UniqueBut, Current
<1>8. Current(list, view, {})
  BY <1>3, CurrentIs
<1>9. ids \in SUBSET Flows
  BY <1>6, Data
<1>10. ids = Ids(selected)
  OBVIOUS
<1> HIDE DEF ids
<1>11. /\ t \in Stores /\ t.list = list /\ t.byId = byId /\ t.listIndex = index
       /\ t.view = view /\ t.viewIndex = viewIndex /\ t.sort = s.sort
       /\ t.selected = selected /\ t.selectedIds = ids /\ t.highlightedIds = {}
       /\ t.resurrected = {} /\ t.swallowed = {} /\ t.revived = s.revived /\ t.linked = s.linked
  <2>1. s \in Stores
    BY StoreIs
  <2>2. /\ list \in Seq(Item) /\ index \in Maps(Nat) /\ byId \in Maps(Item)
        /\ view \in Seq(Item) /\ viewIndex \in Maps(Nat)
    BY <1>2, <1>3 DEF ListOk, ViewOk
  <2>3. QED
    BY <1>4, <1>6, <1>9, <2>1, <2>2 DEF Stores
<1>12. StoreKept(t)
  BY <1>2, <1>3, <1>7, <1>8, <1>10, <1>11 DEF StoreKept
<1>13. \A f \in Flows : f \in Ids(view) <=> f \in Ids(list)
  BY <1>3, EntryIs
<1>14. QED
  BY <1>11, <1>12, <1>13 DEF t

\* FLOWS_FILTER_UPDATE: the view, or the highlighted flows, are those of the answer.
LEMMA FilterUpdates ==
  ASSUME NEW s, StoreKept(s), NEW name, NEW unset, NEW ids \in Seq(Flows),
         \A i, j \in DOMAIN ids : ids[i] = ids[j] => i = j
  PROVE  LET t == FlowsFilterUpdate(s, name, unset, ids)
         IN  /\ StoreKept(t) /\ t.list = s.list
             /\ t.resurrected = s.resurrected /\ t.swallowed = s.swallowed
             /\ IF name = "search"
                THEN /\ t.highlightedIds = s.highlightedIds
                     /\ \A f \in Flows \ s.resurrected :
                          f \in Ids(t.view) <=> f \in Ids(s.list) /\ (unset \/ f \in ToSet(ids))
                ELSE t.view = s.view /\ t.highlightedIds = ToSet(ids)
<1> DEFINE t == FlowsFilterUpdate(s, name, unset, ids)
           R == s.resurrected
           kept == {i \in DOMAIN ids : ids[i] \in DOMAIN s.byId}
           known == Kept(ids, kept)
           those == [i \in DOMAIN known |-> s.byId[known[i]]]
           found == IF unset THEN s.list ELSE those
           view == ToSorted(found, s.sort)
           index == BuildIndex(view)
<1>1. s \in Stores /\ s.sort \in Orders /\ ListOk(s.list, s.listIndex, s.byId, R)
  BY StoreIs
<1>2. CASE name # "search"
  <2>1. t = [s EXCEPT !.highlightedIds = ToSet(ids)]
    BY <1>2 DEF FlowsFilterUpdate
  <2>2. PICK S : S = ToSet(ids)
    OBVIOUS
  <2>3. S \in SUBSET Flows
    <3>1. \A i \in DOMAIN ids : ids[i] \in Flows
      BY ElementOfSeq, LenProperties
    <3>2. QED
      BY <2>2, <3>1 DEF ToSet
  <2> HIDE DEF t
  <2>4. /\ t \in Stores /\ t.list = s.list /\ t.byId = s.byId /\ t.listIndex = s.listIndex
        /\ t.view = s.view /\ t.viewIndex = s.viewIndex /\ t.sort = s.sort
        /\ t.selected = s.selected /\ t.selectedIds = s.selectedIds /\ t.highlightedIds = S
        /\ t.resurrected = s.resurrected /\ t.swallowed = s.swallowed
        /\ t.revived = s.revived /\ t.linked = s.linked
    BY <1>1, <2>1, <2>2, <2>3 DEF Stores
  <2>5. StoreKept(t)
    BY <2>4, StoreIs DEF StoreKept
  <2>6. QED
    BY <1>2, <2>2, <2>4, <2>5 DEF t
<1>3. CASE name = "search"
  <2>1. t = [s EXCEPT !.view = view, !.viewIndex = index]
    BY <1>3 DEF FlowsFilterUpdate
  <2>2. /\ known \in Seq(Flows)
        /\ \A k \in ToSet(known) : k \in DOMAIN s.byId /\ k \in ToSet(ids)
        /\ \A k \in ToSet(ids) : k \in DOMAIN s.byId => k \in ToSet(known)
        /\ \A i, j \in DOMAIN known : known[i] = known[j] => i = j
    <3>1. kept \in SUBSET DOMAIN ids /\ \A a \in kept : ids[a] \in DOMAIN s.byId
      OBVIOUS
    <3>2. \A a \in DOMAIN ids : ids[a] \in DOMAIN s.byId => a \in kept
      OBVIOUS
    <3> HIDE DEF kept
    <3>3. known \in Seq(Flows) /\ Rearranges(known, ids, kept)
      BY <3>1, KeptRearranges
    <3> HIDE DEF known
    <3>4. ASSUME NEW k \in ToSet(known) PROVE k \in DOMAIN s.byId /\ k \in ToSet(ids)
      <4>1. PICK i \in DOMAIN known : known[i] = k
        BY IdsAre
      <4>2. PICK a \in kept : known[i] = ids[a]
        BY <3>3 DEF Rearranges
      <4>3. QED
        BY <3>1, <4>1, <4>2, IdsAre
    <3>5. ASSUME NEW k \in ToSet(ids), k \in DOMAIN s.byId PROVE k \in ToSet(known)
      <4>1. PICK a \in DOMAIN ids : ids[a] = k
        BY IdsAre
      <4>2. PICK i \in DOMAIN known : known[i] = ids[a]
        BY <3>2, <3>3, <3>5, <4>1 DEF Rearranges
      <4>3. QED
        BY <4>1, <4>2, IdsAre
    <3>6. ASSUME NEW i \in DOMAIN known, NEW j \in DOMAIN known, known[i] = known[j], i # j PROVE FALSE
      <4>1. PICK a \in kept, b \in kept : a # b /\ known[i] = ids[a] /\ known[j] = ids[b]
        BY <3>3, <3>6 DEF Rearranges
      <4>2. QED
        BY <3>1, <3>6, <4>1
    <3>7. QED
      BY <3>3, <3>4, <3>5, <3>6
  <2> HIDE DEF known
  <2>3. /\ those \in Seq(Item) /\ DOMAIN those = DOMAIN known
        /\ \A i \in DOMAIN known : /\ those[i].id = known[i]
                                   /\ known[i] \notin R => those[i] \in ToSet(s.list)
    <3>1. \A i \in DOMAIN known : known[i] \in DOMAIN s.byId
      BY <2>2, IdsAre
    <3>2. \A k \in DOMAIN s.byId : /\ s.byId[k] \in Item /\ s.byId[k].id = k
                                   /\ k \notin R => s.byId[k] \in ToSet(s.list)
      BY <1>1, ByIdListed
    <3>3. those \in [DOMAIN known -> Item]
      BY <3>1, <3>2
    <3>4. those \in Seq(Item)
      <4> HIDE DEF those
      <4>1. QED
        BY <2>2, <3>3, Mapped
    <3>5. QED
      BY <3>1, <3>2, <3>4
  <2> HIDE DEF those
  <2>4. /\ found \in Seq(Item) /\ UniqueBut(found, R)
        /\ \A g \in ToSet(found) : g.id \notin R => g \in ToSet(s.list)
        /\ \A f \in Flows \ R : f \in Ids(found) <=> f \in Ids(s.list) /\ (unset \/ f \in ToSet(ids))
    <3>1. CASE unset
      <4>1. found = s.list
        BY <3>1
      <4>2. UniqueBut(s.list, R) /\ s.list \in Seq(Item)
        BY <1>1, PlacedIsUnique DEF ListOk
      <4> HIDE DEF found
      <4>3. QED
        BY <3>1, <4>1, <4>2
    <3>2. CASE ~unset
      <4>1. found = those
        BY <3>2
      <4> HIDE DEF found
      <4>2. UniqueBut(found, R)
        BY <2>2, <2>3, <4>1 DEF UniqueBut
      <4>3. \A g \in ToSet(found) : g.id \notin R => g \in ToSet(s.list)
        <5> SUFFICES ASSUME NEW g \in ToSet(found), g.id \notin R PROVE g \in ToSet(s.list)
          OBVIOUS
        <5>1. PICK i \in DOMAIN known : those[i] = g
          BY <2>3, <4>1, IdsAre
        <5>2. QED
          BY <2>3, <5>1
      <4>4. ASSUME NEW f \in Flows \ R
            PROVE  f \in Ids(found) <=> f \in Ids(s.list) /\ f \in ToSet(ids)
        <5>1. f \in Ids(found) <=> f \in ToSet(known)
          <6>1. f \in Ids(found) <=> \E i \in DOMAIN known : those[i].id = f
            BY <2>3, <4>1 DEF Ids
          <6>2. f \in ToSet(known) <=> \E i \in DOMAIN known : known[i] = f
            BY DEF ToSet
          <6>3. QED
            BY <2>3, <6>1, <6>2
        <5>2. f \in DOMAIN s.byId <=> f \in Ids(s.list)
          <6>1. ASSUME f \in Ids(s.list) PROVE f \in DOMAIN s.byId
            <7>1. PICK i \in DOMAIN s.list : s.list[i].id = f
              BY <6>1 DEF Ids
            <7>2. QED
              BY <1>1, <7>1 DEF ListOk
          <6>2. QED
            BY <1>1, <6>1 DEF ListOk
        <5>3. QED
          BY <2>2, <5>1, <5>2
      <4>5. QED
        BY <2>3, <3>2, <4>1, <4>2, <4>3, <4>4
    <3>3. QED
      BY <3>1, <3>2
  <2> HIDE DEF found
  <2>5. ViewOk(view, index, s.sort, R) /\ ToSet(view) = ToSet(found)
    BY <1>1, <2>4, Sorts
  <2> HIDE DEF view, index, t
  <2>6. ViewOnly(s, t) /\ t.view = view /\ t.viewIndex = index
    <3>1. view \in Seq(Item) /\ index \in Maps(Nat)
      BY <2>5 DEF ViewOk
    <3>2. ViewIs(s, [s EXCEPT !.view = view, !.viewIndex = index], view, index)
      BY <1>1, <3>1, ViewReplaced
    <3>3. QED
      BY <2>1, <3>2 DEF ViewIs
  <2>7. Current(s.list, view, R)
    BY <2>4, <2>5, CurrentIs
  <2>8. StoreKept(t)
    BY <2>5, <2>6, <2>7, StoreIs DEF StoreKept, ViewOnly
  <2>9. \A f \in Flows : f \in Ids(view) <=> f \in Ids(found)
    BY <2>5, EntryIs
  <2>10. QED
    BY <1>3, <2>4, <2>6, <2>8, <2>9 DEF t, ViewOnly
<1>4. QED
  BY <1>2, <1>3

-----------------------------------------------------------------------------
(* What the user does with the table, and the flow of the page's address.  *)

\* t has the flows of s, and shows and highlights those that s does.
Alike(s, t) ==
  /\ t.list = s.list /\ t.highlightedIds = s.highlightedIds
  /\ t.resurrected = s.resurrected /\ t.swallowed = s.swallowed
  /\ \A f \in Flows \ s.resurrected : f \in Ids(t.view) <=> f \in Ids(s.view)

\* The selection may be changed in any way that names flows of the list once.
LEMMA Selects ==
  ASSUME NEW s, StoreKept(s), NEW data, Selectable(s.list, data, s.resurrected, s.revived)
  PROVE  /\ StoreKept(Select(s, data)) /\ Alike(s, Select(s, data))
         /\ Select(s, data).linked = s.linked
<1> DEFINE t == Select(s, data)
           ids == Ids(data)
<1>1. /\ data \in Seq(Item) /\ Current(s.list, data, s.resurrected)
      /\ UniqueBut(data, s.revived)
  BY DEF Selectable
<1>2. ids \in SUBSET Flows
  BY <1>1, Data
<1>3. t = [s EXCEPT !.selected = data, !.selectedIds = ids]
  BY DEF Select
<1>4. ids = Ids(data)
  OBVIOUS
<1> HIDE DEF t, ids
<1>5. /\ t \in Stores /\ t.list = s.list /\ t.listIndex = s.listIndex /\ t.byId = s.byId
      /\ t.view = s.view /\ t.viewIndex = s.viewIndex /\ t.sort = s.sort
      /\ t.selected = data /\ t.selectedIds = ids
      /\ t.highlightedIds = s.highlightedIds /\ t.resurrected = s.resurrected
      /\ t.swallowed = s.swallowed /\ t.revived = s.revived /\ t.linked = s.linked
  <2>1. s \in Stores
    BY StoreIs
  <2>2. QED
    BY <1>1, <1>2, <1>3, <2>1 DEF Stores
<1>6. StoreKept(t)
  BY <1>1, <1>4, <1>5, StoreIs DEF StoreKept
<1>7. QED
  BY <1>5, <1>6 DEF Alike, t

LEMMA RowSelectable ==
  ASSUME NEW s, StoreKept(s), NEW i \in DOMAIN s.view
  PROVE  /\ s.view[i] \in Item /\ (s.view[i].id \in s.resurrected \/ s.view[i] \in ToSet(s.list))
         /\ Selectable(s.list, <<s.view[i]>>, s.resurrected, s.revived)
<1>1. s.view[i] \in Item /\ (s.view[i].id \in s.resurrected \/ s.view[i] \in ToSet(s.list))
  BY StoreIs, Data DEF Current
<1>2. QED
  BY <1>1, SelectsOne

LEMMA SelectsRelative ==
  ASSUME NEW s, StoreKept(s), NEW shift
  PROVE  StoreKept(SelectRelative(s, shift)) /\ Alike(s, SelectRelative(s, shift))
<1>1. PICK target : SelectRelative(s, shift) =
        Select(s, IF target \in DOMAIN s.view THEN <<s.view[target]>> ELSE << >>)
  <2> DEFINE current == ViewPos(s, s.selected)
             target == IF current # 0 THEN Clamped(current + shift, Len(s.view))
                       ELSE IF shift < 0 THEN 1 ELSE Len(s.view)
  <2>1. SelectRelative(s, shift) =
          Select(s, IF target \in DOMAIN s.view THEN <<s.view[target]>> ELSE << >>)
    BY DEF SelectRelative
  <2> HIDE DEF target
  <2>2. QED
    BY <2>1
<1>2. CASE target \in DOMAIN s.view
  BY <1>1, <1>2, RowSelectable, Selects
<1>3. CASE target \notin DOMAIN s.view
  BY <1>1, <1>3, SelectsNone, Selects
<1>4. QED
  BY <1>2, <1>3

LEMMA SelectsToggled ==
  ASSUME NEW s, StoreKept(s), NEW i \in DOMAIN s.view
  PROVE  StoreKept(SelectToggle(s, s.view[i])) /\ Alike(s, SelectToggle(s, s.view[i]))
<1>1. PICK flow : flow = s.view[i]
  OBVIOUS
<1>2. flow \in Item /\ (flow.id \in s.resurrected \/ flow \in ToSet(s.list))
  BY <1>1, RowSelectable
<1>3. /\ s.selected \in Seq(Item) /\ UniqueBut(s.selected, s.revived)
      /\ Current(s.list, s.selected, s.resurrected) /\ s.selectedIds = Ids(s.selected)
  BY StoreIs
<1>4. CASE flow.id \in s.selectedIds
  <2> DEFINE kept == {j \in DOMAIN s.selected : s.selected[j] # flow}
  <2>1. SelectToggle(s, flow) = Select(s, Kept(s.selected, kept))
    BY <1>4 DEF SelectToggle
  <2>2. kept \in SUBSET DOMAIN s.selected
    OBVIOUS
  <2> HIDE DEF kept
  <2>3. Selectable(s.list, s.selected, s.resurrected, s.revived)
    BY <1>3 DEF Selectable
  <2>4. Selectable(s.list, Kept(s.selected, kept), s.resurrected, s.revived)
    BY <2>2, <2>3, SelectsKept
  <2>5. QED
    BY <1>1, <2>1, <2>4, Selects
<1>5. CASE flow.id \notin s.selectedIds
  <2> DEFINE data == Append(s.selected, flow)
             n == Len(s.selected)
  <2>1. SelectToggle(s, flow) = Select(s, data)
    BY <1>5 DEF SelectToggle
  <2>2. /\ data \in Seq(Item) /\ n \in Nat /\ DOMAIN s.selected = 1..n /\ DOMAIN data = 1..n + 1
        /\ \A j \in 1..n : data[j] = s.selected[j]
        /\ data[n + 1] = flow /\ ToSet(data) = ToSet(s.selected) \cup {flow}
    BY <1>2, <1>3, Appended
  <2> HIDE DEF data, n
  <2>3. \A g \in ToSet(data) : g.id \notin s.resurrected => g \in ToSet(s.list)
    BY <1>2, <1>3, <2>2, CurrentIs
  <2>4. UniqueBut(data, s.revived)
    <3>1. \A j \in 1..n : s.selected[j].id # flow.id
      BY <1>3, <1>5, <2>2 DEF Ids
    <3>2. \A j \in 1..n + 1 : j \in 1..n \/ j = n + 1
      BY <2>2
    <3>3. QED
      BY <1>3, <2>2, <3>1, <3>2 DEF UniqueBut
  <2>5. Selectable(s.list, data, s.resurrected, s.revived)
    BY <2>2, <2>3, <2>4, CurrentIs DEF Selectable
  <2>6. QED
    BY <1>1, <2>1, <2>5, Selects
<1>6. QED
  BY <1>4, <1>5

\* A part of the view.
LEMMA PartOfView ==
  ASSUME NEW s, StoreKept(s), NEW from \in Nat, NEW to \in Nat, from >= 1, to <= Len(s.view)
  PROVE  /\ Selectable(s.list, SubSeq(s.view, from, to), s.resurrected, s.revived)
         /\ \A g \in ToSet(SubSeq(s.view, from, to)) : \E j \in from..to :
              j \in DOMAIN s.view /\ g = s.view[j]
<1> DEFINE u == SubSeq(s.view, from, to)
<1>1. /\ s.view \in Seq(Item) /\ Len(s.view) \in Nat /\ DOMAIN s.view = 1..Len(s.view)
      /\ \A j \in DOMAIN s.view : s.view[j] \in Item
      /\ UniqueBut(s.view, s.resurrected) /\ s.resurrected \subseteq s.revived
      /\ Current(s.list, s.view, s.resurrected)
  BY StoreIs, Data, PlacedIsUnique DEF ViewOk
<1>2. \A j \in from..to : j \in DOMAIN s.view /\ s.view[j] \in Item
  BY <1>1
<1>3. /\ u \in Seq(Item) /\ Len(u) = (IF from <= to THEN to - from + 1 ELSE 0)
      /\ \A j \in 1..to - from + 1 : u[j] = s.view[from + j - 1]
  <2>1. \A j \in from..to : s.view[j] \in Item
    BY <1>2
  <2>2. QED
    BY <2>1, SubSeqProperties
<1> HIDE DEF u
<1>4. \A j \in DOMAIN u : /\ j \in Nat /\ from + j - 1 \in from..to
                          /\ u[j] = s.view[from + j - 1]
  <2>1. DOMAIN u = 1..Len(u)
    BY <1>3, Data
  <2>2. QED
    BY <1>3, <2>1
<1>5. \A j \in DOMAIN u : from + j - 1 \in DOMAIN s.view /\ u[j] = s.view[from + j - 1]
  BY <1>2, <1>4
<1>6. Current(s.list, u, s.resurrected)
  BY <1>1, <1>5 DEF Current
<1>7. UniqueBut(u, s.revived)
  <2> SUFFICES ASSUME NEW i \in DOMAIN u, NEW j \in DOMAIN u, u[i].id = u[j].id, i # j
               PROVE  u[i].id \in s.revived
    BY DEF UniqueBut
  <2>1. from + i - 1 # from + j - 1
    BY <1>4
  <2>2. QED
    BY <1>1, <1>5, <2>1 DEF UniqueBut
<1>8. \A g \in ToSet(u) : \E j \in from..to : j \in DOMAIN s.view /\ g = s.view[j]
  <2> SUFFICES ASSUME NEW g \in ToSet(u) PROVE \E j \in from..to : j \in DOMAIN s.view /\ g = s.view[j]
    OBVIOUS
  <2>1. PICK i \in DOMAIN u : u[i] = g
    BY IdsAre
  <2>2. QED
    BY <1>4, <1>5, <2>1
<1>9. QED
  BY <1>3, <1>6, <1>7, <1>8 DEF Selectable, u

LEMMA SelectsRanged ==
  ASSUME NEW s, StoreKept(s), NEW i \in DOMAIN s.view
  PROVE  StoreKept(SelectRange(s, s.view[i])) /\ Alike(s, SelectRange(s, s.view[i]))
<1>1. PICK flow : flow = s.view[i]
  OBVIOUS
<1>2. PICK this : this = ViewPos(s, <<flow>>)
  OBVIOUS
<1>3. PICK prev : prev = ViewPos(s, s.selected)
  OBVIOUS
<1>4. SelectRange(s, flow) =
        Select(s, IF this = 0 \/ prev = 0 THEN <<flow>>
                  ELSE IF this <= prev THEN SubSeq(s.view, this, prev)
                  ELSE Append(SubSeq(s.view, prev + 1, this), Last(s.selected)))
  BY <1>2, <1>3 DEF SelectRange
<1>5. /\ s.view \in Seq(Item) /\ s.selected \in Seq(Item) /\ Len(s.view) \in Nat
      /\ DOMAIN s.view = 1..Len(s.view) /\ Positioned(s.viewIndex, s.view)
      /\ Placed(s.viewIndex, s.view, s.resurrected) /\ s.resurrected \subseteq s.revived
      /\ Current(s.list, s.selected, s.resurrected)
  BY StoreIs, Data DEF ViewOk
<1>6. \A data : ViewPos(s, data) # 0 =>
        /\ data # << >> /\ Last(data).id \in DOMAIN s.viewIndex
        /\ ViewPos(s, data) = s.viewIndex[Last(data).id]
        /\ ViewPos(s, data) \in DOMAIN s.view
  BY <1>5 DEF ViewPos, Positioned
<1>7. CASE this = 0 \/ prev = 0
  <2>1. SelectRange(s, flow) = Select(s, <<flow>>)
    BY <1>4, <1>7
  <2>2. QED
    BY <1>1, <2>1, RowSelectable, Selects
<1>8. CASE this # 0 /\ prev # 0
  <2>1. /\ this \in 1..Len(s.view) /\ prev \in 1..Len(s.view)
        /\ s.selected # << >> /\ Last(s.selected).id \in DOMAIN s.viewIndex
        /\ prev = s.viewIndex[Last(s.selected).id]
    BY <1>2, <1>3, <1>5, <1>6, <1>8
  <2>2. CASE this <= prev
    <3>1. SelectRange(s, flow) = Select(s, SubSeq(s.view, this, prev))
      BY <1>4, <1>8, <2>2
    <3>2. Selectable(s.list, SubSeq(s.view, this, prev), s.resurrected, s.revived)
      BY <1>5, <2>1, PartOfView
    <3>3. QED
      BY <1>1, <3>1, <3>2, Selects
  <2>3. CASE ~(this <= prev)
    <3> DEFINE u == SubSeq(s.view, prev + 1, this)
               last == Last(s.selected)
               data == Append(u, last)
               n == Len(u)
    <3>1. SelectRange(s, flow) = Select(s, data)
      BY <1>4, <1>8, <2>3
    <3>2. last \in Item /\ (last.id \in s.resurrected \/ last \in ToSet(s.list))
      <4>1. Len(s.selected) \in DOMAIN s.selected
        BY <1>5, <2>1, LenProperties, EmptySeq
      <4>2. last = s.selected[Len(s.selected)]
        BY DEF Last
      <4>3. QED
        BY <1>5, <4>1, <4>2, Data DEF Current
    <3>3. /\ Selectable(s.list, u, s.resurrected, s.revived)
          /\ \A g \in ToSet(u) : \E j \in prev + 1..this : j \in DOMAIN s.view /\ g = s.view[j]
      <4>1. prev + 1 \in Nat /\ prev + 1 >= 1 /\ this \in Nat /\ this <= Len(s.view)
        BY <1>5, <2>1
      <4>2. QED
        BY <4>1, PartOfView
    <3> HIDE DEF u, last
    <3>4. \A g \in ToSet(u) : g.id # last.id \/ g.id \in s.revived
      <4> SUFFICES ASSUME NEW g \in ToSet(u), g.id = last.id, g.id \notin s.revived PROVE FALSE
        OBVIOUS
      <4>1. PICK j \in prev + 1..this : j \in DOMAIN s.view /\ g = s.view[j]
        BY <3>3
      <4>2. s.viewIndex[last.id] = j
        BY <1>5, <4>1 DEF Placed
      <4>3. s.viewIndex[last.id] = prev
        BY <2>1 DEF last
      <4>4. QED
        BY <1>5, <2>1, <4>1, <4>2, <4>3
    <3>5. u \in Seq(Item) /\ UniqueBut(u, s.revived) /\ Current(s.list, u, s.resurrected)
      BY <3>3 DEF Selectable
    <3>6. /\ data \in Seq(Item) /\ n \in Nat /\ DOMAIN u = 1..n /\ DOMAIN data = 1..n + 1
          /\ \A j \in 1..n : data[j] = u[j]
          /\ data[n + 1] = last /\ ToSet(data) = ToSet(u) \cup {last}
      BY <3>2, <3>5, Appended
    <3> HIDE DEF data, n
    <3>7. \A g \in ToSet(data) : g.id \notin s.resurrected => g \in ToSet(s.list)
      BY <3>2, <3>5, <3>6, CurrentIs
    <3>8. UniqueBut(data, s.revived)
      <4>1. \A j \in 1..n : u[j].id # last.id \/ u[j].id \in s.revived
        BY <3>4, <3>6, IdsAre
      <4>2. \A j \in 1..n + 1 : j \in 1..n \/ j = n + 1
        BY <3>6
      <4>3. QED
        BY <3>5, <3>6, <4>1, <4>2 DEF UniqueBut
    <3>9. Selectable(s.list, data, s.resurrected, s.revived)
      BY <3>6, <3>7, <3>8, CurrentIs DEF Selectable
    <3>10. QED
      BY <1>1, <3>1, <3>9, Selects
  <2>4. QED
    BY <2>2, <2>3
<1>9. QED
  BY <1>7, <1>8

\* SET_SORT sorts the view again, and keeps what is in it.
LEMMA SortsAgain ==
  ASSUME NEW s, StoreKept(s), NEW sort \in Orders
  PROVE  StoreKept(SetSort(s, sort)) /\ Alike(s, SetSort(s, sort))
<1> DEFINE t == SetSort(s, sort)
           R == s.resurrected
           kept == {i \in DOMAIN s.list : s.list[i].id \in DOMAIN s.viewIndex}
           view == IF sort.column THEN ToSorted(s.view, sort) ELSE Kept(s.list, kept)
           index == BuildIndex(view)
<1>1. /\ s \in Stores /\ s.view \in Seq(Item) /\ s.list \in Seq(Item)
      /\ UniqueBut(s.view, R) /\ UniqueBut(s.list, R)
      /\ Positioned(s.viewIndex, s.view) /\ Placed(s.viewIndex, s.view, R)
      /\ Current(s.list, s.view, R)
  BY StoreIs, PlacedIsUnique DEF ViewOk, ListOk
<1>2. t = [s EXCEPT !.sort = sort, !.view = view, !.viewIndex = index]
  BY DEF SetSort
<1>3. /\ ViewOk(view, index, sort, R)
      /\ \A g \in ToSet(view) : g.id \notin R => g \in ToSet(s.list)
      /\ \A f \in Flows \ R : f \in Ids(view) <=> f \in Ids(s.view)
  <2>1. CASE sort.column
    <3>1. view = ToSorted(s.view, sort)
      BY <2>1
    <3>2. ViewOk(view, index, sort, R) /\ ToSet(view) = ToSet(s.view)
      BY <1>1, <3>1, Sorts
    <3> HIDE DEF view, index
    <3>3. \A f \in Flows : f \in Ids(view) <=> f \in Ids(s.view)
      BY <3>2, EntryIs
    <3>4. QED
      BY <1>1, <3>2, <3>3, CurrentIs
  <2>2. CASE ~sort.column
    <3>1. view = Kept(s.list, kept)
      BY <2>2
    <3>2. /\ kept \in SUBSET DOMAIN s.list
          /\ \A a \in kept : s.list[a].id \in DOMAIN s.viewIndex
          /\ \A a \in DOMAIN s.list : s.list[a].id \in DOMAIN s.viewIndex => a \in kept
      OBVIOUS
    <3> HIDE DEF kept
    <3>3. /\ view \in Seq(Item) /\ UniqueBut(view, R)
          /\ \A g \in ToSet(view) : \E a \in kept : g = s.list[a]
          /\ \A a \in kept : s.list[a] \in ToSet(view)
      BY <1>1, <3>1, <3>2, KeptIs
    <3> HIDE DEF view
    <3>4. Sorted(view, sort)
      BY <2>2 DEF Sorted, MakeSort
    <3>5. ViewOk(view, index, sort, R)
      BY <3>3, <3>4, Built DEF ViewOk
    <3>6. \A g \in ToSet(view) : g \in ToSet(s.list) /\ g.id \in DOMAIN s.viewIndex
      BY <3>2, <3>3, IdsAre
    <3>7. ASSUME NEW f \in Flows \ R, f \in Ids(view) PROVE f \in Ids(s.view)
      <4>1. f \in DOMAIN s.viewIndex
        BY <3>6, <3>7, IdsAre
      <4>2. QED
        BY <1>1, <4>1 DEF Positioned, Ids
    <3>8. ASSUME NEW f \in Flows \ R, f \in Ids(s.view) PROVE f \in Ids(view)
      <4>1. PICK j \in DOMAIN s.view : s.view[j].id = f
        BY <3>8 DEF Ids
      <4>2. s.view[j] \in ToSet(s.list) /\ f \in DOMAIN s.viewIndex
        BY <1>1, <3>8, <4>1 DEF Current, Placed
      <4>3. PICK a \in DOMAIN s.list : s.list[a] = s.view[j]
        BY <4>2, IdsAre
      <4>4. s.list[a] \in ToSet(view) /\ s.list[a].id = f
        BY <3>2, <3>3, <4>1, <4>2, <4>3
      <4>5. QED
        BY <4>4, IdsAre
    <3>9. QED
      BY <3>5, <3>6, <3>7, <3>8
  <2>3. QED
    BY <2>1, <2>2
<1> HIDE DEF t, view, index
<1>4. view \in Seq(Item) /\ index \in Maps(Nat)
  BY <1>3 DEF ViewOk
<1>5. /\ t \in Stores /\ t.list = s.list /\ t.listIndex = s.listIndex /\ t.byId = s.byId
      /\ t.view = view /\ t.viewIndex = index /\ t.sort = sort
      /\ t.selected = s.selected /\ t.selectedIds = s.selectedIds
      /\ t.highlightedIds = s.highlightedIds /\ t.resurrected = s.resurrected
      /\ t.swallowed = s.swallowed /\ t.revived = s.revived /\ t.linked = s.linked
  BY <1>1, <1>2, <1>4 DEF Stores
<1>6. Current(s.list, view, R)
  BY <1>3, CurrentIs
<1>7. StoreKept(t)
  BY <1>3, <1>5, <1>6, StoreIs DEF StoreKept
<1>8. QED
  BY <1>3, <1>5, <1>7 DEF t, Alike

\* Whoever is told of a dispatch may select the awaited flow, and nothing else.
LEMMA Tolds ==
  ASSUME NEW s, StoreKept(s)
  PROVE  StoreKept(Told(s)) /\ Alike(s, Told(s))
<1> DEFINE here == s.linked \cap DOMAIN s.byId
           k == CHOOSE id \in here : TRUE
<1>1. CASE here = {}
  BY <1>1 DEF Told, Alike
<1>2. CASE here # {}
  <2>1. k \in here
    BY <1>2
  <2> DEFINE data == <<s.byId[k]>>
             u == Select(s, data)
  <2>2. Told(s) = [u EXCEPT !.linked = {}]
    BY <1>2 DEF Told
  <2>3. k \in DOMAIN s.byId
    BY <2>1
  <2> HIDE DEF k
  <2>4. s.byId[k] \in Item /\ s.byId[k].id = k /\ (k \in s.resurrected \/ s.byId[k] \in ToSet(s.list))
    BY <2>3, StoreIs, ByIdListed
  <2>5. Selectable(s.list, data, s.resurrected, s.revived)
    BY <2>4, SelectsOne
  <2> HIDE DEF data
  <2>6. StoreKept(u) /\ Alike(s, u)
    BY <2>5, Selects
  <2> HIDE DEF u
  <2> DEFINE t == [u EXCEPT !.linked = {}]
  <2>7. /\ t \in Stores /\ t.list = u.list /\ t.listIndex = u.listIndex /\ t.byId = u.byId
        /\ t.view = u.view /\ t.viewIndex = u.viewIndex /\ t.sort = u.sort
        /\ t.selected = u.selected /\ t.selectedIds = u.selectedIds
        /\ t.highlightedIds = u.highlightedIds /\ t.resurrected = u.resurrected
        /\ t.swallowed = u.swallowed /\ t.revived = u.revived
    <3>1. u \in Stores
      BY <2>6, StoreIs
    <3>2. QED
      BY <3>1 DEF Stores
  <2> HIDE DEF t
  <2>8. StoreKept(t)
    BY <2>6, <2>7 DEF StoreKept
  <2>9. QED
    BY <2>2, <2>6, <2>7, <2>8 DEF Alike, t
<1>3. QED
  BY <1>1, <1>2

-----------------------------------------------------------------------------
(* What a dispatched message does to the store.                            *)

LEMMA MessageIs ==
  ASSUME NEW m \in Messages
  PROVE  /\ m.type \in {"add", "update", "remove", "filterUpdate", "reset"}
         /\ m.type \in {"add", "update"} => /\ m.flow \in Item /\ m.flow.id \in Flows
                                            /\ m.matching \in [FilterName -> Match]
         /\ m.type = "remove" => m.id \in Flows
         /\ m.type = "filterUpdate" => /\ m.name \in FilterName /\ m.unset \in BOOLEAN
                                       /\ m.ids \in Names
BY DEF Messages, Item

\* What t says of f, when s was told m.
Follows(s, t, m, f) ==
  /\ ~About(m, f) =>
       /\ Entry(t.list, f) = Entry(s.list, f) /\ (f \in s.swallowed => f \in t.swallowed)
       /\ ~(m.type = "filterUpdate" /\ m.name = "search") => (f \in Ids(t.view) <=> f \in Ids(s.view))
       /\ ~(m.type = "filterUpdate" /\ m.name = "highlight") =>
            (f \in t.highlightedIds <=> f \in s.highlightedIds)
  /\ About(m, f) /\ m.type \in {"add", "update"} =>
       \/ Tells(t, m.flow, m.matching)
       \/ m.type = "add" /\ f \in t.swallowed /\ f \in Ids(t.list) /\ Entry(t.list, f) = Entry(s.list, f)
  /\ About(m, f) /\ m.type = "remove" => Entry(t.list, f) = {} /\ f \notin Ids(t.view)
  /\ m.type = "filterUpdate" /\ m.name = "search" =>
       (f \in Ids(t.view) <=> f \in Ids(s.list) /\ (m.unset \/ f \in ToSet(m.ids)))
  /\ m.type = "filterUpdate" /\ m.name = "highlight" =>
       (f \in t.highlightedIds <=> f \in ToSet(m.ids))

\* What follows for a store in which m is dispatched.
Dispatches(s, t, m) ==
  /\ StoreKept(t) /\ s.resurrected \subseteq t.resurrected
  /\ \A f \in Flows \ t.resurrected : Follows(s, t, m, f)

LEMMA DispatchesAdd ==
  ASSUME NEW s, StoreKept(s), NEW m \in Messages, m.type = "add"
  PROVE  Dispatches(s, FlowsAdd(s, m.flow, m.matching), m)
<1>1. PICK t : t = FlowsAdd(s, m.flow, m.matching)
  OBVIOUS
<1>2. m.flow \in Item
  BY MessageIs
<1>3. /\ StoreKept(t) /\ t.resurrected = s.resurrected
      /\ s.swallowed \subseteq t.swallowed
      /\ \A f \in Flows : f # m.flow.id => Untold(s, t, f)
      /\ m.flow.id \notin t.resurrected =>
           \/ Tells(t, m.flow, m.matching)
           \/ /\ m.flow.id \in t.swallowed /\ m.flow.id \in Ids(t.list)
              /\ Entry(t.list, m.flow.id) = Entry(s.list, m.flow.id)
  BY <1>1, <1>2, Adds
<1>4. ASSUME NEW f \in Flows \ t.resurrected PROVE Follows(s, t, m, f)
  BY <1>3 DEF Follows, About, Untold
<1>5. QED
  BY <1>1, <1>3, <1>4 DEF Dispatches

LEMMA DispatchesUpdate ==
  ASSUME NEW s, StoreKept(s), NEW m \in Messages, m.type = "update"
  PROVE  Dispatches(s, FlowsUpdate(s, m.flow, m.matching), m)
<1>1. PICK t : t = FlowsUpdate(s, m.flow, m.matching)
  OBVIOUS
<1>2. m.flow \in Item
  BY MessageIs
<1>3. /\ StoreKept(t) /\ s.resurrected \subseteq t.resurrected
      /\ s.swallowed \subseteq t.swallowed \cup {m.flow.id}
      /\ \A f \in Flows : f # m.flow.id => Untold(s, t, f)
      /\ m.flow.id \notin t.resurrected => Tells(t, m.flow, m.matching)
  BY <1>1, <1>2, Updates
<1>4. ASSUME NEW f \in Flows \ t.resurrected PROVE Follows(s, t, m, f)
  BY <1>3 DEF Follows, About, Untold
<1>5. QED
  BY <1>1, <1>3, <1>4 DEF Dispatches

LEMMA DispatchesRemove ==
  ASSUME NEW s, StoreKept(s), NEW m \in Messages, m.type = "remove"
  PROVE  Dispatches(s, FlowsRemove(s, m.id), m)
<1>1. PICK t : t = FlowsRemove(s, m.id)
  OBVIOUS
<1>2. m.id \in Flows
  BY MessageIs
<1>3. /\ StoreKept(t) /\ t.resurrected = s.resurrected
      /\ s.swallowed \subseteq t.swallowed \cup {m.id}
      /\ \A f \in Flows : f # m.id => Untold(s, t, f)
      /\ m.id \notin t.resurrected => Entry(t.list, m.id) = {} /\ m.id \notin Ids(t.view)
  BY <1>1, <1>2, Removes
<1>4. ASSUME NEW f \in Flows \ t.resurrected PROVE Follows(s, t, m, f)
  BY <1>3 DEF Follows, About, Untold
<1>5. QED
  BY <1>1, <1>3, <1>4 DEF Dispatches

LEMMA DispatchesFilter ==
  ASSUME NEW s, StoreKept(s), NEW m \in Messages, m.type = "filterUpdate"
  PROVE  Dispatches(s, FlowsFilterUpdate(s, m.name, m.unset, m.ids), m)
<1>1. PICK t : t = FlowsFilterUpdate(s, m.name, m.unset, m.ids)
  OBVIOUS
<1>2. /\ m.name \in FilterName /\ m.ids \in Seq(Flows)
      /\ \A i, j \in DOMAIN m.ids : m.ids[i] = m.ids[j] => i = j
  BY MessageIs DEF Names
<1>3. /\ StoreKept(t) /\ t.list = s.list
      /\ t.resurrected = s.resurrected /\ t.swallowed = s.swallowed
      /\ IF m.name = "search"
         THEN /\ t.highlightedIds = s.highlightedIds
              /\ \A f \in Flows \ s.resurrected :
                   f \in Ids(t.view) <=> f \in Ids(s.list) /\ (m.unset \/ f \in ToSet(m.ids))
         ELSE t.view = s.view /\ t.highlightedIds = ToSet(m.ids)
  BY <1>1, <1>2, FilterUpdates
<1>4. ASSUME NEW f \in Flows \ t.resurrected PROVE Follows(s, t, m, f)
  BY <1>2, <1>3 DEF Follows, About, FilterName
<1>5. QED
  BY <1>1, <1>3, <1>4 DEF Dispatches

\* Whatever is dispatched, the store stays consistent and follows the message.
LEMMA DispatchesOne ==
  ASSUME NEW s, StoreKept(s), NEW m \in Messages, m.type # "reset"
  PROVE  Dispatches(s, Told(Reduce(s, m)), m)
<1>1. Dispatches(s, Reduce(s, m), m)
  <2>1. CASE m.type = "add"
    <3>1. Reduce(s, m) = FlowsAdd(s, m.flow, m.matching)
      BY <2>1 DEF Reduce
    <3>2. QED
      BY <2>1, <3>1, DispatchesAdd
  <2>2. CASE m.type = "update"
    <3>1. Reduce(s, m) = FlowsUpdate(s, m.flow, m.matching)
      BY <2>2 DEF Reduce
    <3>2. QED
      BY <2>2, <3>1, DispatchesUpdate
  <2>3. CASE m.type = "remove"
    <3>1. Reduce(s, m) = FlowsRemove(s, m.id)
      BY <2>3 DEF Reduce
    <3>2. QED
      BY <2>3, <3>1, DispatchesRemove
  <2>4. CASE m.type = "filterUpdate"
    <3>1. Reduce(s, m) = FlowsFilterUpdate(s, m.name, m.unset, m.ids)
      BY <2>4 DEF Reduce
    <3>2. QED
      BY <2>4, <3>1, DispatchesFilter
  <2>5. QED
    BY <2>1, <2>2, <2>3, <2>4, MessageIs
<1>2. PICK u : u = Reduce(s, m)
  OBVIOUS
<1>3. PICK t : t = Told(u)
  OBVIOUS
<1>4. StoreKept(u) /\ s.resurrected \subseteq u.resurrected
  BY <1>1, <1>2 DEF Dispatches
<1>5. StoreKept(t) /\ Alike(u, t)
  BY <1>3, <1>4, Tolds
<1>6. ASSUME NEW f \in Flows \ t.resurrected PROVE Follows(s, t, m, f)
  <2>1. f \in Flows \ u.resurrected /\ t.list = u.list /\ t.highlightedIds = u.highlightedIds
        /\ t.swallowed = u.swallowed /\ (f \in Ids(t.view) <=> f \in Ids(u.view))
    BY <1>5, <1>6 DEF Alike
  <2>2. Follows(s, u, m, f)
    BY <1>1, <1>2, <2>1 DEF Dispatches
  <2>3. About(m, f) /\ m.type \in {"add", "update"} => m.flow.id = f
    BY DEF About
  <2>4. QED
    BY <2>1, <2>2, <2>3 DEF Follows, Tells
<1>7. QED
  BY <1>2, <1>3, <1>4, <1>5, <1>6 DEF Dispatches, Alike

\* The fetched list is dispatched, and the subscribers are told.
LEMMA ReceivesTold ==
  ASSUME NEW s, StoreKept(s), NEW list \in Lists
  PROVE  LET t == Told(FlowsReceive(s, list))
         IN  /\ StoreKept(t) /\ t.list = list
             /\ \A f \in Flows : f \in Ids(t.view) <=> f \in Ids(list)
<1>1. PICK u : u = FlowsReceive(s, list)
  OBVIOUS
<1>2. /\ StoreKept(u) /\ u.list = list /\ u.resurrected = {}
      /\ \A f \in Flows : f \in Ids(u.view) <=> f \in Ids(list)
  BY <1>1, Receives
<1>3. StoreKept(Told(u)) /\ Alike(u, Told(u))
  BY <1>2, Tolds
<1>4. QED
  BY <1>1, <1>2, <1>3 DEF Alike

-----------------------------------------------------------------------------
(* The store stays in step with the messages that are dispatched.          *)

LEMMA EntryThere ==
  ASSUME NEW data, NEW f
  PROVE  f \in Ids(data) <=> Entry(data, f) # {}
<1>1. f \in Ids(data) <=> \E g \in ToSet(data) : g.id = f
  BY IdsAre
<1>2. QED
  BY <1>1 DEF Entry

\* A list of the server has a flow once.
LEMMA EntryOfOne ==
  ASSUME NEW had \in Lists, NEW flow \in ToSet(had)
  PROVE  Entry(had, flow.id) = {flow}
<1>1. \A i, j \in DOMAIN had : had[i].id = had[j].id => i = j
  BY DEF Lists, Unique
<1>2. PICK i \in DOMAIN had : had[i] = flow
  BY IdsAre
<1>3. ASSUME NEW g \in ToSet(had), g.id = flow.id PROVE g = flow
  <2>1. PICK j \in DOMAIN had : had[j] = g
    BY IdsAre
  <2>2. QED
    BY <1>1, <1>2, <1>3, <2>1
<1>4. QED
  BY <1>3 DEF Entry

LEMMA EntryOfNone ==
  ASSUME NEW had, NEW f, f \notin Ids(had)
  PROVE  Entry(had, f) = {}
BY EntryThere

\* What the n-th message after the first n says of f, in a sequence of messages.
LEMMA SettledOn ==
  ASSUME NEW q \in Seq(Messages), NEW n \in Nat, n + 1 \in DOMAIN q, q[n + 1].type # "reset", NEW f
  PROVE  /\ Settled(q, n + 1) => Settled(q, n)
         /\ Silent(q, n + 1, f) /\ ~About(q[n + 1], f) => Silent(q, n, f)
         /\ \A name : Untouched(q, n + 1, f, name) /\ ~Touches(q[n + 1], f, name) =>
              Untouched(q, n, f, name)
         /\ \A name : Untouched(q, n + 1, f, name) => Silent(q, n + 1, f)
<1>1. \A i \in DOMAIN q : i \in Nat
  BY LenProperties
<1>2. \A i \in DOMAIN q : i > n => i > n + 1 \/ i = n + 1
  BY <1>1
<1>3. Settled(q, n + 1) => Settled(q, n)
  BY <1>2 DEF Settled
<1>4. Silent(q, n + 1, f) /\ ~About(q[n + 1], f) => Silent(q, n, f)
  BY <1>2, <1>3 DEF Silent
<1>5. \A name : Untouched(q, n + 1, f, name) /\ ~Touches(q[n + 1], f, name) => Untouched(q, n, f, name)
  BY <1>2, <1>3 DEF Untouched
<1>6. \A name : Untouched(q, n + 1, f, name) => Silent(q, n + 1, f)
  BY DEF Untouched, Silent, Touches
<1>7. QED
  BY <1>3, <1>4, <1>5, <1>6

\* The hypotheses of the next lemmas: message n + 1 of q turns s into t.
Turns(s, t, q, n, had, force) ==
  /\ had \in Lists /\ q \in Seq(Messages) /\ n \in Nat /\ n + 1 \in DOMAIN q
  /\ q[n + 1].type # "reset" /\ LastTells(q, had, force) /\ AddsFollow(q)
  /\ Dispatches(s, t, q[n + 1])

\* What the message says of its flow is in the list, if it is the last one.
LEMMA LastSaid ==
  ASSUME NEW s, NEW t, NEW q, NEW n, NEW had, NEW force, Turns(s, t, q, n, had, force),
         NEW f \in Flows \ t.resurrected, About(q[n + 1], f), Silent(q, n + 1, f)
  PROVE  /\ q[n + 1].type = "remove" =>
              Entry(had, f) = {} /\ Entry(t.list, f) = {} /\ f \notin Ids(t.view)
         /\ q[n + 1].type # "remove" =>
              /\ q[n + 1].flow.id = f /\ Entry(had, f) = {q[n + 1].flow}
              /\ \/ Tells(t, q[n + 1].flow, q[n + 1].matching)
                 \/ /\ q[n + 1].type = "add" /\ f \in t.swallowed /\ f \in Ids(t.list)
                    /\ Entry(t.list, f) = Entry(s.list, f)
<1>1. PICK m : m = q[n + 1]
  OBVIOUS
<1>2. SaysOf(m, f, had)
  BY <1>1 DEF Turns, LastTells
<1>3. Follows(s, t, m, f)
  BY <1>1 DEF Turns, Dispatches
<1>4. CASE m.type = "remove"
  <2>1. f \notin Ids(had)
    BY <1>2, <1>4 DEF SaysOf
  <2>2. Entry(had, f) = {}
    BY <2>1, EntryOfNone
  <2>3. QED
    BY <1>1, <1>3, <1>4, <2>2 DEF Follows
<1>5. CASE m.type # "remove"
  <2>1. m.type \in {"add", "update"} /\ m.flow.id = f
    BY <1>1, <1>5 DEF About
  <2>2. m.flow \in ToSet(had) /\ had \in Lists
    BY <1>2, <1>5 DEF SaysOf, Turns
  <2>3. Entry(had, f) = {m.flow}
    BY <2>1, <2>2, EntryOfOne
  <2>4. QED
    BY <1>1, <1>3, <1>5, <2>1, <2>3 DEF Follows
<1>6. QED
  BY <1>4, <1>5

\* The list follows the server from one message to the next ...
LEMMA StartsNext ==
  ASSUME NEW s, NEW t, NEW q, NEW n, NEW had, NEW force, Turns(s, t, q, n, had, force),
         NEW f \in Flows \ t.resurrected, StartsFrom(s.list, q, n, f, had)
  PROVE  StartsFrom(t.list, q, n + 1, f, had)
<1>1. PICK m : m = q[n + 1]
  OBVIOUS
<1>2. /\ q \in Seq(Messages) /\ n \in Nat /\ n + 1 \in DOMAIN q /\ m.type # "reset" /\ m \in Messages
      /\ AddsFollow(q) /\ \A i \in DOMAIN q : i \in Nat
  BY <1>1, ElementOfSeq, LenProperties DEF Turns
<1>3. Follows(s, t, m, f)
  BY <1>1 DEF Turns, Dispatches
<1>4. n + 1 > n /\ \A i \in DOMAIN q : ~(n < i /\ i < n + 1)
  BY <1>2
<1>5. ASSUME Silent(q, n + 1, f) PROVE Entry(t.list, f) = Entry(had, f)
  <2>1. CASE ~About(m, f)
    <3>1. Silent(q, n, f)
      BY <1>1, <1>2, <1>5, <2>1, SettledOn
    <3>2. Entry(s.list, f) = Entry(had, f)
      BY <3>1 DEF StartsFrom
    <3>3. QED
      BY <1>3, <2>1, <3>2 DEF Follows
  <2>2. CASE About(m, f) /\ m.type = "remove"
    BY <1>1, <1>5, <2>2, LastSaid
  <2>3. CASE About(m, f) /\ m.type # "remove"
    <3>1. /\ m.flow.id = f /\ Entry(had, f) = {m.flow}
          /\ \/ Tells(t, m.flow, m.matching)
             \/ /\ m.type = "add" /\ f \in t.swallowed /\ f \in Ids(t.list)
                /\ Entry(t.list, f) = Entry(s.list, f)
      BY <1>1, <1>5, <2>3, LastSaid
    <3>2. CASE Tells(t, m.flow, m.matching)
      BY <3>1, <3>2 DEF Tells
    <3>3. CASE m.type = "add" /\ f \in Ids(t.list) /\ Entry(t.list, f) = Entry(s.list, f)
      <4>1. Settled(q, n)
        BY <1>1, <1>2, <1>5, SettledOn DEF Silent
      <4>2. Entry(s.list, f) \subseteq Entry(had, f)
        BY <1>1, <1>2, <1>4, <1>5, <2>3, <3>3, <4>1 DEF StartsFrom
      <4>3. Entry(t.list, f) # {}
        BY <3>3, EntryThere
      <4>4. QED
        BY <3>1, <3>3, <4>2, <4>3
    <3>4. QED
      BY <3>1, <3>2, <3>3
  <2>4. QED
    BY <2>1, <2>2, <2>3
<1>6. ASSUME NEW k \in DOMAIN q, k > n + 1, About(q[k], f), q[k].type = "add", Silent(q, k, f),
             Settled(q, n + 1), \A i \in DOMAIN q : n + 1 < i /\ i < k => ~About(q[i], f)
      PROVE  Entry(t.list, f) \subseteq Entry(had, f)
  <2>1. Settled(q, n) /\ k > n /\ \A i \in DOMAIN q : n < i /\ i < k => n + 1 < i \/ i = n + 1
    <3>1. Settled(q, n)
      BY <1>1, <1>2, <1>6, SettledOn
    <3>2. k \in Nat /\ \A i \in DOMAIN q : n < i => n + 1 < i \/ i = n + 1
      BY <1>2
    <3>3. QED
      BY <1>2, <1>6, <3>1, <3>2
  <2>2. CASE ~About(m, f)
    <3>1. \A i \in DOMAIN q : n < i /\ i < k => ~About(q[i], f)
      BY <1>1, <1>6, <2>1, <2>2
    <3>2. Entry(s.list, f) \subseteq Entry(had, f)
      BY <1>6, <2>1, <3>1 DEF StartsFrom
    <3>3. QED
      BY <1>3, <2>2, <3>2 DEF Follows
  <2>3. CASE About(m, f)
    <3>1. \A i \in DOMAIN q : n + 1 < i /\ i < k => ~About(q[i], f) /\ q[i].type # "reset"
      BY <1>6 DEF Settled
    <3>2. n + 1 < k
      BY <1>2, <1>6
    <3>3. m.type = "remove"
      BY <1>1, <1>2, <1>6, <2>3, <3>1, <3>2 DEF AddsFollow
    <3>4. QED
      BY <1>3, <2>3, <3>3 DEF Follows
  <2>4. QED
    BY <2>2, <2>3
<1>7. QED
  BY <1>5, <1>6 DEF StartsFrom

LEMMA MatchesOne ==
  ASSUME NEW had, NEW f, NEW flow, NEW expr, Entry(had, f) = {flow}
  PROVE  Matches(had, f, expr) <=> flow.v \in Accepts[expr]
BY DEF Matches

\* ... and so do the view and the highlighted flows ...
LEMMA ShownNext ==
  ASSUME NEW s, NEW t, NEW q, NEW n, NEW had, NEW force, Turns(s, t, q, n, had, force),
         NEW f \in Flows \ (t.resurrected \cup t.swallowed), StartsFrom(s.list, q, n, f, had),
         f \notin s.swallowed => ShownFrom(s, q, n, f, had, force)
  PROVE  ShownFrom(t, q, n + 1, f, had, force)
<1>1. PICK m : m = q[n + 1]
  OBVIOUS
<1>2. /\ q \in Seq(Messages) /\ n \in Nat /\ n + 1 \in DOMAIN q /\ m.type # "reset" /\ m \in Messages
      /\ f \in Flows \ t.resurrected
  BY <1>1, ElementOfSeq DEF Turns
<1>3. Follows(s, t, m, f)
  BY <1>1, <1>2 DEF Turns, Dispatches
<1>4. ASSUME NEW name \in FilterName, Untouched(q, n + 1, f, name)
      PROVE  /\ SaysBy(m, f, name, had, force[name]) /\ Silent(q, n + 1, f)
             /\ ~Touches(m, f, name) => Untouched(q, n, f, name)
             /\ ~About(m, f) => Entry(s.list, f) = Entry(had, f)
  <2>1. Silent(q, n + 1, f) /\ (~About(m, f) => Silent(q, n, f))
    BY <1>1, <1>2, <1>4, SettledOn
  <2>2. ~About(m, f) => Entry(s.list, f) = Entry(had, f)
    BY <2>1 DEF StartsFrom
  <2>3. ~Touches(m, f, name) => Untouched(q, n, f, name)
    BY <1>1, <1>2, <1>4, SettledOn
  <2>4. SaysBy(m, f, name, had, force[name])
    BY <1>1, <1>2, <1>4 DEF Turns, LastTells
  <2>5. QED
    BY <2>1, <2>2, <2>3, <2>4
\* What a message about f shows, when it is not the removal.
<1>5. ASSUME NEW name \in FilterName, Untouched(q, n + 1, f, name), About(m, f), m.type # "remove"
      PROVE  /\ f \in Ids(had) /\ Tells(t, m.flow, m.matching) /\ m.flow.id = f
             /\ Matches(had, f, force[name]) <=> m.flow.v \in Accepts[force[name]]
             /\ m.matching[name] = Verdict(m.flow, force[name])
  <2>1. Silent(q, n + 1, f) /\ SaysBy(m, f, name, had, force[name])
    BY <1>4, <1>5
  <2>2. m.flow.id = f /\ Entry(had, f) = {m.flow} /\ Tells(t, m.flow, m.matching)
    BY <1>1, <1>2, <1>5, <2>1, LastSaid
  <2>3. QED
    BY <1>5, <2>1, <2>2, MatchesOne, EntryThere DEF SaysBy
<1>6. ASSUME Untouched(q, n + 1, f, "search")
      PROVE  f \in Ids(t.view) <=>
               f \in Ids(had) /\ (force["search"] = NoFilter \/ Matches(had, f, force["search"]))
  <2>1. "search" \in FilterName
    BY DEF FilterName
  <2>2. CASE m.type = "filterUpdate" /\ m.name = "search"
    <3>1. ~About(m, f)
      BY <2>2 DEF About
    <3>2. f \in Ids(s.list) <=> f \in Ids(had)
      BY <1>4, <1>6, <2>1, <3>1, EntryThere
    <3>3. /\ m.unset <=> force["search"] = NoFilter
          /\ ~m.unset => (f \in ToSet(m.ids) <=> Matches(had, f, force["search"]))
      BY <1>4, <1>6, <2>1, <2>2 DEF SaysBy
    <3>4. f \in Ids(t.view) <=> f \in Ids(s.list) /\ (m.unset \/ f \in ToSet(m.ids))
      BY <1>3, <2>2 DEF Follows
    <3>5. QED
      BY <3>2, <3>3, <3>4
  <2>3. CASE ~Touches(m, f, "search")
    <3>1. Untouched(q, n, f, "search") /\ ~About(m, f) /\ ~(m.type = "filterUpdate" /\ m.name = "search")
      BY <1>4, <1>6, <2>1, <2>3 DEF Touches
    <3>2. f \notin s.swallowed /\ (f \in Ids(t.view) <=> f \in Ids(s.view))
      BY <1>3, <3>1 DEF Follows
    <3>3. QED
      BY <3>1, <3>2 DEF ShownFrom
  <2>4. CASE About(m, f) /\ m.type = "remove"
    <3>1. Entry(had, f) = {} /\ f \notin Ids(t.view)
      BY <1>1, <1>2, <1>4, <1>6, <2>1, <2>4, LastSaid
    <3>2. QED
      BY <3>1, EntryThere
  <2>5. CASE About(m, f) /\ m.type # "remove"
    <3>1. /\ f \in Ids(had) /\ Tells(t, m.flow, m.matching) /\ m.flow.id = f
          /\ Matches(had, f, force["search"]) <=> m.flow.v \in Accepts[force["search"]]
          /\ m.matching["search"] = Verdict(m.flow, force["search"])
      BY <1>5, <1>6, <2>1, <2>5
    <3>2. f \in Ids(t.view) <=> m.matching["search"] # "no"
      BY <3>1 DEF Tells
    <3>3. m.matching["search"] # "no" <=>
            force["search"] = NoFilter \/ m.flow.v \in Accepts[force["search"]]
      BY <3>1 DEF Verdict
    <3>4. QED
      BY <3>1, <3>2, <3>3
  <2>6. QED
    BY <2>2, <2>3, <2>4, <2>5 DEF Touches
<1>7. ASSUME Untouched(q, n + 1, f, "highlight"), force["highlight"] # NoFilter,
             Matches(had, f, force["highlight"])
      PROVE  f \in t.highlightedIds
  <2>1. "highlight" \in FilterName
    BY DEF FilterName
  <2>2. CASE m.type = "filterUpdate" /\ m.name = "highlight"
    <3>1. /\ m.unset <=> force["highlight"] = NoFilter
          /\ ~m.unset => (f \in ToSet(m.ids) <=> Matches(had, f, force["highlight"]))
      BY <1>4, <1>7, <2>1, <2>2 DEF SaysBy
    <3>2. f \in t.highlightedIds <=> f \in ToSet(m.ids)
      BY <1>3, <2>2 DEF Follows
    <3>3. QED
      BY <1>7, <3>1, <3>2
  <2>3. CASE ~Touches(m, f, "highlight")
    <3>1. /\ Untouched(q, n, f, "highlight") /\ ~About(m, f)
          /\ ~(m.type = "filterUpdate" /\ m.name = "highlight")
      BY <1>4, <1>7, <2>1, <2>3 DEF Touches
    <3>2. f \notin s.swallowed /\ (f \in t.highlightedIds <=> f \in s.highlightedIds)
      BY <1>3, <3>1 DEF Follows
    <3>3. QED
      BY <1>7, <3>1, <3>2 DEF ShownFrom
  <2>4. CASE About(m, f) /\ m.type = "remove"
    <3>1. Entry(had, f) = {}
      BY <1>1, <1>2, <1>4, <1>7, <2>1, <2>4, LastSaid
    <3>2. QED
      BY <1>7, <3>1 DEF Matches
  <2>5. CASE About(m, f) /\ m.type # "remove"
    <3>1. /\ Tells(t, m.flow, m.matching) /\ m.flow.id = f
          /\ Matches(had, f, force["highlight"]) <=> m.flow.v \in Accepts[force["highlight"]]
          /\ m.matching["highlight"] = Verdict(m.flow, force["highlight"])
      BY <1>5, <1>7, <2>1, <2>5
    <3>2. m.matching["highlight"] = "yes"
      BY <1>7, <3>1 DEF Verdict
    <3>3. QED
      BY <3>1, <3>2 DEF Tells
  <2>6. QED
    BY <2>2, <2>3, <2>4, <2>5 DEF Touches
<1>8. QED
  BY <1>6, <1>7 DEF ShownFrom

\* ... so that the store stays in step with what is still to be dispatched.
LEMMA InStepNext ==
  ASSUME NEW s, NEW t, NEW q, NEW n, NEW had, NEW force, Turns(s, t, q, n, had, force),
         InStep(s, q, n, had, force)
  PROVE  InStep(t, q, n + 1, had, force)
<1>1. s.resurrected \subseteq t.resurrected
  BY DEF Turns, Dispatches
<1>2. \A f \in Flows \ t.resurrected : StartsFrom(s.list, q, n, f, had)
  BY <1>1 DEF InStep
<1>3. \A f \in Flows \ t.resurrected : f \notin s.swallowed => ShownFrom(s, q, n, f, had, force)
  BY <1>1 DEF InStep
<1>4. \A f \in Flows \ t.resurrected : StartsFrom(t.list, q, n + 1, f, had)
  BY <1>2, StartsNext
<1>5. \A f \in Flows \ (t.resurrected \cup t.swallowed) : ShownFrom(t, q, n + 1, f, had, force)
  BY <1>2, <1>3, ShownNext
<1>6. QED
  BY <1>4, <1>5 DEF InStep

\* The list is received, and the messages before n are none.
LEMMA InStepReceived ==
  ASSUME NEW q \in Seq(Messages), NEW had, NEW force, NEW list, NEW t, t.list = list,
         \A f \in Flows : f \in Ids(t.view) <=> f \in Ids(list),
         \A f \in Flows : StartsFrom(list, q, 0, f, had), FiltersFollow(q, force)
  PROVE  InStep(t, q, 0, had, force)
<1>1. \A i \in DOMAIN q : i > 0
  BY LenProperties
<1>2. ASSUME NEW f \in Flows PROVE ShownFrom(t, q, 0, f, had, force)
  <2>1. ASSUME NEW name \in FilterName, Untouched(q, 0, f, name)
        PROVE  force[name] = NoFilter /\ (f \in Ids(list) <=> f \in Ids(had))
    <3>1. \A i \in DOMAIN q : ~(q[i].type = "filterUpdate" /\ q[i].name = name)
      BY <1>1, <2>1 DEF Untouched, Touches
    <3>2. force[name] = NoFilter
      BY <2>1, <3>1 DEF FiltersFollow
    <3>3. Silent(q, 0, f)
      BY <2>1 DEF Untouched, Silent, Touches
    <3>4. Entry(list, f) = Entry(had, f)
      BY <3>3 DEF StartsFrom
    <3>5. QED
      BY <3>2, <3>4, EntryThere
  <2>2. "search" \in FilterName /\ "highlight" \in FilterName
    BY DEF FilterName
  <2>3. QED
    BY <2>1, <2>2 DEF ShownFrom
<1>3. QED
  BY <1>2 DEF InStep

-----------------------------------------------------------------------------
(* The messages after the first k, when those have been dispatched.        *)

Shifted(q, b, k) ==
  /\ q \in Seq(Messages) /\ b \in Seq(Messages) /\ k \in Nat
  /\ \A i \in DOMAIN q : i \in Nat
  /\ \A i \in DOMAIN b : i \in Nat /\ i > 0 /\ i + k \in DOMAIN q /\ b[i] = q[i + k]
  /\ \A j \in DOMAIN q : j > k => j - k \in DOMAIN b /\ b[j - k] = q[j]

\* The end of a concatenation is a suffix of it, and so is a tail.
LEMMA SuffixShifted ==
  ASSUME NEW a \in Seq(Messages), NEW b \in Seq(Messages)
  PROVE  Shifted(a \o b, b, Len(a))
<1>1. PICK q : q = a \o b
  OBVIOUS
<1>2. /\ q \in Seq(Messages) /\ Len(a) \in Nat /\ Len(b) \in Nat /\ Len(q) = Len(a) + Len(b)
      /\ \A i \in 1..Len(a) + Len(b) : q[i] = IF i <= Len(a) THEN a[i] ELSE b[i - Len(a)]
  BY <1>1, ConcatProperties, LenProperties
<1>3. DOMAIN b = 1..Len(b) /\ DOMAIN q = 1..Len(q)
  BY <1>2, LenProperties
<1>4. QED
  BY <1>1, <1>2, <1>3 DEF Shifted

LEMMA TailShifted ==
  ASSUME NEW q \in Seq(Messages), q # << >>
  PROVE  Shifted(q, Tail(q), 1)
<1>1. PICK b : b = Tail(q)
  OBVIOUS
<1>2. b \in Seq(Messages) /\ Len(b) = Len(q) - 1 /\ \A i \in 1..Len(b) : b[i] = q[i + 1]
  BY <1>1, HeadTailProperties
<1>3. DOMAIN b = 1..Len(b) /\ DOMAIN q = 1..Len(q) /\ Len(q) \in Nat /\ Len(b) \in Nat
  BY <1>2, LenProperties
<1>4. QED
  BY <1>1, <1>2, <1>3 DEF Shifted

\* A suffix is as silent as the whole from where it starts, ...
LEMMA SilentShifted ==
  ASSUME NEW q, NEW b, NEW k, Shifted(q, b, k), NEW n \in Nat, NEW f
  PROVE  /\ Settled(b, n) <=> Settled(q, n + k)
         /\ Silent(b, n, f) <=> Silent(q, n + k, f)
         /\ \A name : Untouched(b, n, f, name) <=> Untouched(q, n + k, f, name)
<1>1. /\ k \in Nat
      /\ \A i \in DOMAIN b : i > n => i + k \in DOMAIN q /\ i + k > n + k /\ b[i] = q[i + k]
      /\ \A j \in DOMAIN q : j > n + k => j - k \in DOMAIN b /\ j - k > n /\ b[j - k] = q[j]
  BY DEF Shifted
<1>2. Settled(b, n) <=> Settled(q, n + k)
  BY <1>1 DEF Settled
<1>3. Silent(b, n, f) <=> Silent(q, n + k, f)
  <2>1. (\A i \in DOMAIN b : i > n => ~About(b[i], f)) <=>
          (\A i \in DOMAIN q : i > n + k => ~About(q[i], f))
    BY <1>1
  <2>2. QED
    BY <1>2, <2>1 DEF Silent
<1>4. ASSUME NEW name PROVE Untouched(b, n, f, name) <=> Untouched(q, n + k, f, name)
  <2>1. (\A i \in DOMAIN b : i > n => ~Touches(b[i], f, name)) <=>
          (\A i \in DOMAIN q : i > n + k => ~Touches(q[i], f, name))
    BY <1>1
  <2>2. QED
    BY <1>2, <2>1 DEF Untouched
<1>5. QED
  BY <1>2, <1>3, <1>4

\* ... what its last messages tell is so, ...
LEMMA LastTellsShifted ==
  ASSUME NEW q, NEW b, NEW k, Shifted(q, b, k), NEW had, NEW force, LastTells(q, had, force)
  PROVE  LastTells(b, had, force)
<1> SUFFICES ASSUME NEW n \in DOMAIN b, NEW f \in Flows
    PROVE  /\ About(b[n], f) /\ Silent(b, n, f) => SaysOf(b[n], f, had)
           /\ \A name \in FilterName :
                Untouched(b, n, f, name) => SaysBy(b[n], f, name, had, force[name])
  BY DEF LastTells
<1>1. n \in Nat /\ n + k \in DOMAIN q /\ b[n] = q[n + k]
  BY DEF Shifted
<1>2. /\ Silent(b, n, f) <=> Silent(q, n + k, f)
      /\ \A name : Untouched(b, n, f, name) <=> Untouched(q, n + k, f, name)
  BY <1>1, SilentShifted
<1>3. /\ About(q[n + k], f) /\ Silent(q, n + k, f) => SaysOf(q[n + k], f, had)
      /\ \A name \in FilterName :
           Untouched(q, n + k, f, name) => SaysBy(q[n + k], f, name, had, force[name])
  BY <1>1 DEF LastTells
<1>4. QED
  BY <1>1, <1>2, <1>3

\* ... a flow is added in it when it is not there, ...
LEMMA AddsFollowShifted ==
  ASSUME NEW q, NEW b, NEW k, Shifted(q, b, k), AddsFollow(q)
  PROVE  AddsFollow(b)
<1> SUFFICES ASSUME NEW m \in DOMAIN b, NEW n \in DOMAIN b, NEW f \in Flows,
                    m < n, About(b[m], f), About(b[n], f), b[n].type = "add",
                    \A i \in DOMAIN b : m < i /\ i < n => ~About(b[i], f) /\ b[i].type # "reset"
             PROVE  b[m].type = "remove"
  BY DEF AddsFollow
<1>1. /\ k \in Nat /\ m \in Nat /\ n \in Nat /\ m + k \in DOMAIN q /\ n + k \in DOMAIN q
      /\ b[m] = q[m + k] /\ b[n] = q[n + k] /\ m + k < n + k
  BY DEF Shifted
<1>2. ASSUME NEW i \in DOMAIN q, m + k < i, i < n + k PROVE ~About(q[i], f) /\ q[i].type # "reset"
  <2>1. i \in Nat /\ i > k
    BY <1>1, <1>2 DEF Shifted
  <2>2. i - k \in DOMAIN b /\ b[i - k] = q[i]
    BY <2>1 DEF Shifted
  <2>3. m < i - k /\ i - k < n
    BY <1>1, <1>2, <2>1
  <2>4. QED
    BY <2>2, <2>3
<1>3. QED
  BY <1>1, <1>2 DEF AddsFollow

\* ... and a list and a store in step with the whole from there are in step with it.
LEMMA StartsShifted ==
  ASSUME NEW q, NEW b, NEW k, Shifted(q, b, k), NEW data, NEW f, NEW had,
         StartsFrom(data, q, k, f, had)
  PROVE  StartsFrom(data, b, 0, f, had)
<1>1. k \in Nat /\ 0 \in Nat /\ 0 + k = k
  BY DEF Shifted
<1>2. (Silent(b, 0, f) <=> Silent(q, k, f)) /\ (Settled(b, 0) <=> Settled(q, k))
  BY <1>1, SilentShifted
<1>3. ASSUME NEW m \in DOMAIN b, m > 0, About(b[m], f), b[m].type = "add", Silent(b, m, f),
             Settled(b, 0), \A i \in DOMAIN b : 0 < i /\ i < m => ~About(b[i], f)
      PROVE  Entry(data, f) \subseteq Entry(had, f)
  <2>1. m \in Nat /\ m + k \in DOMAIN q /\ b[m] = q[m + k] /\ m + k > k
    BY <1>3 DEF Shifted
  <2>2. Silent(q, m + k, f)
    BY <1>3, <2>1, SilentShifted
  <2>3. ASSUME NEW i \in DOMAIN q, k < i, i < m + k PROVE ~About(q[i], f)
    <3>1. i \in Nat /\ i - k \in DOMAIN b /\ b[i - k] = q[i]
      BY <2>3 DEF Shifted
    <3>2. 0 < i - k /\ i - k < m
      BY <1>1, <2>1, <2>3, <3>1
    <3>3. QED
      BY <1>3, <3>1, <3>2
  <2>4. QED
    BY <1>2, <1>3, <2>1, <2>2, <2>3 DEF StartsFrom
<1>4. QED
  BY <1>2, <1>3 DEF StartsFrom

LEMMA InStepShifted ==
  ASSUME NEW q, NEW b, NEW k, Shifted(q, b, k), NEW s, NEW had, NEW force,
         InStep(s, q, k, had, force)
  PROVE  InStep(s, b, 0, had, force)
<1>1. \A f \in Flows \ s.resurrected : StartsFrom(s.list, b, 0, f, had)
  BY StartsShifted DEF InStep
<1>2. \A f, name : Untouched(b, 0, f, name) <=> Untouched(q, k, f, name)
  <2>1. 0 \in Nat /\ 0 + k = k
    BY DEF Shifted
  <2>2. QED
    BY <2>1, SilentShifted
<1>3. \A f \in Flows \ (s.resurrected \cup s.swallowed) : ShownFrom(s, b, 0, f, had, force)
  BY <1>2 DEF InStep, ShownFrom
<1>4. QED
  BY <1>1, <1>3 DEF InStep

\* A filter is applied after the last reset: nothing of that is among the first k.
LEMMA FiltersFollowShifted ==
  ASSUME NEW q, NEW b, NEW k, Shifted(q, b, k), NEW force, FiltersFollow(q, force),
         ~Settled(b, 0) \/ (k \in DOMAIN q /\ q[k].type = "reset")
  PROVE  FiltersFollow(b, force)
<1> SUFFICES ASSUME NEW name \in FilterName, force[name] # NoFilter
             PROVE  \E n \in DOMAIN b : b[n].type = "filterUpdate" /\ b[n].name = name /\ Settled(b, n)
  BY DEF FiltersFollow
<1>1. PICK n \in DOMAIN q : q[n].type = "filterUpdate" /\ q[n].name = name /\ Settled(q, n)
  BY DEF FiltersFollow
<1>2. k \in Nat /\ n \in Nat
  BY DEF Shifted
<1>3. n > k
  <2>1. CASE ~Settled(b, 0)
    <3>1. PICK j \in DOMAIN b : b[j].type = "reset" /\ j > 0
      BY <2>1 DEF Settled
    <3>2. j \in Nat /\ j + k \in DOMAIN q /\ q[j + k].type = "reset"
      BY <3>1 DEF Shifted
    <3>3. ~(j + k > n)
      BY <1>1, <3>2 DEF Settled
    <3>4. QED
      BY <1>2, <3>1, <3>2, <3>3
  <2>2. CASE k \in DOMAIN q /\ q[k].type = "reset"
    <3>1. ~(k > n) /\ k # n
      BY <1>1, <2>2 DEF Settled
    <3>2. QED
      BY <1>2, <3>1
  <2>3. QED
    BY <2>1, <2>2
<1>4. n - k \in DOMAIN b /\ b[n - k] = q[n] /\ n - k \in Nat /\ (n - k) + k = n
  BY <1>2, <1>3 DEF Shifted
<1>5. Settled(b, n - k)
  BY <1>1, <1>4, SilentShifted
<1>6. QED
  BY <1>1, <1>4, <1>5

-----------------------------------------------------------------------------
(* One more message is pushed.                                             *)

Grown(q, m, u) ==
  /\ q \in Seq(Messages) /\ u \in Seq(Messages) /\ m \in Messages /\ Len(q) \in Nat
  /\ DOMAIN q = 1..Len(q) /\ DOMAIN u = 1..Len(q) + 1
  /\ \A i \in DOMAIN q : i \in DOMAIN u /\ i \in Nat /\ i <= Len(q) /\ u[i] = q[i]
  /\ Len(q) + 1 \in DOMAIN u /\ u[Len(q) + 1] = m
  /\ \A i \in DOMAIN u : i \in Nat /\ i <= Len(q) + 1 /\ (i \in DOMAIN q \/ i = Len(q) + 1)

LEMMA AppendGrown ==
  ASSUME NEW q \in Seq(Messages), NEW m \in Messages
  PROVE  Grown(q, m, Append(q, m))
<1>1. PICK u : u = Append(q, m)
  OBVIOUS
<1>2. /\ u \in Seq(Messages) /\ Len(u) = Len(q) + 1 /\ u[Len(q) + 1] = m
      /\ \A i \in 1..Len(q) : u[i] = q[i]
  BY <1>1, AppendProperties
<1>3. Len(q) \in Nat /\ DOMAIN q = 1..Len(q) /\ DOMAIN u = 1..Len(u)
  BY <1>2, LenProperties
<1>4. QED
  BY <1>1, <1>2, <1>3 DEF Grown

\* A message more: the sequence is silent if it was and the message is.
LEMMA SilentGrown ==
  ASSUME NEW q, NEW m, NEW u, Grown(q, m, u), NEW n \in Nat, n <= Len(q), NEW f
  PROVE  /\ Settled(u, n) <=> Settled(q, n) /\ m.type # "reset"
         /\ Silent(u, n, f) <=> Silent(q, n, f) /\ m.type # "reset" /\ ~About(m, f)
         /\ \A name : Untouched(u, n, f, name) <=>
              Untouched(q, n, f, name) /\ m.type # "reset" /\ ~Touches(m, f, name)
<1>1. /\ \A i \in DOMAIN q : i \in DOMAIN u /\ u[i] = q[i]
      /\ Len(q) + 1 \in DOMAIN u /\ u[Len(q) + 1] = m /\ Len(q) + 1 > n
      /\ \A i \in DOMAIN u : i \in DOMAIN q \/ i = Len(q) + 1
  BY DEF Grown
<1> DEFINE last == Len(q) + 1
<1> HIDE DEF last
<1>2. /\ \A i \in DOMAIN q : i \in DOMAIN u /\ u[i] = q[i]
      /\ last \in DOMAIN u /\ u[last] = m /\ last > n
      /\ \A i \in DOMAIN u : i \in DOMAIN q \/ i = last
  BY <1>1 DEF last
<1>3. Settled(u, n) <=> Settled(q, n) /\ m.type # "reset"
  BY <1>2 DEF Settled
<1>4. (\A i \in DOMAIN u : i > n => ~About(u[i], f)) <=>
        (\A i \in DOMAIN q : i > n => ~About(q[i], f)) /\ ~About(m, f)
  BY <1>2
<1>5. ASSUME NEW name
      PROVE  (\A i \in DOMAIN u : i > n => ~Touches(u[i], f, name)) <=>
               (\A i \in DOMAIN q : i > n => ~Touches(q[i], f, name)) /\ ~Touches(m, f, name)
  BY <1>2
<1>6. QED
  BY <1>3, <1>4, <1>5 DEF Silent, Untouched

\* What m says is so, and of anything else nothing changes.
Pushed(m, had, more, force, set) ==
  m.type # "reset" =>
    /\ \A f \in Flows : ~About(m, f) => Entry(more, f) = Entry(had, f)
    /\ \A name \in FilterName : ~(m.type = "filterUpdate" /\ m.name = name) => set[name] = force[name]
    /\ \A f \in Flows : About(m, f) => SaysOf(m, f, more)
    /\ \A f \in Flows, name \in FilterName : SaysBy(m, f, name, more, set[name])
    /\ m.type = "add" => m.flow.id \notin Ids(had)

\* What a message says of a flow stays so as long as the server has the same of it.
LEMMA SaysStill ==
  ASSUME NEW m, NEW f, NEW had, NEW more, Entry(more, f) = Entry(had, f)
  PROVE  /\ About(m, f) /\ SaysOf(m, f, had) => SaysOf(m, f, more)
         /\ \A name, expr : SaysBy(m, f, name, had, expr) => SaysBy(m, f, name, more, expr)
<1>1. f \in Ids(more) <=> f \in Ids(had)
  BY EntryThere
<1>2. \A g : g \in ToSet(had) /\ g.id = f => g \in ToSet(more)
  BY DEF Entry
<1>3. ASSUME About(m, f), SaysOf(m, f, had) PROVE SaysOf(m, f, more)
  <2>1. CASE m.type = "remove"
    BY <1>1, <1>3, <2>1 DEF SaysOf
  <2>2. CASE m.type # "remove"
    <3>1. m.flow.id = f /\ m.flow \in ToSet(had)
      BY <1>3, <2>2 DEF SaysOf, About
    <3>2. QED
      BY <1>2, <2>2, <3>1 DEF SaysOf
  <2>3. QED
    BY <2>1, <2>2
<1>4. \A expr : Matches(more, f, expr) <=> Matches(had, f, expr)
  BY DEF Matches
<1>5. \A name, expr : SaysBy(m, f, name, had, expr) => SaysBy(m, f, name, more, expr)
  BY <1>4 DEF SaysBy
<1>6. QED
  BY <1>3, <1>5

\* If what is pushed is so, the last messages still tell what the server has, ...
LEMMA LastTellsGrown ==
  ASSUME NEW q, NEW m, NEW u, Grown(q, m, u), NEW had, NEW more, NEW force, NEW set,
         Pushed(m, had, more, force, set), LastTells(q, had, force)
  PROVE  LastTells(u, more, set)
<1> SUFFICES ASSUME NEW n \in DOMAIN u, NEW f \in Flows
    PROVE  /\ About(u[n], f) /\ Silent(u, n, f) => SaysOf(u[n], f, more)
           /\ \A name \in FilterName :
                Untouched(u, n, f, name) => SaysBy(u[n], f, name, more, set[name])
  BY DEF LastTells
<1>1. CASE n \in DOMAIN q
  <2>1. n \in Nat /\ n <= Len(q) /\ u[n] = q[n]
    BY <1>1 DEF Grown
  <2>2. ASSUME About(u[n], f), Silent(u, n, f) PROVE SaysOf(u[n], f, more)
    <3>1. Silent(q, n, f) /\ m.type # "reset" /\ ~About(m, f)
      BY <2>1, <2>2, SilentGrown
    <3>2. SaysOf(q[n], f, had)
      BY <1>1, <2>1, <2>2, <3>1 DEF LastTells
    <3>3. Entry(more, f) = Entry(had, f)
      BY <3>1 DEF Pushed
    <3>4. QED
      BY <2>1, <2>2, <3>2, <3>3, SaysStill
  <2>3. ASSUME NEW name \in FilterName, Untouched(u, n, f, name)
        PROVE  SaysBy(u[n], f, name, more, set[name])
    <3>1. Untouched(q, n, f, name) /\ m.type # "reset" /\ ~Touches(m, f, name)
      BY <2>1, <2>3, SilentGrown
    <3>2. SaysBy(q[n], f, name, had, force[name])
      BY <1>1, <2>3, <3>1 DEF LastTells
    <3>3. Entry(more, f) = Entry(had, f) /\ set[name] = force[name]
      BY <2>3, <3>1 DEF Pushed, Touches
    <3>4. QED
      BY <2>1, <3>2, <3>3, SaysStill
  <2>4. QED
    BY <2>2, <2>3
<1>2. CASE n = Len(q) + 1
  <2>1. u[n] = m
    BY <1>2 DEF Grown
  <2>2. CASE m.type = "reset"
    BY <2>1, <2>2 DEF About, SaysBy
  <2>3. CASE m.type # "reset"
    BY <2>1, <2>3 DEF Pushed
  <2>4. QED
    BY <2>2, <2>3
<1>3. QED
  BY <1>1, <1>2 DEF Grown

\* ... adds still follow removals, ...
LEMMA AddsFollowGrown ==
  ASSUME NEW q, NEW m, NEW u, Grown(q, m, u), NEW had, NEW more, NEW force, NEW set,
         Pushed(m, had, more, force, set), LastTells(q, had, force), AddsFollow(q)
  PROVE  AddsFollow(u)
<1> SUFFICES ASSUME NEW a \in DOMAIN u, NEW n \in DOMAIN u, NEW f \in Flows,
                    a < n, About(u[a], f), About(u[n], f), u[n].type = "add",
                    \A i \in DOMAIN u : a < i /\ i < n => ~About(u[i], f) /\ u[i].type # "reset"
             PROVE  u[a].type = "remove"
  BY DEF AddsFollow
<1>1. a \in Nat /\ n \in Nat /\ a \in DOMAIN q /\ u[a] = q[a] /\ a <= Len(q)
  BY DEF Grown
<1>2. CASE n \in DOMAIN q
  <2>1. u[n] = q[n]
    BY <1>2 DEF Grown
  <2>2. \A i \in DOMAIN q : a < i /\ i < n => ~About(q[i], f) /\ q[i].type # "reset"
    BY DEF Grown
  <2>3. QED
    BY <1>1, <1>2, <2>1, <2>2 DEF AddsFollow
<1>3. CASE n = Len(q) + 1
  <2>1. u[n] = m /\ m.type = "add" /\ m.flow.id = f /\ f \notin Ids(had)
    BY <1>3 DEF Grown, Pushed, About
  <2>2. \A i \in DOMAIN q : i > a => ~About(q[i], f) /\ q[i].type # "reset"
    <3> SUFFICES ASSUME NEW i \in DOMAIN q, i > a PROVE ~About(q[i], f) /\ q[i].type # "reset"
      OBVIOUS
    <3>1. i \in DOMAIN u /\ u[i] = q[i] /\ i \in Nat /\ i < n /\ a < i
      BY <1>1, <1>3 DEF Grown
    <3>2. QED
      BY <3>1
  <2>3. Silent(q, a, f)
    BY <2>2 DEF Silent, Settled
  <2>4. SaysOf(q[a], f, had)
    BY <1>1, <2>3 DEF LastTells
  <2>5. ASSUME q[a].type # "remove" PROVE FALSE
    <3>1. q[a].flow \in ToSet(had) /\ q[a].flow.id = f
      BY <1>1, <2>4, <2>5 DEF SaysOf, About
    <3>2. QED
      BY <2>1, <3>1, IdsAre
  <2>6. QED
    BY <1>1, <2>5
<1>4. QED
  BY <1>2, <1>3 DEF Grown

\* ... and whoever was in step with the server before is in step with it after the message.
LEMMA StartsGrown ==
  ASSUME NEW q, NEW m, NEW u, Grown(q, m, u), NEW had, NEW more, NEW force, NEW set,
         Pushed(m, had, more, force, set), NEW data, NEW f \in Flows,
         StartsFrom(data, q, 0, f, had)
  PROVE  StartsFrom(data, u, 0, f, more)
<1>0. 0 \in Nat /\ 0 <= Len(q)
  BY DEF Grown
<1>1. ASSUME Silent(u, 0, f) PROVE Entry(data, f) = Entry(more, f)
  <2>1. Silent(q, 0, f) /\ m.type # "reset" /\ ~About(m, f)
    BY <1>0, <1>1, SilentGrown
  <2>2. QED
    BY <2>1 DEF StartsFrom, Pushed
<1>2. ASSUME NEW k \in DOMAIN u, k > 0, About(u[k], f), u[k].type = "add", Silent(u, k, f),
             Settled(u, 0), \A i \in DOMAIN u : 0 < i /\ i < k => ~About(u[i], f)
      PROVE  Entry(data, f) \subseteq Entry(more, f)
  <2>1. Settled(q, 0) /\ m.type # "reset"
    BY <1>0, <1>2, SilentGrown
  <2>2. CASE k \in DOMAIN q
    <3>1. k \in Nat /\ k <= Len(q) /\ u[k] = q[k]
      BY <2>2 DEF Grown
    <3>2. Silent(q, k, f) /\ ~About(m, f)
      BY <1>2, <3>1, SilentGrown
    <3>3. \A i \in DOMAIN q : 0 < i /\ i < k => ~About(q[i], f)
      BY <1>2 DEF Grown
    <3>4. Entry(data, f) \subseteq Entry(had, f)
      BY <1>2, <2>1, <2>2, <3>1, <3>2, <3>3 DEF StartsFrom
    <3>5. QED
      BY <2>1, <3>2, <3>4 DEF Pushed
  <2>3. CASE k = Len(q) + 1
    <3>1. u[k] = m /\ m.type = "add" /\ m.flow.id = f /\ f \notin Ids(had)
      BY <1>2, <2>3 DEF Grown, Pushed, About
    <3>2. \A i \in DOMAIN q : i > 0 => ~About(q[i], f)
      <4> SUFFICES ASSUME NEW i \in DOMAIN q, i > 0 PROVE ~About(q[i], f)
        OBVIOUS
      <4>1. i \in DOMAIN u /\ u[i] = q[i] /\ i \in Nat /\ i < k /\ 0 < i
        BY <2>3 DEF Grown
      <4>2. QED
        BY <1>2, <4>1
    <3>3. Silent(q, 0, f)
      BY <2>1, <3>2 DEF Silent
    <3>4. Entry(data, f) = {}
      BY <3>1, <3>3, EntryOfNone DEF StartsFrom
    <3>5. QED
      BY <3>4
  <2>4. QED
    BY <2>2, <2>3 DEF Grown
<1>3. QED
  BY <1>1, <1>2 DEF StartsFrom

LEMMA ShownGrown ==
  ASSUME NEW q, NEW m, NEW u, Grown(q, m, u), NEW had, NEW more, NEW force, NEW set,
         Pushed(m, had, more, force, set), NEW s, NEW f \in Flows,
         ShownFrom(s, q, 0, f, had, force)
  PROVE  ShownFrom(s, u, 0, f, more, set)
<1>1. ASSUME NEW name \in FilterName, Untouched(u, 0, f, name)
      PROVE  /\ Untouched(q, 0, f, name) /\ set[name] = force[name]
             /\ f \in Ids(more) <=> f \in Ids(had)
             /\ Matches(more, f, set[name]) <=> Matches(had, f, force[name])
  <2>1. 0 \in Nat /\ 0 <= Len(q)
    BY DEF Grown
  <2>2. Untouched(q, 0, f, name) /\ m.type # "reset" /\ ~Touches(m, f, name)
    BY <1>1, <2>1, SilentGrown
  <2>3. Entry(more, f) = Entry(had, f) /\ set[name] = force[name]
    BY <1>1, <2>2 DEF Pushed, Touches
  <2>4. QED
    BY <2>2, <2>3, EntryThere DEF Matches
<1>2. "search" \in FilterName /\ "highlight" \in FilterName
  BY DEF FilterName
<1>3. QED
  BY <1>1, <1>2 DEF ShownFrom

\* Pushing keeps the client in touch with the server, be it fetching or not.
LEMMA SyncedGrown ==
  ASSUME NEW q, NEW m, NEW u, Grown(q, m, u), NEW had, NEW more, NEW force, NEW set,
         Pushed(m, had, more, force, set), NEW store, NEW fetch, NEW asked,
         Synced(q, had, force, store, fetch, asked)
  PROVE  Synced(u, more, set, store, fetch, asked)
<1>1. LastTells(u, more, set) /\ AddsFollow(u)
  BY LastTellsGrown, AddsFollowGrown DEF Synced
<1>2. ASSUME fetch.active, NEW r \in asked, r.id = fetch.id, r.response # NotAnswered, NEW f \in Flows
      PROVE  StartsFrom(r.response.flows, u, 0, f, more)
  <2>1. StartsFrom(r.response.flows, q, 0, f, had)
    BY <1>2 DEF Synced
  <2>2. QED
    BY <2>1, StartsGrown
<1>3. ASSUME ~fetch.active PROVE InStep(store, u, 0, more, set)
  <2>1. InStep(store, q, 0, had, force)
    BY <1>3 DEF Synced
  <2>2. \A f \in Flows \ store.resurrected : StartsFrom(store.list, u, 0, f, more)
    BY <2>1, StartsGrown DEF InStep
  <2>3. \A f \in Flows \ (store.resurrected \cup store.swallowed) : ShownFrom(store, u, 0, f, more, set)
    BY <2>1, ShownGrown DEF InStep
  <2>4. QED
    BY <2>2, <2>3 DEF InStep
<1>4. QED
  BY <1>1, <1>2, <1>3 DEF Synced

\* The filters of some names follow.
FollowFor(q, force, names) ==
  \A name \in names : force[name] # NoFilter =>
    \E n \in DOMAIN q : q[n].type = "filterUpdate" /\ q[n].name = name /\ Settled(q, n)

LEMMA FollowGrown ==
  ASSUME NEW q, NEW m, NEW u, Grown(q, m, u), m.type # "reset", NEW force, NEW set, NEW names,
         \A name \in names : (m.type = "filterUpdate" /\ m.name = name) \/ set[name] = force[name],
         FollowFor(q, force, names)
  PROVE  FollowFor(u, set, names \cup (IF m.type = "filterUpdate" THEN {m.name} ELSE {}))
<1> SUFFICES ASSUME NEW name \in names \cup (IF m.type = "filterUpdate" THEN {m.name} ELSE {}),
                    set[name] # NoFilter
             PROVE  \E n \in DOMAIN u : u[n].type = "filterUpdate" /\ u[n].name = name /\ Settled(u, n)
  BY DEF FollowFor
<1>1. CASE m.type = "filterUpdate" /\ m.name = name
  <2>1. Settled(u, Len(q) + 1)
    BY DEF Grown, Settled
  <2>2. QED
    BY <1>1, <2>1 DEF Grown
<1>2. CASE ~(m.type = "filterUpdate" /\ m.name = name)
  <2>1. name \in names /\ force[name] # NoFilter
    BY <1>2
  <2>2. PICK n \in DOMAIN q : q[n].type = "filterUpdate" /\ q[n].name = name /\ Settled(q, n)
    BY <2>1 DEF FollowFor
  <2>3. n \in Nat /\ n <= Len(q) /\ n \in DOMAIN u /\ u[n] = q[n]
    BY DEF Grown
  <2>4. Settled(u, n)
    BY <2>2, <2>3, SilentGrown
  <2>5. QED
    BY <2>2, <2>3, <2>4
<1>3. QED
  BY <1>1, <1>2

-----------------------------------------------------------------------------
(* A queue is dispatched, message by message.                              *)

\* The sets of states after each of the first n messages.
Steps(after, state, queue, n) ==
  after = [k \in 0..n |-> IF k = 0 THEN {state} ELSE Dispatch(after[k - 1], queue[k])]

LEMMA StepsExist ==
  ASSUME NEW state, NEW queue, NEW n \in Nat
  PROVE  \E after : Steps(after, state, queue, n)
<1> DEFINE P == {k \in Nat : \E after : Steps(after, state, queue, k)}
<1>1. 0 \in P
  <2> DEFINE a == [k \in 0..0 |-> {state}]
  <2>1. Steps(a, state, queue, 0)
    BY DEF Steps
  <2> HIDE DEF a
  <2>2. QED
    BY <2>1
<1>2. ASSUME NEW k \in P PROVE k + 1 \in P
  <2>1. PICK a : Steps(a, state, queue, k)
    OBVIOUS
  <2>2. k \in Nat /\ k + 1 \in Nat
    OBVIOUS
  <2> DEFINE D == Dispatch(a[k], queue[k + 1])
             b == [i \in 0..k + 1 |-> IF i <= k THEN a[i] ELSE D]
  <2>3. ASSUME NEW i \in 0..k PROVE a[i] = IF i = 0 THEN {state} ELSE Dispatch(a[i - 1], queue[i])
    BY <2>1, <2>2 DEF Steps
  <2> HIDE DEF D
  <2>4. \A i \in 0..k : i \in 0..k + 1 /\ b[i] = a[i]
    BY <2>2
  <2>5. b[k + 1] = D
    BY <2>2
  <2>6. ASSUME NEW i \in 0..k + 1
        PROVE  b[i] = IF i = 0 THEN {state} ELSE Dispatch(b[i - 1], queue[i])
    <3>1. CASE i = k + 1
      <4>1. i # 0 /\ i - 1 = k /\ k \in 0..k
        BY <2>2, <3>1
      <4> HIDE DEF b
      <4>2. b[i - 1] = a[k]
        BY <2>4, <4>1
      <4>3. b[i] = Dispatch(b[i - 1], queue[i])
        BY <2>5, <3>1, <4>2 DEF D
      <4>4. QED
        BY <4>1, <4>3
    <3>2. CASE i # k + 1
      <4>1. i \in 0..k /\ (i # 0 => i - 1 \in 0..k)
        BY <2>2, <3>2
      <4> HIDE DEF b
      <4>2. b[i] = a[i] /\ (i # 0 => b[i - 1] = a[i - 1])
        BY <2>4, <4>1
      <4>3. QED
        BY <2>3, <4>1, <4>2
    <3>3. QED
      BY <3>1, <3>2
  <2>7. b = [i \in 0..k + 1 |-> b[i]]
    OBVIOUS
  <2> HIDE DEF b
  <2>8. Steps(b, state, queue, k + 1)
    BY <2>6, <2>7 DEF Steps
  <2>9. QED
    BY <2>2, <2>8
<1>3. P = Nat
  <2>1. P \in SUBSET Nat /\ \A k \in P : k + 1 \in P
    <3>1. P \in SUBSET Nat
      OBVIOUS
    <3> HIDE DEF P
    <3>2. QED
      BY <1>2, <3>1
  <2> HIDE DEF P
  <2>2. QED
    BY <1>1, <2>1, Induct
<1>4. QED
  BY <1>3

Stages(a, state, queue) ==
  /\ a[0] = {state} /\ a[Len(queue)] = Dispatched(state, queue)
  /\ \A k \in 1..Len(queue) : a[k] = Dispatch(a[k - 1], queue[k])

\* A queue is dispatched in stages, one for each of its messages.
LEMMA DispatchedIs ==
  ASSUME NEW state, NEW queue, Len(queue) \in Nat
  PROVE  \E a : Stages(a, state, queue)
<1> DEFINE n == Len(queue)
           a == CHOOSE after : Steps(after, state, queue, n)
<1>1. Steps(a, state, queue, n)
  BY StepsExist
<1>2. Dispatched(state, queue) = a[n]
  BY DEF Dispatched, Steps
<1> HIDE DEF a
<1>3. \A k \in 0..n : a[k] = IF k = 0 THEN {state} ELSE Dispatch(a[k - 1], queue[k])
  BY <1>1 DEF Steps
<1>4. a[0] = {state} /\ \A k \in 1..n : a[k] = Dispatch(a[k - 1], queue[k])
  <2>1. 0 \in 0..n /\ \A k \in 1..n : k \in 0..n /\ k # 0
    OBVIOUS
  <2> HIDE DEF n
  <2>2. QED
    BY <1>3, <2>1
<1>5. Stages(a, state, queue)
  BY <1>2, <1>4 DEF Stages
<1>6. QED
  BY <1>5

LEMMA DispatchIs ==
  ASSUME NEW states, NEW msg, NEW t \in Dispatch(states, msg)
  PROVE  \E s \in states : t = Told(Reduce(s, msg))
BY DEF Dispatch

\* A message outside of a fetch.
LEMMA DispatchKept ==
  ASSUME NEW s, StoreKept(s), NEW m \in Messages, m.type # "reset", NEW t \in Dispatch({s}, m)
  PROVE  StoreKept(t) /\ Dispatches(s, t, m)
<1>1. t = Told(Reduce(s, m))
  BY DispatchIs
<1>2. QED
  BY <1>1, DispatchesOne DEF Dispatches

\* The list of an answer, and what was queued meanwhile.
LEMMA ReceivedKept ==
  ASSUME NEW s, StoreKept(s), NEW list \in Lists, NEW queue \in Seq(Messages),
         \A i \in DOMAIN queue : queue[i].type # "reset",
         NEW t \in Dispatched(s, <<[type |-> "receive", flows |-> list]>> \o queue),
         NEW rest \in Seq(Messages), NEW had \in Lists, NEW force
  PROVE  /\ StoreKept(t)
         /\ (/\ LastTells(queue \o rest, had, force) /\ AddsFollow(queue \o rest)
             /\ FiltersFollow(queue \o rest, force)
             /\ \A f \in Flows : StartsFrom(list, queue \o rest, 0, f, had))
              => InStep(t, rest, 0, had, force)
<1> DEFINE first == [type |-> "receive", flows |-> list]
           q == queue \o rest
           n == Len(queue)
           Live == /\ LastTells(q, had, force) /\ AddsFollow(q)
                   /\ FiltersFollow(q, force)
                   /\ \A f \in Flows : StartsFrom(list, q, 0, f, had)
<1>1. /\ n \in Nat /\ DOMAIN queue = 1..n /\ q \in Seq(Messages)
      /\ \A i \in 1..n : i \in DOMAIN q /\ q[i] = queue[i] /\ queue[i] \in Messages
  <2>1. Len(queue) \in Nat /\ Len(rest) \in Nat /\ DOMAIN queue = 1..n
        /\ \A i \in 1..n : queue[i] \in Messages
    BY LenProperties, ElementOfSeq
  <2>2. /\ q \in Seq(Messages) /\ Len(q) = n + Len(rest)
        /\ \A i \in 1..n + Len(rest) : q[i] = IF i <= n THEN queue[i] ELSE rest[i - n]
    BY ConcatProperties
  <2>3. DOMAIN q = 1..n + Len(rest)
    BY <2>2, LenProperties
  <2> HIDE DEF q, n
  <2>4. QED
    BY <2>1, <2>2, <2>3 DEF n
<1>2. PICK all : all = <<first>> \o queue
  OBVIOUS
<1>3. Len(all) = n + 1 /\ all[1] = first /\ \A i \in 1..n : all[i + 1] = queue[i]
  <2> DEFINE S == {first} \cup Messages
  <2>1. /\ <<first>> \in Seq(S) /\ queue \in Seq(S) /\ Len(<<first>>) = 1 /\ <<first>>[1] = first
    <3>1. \A i \in 1..n : queue[i] \in S
      BY <1>1
    <3>2. queue \in Seq(S)
      <4> HIDE DEF S
      <4>1. queue \in [1..n -> S]
        BY <1>1, <3>1, LenProperties
      <4>2. QED
        BY <1>1, <4>1
    <3>3. QED
      BY <3>2
  <2>2. first \in S
    OBVIOUS
  <2> DEFINE one == <<first>>
  <2> HIDE DEF S, first
  <2>3. one \in Seq(S) /\ Len(one) = 1 /\ one[1] = first
    BY <2>1, <2>2
  <2> HIDE DEF one
  <2>4. /\ Len(one \o queue) = Len(one) + Len(queue)
        /\ \A i \in 1..Len(one) + Len(queue) :
             (one \o queue)[i] = IF i <= Len(one) THEN one[i] ELSE queue[i - Len(one)]
    BY <2>1, <2>3, ConcatProperties
  <2>5. all = one \o queue
    BY <1>2 DEF one
  <2>6. Len(queue) = n
    OBVIOUS
  <2> HIDE DEF n
  <2>7. Len(all) = n + 1 /\ \A i \in 1..n + 1 : all[i] = IF i <= 1 THEN one[i] ELSE queue[i - 1]
    BY <1>1, <2>3, <2>4, <2>5, <2>6
  <2>8. 1 \in 1..n + 1 /\ \A i \in 1..n : i + 1 \in 1..n + 1 /\ ~(i + 1 <= 1) /\ (i + 1) - 1 = i
    BY <1>1
  <2>9. QED
    BY <2>3, <2>7, <2>8
<1>4. PICK a : /\ a[0] = {s} /\ a[n + 1] = Dispatched(s, all)
               /\ \A k \in 1..n + 1 : a[k] = Dispatch(a[k - 1], all[k])
  <2>1. Len(all) \in Nat
    BY <1>1, <1>3
  <2>2. PICK a : Stages(a, s, all)
    BY <2>1, DispatchedIs
  <2> HIDE DEF n
  <2>3. QED
    BY <1>3, <2>2 DEF Stages
<1> DEFINE Good(k) == \A u \in a[k + 1] : StoreKept(u) /\ (Live => InStep(u, q, k, had, force))
           P == {k \in Nat : k <= n => Good(k)}
<1>0. Live => LastTells(q, had, force) /\ AddsFollow(q) /\ FiltersFollow(q, force)
              /\ \A f \in Flows : StartsFrom(list, q, 0, f, had)
  OBVIOUS
<1>00. t \in a[n + 1]
  BY <1>2, <1>4
<1>01. n = Len(queue) /\ q = queue \o rest
  OBVIOUS
<1> HIDE DEF q, n, Live
<1>5. Good(0)
  <2> SUFFICES ASSUME NEW u \in a[0 + 1]
               PROVE  StoreKept(u) /\ (Live => InStep(u, q, 0, had, force))
    OBVIOUS
  <2>1. u \in Dispatch({s}, first)
    <3>1. 1 \in 1..n + 1 /\ 0 + 1 = 1 /\ 1 - 1 = 0
      BY <1>1
    <3>2. a[1] = Dispatch(a[0], all[1])
      BY <1>4, <3>1
    <3> HIDE DEF first
    <3>3. QED
      BY <1>3, <1>4, <3>1, <3>2
  <2>2. u = Told(Reduce(s, first))
    BY <2>1, DispatchIs
  <2>3. Reduce(s, first) = FlowsReceive(s, list)
    BY DEF Reduce
  <2>4. /\ StoreKept(u) /\ u.list = list
        /\ \A f \in Flows : f \in Ids(u.view) <=> f \in Ids(list)
    BY <2>2, <2>3, ReceivesTold
  <2>5. ASSUME Live PROVE InStep(u, q, 0, had, force)
    BY <1>0, <1>1, <2>4, <2>5, InStepReceived
  <2>6. QED
    BY <2>4, <2>5
<1>6. ASSUME NEW k \in Nat, k + 1 <= n, Good(k) PROVE Good(k + 1)
  <2> SUFFICES ASSUME NEW u \in a[(k + 1) + 1]
               PROVE  StoreKept(u) /\ (Live => InStep(u, q, k + 1, had, force))
    OBVIOUS
  <2>1. k + 1 \in 1..n /\ (k + 1) + 1 \in 1..n + 1 /\ ((k + 1) + 1) - 1 = k + 1
    BY <1>1, <1>6
  <2>2. a[(k + 1) + 1] = Dispatch(a[k + 1], queue[k + 1])
    BY <1>3, <1>4, <2>1
  <2>3. PICK w \in a[k + 1] : u = Told(Reduce(w, queue[k + 1]))
    BY <2>2, DispatchIs
  <2>4. /\ queue[k + 1] \in Messages /\ queue[k + 1].type # "reset"
        /\ k + 1 \in DOMAIN q /\ q[k + 1] = queue[k + 1]
    BY <1>1, <2>1
  <2>5. StoreKept(w) /\ (Live => InStep(w, q, k, had, force))
    BY <1>6, <2>3
  <2>6. Dispatches(w, u, q[k + 1])
    BY <2>3, <2>4, <2>5, DispatchesOne
  <2>7. ASSUME Live PROVE InStep(u, q, k + 1, had, force)
    <3>1. Turns(w, u, q, k, had, force)
      BY <1>0, <1>1, <2>4, <2>6, <2>7 DEF Turns
    <3>2. QED
      BY <2>5, <2>7, <3>1, InStepNext
  <2>8. QED
    BY <2>6, <2>7 DEF Dispatches
<1>7. P = Nat
  <2>1. 0 \in P
    BY <1>5
  <2>2. ASSUME NEW k \in P PROVE k + 1 \in P
    <3>1. k \in Nat /\ (k <= n => Good(k)) /\ k + 1 \in Nat
      BY <2>2
    <3> HIDE DEF Good
    <3>2. k + 1 <= n => k <= n
      BY <1>1, <3>1
    <3>3. QED
      BY <1>6, <3>1, <3>2
  <2>3. P \in SUBSET Nat
    OBVIOUS
  <2> HIDE DEF P
  <2>4. QED
    BY <2>1, <2>2, <2>3, Induct
<1>8. Good(n)
  <2>1. \A k \in P : k <= n => Good(k)
    OBVIOUS
  <2> HIDE DEF P, Good
  <2>2. n \in P /\ n <= n
    BY <1>1, <1>7
  <2>3. QED
    BY <2>1, <2>2
<1>9. StoreKept(t) /\ (Live => InStep(t, q, n, had, force))
  BY <1>00, <1>8
<1>10. InStep(t, q, n, had, force) => InStep(t, rest, 0, had, force)
  BY <1>01, SuffixShifted, InStepShifted
<1>11. QED
  BY <1>9, <1>10, <1>01 DEF Live

-----------------------------------------------------------------------------
(* The filters that are sent to the server.                                *)

LEMMA Joined ==
  ASSUME NEW S, NEW a \in Seq(S), NEW b \in Seq(S), NEW u, u = a \o b
  PROVE  /\ u \in Seq(S) /\ Len(a) \in Nat
         /\ \A i \in DOMAIN a : i \in DOMAIN u /\ i \in Nat /\ i <= Len(a) /\ u[i] = a[i]
         /\ \A i \in DOMAIN b : i + Len(a) \in DOMAIN u /\ i \in Nat /\ i > 0 /\ u[i + Len(a)] = b[i]
         /\ \A i \in DOMAIN u : \/ i \in Nat /\ i \in DOMAIN a
                                \/ i \in Nat /\ i > Len(a) /\ i - Len(a) \in DOMAIN b
<1>1. /\ u \in Seq(S) /\ Len(a) \in Nat /\ Len(b) \in Nat /\ Len(u) = Len(a) + Len(b)
      /\ \A i \in 1..Len(a) + Len(b) : u[i] = IF i <= Len(a) THEN a[i] ELSE b[i - Len(a)]
  BY ConcatProperties, LenProperties
<1>2. DOMAIN a = 1..Len(a) /\ DOMAIN b = 1..Len(b) /\ DOMAIN u = 1..Len(u)
  BY <1>1, LenProperties
<1>3. QED
  BY <1>1, <1>2

\* Every message says what is wanted, and what is wanted anew is said.
Says(messages, sent, wanted) ==
  /\ messages \in Seq(Wishes)
  /\ \A i \in DOMAIN messages : messages[i].expr = wanted[messages[i].name]
  /\ \A name \in FilterName :
       sent[name] = wanted[name] \/ \E i \in DOMAIN messages : messages[i].name = name

\* onStoreUpdate sends each filter that differs from what was sent last.
LEMMA FilterMessagesSay ==
  ASSUME NEW sent \in Filters, NEW wanted \in Filters
  PROVE  Says(FilterMessages(sent, wanted), sent, wanted)
<1> DEFINE Message(name) == IF sent[name] = wanted[name] THEN << >>
                            ELSE <<[name |-> name, expr |-> wanted[name]]>>
<1>1. ASSUME NEW name \in FilterName
      PROVE  /\ Message(name) \in Seq(Wishes)
             /\ \A i \in DOMAIN Message(name) : Message(name)[i].expr = wanted[Message(name)[i].name]
             /\ sent[name] = wanted[name] \/ \E i \in DOMAIN Message(name) : Message(name)[i].name = name
  <2>1. PICK w : w = [name |-> name, expr |-> wanted[name]]
    OBVIOUS
  <2>2. w \in Wishes /\ w.name = name /\ w.expr = wanted[name]
    BY <1>1, <2>1 DEF Wishes, Filters
  <2>3. CASE sent[name] = wanted[name]
    <3>1. Message(name) = << >>
      BY <2>3
    <3>2. << >> \in Seq(Wishes) /\ DOMAIN << >> = {}
      OBVIOUS
    <3> HIDE DEF Message
    <3>3. QED
      BY <2>3, <3>1, <3>2
  <2>4. CASE sent[name] # wanted[name]
    <3>1. Message(name) = <<w>>
      BY <2>1, <2>4
    <3>2. <<w>> \in Seq(Wishes) /\ DOMAIN <<w>> = {1} /\ <<w>>[1] = w
      BY <2>2
    <3> HIDE DEF Message
    <3>3. QED
      BY <2>2, <3>1, <3>2
  <2>5. QED
    BY <2>3, <2>4
<1>2. PICK a : a = Message("search")
  OBVIOUS
<1>3. PICK b : b = Message("highlight")
  OBVIOUS
<1>4. PICK u : u = a \o b
  OBVIOUS
<1>5. FilterMessages(sent, wanted) = u
  BY <1>2, <1>3, <1>4 DEF FilterMessages
<1>6. FilterName = {"search", "highlight"}
  BY DEF FilterName
<1> HIDE DEF Message
<1>7. a \in Seq(Wishes) /\ b \in Seq(Wishes)
  BY <1>1, <1>2, <1>3, <1>6
<1>8. /\ u \in Seq(Wishes)
      /\ \A i \in DOMAIN a : i \in DOMAIN u /\ u[i] = a[i]
      /\ \A i \in DOMAIN b : i + Len(a) \in DOMAIN u /\ u[i + Len(a)] = b[i]
      /\ \A i \in DOMAIN u : i \in DOMAIN a \/ (i - Len(a) \in DOMAIN b /\ i = (i - Len(a)) + Len(a))
  BY <1>4, <1>7, Joined
<1>9. \A i \in DOMAIN u : u[i].expr = wanted[u[i].name]
  BY <1>1, <1>2, <1>3, <1>6, <1>8
<1>10. \A name \in FilterName : sent[name] = wanted[name] \/ \E i \in DOMAIN u : u[i].name = name
  BY <1>1, <1>2, <1>3, <1>6, <1>8
<1>11. QED
  BY <1>5, <1>8, <1>9, <1>10 DEF Says

\* When more filters are sent, the last one of a name is the one wanted now.
LEMMA LastSentMore ==
  ASSUME NEW q \in Seq(Wishes), NEW force, NEW sent, NEW wanted, LastSent(q, force, sent),
         NEW messages, Says(messages, sent, wanted)
  PROVE  q \o messages \in Seq(Wishes) /\ LastSent(q \o messages, force, wanted)
<1>1. PICK u : u = q \o messages
  OBVIOUS
<1>2. messages \in Seq(Wishes)
  BY DEF Says
<1>3. /\ u \in Seq(Wishes) /\ Len(q) \in Nat
      /\ \A i \in DOMAIN q : i \in DOMAIN u /\ i \in Nat /\ i <= Len(q) /\ u[i] = q[i]
      /\ \A i \in DOMAIN messages : /\ i + Len(q) \in DOMAIN u /\ i \in Nat /\ i > 0
                                    /\ u[i + Len(q)] = messages[i]
      /\ \A i \in DOMAIN u : \/ i \in Nat /\ i \in DOMAIN q
                             \/ i \in Nat /\ i > Len(q) /\ i - Len(q) \in DOMAIN messages
  BY <1>1, <1>2, Joined
<1>4. ASSUME NEW name \in FilterName
      PROVE  /\ (\A i \in DOMAIN u : u[i].name # name) => force[name] = wanted[name]
             /\ \A n \in DOMAIN u :
                  u[n].name = name /\ (\A i \in DOMAIN u : i > n => u[i].name # name)
                    => u[n].expr = wanted[name]
  <2>1. (\A i \in DOMAIN messages : messages[i].name # name) => sent[name] = wanted[name]
    BY <1>4 DEF Says
  <2>2. ASSUME \A i \in DOMAIN u : u[i].name # name PROVE force[name] = wanted[name]
    <3>1. \A i \in DOMAIN q : q[i].name # name
      BY <1>3, <2>2
    <3>2. \A i \in DOMAIN messages : messages[i].name # name
      BY <1>3, <2>2
    <3>3. QED
      BY <1>4, <2>1, <3>1, <3>2 DEF LastSent
  <2>3. ASSUME NEW n \in DOMAIN u, u[n].name = name, \A i \in DOMAIN u : i > n => u[i].name # name
        PROVE  u[n].expr = wanted[name]
    <3>1. CASE n \in DOMAIN q
      <4>1. \A i \in DOMAIN q : i > n => q[i].name # name
        BY <1>3, <2>3
      <4>2. \A i \in DOMAIN messages : messages[i].name # name
        <5>1. \A i \in DOMAIN messages : i + Len(q) > n
          BY <1>3, <3>1
        <5>2. QED
          BY <1>3, <2>3, <5>1
      <4>3. QED
        BY <1>3, <1>4, <2>1, <2>3, <3>1, <4>1, <4>2 DEF LastSent
    <3>2. CASE n > Len(q) /\ n - Len(q) \in DOMAIN messages
      <4>1. n = (n - Len(q)) + Len(q)
        BY <1>3
      <4>2. u[n] = messages[n - Len(q)]
        BY <1>3, <3>2, <4>1
      <4>3. QED
        BY <2>3, <3>2, <4>2 DEF Says
    <3>3. QED
      BY <1>3, <3>1, <3>2
  <2>4. QED
    BY <2>2, <2>3
<1>5. QED
  BY <1>1, <1>3, <1>4 DEF LastSent

\* When the server reads a filter, the last one of a name is in force or still on its way.
LEMMA LastSentTail ==
  ASSUME NEW q \in Seq(Wishes), q # << >>, NEW force \in Filters, NEW wanted,
         LastSent(q, force, wanted)
  PROVE  /\ Head(q) \in Wishes /\ Tail(q) \in Seq(Wishes)
         /\ [force EXCEPT ![Head(q).name] = Head(q).expr] \in Filters
         /\ LastSent(Tail(q), [force EXCEPT ![Head(q).name] = Head(q).expr], wanted)
<1>1. PICK h, b : h = Head(q) /\ b = Tail(q)
  OBVIOUS
<1>2. /\ h \in Wishes /\ b \in Seq(Wishes) /\ h = q[1] /\ Len(b) = Len(q) - 1
      /\ \A i \in 1..Len(b) : b[i] = q[i + 1]
  BY <1>1, HeadTailProperties
<1>3. DOMAIN b = 1..Len(b) /\ DOMAIN q = 1..Len(q) /\ Len(q) \in Nat /\ Len(b) \in Nat
  BY <1>2, LenProperties
<1>4. /\ 1 \in DOMAIN q
      /\ \A i \in DOMAIN b : i \in Nat /\ i > 0 /\ i + 1 \in DOMAIN q /\ b[i] = q[i + 1]
      /\ \A i \in DOMAIN q : i = 1 \/ (i \in Nat /\ i > 1 /\ i - 1 \in DOMAIN b /\ q[i] = b[i - 1])
  <2>1. Len(q) >= 1
    BY <1>2, <1>3
  <2>2. \A i \in DOMAIN b : i \in Nat /\ i > 0 /\ i + 1 \in DOMAIN q /\ b[i] = q[i + 1]
    BY <1>2, <1>3
  <2>3. ASSUME NEW i \in DOMAIN q, i # 1 PROVE i \in Nat /\ i > 1 /\ i - 1 \in DOMAIN b /\ q[i] = b[i - 1]
    <3>1. i \in Nat /\ i > 1 /\ i - 1 \in DOMAIN b /\ (i - 1) + 1 = i
      BY <1>2, <1>3, <2>3
    <3>2. QED
      BY <2>2, <3>1
  <2>4. QED
    BY <1>3, <2>1, <2>2, <2>3
<1>5. PICK set : set = [force EXCEPT ![h.name] = h.expr]
  OBVIOUS
<1>6. /\ h.name \in FilterName /\ h.expr \in {NoFilter} \cup Exprs /\ set \in Filters
      /\ set[h.name] = h.expr /\ \A name \in FilterName : name # h.name => set[name] = force[name]
  BY <1>2, <1>5 DEF Wishes, Filters
<1>7. ASSUME NEW name \in FilterName
      PROVE  /\ (\A i \in DOMAIN b : b[i].name # name) => set[name] = wanted[name]
             /\ \A n \in DOMAIN b :
                  b[n].name = name /\ (\A i \in DOMAIN b : i > n => b[i].name # name)
                    => b[n].expr = wanted[name]
  <2>1. ASSUME \A i \in DOMAIN b : b[i].name # name PROVE set[name] = wanted[name]
    <3>1. \A i \in DOMAIN q : i # 1 => q[i].name # name
      <4> SUFFICES ASSUME NEW i \in DOMAIN q, i # 1 PROVE q[i].name # name
        OBVIOUS
      <4>1. i - 1 \in DOMAIN b /\ q[i] = b[i - 1]
        BY <1>4
      <4>2. QED
        BY <2>1, <4>1
    <3>2. CASE h.name = name
      <4>1. \A i \in DOMAIN q : i > 1 => q[i].name # name
        BY <3>1
      <4>2. q[1].expr = wanted[name]
        BY <1>2, <1>4, <1>7, <3>2, <4>1 DEF LastSent
      <4>3. QED
        BY <1>2, <1>6, <3>2, <4>2
    <3>3. CASE h.name # name
      <4>1. \A i \in DOMAIN q : q[i].name # name
        BY <1>2, <1>4, <3>1, <3>3
      <4>2. QED
        BY <1>6, <1>7, <3>3, <4>1 DEF LastSent
    <3>4. QED
      BY <3>2, <3>3
  <2>2. ASSUME NEW n \in DOMAIN b, b[n].name = name, \A i \in DOMAIN b : i > n => b[i].name # name
        PROVE  b[n].expr = wanted[name]
    <3>1. n + 1 \in DOMAIN q /\ q[n + 1] = b[n] /\ n \in Nat
      BY <1>4
    <3>2. \A i \in DOMAIN q : i > n + 1 => q[i].name # name
      <4> SUFFICES ASSUME NEW i \in DOMAIN q, i > n + 1 PROVE q[i].name # name
        OBVIOUS
      <4>1. i # 1 /\ i \in Nat
        BY <1>4, <3>1
      <4>2. i - 1 \in DOMAIN b /\ q[i] = b[i - 1] /\ i - 1 > n
        BY <1>4, <3>1, <4>1
      <4>3. QED
        BY <2>2, <4>2
    <3>3. QED
      BY <1>7, <2>2, <3>1, <3>2 DEF LastSent
  <2>3. QED
    BY <2>1, <2>2
<1>8. QED
  BY <1>1, <1>2, <1>5, <1>6, <1>7 DEF LastSent

-----------------------------------------------------------------------------
(* What the server pushes is what it has.                                  *)

LEMMA FoundAre ==
  ASSUME NEW had \in Lists, NEW expr, NEW found, NEW ids,
         found = Kept(had, {i \in DOMAIN had : had[i].v \in Accepts[expr]}),
         ids = [i \in DOMAIN found |-> found[i].id]
  PROVE  ids \in Names /\ \A f \in Flows : f \in ToSet(ids) <=> Matches(had, f, expr)
<1>1. had \in Seq(Item) /\ \A i, j \in DOMAIN had : had[i].id = had[j].id => i = j
  BY DEF Lists, Unique
<1> DEFINE kept == {i \in DOMAIN had : had[i].v \in Accepts[expr]}
<1>2. /\ kept \in SUBSET DOMAIN had /\ found = Kept(had, kept)
      /\ \A i \in DOMAIN had : i \in kept <=> had[i].v \in Accepts[expr]
  OBVIOUS
<1> HIDE DEF kept
<1>3. found \in Seq(Item) /\ Rearranges(found, had, kept)
  BY <1>1, <1>2, KeptRearranges
<1>4. /\ ids \in Seq(Flows) /\ DOMAIN ids = DOMAIN found
      /\ \A i \in DOMAIN found : ids[i] = found[i].id
  <2>1. \A i \in DOMAIN found : found[i].id \in Flows
    BY <1>3, Data
  <2>2. ids \in [DOMAIN found -> Flows]
    BY <2>1
  <2>3. QED
    BY <1>3, <2>2, Mapped
<1>5. ASSUME NEW i \in DOMAIN ids, NEW j \in DOMAIN ids, ids[i] = ids[j], i # j PROVE FALSE
  <2>1. PICK a \in kept, b \in kept : a # b /\ found[i] = had[a] /\ found[j] = had[b]
    BY <1>3, <1>4, <1>5 DEF Rearranges
  <2>2. a \in DOMAIN had /\ b \in DOMAIN had /\ had[a].id = had[b].id
    BY <1>2, <1>4, <1>5, <2>1
  <2>3. QED
    BY <1>1, <2>1, <2>2
<1>6. ASSUME NEW f \in ToSet(ids) PROVE Matches(had, f, expr)
  <2>1. PICK i \in DOMAIN found : found[i].id = f
    BY <1>4, <1>6 DEF ToSet
  <2>2. PICK a \in kept : found[i] = had[a]
    BY <1>3 DEF Rearranges
  <2>3. had[a] \in ToSet(had) /\ had[a].v \in Accepts[expr] /\ had[a].id = f
    BY <1>2, <2>1, <2>2, IdsAre
  <2>4. QED
    BY <2>3 DEF Matches, Entry
<1>7. ASSUME NEW f, Matches(had, f, expr) PROVE f \in ToSet(ids)
  <2>1. PICK g \in ToSet(had) : g.id = f /\ g.v \in Accepts[expr]
    BY <1>7 DEF Matches, Entry
  <2>2. PICK a \in DOMAIN had : had[a] = g
    BY <2>1, IdsAre
  <2>3. PICK i \in DOMAIN found : found[i] = had[a]
    BY <1>2, <1>3, <2>1, <2>2 DEF Rearranges
  <2>4. i \in DOMAIN ids /\ ids[i] = f
    BY <1>4, <2>1, <2>2, <2>3
  <2>5. QED
    BY <2>4 DEF ToSet
<1>8. ids \in Names
  BY <1>4, <1>5 DEF Names
<1>9. QED
  BY <1>6, <1>7, <1>8

\* The answer of a filter, as it is pushed.
ResultOf(m, name, expr, had) ==
  /\ m \in Messages /\ m.type = "filterUpdate" /\ m.name = name
  /\ m.unset <=> expr = NoFilter
  /\ ~m.unset => \A f \in Flows : f \in ToSet(m.ids) <=> Matches(had, f, expr)

\* The answer to a filter names the flows of the server that it matches.
LEMMA FilterResultIs ==
  ASSUME served' \in Lists, NEW name \in FilterName, NEW expr
  PROVE  ResultOf(FilterResult(name, expr), name, expr, served')
<1> DEFINE kept == {i \in DOMAIN served' : served'[i].v \in Accepts[expr]}
           matching == IF expr = NoFilter THEN << >> ELSE Kept(served', kept)
           ids == [i \in DOMAIN matching |-> matching[i].id]
           m == [type |-> "filterUpdate", name |-> name, unset |-> expr = NoFilter, ids |-> ids]
<1>1. FilterResult(name, expr) = m
  BY DEF FilterResult
<1>2. CASE expr = NoFilter
  <2>1. ids = << >>
    BY <1>2
  <2>2. << >> \in Names
    BY DEF Names
  <2> HIDE DEF ids
  <2>3. m \in Messages
    BY <2>1, <2>2 DEF Messages
  <2>4. m.type = "filterUpdate" /\ m.name = name /\ m.unset
    BY <1>2
  <2>5. QED
    BY <1>1, <1>2, <2>3, <2>4 DEF ResultOf
<1>3. CASE expr # NoFilter
  <2>1. matching = Kept(served', kept)
    BY <1>3
  <2>2. PICK found : found = Kept(served', kept)
    OBVIOUS
  <2>3. PICK named : named = [i \in DOMAIN found |-> found[i].id]
    OBVIOUS
  <2>4. ids = named
    BY <2>1, <2>2, <2>3
  <2>5. named \in Names /\ \A f \in Flows : f \in ToSet(named) <=> Matches(served', f, expr)
    BY <2>2, <2>3, FoundAre
  <2> HIDE DEF ids
  <2>6. m \in Messages
    BY <2>4, <2>5 DEF Messages
  <2>7. m.type = "filterUpdate" /\ m.name = name /\ ~m.unset /\ m.ids = named
    BY <1>3, <2>4
  <2>8. QED
    BY <1>1, <1>3, <2>5, <2>6, <2>7 DEF ResultOf
<1>4. QED
  BY <1>2, <1>3

LEMMA PushedFilter ==
  ASSUME NEW m, NEW name \in FilterName, NEW had, NEW force, NEW set, ResultOf(m, name, set[name], had),
         \A other \in FilterName : other # name => set[other] = force[other]
  PROVE  Pushed(m, had, had, force, set)
<1>1. m.type = "filterUpdate" /\ m.name = name /\ \A f : ~About(m, f)
  BY DEF ResultOf, About
<1>2. \A f \in Flows, other \in FilterName : SaysBy(m, f, other, had, set[other])
  BY <1>1 DEF SaysBy, ResultOf
<1>3. QED
  BY <1>1, <1>2 DEF Pushed

\* The verdicts sent with a flow are those of the filters in force.
LEMMA MatchingIs ==
  ASSUME NEW flow
  PROVE  /\ MatchingFilters(flow) \in [FilterName -> Match]
         /\ \A name \in FilterName : MatchingFilters(flow)[name] = Verdict(flow, serverFilters[name])
BY DEF MatchingFilters, Match, Verdict

\* A message with a flow: its id is the only one of which the list says something new.
LEMMA PushedFlow ==
  ASSUME NEW m, NEW flow \in Item, m.type \in {"add", "update"}, m.flow = flow,
         NEW had, NEW more, NEW force,
         \A name \in FilterName : m.matching[name] = Verdict(flow, force[name]),
         flow \in ToSet(more), \A f \in Flows : f # flow.id => Entry(more, f) = Entry(had, f),
         m.type = "add" => flow.id \notin Ids(had)
  PROVE  Pushed(m, had, more, force, force)
<1>1. /\ m.type # "filterUpdate" /\ m.type # "remove"
      /\ \A f : About(m, f) <=> flow.id = f
  BY DEF About
<1>2. \A f \in Flows, name \in FilterName : SaysBy(m, f, name, more, force[name])
  BY <1>1 DEF SaysBy
<1>3. \A f \in Flows : About(m, f) => SaysOf(m, f, more)
  BY <1>1 DEF SaysOf
<1>4. QED
  BY <1>1, <1>2, <1>3 DEF Pushed

LEMMA PushedRemove ==
  ASSUME NEW m, m.type = "remove", NEW had, NEW more, NEW force, m.id \notin Ids(more),
         \A f \in Flows : f # m.id => Entry(more, f) = Entry(had, f)
  PROVE  Pushed(m, had, more, force, force)
<1>1. \A f : About(m, f) <=> m.id = f
  BY DEF About
<1>2. QED
  BY <1>1 DEF Pushed, SaysOf, SaysBy

LEMMA ServedAdd ==
  ASSUME NEW had \in Lists, NEW flow \in Item, flow.id \notin Ids(had)
  PROVE  /\ Append(had, flow) \in Lists /\ flow \in ToSet(Append(had, flow))
         /\ \A f \in Flows : f # flow.id => Entry(Append(had, flow), f) = Entry(had, f)
<1>1. had \in Seq(Item) /\ \A i, j \in DOMAIN had : had[i].id = had[j].id => i = j
  BY DEF Lists, Unique
<1>2. PICK u : u = Append(had, flow)
  OBVIOUS
<1>3. /\ u \in Seq(Item) /\ Len(had) \in Nat /\ DOMAIN had = 1..Len(had)
      /\ DOMAIN u = 1..Len(had) + 1 /\ \A i \in 1..Len(had) : u[i] = had[i]
      /\ u[Len(had) + 1] = flow /\ ToSet(u) = ToSet(had) \cup {flow}
  BY <1>1, <1>2, Appended
<1>4. \A i \in DOMAIN u : i = Len(had) + 1 \/ (i \in DOMAIN had /\ u[i] = had[i])
  BY <1>3
<1>5. \A i \in DOMAIN had : had[i].id # flow.id
  BY IdsAre
<1>6. Unique(u)
  BY <1>1, <1>3, <1>4, <1>5 DEF Unique
<1>7. QED
  BY <1>2, <1>3, <1>6 DEF Lists, Entry

LEMMA ServedUpdate ==
  ASSUME NEW had \in Lists, NEW i \in DOMAIN had, NEW flow \in Item, flow.id = had[i].id
  PROVE  /\ [had EXCEPT ![i] = flow] \in Lists /\ flow \in ToSet([had EXCEPT ![i] = flow])
         /\ \A f \in Flows : f # flow.id => Entry([had EXCEPT ![i] = flow], f) = Entry(had, f)
<1>1. had \in Seq(Item) /\ \A a, b \in DOMAIN had : had[a].id = had[b].id => a = b
  BY DEF Lists, Unique
<1>2. PICK u : u = [had EXCEPT ![i] = flow]
  OBVIOUS
<1>3. /\ u \in Seq(Item) /\ DOMAIN u = DOMAIN had /\ u[i] = flow
      /\ \A j \in DOMAIN had : j # i => u[j] = had[j]
  <2>1. DOMAIN u = DOMAIN had /\ u[i] = flow /\ \A j \in DOMAIN had : j # i => u[j] = had[j]
    BY <1>2
  <2>2. u \in [DOMAIN had -> Item]
    BY <1>1, <1>2, <2>1, Data
  <2>3. QED
    BY <1>1, <2>1, <2>2, Mapped
<1>4. \A j \in DOMAIN had : u[j].id = had[j].id
  BY <1>3
<1>5. Unique(u)
  BY <1>1, <1>3, <1>4 DEF Unique
<1>6. ASSUME NEW f \in Flows, f # flow.id PROVE Entry(u, f) = Entry(had, f)
  <2>1. \A j \in DOMAIN had : had[j].id = f => j # i
    BY <1>6
  <2>2. ASSUME NEW g \in ToSet(u), g.id = f PROVE g \in ToSet(had)
    <3>1. PICK j \in DOMAIN u : u[j] = g
      BY IdsAre
    <3>2. QED
      BY <1>3, <1>4, <2>1, <2>2, <3>1, IdsAre
  <2>3. ASSUME NEW g \in ToSet(had), g.id = f PROVE g \in ToSet(u)
    <3>1. PICK j \in DOMAIN had : had[j] = g
      BY IdsAre
    <3>2. QED
      BY <1>3, <2>1, <2>3, <3>1, IdsAre
  <2>4. QED
    BY <2>2, <2>3, EntryIs
<1>7. flow \in ToSet(u)
  BY <1>3, IdsAre
<1>8. QED
  BY <1>2, <1>3, <1>5, <1>6, <1>7 DEF Lists

LEMMA ServedRemove ==
  ASSUME NEW had \in Lists, NEW i \in DOMAIN had
  PROVE  /\ RemoveAt(had, i) \in Lists /\ had[i].id \notin Ids(RemoveAt(had, i))
         /\ \A f \in Flows : f # had[i].id => Entry(RemoveAt(had, i), f) = Entry(had, f)
<1>1. had \in Seq(Item) /\ \A a, b \in DOMAIN had : had[a].id = had[b].id => a = b
  BY DEF Lists, Unique
<1>2. PICK u : u = RemoveAt(had, i)
  OBVIOUS
<1>3. /\ u \in Seq(Item) /\ Len(had) \in Nat /\ i \in 1..Len(had) /\ DOMAIN had = 1..Len(had)
      /\ DOMAIN u = 1..Len(had) - 1
      /\ \A j \in 1..Len(had) - 1 : u[j] = IF j < i THEN had[j] ELSE had[j + 1]
  BY <1>1, <1>2, TakenOut, LenProperties
<1>4. \A j \in DOMAIN u : \E a \in DOMAIN had : /\ a # i /\ u[j] = had[a]
                                                /\ a = IF j < i THEN j ELSE j + 1
  <2> SUFFICES ASSUME NEW j \in DOMAIN u
               PROVE  \E a \in DOMAIN had : a # i /\ u[j] = had[a] /\ a = IF j < i THEN j ELSE j + 1
    OBVIOUS
  <2>1. CASE j < i
    BY <1>3, <2>1
  <2>2. CASE ~(j < i)
    <3>1. j + 1 \in DOMAIN had /\ j + 1 # i /\ u[j] = had[j + 1]
      BY <1>3, <2>2
    <3>2. QED
      BY <2>2, <3>1
  <2>3. QED
    BY <2>1, <2>2
<1>5. \A a \in DOMAIN had : a # i => \E j \in DOMAIN u : u[j] = had[a]
  <2> SUFFICES ASSUME NEW a \in DOMAIN had, a # i PROVE \E j \in DOMAIN u : u[j] = had[a]
    OBVIOUS
  <2>1. CASE a < i
    <3>1. a \in DOMAIN u /\ u[a] = had[a]
      BY <1>3, <2>1
    <3>2. QED
      BY <3>1
  <2>2. CASE ~(a < i)
    <3>1. a - 1 \in 1..Len(had) - 1 /\ ~(a - 1 < i) /\ (a - 1) + 1 = a
      BY <1>3, <2>2
    <3>2. QED
      BY <1>3, <3>1
  <2>3. QED
    BY <2>1, <2>2
<1>6. Unique(u)
  <2> SUFFICES ASSUME NEW j \in DOMAIN u, NEW k \in DOMAIN u, u[j].id = u[k].id PROVE j = k
    BY DEF Unique
  <2>1. PICK a \in DOMAIN had : u[j] = had[a] /\ a = IF j < i THEN j ELSE j + 1
    BY <1>4
  <2>2. PICK b \in DOMAIN had : u[k] = had[b] /\ b = IF k < i THEN k ELSE k + 1
    BY <1>4
  <2>3. a = b
    BY <1>1, <2>1, <2>2
  <2>4. j \in Nat /\ k \in Nat /\ i \in Nat
    BY <1>3
  <2>5. QED
    BY <2>1, <2>2, <2>3, <2>4
<1>7. had[i].id \notin Ids(u)
  <2> SUFFICES ASSUME NEW j \in DOMAIN u, u[j].id = had[i].id PROVE FALSE
    BY DEF Ids
  <2>1. QED
    BY <1>1, <1>4
<1>8. ASSUME NEW f \in Flows, f # had[i].id PROVE Entry(u, f) = Entry(had, f)
  <2>1. ASSUME NEW g \in ToSet(u) PROVE g \in ToSet(had)
    BY <1>4, IdsAre
  <2>2. ASSUME NEW g \in ToSet(had), g.id = f PROVE g \in ToSet(u)
    <3>1. PICK a \in DOMAIN had : had[a] = g
      BY IdsAre
    <3>2. a # i
      BY <1>8, <2>2, <3>1
    <3>3. QED
      BY <1>5, <3>1, <3>2, IdsAre
  <2>3. QED
    BY <2>1, <2>2, EntryIs
<1>9. QED
  BY <1>2, <1>3, <1>6, <1>7, <1>8 DEF Lists

-----------------------------------------------------------------------------
(* The steps of the server.                                                *)

\* What InTouch says of an open connection.
Ready(q, had, force, store, fetch, asked) ==
  /\ q \in Seq(Messages) /\ Synced(q, had, force, store, fetch, asked)
  /\ fetch.active \/ ~Settled(q, 0) => FiltersFollow(q, force)

LEMMA FollowForAll ==
  ASSUME NEW q, NEW force
  PROVE  FiltersFollow(q, force) <=> FollowFor(q, force, FilterName)
BY DEF FiltersFollow, FollowFor

\* A message that is so is pushed: the connection stays as it should be.
LEMMA ReadyPushed ==
  ASSUME NEW q, NEW m \in Messages, m.type # "reset", NEW had, NEW more, NEW force, NEW set,
         Pushed(m, had, more, force, set), NEW store, NEW fetch, NEW asked,
         Ready(q, had, force, store, fetch, asked)
  PROVE  Ready(q \o <<m>>, more, set, store, fetch, asked)
<1>1. PICK u : u = Append(q, m)
  OBVIOUS
<1>2. q \in Seq(Messages) /\ u = q \o <<m>>
  BY <1>1, AppendIsConcat DEF Ready
<1>3. Grown(q, m, u)
  BY <1>1, <1>2, AppendGrown
<1>4. Synced(u, more, set, store, fetch, asked)
  BY <1>3, SyncedGrown DEF Ready
<1>5. ASSUME fetch.active \/ ~Settled(u, 0) PROVE FiltersFollow(u, set)
  <2>1. 0 \in Nat /\ 0 <= Len(q)
    BY <1>3 DEF Grown
  <2>2. Settled(u, 0) <=> Settled(q, 0)
    BY <1>3, <2>1, SilentGrown
  <2>3. FiltersFollow(q, force)
    BY <1>5, <2>2 DEF Ready
  <2>4. \A name \in FilterName : (m.type = "filterUpdate" /\ m.name = name) \/ set[name] = force[name]
    BY DEF Pushed
  <2>5. FollowFor(u, set, FilterName \cup (IF m.type = "filterUpdate" THEN {m.name} ELSE {}))
    BY <1>3, <2>3, <2>4, FollowForAll, FollowGrown
  <2>6. FollowFor(u, set, FilterName)
    BY <2>5 DEF FollowFor
  <2>7. QED
    BY <2>6, FollowForAll
<1>6. u \in Seq(Messages)
  BY <1>3 DEF Grown
<1>7. QED
  BY <1>2, <1>4, <1>5, <1>6 DEF Ready

\* After a reset, a filter is answered again if it is set.
Again(again, m, expr) == again = IF expr = NoFilter THEN << >> ELSE <<m>>

LEMMA SyncedAgain ==
  ASSUME NEW q \in Seq(Messages), NEW had, NEW force, NEW store, NEW fetch, NEW asked,
         Synced(q, had, force, store, fetch, asked), NEW names, FollowFor(q, force, names),
         NEW name \in FilterName, NEW m, ResultOf(m, name, force[name], had),
         NEW again, Again(again, m, force[name])
  PROVE  /\ again \in Seq(Messages) /\ q \o again \in Seq(Messages)
         /\ Synced(q \o again, had, force, store, fetch, asked)
         /\ FollowFor(q \o again, force, names \cup {name})
<1>1. CASE force[name] = NoFilter
  <2>1. again = << >> /\ << >> \in Seq(Messages) /\ q \o << >> = q
    BY <1>1, ConcatEmptySeq DEF Again
  <2>2. FollowFor(q, force, names \cup {name})
    BY <1>1 DEF FollowFor
  <2>3. QED
    BY <2>1, <2>2
<1>2. CASE force[name] # NoFilter
  <2>1. PICK u : u = Append(q, m)
    OBVIOUS
  <2>2. m \in Messages /\ m.type = "filterUpdate" /\ m.name = name
    BY DEF ResultOf
  <2>3. again = <<m>> /\ <<m>> \in Seq(Messages) /\ u = q \o again
    BY <1>2, <2>1, <2>2, AppendIsConcat DEF Again
  <2>4. Grown(q, m, u)
    BY <2>1, <2>2, AppendGrown
  <2>5. Pushed(m, had, had, force, force)
    BY PushedFilter
  <2>6. Synced(u, had, force, store, fetch, asked)
    BY <2>4, <2>5, SyncedGrown
  <2>7. FollowFor(u, force, names \cup (IF m.type = "filterUpdate" THEN {m.name} ELSE {}))
    BY <2>2, <2>4, FollowGrown
  <2>8. FollowFor(u, force, names \cup {name})
    BY <2>2, <2>7
  <2>9. u \in Seq(Messages)
    BY <2>4 DEF Grown
  <2>10. QED
    BY <2>3, <2>6, <2>8, <2>9
<1>3. QED
  BY <1>1, <1>2

LEMMA Associates ==
  ASSUME NEW q \in Seq(Messages), NEW s \in Seq(Messages), NEW t \in Seq(Messages)
  PROVE  (q \o s) \o t = q \o (s \o t)
<1>1. PICK S : S = Messages
  OBVIOUS
<1>2. q \in Seq(S) /\ s \in Seq(S) /\ t \in Seq(S)
  BY <1>1
<1>3. q \o (s \o t) = (q \o s) \o t
  BY <1>2, ConcatAssociative
<1>4. QED
  BY <1>3

LEMMA Regroups ==
  ASSUME NEW q \in Seq(Messages), NEW r \in Seq(Messages), NEW t \in Seq(Messages),
         NEW v \in Seq(Messages)
  PROVE  ((q \o r) \o t) \o v = q \o ((r \o t) \o v)
<1>1. r \o t \in Seq(Messages)
  BY ConcatProperties
<1>2. (q \o r) \o t = q \o (r \o t)
  BY Associates
<1>3. (q \o (r \o t)) \o v = q \o ((r \o t) \o v)
  BY <1>1, Associates
<1>4. QED
  BY <1>2, <1>3

\* A refresh: a reset, and behind it the answer of each filter that is set.
LEMMA ReadyRefreshed ==
  ASSUME NEW q, NEW had, NEW more, NEW force, NEW store, NEW fetch, NEW asked,
         Ready(q, had, force, store, fetch, asked), NEW reset, reset = [type |-> "reset"],
         NEW m, ResultOf(m, "search", force["search"], more),
         NEW n, ResultOf(n, "highlight", force["highlight"], more),
         NEW a, Again(a, m, force["search"]), NEW b, Again(b, n, force["highlight"])
  PROVE  /\ (<<reset>> \o a) \o b \in Seq(Messages)
         /\ Ready(q \o ((<<reset>> \o a) \o b), more, force, store, fetch, asked)
<1>0. FilterName = {"search", "highlight"}
  BY DEF FilterName
<1>1. PICK u : u = Append(q, reset)
  OBVIOUS
<1>2. q \in Seq(Messages) /\ reset \in Messages /\ reset.type = "reset"
  BY DEF Ready, Messages
<1>3. <<reset>> \in Seq(Messages) /\ u = q \o <<reset>> /\ Grown(q, reset, u) /\ u \in Seq(Messages)
  BY <1>1, <1>2, AppendIsConcat, AppendGrown DEF Grown
<1>4. Synced(u, more, force, store, fetch, asked)
  <2>1. Pushed(reset, had, more, force, force)
    BY <1>2 DEF Pushed
  <2>2. QED
    BY <1>3, <2>1, SyncedGrown DEF Ready
<1>5. FollowFor(u, force, {})
  BY DEF FollowFor
<1>6. /\ a \in Seq(Messages) /\ u \o a \in Seq(Messages)
      /\ Synced(u \o a, more, force, store, fetch, asked)
      /\ FollowFor(u \o a, force, {} \cup {"search"})
  BY <1>0, <1>3, <1>4, <1>5, SyncedAgain
<1>7. PICK w : w = u \o a
  OBVIOUS
<1>8. w \in Seq(Messages) /\ Synced(w, more, force, store, fetch, asked) /\ FollowFor(w, force, {"search"})
  BY <1>6, <1>7
<1>9. /\ b \in Seq(Messages) /\ w \o b \in Seq(Messages)
      /\ Synced(w \o b, more, force, store, fetch, asked)
      /\ FollowFor(w \o b, force, {"search"} \cup {"highlight"})
  BY <1>0, <1>8, SyncedAgain
<1>10. FiltersFollow(w \o b, force)
  BY <1>0, <1>9, FollowForAll DEF FollowFor
<1>11. q \o ((<<reset>> \o a) \o b) = w \o b
  <2>1. PICK one : one = <<reset>>
    OBVIOUS
  <2>2. one \in Seq(Messages) /\ w = (q \o one) \o a
    BY <1>3, <1>7, <2>1
  <2>3. \A r, t, v \in Seq(Messages) : ((q \o r) \o t) \o v = q \o ((r \o t) \o v)
    BY <1>2, Regroups
  <2>4. ((q \o one) \o a) \o b = q \o ((one \o a) \o b)
    <3>1. one \in Seq(Messages) /\ a \in Seq(Messages) /\ b \in Seq(Messages)
      BY <1>6, <1>9, <2>2
    <3>2. QED
      BY <2>3, <3>1, Zenon
  <2>5. QED
    BY <2>1, <2>2, <2>4
<1>12. (<<reset>> \o a) \o b \in Seq(Messages)
  <2>1. <<reset>> \o a \in Seq(Messages)
    BY <1>3, <1>6, ConcatProperties
  <2>2. QED
    BY <1>9, <2>1, ConcatProperties
<1>13. QED
  BY <1>9, <1>10, <1>11, <1>12 DEF Ready

LEMMA PendingIs ==
  ASSUME FetchesKnown
  PROVE  /\ activeFetch.queue \in Seq(Messages) /\ inbox \in Seq(Messages)
         /\ Pending \in Seq(Messages) /\ Pending = activeFetch.queue \o inbox
         /\ activeFetch.id \in Nat /\ activeFetch.active \in BOOLEAN
         /\ ~activeFetch.active => activeFetch.queue = << >>
         /\ \A i \in DOMAIN activeFetch.queue : activeFetch.queue[i].type # "reset"
<1>1. activeFetch.queue \in Seq(Messages) /\ inbox \in Seq(Messages)
  BY DEF FetchesKnown
<1>2. Pending \in Seq(Messages)
  BY <1>1, ConcatProperties DEF Pending
<1>3. QED
  BY <1>1, <1>2 DEF Pending, FetchesKnown

LEMMA InTouchIs ==
  ASSUME SInv, socket = "open"
  PROVE  Ready(Pending, served, serverFilters, flows, activeFetch, requests)
BY PendingIs DEF SInv, InTouch, Ready

\* A step that only pushes messages.
Pushes(messages) ==
  /\ Broadcast(messages)
  /\ UNCHANGED <<socket, fetchVars, flows, filterVars>>

\* What a step that only pushes messages has to show.
LEMMA PushesKeep ==
  ASSUME SInv, NEW messages \in Seq(Messages), Pushes(messages),
         socket = "connecting" => UNCHANGED <<serverFilters, outbox>>,
         socket = "open" =>
           Ready(Pending \o messages, served', serverFilters', flows, activeFetch, requests)
  PROVE  FetchesKnown' /\ InTouch' /\ StoreKept(flows)'
<1>1. FetchesKnown
  BY DEF SInv
<1>2. /\ inbox' = IF socket = "open" THEN inbox \o messages ELSE inbox
      /\ socket' = socket /\ requests' = requests /\ activeFetch' = activeFetch
      /\ flows' = flows
  BY DEF Pushes, Broadcast, fetchVars
<1>3. inbox' \in Seq(Messages)
  BY <1>1, <1>2, PendingIs, ConcatProperties
<1>4. FetchesKnown'
  BY <1>1, <1>2, <1>3 DEF FetchesKnown, NoFilters
<1>5. ASSUME socket' = "open" PROVE InTouch'
  <2>1. Pending' = activeFetch.queue \o (inbox \o messages)
    BY <1>2, <1>5 DEF Pending
  <2>2. Pending' = Pending \o messages
    <3>1. activeFetch.queue \in Seq(Messages) /\ inbox \in Seq(Messages)
      BY <1>1, PendingIs
    <3>2. (activeFetch.queue \o inbox) \o messages = activeFetch.queue \o (inbox \o messages)
      BY <3>1, Associates
    <3>3. QED
      BY <2>1, <3>2 DEF Pending
  <2>3. QED
    BY <1>2, <1>5, <2>2 DEF InTouch, Ready
<1>6. InTouch'
  BY <1>5 DEF InTouch
<1>7. StoreKept(flows)'
  BY <1>2 DEF SInv
<1>8. QED
  BY <1>4, <1>6, <1>7

\* What all steps of the server leave as it is.
LEMMA ServerKeeps ==
  ASSUME SInv, UNCHANGED <<socket, fetchVars, filterVars>>, served' \in Lists
  PROVE  /\ ServerKept'
         /\ UNCHANGED <<serverFilters, outbox>> => FiltersSent'
<1>1. ServerKept'
  BY DEF SInv, ServerKept, fetchVars
<1>2. ASSUME UNCHANGED <<serverFilters, outbox>> PROVE FiltersSent'
  BY <1>2 DEF SInv, FiltersSent, filterVars
<1>3. QED
  BY <1>1, <1>2

\* A flow is added to the view of the server ...
LEMMA ServerAddKeeps ==
  ASSUME SInv, NEW id \in Flows, NEW v \in Values, ServerAdd(id, v)
  PROVE  SInv'
<1>1. PICK flow : flow = [id |-> id, v |-> v]
  OBVIOUS
<1>2. PICK m : m = [type |-> "add", flow |-> flow, matching |-> MatchingFilters(flow)]
  OBVIOUS
<1>3. /\ served' = Append(served, flow) /\ id \notin Ids(served) /\ Pushes(<<m>>)
      /\ UNCHANGED <<serverFilters, outbox, socket, fetchVars, filterVars>>
  BY <1>1, <1>2 DEF ServerAdd, Pushes
<1>4. flow \in Item /\ flow.id = id /\ served \in Lists
  BY <1>1 DEF Item, SInv, ServerKept
<1>5. m \in Messages /\ m.type = "add" /\ m.flow = flow /\ m.matching = MatchingFilters(flow)
  BY <1>2, <1>4, MatchingIs DEF Messages
<1>6. /\ served' \in Lists /\ flow \in ToSet(served')
      /\ \A f \in Flows : f # flow.id => Entry(served', f) = Entry(served, f)
  BY <1>3, <1>4, ServedAdd
<1>7. Pushed(m, served, served', serverFilters, serverFilters)
  BY <1>3, <1>4, <1>5, <1>6, MatchingIs, PushedFlow
<1>8. socket = "open" =>
        Ready(Pending \o <<m>>, served', serverFilters, flows, activeFetch, requests)
  BY <1>5, <1>7, InTouchIs, ReadyPushed
<1>9. <<m>> \in Seq(Messages)
  BY <1>5
<1>10. FetchesKnown' /\ InTouch' /\ StoreKept(flows)'
  BY <1>3, <1>8, <1>9, PushesKeep
<1>11. QED
  BY <1>3, <1>6, <1>10, ServerKeeps DEF SInv

\* ... a flow is changed there ...
LEMMA ServerUpdateKeeps ==
  ASSUME SInv, NEW i \in DOMAIN served, NEW v \in Values, ServerUpdate(i, v)
  PROVE  SInv'
<1>1. PICK flow : flow = [served[i] EXCEPT !.v = v]
  OBVIOUS
<1>2. PICK m : m = [type |-> "update", flow |-> flow, matching |-> MatchingFilters(flow)]
  OBVIOUS
<1>3. /\ served' = [served EXCEPT ![i] = flow] /\ Pushes(<<m>>)
      /\ UNCHANGED <<serverFilters, outbox, socket, fetchVars, filterVars>>
  BY <1>1, <1>2 DEF ServerUpdate, Pushes
<1>4. flow \in Item /\ flow.id = served[i].id /\ served \in Lists
  <2>1. served \in Lists /\ served \in Seq(Item)
    BY DEF SInv, ServerKept, Lists
  <2>2. served[i] \in Item
    BY <2>1, Data
  <2>3. QED
    BY <1>1, <2>1, <2>2 DEF Item
<1>5. m \in Messages /\ m.type = "update" /\ m.flow = flow /\ m.matching = MatchingFilters(flow)
  BY <1>2, <1>4, MatchingIs DEF Messages
<1>6. /\ served' \in Lists /\ flow \in ToSet(served')
      /\ \A f \in Flows : f # flow.id => Entry(served', f) = Entry(served, f)
  BY <1>3, <1>4, ServedUpdate
<1>7. Pushed(m, served, served', serverFilters, serverFilters)
  BY <1>4, <1>5, <1>6, MatchingIs, PushedFlow
<1>8. socket = "open" =>
        Ready(Pending \o <<m>>, served', serverFilters, flows, activeFetch, requests)
  BY <1>5, <1>7, InTouchIs, ReadyPushed
<1>9. <<m>> \in Seq(Messages)
  BY <1>5
<1>10. FetchesKnown' /\ InTouch' /\ StoreKept(flows)'
  BY <1>3, <1>8, <1>9, PushesKeep
<1>11. QED
  BY <1>3, <1>6, <1>10, ServerKeeps DEF SInv

\* ... a flow is removed ...
LEMMA ServerRemoveKeeps ==
  ASSUME SInv, NEW i \in DOMAIN served, ServerRemove(i)
  PROVE  SInv'
<1>1. PICK m : m = [type |-> "remove", id |-> served[i].id]
  OBVIOUS
<1>2. /\ served' = RemoveAt(served, i) /\ Pushes(<<m>>)
      /\ UNCHANGED <<serverFilters, outbox, socket, fetchVars, filterVars>>
  BY <1>1 DEF ServerRemove, Pushes
<1>3. served \in Lists /\ served[i].id \in Flows
  <2>1. served \in Lists /\ served \in Seq(Item)
    BY DEF SInv, ServerKept, Lists
  <2>2. QED
    BY <2>1, Data
<1>4. m \in Messages /\ m.type = "remove" /\ m.id = served[i].id
  BY <1>1, <1>3 DEF Messages
<1>5. /\ served' \in Lists /\ m.id \notin Ids(served')
      /\ \A f \in Flows : f # m.id => Entry(served', f) = Entry(served, f)
  BY <1>2, <1>3, <1>4, ServedRemove
<1>6. Pushed(m, served, served', serverFilters, serverFilters)
  BY <1>4, <1>5, PushedRemove
<1>7. socket = "open" =>
        Ready(Pending \o <<m>>, served', serverFilters, flows, activeFetch, requests)
  BY <1>4, <1>6, InTouchIs, ReadyPushed
<1>8. <<m>> \in Seq(Messages)
  BY <1>4
<1>9. FetchesKnown' /\ InTouch' /\ StoreKept(flows)'
  BY <1>2, <1>7, <1>8, PushesKeep
<1>10. QED
  BY <1>2, <1>5, <1>9, ServerKeeps DEF SInv

\* ... the view is cleared or refreshed ...
LEMMA ServerRefreshKeeps ==
  ASSUME SInv, NEW cleared \in BOOLEAN, ServerRefresh(cleared)
  PROVE  SInv'
<1>1. PICK reset : reset = [type |-> "reset"]
  OBVIOUS
<1>2. PICK m : m = FilterResult("search", serverFilters["search"])
  OBVIOUS
<1>3. PICK n : n = FilterResult("highlight", serverFilters["highlight"])
  OBVIOUS
<1>4. PICK a : a = IF serverFilters["search"] = NoFilter THEN << >> ELSE <<m>>
  OBVIOUS
<1>5. PICK b : b = IF serverFilters["highlight"] = NoFilter THEN << >> ELSE <<n>>
  OBVIOUS
<1>6. /\ served' = (IF cleared THEN << >> ELSE served) /\ Pushes((<<reset>> \o a) \o b)
      /\ UNCHANGED <<serverFilters, outbox, socket, fetchVars, filterVars>>
  BY <1>1, <1>2, <1>3, <1>4, <1>5 DEF ServerRefresh, Pushes
<1>7. served' \in Lists
  <2>1. << >> \in Lists
    BY DEF Lists, Unique
  <2>2. QED
    BY <1>6, <2>1 DEF SInv, ServerKept
<1>8. /\ ResultOf(m, "search", serverFilters["search"], served')
      /\ ResultOf(n, "highlight", serverFilters["highlight"], served')
  <2>1. "search" \in FilterName /\ "highlight" \in FilterName
    BY DEF FilterName
  <2>2. QED
    BY <1>2, <1>3, <1>7, <2>1, FilterResultIs
<1>9. /\ (<<reset>> \o a) \o b \in Seq(Messages)
      /\ socket = "open" =>
           Ready(Pending \o ((<<reset>> \o a) \o b), served', serverFilters, flows, activeFetch, requests)
  <2>1. reset \in Messages
    BY <1>1 DEF Messages
  <2>2. m \in Messages /\ n \in Messages
    BY <1>8 DEF ResultOf
  <2>3. a \in Seq(Messages) /\ b \in Seq(Messages) /\ <<reset>> \in Seq(Messages)
    BY <1>4, <1>5, <2>1, <2>2
  <2>4. (<<reset>> \o a) \o b \in Seq(Messages)
    <3>1. <<reset>> \o a \in Seq(Messages)
      BY <2>3, ConcatProperties
    <3>2. QED
      BY <2>3, <3>1, ConcatProperties
  <2>5. ASSUME socket = "open"
        PROVE  Ready(Pending \o ((<<reset>> \o a) \o b), served', serverFilters, flows, activeFetch, requests)
    <3>1. Ready(Pending, served, serverFilters, flows, activeFetch, requests)
      BY <2>5, InTouchIs
    <3>2. Again(a, m, serverFilters["search"]) /\ Again(b, n, serverFilters["highlight"])
      BY <1>4, <1>5 DEF Again
    <3>3. QED
      BY <1>1, <1>8, <3>1, <3>2, ReadyRefreshed
  <2>6. QED
    BY <2>4, <2>5
<1>10. FetchesKnown' /\ InTouch' /\ StoreKept(flows)'
  BY <1>6, <1>9, PushesKeep
<1>11. QED
  BY <1>6, <1>7, <1>10, ServerKeeps DEF SInv

\* ... and a filter of the connection is set, and answered.
LEMMA ServerUpdateFilterKeeps ==
  ASSUME SInv, ServerUpdateFilter
  PROVE  SInv'
<1>1. PICK w : w = Head(outbox)
  OBVIOUS
<1>2. PICK m : m = FilterResult(w.name, w.expr)
  OBVIOUS
<1>3. /\ socket = "open" /\ outbox # << >> /\ outbox' = Tail(outbox) /\ served' = served
      /\ serverFilters' = [serverFilters EXCEPT ![w.name] = w.expr] /\ Pushes(<<m>>)
      /\ UNCHANGED <<socket, fetchVars, filterVars>>
  BY <1>1, <1>2 DEF ServerUpdateFilter, Pushes
<1>4. /\ outbox \in Seq(Wishes) /\ serverFilters \in Filters /\ served \in Lists
      /\ LastSent(outbox, serverFilters, filterState)
  BY <1>3 DEF SInv, FiltersSent, ServerKept
<1>5. /\ w \in Wishes /\ outbox' \in Seq(Wishes) /\ serverFilters' \in Filters
      /\ LastSent(outbox', serverFilters', filterState)
  BY <1>1, <1>3, <1>4, LastSentTail
<1>6. /\ w.name \in FilterName /\ serverFilters'[w.name] = w.expr
      /\ \A other \in FilterName : other # w.name => serverFilters'[other] = serverFilters[other]
  BY <1>3, <1>4, <1>5 DEF Wishes, Filters
<1>7. served' \in Lists
  BY <1>3, <1>4
<1>8. ResultOf(m, w.name, serverFilters'[w.name], served')
  BY <1>2, <1>6, <1>7, FilterResultIs
<1>9. Pushed(m, served, served, serverFilters, serverFilters')
  BY <1>3, <1>6, <1>8, PushedFilter
<1>10. m \in Messages /\ m.type # "reset"
  BY <1>8 DEF ResultOf
<1>11. Ready(Pending \o <<m>>, served', serverFilters', flows, activeFetch, requests)
  BY <1>3, <1>9, <1>10, InTouchIs, ReadyPushed
<1>12. <<m>> \in Seq(Messages)
  BY <1>10
<1>13. FetchesKnown' /\ InTouch' /\ StoreKept(flows)'
  BY <1>3, <1>11, <1>12, PushesKeep
<1>14. FiltersSent'
  BY <1>3, <1>5 DEF SInv, FiltersSent, filterVars
<1>15. QED
  BY <1>3, <1>7, <1>13, <1>14, ServerKeeps DEF SInv

-----------------------------------------------------------------------------
(* The steps of the client.                                                *)

\* What all steps that leave the server and its filters alone keep.
LEMMA ClientKeeps ==
  ASSUME SInv, served' = served, socket' = socket,
         awaited' \subseteq {"flows", "others"},
         connection' \in {"INIT", "FETCHING", "ESTABLISHED", "ERROR"}
  PROVE  /\ ServerKept'
         /\ UNCHANGED <<serverFilters, outbox, filterVars>> => FiltersSent'
<1>1. ServerKept'
  BY DEF SInv, ServerKept
<1>2. ASSUME UNCHANGED <<serverFilters, outbox, filterVars>> PROVE FiltersSent'
  BY <1>2 DEF SInv, FiltersSent, filterVars
<1>3. QED
  BY <1>1, <1>2

\* A new fetch supersedes every other: what comes from now on is queued behind it.
LEMMA FetchStartsKnown ==
  ASSUME FetchesKnown, FetchData, inbox' \in Seq(Messages), socket' # "connecting"
  PROVE  /\ FetchesKnown' /\ activeFetch'.active /\ activeFetch'.queue = << >>
         /\ \A r \in requests' : r.id = activeFetch'.id => r.response = NotAnswered
<1>1. PICK id : id = activeFetch.id + 1
  OBVIOUS
<1>2. PICK new : new = [id |-> id, response |-> NotAnswered]
  OBVIOUS
<1>3. /\ activeFetch' = [id |-> id, active |-> TRUE, queue |-> << >>]
      /\ requests' = requests \cup {new}
  BY <1>1, <1>2 DEF FetchData
<1>4. activeFetch.id \in Nat /\ id \in Nat /\ activeFetch.id < id
  BY <1>1 DEF FetchesKnown
<1>5. new \in [id : Nat, response : Answers] /\ new.id = id /\ new.response = NotAnswered
  BY <1>2, <1>4 DEF Answers
<1>6. \A r \in requests : r.id \in Nat /\ r.id < id
  BY <1>4 DEF FetchesKnown
<1>7. activeFetch' \in [id : Nat, active : BOOLEAN, queue : Seq(Messages)]
  BY <1>3, <1>4
<1>8. activeFetch'.id = id /\ activeFetch'.active /\ activeFetch'.queue = << >>
  BY <1>3
<1>9. FetchesKnown'
  <2>1. requests' \in SUBSET [id : Nat, response : Answers]
    BY <1>3, <1>5 DEF FetchesKnown
  <2>2. \A r \in requests' : r.id <= id
    BY <1>3, <1>4, <1>5, <1>6
  <2>3. QED
    BY <1>7, <1>8, <2>1, <2>2 DEF FetchesKnown
<1>10. \A r \in requests' : r.id = activeFetch'.id => r.response = NotAnswered
  BY <1>3, <1>4, <1>5, <1>6, <1>8
<1>11. QED
  BY <1>8, <1>9, <1>10

\* So the connection is in touch with the server when what is in the inbox is.
LEMMA FetchStarts ==
  ASSUME FetchesKnown, FetchData, inbox' \in Seq(Messages), socket' = "open",
         LastTells(inbox', served', serverFilters'), AddsFollow(inbox'),
         FiltersFollow(inbox', serverFilters')
  PROVE  FetchesKnown' /\ InTouch'
<1>1. /\ FetchesKnown' /\ activeFetch'.active /\ activeFetch'.queue = << >>
      /\ \A r \in requests' : r.id = activeFetch'.id => r.response = NotAnswered
  BY FetchStartsKnown
<1>2. Pending' = inbox'
  <2>1. << >> \o inbox' = inbox'
    BY ConcatEmptySeq
  <2>2. QED
    BY <1>1, <2>1 DEF Pending
<1>3. Synced(Pending', served', serverFilters', flows', activeFetch', requests')
  BY <1>1, <1>2 DEF Synced
<1>4. QED
  BY <1>1, <1>2, <1>3 DEF InTouch

\* The WebSocket is open: the filters are sent and everything is fetched.
LEMMA OnOpenKeeps ==
  ASSUME SInv, OnOpen
  PROVE  SInv'
<1>1. /\ socket = "connecting" /\ socket' = "open" /\ FetchData
      /\ outbox' = messageQueue \o FilterMessages(filterState, filter)
      /\ messageQueue' = << >> /\ filterState' = filter /\ filter' = filter
      /\ connection' = (IF connection = "INIT" THEN "FETCHING" ELSE connection)
      /\ awaited' = {"flows", "others"} /\ served' = served /\ serverFilters' = serverFilters
      /\ inbox' = inbox /\ flows' = flows
  BY DEF OnOpen, serverVars
<1>2. FetchesKnown /\ inbox = << >> /\ serverFilters = NoFilters
  BY <1>1 DEF SInv, FetchesKnown
<1>3. FetchesKnown' /\ InTouch'
  <2>1. inbox' \in Seq(Messages) /\ DOMAIN inbox' = {}
    BY <1>1, <1>2
  <2>2. LastTells(inbox', served', serverFilters') /\ AddsFollow(inbox')
    BY <2>1 DEF LastTells, AddsFollow
  <2>3. FiltersFollow(inbox', serverFilters')
    BY <1>1, <1>2 DEF FiltersFollow, NoFilters
  <2>4. QED
    BY <1>1, <1>2, <2>1, <2>2, <2>3, FetchStarts
<1>4. /\ filter \in Filters /\ filterState \in Filters /\ serverFilters \in Filters
      /\ messageQueue \in Seq(Wishes) /\ LastSent(messageQueue, serverFilters, filterState)
  BY <1>1 DEF SInv, FiltersSent
<1>5. PICK messages : messages = FilterMessages(filterState, filter)
  OBVIOUS
<1>6. Says(messages, filterState, filter)
  BY <1>4, <1>5, FilterMessagesSay
<1>7. outbox' \in Seq(Wishes) /\ LastSent(outbox', serverFilters, filter)
  BY <1>1, <1>4, <1>5, <1>6, LastSentMore
<1>8. FiltersSent'
  BY <1>1, <1>4, <1>7 DEF FiltersSent
<1>9. ServerKept'
  BY <1>1 DEF SInv, ServerKept
<1>10. QED
  BY <1>1, <1>3, <1>8, <1>9 DEF SInv

LEMMA AwaitsLess ==
  ASSUME ServerKept, NEW what, NoLongerAwaiting(what)
  PROVE  /\ awaited' \subseteq {"flows", "others"}
         /\ connection' \in {"INIT", "FETCHING", "ESTABLISHED", "ERROR"}
BY DEF ServerKept, NoLongerAwaiting

\* The other resources of the page have arrived.
LEMMA OthersReceivedKeeps ==
  ASSUME SInv, OthersReceived
  PROVE  SInv'
<1>1. /\ NoLongerAwaiting("others")
      /\ UNCHANGED <<served, serverFilters, socket, inbox, outbox, requests, activeFetch, flows,
                     filterVars>>
  BY DEF OthersReceived, serverVars
<1>2. ServerKept' /\ FiltersSent'
  BY <1>1, AwaitsLess, ClientKeeps DEF SInv
<1>3. FetchesKnown' /\ InTouch' /\ StoreKept(flows)'
  BY <1>1 DEF SInv, FetchesKnown, InTouch, Pending, NoFilters
<1>4. QED
  BY <1>2, <1>3 DEF SInv

\* The server answers a fetch with what it has at this moment.
LEMMA ServerAnswerKeeps ==
  ASSUME SInv, NEW r \in requests, ServerAnswer(r)
  PROVE  SInv'
<1>1. PICK answer : answer = [answered |-> TRUE, flows |-> served]
  OBVIOUS
<1>2. PICK new : new = [r EXCEPT !.response = answer]
  OBVIOUS
<1>3. /\ requests' = (requests \ {r}) \cup {new}
      /\ UNCHANGED <<served, serverFilters, socket, inbox, outbox, activeFetch, awaited,
                     connection, flows, filterVars>>
  BY <1>1, <1>2 DEF ServerAnswer, serverVars
<1>4. served \in Lists /\ FetchesKnown /\ r \in [id : Nat, response : Answers]
  BY DEF SInv, ServerKept, FetchesKnown
<1>5. /\ new \in [id : Nat, response : Answers] /\ new.id = r.id
      /\ new.response.flows = served
  BY <1>1, <1>2, <1>4 DEF Answers
<1>6. ServerKept' /\ FiltersSent'
  BY <1>3, ClientKeeps DEF SInv, ServerKept
<1>7. FetchesKnown'
  <2>1. requests' \in SUBSET [id : Nat, response : Answers]
    BY <1>3, <1>4, <1>5 DEF FetchesKnown
  <2>2. \A s \in requests' : s.id <= activeFetch.id
    BY <1>3, <1>4, <1>5 DEF FetchesKnown
  <2>3. socket = "connecting" => requests' = {}
    BY <1>4 DEF FetchesKnown
  <2>4. QED
    BY <1>3, <1>4, <2>1, <2>2, <2>3 DEF FetchesKnown, NoFilters
<1>8. ASSUME socket = "open" PROVE InTouch'
  <2>1. Synced(Pending, served, serverFilters, flows, activeFetch, requests)
    BY <1>8 DEF SInv, InTouch
  <2>2. \A f \in Flows : StartsFrom(served, Pending, 0, f, served)
    BY DEF StartsFrom
  <2>3. Synced(Pending, served, serverFilters, flows, activeFetch, requests')
    BY <1>3, <1>5, <2>1, <2>2 DEF Synced
  <2>4. QED
    BY <1>3, <2>3 DEF SInv, InTouch, Pending
<1>9. InTouch'
  BY <1>3, <1>8 DEF InTouch
<1>10. QED
  BY <1>3, <1>6, <1>7, <1>9 DEF SInv

\* A fetch fails: what is queued stays.
LEMMA FetchFailsKeeps ==
  ASSUME SInv, NEW r \in requests, FetchFails(r)
  PROVE  SInv'
<1>1. /\ requests' = requests \ {r}
      /\ UNCHANGED <<served, serverFilters, socket, inbox, outbox, activeFetch, awaited,
                     connection, flows, filterVars>>
  BY DEF FetchFails, serverVars
<1>2. ServerKept' /\ FiltersSent'
  BY <1>1, ClientKeeps DEF SInv, ServerKept
<1>3. FetchesKnown'
  BY <1>1 DEF SInv, FetchesKnown, NoFilters
<1>4. InTouch'
  <2>1. Synced(Pending, served, serverFilters, flows, activeFetch, requests) =>
          Synced(Pending, served, serverFilters, flows, activeFetch, requests')
    BY <1>1 DEF Synced
  <2>2. QED
    BY <1>1, <2>1 DEF SInv, InTouch, Pending
<1>5. QED
  BY <1>1, <1>2, <1>3, <1>4 DEF SInv

\* The connection is lost: nothing is claimed of the client any more.
LEMMA OnCloseKeeps ==
  ASSUME SInv, OnClose
  PROVE  SInv'
<1>1. /\ socket' = "closed" /\ inbox' = << >> /\ outbox' = << >>
      /\ serverFilters' = [name \in FilterName |-> NoFilter] /\ connection' = "ERROR"
      /\ UNCHANGED <<served, requests, activeFetch, awaited, flows, filterVars>>
  BY DEF OnClose
<1>2. ServerKept'
  BY <1>1 DEF SInv, ServerKept
<1>3. FetchesKnown' /\ InTouch'
  BY <1>1 DEF SInv, FetchesKnown, InTouch
<1>4. FiltersSent'
  BY <1>1 DEF SInv, FiltersSent, Filters, filterVars
<1>5. QED
  BY <1>1, <1>2, <1>3, <1>4 DEF SInv

-----------------------------------------------------------------------------
(* The messages and the answers.                                           *)

\* What is in the inbox stands in Pending behind the queue.
LEMMA InboxShifted ==
  ASSUME FetchesKnown
  PROVE  Shifted(Pending, inbox, Len(activeFetch.queue))
BY PendingIs, SuffixShifted DEF Pending

\* A reset in the inbox is one in all that is pending.
LEMMA SettledInbox ==
  ASSUME NEW q, NEW b, NEW k, Shifted(q, b, k), ~Settled(b, 0)
  PROVE  ~Settled(q, 0)
<1>1. PICK i \in DOMAIN b : i > 0 /\ b[i].type = "reset"
  BY DEF Settled
<1>2. i + k \in DOMAIN q /\ q[i + k] = b[i] /\ i + k > 0
  BY <1>1 DEF Shifted
<1>3. QED
  BY <1>1, <1>2 DEF Settled

LEMMA HeadThenTail ==
  ASSUME NEW S, NEW q \in Seq(S), q # << >>
  PROVE  /\ Head(q) \in S /\ Tail(q) \in Seq(S) /\ q = <<Head(q)>> \o Tail(q)
         /\ 1 \in DOMAIN q /\ q[1] = Head(q)
<1>1. PICK m : m = Head(q)
  OBVIOUS
<1>2. PICK t : t = Tail(q)
  OBVIOUS
<1>3. /\ m \in S /\ t \in Seq(S) /\ Len(t) = Len(q) - 1 /\ \A i \in 1..Len(t) : t[i] = q[i + 1]
      /\ Len(q) \in Nat /\ Len(q) # 0 /\ DOMAIN q = 1..Len(q)
  BY <1>1, <1>2, HeadTailProperties, LenProperties, EmptySeq
<1>4. 1 \in DOMAIN q /\ q[1] = m
  BY <1>1, <1>3
<1>5. PICK one : one = <<m>>
  OBVIOUS
<1>6. one \in Seq(S) /\ Len(one) = 1 /\ one[1] = m
  BY <1>3, <1>5
<1>7. PICK u : u = one \o t
  OBVIOUS
<1>8. /\ u \in Seq(S) /\ Len(u) = 1 + Len(t)
      /\ \A i \in 1..1 + Len(t) : u[i] = IF i <= 1 THEN one[i] ELSE t[i - 1]
  <2>1. \A a, b \in Seq(S) :
          /\ a \o b \in Seq(S) /\ Len(a \o b) = Len(a) + Len(b)
          /\ \A i \in 1..Len(a) + Len(b) : (a \o b)[i] = IF i <= Len(a) THEN a[i] ELSE b[i - Len(a)]
    BY ConcatProperties
  <2>2. one \in Seq(S) /\ t \in Seq(S)
    BY <1>3, <1>6
  <2>3. /\ one \o t \in Seq(S) /\ Len(one \o t) = Len(one) + Len(t)
        /\ \A i \in 1..Len(one) + Len(t) :
             (one \o t)[i] = IF i <= Len(one) THEN one[i] ELSE t[i - Len(one)]
    BY <2>1, <2>2, Zenon
  <2>4. QED
    BY <1>6, <1>7, <2>3
<1>9. Len(q) = Len(u) /\ \A i \in 1..Len(q) : q[i] = u[i]
  <2>1. Len(q) = Len(u)
    BY <1>3, <1>8
  <2>2. ASSUME NEW i \in 1..Len(q) PROVE q[i] = u[i]
    <3>1. i \in 1..1 + Len(t) /\ i \in Nat
      BY <1>3
    <3>2. CASE i = 1
      BY <1>4, <1>6, <1>8, <3>1, <3>2
    <3>3. CASE i # 1
      <4>1. i - 1 \in 1..Len(t) /\ (i - 1) + 1 = i /\ ~(i <= 1)
        BY <1>3, <3>1, <3>3
      <4>2. t[i - 1] = q[i]
        BY <1>3, <4>1
      <4>3. QED
        BY <1>8, <3>1, <4>1, <4>2
    <3>4. QED
      BY <3>2, <3>3
  <2>3. QED
    BY <2>1, <2>2
<1>10. q = u
  BY <1>8, <1>9, SeqEqual
<1>11. QED
  BY <1>1, <1>2, <1>3, <1>4, <1>5, <1>7, <1>10

\* A reset begins another fetch, and what was queued is dropped: the answer will have it.
LEMMA MessageResets ==
  ASSUME SInv, OnMessage, Head(inbox).type = "reset"
  PROVE  SInv'
<1>1. /\ inbox # << >> /\ inbox' = Tail(inbox) /\ FetchData
      /\ UNCHANGED <<served, serverFilters, socket, outbox, awaited, connection, flows, filterVars>>
  BY DEF OnMessage, serverVars
<1>2. FetchesKnown /\ inbox \in Seq(Messages) /\ socket # "connecting"
  BY <1>1 DEF SInv, FetchesKnown
<1>3. inbox' \in Seq(Messages) /\ Shifted(inbox, inbox', 1)
  <2>1. inbox' \in Seq(Messages)
    BY <1>1, <1>2, HeadTailProperties
  <2>2. QED
    BY <1>1, <1>2, <2>1, TailShifted
<1>4. ServerKept' /\ FiltersSent'
  BY <1>1, ClientKeeps DEF SInv, ServerKept
<1>5. CASE socket = "open"
  <2>1. /\ LastTells(Pending, served, serverFilters) /\ AddsFollow(Pending)
        /\ ~Settled(Pending, 0) => FiltersFollow(Pending, serverFilters)
    BY <1>5 DEF SInv, InTouch, Synced
  <2>2. LastTells(inbox, served, serverFilters) /\ AddsFollow(inbox)
    BY <1>2, <2>1, InboxShifted, LastTellsShifted, AddsFollowShifted
  <2>3. LastTells(inbox', served, serverFilters) /\ AddsFollow(inbox')
    BY <1>3, <2>2, LastTellsShifted, AddsFollowShifted
  <2>4. 1 \in DOMAIN inbox /\ inbox[1].type = "reset"
    BY <1>1, <1>2, HeadThenTail
  <2>5. ~Settled(inbox, 0)
    BY <2>4 DEF Settled
  <2>6. FiltersFollow(inbox, serverFilters)
    <3>1. ~Settled(Pending, 0)
      BY <1>2, <2>5, InboxShifted, SettledInbox
    <3>2. QED
      BY <1>2, <2>1, <2>5, <3>1, InboxShifted, FiltersFollowShifted
  <2>7. FiltersFollow(inbox', serverFilters)
    BY <1>3, <2>4, <2>6, FiltersFollowShifted
  <2>8. FetchesKnown' /\ InTouch'
    BY <1>1, <1>2, <1>3, <1>5, <2>3, <2>7, FetchStarts
  <2>9. QED
    BY <1>1, <1>4, <2>8 DEF SInv
<1>6. CASE socket = "closed"
  <2>1. FetchesKnown'
    BY <1>1, <1>2, <1>3, <1>6, FetchStartsKnown
  <2>2. QED
    BY <1>1, <1>4, <1>6, <2>1 DEF SInv, InTouch
<1>7. QED
  BY <1>2, <1>5, <1>6 DEF SInv, ServerKept

\* A message that has to wait stays where it was in what is pending.
LEMMA MessageQueued ==
  ASSUME SInv, OnMessage, Head(inbox).type # "reset", activeFetch.active
  PROVE  SInv'
<1>1. PICK m : m = Head(inbox)
  OBVIOUS
<1>2. PICK queue : queue = Append(activeFetch.queue, m)
  OBVIOUS
<1>3. /\ inbox # << >> /\ inbox' = Tail(inbox)
      /\ activeFetch' = [activeFetch EXCEPT !.queue = queue]
      /\ UNCHANGED <<served, serverFilters, socket, outbox, awaited, connection, requests, flows,
                     filterVars>>
  BY <1>1, <1>2 DEF OnMessage, serverVars
<1>4. FetchesKnown /\ inbox \in Seq(Messages) /\ activeFetch.queue \in Seq(Messages)
  BY DEF SInv, FetchesKnown
<1>5. /\ m \in Messages /\ m.type # "reset" /\ inbox' \in Seq(Messages)
      /\ <<m>> \in Seq(Messages) /\ inbox = <<m>> \o inbox'
  <2>1. m \in Messages /\ inbox' \in Seq(Messages) /\ inbox = <<m>> \o inbox'
    BY <1>1, <1>3, <1>4, HeadThenTail
  <2>2. QED
    BY <1>1, <2>1
<1>6. queue \in Seq(Messages) /\ queue = activeFetch.queue \o <<m>>
  BY <1>2, <1>4, <1>5, AppendProperties, AppendIsConcat
<1>7. \A i \in DOMAIN queue : queue[i].type # "reset"
  <2>1. Grown(activeFetch.queue, m, queue)
    BY <1>2, <1>4, <1>5, AppendGrown
  <2>2. QED
    BY <1>4, <1>5, <2>1 DEF Grown, FetchesKnown
<1>8. /\ activeFetch' \in [id : Nat, active : BOOLEAN, queue : Seq(Messages)]
      /\ activeFetch'.id = activeFetch.id /\ activeFetch'.active = activeFetch.active
      /\ activeFetch'.queue = queue /\ activeFetch'.active
  BY <1>3, <1>4, <1>6 DEF FetchesKnown
<1>9. Pending' = Pending
  <2>1. (activeFetch.queue \o <<m>>) \o inbox' = activeFetch.queue \o (<<m>> \o inbox')
    BY <1>4, <1>5, Associates
  <2>2. QED
    BY <1>5, <1>6, <1>8, <2>1 DEF Pending
<1>10. FetchesKnown'
  BY <1>3, <1>4, <1>5, <1>7, <1>8 DEF FetchesKnown, NoFilters
<1>11. InTouch'
  BY <1>3, <1>8, <1>9 DEF SInv, InTouch, Synced
<1>12. ServerKept' /\ FiltersSent'
  BY <1>3, ClientKeeps DEF SInv, ServerKept
<1>13. QED
  BY <1>3, <1>10, <1>11, <1>12 DEF SInv

\* Outside of a fetch a message is dispatched at once.
LEMMA MessageDispatched ==
  ASSUME SInv, OnMessage, Head(inbox).type # "reset", ~activeFetch.active
  PROVE  SInv'
<1>1. PICK m : m = Head(inbox)
  OBVIOUS
<1>2. /\ inbox # << >> /\ inbox' = Tail(inbox) /\ flows' \in Dispatch({flows}, m)
      /\ UNCHANGED <<served, serverFilters, socket, outbox, awaited, connection, requests,
                     activeFetch, filterVars>>
  BY <1>1 DEF OnMessage, serverVars
<1>3. FetchesKnown /\ inbox \in Seq(Messages) /\ StoreKept(flows) /\ socket # "connecting"
  BY <1>2 DEF SInv, FetchesKnown
<1>4. /\ m \in Messages /\ m.type # "reset" /\ inbox' \in Seq(Messages)
      /\ Shifted(inbox, inbox', 1) /\ 1 \in DOMAIN inbox /\ inbox[1] = m
  <2>1. m \in Messages /\ inbox' \in Seq(Messages) /\ 1 \in DOMAIN inbox /\ inbox[1] = m
    BY <1>1, <1>2, <1>3, HeadThenTail
  <2>2. QED
    BY <1>1, <1>2, <1>3, <2>1, TailShifted
<1>5. StoreKept(flows') /\ Dispatches(flows, flows', m)
  BY <1>2, <1>3, <1>4, DispatchKept
<1>6. FetchesKnown'
  BY <1>2, <1>3, <1>4 DEF FetchesKnown
<1>7. Pending = inbox /\ Pending' = inbox'
  <2>1. activeFetch.queue = << >> /\ << >> \o inbox = inbox /\ << >> \o inbox' = inbox'
    BY <1>3, <1>4, PendingIs, ConcatEmptySeq
  <2>2. QED
    BY <1>2, <2>1 DEF Pending
<1>8. ASSUME socket = "open" PROVE InTouch'
  <2>1. /\ Synced(inbox, served, serverFilters, flows, activeFetch, requests)
        /\ ~Settled(inbox, 0) => FiltersFollow(inbox, serverFilters)
    BY <1>7, <1>8 DEF SInv, InTouch
  <2>2. LastTells(inbox', served, serverFilters) /\ AddsFollow(inbox')
    BY <1>4, <2>1, LastTellsShifted, AddsFollowShifted DEF Synced
  <2>3. InStep(flows', inbox', 0, served, serverFilters)
    <3>1. 0 \in Nat /\ 0 + 1 = 1
      OBVIOUS
    <3>2. Turns(flows, flows', inbox, 0, served, serverFilters)
      BY <1>3, <1>4, <1>5, <2>1, <3>1 DEF Turns, Synced, SInv, ServerKept
    <3>3. InStep(flows', inbox, 1, served, serverFilters)
      BY <2>1, <3>1, <3>2, InStepNext DEF Synced
    <3>4. QED
      BY <1>4, <3>3, InStepShifted
  <2>4. ~Settled(inbox', 0) => FiltersFollow(inbox', serverFilters)
    BY <1>4, <2>1, SettledInbox, FiltersFollowShifted
  <2>5. Synced(inbox', served, serverFilters, flows', activeFetch, requests)
    BY <2>2, <2>3 DEF Synced
  <2>6. QED
    BY <1>2, <1>7, <2>4, <2>5 DEF InTouch
<1>9. InTouch'
  BY <1>2, <1>8 DEF InTouch
<1>10. ServerKept' /\ FiltersSent'
  BY <1>2, ClientKeeps DEF SInv, ServerKept
<1>11. QED
  BY <1>5, <1>6, <1>9, <1>10 DEF SInv

LEMMA OnMessageKeeps ==
  ASSUME SInv, OnMessage
  PROVE  SInv'
BY MessageResets, MessageQueued, MessageDispatched

\* The answer of the fetch that counts, and all that was queued behind it.
LEMMA FetchCounts ==
  ASSUME SInv, NEW r \in requests, OnFetched(r), activeFetch.active, activeFetch.id = r.id
  PROVE  FetchesKnown' /\ InTouch' /\ StoreKept(flows)'
<1>1. PICK list : list = r.response.flows
  OBVIOUS
<1>2. /\ requests' = requests \ {r}
      /\ flows' \in Dispatched(flows, <<[type |-> "receive", flows |-> list]>> \o activeFetch.queue)
      /\ activeFetch' = [activeFetch EXCEPT !.active = FALSE, !.queue = << >>]
      /\ r.response # NotAnswered
      /\ UNCHANGED <<served, serverFilters, socket, inbox, outbox>>
  BY <1>1 DEF OnFetched, Received, serverVars
<1>3. FetchesKnown /\ StoreKept(flows) /\ served \in Lists
  BY DEF SInv, ServerKept
<1>4. PICK queue : queue = activeFetch.queue
  OBVIOUS
<1>5. /\ queue \in Seq(Messages) /\ inbox \in Seq(Messages) /\ Pending = queue \o inbox
      /\ \A i \in DOMAIN queue : queue[i].type # "reset"
  BY <1>3, <1>4, PendingIs
<1>6. list \in Lists
  BY <1>1, <1>2, <1>3 DEF FetchesKnown, Answers
<1>7. flows' \in Dispatched(flows, <<[type |-> "receive", flows |-> list]>> \o queue)
  BY <1>2, <1>4
<1>8. /\ StoreKept(flows')
      /\ (/\ LastTells(queue \o inbox, served, serverFilters) /\ AddsFollow(queue \o inbox)
          /\ FiltersFollow(queue \o inbox, serverFilters)
          /\ \A f \in Flows : StartsFrom(list, queue \o inbox, 0, f, served))
           => InStep(flows', inbox, 0, served, serverFilters)
  BY <1>3, <1>5, <1>6, <1>7, ReceivedKept
<1>9. /\ activeFetch' \in [id : Nat, active : BOOLEAN, queue : Seq(Messages)]
      /\ activeFetch'.id = activeFetch.id /\ ~activeFetch'.active /\ activeFetch'.queue = << >>
  <2>1. activeFetch \in [id : Nat, active : BOOLEAN, queue : Seq(Messages)]
    BY <1>3 DEF FetchesKnown
  <2>2. << >> \in Seq(Messages)
    BY EmptySeq
  <2>3. activeFetch' = [activeFetch EXCEPT !.active = FALSE, !.queue = << >>]
    BY <1>2
  <2>4. QED
    BY <2>1, <2>2, <2>3
<1>10. FetchesKnown'
  BY <1>2, <1>3, <1>9 DEF FetchesKnown, NoFilters
<1>11. Pending' = inbox
  BY <1>2, <1>5, <1>9, ConcatEmptySeq DEF Pending
<1>12. ASSUME socket = "open" PROVE InTouch'
  <2>1. /\ LastTells(Pending, served, serverFilters) /\ AddsFollow(Pending)
        /\ FiltersFollow(Pending, serverFilters)
        /\ \A f \in Flows : StartsFrom(list, Pending, 0, f, served)
    BY <1>1, <1>2, <1>12 DEF SInv, InTouch, Synced
  <2>2. InStep(flows', inbox, 0, served, serverFilters)
    BY <1>5, <1>8, <2>1
  <2>3. LastTells(inbox, served, serverFilters) /\ AddsFollow(inbox)
    BY <1>3, <2>1, InboxShifted, LastTellsShifted, AddsFollowShifted
  <2>4. ~Settled(inbox, 0) => FiltersFollow(inbox, serverFilters)
    BY <1>3, <2>1, InboxShifted, FiltersFollowShifted
  <2>5. Synced(inbox, served, serverFilters, flows', activeFetch', requests')
    BY <1>9, <2>2, <2>3 DEF Synced
  <2>6. QED
    BY <1>2, <1>9, <1>11, <2>4, <2>5 DEF InTouch
<1>13. InTouch'
  BY <1>2, <1>12 DEF InTouch
<1>14. QED
  BY <1>8, <1>10, <1>13

\* The answer of a fetch that was superseded.
LEMMA FetchSuperseded ==
  ASSUME SInv, NEW r \in requests, OnFetched(r), ~(activeFetch.active /\ activeFetch.id = r.id)
  PROVE  FetchesKnown' /\ InTouch' /\ StoreKept(flows)'
<1>1. /\ requests' = requests \ {r}
      /\ UNCHANGED <<served, serverFilters, socket, inbox, outbox, flows, activeFetch>>
  BY DEF OnFetched, serverVars
<1>2. FetchesKnown'
  BY <1>1 DEF SInv, FetchesKnown, NoFilters
<1>3. InTouch'
  <2>1. Synced(Pending, served, serverFilters, flows, activeFetch, requests) =>
          Synced(Pending, served, serverFilters, flows, activeFetch, requests')
    BY <1>1 DEF Synced
  <2>2. QED
    BY <1>1, <2>1 DEF SInv, InTouch, Pending
<1>4. QED
  BY <1>1, <1>2, <1>3 DEF SInv

LEMMA OnFetchedKeeps ==
  ASSUME SInv, NEW r \in requests, OnFetched(r)
  PROVE  SInv'
<1>1. /\ UNCHANGED <<served, serverFilters, socket, outbox, filterVars>>
      /\ NoLongerAwaiting("flows") \/ UNCHANGED <<awaited, connection>>
  BY DEF OnFetched, serverVars
<1>2. /\ awaited' \subseteq {"flows", "others"}
      /\ connection' \in {"INIT", "FETCHING", "ESTABLISHED", "ERROR"}
  BY <1>1, AwaitsLess DEF SInv, ServerKept
<1>3. ServerKept' /\ FiltersSent'
  BY <1>1, <1>2, ClientKeeps
<1>4. QED
  BY <1>3, FetchCounts, FetchSuperseded DEF SInv

-----------------------------------------------------------------------------
(* The steps of the user.                                                  *)

\* The user sets a filter, before the socket is open, while it is, or after.
LEMMA SetFilterKeeps ==
  ASSUME SInv, NEW name \in FilterName, NEW expr \in Exprs \cup {NoFilter}, SetFilter(name, expr)
  PROVE  SInv'
<1>1. PICK wanted : wanted = [filter EXCEPT ![name] = expr]
  OBVIOUS
<1>2. PICK messages : messages = FilterMessages(filterState, wanted)
  OBVIOUS
<1>3. /\ filter' = wanted /\ filterState' = wanted
      /\ outbox' = (IF socket = "open" THEN outbox \o messages ELSE outbox)
      /\ messageQueue' = (IF socket = "connecting" THEN messageQueue \o messages ELSE messageQueue)
      /\ UNCHANGED <<served, serverFilters, socket, inbox, requests, activeFetch, awaited,
                     connection, flows>>
  BY <1>1, <1>2 DEF SetFilter, serverVars, fetchVars
<1>4. /\ filter \in Filters /\ filterState \in Filters /\ serverFilters \in Filters
      /\ outbox \in Seq(Wishes) /\ messageQueue \in Seq(Wishes)
      /\ socket = "open" => LastSent(outbox, serverFilters, filterState)
      /\ socket = "connecting" => LastSent(messageQueue, serverFilters, filterState)
  BY DEF SInv, FiltersSent
<1>5. wanted \in Filters
  BY <1>1, <1>4 DEF Filters
<1>6. Says(messages, filterState, wanted)
  BY <1>2, <1>4, <1>5, FilterMessagesSay
<1>7. FiltersSent'
  <2>1. socket = "open" =>
          outbox \o messages \in Seq(Wishes) /\ LastSent(outbox \o messages, serverFilters, wanted)
    BY <1>4, <1>6, LastSentMore
  <2>2. socket = "connecting" =>
          /\ messageQueue \o messages \in Seq(Wishes)
          /\ LastSent(messageQueue \o messages, serverFilters, wanted)
    BY <1>4, <1>6, LastSentMore
  <2>3. CASE socket = "open"
    BY <1>3, <1>4, <1>5, <2>1, <2>3 DEF FiltersSent
  <2>4. CASE socket = "connecting"
    BY <1>3, <1>4, <1>5, <2>2, <2>4 DEF FiltersSent
  <2>5. CASE socket \notin {"open", "connecting"}
    BY <1>3, <1>4, <1>5, <2>5 DEF FiltersSent
  <2>6. QED
    BY <2>3, <2>4, <2>5
<1>8. ServerKept'
  BY <1>3 DEF SInv, ServerKept
<1>9. FetchesKnown' /\ InTouch' /\ StoreKept(flows)'
  BY <1>3 DEF SInv, FetchesKnown, InTouch, Pending, NoFilters
<1>10. QED
  BY <1>7, <1>8, <1>9 DEF SInv

\* What the user selects or sorts leaves what the server told as it is.
LEMMA InStepAlike ==
  ASSUME NEW s, NEW t, Alike(s, t), NEW q, NEW had, NEW force, InStep(s, q, 0, had, force)
  PROVE  InStep(t, q, 0, had, force)
BY DEF InStep, Alike, ShownFrom

\* The user selects or sorts.
LEMMA BrowseKeeps ==
  ASSUME SInv, NEW t, StoreKept(t), Alike(flows, t), Browse(t)
  PROVE  SInv'
<1>1. /\ flows' = t
      /\ UNCHANGED <<served, serverFilters, socket, inbox, outbox, requests, activeFetch, awaited,
                     connection, filterVars>>
  BY DEF Browse, serverVars, fetchVars
<1>2. ServerKept' /\ FiltersSent'
  BY <1>1, ClientKeeps DEF SInv, ServerKept
<1>3. FetchesKnown'
  BY <1>1 DEF SInv, FetchesKnown, NoFilters
<1>4. InTouch'
  <2>1. Synced(Pending, served, serverFilters, flows, activeFetch, requests) =>
          Synced(Pending, served, serverFilters, t, activeFetch, requests)
    BY InStepAlike DEF Synced
  <2>2. QED
    BY <1>1, <2>1 DEF SInv, InTouch, Pending
<1>5. QED
  BY <1>1, <1>2, <1>3, <1>4 DEF SInv

LEMMA UserKeeps ==
  ASSUME SInv, SortBy \/ Click \/ ToggleClick \/ RangeClick \/ Arrow \/ Escape
  PROVE  SInv'
<1>1. StoreKept(flows)
  BY DEF SInv
<1>2. ASSUME SortBy PROVE SInv'
  <2>1. PICK sort : sort = [column |-> ~(flows.sort.column /\ flows.sort.desc),
                            desc |-> flows.sort.column /\ ~flows.sort.desc]
    OBVIOUS
  <2>2. sort \in Orders
    BY <2>1 DEF Orders
  <2>3. Browse(SetSort(flows, sort))
    BY <1>2, <2>1 DEF SortBy
  <2>4. QED
    BY <1>1, <2>2, <2>3, SortsAgain, BrowseKeeps
<1>3. ASSUME Click PROVE SInv'
  <2>1. PICK i \in DOMAIN flows.view : Browse(Select(flows, <<flows.view[i]>>))
    BY <1>3 DEF Click
  <2>2. Selectable(flows.list, <<flows.view[i]>>, flows.resurrected, flows.revived)
    BY <1>1, RowSelectable
  <2>3. QED
    BY <1>1, <2>1, <2>2, Selects, BrowseKeeps
<1>4. ASSUME ToggleClick PROVE SInv'
  <2>1. PICK i \in DOMAIN flows.view : Browse(SelectToggle(flows, flows.view[i]))
    BY <1>4 DEF ToggleClick
  <2>2. QED
    BY <1>1, <2>1, SelectsToggled, BrowseKeeps
<1>5. ASSUME RangeClick PROVE SInv'
  <2>1. PICK i \in DOMAIN flows.view : Browse(SelectRange(flows, flows.view[i]))
    BY <1>5 DEF RangeClick
  <2>2. QED
    BY <1>1, <2>1, SelectsRanged, BrowseKeeps
<1>6. ASSUME Arrow PROVE SInv'
  <2>1. PICK shift \in {-10, -1, 1, 10} : Browse(SelectRelative(flows, shift))
    BY <1>6 DEF Arrow
  <2>2. QED
    BY <1>1, <2>1, SelectsRelative, BrowseKeeps
<1>7. ASSUME Escape PROVE SInv'
  <2>1. Selectable(flows.list, << >>, flows.resurrected, flows.revived)
    BY DEF Selectable, Current, UniqueBut
  <2>2. QED
    BY <1>1, <1>7, <2>1, Selects, BrowseKeeps DEF Escape
<1>8. QED
  BY <1>2, <1>3, <1>4, <1>5, <1>6, <1>7

-----------------------------------------------------------------------------
(* The invariant.                                                          *)

\* The empty store is consistent.
LEMMA EmptyKept ==
  ASSUME NEW linked \in SUBSET Flows, NEW s, s = [EmptyStore EXCEPT !.linked = linked]
  PROVE  StoreKept(s)
<1> DEFINE none == BuildIndex(<< >>)
<1>1. << >> \in Seq(Item) /\ DOMAIN << >> = {} /\ Ids(<< >>) = {}
  BY DEF Ids
<1>2. DOMAIN none = {} /\ none = [k \in {} |-> none[k]]
  BY <1>1 DEF BuildIndex
<1> HIDE DEF none
<1>3. none \in Maps(Nat) /\ none \in Maps(Item)
  BY <1>2, MapsAre
<1>4. PICK sort : sort = [column |-> FALSE, desc |-> FALSE]
  OBVIOUS
<1>5. sort \in Orders
  BY <1>4 DEF Orders
<1>6. s = [list |-> << >>, listIndex |-> none, byId |-> none, view |-> << >>, viewIndex |-> none,
           sort |-> sort, selected |-> << >>, selectedIds |-> {}, highlightedIds |-> {},
           resurrected |-> {}, swallowed |-> {}, revived |-> {}, linked |-> linked]
  BY <1>4 DEF EmptyStore, none
<1>7. s \in Stores
  <2>1. {} \in SUBSET Flows
    OBVIOUS
  <2>2. \A data \in Seq(Item), index \in Maps(Nat), byId \in Maps(Item), order \in Orders,
           ids \in SUBSET Flows :
          [list |-> data, listIndex |-> index, byId |-> byId, view |-> data, viewIndex |-> index,
           sort |-> order, selected |-> data, selectedIds |-> ids, highlightedIds |-> ids,
           resurrected |-> ids, swallowed |-> ids, revived |-> ids, linked |-> linked] \in Stores
    BY DEF Stores
  <2>3. QED
    <3>1. << >> \in Seq(Item)
      BY <1>1
    <3>2. none \in Maps(Nat) /\ none \in Maps(Item) /\ sort \in Orders
      BY <1>3, <1>5
    <3>3. [list |-> << >>, listIndex |-> none, byId |-> none, view |-> << >>, viewIndex |-> none,
           sort |-> sort, selected |-> << >>, selectedIds |-> {}, highlightedIds |-> {},
           resurrected |-> {}, swallowed |-> {}, revived |-> {}, linked |-> linked] \in Stores
      BY <2>1, <2>2, <3>1, <3>2, Zenon
    <3>4. QED
      BY <1>6, <3>3, Zenon
<1>8. ListOk(<< >>, none, none, {})
  BY <1>1, <1>2, <1>3 DEF ListOk, Positioned, Placed
<1>9. ViewOk(<< >>, none, sort, {})
  BY <1>1, <1>2, <1>3 DEF ViewOk, Positioned, Placed, Sorted
<1>10. Current(<< >>, << >>, {}) /\ UniqueBut(<< >>, {})
  BY <1>1 DEF Current, UniqueBut
<1>11. /\ s.list = << >> /\ s.listIndex = none /\ s.byId = none /\ s.view = << >>
       /\ s.viewIndex = none /\ s.sort = sort /\ s.selected = << >> /\ s.selectedIds = {}
       /\ s.resurrected = {} /\ s.revived = {}
  BY <1>6
<1>12. QED
  BY <1>1, <1>7, <1>8, <1>9, <1>10, <1>11 DEF StoreKept

LEMMA NoFiltersAre == NoFilters \in Filters
BY DEF NoFilters, Filters

LEMMA InitKeeps ==
  ASSUME Init
  PROVE  SInv
<1>1. PICK scenario \in Scenarios : served = scenario.served /\ flows = [EmptyStore EXCEPT !.linked = scenario.linked]
  BY DEF Init
<1>2. /\ serverFilters = NoFilters /\ socket = "connecting" /\ inbox = << >> /\ outbox = << >>
      /\ requests = {} /\ activeFetch = [id |-> 0, active |-> FALSE, queue |-> << >>]
      /\ awaited = {} /\ connection = "INIT" /\ filterState = NoFilters /\ messageQueue = << >>
  BY DEF Init
<1>3. ServerKept
  <2>1. served \in Lists
    BY <1>1, FlowSyncAssumption DEF Lists, Unique
  <2>2. QED
    BY <1>2, <2>1 DEF ServerKept
<1>4. StoreKept(flows)
  BY <1>1, EmptyKept, FlowSyncAssumption
<1>5. FetchesKnown
  <2>1. << >> \in Seq(Messages) /\ DOMAIN << >> = {} /\ 0 \in Nat
    BY EmptySeq
  <2>2. activeFetch \in [id : Nat, active : BOOLEAN, queue : Seq(Messages)]
    BY <1>2, <2>1
  <2>3. activeFetch.queue = << >> /\ ~activeFetch.active
    BY <1>2
  <2>4. QED
    BY <1>2, <2>1, <2>2, <2>3 DEF FetchesKnown
<1>6. InTouch
  BY <1>2 DEF InTouch
<1>7. FiltersSent
  <2>1. filter \in Filters
    <3>1. filter = NoFilters \/ \E e \in Exprs : filter = [NoFilters EXCEPT !.search = e]
      BY DEF Init
    <3>2. "search" \in FilterName
      BY DEF FilterName
    <3>3. QED
      BY <3>1, <3>2, NoFiltersAre DEF Filters
  <2>2. << >> \in Seq(Wishes) /\ DOMAIN << >> = {}
    BY EmptySeq
  <2>3. LastSent(messageQueue, serverFilters, filterState)
    BY <1>2, <2>2 DEF LastSent
  <2>4. QED
    BY <1>2, <2>1, <2>2, <2>3, NoFiltersAre DEF FiltersSent
<1>8. QED
  BY <1>3, <1>4, <1>5, <1>6, <1>7 DEF SInv

LEMMA NextKeeps ==
  ASSUME SInv, [Next]_vars
  PROVE  SInv'
<1>1. CASE Server
  BY <1>1, ServerAddKeeps, ServerUpdateKeeps, ServerRemoveKeeps, ServerRefreshKeeps DEF Server
<1>2. CASE User
  BY <1>2, SetFilterKeeps, UserKeeps DEF User
<1>3. CASE Transport
  BY <1>3, OnOpenKeeps, OthersReceivedKeeps, OnMessageKeeps, ServerUpdateFilterKeeps,
     ServerAnswerKeeps, OnFetchedKeeps DEF Transport
<1>4. CASE Fault
  BY <1>4, OnCloseKeeps, FetchFailsKeeps DEF Fault
<1>5. CASE UNCHANGED vars
  BY <1>5 DEF vars, serverVars, fetchVars, filterVars, SInv, ServerKept, FetchesKnown, InTouch,
     Pending, FiltersSent, NoFilters
<1>6. QED
  BY <1>1, <1>2, <1>3, <1>4, <1>5 DEF Next

\* The store stays consistent and in step with the server: whatever is pushed, answered,
\* superseded or lost on the way, and whatever the user does meanwhile (backends/websocket.tsx,
\* ducks/flows/index.ts).
THEOREM StaysInStep == Spec => []SInv
<1>1. Init => SInv
  BY InitKeeps
<1>2. SInv /\ [Next]_vars => SInv'
  BY NextKeeps
<1>3. QED
  BY <1>1, <1>2, PTL DEF Spec

-----------------------------------------------------------------------------
(* What follows from it.                                                   *)

\* A list that names no flow twice has as many ids as entries.
LEMMA CountsOnce ==
  ASSUME NEW data \in Seq(Item), UniqueBut(data, {})
  PROVE  NoRepeats(data)
<1>1. Len(data) \in Nat /\ DOMAIN data = 1..Len(data)
  BY Data
<1>2. PICK f : f = [i \in 1..Len(data) |-> data[i].id]
  OBVIOUS
<1>3. f \in [1..Len(data) -> Ids(data)]
  BY <1>1, <1>2 DEF Ids
<1>4. f \in Injection(1..Len(data), Ids(data))
  <2>1. \A i, j \in 1..Len(data) : f[i] = f[j] => i = j
    BY <1>1, <1>2 DEF UniqueBut
  <2>2. QED
    BY <1>3, <2>1 DEF Injection, IsInjective
<1>5. f \in Surjection(1..Len(data), Ids(data))
  <2>1. \A k \in Ids(data) : \E i \in 1..Len(data) : f[i] = k
    BY <1>1, <1>2 DEF Ids
  <2>2. QED
    BY <1>3, <2>1 DEF Surjection
<1>6. ExistsBijection(1..Len(data), Ids(data))
  BY <1>4, <1>5 DEF ExistsBijection, Bijection
<1>7. QED
  BY <1>1, <1>6, FS_CountingElements DEF NoRepeats

\* There is one map of positions that is right for a list ...
LEMMA SameIndex ==
  ASSUME NEW data \in Seq(Item), NEW index \in Maps(Nat), Positioned(index, data),
         Placed(index, data, {})
  PROVE  index = BuildIndex(data)
<1>1. PICK b : b = BuildIndex(data)
  OBVIOUS
<1>2. /\ b \in Maps(Nat) /\ DOMAIN b = Ids(data)
      /\ Positioned(b, data) /\ Placed(b, data, {})
  BY <1>1, PlacedIsUnique, Built
<1>3. DOMAIN index = Ids(data)
  <2>1. \A k \in DOMAIN index : k \in Ids(data)
    BY DEF Positioned, Ids
  <2>2. \A k \in Ids(data) : k \in DOMAIN index
    BY DEF Placed, Ids
  <2>3. QED
    BY <2>1, <2>2
<1>4. \A k \in Ids(data) : index[k] = b[k]
  <2> SUFFICES ASSUME NEW i \in DOMAIN data PROVE index[data[i].id] = b[data[i].id]
    BY DEF Ids
  <2>1. index[data[i].id] = i /\ b[data[i].id] = i
    BY <1>2 DEF Placed
  <2>2. QED
    BY <2>1
<1>5. index = [k \in DOMAIN index |-> index[k]] /\ b = [k \in DOMAIN b |-> b[k]]
  BY <1>2, MapsAre
<1>6. QED
  BY <1>1, <1>2, <1>3, <1>4, <1>5

\* ... and one of its flows by id.
LEMMA SameById ==
  ASSUME NEW list, NEW index, NEW byId, ListOk(list, index, byId, {})
  PROVE  byId = ById(list)
<1>1. /\ list \in Seq(Item) /\ index \in Maps(Nat) /\ byId \in Maps(Item)
      /\ Positioned(index, list) /\ Placed(index, list, {})
      /\ \A i \in DOMAIN list : list[i].id \in DOMAIN byId /\ byId[list[i].id] = list[i]
      /\ \A id \in DOMAIN byId : id \in Ids(list)
  BY DEF ListOk
<1>2. index = BuildIndex(list) /\ UniqueBut(list, {})
  BY <1>1, SameIndex, PlacedIsUnique
<1>3. DOMAIN index = Ids(list) /\ \A k \in DOMAIN index : index[k] \in DOMAIN list /\ list[index[k]].id = k
  BY <1>1, <1>2, Built DEF Positioned
<1>4. PICK b : b = [k \in DOMAIN index |-> list[index[k]]]
  OBVIOUS
<1>5. DOMAIN b = Ids(list) /\ \A k \in DOMAIN b : b[k] = list[index[k]]
  BY <1>3, <1>4
<1>6. DOMAIN byId = Ids(list)
  <2>1. \A k \in Ids(list) : k \in DOMAIN byId
    BY <1>1 DEF Ids
  <2>2. QED
    BY <1>1, <2>1
<1>7. \A k \in Ids(list) : byId[k] = b[k]
  BY <1>1, <1>3, <1>5
<1>8. byId = [k \in DOMAIN byId |-> byId[k]] /\ b = [k \in DOMAIN b |-> b[k]]
  BY <1>1, <1>4, <1>5, MapsAre
<1>9. byId = b
  BY <1>5, <1>6, <1>7, <1>8
<1>10. QED
  BY <1>2, <1>4, <1>9 DEF ById

LEMMA ConsistentStore ==
  ASSUME SInv
  PROVE  Indexed /\ ViewSorted /\ SelectionCurrent
<1>1. PICK s : s = flows
  OBVIOUS
<1>2. StoreKept(s)
  BY <1>1 DEF SInv
<1>3. /\ s.list \in Seq(Item) /\ s.view \in Seq(Item) /\ s.selected \in Seq(Item)
      /\ ListOk(s.list, s.listIndex, s.byId, s.resurrected)
      /\ ViewOk(s.view, s.viewIndex, s.sort, s.resurrected)
      /\ Current(s.list, s.view, s.resurrected) /\ Current(s.list, s.selected, s.resurrected)
      /\ s.selectedIds = Ids(s.selected) /\ UniqueBut(s.selected, s.revived)
  BY <1>2, StoreIs
<1>4. /\ Positioned(s.listIndex, s.list) /\ Placed(s.listIndex, s.list, s.resurrected)
      /\ s.listIndex \in Maps(Nat)
  BY <1>3 DEF ListOk
<1>5. /\ Positioned(s.viewIndex, s.view) /\ Placed(s.viewIndex, s.view, s.resurrected)
      /\ s.viewIndex \in Maps(Nat) /\ Sorted(s.view, s.sort)
  BY <1>3 DEF ViewOk
<1>6. ASSUME s.resurrected = {}
      PROVE  /\ NoRepeats(s.list) /\ NoRepeats(s.view)
             /\ s.listIndex = BuildIndex(s.list) /\ s.byId = ById(s.list)
             /\ s.viewIndex = BuildIndex(s.view)
             /\ \A i \in DOMAIN s.view : s.view[i] \in ToSet(s.list)
             /\ ToSet(s.selected) \subseteq ToSet(s.list)
  <2>1. UniqueBut(s.list, {}) /\ UniqueBut(s.view, {})
    BY <1>4, <1>5, <1>6, PlacedIsUnique
  <2>2. NoRepeats(s.list) /\ NoRepeats(s.view)
    BY <1>3, <2>1, CountsOnce
  <2>3. s.listIndex = BuildIndex(s.list) /\ s.viewIndex = BuildIndex(s.view)
    BY <1>3, <1>4, <1>5, <1>6, SameIndex
  <2>4. s.byId = ById(s.list)
    BY <1>3, <1>6, SameById
  <2>5. \A i \in DOMAIN s.view : s.view[i] \in ToSet(s.list)
    BY <1>3, <1>6 DEF Current
  <2>6. ToSet(s.selected) \subseteq ToSet(s.list)
    BY <1>3, <1>6, CurrentIs
  <2>7. QED
    BY <2>2, <2>3, <2>4, <2>5, <2>6
<1>7. Indexed
  BY <1>1, <1>4, <1>5, <1>6 DEF Indexed
<1>8. ViewSorted
  BY <1>1, <1>5 DEF ViewSorted, Sorted
<1>9. SelectionCurrent
  <2>1. s.revived = {} => NoRepeats(s.selected)
    BY <1>3, CountsOnce
  <2>2. QED
    BY <1>1, <1>3, <1>6, <2>1 DEF SelectionCurrent
<1>10. QED
  BY <1>7, <1>8, <1>9

LEMMA Typed ==
  ASSUME SInv
  PROVE  TypeOK
<1>1. served \in Seq(Item)
  BY DEF SInv, ServerKept, Lists
<1>2. socket \in {"connecting", "open", "closed"} /\ awaited \subseteq {"flows", "others"}
      /\ connection \in {"INIT", "FETCHING", "ESTABLISHED", "ERROR"}
  BY DEF SInv, ServerKept
<1>3. activeFetch.id \in Nat /\ activeFetch.active \in BOOLEAN
  BY PendingIs DEF SInv
<1>4. /\ flows.list \in Seq(Item) /\ flows.view \in Seq(Item) /\ flows.selected \in Seq(Item)
      /\ flows.selectedIds \subseteq Flows /\ flows.highlightedIds \subseteq Flows
  BY StoreIs DEF SInv
<1>5. filter \in Filters /\ filterState \in Filters /\ serverFilters \in Filters
  BY DEF SInv, FiltersSent
<1>6. DOMAIN filter = FilterName
  BY <1>5 DEF Filters
<1>7. QED
  BY <1>1, <1>2, <1>3, <1>4, <1>5, <1>6 DEF TypeOK, Filters

\* When nothing is on its way, the store is in step with an empty queue.
LEMMA QuietInSync ==
  ASSUME SInv, Quiet
  PROVE  /\ InStep(flows, << >>, 0, served, serverFilters) /\ serverFilters = filter
         /\ filter \in Filters
<1>1. socket = "open" /\ inbox = << >> /\ outbox = << >> /\ ~activeFetch.active
  BY DEF Quiet
<1>2. Pending = << >>
  <2>1. activeFetch.queue = << >>
    BY <1>1, PendingIs DEF SInv
  <2>2. QED
    BY <1>1, <2>1, PendingIs, ConcatEmptySeq DEF SInv
<1>3. InStep(flows, << >>, 0, served, serverFilters)
  BY <1>1, <1>2 DEF SInv, InTouch, Synced
<1>4. /\ LastSent(outbox, serverFilters, filter)
      /\ filter \in Filters /\ serverFilters \in Filters
  BY <1>1 DEF SInv, FiltersSent
<1>5. \A name \in FilterName : serverFilters[name] = filter[name]
  BY <1>1, <1>4 DEF LastSent
<1>6. QED
  BY <1>3, <1>4, <1>5 DEF Filters

LEMMA SyncedClient ==
  ASSUME SInv
  PROVE  ClientInSync
<1> SUFFICES ASSUME Quiet
             PROVE  /\ \A f \in Flows \ flows.resurrected : Entry(flows.list, f) = Entry(served, f)
                    /\ serverFilters = filter
                    /\ \A f \in Flows \ (flows.resurrected \cup flows.swallowed) :
                         LET Shown(name) == {g.id : g \in {h \in ToSet(served) :
                               h.id = f /\ (filter[name] = NoFilter \/ h.v \in Accepts[filter[name]])}}
                         IN  /\ f \in Ids(flows.view) <=> f \in Shown("search")
                             /\ filter.highlight # NoFilter /\ f \in Shown("highlight")
                                  => f \in flows.highlightedIds
  BY DEF ClientInSync, InSync, ViewInSync, Entry
<1>1. /\ InStep(flows, << >>, 0, served, serverFilters) /\ serverFilters = filter
      /\ filter \in Filters
  BY QuietInSync
<1>2. \A f, name : /\ Silent(<< >>, 0, f) /\ Untouched(<< >>, 0, f, name)
  BY DEF Silent, Untouched, Settled
<1>3. \A f \in Flows \ flows.resurrected : Entry(flows.list, f) = Entry(served, f)
  BY <1>1, <1>2 DEF InStep, StartsFrom
<1>4. ASSUME NEW f \in Flows \ (flows.resurrected \cup flows.swallowed)
      PROVE  LET Shown(name) == {g.id : g \in {h \in ToSet(served) :
                   h.id = f /\ (filter[name] = NoFilter \/ h.v \in Accepts[filter[name]])}}
             IN  /\ f \in Ids(flows.view) <=> f \in Shown("search")
                 /\ filter.highlight # NoFilter /\ f \in Shown("highlight")
                      => f \in flows.highlightedIds
  <2> DEFINE Shown(name) == {g.id : g \in {h \in ToSet(served) :
                   h.id = f /\ (filter[name] = NoFilter \/ h.v \in Accepts[filter[name]])}}
  <2>1. ShownFrom(flows, << >>, 0, f, served, filter)
    BY <1>1, <1>4 DEF InStep
  <2>2. \A name : f \in Shown(name) <=>
          \E h \in ToSet(served) : h.id = f /\ (filter[name] = NoFilter \/ h.v \in Accepts[filter[name]])
    OBVIOUS
  <2>3. \A name : f \in Shown(name) <=>
          f \in Ids(served) /\ (filter[name] = NoFilter \/ Matches(served, f, filter[name]))
    BY <2>2, IdsAre DEF Matches, Entry
  <2> HIDE DEF Shown
  <2>4. f \in Ids(flows.view) <=> f \in Shown("search")
    BY <1>2, <2>1, <2>3 DEF ShownFrom
  <2>5. filter.highlight # NoFilter /\ f \in Shown("highlight") => f \in flows.highlightedIds
    BY <1>2, <2>1, <2>3 DEF ShownFrom
  <2>6. QED
    BY <2>4, <2>5 DEF Shown
<1>5. QED
  BY <1>1, <1>3, <1>4

\* After every dispatch the structures of the store agree with each other: the positions,
\* the view and its order, and the selection (ducks/flows/index.ts, ducks/flows/_utils.ts).
THEOREM AlwaysConsistent == Spec => []StoreConsistent
<1>1. SInv => StoreConsistent
  BY Typed, ConsistentStore DEF StoreConsistent
<1>2. QED
  BY <1>1, StaysInStep, PTL

\* Once nothing is on its way, the client holds the flows of the server and shows those its
\* filters match, whatever raced with the fetches (backends/websocket.tsx).
THEOREM QuietMeansInSync == Spec => []ClientInSync
<1>1. SInv => ClientInSync
  BY SyncedClient
<1>2. QED
  BY <1>1, StaysInStep, PTL
=============================================================================
