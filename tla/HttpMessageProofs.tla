-------------------------- MODULE HttpMessageProofs --------------------------
(***************************************************************************)
(* Proofs about HttpStream, on top of those of HttpStreamProofs: the hooks *)
(* run in order, no state is met by an event it does not expect, and both  *)
(* sides are told whole messages, in order.                                *)
(***************************************************************************)
EXTENDS HttpStreamProofs

-----------------------------------------------------------------------------
(* The inductive invariant, beyond the one of HttpStreamProofs.            *)

\* After the headers of a response, and before anything is done with them.
Headed == {<<"begin_response">>, <<"response_too_large">>, <<"inline_response">>}
\* The response is refused as too large.
Oversized == {<<"error", "refuse_response">>, <<"refuse_response">>}
\* A request is being opened, or could not be.
Opens == Opened \cup Reopened \cup Abandoning
\* The hooks of a CONNECT that is answered have yet to run.
Unanswering == Connecting \ {<<"tunnel">>, <<"refuse_connect">>}

Early(state) == state \in {"uninitialized", "wait"}
ClientOver == client \in {"ended", "gone"}
ServerOver == server \in {"early", "ended", "gone"}

\* The hooks that have run, by how far the generator is.
HooksRun ==
  /\ Has(hooks, "request") =>
       \/ cstate \in {"done", "errored"} /\ todo # <<"request", "route_request">>
       \/ todo = <<"end_request">>
  /\ (Has(hooks, "responseheaders") /\ Early(sstate)) =>
       todo \in Headed \cup KillError \cup Killing \cup ResponseHook \cup Finishing
  /\ todo \in Opens => ~Has(hooks, "responseheaders")
  /\ (sstate \in {"consume", "stream"} \/ todo \in Headed \cup ResponseHook \cup Finishing) =>
       Has(hooks, "responseheaders")
  /\ Has(hooks, "response") => Over(sstate) \/ todo \in Finishing
  /\ todo \in Unanswering => Range(hooks) \subseteq {"http_connect"}

-----------------------------------------------------------------------------
\* In a queue, the headers of a response are its first event, and an end is the last.
QueueOrdered(q) ==
  \A i, j \in DOMAIN q : i < j =>
    /\ q[i] = "RequestEnd" => q[j] \notin RequestEvents
    /\ q[i] = "ResponseEnd" => q[j] \notin ResponseEvents
    /\ q[j] = "ResponseHeaders" => q[i] \notin ResponseEvents

Requested(q) == \E e \in Range(q) : e \in RequestEvents

\* The peers have got at least as far as what waits in the queue.
PeersAhead ==
  /\ QueueOrdered(queue)
  /\ Has(queue, "RequestHeaders") => cstate = "wait" /\ todo = << >>
  /\ Has(queue, "RequestEnd") => ClientOver
  /\ Has(queue, "ResponseEnd") => ServerOver
  /\ Has(queue, "ResponseError") => server = "gone"
  /\ server = "idle" => ~Responded(queue)
  /\ ~Sent => server = "idle"

\* The request has been taken from the queue to its end.
RequestDrained ==
  ((cstate = "done" /\ sstate # "uninitialized") \/ todo \in Ending) =>
    ClientOver /\ ~Requested(queue)

\* The headers of a response that has begun have yet to be taken.
Awaited ==
  (Responded(queue) \/ server \in {"open", "trailers", "early", "ended"}) =>
    Has(queue, "ResponseHeaders")

\* The response is still to come, has begun, or has been taken to its end.
ResponseTakenTo ==
  /\ (Early(sstate) /\ todo \notin Responding \cup ResponseHook \cup Finishing
                                     \cup KillError \cup Killing) => Awaited
  /\ (sstate \in {"consume", "stream", "done"}
        \/ todo \in Responding \cup ResponseHook \cup Finishing) =>
       ~Has(queue, "ResponseHeaders") /\ (Sent => server # "idle")
  /\ (sstate = "done" \/ todo \in ResponseHook \cup Finishing) =>
       ~Responded(queue) /\ (Sent => ServerOver)
  /\ (Has(hooks, "response") /\ Sent) => ServerOver

\* Where the request must have been sent, or its beginning.
SentKnown ==
  /\ (cstate = "done" /\ sstate = "uninitialized") =>
       passthrough \/ todo \in Asked \cup Connecting \cup Killing
  /\ (Sent /\ sstate = "uninitialized") => todo \in Opened
  /\ (cstate = "stream" \/ sstate \in {"consume", "stream"} \/ todo \in Responding) => Sent
  /\ todo \in Oversized => Sent
  /\ todo \in ResponseHook \cup Finishing => Sent \/ cstate = "done"
  /\ (todo \in {<< >>} \cup RequestErrorHook \cup AfterRequestError
        /\ cstate = "done" /\ ~Over(sstate)) => Sent \/ passthrough
  /\ passthrough => sstate \in {"uninitialized", "done"}

-----------------------------------------------------------------------------
\* When the client has been told the end, nobody is about to tell it more.
ToldWhen ==
  /\ Told => \/ sstate = "errored"
             \/ cstate = "done" /\ (sstate = "done" \/ passthrough)
             \/ cstate = "errored" /\ Early(sstate) /\ ~Sent
  /\ todo \in KillError \cup Killing => ~Told
  /\ todo \in ResponseErrorHook \cup AfterResponseError => ~Told \/ server = "gone"

\* What the client has been told of a response, by how far the stream is.
ToldSoFar ==
  /\ Has(toClient, "ResponseHeaders") =>
       (sstate \in {"stream", "done", "errored"} /\ todo \notin Opens) \/ Told
  /\ todo \in Opens => ~Has(toClient, "ResponseHeaders")
  /\ (sstate = "stream" \/ (sstate = "done" /\ todo \notin Killing)) =>
       Has(toClient, "ResponseHeaders")
  /\ Has(toClient, "ResponseTrailers") => sstate \in {"done", "errored"}

\* What the server has been told of a request.
SentSoFar ==
  /\ ~Sent => toServer = << >>
  /\ cstate \in {"wait", "consume", "stream"} =>
       Range(toServer) \subseteq {"RequestHeaders", "RequestData"}
  /\ Has(toServer, "RequestEnd") => ClientOver

-----------------------------------------------------------------------------
\* Where the chunks of the request are.
RequestChunks ==
  /\ (cstate \in {"wait", "consume", "stream"} \/ todo \in Routing) =>
       body["request"] + Count(queue, "RequestData") + Count(toServer, "RequestData")
         = chunks["request"]
  /\ (cstate = "wait" \/ (cstate = "stream" /\ todo \notin Reopened)) => body["request"] = 0

\* Where the chunks of the response are.
ResponseChunks ==
  /\ (~Sent \/ sstate = "uninitialized") =>
       chunks["response"] = 0 /\ body["response"] = 0 /\ ~Responded(queue)
  /\ (Sent /\ sstate \in {"wait", "consume", "stream"}) =>
       body["response"] + Count(queue, "ResponseData") + Count(toClient, "ResponseData")
         = chunks["response"]
  /\ sstate \in {"wait", "stream"} => body["response"] = 0
  /\ (Sent /\ sstate = "done" /\ todo \notin Killing) =>
       Count(toClient, "ResponseData") = chunks["response"]

MInv ==
  /\ HooksInOrder /\ HooksRun
  /\ PeersAhead /\ RequestDrained /\ ResponseTakenTo /\ SentKnown
  /\ MessagesInOrder /\ ToldWhen /\ ToldSoFar /\ SentSoFar
  /\ BodiesWhole /\ RequestChunks /\ ResponseChunks

-----------------------------------------------------------------------------
(* What was sent before and what is sent next, together. *)

LEMMA Parts ==
  ASSUME NEW S, NEW s \in Seq(S), NEW t \in Seq(S)
  PROVE  /\ Len(s) \in Nat /\ Len(t) \in Nat
         /\ DOMAIN s = 1..Len(s) /\ DOMAIN t = 1..Len(t)
         /\ DOMAIN (s \o t) = 1..Len(s) + Len(t)
         /\ \A i \in 1..Len(s) : (s \o t)[i] = s[i]
         /\ \A i \in 1..Len(t) : (s \o t)[Len(s) + i] = t[i]
<1> DEFINE u == s \o t
<1>1. u \in Seq(S) /\ Len(u) = Len(s) + Len(t)
  BY ConcatProperties
<1>2. /\ Len(s) \in Nat /\ Len(t) \in Nat
      /\ DOMAIN s = 1..Len(s) /\ DOMAIN t = 1..Len(t)
      /\ DOMAIN u = 1..Len(s) + Len(t)
  BY <1>1, LenProperties
<1>3. \A i \in 1..Len(s) + Len(t) : u[i] = IF i <= Len(s) THEN s[i] ELSE t[i - Len(s)]
  BY ConcatProperties
<1> HIDE DEF u
<1>4. ASSUME NEW i \in 1..Len(s) PROVE u[i] = s[i]
  <2>1. i \in 1..Len(s) + Len(t) /\ i <= Len(s)
    BY <1>2
  <2>2. QED
    BY <1>3, <2>1
<1>5. ASSUME NEW i \in 1..Len(t) PROVE u[Len(s) + i] = t[i]
  <2> DEFINE j == Len(s) + i
  <2>1. j \in 1..Len(s) + Len(t) /\ ~(j <= Len(s)) /\ j - Len(s) = i
    BY <1>2
  <2> HIDE DEF j
  <2>2. u[j] = t[i]
    BY <1>3, <2>1
  <2>3. QED
    BY <2>2 DEF j
<1>6. QED
  BY <1>2, <1>4, <1>5 DEF u

LEMMA CountConcat ==
  ASSUME NEW S, NEW s \in Seq(S), NEW t \in Seq(S), NEW f
  PROVE  Count(s \o t, f) = Count(s, f) + Count(t, f)
<1> DEFINE u == s \o t
           A == {i \in DOMAIN s : s[i] = f}
           B == {i \in DOMAIN t : t[i] = f}
           C == {i \in Len(s) + 1..Len(s) + Len(t) : u[i] = f}
           shift == [i \in B |-> Len(s) + i]
<1>1. /\ Len(s) \in Nat /\ Len(t) \in Nat
      /\ DOMAIN s = 1..Len(s) /\ DOMAIN t = 1..Len(t)
      /\ DOMAIN u = 1..Len(s) + Len(t)
      /\ \A i \in 1..Len(s) : u[i] = s[i]
      /\ \A i \in 1..Len(t) : u[Len(s) + i] = t[i]
  BY Parts
<1>2. IsFiniteSet(A) /\ IsFiniteSet(B) /\ Cardinality(A) \in Nat /\ Cardinality(B) \in Nat
  BY CountIsNat DEF Count
<1> HIDE DEF u
<1>3. shift \in Bijection(B, C)
  <2>1. shift \in [B -> C]
    BY <1>1
  <2>2. \A i, j \in B : shift[i] = shift[j] => i = j
    BY <1>1
  <2>3. ASSUME NEW j \in C PROVE \E i \in B : shift[i] = j
    <3>1. j - Len(s) \in 1..Len(t) /\ Len(s) + (j - Len(s)) = j
      BY <1>1, <2>3
    <3>2. j - Len(s) \in B /\ shift[j - Len(s)] = j
      BY <1>1, <2>3, <3>1
    <3>3. QED
      BY <3>2
  <2>4. QED
    BY <2>1, <2>2, <2>3 DEF Bijection, Injection, Surjection, IsInjective
<1>4. IsFiniteSet(C) /\ Cardinality(C) = Cardinality(B)
  BY <1>2, <1>3, FS_Bijection DEF ExistsBijection
<1>5. A \cap C = {}
  BY <1>1
<1>6. {i \in DOMAIN u : u[i] = f} = A \cup C
  BY <1>1
<1>7. Cardinality(A \cup C) = Cardinality(A) + Cardinality(C)
  <2>1. Cardinality(A \cap C) = 0
    BY <1>5, FS_EmptySet
  <2>2. Cardinality(A \cup C) = Cardinality(A) + Cardinality(C) - Cardinality(A \cap C)
    BY <1>2, <1>4, FS_Union
  <2>3. QED
    BY <1>2, <1>4, <2>1, <2>2
<1>8. QED
  BY <1>4, <1>6, <1>7 DEF Count, u

LEMMA CountNone ==
  ASSUME NEW s, NEW f, ~Has(s, f)
  PROVE  Count(s, f) = 0
<1>1. {i \in DOMAIN s : s[i] = f} = {}
  BY DEF Has, Range
<1>2. QED
  BY <1>1, FS_EmptySet DEF Count

LEMMA CountSome ==
  ASSUME NEW S, NEW s \in Seq(S), NEW f, Has(s, f)
  PROVE  Count(s, f) \in Nat /\ Count(s, f) >= 1
<1>1. PICK i \in DOMAIN s : s[i] = f
  BY DEF Has, Range
<1>2. IsFiniteSet({j \in DOMAIN s : s[j] = f}) /\ Count(s, f) \in Nat
  BY CountIsNat
<1>3. Count(s, f) # 0
  BY <1>1, <1>2, FS_EmptySet DEF Count
<1>4. QED
  BY <1>2, <1>3

LEMMA FollowsConcat ==
  ASSUME NEW S, NEW s \in Seq(S), NEW t \in Seq(S), NEW e, NEW f
  PROVE  Follows(s \o t, e, f) <=>
           Follows(s, e, f) \/ (Has(s, e) /\ Has(t, f)) \/ Follows(t, e, f)
<1> DEFINE u == s \o t
<1>1. /\ Len(s) \in Nat /\ Len(t) \in Nat
      /\ DOMAIN s = 1..Len(s) /\ DOMAIN t = 1..Len(t)
      /\ DOMAIN u = 1..Len(s) + Len(t)
      /\ \A i \in 1..Len(s) : u[i] = s[i]
      /\ \A i \in 1..Len(t) : u[Len(s) + i] = t[i]
  BY Parts
<1> HIDE DEF u
<1>2. ASSUME Follows(u, e, f)
      PROVE  Follows(s, e, f) \/ (Has(s, e) /\ Has(t, f)) \/ Follows(t, e, f)
  <2>1. PICK i, j \in 1..Len(s) + Len(t) : i < j /\ u[i] = e /\ u[j] = f
    BY <1>1, <1>2 DEF Follows
  <2>2. CASE j <= Len(s)
    <3>1. i \in 1..Len(s) /\ j \in 1..Len(s) /\ s[i] = e /\ s[j] = f
      BY <1>1, <2>1, <2>2
    <3>2. QED
      BY <1>1, <2>1, <3>1 DEF Follows
  <2>3. CASE i <= Len(s) /\ ~(j <= Len(s))
    <3>1. i \in 1..Len(s) /\ s[i] = e
      BY <1>1, <2>1, <2>3
    <3>2. j - Len(s) \in 1..Len(t) /\ Len(s) + (j - Len(s)) = j
      BY <1>1, <2>1, <2>3
    <3>3. t[j - Len(s)] = f
      BY <1>1, <2>1, <3>2
    <3>4. QED
      BY <3>1, <3>2, <3>3 DEF Has, Range
  <2>4. CASE ~(i <= Len(s))
    <3>1. /\ i - Len(s) \in 1..Len(t) /\ Len(s) + (i - Len(s)) = i
          /\ j - Len(s) \in 1..Len(t) /\ Len(s) + (j - Len(s)) = j
          /\ i - Len(s) < j - Len(s)
      BY <1>1, <2>1, <2>4
    <3>2. t[i - Len(s)] = e /\ t[j - Len(s)] = f
      BY <1>1, <2>1, <3>1
    <3>3. QED
      BY <1>1, <3>1, <3>2 DEF Follows
  <2>5. QED
    BY <2>2, <2>3, <2>4
<1>3. ASSUME Follows(s, e, f) PROVE Follows(u, e, f)
  <2>1. PICK i, j \in 1..Len(s) : i < j /\ s[i] = e /\ s[j] = f
    BY <1>1, <1>3 DEF Follows
  <2>2. i \in 1..Len(s) + Len(t) /\ j \in 1..Len(s) + Len(t) /\ u[i] = e /\ u[j] = f
    BY <1>1, <2>1
  <2>3. QED
    BY <1>1, <2>1, <2>2 DEF Follows
<1>4. ASSUME Has(s, e), Has(t, f) PROVE Follows(u, e, f)
  <2>1. PICK i \in 1..Len(s) : s[i] = e
    BY <1>1, <1>4 DEF Has, Range
  <2>2. PICK j \in 1..Len(t) : t[j] = f
    BY <1>1, <1>4 DEF Has, Range
  <2>3. /\ i \in 1..Len(s) + Len(t) /\ Len(s) + j \in 1..Len(s) + Len(t)
        /\ i < Len(s) + j /\ u[i] = e /\ u[Len(s) + j] = f
    BY <1>1, <2>1, <2>2
  <2>4. QED
    BY <1>1, <2>3 DEF Follows
<1>5. ASSUME Follows(t, e, f) PROVE Follows(u, e, f)
  <2>1. PICK i, j \in 1..Len(t) : i < j /\ t[i] = e /\ t[j] = f
    BY <1>1, <1>5 DEF Follows
  <2>2. /\ Len(s) + i \in 1..Len(s) + Len(t) /\ Len(s) + j \in 1..Len(s) + Len(t)
        /\ Len(s) + i < Len(s) + j /\ u[Len(s) + i] = e /\ u[Len(s) + j] = f
    BY <1>1, <2>1
  <2>3. QED
    BY <1>1, <2>2 DEF Follows
<1>6. QED
  BY <1>2, <1>3, <1>4, <1>5 DEF u

LEMMA FollowsHas ==
  ASSUME NEW s, NEW e, NEW f, Follows(s, e, f)
  PROVE  Has(s, e) /\ Has(s, f)
BY DEF Follows, Has, Range

-----------------------------------------------------------------------------
(* What is sent at a time: one event, or copies of one. *)

LEMMA One ==
  ASSUME NEW e
  PROVE  /\ <<e>> \in Seq({e}) /\ <<e>> # << >> /\ Range(<<e>>) = {e}
         /\ \A f : Count(<<e>>, f) = IF f = e THEN 1 ELSE 0
         /\ \A f, g : ~Follows(<<e>>, f, g)
<1>1. <<e>> \in Seq({e}) /\ Len(<<e>>) = 1 /\ <<e>>[1] = e /\ DOMAIN <<e>> = 1..1
  OBVIOUS
<1>2. Range(<<e>>) = {e}
  BY RangeOne
<1>3. ASSUME NEW f PROVE Count(<<e>>, f) = IF f = e THEN 1 ELSE 0
  <2>1. CASE f = e
    <3>1. {i \in DOMAIN <<e>> : <<e>>[i] = f} = {1}
      BY <1>1, <2>1
    <3>2. QED
      BY <2>1, <3>1, FS_Singleton DEF Count
  <2>2. CASE f # e
    <3>1. ~Has(<<e>>, f)
      BY <1>2, <2>2 DEF Has
    <3>2. QED
      BY <2>2, <3>1, CountNone
  <2>3. QED
    BY <2>1, <2>2
<1>4. ASSUME NEW f, NEW g PROVE ~Follows(<<e>>, f, g)
  BY <1>1 DEF Follows
<1>5. QED
  BY <1>2, <1>3, <1>4

LEMMA CountCopies ==
  ASSUME NEW e, NEW n \in Nat, NEW f
  PROVE  Count(Copies(e, n), f) = IF f = e THEN n ELSE 0
<1> DEFINE t == Copies(e, n)
<1>1. Range(t) \subseteq {e}
  BY CopiesAreSequences
<1>2. DOMAIN t = 1..n /\ \A i \in 1..n : t[i] = e
  BY DEF Copies
<1> HIDE DEF t
<1>3. CASE f = e
  <2>1. {i \in DOMAIN t : t[i] = f} = 1..n
    BY <1>2, <1>3
  <2>2. Cardinality(1..n) = n
    <3>1. Cardinality(1..n) = IF 1 > n THEN 0 ELSE n - 1 + 1
      BY FS_Interval
    <3>2. QED
      BY <3>1
  <2>3. QED
    BY <1>3, <2>1, <2>2 DEF Count, t
<1>4. CASE f # e
  <2>1. ~Has(t, f)
    BY <1>1, <1>4 DEF Has
  <2>2. QED
    BY <1>4, <2>1, CountNone DEF t
<1>5. QED
  BY <1>3, <1>4

LEMMA MaybeOne ==
  ASSUME NEW e, NEW side
  PROVE  /\ Trailers(e, side) \in Seq({e}) /\ Range(Trailers(e, side)) \subseteq {e}
         /\ \A f : f # e => Count(Trailers(e, side), f) = 0
         /\ \A f, g : ~Follows(Trailers(e, side), f, g)
<1>1. CASE Trailers(e, side) = << >>
  <2>1. << >> \in Seq({e}) /\ Range(<< >>) = {}
    BY RangeEmpty
  <2>2. \A f, g : ~Follows(<< >>, f, g)
    BY <2>1, FollowsHas DEF Has
  <2>3. QED
    BY <1>1, <2>1, <2>2, CountEmpty
<1>2. CASE Trailers(e, side) = <<e>>
  BY <1>2, One
<1>3. QED
  BY <1>1, <1>2 DEF Trailers

-----------------------------------------------------------------------------
(* A response in order, and what may be added to it. *)

ResponseOrdered(s) ==
  /\ \A e \in Range(s) \ {"ResponseError"} :
       ~Follows(s, "ResponseEnd", e) /\ ~Follows(s, "ResponseError", e)
  /\ Count(s, "ResponseHeaders") <= 1
  /\ \A e \in {"ResponseData", "ResponseTrailers", "ResponseEnd"} :
       Has(s, e) => Follows(s, "ResponseHeaders", e)
  /\ ~Follows(s, "ResponseTrailers", "ResponseData")

LEMMA ResponseGrows ==
  ASSUME NEW s \in Seq(ToClient), NEW e \in ToClient, NEW t \in Seq({e}),
         ResponseOrdered(s),
         e # "ResponseError" => Unended(s),
         e = "ResponseHeaders" => ~Has(s, "ResponseHeaders") /\ Count(t, e) <= 1,
         e \notin {"ResponseHeaders", "ResponseError"} => Has(s, "ResponseHeaders"),
         e = "ResponseData" => ~Has(s, "ResponseTrailers"),
         e = "ResponseEnd" => ~Follows(t, e, e)
  PROVE  /\ ResponseOrdered(s \o t)
         /\ s \o t \in Seq(ToClient) /\ Range(s \o t) = Range(s) \cup Range(t)
         /\ Range(t) \subseteq {e}
         /\ \A f : Count(s \o t, f) = Count(s, f) + Count(t, f)
<1> DEFINE u == s \o t
<1>1. t \in Seq(ToClient) /\ Range(t) \subseteq {e}
  BY DEF Range
<1>2. u \in Seq(ToClient) /\ Range(u) = Range(s) \cup Range(t)
  BY <1>1, Adding
<1>3. \A f : Count(u, f) = Count(s, f) + Count(t, f)
  BY <1>1, CountConcat
<1>4. \A f, g : Follows(u, f, g) =>
                  Follows(s, f, g) \/ (Has(s, f) /\ g = e) \/ (f = e /\ g = e /\ Follows(t, e, e))
  <2>1. \A f, g : Follows(u, f, g) =>
                    Follows(s, f, g) \/ (Has(s, f) /\ Has(t, g)) \/ Follows(t, f, g)
    BY <1>1, FollowsConcat
  <2>2. \A f, g : Follows(t, f, g) => f = e /\ g = e
    BY <1>1, FollowsHas DEF Has
  <2>3. QED
    BY <1>1, <2>1, <2>2 DEF Has
<1>5. \A f, g : Follows(s, f, g) \/ (Has(s, f) /\ Has(t, g)) => Follows(u, f, g)
  BY <1>1, FollowsConcat
<1> HIDE DEF u
<1>6. \A f \in Range(u) \ {"ResponseError"} :
        ~Follows(u, "ResponseEnd", f) /\ ~Follows(u, "ResponseError", f)
  <2>1. ASSUME NEW f \in Range(u) \ {"ResponseError"}, NEW g \in Terminal, Follows(u, g, f)
        PROVE  FALSE
    <3>1. CASE Follows(s, g, f)
      BY <2>1, <3>1, FollowsHas DEF ResponseOrdered, Terminal, Has
    <3>2. CASE Has(s, g) /\ f = e
      BY <2>1, <3>2 DEF Unended, Has
    <3>3. CASE g = e /\ f = e /\ Follows(t, e, e)
      BY <2>1, <3>3 DEF Terminal
    <3>4. QED
      BY <1>4, <2>1, <3>1, <3>2, <3>3
  <2>2. QED
    BY <2>1 DEF Terminal
<1>7. Count(u, "ResponseHeaders") <= 1
  <2>1. Count(s, "ResponseHeaders") \in Nat /\ Count(t, "ResponseHeaders") \in Nat
    BY CountIsNat
  <2>2. CASE e = "ResponseHeaders"
    <3>1. Count(s, "ResponseHeaders") = 0
      BY <2>2, CountNone
    <3>2. QED
      BY <1>3, <2>1, <2>2, <3>1
  <2>3. CASE e # "ResponseHeaders"
    <3>1. Count(t, "ResponseHeaders") = 0
      BY <1>1, <2>3, CountNone DEF Has
    <3>2. QED
      BY <1>3, <2>1, <3>1 DEF ResponseOrdered
  <2>4. QED
    BY <2>2, <2>3
<1>8. ASSUME NEW f \in {"ResponseData", "ResponseTrailers", "ResponseEnd"}, Has(u, f)
      PROVE  Follows(u, "ResponseHeaders", f)
  <2>1. CASE Has(s, f)
    BY <1>5, <1>8, <2>1 DEF ResponseOrdered
  <2>2. CASE ~Has(s, f)
    <3>1. Has(t, f) /\ f = e
      BY <1>1, <1>2, <1>8, <2>2 DEF Has
    <3>2. Has(s, "ResponseHeaders")
      BY <1>8, <3>1
    <3>3. QED
      BY <1>5, <3>1, <3>2
  <2>3. QED
    BY <2>1, <2>2
<1>9. ~Follows(u, "ResponseTrailers", "ResponseData")
  BY <1>4 DEF ResponseOrdered
<1>10. ResponseOrdered(u)
  BY <1>6, <1>7, <1>8, <1>9 DEF ResponseOrdered
<1>11. QED
  BY <1>1, <1>2, <1>3, <1>10 DEF u

LEMMA TellsHeaders ==
  ASSUME NEW s \in Seq(ToClient), ResponseOrdered(s), Unended(s), ~Has(s, "ResponseHeaders")
  PROVE  /\ s \o <<"ResponseHeaders">> \in Seq(ToClient)
         /\ ResponseOrdered(s \o <<"ResponseHeaders">>)
         /\ Range(s \o <<"ResponseHeaders">>) = Range(s) \cup {"ResponseHeaders"}
         /\ Count(s \o <<"ResponseHeaders">>, "ResponseData") = Count(s, "ResponseData")
<1> DEFINE t == <<"ResponseHeaders">>
<1>1. "ResponseHeaders" \in ToClient
  BY DEF ToClient, ResponseEvents
<1>2. Count(s, "ResponseData") \in Nat
  BY CountIsNat
<1>3. /\ t \in Seq({"ResponseHeaders"})
      /\ Range(t) = {"ResponseHeaders"}
      /\ Count(t, "ResponseHeaders") = 1
      /\ Count(t, "ResponseData") = 0
  BY One
<1> HIDE DEF t
<1>4. /\ s \o t \in Seq(ToClient) /\ ResponseOrdered(s \o t)
      /\ Range(s \o t) = Range(s) \cup Range(t)
      /\ Count(s \o t, "ResponseData") = Count(s, "ResponseData") + Count(t, "ResponseData")
  BY <1>1, <1>3, ResponseGrows
<1>5. QED
  BY <1>2, <1>3, <1>4 DEF t

LEMMA TellsData ==
  ASSUME NEW s \in Seq(ToClient), ResponseOrdered(s), Unended(s),
         Has(s, "ResponseHeaders"), ~Has(s, "ResponseTrailers"), NEW n \in Nat
  PROVE  /\ s \o Copies("ResponseData", n) \in Seq(ToClient)
         /\ ResponseOrdered(s \o Copies("ResponseData", n))
         /\ Range(s) \subseteq Range(s \o Copies("ResponseData", n))
         /\ Range(s \o Copies("ResponseData", n)) \subseteq Range(s) \cup {"ResponseData"}
         /\ Count(s \o Copies("ResponseData", n), "ResponseData") = Count(s, "ResponseData") + n
<1> DEFINE t == Copies("ResponseData", n)
<1>1. "ResponseData" \in ToClient
  BY DEF ToClient, ResponseEvents
<1>2. Count(s, "ResponseData") \in Nat
  BY CountIsNat
<1>3. /\ t \in Seq({"ResponseData"})
      /\ Range(t) \subseteq {"ResponseData"}
      /\ Count(t, "ResponseData") = n
  <2>1. t \in Seq({"ResponseData"}) /\ Range(t) \subseteq {"ResponseData"}
    BY CopiesAreSequences
  <2>2. Count(t, "ResponseData") = n
    BY CountCopies
  <2>3. QED
    BY <2>1, <2>2
<1> HIDE DEF t
<1>4. /\ s \o t \in Seq(ToClient) /\ ResponseOrdered(s \o t)
      /\ Range(s \o t) = Range(s) \cup Range(t)
      /\ Count(s \o t, "ResponseData") = Count(s, "ResponseData") + Count(t, "ResponseData")
  BY <1>1, <1>3, ResponseGrows
<1>5. QED
  BY <1>2, <1>3, <1>4 DEF t

LEMMA TellsChunk ==
  ASSUME NEW s \in Seq(ToClient), ResponseOrdered(s), Unended(s),
         Has(s, "ResponseHeaders"), ~Has(s, "ResponseTrailers")
  PROVE  /\ Append(s, "ResponseData") \in Seq(ToClient)
         /\ ResponseOrdered(Append(s, "ResponseData"))
         /\ Range(Append(s, "ResponseData")) = Range(s) \cup {"ResponseData"}
         /\ Count(Append(s, "ResponseData"), "ResponseData") = Count(s, "ResponseData") + 1
<1> DEFINE t == <<"ResponseData">>
<1>1. "ResponseData" \in ToClient
  BY DEF ToClient, ResponseEvents
<1>2. Count(s, "ResponseData") \in Nat
  BY CountIsNat
<1>3. /\ t \in Seq({"ResponseData"})
      /\ Range(t) = {"ResponseData"}
      /\ Count(t, "ResponseData") = 1
  BY One
<1> HIDE DEF t
<1>4. /\ s \o t \in Seq(ToClient) /\ ResponseOrdered(s \o t)
      /\ Range(s \o t) = Range(s) \cup Range(t)
      /\ Count(s \o t, "ResponseData") = Count(s, "ResponseData") + Count(t, "ResponseData")
  BY <1>1, <1>3, ResponseGrows
<1>5. Append(s, "ResponseData") = s \o t
  BY <1>1, AppendIsConcat DEF t
<1>6. QED
  BY <1>3, <1>4, <1>5

LEMMA TellsTrailers ==
  ASSUME NEW s \in Seq(ToClient), ResponseOrdered(s), Unended(s),
         Has(s, "ResponseHeaders"), NEW side
  PROVE  /\ s \o Trailers("ResponseTrailers", side) \in Seq(ToClient)
         /\ ResponseOrdered(s \o Trailers("ResponseTrailers", side))
         /\ Range(s) \subseteq Range(s \o Trailers("ResponseTrailers", side))
         /\ Range(s \o Trailers("ResponseTrailers", side)) \subseteq Range(s) \cup {"ResponseTrailers"}
         /\ Count(s \o Trailers("ResponseTrailers", side), "ResponseData") = Count(s, "ResponseData")
<1> DEFINE t == Trailers("ResponseTrailers", side)
<1>1. "ResponseTrailers" \in ToClient
  BY DEF ToClient, ResponseEvents
<1>2. Count(s, "ResponseData") \in Nat
  BY CountIsNat
<1>3. /\ t \in Seq({"ResponseTrailers"})
      /\ Range(t) \subseteq {"ResponseTrailers"}
      /\ Count(t, "ResponseData") = 0
  <2>1. t \in Seq({"ResponseTrailers"}) /\ Range(t) \subseteq {"ResponseTrailers"}
    BY MaybeOne
  <2>2. \A f : f # "ResponseTrailers" => Count(t, f) = 0
    BY MaybeOne
  <2>3. QED
    BY <2>1, <2>2
<1> HIDE DEF t
<1>4. /\ s \o t \in Seq(ToClient) /\ ResponseOrdered(s \o t)
      /\ Range(s \o t) = Range(s) \cup Range(t)
      /\ Count(s \o t, "ResponseData") = Count(s, "ResponseData") + Count(t, "ResponseData")
  BY <1>1, <1>3, ResponseGrows
<1>5. QED
  BY <1>2, <1>3, <1>4 DEF t

LEMMA TellsEnd ==
  ASSUME NEW s \in Seq(ToClient), ResponseOrdered(s), Unended(s),
         Has(s, "ResponseHeaders")
  PROVE  /\ s \o <<"ResponseEnd">> \in Seq(ToClient)
         /\ ResponseOrdered(s \o <<"ResponseEnd">>)
         /\ Range(s \o <<"ResponseEnd">>) = Range(s) \cup {"ResponseEnd"}
         /\ Count(s \o <<"ResponseEnd">>, "ResponseData") = Count(s, "ResponseData")
         /\ ~Follows(s \o <<"ResponseEnd">>, "ResponseEnd", "ResponseError")
<1> DEFINE t == <<"ResponseEnd">>
<1>1. "ResponseEnd" \in ToClient
  BY DEF ToClient, ResponseEvents
<1>2. Count(s, "ResponseData") \in Nat
  BY CountIsNat
<1>3. /\ t \in Seq({"ResponseEnd"})
      /\ Range(t) = {"ResponseEnd"}
      /\ Count(t, "ResponseData") = 0
      /\ ~Follows(t, "ResponseEnd", "ResponseEnd")
  BY One
<1> HIDE DEF t
<1>4. /\ s \o t \in Seq(ToClient) /\ ResponseOrdered(s \o t)
      /\ Range(s \o t) = Range(s) \cup Range(t)
      /\ Count(s \o t, "ResponseData") = Count(s, "ResponseData") + Count(t, "ResponseData")
  BY <1>1, <1>3, ResponseGrows
<1>5. ~Follows(s \o t, "ResponseEnd", "ResponseError")
  <2>1. "ResponseError" \notin Range(s \o t)
    BY <1>3, <1>4 DEF Unended, Terminal
  <2>2. QED
    BY <2>1, FollowsHas DEF Has
<1>6. QED
  BY <1>2, <1>3, <1>4, <1>5 DEF t

LEMMA TellsError ==
  ASSUME NEW s \in Seq(ToClient), ResponseOrdered(s)
  PROVE  /\ Append(s, "ResponseError") \in Seq(ToClient)
         /\ ResponseOrdered(Append(s, "ResponseError"))
         /\ Range(Append(s, "ResponseError")) = Range(s) \cup {"ResponseError"}
         /\ Count(Append(s, "ResponseError"), "ResponseData") = Count(s, "ResponseData")
         /\ Follows(Append(s, "ResponseError"), "ResponseEnd", "ResponseError") =>
              Has(s, "ResponseEnd")
<1> DEFINE t == <<"ResponseError">>
<1>1. "ResponseError" \in ToClient
  BY DEF ToClient, ResponseEvents
<1>2. Count(s, "ResponseData") \in Nat
  BY CountIsNat
<1>3. /\ t \in Seq({"ResponseError"})
      /\ Range(t) = {"ResponseError"}
      /\ Count(t, "ResponseData") = 0
  BY One
<1> HIDE DEF t
<1>4. /\ s \o t \in Seq(ToClient) /\ ResponseOrdered(s \o t)
      /\ Range(s \o t) = Range(s) \cup Range(t)
      /\ Count(s \o t, "ResponseData") = Count(s, "ResponseData") + Count(t, "ResponseData")
  BY <1>1, <1>3, ResponseGrows
<1>5. Follows(s \o t, "ResponseEnd", "ResponseError") => Has(s, "ResponseEnd")
  <2>1. Has(s \o t, "ResponseEnd") => Has(s, "ResponseEnd")
    BY <1>3, <1>4 DEF Has
  <2>2. QED
    BY <2>1, FollowsHas
<1>6. Append(s, "ResponseError") = s \o t
  BY <1>1, AppendIsConcat DEF t
<1>7. Range(s \o t) = Range(s) \cup {"ResponseError"}
  BY <1>3, <1>4
<1>8. Count(s \o t, "ResponseData") = Count(s, "ResponseData")
  BY <1>2, <1>3, <1>4
<1>9. QED
  BY <1>4, <1>5, <1>6, <1>7, <1>8

-----------------------------------------------------------------------------
(* A request in order, and what may be added to it. *)

RequestOrdered(s) ==
  /\ \A e \in Range(s) \ {"RequestError"} :
       ~Follows(s, "RequestEnd", e) /\ ~Follows(s, "RequestError", e)
  /\ Count(s, "RequestHeaders") <= 1
  /\ s # << >> => s[1] = "RequestHeaders"
  /\ ~Follows(s, "RequestTrailers", "RequestData")

\* Nothing ends what the server is told.
Unfinished(s) == Range(s) \cap {"RequestEnd", "RequestError"} = {}

LEMMA RequestGrows ==
  ASSUME NEW s \in Seq(ToServer), NEW e \in ToServer, NEW t \in Seq({e}),
         RequestOrdered(s), s # << >>, e # "RequestHeaders",
         e # "RequestError" => Unfinished(s),
         e = "RequestData" => ~Has(s, "RequestTrailers"),
         e = "RequestEnd" => ~Follows(t, e, e)
  PROVE  /\ RequestOrdered(s \o t) /\ s \o t # << >>
         /\ s \o t \in Seq(ToServer) /\ Range(s \o t) = Range(s) \cup Range(t)
         /\ Range(t) \subseteq {e}
         /\ \A f : Count(s \o t, f) = Count(s, f) + Count(t, f)
<1> DEFINE u == s \o t
<1>1. t \in Seq(ToServer) /\ Range(t) \subseteq {e}
  BY DEF Range
<1>2. u \in Seq(ToServer) /\ Range(u) = Range(s) \cup Range(t)
  BY <1>1, Adding
<1>3. \A f : Count(u, f) = Count(s, f) + Count(t, f)
  BY <1>1, CountConcat
<1>4. \A f, g : Follows(u, f, g) =>
                  Follows(s, f, g) \/ (Has(s, f) /\ g = e) \/ (f = e /\ g = e /\ Follows(t, e, e))
  <2>1. \A f, g : Follows(u, f, g) =>
                    Follows(s, f, g) \/ (Has(s, f) /\ Has(t, g)) \/ Follows(t, f, g)
    BY <1>1, FollowsConcat
  <2>2. \A f, g : Follows(t, f, g) => f = e /\ g = e
    BY <1>1, FollowsHas DEF Has
  <2>3. QED
    BY <1>1, <2>1, <2>2 DEF Has
<1>5. u[1] = s[1] /\ u # << >>
  <2>1. Len(s) \in Nat /\ Len(s) >= 1 /\ DOMAIN s = 1..Len(s)
    BY LenProperties
  <2>2. 1 \in 1..Len(s) /\ \A i \in 1..Len(s) : u[i] = s[i]
    BY <1>1, <2>1, Parts
  <2>3. u # << >>
    BY <1>1, ConcatEqualIffEmpty
  <2>4. QED
    BY <2>2, <2>3
<1> HIDE DEF u
<1>6. \A f \in Range(u) \ {"RequestError"} :
        ~Follows(u, "RequestEnd", f) /\ ~Follows(u, "RequestError", f)
  <2>1. ASSUME NEW f \in Range(u) \ {"RequestError"}, NEW g \in {"RequestEnd", "RequestError"},
               Follows(u, g, f)
        PROVE  FALSE
    <3>1. CASE Follows(s, g, f)
      BY <2>1, <3>1, FollowsHas DEF RequestOrdered, Has
    <3>2. CASE Has(s, g) /\ f = e
      BY <2>1, <3>2 DEF Unfinished, Has
    <3>3. CASE g = e /\ f = e /\ Follows(t, e, e)
      BY <2>1, <3>3
    <3>4. QED
      BY <1>4, <2>1, <3>1, <3>2
  <2>2. QED
    BY <2>1
<1>7. Count(u, "RequestHeaders") <= 1
  <2>1. Count(s, "RequestHeaders") \in Nat
    BY CountIsNat
  <2>2. Count(t, "RequestHeaders") = 0
    BY <1>1, CountNone DEF Has
  <2>3. QED
    BY <1>3, <2>1, <2>2 DEF RequestOrdered
<1>8. ~Follows(u, "RequestTrailers", "RequestData")
  BY <1>4 DEF RequestOrdered
<1>9. RequestOrdered(u)
  BY <1>5, <1>6, <1>7, <1>8 DEF RequestOrdered
<1>10. QED
  BY <1>1, <1>2, <1>3, <1>9 DEF u

LEMMA BeginsRequest ==
  ASSUME NEW t, t = <<"RequestHeaders">>
  PROVE  /\ t \in Seq(ToServer) /\ t # << >> /\ RequestOrdered(t)
         /\ Range(t) = {"RequestHeaders"} /\ Count(t, "RequestData") = 0
<1>1. /\ t \in Seq({"RequestHeaders"}) /\ t # << >> /\ Range(t) = {"RequestHeaders"}
      /\ Count(t, "RequestHeaders") = 1 /\ Count(t, "RequestData") = 0
      /\ \A f, g : ~Follows(t, f, g)
  BY One
<1>2. t \in Seq(ToServer)
  BY DEF ToServer, RequestEvents
<1>3. t[1] = "RequestHeaders"
  OBVIOUS
<1>4. QED
  BY <1>1, <1>2, <1>3 DEF RequestOrdered

LEMMA SendsData ==
  ASSUME NEW s \in Seq(ToServer), RequestOrdered(s), s # << >>, Unfinished(s),
         ~Has(s, "RequestTrailers"), NEW n \in Nat
  PROVE  /\ s \o Copies("RequestData", n) \in Seq(ToServer) /\ s \o Copies("RequestData", n) # << >>
         /\ RequestOrdered(s \o Copies("RequestData", n))
         /\ Range(s) \subseteq Range(s \o Copies("RequestData", n))
         /\ Range(s \o Copies("RequestData", n)) \subseteq Range(s) \cup {"RequestData"}
         /\ Count(s \o Copies("RequestData", n), "RequestData") = Count(s, "RequestData") + n
<1> DEFINE t == Copies("RequestData", n)
<1>1. "RequestData" \in ToServer
  BY DEF ToServer, RequestEvents
<1>2. Count(s, "RequestData") \in Nat
  BY CountIsNat
<1>3. /\ t \in Seq({"RequestData"})
      /\ Range(t) \subseteq {"RequestData"}
      /\ Count(t, "RequestData") = n
  <2>1. t \in Seq({"RequestData"}) /\ Range(t) \subseteq {"RequestData"}
    BY CopiesAreSequences
  <2>2. Count(t, "RequestData") = n
    BY CountCopies
  <2>3. QED
    BY <2>1, <2>2
<1> HIDE DEF t
<1>4. /\ s \o t \in Seq(ToServer) /\ s \o t # << >> /\ RequestOrdered(s \o t)
      /\ Range(s \o t) = Range(s) \cup Range(t)
      /\ Count(s \o t, "RequestData") = Count(s, "RequestData") + Count(t, "RequestData")
  BY <1>1, <1>3, RequestGrows
<1>5. QED
  BY <1>2, <1>3, <1>4 DEF t

LEMMA SendsChunk ==
  ASSUME NEW s \in Seq(ToServer), RequestOrdered(s), s # << >>, Unfinished(s),
         ~Has(s, "RequestTrailers")
  PROVE  /\ Append(s, "RequestData") \in Seq(ToServer) /\ Append(s, "RequestData") # << >>
         /\ RequestOrdered(Append(s, "RequestData"))
         /\ Range(Append(s, "RequestData")) = Range(s) \cup {"RequestData"}
         /\ Count(Append(s, "RequestData"), "RequestData") = Count(s, "RequestData") + 1
<1> DEFINE t == <<"RequestData">>
<1>1. "RequestData" \in ToServer
  BY DEF ToServer, RequestEvents
<1>2. Count(s, "RequestData") \in Nat
  BY CountIsNat
<1>3. /\ t \in Seq({"RequestData"})
      /\ Range(t) = {"RequestData"}
      /\ Count(t, "RequestData") = 1
  BY One
<1> HIDE DEF t
<1>4. /\ s \o t \in Seq(ToServer) /\ s \o t # << >> /\ RequestOrdered(s \o t)
      /\ Range(s \o t) = Range(s) \cup Range(t)
      /\ Count(s \o t, "RequestData") = Count(s, "RequestData") + Count(t, "RequestData")
  BY <1>1, <1>3, RequestGrows
<1>5. Append(s, "RequestData") = s \o t
  BY <1>1, AppendIsConcat DEF t
<1>6. /\ Range(s \o t) = Range(s) \cup {"RequestData"}
      /\ Count(s \o t, "RequestData") = Count(s, "RequestData") + 1
  BY <1>2, <1>3, <1>4
<1>7. QED
  BY <1>4, <1>5, <1>6

LEMMA SendsTrailers ==
  ASSUME NEW s \in Seq(ToServer), RequestOrdered(s), s # << >>, Unfinished(s), NEW side
  PROVE  /\ s \o Trailers("RequestTrailers", side) \in Seq(ToServer) /\ s \o Trailers("RequestTrailers", side) # << >>
         /\ RequestOrdered(s \o Trailers("RequestTrailers", side))
         /\ Range(s) \subseteq Range(s \o Trailers("RequestTrailers", side))
         /\ Range(s \o Trailers("RequestTrailers", side)) \subseteq Range(s) \cup {"RequestTrailers"}
         /\ Count(s \o Trailers("RequestTrailers", side), "RequestData") = Count(s, "RequestData")
<1> DEFINE t == Trailers("RequestTrailers", side)
<1>1. "RequestTrailers" \in ToServer
  BY DEF ToServer, RequestEvents
<1>2. Count(s, "RequestData") \in Nat
  BY CountIsNat
<1>3. /\ t \in Seq({"RequestTrailers"})
      /\ Range(t) \subseteq {"RequestTrailers"}
      /\ Count(t, "RequestData") = 0
  <2>1. t \in Seq({"RequestTrailers"}) /\ Range(t) \subseteq {"RequestTrailers"}
    BY MaybeOne
  <2>2. \A f : f # "RequestTrailers" => Count(t, f) = 0
    BY MaybeOne
  <2>3. QED
    BY <2>1, <2>2
<1> HIDE DEF t
<1>4. /\ s \o t \in Seq(ToServer) /\ s \o t # << >> /\ RequestOrdered(s \o t)
      /\ Range(s \o t) = Range(s) \cup Range(t)
      /\ Count(s \o t, "RequestData") = Count(s, "RequestData") + Count(t, "RequestData")
  BY <1>1, <1>3, RequestGrows
<1>5. QED
  BY <1>2, <1>3, <1>4 DEF t

LEMMA SendsEnd ==
  ASSUME NEW s \in Seq(ToServer), RequestOrdered(s), s # << >>, Unfinished(s)
  PROVE  /\ s \o <<"RequestEnd">> \in Seq(ToServer) /\ s \o <<"RequestEnd">> # << >>
         /\ RequestOrdered(s \o <<"RequestEnd">>)
         /\ Range(s \o <<"RequestEnd">>) = Range(s) \cup {"RequestEnd"}
         /\ Count(s \o <<"RequestEnd">>, "RequestData") = Count(s, "RequestData")
<1> DEFINE t == <<"RequestEnd">>
<1>1. "RequestEnd" \in ToServer
  BY DEF ToServer, RequestEvents
<1>2. Count(s, "RequestData") \in Nat
  BY CountIsNat
<1>3. /\ t \in Seq({"RequestEnd"})
      /\ Range(t) = {"RequestEnd"}
      /\ Count(t, "RequestData") = 0
      /\ ~Follows(t, "RequestEnd", "RequestEnd")
  BY One
<1> HIDE DEF t
<1>4. /\ s \o t \in Seq(ToServer) /\ s \o t # << >> /\ RequestOrdered(s \o t)
      /\ Range(s \o t) = Range(s) \cup Range(t)
      /\ Count(s \o t, "RequestData") = Count(s, "RequestData") + Count(t, "RequestData")
  BY <1>1, <1>3, RequestGrows
<1>5. QED
  BY <1>2, <1>3, <1>4 DEF t

LEMMA SendsError ==
  ASSUME NEW s \in Seq(ToServer), RequestOrdered(s), s # << >>
  PROVE  /\ Append(s, "RequestError") \in Seq(ToServer) /\ Append(s, "RequestError") # << >>
         /\ RequestOrdered(Append(s, "RequestError"))
         /\ Range(Append(s, "RequestError")) = Range(s) \cup {"RequestError"}
         /\ Count(Append(s, "RequestError"), "RequestData") = Count(s, "RequestData")
<1> DEFINE t == <<"RequestError">>
<1>1. "RequestError" \in ToServer
  BY DEF ToServer, RequestEvents
<1>2. Count(s, "RequestData") \in Nat
  BY CountIsNat
<1>3. /\ t \in Seq({"RequestError"})
      /\ Range(t) = {"RequestError"}
      /\ Count(t, "RequestData") = 0
  BY One
<1> HIDE DEF t
<1>4. /\ s \o t \in Seq(ToServer) /\ s \o t # << >> /\ RequestOrdered(s \o t)
      /\ Range(s \o t) = Range(s) \cup Range(t)
      /\ Count(s \o t, "RequestData") = Count(s, "RequestData") + Count(t, "RequestData")
  BY <1>1, <1>3, RequestGrows
<1>5. Append(s, "RequestError") = s \o t
  BY <1>1, AppendIsConcat DEF t
<1>6. /\ Range(s \o t) = Range(s) \cup {"RequestError"}
      /\ Count(s \o t, "RequestData") = Count(s, "RequestData")
  BY <1>2, <1>3, <1>4
<1>7. QED
  BY <1>4, <1>5, <1>6

-----------------------------------------------------------------------------
(* Several events at once. *)

\* The end of a request that was streamed.
LEMMA RequestConcluded ==
  ASSUME NEW s \in Seq(ToServer), RequestOrdered(s), s # << >>, Unfinished(s), NEW side,
         NEW u, u = s \o Trailers("RequestTrailers", side) \o <<"RequestEnd">>
  PROVE  /\ u \in Seq(ToServer) /\ u # << >> /\ RequestOrdered(u)
         /\ Range(s) \cup {"RequestEnd"} \subseteq Range(u)
         /\ Count(u, "RequestData") = Count(s, "RequestData")
<1> DEFINE a == s \o Trailers("RequestTrailers", side)
<1>1. /\ a \in Seq(ToServer) /\ a # << >> /\ RequestOrdered(a)
      /\ Range(s) \subseteq Range(a) /\ Range(a) \subseteq Range(s) \cup {"RequestTrailers"}
      /\ Count(a, "RequestData") = Count(s, "RequestData")
  BY SendsTrailers
<1>2. u = a \o <<"RequestEnd">>
  OBVIOUS
<1> HIDE DEF a
<1>3. Unfinished(a)
  BY <1>1 DEF Unfinished
<1>4. /\ a \o <<"RequestEnd">> \in Seq(ToServer) /\ a \o <<"RequestEnd">> # << >>
      /\ RequestOrdered(a \o <<"RequestEnd">>)
      /\ Range(a \o <<"RequestEnd">>) = Range(a) \cup {"RequestEnd"}
      /\ Count(a \o <<"RequestEnd">>, "RequestData") = Count(a, "RequestData")
  BY <1>1, <1>3, SendsEnd
<1>5. QED
  BY <1>1, <1>2, <1>4

\* A request that was buffered.
LEMMA RequestSent ==
  ASSUME NEW n \in Nat, NEW side, NEW u,
         u = << >> \o <<"RequestHeaders">> \o Copies("RequestData", n)
               \o Trailers("RequestTrailers", side) \o <<"RequestEnd">>
  PROVE  /\ u \in Seq(ToServer) /\ RequestOrdered(u)
         /\ {"RequestHeaders", "RequestEnd"} \subseteq Range(u)
         /\ Count(u, "RequestData") = n
<1> DEFINE h == << >> \o <<"RequestHeaders">>
           a == h \o Copies("RequestData", n)
<1>1. h = <<"RequestHeaders">>
  BY ConcatEmptySeq, One
<1>2. u = a \o Trailers("RequestTrailers", side) \o <<"RequestEnd">>
  OBVIOUS
<1> HIDE DEF h
<1>3. /\ h \in Seq(ToServer) /\ h # << >> /\ RequestOrdered(h)
      /\ Range(h) = {"RequestHeaders"} /\ Count(h, "RequestData") = 0
  BY <1>1, BeginsRequest
<1>4. Unfinished(h) /\ ~Has(h, "RequestTrailers")
  BY <1>3 DEF Unfinished, Has
<1>5. /\ a \in Seq(ToServer) /\ a # << >> /\ RequestOrdered(a)
      /\ Range(h) \subseteq Range(a) /\ Range(a) \subseteq Range(h) \cup {"RequestData"}
      /\ Count(a, "RequestData") = Count(h, "RequestData") + n
  BY <1>3, <1>4, SendsData
<1> HIDE DEF a
<1>6. Unfinished(a)
  BY <1>3, <1>5 DEF Unfinished
<1>7. /\ u \in Seq(ToServer) /\ RequestOrdered(u)
      /\ Range(a) \cup {"RequestEnd"} \subseteq Range(u)
      /\ Count(u, "RequestData") = Count(a, "RequestData")
  BY <1>2, <1>5, <1>6, RequestConcluded
<1>8. QED
  BY <1>3, <1>5, <1>7

\* The headers of a response and the chunks that were buffered.
LEMMA ResponseBegun ==
  ASSUME NEW s \in Seq(ToClient), ResponseOrdered(s), Unended(s), ~Has(s, "ResponseHeaders"),
         NEW n \in Nat, NEW u, u = s \o <<"ResponseHeaders">> \o Copies("ResponseData", n)
  PROVE  /\ u \in Seq(ToClient) /\ ResponseOrdered(u) /\ Unended(u)
         /\ Has(u, "ResponseHeaders") /\ ~Has(u, "ResponseTrailers")
         /\ Count(u, "ResponseData") = n
<1> DEFINE h == s \o <<"ResponseHeaders">>
<1>1. ~Has(s, "ResponseData") /\ ~Has(s, "ResponseTrailers")
  BY FollowsHas DEF ResponseOrdered
<1>2. Count(s, "ResponseData") = 0
  BY <1>1, CountNone
<1>3. /\ h \in Seq(ToClient) /\ ResponseOrdered(h)
      /\ Range(h) = Range(s) \cup {"ResponseHeaders"}
      /\ Count(h, "ResponseData") = Count(s, "ResponseData")
  BY TellsHeaders
<1>4. u = h \o Copies("ResponseData", n)
  OBVIOUS
<1> HIDE DEF h
<1>5. Unended(h) /\ Has(h, "ResponseHeaders") /\ ~Has(h, "ResponseTrailers")
  BY <1>1, <1>3 DEF Unended, Terminal, Has
<1>6. /\ u \in Seq(ToClient) /\ ResponseOrdered(u)
      /\ Range(h) \subseteq Range(u) /\ Range(u) \subseteq Range(h) \cup {"ResponseData"}
      /\ Count(u, "ResponseData") = Count(h, "ResponseData") + n
  BY <1>3, <1>4, <1>5, TellsData
<1>7. Unended(u) /\ Has(u, "ResponseHeaders") /\ ~Has(u, "ResponseTrailers")
  BY <1>5, <1>6 DEF Unended, Terminal, Has
<1>8. QED
  BY <1>2, <1>3, <1>6, <1>7

\* All of a response but its end: what was buffered, or nothing if it was streamed.
LEMMA ResponseAllButEnd ==
  ASSUME toClient \in Seq(ToClient), ResponseOrdered(toClient), Unended(toClient),
         body["response"] \in Nat,
         sstate = "stream" => Has(toClient, "ResponseHeaders") /\ body["response"] = 0,
         sstate # "stream" => ~Has(toClient, "ResponseHeaders"),
         NEW all, all = toClient \o UnsentResponse \o Trailers("ResponseTrailers", "response")
  PROVE  /\ all \in Seq(ToClient) /\ ResponseOrdered(all) /\ Unended(all)
         /\ Has(all, "ResponseHeaders")
         /\ Count(all, "ResponseData") = Count(toClient, "ResponseData") + body["response"]
<1> DEFINE a == toClient \o UnsentResponse
<1>1. Count(toClient, "ResponseData") \in Nat
  BY CountIsNat
<1>2. /\ a \in Seq(ToClient) /\ ResponseOrdered(a) /\ Unended(a) /\ Has(a, "ResponseHeaders")
      /\ Count(a, "ResponseData") = Count(toClient, "ResponseData") + body["response"]
  <2>1. CASE sstate = "stream"
    <3>1. a = toClient
      BY <2>1, ConcatEmptySeq DEF UnsentResponse
    <3>2. QED
      BY <1>1, <2>1, <3>1
  <2>2. CASE sstate # "stream"
    <3> DEFINE h == <<"ResponseHeaders">>
               c == Copies("ResponseData", body["response"])
    <3>1. ~Has(toClient, "ResponseData")
      BY <2>2, FollowsHas DEF ResponseOrdered
    <3>2. Count(toClient, "ResponseData") = 0
      BY <3>1, CountNone
    <3>3. "ResponseHeaders" \in ToClient /\ "ResponseData" \in ToClient
      BY DEF ToClient, ResponseEvents
    <3>4. h \in Seq(ToClient)
      BY <3>3
    <3>5. c \in Seq(ToClient)
      BY <3>3, CopiesAmong
    <3>6. UnsentResponse = h \o c
      BY <2>2 DEF UnsentResponse, BufferedResponse
    <3>7. a = toClient \o (h \o c)
      BY <3>6
    <3>8. a = toClient \o <<"ResponseHeaders">> \o Copies("ResponseData", body["response"])
      <4> HIDE DEF h, c, a
      <4>1. toClient \o (h \o c) = (toClient \o h) \o c
        <5>1. ASSUME NEW x \in Seq(ToClient), NEW y \in Seq(ToClient), NEW z \in Seq(ToClient)
              PROVE  (x \o y) \o z = x \o (y \o z)
          BY ConcatAssociative, SMTT(30)
        <5>2. QED
          BY <3>4, <3>5, <5>1
      <4>2. a = toClient \o h \o c
        BY <3>7, <4>1
      <4>3. QED
        BY <4>2 DEF h, c
    <3> HIDE DEF a
    <3>9. /\ a \in Seq(ToClient) /\ ResponseOrdered(a) /\ Unended(a) /\ Has(a, "ResponseHeaders")
          /\ Count(a, "ResponseData") = body["response"]
      BY <2>2, <3>8, ResponseBegun
    <3>10. QED
      BY <3>2, <3>9
  <2>3. QED
    BY <2>1, <2>2
<1>3. all = a \o Trailers("ResponseTrailers", "response")
  OBVIOUS
<1> HIDE DEF a
<1>4. /\ all \in Seq(ToClient) /\ ResponseOrdered(all)
      /\ Range(a) \subseteq Range(all) /\ Range(all) \subseteq Range(a) \cup {"ResponseTrailers"}
      /\ Count(all, "ResponseData") = Count(a, "ResponseData")
  BY <1>2, <1>3, TellsTrailers
<1>5. Unended(all) /\ Has(all, "ResponseHeaders")
  BY <1>2, <1>4 DEF Unended, Terminal, Has
<1>6. QED
  BY <1>2, <1>4, <1>5

\* The response to a CONNECT.
LEMMA ConnectAnswered ==
  ASSUME toClient \in Seq(ToClient), ResponseOrdered(toClient), Unended(toClient),
         ~Has(toClient, "ResponseHeaders"),
         NEW content \in {<< >>, <<"ResponseData">>}, NEW u, u = ConnectResponse(content)
  PROVE  /\ u \in Seq(ToClient) /\ ResponseOrdered(u)
         /\ {"ResponseHeaders", "ResponseEnd"} \subseteq Range(u)
         /\ ~Has(u, "ResponseTrailers")
         /\ ~Follows(u, "ResponseEnd", "ResponseError")
<1> DEFINE h == toClient \o <<"ResponseHeaders">>
           a == h \o content
<1>1. u = a \o <<"ResponseEnd">>
  BY DEF ConnectResponse
<1>2. /\ h \in Seq(ToClient) /\ ResponseOrdered(h)
      /\ Range(h) = Range(toClient) \cup {"ResponseHeaders"}
  BY TellsHeaders
<1>3. ~Has(toClient, "ResponseTrailers")
  BY FollowsHas DEF ResponseOrdered
<1> HIDE DEF h
<1>4. Unended(h) /\ Has(h, "ResponseHeaders") /\ ~Has(h, "ResponseTrailers")
  BY <1>2, <1>3 DEF Unended, Terminal, Has
<1>5. /\ a \in Seq(ToClient) /\ ResponseOrdered(a) /\ Unended(a)
      /\ Has(a, "ResponseHeaders") /\ ~Has(a, "ResponseTrailers")
  <2>1. CASE content = << >>
    <3>1. a = h
      BY <1>2, <2>1, ConcatEmptySeq
    <3>2. QED
      BY <1>2, <1>4, <3>1
  <2>2. CASE content = <<"ResponseData">>
    <3>1. "ResponseData" \in ToClient
      BY DEF ToClient, ResponseEvents
    <3>2. a = Append(h, "ResponseData")
      BY <2>2
    <3> HIDE DEF a
    <3>3. a \in Seq(ToClient) /\ ResponseOrdered(a) /\ Range(a) = Range(h) \cup {"ResponseData"}
      BY <1>2, <1>4, <3>2, TellsChunk
    <3>4. QED
      BY <1>4, <3>3 DEF Unended, Terminal, Has
  <2>3. QED
    BY <2>1, <2>2
<1> HIDE DEF a
<1>6. /\ u \in Seq(ToClient) /\ ResponseOrdered(u)
      /\ Range(u) = Range(a) \cup {"ResponseEnd"}
      /\ ~Follows(u, "ResponseEnd", "ResponseError")
  BY <1>1, <1>5, TellsEnd
<1>7. QED
  BY <1>5, <1>6 DEF Has

-----------------------------------------------------------------------------
(* Hooks and events, one more or one less. *)

\* Where a sequence with one more element has its elements.
LEMMA Longer ==
  ASSUME NEW S, NEW s \in Seq(S), NEW e \in S
  PROVE  /\ Len(s) \in Nat /\ DOMAIN s = 1..Len(s)
         /\ DOMAIN Append(s, e) = 1..Len(s) + 1
         /\ \A i \in 1..Len(s) : Append(s, e)[i] = s[i]
         /\ Append(s, e)[Len(s) + 1] = e
BY AppendProperties, LenProperties

LEMMA HookInOrder ==
  ASSUME hooks \in Seq(Hooks), HooksInOrder, NEW h \in Hooks, hooks' = Append(hooks, h),
         h # "error" => ~Has(hooks, h),
         h = "requestheaders" => hooks = << >>,
         h = "responseheaders" => ~Has(hooks, "response"),
         h = "response" => Has(hooks, "responseheaders")
  PROVE  HooksInOrder'
<1>1. /\ Len(hooks) \in Nat /\ DOMAIN hooks = 1..Len(hooks)
      /\ DOMAIN hooks' = 1..Len(hooks) + 1
      /\ \A i \in 1..Len(hooks) : hooks'[i] = hooks[i]
      /\ hooks'[Len(hooks) + 1] = h
  BY Longer
<1>2. Range(hooks') = Range(hooks) \cup {h}
  BY RangeAppend
<1>3. \A g \in Hooks \ {"error"} : Count(hooks', g) <= 1
  <2>1. ASSUME NEW g \in Hooks \ {"error"} PROVE Count(hooks', g) <= 1
    <3>1. CASE g = h
      <4>1. Count(hooks, g) = 0
        BY <2>1, <3>1, CountNone
      <4>2. Count(hooks', g) = Count(hooks, g) + 1
        BY <3>1, CountAppend
      <4>3. QED
        BY <4>1, <4>2
    <3>2. CASE g # h
      <4>1. Count(hooks', g) = Count(hooks, g)
        BY <3>2, CountAppend
      <4>2. QED
        BY <2>1, <4>1 DEF HooksInOrder
    <3>3. QED
      BY <3>1, <3>2
  <2>2. QED
    BY <2>1
<1>4. ASSUME NEW e, NEW f, e # f, h = e => ~Has(hooks, f), Before(hooks, e, f)
      PROVE  Before(hooks', e, f)
  <2>1. ASSUME NEW i \in 1..Len(hooks) + 1, NEW j \in 1..Len(hooks) + 1,
               hooks'[i] = e, hooks'[j] = f
        PROVE  i < j
    <3>1. CASE i \in 1..Len(hooks) /\ j \in 1..Len(hooks)
      BY <1>4, <2>1, <3>1 DEF Before
    <3>2. CASE i \in 1..Len(hooks) /\ j = Len(hooks) + 1
      BY <1>1, <3>2
    <3>3. CASE i = Len(hooks) + 1 /\ j \in 1..Len(hooks)
      <4>1. h = e /\ Has(hooks, f)
        BY <1>1, <2>1, <3>3 DEF Has, Range
      <4>2. QED
        BY <1>4, <4>1
    <3>4. CASE i = Len(hooks) + 1 /\ j = Len(hooks) + 1
      BY <1>4, <2>1, <3>4
    <3>5. QED
      BY <3>1, <3>3, <3>4
  <2>2. QED
    BY <1>1, <2>1 DEF Before
<1>5. \A g \in {"request", "responseheaders", "response"} : Before(hooks', "requestheaders", g)
  <2>1. ASSUME NEW g \in {"request", "responseheaders", "response"}
        PROVE  Before(hooks', "requestheaders", g)
    <3>1. h = "requestheaders" => ~Has(hooks, g)
      BY RangeEmpty DEF Has
    <3>2. Before(hooks, "requestheaders", g)
      BY <2>1 DEF HooksInOrder
    <3>3. QED
      BY <1>4, <3>1, <3>2
  <2>2. QED
    BY <2>1
<1>6. Before(hooks', "responseheaders", "response")
  <2>1. Before(hooks, "responseheaders", "response")
    BY DEF HooksInOrder
  <2>2. QED
    BY <1>4, <2>1
<1>7. Has(hooks', "response") => Has(hooks', "responseheaders")
  BY <1>2 DEF HooksInOrder, Has
<1>8. QED
  BY <1>3, <1>5, <1>6, <1>7 DEF HooksInOrder

LEMMA OrderTaking ==
  ASSUME NEW q \in Seq(Events), q # << >>, QueueOrdered(q)
  PROVE  /\ QueueOrdered(Tail(q))
         /\ Head(q) = "RequestEnd" => ~Requested(Tail(q))
         /\ Head(q) = "ResponseEnd" => ~Responded(Tail(q))
         /\ Head(q) \in ResponseEvents => ~Has(Tail(q), "ResponseHeaders")
<1> DEFINE t == Tail(q)
<1>1. /\ Len(q) \in Nat /\ Len(q) >= 1 /\ DOMAIN q = 1..Len(q) /\ Head(q) = q[1]
      /\ DOMAIN t = 1..Len(q) - 1
      /\ \A i \in 1..Len(q) - 1 : t[i] = q[i + 1]
  <2>1. t \in Seq(Events) /\ Len(t) = Len(q) - 1
    BY HeadTailProperties
  <2>2. Len(q) \in Nat /\ Len(q) >= 1 /\ DOMAIN q = 1..Len(q) /\ Head(q) = q[1]
    BY LenProperties
  <2>3. QED
    BY <2>2, HeadTailProperties, LenProperties, ZenonT(30)
<1> HIDE DEF t
<1>2. ASSUME NEW i \in 1..Len(q) - 1, NEW j \in 1..Len(q) - 1, i < j
      PROVE  /\ t[i] = "RequestEnd" => t[j] \notin RequestEvents
             /\ t[i] = "ResponseEnd" => t[j] \notin ResponseEvents
             /\ t[j] = "ResponseHeaders" => t[i] \notin ResponseEvents
  <2>1. i + 1 \in DOMAIN q /\ j + 1 \in DOMAIN q /\ i + 1 < j + 1
    BY <1>1, <1>2
  <2>2. t[i] = q[i + 1] /\ t[j] = q[j + 1]
    BY <1>1
  <2>3. QED
    BY <2>1, <2>2 DEF QueueOrdered
<1>3. QueueOrdered(t)
  BY <1>1, <1>2 DEF QueueOrdered
<1>4. ASSUME NEW e \in Range(t)
      PROVE  /\ Head(q) = "RequestEnd" => e \notin RequestEvents
             /\ Head(q) = "ResponseEnd" => e \notin ResponseEvents
             /\ e = "ResponseHeaders" => Head(q) \notin ResponseEvents
  <2>1. PICK i \in 1..Len(q) - 1 : e = t[i]
    BY <1>1, <1>4 DEF Range
  <2>2. 1 \in DOMAIN q /\ i + 1 \in DOMAIN q /\ 1 < i + 1 /\ e = q[i + 1]
    BY <1>1, <2>1
  <2>3. QED
    BY <1>1, <2>2 DEF QueueOrdered
<1>5. QED
  BY <1>3, <1>4 DEF t, Requested, Responded, Has

LEMMA OrderPutting ==
  ASSUME NEW q \in Seq(Events), NEW e \in Events, QueueOrdered(q),
         e \in RequestEvents => ~Has(q, "RequestEnd"),
         e \in ResponseEvents => ~Has(q, "ResponseEnd"),
         e = "ResponseHeaders" => ~Responded(q)
  PROVE  QueueOrdered(Append(q, e))
<1> DEFINE t == Append(q, e)
<1>1. /\ Len(q) \in Nat /\ DOMAIN q = 1..Len(q)
      /\ DOMAIN t = 1..Len(q) + 1
      /\ \A i \in 1..Len(q) : t[i] = q[i]
      /\ t[Len(q) + 1] = e
  BY Longer
<1> HIDE DEF t
<1>2. ASSUME NEW i \in 1..Len(q) + 1, NEW j \in 1..Len(q) + 1, i < j
      PROVE  /\ t[i] = "RequestEnd" => t[j] \notin RequestEvents
             /\ t[i] = "ResponseEnd" => t[j] \notin ResponseEvents
             /\ t[j] = "ResponseHeaders" => t[i] \notin ResponseEvents
  <2>1. i \in DOMAIN q /\ t[i] = q[i] /\ q[i] \in Range(q)
    BY <1>1, <1>2 DEF Range
  <2>2. CASE j \in 1..Len(q)
    <3>1. j \in DOMAIN q /\ t[j] = q[j]
      BY <1>1, <2>2
    <3>2. QED
      BY <1>2, <2>1, <3>1 DEF QueueOrdered
  <2>3. CASE j = Len(q) + 1
    <3>1. t[j] = e
      BY <1>1, <2>3
    <3>2. QED
      BY <2>1, <3>1 DEF Has, Responded
  <2>4. QED
    BY <2>2, <2>3
<1>3. QED
  BY <1>1, <1>2 DEF QueueOrdered, t

-----------------------------------------------------------------------------
(* Steps that only take the generator on.                                  *)

Stays ==
  /\ UNCHANGED <<cstate, sstate, body, queue, toClient, toServer, dropped>>
  /\ UNCHANGED <<passthrough, client, server, bodyless, chunks>>

\* From the headers of a response on.
Late == Responding \cup ResponseHook \cup Finishing \cup KillError \cup Killing

\* What a step that only moves on does not do.
Onward ==
  /\ todo \notin Opens \cup Reopened \cup Killing
  /\ todo # << >> /\ todo' # << >>
  /\ todo' \notin Opens \cup Reopened
  /\ todo' \in Ending => todo \in Ending
  /\ todo' \in Routing => todo \in Routing
  /\ todo \in Late => todo' \in Late
  /\ todo' \in Responding => todo \in Responding
  /\ todo' \in ResponseHook \cup Finishing => todo \in ResponseHook \cup Finishing \cup Routing
  /\ todo \in Asked \cup Connecting => todo' \in Asked \cup Connecting \cup Killing
  /\ todo' \in KillError \cup Killing =>
       todo \in KillError \cup Killing \cup Invalid \cup Beginning \cup Routing
                  \cup Connecting \cup Responding
  /\ todo' \in Oversized => todo \in Oversized \cup Responding
  /\ todo' \in ResponseErrorHook \cup AfterResponseError =>
       todo \in ResponseErrorHook \cup AfterResponseError \cup Routing
  /\ todo' \in RequestErrorHook \cup AfterRequestError =>
       todo \in RequestErrorHook \cup AfterRequestError

LEMMA MoveKeeps ==
  ASSUME IInv, MInv, Stays, Onward, HooksInOrder', HooksRun',
         Has(hooks', "response") => Has(hooks, "response") \/ todo \in ResponseHook
  PROVE  MInv'
<1>0. /\ TypeOK /\ StatesKnown /\ SentLater /\ AtFirst
      /\ HooksInOrder /\ HooksRun
      /\ PeersAhead /\ RequestDrained /\ ResponseTakenTo /\ SentKnown
      /\ MessagesInOrder /\ ToldWhen /\ ToldSoFar /\ SentSoFar
      /\ BodiesWhole /\ RequestChunks /\ ResponseChunks
  BY DEF IInv, MInv
<1>1. /\ UNCHANGED <<cstate, sstate, body, queue, toClient, toServer, dropped>>
      /\ UNCHANGED <<passthrough, client, server, bodyless, chunks>>
  BY DEF Stays
<1>2. /\ Sent' = Sent /\ Told' = Told /\ ClientOver' = ClientOver /\ ServerOver' = ServerOver
      /\ (todo # << >> => ~passthrough) /\ (Responded(queue) => FromServer(queue))
  BY <1>0, <1>1
    DEF Sent, Told, ClientOver, ServerOver, Has, StatesKnown, Responded, FromServer,
        ResponseEvents, RequestEvents
<1>3. todo \in Invalid \cup Beginning \cup Routing \cup Connecting \cup Responding => ~Told
  BY <1>0, ConnectingOnly DEF ToldWhen, StatesKnown, SentKnown, AtFirst, Told, Unended
<1>4. MessagesInOrder' /\ SentSoFar' /\ (Awaited' <=> Awaited)
  BY <1>0, <1>1, <1>2
    DEF MessagesInOrder, ResponseInOrder, RequestInOrder, SentSoFar, Awaited, Has
<1>5. PeersAhead'
  BY <1>0, <1>1, <1>2 DEF PeersAhead, Onward
<1>6. RequestDrained'
  BY <1>0, <1>1, <1>2 DEF RequestDrained, Onward
<1>7. ResponseTakenTo'
  <2>1. (/\ Early(sstate)
         /\ todo' \notin Responding \cup ResponseHook \cup Finishing \cup KillError \cup Killing)
           => Awaited
    BY <1>0, <1>1 DEF ResponseTakenTo, Onward, Late
  <2>2. todo \in Routing => ~FromServer(queue) /\ ~Sent
    BY <1>0, RoutingOnly DEF StatesKnown, SentLater
  <2>3. todo \in Routing => ~Has(queue, "ResponseHeaders") /\ ~Responded(queue)
    BY <2>2 DEF FromServer, Responded, Has, ResponseEvents, RequestEvents
  <2>4. (Has(hooks', "response") /\ Sent) => ServerOver
    BY <1>0, <1>1, <1>2 DEF ResponseTakenTo
  <2>5. QED
    BY <1>0, <1>1, <1>2, <1>4, <2>1, <2>2, <2>3 DEF ResponseTakenTo, Onward
<1>8. SentKnown'
  <2>1. todo \in Routing => cstate = "done"
    BY <1>0 DEF StatesKnown
  <2>2. ((cstate = "done" /\ sstate = "uninitialized") =>
           passthrough \/ todo' \in Asked \cup Connecting \cup Killing)
    BY <1>0, <1>2 DEF SentKnown, Onward
  <2>3. ~(Sent /\ sstate = "uninitialized")
    BY <1>0 DEF SentKnown, Onward, Opens
  <2>4. /\ (cstate = "stream" \/ sstate \in {"consume", "stream"} \/ todo' \in Responding) => Sent
        /\ todo' \in Oversized => Sent
        /\ todo' \in ResponseHook \cup Finishing => Sent \/ cstate = "done"
    BY <1>0, <2>1 DEF SentKnown, Onward
  <2>5. (todo' \in {<< >>} \cup RequestErrorHook \cup AfterRequestError
           /\ cstate = "done" /\ ~Over(sstate)) => Sent \/ passthrough
    BY <1>0 DEF SentKnown, Onward
  <2>6. QED
    BY <1>0, <1>1, <1>2, <2>2, <2>3, <2>4, <2>5 DEF SentKnown
<1>9. ToldWhen' /\ ToldSoFar'
  BY <1>0, <1>1, <1>2, <1>3 DEF ToldWhen, ToldSoFar, Onward
<1>10. RequestChunks' /\ ResponseChunks'
  BY <1>0, <1>1, <1>2 DEF RequestChunks, ResponseChunks, Onward, Routing
<1>11. BodiesWhole'
  <2>1. todo \in ResponseHook => ~Told
    BY <1>0, <1>2, ResponseHookOnly DEF ToldWhen, StatesKnown, SentKnown, Early
  <2>2. ~Told => ~Has(toClient, "ResponseEnd")
    BY DEF Told, Unended, Terminal, Has
  <2>3. QED
    BY <1>0, <1>1, <2>1, <2>2 DEF BodiesWhole
<1>12. QED
  BY <1>4, <1>5, <1>6, <1>7, <1>8, <1>9, <1>10, <1>11 DEF MInv

-----------------------------------------------------------------------------
\* From the end of the headers of a response on, and the error that may be in their place.
Concerned == Headed \cup KillError \cup Killing \cup ResponseHook \cup Finishing

LEMMA GoesOnward ==
  ASSUME GoesOn \/ Decides \/ From(Ending, Ending),
         todo' \in Oversized => todo \in Oversized \cup Responding
  PROVE  Onward
<1>1. CASE From(Announced, Beginning)
  BY <1>1, AnnouncedOnly, BeginningOnly DEF From, Onward, Opens, Late
<1>2. CASE From(Invalid, KillError)
  BY <1>2, InvalidOnly, KillErrorOnly DEF From, Onward, Opens, Late
<1>3. CASE From(Asked, Connecting)
  BY <1>3, AskedOnly, ConnectingOnly DEF From, Onward, Opens, Late
<1>4. CASE From(Beginning, Opening)
  BY <1>4, BeginningOnly, OpeningOnly DEF From, Onward, Opens, Late
<1>5. CASE From(Beginning, KillError)
  BY <1>5, BeginningOnly, KillErrorOnly DEF From, Onward, Opens, Late
<1>6. CASE From(Beginning, RefusalError)
  BY <1>6, BeginningOnly, RefusalErrorOnly DEF From, Onward, Opens, Late
<1>7. CASE From(Opening, Opening)
  BY <1>7, OpeningOnly DEF From, Onward, Opens, Late
<1>8. CASE From(Opening, OpeningError)
  BY <1>8, OpeningOnly, OpeningErrorOnly DEF From, Onward, Opens, Late
<1>9. CASE From(Reopening, Reopening)
  BY <1>9, ReopeningOnly DEF From, Onward, Opens, Late
<1>10. CASE From(Reopening, OpeningError)
  BY <1>10, ReopeningOnly, OpeningErrorOnly DEF From, Onward, Opens, Late
<1>11. CASE From(Routing, Routing)
  BY <1>11, RoutingOnly DEF From, Onward, Opens, Late
<1>12. CASE From(Routing, ResponseErrorHook)
  BY <1>12, RoutingOnly, ResponseErrorHookOnly DEF From, Onward, Opens, Late
<1>13. CASE From(Routing, ResponseHook)
  BY <1>13, RoutingOnly, ResponseHookOnly DEF From, Onward, Opens, Late
<1>14. CASE From(Routing, KillError)
  BY <1>14, RoutingOnly, KillErrorOnly DEF From, Onward, Opens, Late
<1>15. CASE From(Connecting, Connecting)
  BY <1>15, ConnectingOnly DEF From, Onward, Opens, Late
<1>16. CASE From(Connecting, Killing)
  BY <1>16, ConnectingOnly, KillingOnly DEF From, Onward, Opens, Late
<1>17. CASE From(Responding, Responding)
  BY <1>17, RespondingOnly DEF From, Onward, Opens, Late
<1>18. CASE From(Responding, KillError)
  BY <1>18, RespondingOnly, KillErrorOnly DEF From, Onward, Opens, Late
<1>19. CASE From(ResponseHook, Finishing)
  BY <1>19, ResponseHookOnly, FinishingOnly DEF From, Onward, Opens, Late
<1>20. CASE From(OpeningError, OpeningFailed)
  BY <1>20, OpeningErrorOnly, OpeningFailedOnly DEF From, Onward, Opens, Late
<1>21. CASE From(RefusalError, Refusing)
  BY <1>21, RefusalErrorOnly, RefusingOnly DEF From, Onward, Opens, Late
<1>22. CASE From(KillError, Killing)
  BY <1>22, KillErrorOnly, KillingOnly DEF From, Onward, Opens, Late
<1>23. CASE From(RequestErrorHook, AfterRequestError)
  BY <1>23, RequestErrorHookOnly, AfterRequestErrorOnly DEF From, Onward, Opens, Late
<1>24. CASE From(ResponseErrorHook, AfterResponseError)
  BY <1>24, ResponseErrorHookOnly, AfterResponseErrorOnly DEF From, Onward, Opens, Late
<1>25. CASE From(Ending, Ending)
  BY <1>25, EndingOnly DEF From, Onward, Opens, Late
<1>26. QED
  BY <1>1, <1>2, <1>3, <1>4, <1>5, <1>6, <1>7, <1>8, <1>9, <1>10, <1>11, <1>12, <1>13,
     <1>14, <1>15, <1>16, <1>17, <1>18, <1>19, <1>20, <1>21, <1>22, <1>23, <1>24, <1>25
    DEF GoesOn, Decides

\* What a step that only moves on, but for an error hook, does not do.
Fits ==
  /\ todo' \in Oversized => todo \in Oversized \cup Responding
  /\ todo' # <<"request", "route_request">> /\ todo # <<"end_request">>
  /\ todo \in Concerned => todo' \in Concerned
  /\ todo' \in Headed \cup ResponseHook \cup Finishing =>
       todo \in Headed \cup ResponseHook \cup Finishing
  /\ todo \notin Finishing
  /\ todo' \in Unanswering => todo \in Unanswering /\ hooks' = hooks

LEMMA MovesAlong ==
  ASSUME IInv, MInv, Stays, GoesOn \/ Decides, Fits, HooksInOrder',
         Range(hooks) \subseteq Range(hooks'), Range(hooks') \subseteq Range(hooks) \cup {"error"}
  PROVE  MInv'
<1>1. HooksRun
  BY DEF MInv
<1>2. Onward
  BY GoesOnward DEF Fits
<1>3. UNCHANGED <<cstate, sstate>>
  BY DEF Stays
<1>4. /\ Has(hooks', "request") <=> Has(hooks, "request")
      /\ Has(hooks', "responseheaders") <=> Has(hooks, "responseheaders")
      /\ Has(hooks', "response") <=> Has(hooks, "response")
  BY DEF Has
<1>5. HooksRun'
  BY <1>1, <1>2, <1>3, <1>4 DEF HooksRun, Fits, Onward, Concerned
<1>6. QED
  BY <1>2, <1>4, <1>5, MoveKeeps

-----------------------------------------------------------------------------
(* The steps that only move on. *)

LEMMA WithoutHook ==
  ASSUME IInv, MInv, Stays, GoesOn, Fits, hooks' = hooks
  PROVE  MInv'
<1>1. HooksInOrder'
  BY DEF MInv, HooksInOrder, Has
<1>2. QED
  BY <1>1, MovesAlong

LEMMA Within ==
  /\ Headed \subseteq Responding \cup Routing /\ Oversized \subseteq KillError \cup Killing
  /\ Unanswering \subseteq Connecting
  /\ <<"request", "route_request">> \in Routing /\ <<"end_request">> \in Ending
BY DEF Headed, Responding, Routing, Oversized, KillError, Killing, Unanswering,
   Connecting, Ending

LEMMA ConnectedMoves ==
  ASSUME IInv, MInv, Connected
  PROVE  MInv'
<1>1. /\ Stays /\ hooks' = hooks /\ todo \in Programs /\ todo # << >>
      /\ todo \in {<<"get_connection", "stream_request", "expect_response">>,
                  <<"get_connection", "stream_request", "replay_request">>,
                  <<"get_connection", "forward_request">>,
                  <<"open_connection", "finish_connect">>}
  <2>1. todo \in Programs /\ todo # << >> /\ Head(todo) \in {"get_connection", "open_connection"}
    BY DEF IInv, ProgramsOnly, Connected, At
  <2>2. todo \in {<<"get_connection", "stream_request", "expect_response">>,
              <<"get_connection", "stream_request", "replay_request">>,
              <<"get_connection", "forward_request">>,
              <<"open_connection", "finish_connect">>}
    BY <2>1, Whereabouts
  <2>3. Stays /\ hooks' = hooks
    BY DEF Stays, Connected, states, sent, ends, peers
  <2>4. QED
    BY <2>1, <2>2, <2>3
<1>2. CASE todo = <<"get_connection", "stream_request", "expect_response">>
  <2>1. todo' = <<"stream_request", "expect_response">>
    BY <1>1, <1>2, Thens DEF Connected, Then
  <2>2. GoesOn
    BY <1>2, <2>1 DEF GoesOn, From, Opening
  <2>3. todo \in Opening /\ todo' \in Opening
    BY <1>2, <2>1 DEF Opening
  <2>4. Fits
    BY <2>3, Within, OpeningOnly DEF Fits, Concerned
  <2>5. QED
    BY <1>1, <2>2, <2>4, WithoutHook
<1>3. CASE todo = <<"get_connection", "stream_request", "replay_request">>
  <2>1. todo' = <<"stream_request", "replay_request">>
    BY <1>1, <1>3, Thens DEF Connected, Then
  <2>2. GoesOn
    BY <1>3, <2>1 DEF GoesOn, From, Reopening
  <2>3. todo \in Reopening /\ todo' \in Reopening
    BY <1>3, <2>1 DEF Reopening
  <2>4. Fits
    BY <2>3, Within, ReopeningOnly DEF Fits, Concerned
  <2>5. QED
    BY <1>1, <2>2, <2>4, WithoutHook
<1>4. CASE todo = <<"get_connection", "forward_request">>
  <2>1. todo' = <<"forward_request">>
    BY <1>1, <1>4, Thens DEF Connected, Then
  <2>2. GoesOn
    BY <1>4, <2>1 DEF GoesOn, From, Routing
  <2>3. Fits
    BY <1>4, <2>1
      DEF Fits, Oversized, Responding, Concerned, Headed, KillError, Killing,
          ResponseHook, Finishing, Unanswering, Connecting
  <2>4. QED
    BY <1>1, <2>2, <2>3, WithoutHook
<1>5. CASE todo = <<"open_connection", "finish_connect">>
  <2>1. todo' = <<"finish_connect">>
    BY <1>1, <1>5, Thens DEF Connected, Then
  <2>2. GoesOn
    BY <1>5, <2>1 DEF GoesOn, From, Connecting
  <2>3. todo \in Connecting /\ todo' \in Connecting /\ todo \in Unanswering
    BY <1>5, <2>1 DEF Connecting, Unanswering
  <2>4. Fits
    BY <1>1, <2>3, Within, ConnectingOnly DEF Fits, Concerned
  <2>5. QED
    BY <1>1, <2>2, <2>4, WithoutHook
<1>6. QED
  BY <1>1, <1>2, <1>3, <1>4, <1>5

LEMMA NotConnectedMoves ==
  ASSUME IInv, MInv, NotConnected
  PROVE  MInv'
<1>1. /\ Stays /\ hooks' = hooks /\ todo \in Programs /\ todo # << >>
      /\ todo \in {<<"get_connection", "stream_request", "expect_response">>,
                  <<"get_connection", "stream_request", "replay_request">>,
                  <<"get_connection", "forward_request">>,
                  <<"open_connection", "finish_connect">>}
  <2>1. todo \in Programs /\ todo # << >> /\ Head(todo) \in {"get_connection", "open_connection"}
    BY DEF IInv, ProgramsOnly, NotConnected, At
  <2>2. todo \in {<<"get_connection", "stream_request", "expect_response">>,
              <<"get_connection", "stream_request", "replay_request">>,
              <<"get_connection", "forward_request">>,
              <<"open_connection", "finish_connect">>}
    BY <2>1, Whereabouts
  <2>3. Stays /\ hooks' = hooks
    BY DEF Stays, NotConnected, states, sent, ends, peers
  <2>4. QED
    BY <2>1, <2>2, <2>3
<1>2. CASE todo = <<"get_connection", "stream_request", "expect_response">>
  <2>1. NeedErrorHook
    BY <1>1, <1>2 DEF IInv, StatesKnown, NeedErrorHook, Opening
  <2>2. todo' = <<"error", "close_after_ResponseError", "abandon_request", "expect_response">>
    BY <1>2, <2>1 DEF NotConnected, At, ErrorSteps, CloseAfterError
  <2>3. GoesOn
    BY <1>2, <2>1, <2>2 DEF GoesOn, From, Opening, OpeningError
  <2>4. todo \in Opening /\ todo' \in OpeningError
    BY <1>2, <2>1, <2>2 DEF Opening, OpeningError
  <2>5. Fits
    BY <2>4, Within, OpeningOnly, OpeningErrorOnly DEF Fits, Concerned
  <2>6. QED
    BY <1>1, <2>3, <2>5, WithoutHook
<1>3. CASE todo = <<"get_connection", "stream_request", "replay_request">>
  <2>1. NeedErrorHook
    BY <1>1, <1>3 DEF IInv, StatesKnown, NeedErrorHook, Reopening
  <2>2. todo' = <<"error", "close_after_ResponseError", "abandon_request", "replay_request">>
    BY <1>3, <2>1 DEF NotConnected, At, ErrorSteps, CloseAfterError
  <2>3. GoesOn
    BY <1>3, <2>1, <2>2 DEF GoesOn, From, Reopening, OpeningError
  <2>4. todo \in Reopening /\ todo' \in OpeningError
    BY <1>3, <2>1, <2>2 DEF Reopening, OpeningError
  <2>5. Fits
    BY <2>4, Within, ReopeningOnly, OpeningErrorOnly DEF Fits, Concerned
  <2>6. QED
    BY <1>1, <2>3, <2>5, WithoutHook
<1>4. CASE todo = <<"get_connection", "forward_request">>
  <2>1. NeedErrorHook
    BY <1>1, <1>4 DEF IInv, StatesKnown, NeedErrorHook, Routing
  <2>2. todo' = <<"error", "close_after_ResponseError">>
    BY <1>4, <2>1 DEF NotConnected, At, ErrorSteps, CloseAfterError
  <2>3. GoesOn
    BY <1>4, <2>1, <2>2 DEF GoesOn, From, Routing, ResponseErrorHook
  <2>4. Fits
    BY <1>4, <2>1, <2>2
      DEF Fits, Oversized, Responding, Concerned, Headed, KillError, Killing,
          ResponseHook, Finishing, Unanswering, Connecting
  <2>5. QED
    BY <1>1, <2>3, <2>4, WithoutHook
<1>5. CASE todo = <<"open_connection", "finish_connect">>
  <2>1. todo' = <<"finish_connect">>
    BY <1>1, <1>5, Thens DEF NotConnected, At, ErrorSteps, CloseAfterError, Then
  <2>2. GoesOn
    BY <1>5, <2>1 DEF GoesOn, From, Connecting
  <2>3. todo \in Connecting /\ todo' \in Connecting /\ todo \in Unanswering
    BY <1>5, <2>1 DEF Connecting, Unanswering
  <2>4. Fits
    BY <1>1, <2>3, Within, ConnectingOnly DEF Fits, Concerned
  <2>5. QED
    BY <1>1, <2>2, <2>4, WithoutHook
<1>6. QED
  BY <1>1, <1>2, <1>3, <1>4, <1>5

LEMMA KilledMoves ==
  ASSUME IInv, MInv, CheckKilled, ~At("finish_response")
  PROVE  MInv'
<1>1. /\ Stays /\ hooks' = hooks /\ todo \in Programs /\ todo # << >>
      /\ todo \in {<<"begin_request">>, <<"route_request">>, <<"inline_response">>,
                  <<"begin_response">>, <<"handle_connect">>}
  <2>1. todo \in Programs /\ todo # << >> /\ Head(todo) \in {"begin_request", "route_request", "inline_response", "begin_response", "handle_connect"}
    BY DEF IInv, ProgramsOnly, CheckKilled, At, Checked, CheckedLoudly, CheckedQuietly
  <2>2. todo \in {<<"begin_request">>, <<"route_request">>, <<"inline_response">>,
              <<"begin_response">>, <<"handle_connect">>}
    BY <2>1, Whereabouts
  <2>3. Stays /\ hooks' = hooks
    BY DEF Stays, CheckKilled, states, sent, ends, peers
  <2>4. QED
    BY <2>1, <2>2, <2>3
<1>2. CASE todo = <<"begin_request">>
  <2>1. todo' = <<"error", "kill">>
    BY <1>1, <1>2 DEF CheckKilled, KillSteps, CheckedLoudly
  <2>2. GoesOn
    BY <1>2, <2>1 DEF GoesOn, From, Beginning, KillError
  <2>3. todo \in Beginning /\ todo' \in KillError /\ todo' \notin Oversized
    BY <1>2, <2>1 DEF Beginning, KillError, Oversized
  <2>4. Fits
    BY <2>3, Within, BeginningOnly, KillErrorOnly DEF Fits, Concerned
  <2>5. QED
    BY <1>1, <2>2, <2>4, WithoutHook
<1>3. CASE todo = <<"route_request">>
  <2>1. todo' = <<"error", "kill">>
    BY <1>1, <1>3 DEF CheckKilled, KillSteps, CheckedLoudly
  <2>2. GoesOn
    BY <1>3, <2>1 DEF GoesOn, From, Routing, KillError
  <2>3. Fits
    BY <1>3, <2>1
      DEF Fits, Oversized, Responding, Concerned, Headed, KillError, Killing,
          ResponseHook, Finishing, Unanswering, Connecting
  <2>4. QED
    BY <1>1, <2>2, <2>3, WithoutHook
<1>4. CASE todo = <<"inline_response">>
  <2>1. todo' = <<"error", "kill">>
    BY <1>1, <1>4 DEF CheckKilled, KillSteps, CheckedLoudly
  <2>2. GoesOn
    BY <1>4, <2>1 DEF GoesOn, From, Routing, KillError
  <2>3. Fits
    BY <1>4, <2>1
      DEF Fits, Oversized, Responding, Concerned, Headed, KillError, Killing,
          ResponseHook, Finishing, Unanswering, Connecting
  <2>4. QED
    BY <1>1, <2>2, <2>3, WithoutHook
<1>5. CASE todo = <<"begin_response">>
  <2>1. todo' = <<"error", "kill">>
    BY <1>1, <1>5 DEF CheckKilled, KillSteps, CheckedLoudly
  <2>2. GoesOn
    BY <1>5, <2>1 DEF GoesOn, From, Responding, KillError
  <2>3. Fits
    BY <1>5, <2>1
      DEF Fits, Oversized, Responding, Concerned, Headed, KillError, Killing,
          ResponseHook, Finishing, Unanswering, Connecting
  <2>4. QED
    BY <1>1, <2>2, <2>3, WithoutHook
<1>6. CASE todo = <<"handle_connect">>
  <2>1. todo' = <<"kill">>
    BY <1>1, <1>6 DEF CheckKilled, KillSteps, CheckedLoudly
  <2>2. GoesOn
    BY <1>6, <2>1 DEF GoesOn, From, Connecting, Killing
  <2>3. todo \in Connecting /\ todo' \in Killing /\ todo' \notin Oversized
    BY <1>6, <2>1 DEF Connecting, Killing, Oversized
  <2>4. Fits
    BY <2>3, Within, ConnectingOnly, KillingOnly DEF Fits, Concerned
  <2>5. QED
    BY <1>1, <2>2, <2>4, WithoutHook
<1>7. QED
  BY <1>1, <1>2, <1>3, <1>4, <1>5, <1>6

LEMMA StreamingMoves ==
  ASSUME IInv, MInv, BeginRequest, "request" \in flow.stream \ bodyless
  PROVE  MInv'
<1>1. /\ Stays /\ hooks' = hooks /\ todo \in Programs /\ todo # << >>
      /\ todo \in {<<"begin_request">>}
  <2>1. todo \in Programs /\ todo # << >> /\ Head(todo) \in {"begin_request"}
    BY DEF IInv, ProgramsOnly, BeginRequest, Proceed, At
  <2>2. todo \in {<<"begin_request">>}
    BY <2>1, Whereabouts
  <2>3. Stays /\ hooks' = hooks
    BY DEF Stays, BeginRequest, states, sent, ends, peers
  <2>4. QED
    BY <2>1, <2>2, <2>3
<1>2. CASE todo = <<"begin_request">>
  <2>1. "request" \in flow.stream
    BY <1>1, <1>2 DEF BeginRequest
  <2>2. todo' = <<"get_connection", "stream_request", "expect_response">>
    BY <1>2 DEF BeginRequest, Then
  <2>3. GoesOn
    BY <1>2, <2>1, <2>2 DEF GoesOn, From, Beginning, Opening
  <2>4. todo \in Beginning /\ todo' \in Opening
    BY <1>2, <2>1, <2>2 DEF Beginning, Opening
  <2>5. Fits
    BY <2>4, Within, BeginningOnly, OpeningOnly DEF Fits, Concerned
  <2>6. QED
    BY <1>1, <2>3, <2>5, WithoutHook
<1>3. QED
  BY <1>1, <1>2

LEMMA RequestTooLargeMoves ==
  ASSUME IInv, MInv, RequestTooLarge
  PROVE  MInv'
<1>1. /\ Stays /\ hooks' = hooks /\ todo \in Programs /\ todo # << >>
      /\ todo \in {<<"request_too_large">>}
  <2>1. todo \in Programs /\ todo # << >> /\ Head(todo) \in {"request_too_large"}
    BY DEF IInv, ProgramsOnly, RequestTooLarge, At
  <2>2. todo \in {<<"request_too_large">>}
    BY <2>1, Whereabouts
  <2>3. Stays /\ hooks' = hooks
    BY DEF Stays, RequestTooLarge, states, sent, ends, peers
  <2>4. QED
    BY <2>1, <2>2, <2>3
<1>2. CASE todo = <<"request_too_large">>
  <2>1. todo' = <<"error", "refuse_request">>
    BY <1>1, <1>2 DEF RequestTooLarge
  <2>2. GoesOn
    BY <1>2, <2>1 DEF GoesOn, From, Beginning, RefusalError
  <2>3. todo \in Beginning /\ todo' \in RefusalError
    BY <1>2, <2>1 DEF Beginning, RefusalError
  <2>4. Fits
    BY <2>3, Within, BeginningOnly, RefusalErrorOnly DEF Fits, Concerned
  <2>5. QED
    BY <1>1, <2>2, <2>4, WithoutHook
<1>3. QED
  BY <1>1, <1>2

LEMMA RouteMoves ==
  ASSUME IInv, MInv, RouteRequest
  PROVE  MInv'
<1>1. /\ Stays /\ hooks' = hooks /\ todo \in Programs /\ todo # << >>
      /\ todo \in {<<"route_request">>}
      /\ todo' = <<"responseheaders", "inline_response">> \/ todo' = <<"get_connection", "forward_request">>
  <2>1. todo \in Programs /\ todo # << >> /\ Head(todo) \in {"route_request"}
    BY DEF IInv, ProgramsOnly, RouteRequest, Proceed, At
  <2>2. todo \in {<<"route_request">>}
    BY <2>1, Whereabouts
  <2>3. Stays /\ hooks' = hooks
    BY DEF Stays, RouteRequest, states, sent, ends, peers
  <2>4. todo' = <<"responseheaders", "inline_response">> \/ todo' = <<"get_connection", "forward_request">>
    BY <2>1, <2>2, Thens DEF RouteRequest, Then
  <2>5. QED
    BY <2>1, <2>2, <2>3, <2>4
<1>2. CASE todo = <<"route_request">> /\ todo' = <<"responseheaders", "inline_response">>
  <2>1. GoesOn
    BY <1>2 DEF GoesOn, From, Routing
  <2>2. Fits
    BY <1>2
      DEF Fits, Oversized, Responding, Concerned, Headed, KillError, Killing,
          ResponseHook, Finishing, Unanswering, Connecting
  <2>3. QED
    BY <1>1, <2>1, <2>2, WithoutHook
<1>3. CASE todo = <<"route_request">> /\ todo' = <<"get_connection", "forward_request">>
  <2>1. GoesOn
    BY <1>3 DEF GoesOn, From, Routing
  <2>2. Fits
    BY <1>3
      DEF Fits, Oversized, Responding, Concerned, Headed, KillError, Killing,
          ResponseHook, Finishing, Unanswering, Connecting
  <2>3. QED
    BY <1>1, <2>1, <2>2, WithoutHook
<1>4. QED
  BY <1>1, <1>2, <1>3

LEMMA ResponseTooLargeMoves ==
  ASSUME IInv, MInv, ResponseTooLarge
  PROVE  MInv'
<1>1. /\ Stays /\ hooks' = hooks /\ todo \in Programs /\ todo # << >>
      /\ todo \in {<<"response_too_large">>}
  <2>1. todo \in Programs /\ todo # << >> /\ Head(todo) \in {"response_too_large"}
    BY DEF IInv, ProgramsOnly, ResponseTooLarge, At
  <2>2. todo \in {<<"response_too_large">>}
    BY <2>1, Whereabouts
  <2>3. Stays /\ hooks' = hooks
    BY DEF Stays, ResponseTooLarge, states, sent, ends, peers
  <2>4. QED
    BY <2>1, <2>2, <2>3
<1>2. CASE todo = <<"response_too_large">>
  <2>1. todo' = <<"error", "refuse_response">>
    BY <1>1, <1>2 DEF ResponseTooLarge
  <2>2. GoesOn
    BY <1>2, <2>1 DEF GoesOn, From, Responding, KillError
  <2>3. Fits
    BY <1>2, <2>1
      DEF Fits, Oversized, Responding, Concerned, Headed, KillError, Killing,
          ResponseHook, Finishing, Unanswering, Connecting
  <2>4. QED
    BY <1>1, <2>2, <2>3, WithoutHook
<1>3. QED
  BY <1>1, <1>2

LEMMA InlineMoves ==
  ASSUME IInv, MInv, InlineResponse
  PROVE  MInv'
<1>1. /\ Stays /\ hooks' = hooks /\ todo \in Programs /\ todo # << >>
      /\ todo \in {<<"inline_response">>}
  <2>1. todo \in Programs /\ todo # << >> /\ Head(todo) \in {"inline_response"}
    BY DEF IInv, ProgramsOnly, InlineResponse, Proceed, At
  <2>2. todo \in {<<"inline_response">>}
    BY <2>1, Whereabouts
  <2>3. Stays /\ hooks' = hooks
    BY DEF Stays, InlineResponse, states, sent, ends, peers
  <2>4. QED
    BY <2>1, <2>2, <2>3
<1>2. CASE todo = <<"inline_response">>
  <2>1. todo' = <<"response", "finish_response">>
    BY <1>1, <1>2, AlonePair DEF InlineResponse, Then
  <2>2. GoesOn
    BY <1>2, <2>1 DEF GoesOn, From, Routing, ResponseHook
  <2>3. Fits
    BY <1>2, <2>1
      DEF Fits, Oversized, Responding, Concerned, Headed, KillError, Killing,
          ResponseHook, Finishing, Unanswering, Connecting
  <2>4. QED
    BY <1>1, <2>2, <2>3, WithoutHook
<1>3. QED
  BY <1>1, <1>2

LEMMA HandleConnectMoves ==
  ASSUME IInv, MInv, HandleConnect
  PROVE  MInv'
<1>1. /\ Stays /\ hooks' = hooks /\ todo \in Programs /\ todo # << >>
      /\ todo \in {<<"handle_connect">>}
      /\ todo' = <<"open_connection", "finish_connect">> \/ todo' = <<"finish_connect">>
  <2>1. todo \in Programs /\ todo # << >> /\ Head(todo) \in {"handle_connect"}
    BY DEF IInv, ProgramsOnly, HandleConnect, Proceed, At
  <2>2. todo \in {<<"handle_connect">>}
    BY <2>1, Whereabouts
  <2>3. Stays /\ hooks' = hooks
    BY DEF Stays, HandleConnect, states, sent, ends, peers
  <2>4. todo' = <<"open_connection", "finish_connect">> \/ todo' = <<"finish_connect">>
    BY <2>1, <2>2, Thens DEF HandleConnect, Then
  <2>5. QED
    BY <2>1, <2>2, <2>3, <2>4
<1>2. CASE todo = <<"handle_connect">> /\ todo' = <<"open_connection", "finish_connect">>
  <2>1. GoesOn
    BY <1>2 DEF GoesOn, From, Connecting
  <2>2. todo \in Connecting /\ todo' \in Connecting /\ todo \in Unanswering
    BY <1>2 DEF Connecting, Unanswering
  <2>3. Fits
    BY <1>1, <2>2, Within, ConnectingOnly DEF Fits, Concerned
  <2>4. QED
    BY <1>1, <2>1, <2>3, WithoutHook
<1>3. CASE todo = <<"handle_connect">> /\ todo' = <<"finish_connect">>
  <2>1. GoesOn
    BY <1>3 DEF GoesOn, From, Connecting
  <2>2. todo \in Connecting /\ todo' \in Connecting /\ todo \in Unanswering
    BY <1>3 DEF Connecting, Unanswering
  <2>3. Fits
    BY <1>1, <2>2, Within, ConnectingOnly DEF Fits, Concerned
  <2>4. QED
    BY <1>1, <2>1, <2>3, WithoutHook
<1>4. QED
  BY <1>1, <1>2, <1>3

LEMMA FinishConnectMoves ==
  ASSUME IInv, MInv, FinishConnect
  PROVE  MInv'
<1>1. /\ Stays /\ hooks' = hooks /\ todo \in Programs /\ todo # << >>
      /\ todo \in {<<"finish_connect">>}
      /\ todo' = <<"http_connected", "tunnel">> \/ todo' = <<"http_connect_error", "refuse_connect">>
  <2>1. todo \in Programs /\ todo # << >> /\ Head(todo) \in {"finish_connect"}
    BY DEF IInv, ProgramsOnly, FinishConnect, At
  <2>2. todo \in {<<"finish_connect">>}
    BY <2>1, Whereabouts
  <2>3. Stays /\ hooks' = hooks
    BY DEF Stays, FinishConnect, states, sent, ends, peers
  <2>4. todo' = <<"http_connected", "tunnel">> \/ todo' = <<"http_connect_error", "refuse_connect">>
    BY <2>1, <2>2, Thens DEF FinishConnect, Then
  <2>5. QED
    BY <2>1, <2>2, <2>3, <2>4
<1>2. CASE todo = <<"finish_connect">> /\ todo' = <<"http_connected", "tunnel">>
  <2>1. GoesOn
    BY <1>2 DEF GoesOn, From, Connecting
  <2>2. todo \in Connecting /\ todo' \in Connecting /\ todo \in Unanswering
    BY <1>2 DEF Connecting, Unanswering
  <2>3. Fits
    BY <1>1, <2>2, Within, ConnectingOnly DEF Fits, Concerned
  <2>4. QED
    BY <1>1, <2>1, <2>3, WithoutHook
<1>3. CASE todo = <<"finish_connect">> /\ todo' = <<"http_connect_error", "refuse_connect">>
  <2>1. GoesOn
    BY <1>3 DEF GoesOn, From, Connecting
  <2>2. todo \in Connecting /\ todo' \in Connecting /\ todo \in Unanswering
    BY <1>3 DEF Connecting, Unanswering
  <2>3. Fits
    BY <1>1, <2>2, Within, ConnectingOnly DEF Fits, Concerned
  <2>4. QED
    BY <1>1, <2>1, <2>3, WithoutHook
<1>4. QED
  BY <1>1, <1>2, <1>3

-----------------------------------------------------------------------------
(* The hooks. *)

\* A hook h has run, and nothing else has changed.
Ran(h) ==
  /\ Stays /\ hooks \in Seq(Hooks) /\ hooks' = Append(hooks, h)
  /\ hooks' \in Seq(Hooks) /\ Range(hooks') = Range(hooks) \cup {h}

LEMMA HookEnding ==
  ASSUME IInv, HookEnds
  PROVE  /\ Ran(Head(todo)) /\ todo' = Tail(todo)
         /\ todo \in {<<"requestheaders", "begin_request">>,
                     <<"requestheaders", "request_too_large">>,
                     <<"requestheaders", "error", "reject">>,
                     <<"http_connect", "handle_connect">>,
                     <<"request", "route_request">>, <<"request", "end_request">>,
                     <<"responseheaders", "inline_response">>,
                     <<"responseheaders", "begin_response">>,
                     <<"responseheaders", "response_too_large">>,
                     <<"response", "finish_response">>, <<"http_connected", "tunnel">>,
                     <<"http_connect_error", "refuse_connect">>,
                     <<"error", "close_after_ResponseError", "abandon_request", "expect_response">>,
                     <<"error", "close_after_ResponseError", "abandon_request", "replay_request">>,
                     <<"error", "refuse_request">>, <<"error", "kill">>,
                     <<"error", "reject">>, <<"error", "refuse_response">>,
                     <<"error", "close_after_RequestError">>,
                     <<"error", "close_after_ResponseError">>}
<1>1. /\ todo \in Programs /\ todo # << >> /\ Head(todo) \in Hooks
      /\ hooks \in Seq(Hooks)
  BY DEF IInv, TypeOK, ProgramsOnly, HookEnds
<1>2. Ran(Head(todo)) /\ todo' = Tail(todo)
  BY <1>1, HookRuns DEF HookEnds, Ran, Stays, states, sent, ends, peers
<1>3. Head(todo) \in {"requestheaders", "request", "responseheaders", "response", "error",
                      "http_connect", "http_connected", "http_connect_error"}
  BY <1>1 DEF Hooks
<1>4. todo \in {<<"requestheaders", "begin_request">>,
            <<"requestheaders", "request_too_large">>,
            <<"requestheaders", "error", "reject">>,
            <<"http_connect", "handle_connect">>, <<"request", "route_request">>,
            <<"request", "end_request">>, <<"responseheaders", "inline_response">>,
            <<"responseheaders", "begin_response">>,
            <<"responseheaders", "response_too_large">>,
            <<"response", "finish_response">>, <<"http_connected", "tunnel">>,
            <<"http_connect_error", "refuse_connect">>,
            <<"error", "close_after_ResponseError", "abandon_request", "expect_response">>,
            <<"error", "close_after_ResponseError", "abandon_request", "replay_request">>,
            <<"error", "refuse_request">>, <<"error", "kill">>, <<"error", "reject">>,
            <<"error", "refuse_response">>, <<"error", "close_after_RequestError">>,
            <<"error", "close_after_ResponseError">>}
  BY <1>1, <1>3, Whereabouts
<1>5. QED
  BY <1>2, <1>4

\* An error hook only goes on with what follows it.
LEMMA ErrorHookInv ==
  ASSUME IInv, MInv, Ran("error"), Decides, Fits
  PROVE  MInv'
<1>1. HooksInOrder'
  BY HookInOrder DEF MInv, Ran, Hooks
<1>2. QED
  BY <1>1, MovesAlong DEF Ran

\* Another hook has not run before.
LEMMA HookInv ==
  ASSUME IInv, MInv, NEW h \in Hooks \ {"error"}, Ran(h), ~Has(hooks, h),
         GoesOn \/ Decides \/ From(Ending, Ending),
         todo' \in Oversized => todo \in Oversized \cup Responding,
         h = "requestheaders" => hooks = << >>,
         h = "responseheaders" => ~Has(hooks, "response"),
         h = "response" => Has(hooks, "responseheaders") /\ todo \in ResponseHook,
         HooksRun'
  PROVE  MInv'
<1>1. HooksInOrder'
  BY HookInOrder DEF MInv, Ran
<1>2. Has(hooks', "response") => Has(hooks, "response") \/ todo \in ResponseHook
  BY DEF Ran, Has
<1>3. QED
  BY <1>1, <1>2, GoesOnward, MoveKeeps DEF Ran

LEMMA HookMoves ==
  ASSUME IInv, MInv, HookEnds
  PROVE  MInv'
<1>1. /\ Ran(Head(todo)) /\ todo' = Tail(todo)
      /\ todo \in {<<"requestheaders", "begin_request">>,
                  <<"requestheaders", "request_too_large">>,
                  <<"requestheaders", "error", "reject">>,
                  <<"http_connect", "handle_connect">>, <<"request", "route_request">>,
                  <<"request", "end_request">>,
                  <<"responseheaders", "inline_response">>,
                  <<"responseheaders", "begin_response">>,
                  <<"responseheaders", "response_too_large">>,
                  <<"response", "finish_response">>, <<"http_connected", "tunnel">>,
                  <<"http_connect_error", "refuse_connect">>,
                  <<"error", "close_after_ResponseError", "abandon_request", "expect_response">>,
                  <<"error", "close_after_ResponseError", "abandon_request", "replay_request">>,
                  <<"error", "refuse_request">>, <<"error", "kill">>,
                  <<"error", "reject">>, <<"error", "refuse_response">>,
                  <<"error", "close_after_RequestError">>,
                  <<"error", "close_after_ResponseError">>}
  BY HookEnding
<1>2. HooksRun /\ StatesKnown /\ AtFirst /\ hooks \in Seq(Hooks)
  BY DEF IInv, MInv, TypeOK
<1>3. UNCHANGED <<cstate, sstate>> /\ Range(hooks') = Range(hooks) \cup {Head(todo)}
  BY <1>1 DEF Ran, Stays
<1>4. CASE todo = <<"requestheaders", "begin_request">>
  <2>1. Head(todo) = "requestheaders" /\ todo' = <<"begin_request">>
    BY <1>1, <1>4
  <2>2. /\ todo \in Announced /\ todo' \in Beginning /\ todo' \notin Oversized
    BY <1>4, <2>1 DEF Announced, Beginning, Oversized
  <2>3. GoesOn
    BY <2>2 DEF From, GoesOn
  <2>4. hooks = << >>
    BY <1>2, <2>2 DEF HooksRun, AtFirst
  <2>5. ~Has(hooks, "requestheaders")
    BY <2>4, RangeEmpty DEF Has
  <2>6. HooksRun'
    BY <1>2, <1>3, <1>4, <2>2, <2>4, Within, RangeEmpty, BeginningOnly
      DEF HooksRun, StatesKnown, Early, Over, Has, Opens
  <2>7. QED
    BY <1>1, <2>1, <2>2, <2>3, <2>4, <2>5, <2>6, HookInv DEF Hooks
<1>5. CASE todo = <<"requestheaders", "request_too_large">>
  <2>1. Head(todo) = "requestheaders" /\ todo' = <<"request_too_large">>
    BY <1>1, <1>5
  <2>2. /\ todo \in Announced /\ todo' \in Beginning /\ todo' \notin Oversized
    BY <1>5, <2>1 DEF Announced, Beginning, Oversized
  <2>3. GoesOn
    BY <2>2 DEF From, GoesOn
  <2>4. hooks = << >>
    BY <1>2, <2>2 DEF HooksRun, AtFirst
  <2>5. ~Has(hooks, "requestheaders")
    BY <2>4, RangeEmpty DEF Has
  <2>6. HooksRun'
    BY <1>2, <1>3, <1>5, <2>2, <2>4, Within, RangeEmpty, BeginningOnly
      DEF HooksRun, StatesKnown, Early, Over, Has, Opens
  <2>7. QED
    BY <1>1, <2>1, <2>2, <2>3, <2>4, <2>5, <2>6, HookInv DEF Hooks
<1>6. CASE todo = <<"requestheaders", "error", "reject">>
  <2>1. Head(todo) = "requestheaders" /\ todo' = <<"error", "reject">>
    BY <1>1, <1>6
  <2>2. /\ todo \in Invalid /\ todo' \in KillError /\ todo' \notin Oversized
    BY <1>6, <2>1 DEF Invalid, KillError, Oversized
  <2>3. GoesOn
    BY <2>2 DEF From, GoesOn
  <2>4. hooks = << >>
    BY <1>2, <2>2 DEF HooksRun, AtFirst
  <2>5. ~Has(hooks, "requestheaders")
    BY <2>4, RangeEmpty DEF Has
  <2>6. HooksRun'
    BY <1>2, <1>3, <1>6, <2>2, Within, KillErrorOnly
      DEF HooksRun, StatesKnown, Early, Over, Has, Opens
  <2>7. QED
    BY <1>1, <2>1, <2>2, <2>3, <2>4, <2>5, <2>6, HookInv DEF Hooks
<1>7. CASE todo = <<"http_connect", "handle_connect">>
  <2>1. Head(todo) = "http_connect" /\ todo' = <<"handle_connect">>
    BY <1>1, <1>7
  <2>2. /\ todo \in Asked /\ todo' \in Connecting /\ todo' \notin Oversized
    BY <1>7, <2>1 DEF Asked, Connecting, Oversized
  <2>3. GoesOn
    BY <2>2 DEF From, GoesOn
  <2>4. hooks = << >>
    BY <1>2, <2>2 DEF HooksRun, AtFirst
  <2>5. ~Has(hooks, "http_connect")
    BY <2>4, RangeEmpty DEF Has
  <2>6. HooksRun'
    BY <1>2, <1>3, <1>7, <2>2, <2>4, Within, RangeEmpty, ConnectingOnly
      DEF HooksRun, StatesKnown, Early, Over, Has, Opens
  <2>7. QED
    BY <1>1, <2>1, <2>2, <2>3, <2>5, <2>6, HookInv DEF Hooks
<1>8. CASE todo = <<"request", "route_request">>
  <2>1. Head(todo) = "request" /\ todo' = <<"route_request">>
    BY <1>1, <1>8
  <2>2. /\ todo \in Routing /\ todo' \in Routing /\ todo' \notin Oversized
        /\ todo \notin Headed
        /\ todo' \notin Headed
        /\ todo # <<"end_request">> /\ todo' # <<"request", "route_request">>
    BY <1>8, <2>1 DEF Routing, Oversized, Headed
  <2>3. GoesOn
    BY <2>2 DEF From, GoesOn
  <2>4. ~Has(hooks, "request")
    BY <1>2, <1>8 DEF HooksRun
  <2>5. ~Has(hooks, "request")
    BY <2>4, RangeEmpty DEF Has
  <2>6. HooksRun'
    BY <1>2, <1>3, <1>8, <2>2, Within, RoutingOnly
      DEF HooksRun, StatesKnown, Early, Over, Has, Opens
  <2>7. QED
    BY <1>1, <2>1, <2>2, <2>3, <2>4, <2>6, HookInv DEF Hooks
<1>9. CASE todo = <<"request", "end_request">>
  <2>1. Head(todo) = "request" /\ todo' = <<"end_request">>
    BY <1>1, <1>9
  <2>2. /\ todo \in Ending /\ todo' \in Ending /\ todo' \notin Oversized
        /\ todo # <<"end_request">>
    BY <1>9, <2>1 DEF Ending, Oversized
  <2>3. From(Ending, Ending)
    BY <2>2 DEF From
  <2>4. ~Has(hooks, "request")
    BY <1>2, <1>9 DEF HooksRun, StatesKnown, Ending
  <2>5. ~Has(hooks, "request")
    BY <2>4, RangeEmpty DEF Has
  <2>6. HooksRun'
    BY <1>2, <1>3, <2>1, <2>2, Within, EndingOnly
      DEF HooksRun, StatesKnown, Early, Over, Has, Opens
  <2>7. QED
    BY <1>1, <2>1, <2>2, <2>3, <2>4, <2>6, HookInv DEF Hooks
<1>10. CASE todo = <<"responseheaders", "inline_response">>
  <2>1. Head(todo) = "responseheaders" /\ todo' = <<"inline_response">>
    BY <1>1, <1>10
  <2>2. /\ todo \in Routing /\ todo' \in Routing /\ todo' \notin Oversized
        /\ todo \notin Headed
        /\ todo # <<"end_request">> /\ todo' # <<"request", "route_request">>
        /\ todo' \in Headed
    BY <1>10, <2>1 DEF Routing, Oversized, Headed
  <2>3. GoesOn
    BY <2>2 DEF From, GoesOn
  <2>4. ~Has(hooks, "responseheaders") /\ ~Has(hooks, "response")
    BY <1>2, <2>2, RoutingOnly DEF HooksRun, StatesKnown, Early, Over
  <2>5. ~Has(hooks, "responseheaders")
    BY <2>4, RangeEmpty DEF Has
  <2>6. HooksRun'
    BY <1>2, <1>3, <1>10, <2>2, Within, RoutingOnly
      DEF HooksRun, StatesKnown, Early, Over, Has, Opens
  <2>7. QED
    BY <1>1, <2>1, <2>2, <2>3, <2>4, <2>6, HookInv DEF Hooks
<1>11. CASE todo = <<"responseheaders", "begin_response">>
  <2>1. Head(todo) = "responseheaders" /\ todo' = <<"begin_response">>
    BY <1>1, <1>11
  <2>2. /\ todo \in Responding /\ todo' \in Responding /\ todo' \notin Oversized
        /\ todo # <<"end_request">> /\ todo' # <<"request", "route_request">>
        /\ todo' \in Headed
        /\ todo \notin Headed
    BY <1>11, <2>1 DEF Responding, Oversized, Headed
  <2>3. GoesOn
    BY <2>2 DEF From, GoesOn
  <2>4. ~Has(hooks, "responseheaders") /\ ~Has(hooks, "response")
    BY <1>2, <2>2, RespondingOnly DEF HooksRun, StatesKnown, Early, Over
  <2>5. ~Has(hooks, "responseheaders")
    BY <2>4, RangeEmpty DEF Has
  <2>6. HooksRun'
    BY <1>2, <1>3, <1>11, <2>2, Within, RespondingOnly
      DEF HooksRun, StatesKnown, Early, Over, Has, Opens
  <2>7. QED
    BY <1>1, <2>1, <2>2, <2>3, <2>4, <2>6, HookInv DEF Hooks
<1>12. CASE todo = <<"responseheaders", "response_too_large">>
  <2>1. Head(todo) = "responseheaders" /\ todo' = <<"response_too_large">>
    BY <1>1, <1>12
  <2>2. /\ todo \in Responding /\ todo' \in Responding /\ todo' \notin Oversized
        /\ todo # <<"end_request">> /\ todo' # <<"request", "route_request">>
        /\ todo' \in Headed
        /\ todo \notin Headed
    BY <1>12, <2>1 DEF Responding, Oversized, Headed
  <2>3. GoesOn
    BY <2>2 DEF From, GoesOn
  <2>4. ~Has(hooks, "responseheaders") /\ ~Has(hooks, "response")
    BY <1>2, <2>2, RespondingOnly DEF HooksRun, StatesKnown, Early, Over
  <2>5. ~Has(hooks, "responseheaders")
    BY <2>4, RangeEmpty DEF Has
  <2>6. HooksRun'
    BY <1>2, <1>3, <1>12, <2>2, Within, RespondingOnly
      DEF HooksRun, StatesKnown, Early, Over, Has, Opens
  <2>7. QED
    BY <1>1, <2>1, <2>2, <2>3, <2>4, <2>6, HookInv DEF Hooks
<1>13. CASE todo = <<"response", "finish_response">>
  <2>1. Head(todo) = "response" /\ todo' = <<"finish_response">>
    BY <1>1, <1>13
  <2>2. /\ todo \in ResponseHook /\ todo' \in Finishing /\ todo' \notin Oversized
    BY <1>13, <2>1 DEF ResponseHook, Finishing, Oversized
  <2>3. Decides
    BY <2>2 DEF From, Decides
  <2>4. ~Has(hooks, "response") /\ Has(hooks, "responseheaders")
    BY <1>2, <2>2, ResponseHookOnly DEF HooksRun, StatesKnown, Over
  <2>5. ~Has(hooks, "response")
    BY <2>4, RangeEmpty DEF Has
  <2>6. HooksRun'
    BY <1>2, <1>3, <1>13, <2>2, Within, FinishingOnly
      DEF HooksRun, StatesKnown, Early, Over, Has, Opens
  <2>7. QED
    BY <1>1, <2>1, <2>2, <2>3, <2>4, <2>6, HookInv DEF Hooks
<1>14. CASE todo = <<"http_connected", "tunnel">>
  <2>1. Head(todo) = "http_connected" /\ todo' = <<"tunnel">>
    BY <1>1, <1>14
  <2>2. /\ todo \in Connecting /\ todo' \in Connecting /\ todo' \notin Oversized
        /\ todo \in Unanswering /\ todo' \notin Unanswering
    BY <1>14, <2>1 DEF Connecting, Oversized, Unanswering
  <2>3. GoesOn
    BY <2>2 DEF From, GoesOn
  <2>4. Range(hooks) \subseteq {"http_connect"}
    BY <1>2, <2>2 DEF HooksRun
  <2>5. ~Has(hooks, "http_connected")
    BY <2>4, RangeEmpty DEF Has
  <2>6. HooksRun'
    BY <1>2, <1>3, <1>14, <2>2, Within, ConnectingOnly
      DEF HooksRun, StatesKnown, Early, Over, Has, Opens
  <2>7. QED
    BY <1>1, <2>1, <2>2, <2>3, <2>5, <2>6, HookInv DEF Hooks
<1>15. CASE todo = <<"http_connect_error", "refuse_connect">>
  <2>1. Head(todo) = "http_connect_error" /\ todo' = <<"refuse_connect">>
    BY <1>1, <1>15
  <2>2. /\ todo \in Connecting /\ todo' \in Connecting /\ todo' \notin Oversized
        /\ todo \in Unanswering /\ todo' \notin Unanswering
    BY <1>15, <2>1 DEF Connecting, Oversized, Unanswering
  <2>3. GoesOn
    BY <2>2 DEF From, GoesOn
  <2>4. Range(hooks) \subseteq {"http_connect"}
    BY <1>2, <2>2 DEF HooksRun
  <2>5. ~Has(hooks, "http_connect_error")
    BY <2>4, RangeEmpty DEF Has
  <2>6. HooksRun'
    BY <1>2, <1>3, <1>15, <2>2, Within, ConnectingOnly
      DEF HooksRun, StatesKnown, Early, Over, Has, Opens
  <2>7. QED
    BY <1>1, <2>1, <2>2, <2>3, <2>5, <2>6, HookInv DEF Hooks
<1>16. CASE todo = <<"error", "close_after_ResponseError", "abandon_request", "expect_response">>
  <2>1. Head(todo) = "error" /\ todo' = <<"close_after_ResponseError", "abandon_request", "expect_response">>
    BY <1>1, <1>16
  <2>2. todo \in OpeningError /\ todo' \in OpeningFailed /\ (todo' \in Oversized => todo \in Oversized)
    BY <1>16, <2>1 DEF OpeningError, OpeningFailed, Oversized
  <2>3. Decides
    BY <2>2 DEF From, Decides
  <2>4. Fits
    BY <2>2, Within, OpeningErrorOnly, OpeningFailedOnly DEF Fits, Concerned
  <2>5. QED
    BY <1>1, <2>1, <2>3, <2>4, ErrorHookInv
<1>17. CASE todo = <<"error", "close_after_ResponseError", "abandon_request", "replay_request">>
  <2>1. Head(todo) = "error" /\ todo' = <<"close_after_ResponseError", "abandon_request", "replay_request">>
    BY <1>1, <1>17
  <2>2. todo \in OpeningError /\ todo' \in OpeningFailed /\ (todo' \in Oversized => todo \in Oversized)
    BY <1>17, <2>1 DEF OpeningError, OpeningFailed, Oversized
  <2>3. Decides
    BY <2>2 DEF From, Decides
  <2>4. Fits
    BY <2>2, Within, OpeningErrorOnly, OpeningFailedOnly DEF Fits, Concerned
  <2>5. QED
    BY <1>1, <2>1, <2>3, <2>4, ErrorHookInv
<1>18. CASE todo = <<"error", "refuse_request">>
  <2>1. Head(todo) = "error" /\ todo' = <<"refuse_request">>
    BY <1>1, <1>18
  <2>2. todo \in RefusalError /\ todo' \in Refusing /\ (todo' \in Oversized => todo \in Oversized)
    BY <1>18, <2>1 DEF RefusalError, Refusing, Oversized
  <2>3. Decides
    BY <2>2 DEF From, Decides
  <2>4. Fits
    BY <2>2, Within, RefusalErrorOnly, RefusingOnly DEF Fits, Concerned
  <2>5. QED
    BY <1>1, <2>1, <2>3, <2>4, ErrorHookInv
<1>19. CASE todo = <<"error", "kill">>
  <2>1. Head(todo) = "error" /\ todo' = <<"kill">>
    BY <1>1, <1>19
  <2>2. todo \in KillError /\ todo' \in Killing /\ (todo' \in Oversized => todo \in Oversized)
    BY <1>19, <2>1 DEF KillError, Killing, Oversized
  <2>3. Decides
    BY <2>2 DEF From, Decides
  <2>4. Fits
    BY <2>2, Within, KillErrorOnly, KillingOnly DEF Fits, Concerned
  <2>5. QED
    BY <1>1, <2>1, <2>3, <2>4, ErrorHookInv
<1>20. CASE todo = <<"error", "reject">>
  <2>1. Head(todo) = "error" /\ todo' = <<"reject">>
    BY <1>1, <1>20
  <2>2. todo \in KillError /\ todo' \in Killing /\ (todo' \in Oversized => todo \in Oversized)
    BY <1>20, <2>1 DEF KillError, Killing, Oversized
  <2>3. Decides
    BY <2>2 DEF From, Decides
  <2>4. Fits
    BY <2>2, Within, KillErrorOnly, KillingOnly DEF Fits, Concerned
  <2>5. QED
    BY <1>1, <2>1, <2>3, <2>4, ErrorHookInv
<1>21. CASE todo = <<"error", "refuse_response">>
  <2>1. Head(todo) = "error" /\ todo' = <<"refuse_response">>
    BY <1>1, <1>21
  <2>2. todo \in KillError /\ todo' \in Killing /\ (todo' \in Oversized => todo \in Oversized)
    BY <1>21, <2>1 DEF KillError, Killing, Oversized
  <2>3. Decides
    BY <2>2 DEF From, Decides
  <2>4. Fits
    BY <2>2, Within, KillErrorOnly, KillingOnly DEF Fits, Concerned
  <2>5. QED
    BY <1>1, <2>1, <2>3, <2>4, ErrorHookInv
<1>22. CASE todo = <<"error", "close_after_RequestError">>
  <2>1. Head(todo) = "error" /\ todo' = <<"close_after_RequestError">>
    BY <1>1, <1>22
  <2>2. todo \in RequestErrorHook /\ todo' \in AfterRequestError /\ (todo' \in Oversized => todo \in Oversized)
    BY <1>22, <2>1 DEF RequestErrorHook, AfterRequestError, Oversized
  <2>3. Decides
    BY <2>2 DEF From, Decides
  <2>4. Fits
    BY <2>2, Within, RequestErrorHookOnly, AfterRequestErrorOnly DEF Fits, Concerned
  <2>5. QED
    BY <1>1, <2>1, <2>3, <2>4, ErrorHookInv
<1>23. CASE todo = <<"error", "close_after_ResponseError">>
  <2>1. Head(todo) = "error" /\ todo' = <<"close_after_ResponseError">>
    BY <1>1, <1>23
  <2>2. todo \in ResponseErrorHook /\ todo' \in AfterResponseError /\ (todo' \in Oversized => todo \in Oversized)
    BY <1>23, <2>1 DEF ResponseErrorHook, AfterResponseError, Oversized
  <2>3. Decides
    BY <2>2 DEF From, Decides
  <2>4. Fits
    BY <2>2, Within, ResponseErrorHookOnly, AfterResponseErrorOnly DEF Fits, Concerned
  <2>5. QED
    BY <1>1, <2>1, <2>3, <2>4, ErrorHookInv
<1>24. QED
  BY <1>1, <1>4, <1>5, <1>6, <1>7, <1>8, <1>9, <1>10, <1>11, <1>12, <1>13, <1>14, <1>15,
     <1>16, <1>17, <1>18, <1>19, <1>20, <1>21, <1>22, <1>23

-----------------------------------------------------------------------------
(* The peers. *)

\* All but the queue and what is known of the peers stays.
Listens ==
  /\ UNCHANGED <<cstate, sstate, flow, body, todo, toClient, toServer, hooks>>
  /\ UNCHANGED <<dropped, passthrough, bodyless>>

LEMMA Listening ==
  ASSUME HooksInOrder, HooksRun, Listens
  PROVE  /\ HooksInOrder' /\ HooksRun' /\ (Sent' <=> Sent) /\ (Told' <=> Told)
         /\ toServer' = toServer /\ toClient' = toClient
<1>1. UNCHANGED <<cstate, sstate, todo, toClient, toServer, hooks>>
  BY DEF Listens
<1>2. HooksInOrder' /\ HooksRun'
  BY <1>1 DEF HooksInOrder, HooksRun, Has, Early, Over
<1>3. QED
  BY <1>1, <1>2 DEF Sent, Told, Has

LEMMA ClientSendsInv ==
  ASSUME IInv, MInv, NEW e, NEW from, NEW to, ClientSends(e, from, to),
         e \in RequestEvents \cup {"RequestError"},
         e \in RequestEvents => from \cap {"ended", "gone"} = {},
         "gone" \notin from, "idle" \in from => e = "RequestHeaders",
         e = "RequestHeaders" => from = {"idle"},
         e = "RequestEnd" => to = "ended", e = "RequestError" => to = "gone", to # "idle",
         chunks'["response"] = chunks["response"],
         e = "RequestData" => chunks'["request"] = chunks["request"] + 1,
         e # "RequestData" => chunks'["request"] = chunks["request"]
  PROVE  MInv'
<1>0. /\ TypeOK /\ StatesKnown /\ SentLater /\ AtFirst
      /\ HooksInOrder /\ HooksRun
      /\ PeersAhead /\ RequestDrained /\ ResponseTakenTo /\ SentKnown
      /\ MessagesInOrder /\ ToldWhen /\ ToldSoFar /\ SentSoFar
      /\ BodiesWhole /\ RequestChunks /\ ResponseChunks
  BY DEF IInv, MInv
<1>1. /\ Listens /\ client \in from /\ client' = to /\ server' = server
      /\ queue' = Append(queue, e)
  BY DEF ClientSends, Arrive, Received, Listens, states, sent, ends
<1>2. /\ UNCHANGED <<cstate, sstate, body, todo, toClient, toServer, hooks, passthrough>>
      /\ HooksInOrder' /\ HooksRun' /\ (Sent' <=> Sent) /\ (Told' <=> Told)
  BY <1>0, <1>1, Listening DEF Listens
<1>3. queue \in Seq(Events) /\ e \in Events /\ Range(queue') = Range(queue) \cup {e}
  BY <1>0, <1>1, Putting DEF TypeOK, Events, RequestEvents, Errors
<1>4. /\ \A f \in ResponseEvents \cup {"ResponseError"} : Has(queue', f) <=> Has(queue, f)
      /\ Responded(queue') <=> Responded(queue)
  BY <1>3 DEF Has, Responded, RequestEvents, ResponseEvents
<1>5. /\ \A f : f # e => (Has(queue', f) <=> Has(queue, f))
      /\ Requested(queue') => Requested(queue) \/ e \in RequestEvents
      /\ ClientOver => ClientOver' /\ e \notin RequestEvents
  BY <1>1, <1>3 DEF Has, Requested, ClientOver
<1>6. QueueOrdered(queue')
  <2>1. e \in RequestEvents => ~Has(queue, "RequestEnd")
    BY <1>0, <1>5 DEF PeersAhead
  <2>2. e \notin ResponseEvents
    BY DEF RequestEvents, ResponseEvents
  <2>3. e # "ResponseHeaders"
    BY DEF RequestEvents
  <2>4. QED
    BY <1>0, <1>1, <1>3, <2>1, <2>2, <2>3, OrderPutting DEF PeersAhead
<1>7. PeersAhead'
  <2>1. Has(queue', "RequestHeaders") => cstate = "wait" /\ todo = << >>
    BY <1>0, <1>1, <1>5 DEF PeersAhead, AtFirst
  <2>2. Has(queue', "RequestEnd") => ClientOver'
    BY <1>0, <1>1, <1>5 DEF PeersAhead, ClientOver
  <2>3. QED
    BY <1>0, <1>1, <1>2, <1>4, <1>6, <2>1, <2>2
      DEF PeersAhead, ServerOver, ResponseEvents
<1>8. RequestDrained'
  BY <1>0, <1>2, <1>5 DEF RequestDrained
<1>9. ResponseTakenTo'
  <2>1. Awaited' <=> Awaited
    BY <1>1, <1>4 DEF Awaited, ResponseEvents
  <2>2. ServerOver' <=> ServerOver
    BY <1>1 DEF ServerOver
  <2>3. Has(queue', "ResponseHeaders") <=> Has(queue, "ResponseHeaders")
    BY <1>4 DEF ResponseEvents
  <2>4. QED
    BY <1>0, <1>1, <1>2, <1>4, <2>1, <2>2, <2>3 DEF ResponseTakenTo
<1>10. SentKnown'
  BY <1>0, <1>2 DEF SentKnown, Over
<1>11. MessagesInOrder'
  BY <1>0, <1>1, <1>2 DEF MessagesInOrder, ResponseInOrder, RequestInOrder
<1>12. ToldWhen' /\ ToldSoFar'
  BY <1>0, <1>1, <1>2 DEF ToldWhen, ToldSoFar, Early
<1>13. SentSoFar'
  BY <1>0, <1>2, <1>5 DEF SentSoFar
<1>14. BodiesWhole'
  <2>1. Has(toServer, "RequestEnd") => chunks'["request"] = chunks["request"]
    BY <1>0, <1>5 DEF SentSoFar, RequestEvents
  <2>2. QED
    BY <1>0, <1>1, <1>2, <2>1 DEF BodiesWhole
<1>15. RequestChunks' /\ ResponseChunks'
  <2>1. body["request"] \in Nat /\ body["response"] \in Nat /\ chunks["request"] \in Nat
    BY <1>0, HttpStreamAssumption DEF TypeOK, Sides
  <2>2. /\ Count(queue, "RequestData") \in Nat
        /\ e = "RequestData" => Count(queue', "RequestData") = Count(queue, "RequestData") + 1
        /\ e # "RequestData" => Count(queue', "RequestData") = Count(queue, "RequestData")
    BY <1>1, <1>3, CountPutting
  <2>3. Count(queue', "ResponseData") = Count(queue, "ResponseData")
    BY <1>1, <1>3, CountPutting DEF RequestEvents
  <2>4. Count(toServer, "RequestData") \in Nat
    BY <1>0, CountIsNat DEF TypeOK
  <2>5. RequestChunks'
    <3>1. (cstate \in {"wait", "consume", "stream"} \/ todo \in Routing) =>
            body["request"] + Count(queue', "RequestData") + Count(toServer, "RequestData")
              = chunks'["request"]
      BY <1>0, <2>1, <2>2, <2>4 DEF RequestChunks
    <3>2. QED
      BY <1>0, <1>2, <3>1 DEF RequestChunks
  <2>6. ResponseChunks'
    BY <1>0, <1>2, <1>4, <2>3 DEF ResponseChunks
  <2>7. QED
    BY <2>5, <2>6
<1>16. QED
  BY <1>2, <1>7, <1>8, <1>9, <1>10, <1>11, <1>12, <1>13, <1>14, <1>15 DEF MInv

LEMMA ServerSendsInv ==
  ASSUME IInv, MInv, NEW e, NEW from, NEW to, ServerSends(e, from, to),
         e \in ResponseEvents \cup {"ResponseError"},
         e \in ResponseEvents => from \cap {"early", "ended", "gone"} = {},
         "gone" \notin from, "idle" \in from => e \in {"ResponseHeaders", "ResponseError"},
         e = "ResponseHeaders" => from = {"idle"},
         e = "ResponseEnd" => to \in {"early", "ended"}, e = "ResponseError" <=> to = "gone",
         to # "idle", chunks'["request"] = chunks["request"],
         e = "ResponseData" => chunks'["response"] = chunks["response"] + 1,
         e # "ResponseData" => chunks'["response"] = chunks["response"]
  PROVE  MInv'
<1>0. /\ TypeOK /\ ProgramsOnly /\ StatesKnown /\ SentLater /\ AtFirst
      /\ HooksInOrder /\ HooksRun
      /\ PeersAhead /\ RequestDrained /\ ResponseTakenTo /\ SentKnown
      /\ MessagesInOrder /\ ToldWhen /\ ToldSoFar /\ SentSoFar
      /\ BodiesWhole /\ RequestChunks /\ ResponseChunks
  BY DEF IInv, MInv
<1>1. /\ Listens /\ server \in from /\ server' = to /\ client' = client
      /\ queue' = Append(queue, e) /\ Sent
  BY DEF ServerSends, Arrive, Received, Listens, Sent, states, sent, ends
<1>2. /\ UNCHANGED <<cstate, sstate, body, todo, toClient, toServer, hooks, passthrough>>
      /\ HooksInOrder' /\ HooksRun' /\ (Sent' <=> Sent) /\ (Told' <=> Told)
  BY <1>0, <1>1, Listening DEF Listens
<1>3. queue \in Seq(Events) /\ e \in Events /\ Range(queue') = Range(queue) \cup {e}
  BY <1>0, <1>1, Putting DEF TypeOK, Events, ResponseEvents, Errors
<1>4. /\ \A f \in RequestEvents : Has(queue', f) <=> Has(queue, f)
      /\ Requested(queue') <=> Requested(queue)
  BY <1>3 DEF Has, Requested, RequestEvents, ResponseEvents
<1>5. /\ \A f : f # e => (Has(queue', f) <=> Has(queue, f))
      /\ Responded(queue') => Responded(queue) \/ e \in ResponseEvents
      /\ ServerOver => ServerOver' /\ e \notin ResponseEvents
      /\ ClientOver' <=> ClientOver
  BY <1>1, <1>3 DEF Has, Responded, ServerOver, ClientOver, ResponseEvents
<1>6. todo \notin Opened
  <2>1. CASE todo = << >>
    BY <2>1, OpenedOnly
  <2>2. CASE todo # << >>
    BY <1>0, <2>2, PausedAt DEF ServerSends, Arrive, Paused, ProgramsOnly
  <2>3. QED
    BY <2>1, <2>2
<1>7. QueueOrdered(queue')
  <2>1. e \in ResponseEvents => ~Has(queue, "ResponseEnd")
    BY <1>0, <1>5 DEF PeersAhead
  <2>2. e \notin RequestEvents
    BY DEF RequestEvents, ResponseEvents
  <2>3. e = "ResponseHeaders" => ~Responded(queue)
    BY <1>0, <1>1 DEF PeersAhead
  <2>4. QED
    BY <1>0, <1>1, <1>3, <2>1, <2>2, OrderPutting DEF PeersAhead
<1>8. PeersAhead'
  <2>1. Has(queue', "ResponseEnd") => ServerOver'
    BY <1>0, <1>1, <1>5 DEF PeersAhead, ServerOver
  <2>2. Has(queue', "ResponseError") => server' = "gone"
    BY <1>0, <1>1, <1>5 DEF PeersAhead
  <2>3. /\ Has(queue', "RequestHeaders") => cstate = "wait" /\ todo = << >>
        /\ Has(queue', "RequestEnd") => ClientOver
    BY <1>0, <1>4 DEF PeersAhead, RequestEvents
  <2>4. QED
    BY <1>1, <1>2, <1>5, <1>7, <2>1, <2>2, <2>3 DEF PeersAhead
<1>9. RequestDrained'
  BY <1>0, <1>2, <1>4, <1>5 DEF RequestDrained
<1>10. ResponseTakenTo'
  <2>1. Awaited => Awaited'
    <3>1. CASE e = "ResponseHeaders"
      BY <1>3, <3>1 DEF Awaited, Has
    <3>2. CASE e \in ResponseEvents \ {"ResponseHeaders"}
      <4>1. server \in {"idle", "open", "trailers", "early", "ended", "gone"}
        BY <1>0 DEF TypeOK
      <4>2. server \in {"open", "trailers"}
        BY <1>1, <3>2, <4>1 DEF ResponseEvents
      <4>3. Awaited => Has(queue, "ResponseHeaders")
        BY <4>2 DEF Awaited
      <4>4. QED
        BY <1>5, <3>2, <4>3 DEF Awaited
    <3>3. CASE e = "ResponseError"
      BY <1>1, <1>5, <3>3 DEF Awaited, ResponseEvents
    <3>4. QED
      BY <3>1, <3>2, <3>3
  <2>2. server # "idle" => (Has(queue', "ResponseHeaders") <=> Has(queue, "ResponseHeaders"))
    BY <1>1, <1>5
  <2>3. ServerOver => (Responded(queue') => Responded(queue))
    BY <1>5
  <2>4. QED
    BY <1>0, <1>1, <1>2, <1>5, <2>1 DEF ResponseTakenTo
<1>11. SentKnown'
  BY <1>0, <1>2 DEF SentKnown, Over
<1>12. MessagesInOrder'
  BY <1>0, <1>1, <1>2 DEF MessagesInOrder, ResponseInOrder, RequestInOrder
<1>13. ToldWhen' /\ ToldSoFar' /\ SentSoFar'
  BY <1>0, <1>1, <1>2, <1>5 DEF ToldWhen, ToldSoFar, SentSoFar
<1>14. BodiesWhole'
  <2>1. Has(hooks, "response") => server' \notin {"early", "ended"}
    BY <1>0, <1>1, <1>5 DEF ResponseTakenTo
  <2>2. QED
    BY <1>0, <1>2, <2>1 DEF BodiesWhole
<1>15. RequestChunks' /\ ResponseChunks'
  <2>1. body["response"] \in Nat /\ chunks["response"] \in Nat
    BY <1>0, HttpStreamAssumption DEF TypeOK, Sides
  <2>2. /\ Count(queue, "ResponseData") \in Nat
        /\ e = "ResponseData" => Count(queue', "ResponseData") = Count(queue, "ResponseData") + 1
        /\ e # "ResponseData" => Count(queue', "ResponseData") = Count(queue, "ResponseData")
    BY <1>1, <1>3, CountPutting
  <2>3. Count(queue', "RequestData") = Count(queue, "RequestData")
    BY <1>1, <1>3, CountPutting DEF ResponseEvents
  <2>4. Count(toClient, "ResponseData") \in Nat
    BY <1>0, CountIsNat DEF TypeOK
  <2>5. ResponseChunks'
    <3>1. sstate # "uninitialized"
      BY <1>0, <1>1, <1>6 DEF SentKnown
    <3>2. sstate \in {"wait", "consume", "stream"} =>
            body["response"] + Count(queue', "ResponseData") + Count(toClient, "ResponseData")
              = chunks'["response"]
      <4>1. sstate \in {"wait", "consume", "stream"} =>
              body["response"] + Count(queue, "ResponseData") + Count(toClient, "ResponseData")
                = chunks["response"]
        BY <1>0, <1>1 DEF ResponseChunks
      <4>2. QED
        BY <2>1, <2>2, <2>4, <4>1
    <3>3. sstate = "done" => chunks'["response"] = chunks["response"]
      BY <1>0, <1>1, <1>5 DEF ResponseTakenTo, ResponseEvents
    <3>4. QED
      BY <1>0, <1>1, <1>2, <3>1, <3>2, <3>3 DEF ResponseChunks
  <2>6. RequestChunks'
    BY <1>0, <1>2, <2>3 DEF RequestChunks
  <2>7. QED
    BY <2>5, <2>6
<1>16. QED
  BY <1>2, <1>8, <1>9, <1>10, <1>11, <1>12, <1>13, <1>14, <1>15 DEF MInv

LEMMA PeersInv ==
  ASSUME IInv, MInv, ClientSteps \/ ServerSteps
  PROVE  MInv'
<1>1. chunks \in [Sides -> 0..MaxChunks]
  BY DEF IInv, TypeOK
<1>2. CASE ClientHeaders \/ ClientTrailers \/ ClientEnds \/ ClientLeaves
  BY <1>2, ClientSendsInv
    DEF ClientHeaders, ClientTrailers, ClientEnds, ClientLeaves, RequestEvents
<1>3. CASE ClientData
  <2>1. /\ chunks'["response"] = chunks["response"]
        /\ chunks'["request"] = chunks["request"] + 1
        /\ ClientSends("RequestData", {"open"}, "open")
    BY <1>1, <1>3 DEF ClientData, Sides
  <2>2. QED
    BY <2>1, ClientSendsInv DEF RequestEvents
<1>4. CASE ServerHeaders \/ ServerTrailers \/ ServerEnds \/ ServerFails
  <2>1. CASE ServerHeaders
    BY <2>1, ServerSendsInv DEF ServerHeaders, ResponseEvents
  <2>2. CASE ServerTrailers
    BY <2>2, ServerSendsInv DEF ServerTrailers, ResponseEvents
  <2>3. CASE ServerEnds
    <3>1. PICK to \in {"early", "ended"} : ServerSends("ResponseEnd", {"open", "trailers"}, to)
      BY <2>3 DEF ServerEnds
    <3>2. QED
      BY <2>3, <3>1, ServerSendsInv DEF ServerEnds, ResponseEvents
  <2>4. CASE ServerFails
    BY <2>4, ServerSendsInv DEF ServerFails, ResponseEvents
  <2>5. QED
    BY <1>4, <2>1, <2>2, <2>3, <2>4
<1>5. CASE ServerData
  <2>1. /\ chunks'["request"] = chunks["request"]
        /\ chunks'["response"] = chunks["response"] + 1
        /\ ServerSends("ResponseData", {"open"}, "open")
    BY <1>1, <1>5 DEF ServerData, Sides
  <2>2. QED
    BY <2>1, ServerSendsInv DEF ResponseEvents
<1>6. QED
  BY <1>2, <1>3, <1>4, <1>5 DEF ClientSteps, ServerSteps

-----------------------------------------------------------------------------
(* An event is taken from the queue. *)

Took(e) ==
  /\ queue \in Seq(Events) /\ queue' \in Seq(Events) /\ e \in Events /\ Has(queue, e)
  /\ QueueOrdered(queue') /\ ~Has(queue', "RequestHeaders")
  /\ \A f : Has(queue', f) => Has(queue, f)
  /\ \A f : (f # e /\ Has(queue, f)) => Has(queue', f)
  /\ Requested(queue') => Requested(queue)
  /\ Responded(queue') => Responded(queue)
  /\ e \in ResponseEvents => Responded(queue) /\ ~Has(queue', "ResponseHeaders")
  /\ e = "RequestEnd" => ~Requested(queue')
  /\ e = "ResponseEnd" => ~Responded(queue')

LEMMA Taken ==
  ASSUME IInv, MInv, todo = << >>, queue # << >>, queue' = Tail(queue)
  PROVE  Took(Head(queue))
<1>1. /\ queue \in Seq(Events) /\ AtFirst /\ PeersAhead
  BY DEF IInv, MInv, TypeOK
<1>2. /\ queue' \in Seq(Events) /\ Head(queue) \in Events
      /\ Range(queue) = {Head(queue)} \cup Range(queue')
  BY <1>1, Taking
<1>3. /\ QueueOrdered(queue')
      /\ Head(queue) = "RequestEnd" => ~Requested(queue')
      /\ Head(queue) = "ResponseEnd" => ~Responded(queue')
      /\ Head(queue) \in ResponseEvents => ~Has(queue', "ResponseHeaders")
  BY <1>1, OrderTaking DEF PeersAhead
<1>4. ~Has(queue', "RequestHeaders")
  <2>1. CASE Has(queue, "RequestHeaders")
    <3>1. queue = <<"RequestHeaders">>
      BY <1>1, <2>1 DEF PeersAhead, AtFirst
    <3>2. queue' = << >>
      BY <3>1
    <3>3. QED
      BY <3>2, RangeEmpty DEF Has
  <2>2. CASE ~Has(queue, "RequestHeaders")
    BY <1>2, <2>2 DEF Has
  <2>3. QED
    BY <2>1, <2>2
<1>5. QED
  BY <1>2, <1>3, <1>4 DEF Took, Has, Requested, Responded

\* Those who wait in the queue are behind the peers, as before.
LEMMA TookPeers ==
  ASSUME PeersAhead, NEW e, Took(e), UNCHANGED client, Sent' <=> Sent,
         server' = server \/ (server' = "gone" /\ Sent)
  PROVE  PeersAhead'
BY DEF PeersAhead, Took, ClientOver, ServerOver

\* Where the headers of a response were awaited, they still are.
LEMMA TookOther ==
  ASSUME NEW e, Took(e), e # "ResponseHeaders", Awaited,
         server' = server \/ server' = "gone"
  PROVE  Awaited'
BY DEF Took, Awaited

\* The chunks left in the queue.
LEMMA TookCounts ==
  ASSUME queue \in Seq(Events), queue # << >>, queue' = Tail(queue), NEW f
  PROVE  /\ Count(queue, f) \in Nat /\ Count(queue', f) \in Nat
         /\ Head(queue) = f => Count(queue, f) = Count(queue', f) + 1
         /\ Head(queue) # f => Count(queue', f) = Count(queue, f)
BY CountTaking

-----------------------------------------------------------------------------
\* Flow.kill changes nothing but the flow.
LEMMA UserKillsInv ==
  ASSUME IInv, MInv, UserKills \/ UNCHANGED vars
  PROVE  MInv'
<1>0. /\ TypeOK /\ ProgramsOnly /\ StatesKnown /\ SentLater /\ AtFirst /\ GoneIsLast
      /\ HooksInOrder /\ HooksRun
      /\ PeersAhead /\ RequestDrained /\ ResponseTakenTo /\ SentKnown
      /\ MessagesInOrder /\ ToldWhen /\ ToldSoFar /\ SentSoFar
      /\ BodiesWhole /\ RequestChunks /\ ResponseChunks
  BY DEF IInv, MInv
<1>1. /\ UNCHANGED <<cstate, sstate, body, queue, todo, toClient, toServer, hooks>>
      /\ UNCHANGED <<passthrough, client, server, chunks>>
  BY DEF UserKills, vars, states, sent, ends, peers
<1>2. (Sent' <=> Sent) /\ (Told' <=> Told)
  BY <1>1 DEF Sent, Told, Has
<1>3. HooksInOrder'
  BY <1>0, <1>1, <1>2 DEF HooksInOrder
<1>4. HooksRun'
  BY <1>0, <1>1, <1>2 DEF HooksRun, Early, Over, Opens
<1>5. PeersAhead'
  BY <1>0, <1>1, <1>2 DEF PeersAhead, ClientOver, ServerOver
<1>6. RequestDrained'
  BY <1>0, <1>1, <1>2 DEF RequestDrained, ClientOver
<1>7. ResponseTakenTo'
  BY <1>0, <1>1, <1>2 DEF ResponseTakenTo, Early, ServerOver, Awaited
<1>8. SentKnown'
  BY <1>0, <1>1, <1>2 DEF SentKnown, Over
<1>9. MessagesInOrder'
  BY <1>0, <1>1, <1>2 DEF MessagesInOrder, ResponseInOrder, RequestInOrder
<1>10. ToldWhen'
  BY <1>0, <1>1, <1>2 DEF ToldWhen, Early
<1>11. ToldSoFar'
  BY <1>0, <1>1, <1>2 DEF ToldSoFar
<1>12. SentSoFar'
  BY <1>0, <1>1, <1>2 DEF SentSoFar, ClientOver
<1>13. BodiesWhole'
  BY <1>0, <1>1, <1>2 DEF BodiesWhole
<1>14. RequestChunks'
  BY <1>0, <1>1, <1>2 DEF RequestChunks
<1>15. ResponseChunks'
  BY <1>0, <1>1, <1>2 DEF ResponseChunks
<1>16. QED
  BY <1>3, <1>4, <1>5, <1>6, <1>7, <1>8, <1>9, <1>10, <1>11, <1>12, <1>13, <1>14, <1>15
    DEF MInv

\* What arrives too late is dropped, and a tunnel takes the rest.
LEMMA SwallowInv ==
  ASSUME IInv, MInv, Swallow
  PROVE  MInv'
<1>0. /\ TypeOK /\ ProgramsOnly /\ StatesKnown /\ SentLater /\ AtFirst /\ GoneIsLast
      /\ HooksInOrder /\ HooksRun
      /\ PeersAhead /\ RequestDrained /\ ResponseTakenTo /\ SentKnown
      /\ MessagesInOrder /\ ToldWhen /\ ToldSoFar /\ SentSoFar
      /\ BodiesWhole /\ RequestChunks /\ ResponseChunks
  BY DEF IInv, MInv
<1>1. /\ UNCHANGED <<cstate, sstate, body, todo, toClient, toServer, hooks>>
      /\ UNCHANGED <<passthrough, client, server, chunks>>
      /\ todo = << >> /\ queue # << >> /\ queue' = Tail(queue)
  BY DEF Swallow, states, sent, ends, peers
<1>2. (Sent' <=> Sent) /\ (Told' <=> Told) /\ Took(Head(queue))
  BY <1>1, Taken DEF Sent, Told, Has
<1>3. \/ passthrough
      \/ Head(queue) \in RequestEvents /\ cstate = "errored"
      \/ Head(queue) \in ResponseEvents /\ sstate = "errored"
  BY DEF Swallow
<1>4. /\ todo \notin Working
      /\ passthrough => cstate = "done"
      /\ Head(queue) \in ResponseEvents => FromServer(queue)
  BY <1>0, <1>1, <1>2, IdleOnly
    DEF StatesKnown, Took, FromServer, Has, RequestEvents, ResponseEvents
<1>5. sstate \in {"uninitialized", "wait", "consume", "stream"} => Head(queue) \notin ResponseEvents
  <2>1. passthrough => sstate \in {"uninitialized", "done"}
    BY <1>0 DEF SentKnown
  <2>2. sstate = "uninitialized" => ~Sent
    BY <1>0, <1>1, OpenedOnly DEF SentKnown
  <2>3. ~Sent => Head(queue) \notin ResponseEvents
    BY <1>0, <1>4 DEF SentLater
  <2>4. QED
    BY <1>3, <2>1, <2>2, <2>3 DEF RequestEvents, ResponseEvents
<1>6. HooksInOrder'
  BY <1>0, <1>1 DEF HooksInOrder
<1>7. HooksRun'
  BY <1>0, <1>1 DEF HooksRun
<1>8. PeersAhead'
  BY TookPeers, <1>0, <1>1, <1>2
<1>9. RequestDrained'
  BY <1>0, <1>1, <1>2 DEF RequestDrained, ClientOver, Took
<1>10. ResponseTakenTo'
  BY <1>0, <1>1, <1>2, <1>5, TookOther
    DEF ResponseTakenTo, Early, ServerOver, Took, ResponseEvents
<1>11. SentKnown'
  BY <1>0, <1>1, <1>2 DEF SentKnown
<1>12. MessagesInOrder'
  BY <1>0, <1>1 DEF MessagesInOrder, ResponseInOrder, RequestInOrder
<1>13. ToldWhen'
  BY <1>0, <1>1, <1>2 DEF ToldWhen
<1>14. ToldSoFar'
  BY <1>0, <1>1, <1>2 DEF ToldSoFar
<1>15. SentSoFar'
  BY <1>0, <1>1, <1>2 DEF SentSoFar, ClientOver
<1>16. BodiesWhole'
  BY <1>0, <1>1 DEF BodiesWhole
<1>17. RequestChunks'
  <2>1. todo \notin Routing
    BY <1>1, RoutingOnly
  <2>2. cstate \in {"wait", "consume", "stream"} => Head(queue) # "RequestData"
    BY <1>3, <1>4, <1>5 DEF ResponseEvents, StatesKnown
  <2>3. cstate \in {"wait", "consume", "stream"} =>
          Count(queue', "RequestData") = Count(queue, "RequestData")
    BY <1>0, <1>1, <2>2, TookCounts DEF TypeOK
  <2>4. QED
    BY <1>0, <1>1, <2>1, <2>3 DEF RequestChunks
<1>18. ResponseChunks'
  <2>1. sstate \in {"wait", "consume", "stream"} =>
          Count(queue', "ResponseData") = Count(queue, "ResponseData")
    BY <1>0, <1>1, <1>5, TookCounts DEF TypeOK, ResponseEvents
  <2>2. QED
    BY <1>0, <1>1, <1>2, <2>1 DEF ResponseChunks, Took
<1>19. QED
  BY <1>6, <1>7, <1>8, <1>9, <1>10, <1>11, <1>12, <1>13, <1>14, <1>15, <1>16, <1>17,
     <1>18 DEF MInv

-----------------------------------------------------------------------------
(* Killing and errors. *)

\* An idle generator is nowhere.
LEMMA Idle ==
  << >> \notin Opens \cup Reopened \cup Ending \cup Routing \cup
              Responding \cup ResponseHook \cup
              Finishing \cup KillError \cup Killing \cup
              Asked \cup Connecting \cup
              RequestErrorHook \cup AfterRequestError \cup
              ResponseErrorHook \cup
              AfterResponseError \cup Headed \cup
              Oversized \cup Unanswering
BY DEF Opens, Opened, Reopened, Abandoning, Ending, Routing, Responding, ResponseHook,
   Finishing, KillError, Killing, Asked, Connecting, RequestErrorHook,
   AfterRequestError, ResponseErrorHook, AfterResponseError, Headed, Oversized,
   Unanswering

\* A flow that was killed during its response hook.
LEMMA KilledAtEndInv ==
  ASSUME IInv, MInv, CheckKilled, At("finish_response")
  PROVE  MInv'
<1>0. /\ TypeOK /\ ProgramsOnly /\ StatesKnown /\ SentLater /\ AtFirst /\ GoneIsLast
      /\ HooksInOrder /\ HooksRun
      /\ PeersAhead /\ RequestDrained /\ ResponseTakenTo /\ SentKnown
      /\ MessagesInOrder /\ ToldWhen /\ ToldSoFar /\ SentSoFar
      /\ BodiesWhole /\ RequestChunks /\ ResponseChunks
  BY DEF IInv, MInv
<1>1. /\ UNCHANGED <<cstate, body, queue, toClient, toServer, hooks, passthrough>>
      /\ UNCHANGED <<client, server, chunks>>
      /\ todo' = KillSteps /\ sstate' = "done"
  BY DEF CheckKilled, states, sent, ends, peers
<1>2. /\ todo \in Programs /\ todo # << >>
      /\ todo = <<"finish_response">>
  <2>1. todo \in Programs /\ todo # << >> /\ (Head(todo) = "finish_response")
    BY <1>0 DEF ProgramsOnly, CheckKilled, At
  <2>2. QED
    BY <2>1, Whereabouts
<1>3. todo \in Finishing
  BY <1>2 DEF Finishing
<1>4. todo \notin Opens \cup Reopened \cup Ending \cup Routing \cup Responding \cup
              ResponseHook \cup KillError \cup Killing \cup Asked \cup Connecting \cup
              RequestErrorHook \cup AfterRequestError \cup ResponseErrorHook \cup
              AfterResponseError \cup Headed \cup Oversized \cup Unanswering
  BY <1>3, Within, FinishingOnly DEF Opens
<1>5. todo' \in Killing
  BY <1>2 DEF CheckKilled, KillSteps, CheckedLoudly, Killing
<1>6. todo' \notin Opens \cup Reopened \cup Ending \cup Routing \cup Responding \cup
              ResponseHook \cup Finishing \cup KillError \cup Asked \cup
              Connecting \cup RequestErrorHook \cup AfterRequestError \cup
              ResponseErrorHook \cup AfterResponseError \cup Headed \cup Unanswering
  BY <1>5, Within, KillingOnly DEF Opens
<1>7. (Sent' <=> Sent) /\ (Told' <=> Told)
  BY <1>1 DEF Sent, Told, Has
<1>8. /\ sstate \in {"wait", "consume", "stream"} /\ cstate \notin {"wait", "consume"}
      /\ ~Told
  BY <1>0, <1>3 DEF StatesKnown, ToldWhen, SentKnown, Early
<1>9. todo' \notin Oversized
  BY <1>2, <1>1 DEF KillSteps, CheckedLoudly, Oversized
<1>10. HooksInOrder'
  BY <1>0, <1>1 DEF HooksInOrder
<1>11. HooksRun'
  BY <1>0, <1>1, <1>2, <1>6, Within DEF HooksRun, Early, Over, Opens
<1>12. PeersAhead'
  BY <1>0, <1>1, <1>2, <1>7 DEF PeersAhead, ClientOver, ServerOver
<1>13. RequestDrained'
  BY <1>0, <1>1, <1>6, <1>8 DEF RequestDrained, ClientOver
<1>14. ResponseTakenTo'
  BY <1>0, <1>1, <1>3, <1>7 DEF ResponseTakenTo, Early, ServerOver
<1>15. SentKnown'
  BY <1>0, <1>1, <1>6, <1>7, <1>9 DEF SentKnown, Over, Opens
<1>16. MessagesInOrder'
  BY <1>0, <1>1 DEF MessagesInOrder, ResponseInOrder, RequestInOrder
<1>17. ToldWhen'
  BY <1>0, <1>7, <1>8 DEF ToldWhen, Early
<1>18. ToldSoFar'
  BY <1>0, <1>1, <1>5, <1>6 DEF ToldSoFar
<1>19. SentSoFar'
  BY <1>0, <1>1, <1>7 DEF SentSoFar, ClientOver
<1>20. BodiesWhole'
  BY <1>0, <1>1 DEF BodiesWhole
<1>21. RequestChunks'
  BY <1>0, <1>1, <1>4, <1>6 DEF RequestChunks
<1>22. ResponseChunks'
  BY <1>0, <1>1, <1>5, <1>7 DEF ResponseChunks
<1>23. QED
  BY <1>10, <1>11, <1>12, <1>13, <1>14, <1>15, <1>16, <1>17, <1>18, <1>19, <1>20, <1>21,
     <1>22 DEF MInv

\* What ends with an error for the client.
LEMMA RejectInv ==
  ASSUME IInv, MInv, Reject
  PROVE  MInv'
<1>0. /\ TypeOK /\ ProgramsOnly /\ StatesKnown /\ SentLater /\ AtFirst /\ GoneIsLast
      /\ HooksInOrder /\ HooksRun
      /\ PeersAhead /\ RequestDrained /\ ResponseTakenTo /\ SentKnown
      /\ MessagesInOrder /\ ToldWhen /\ ToldSoFar /\ SentSoFar
      /\ BodiesWhole /\ RequestChunks /\ ResponseChunks
  BY DEF IInv, MInv
<1>1. /\ UNCHANGED <<body, queue, toServer, hooks, passthrough, client, server>>
      /\ UNCHANGED <<chunks>>
      /\ todo' = << >> /\ toClient' = Append(toClient, "ResponseError")
      /\ cstate' = "errored" /\ sstate' = "errored"
  BY DEF Reject, states, sent, ends, peers
<1>2. /\ todo \in Programs /\ todo # << >>
      /\ todo \in {<<"kill">>,
               <<"reject">>}
  <2>1. todo \in Programs /\ todo # << >> /\ (Head(todo) = "kill" \/ Head(todo) = "reject")
    BY <1>0 DEF ProgramsOnly, Reject, At
  <2>2. QED
    BY <2>1, Whereabouts
<1>3. todo \in Killing
  BY <1>2 DEF Killing
<1>4. todo \notin Opens \cup Reopened \cup Ending \cup Routing \cup Responding \cup
              ResponseHook \cup Finishing \cup KillError \cup Asked \cup
              Connecting \cup RequestErrorHook \cup AfterRequestError \cup
              ResponseErrorHook \cup AfterResponseError \cup Headed \cup Unanswering
  BY <1>3, Within, KillingOnly DEF Opens
<1>5. todo' = << >>
  BY <1>1
<1>6. todo' \notin Opens \cup Reopened \cup Ending \cup Routing \cup Responding \cup
              ResponseHook \cup Finishing \cup KillError \cup Killing \cup Asked \cup
              Connecting \cup RequestErrorHook \cup AfterRequestError \cup
              ResponseErrorHook \cup AfterResponseError \cup Headed \cup Oversized \cup
              Unanswering
  BY <1>5, Idle
<1>7. (Sent' <=> Sent)
  BY <1>1 DEF Sent, Told, Has
<1>8. ~Told
  BY <1>0, <1>3 DEF ToldWhen
<1>9. /\ toClient' \in Seq(ToClient) /\ ResponseOrdered(toClient')
      /\ Range(toClient') = Range(toClient) \cup {"ResponseError"}
      /\ Count(toClient', "ResponseData") = Count(toClient, "ResponseData")
      /\ Follows(toClient', "ResponseEnd", "ResponseError") => Has(toClient, "ResponseEnd")
      /\ Told'
  <2>1. toClient \in Seq(ToClient) /\ ResponseOrdered(toClient)
    BY <1>0 DEF TypeOK, ToClient, MessagesInOrder, ResponseInOrder, ResponseOrdered
  <2>2. /\ Append(toClient, "ResponseError") \in Seq(ToClient)
        /\ ResponseOrdered(Append(toClient, "ResponseError"))
        /\ Range(Append(toClient, "ResponseError")) = Range(toClient) \cup {"ResponseError"}
        /\ Count(Append(toClient, "ResponseError"), "ResponseData") = Count(toClient, "ResponseData")
        /\ Follows(Append(toClient, "ResponseError"), "ResponseEnd", "ResponseError") =>
             Has(toClient, "ResponseEnd")
    BY <2>1, TellsError
  <2>3. QED
    BY <1>1, <2>2 DEF Told, Unended, Terminal
<1>10. ~passthrough
  BY <1>0, <1>2 DEF StatesKnown
<1>11. HooksInOrder'
  BY <1>0, <1>1 DEF HooksInOrder
<1>12. HooksRun'
  BY <1>0, <1>1, <1>2, <1>6 DEF HooksRun, Early, Over, Opens
<1>13. PeersAhead'
  BY <1>0, <1>1, <1>2, <1>7 DEF PeersAhead, ClientOver, ServerOver
<1>14. RequestDrained'
  BY <1>0, <1>1, <1>6 DEF RequestDrained, ClientOver
<1>15. ResponseTakenTo'
  BY <1>0, <1>1, <1>6, <1>7 DEF ResponseTakenTo, Early, ServerOver
<1>16. SentKnown'
  BY <1>0, <1>1, <1>6, <1>10 DEF SentKnown, Over, Opens
<1>17. MessagesInOrder'
  <2>1. ~Has(toClient, "ResponseEnd")
    BY <1>8 DEF Told, Unended, Terminal, Has
  <2>2. ResponseInOrder'
    BY <1>1, <1>9, <2>1 DEF ResponseInOrder, ResponseOrdered
  <2>3. QED
    BY <1>0, <1>1, <2>2 DEF MessagesInOrder, RequestInOrder
<1>18. ToldWhen'
  BY <1>0, <1>1, <1>6 DEF ToldWhen, Early
<1>19. ToldSoFar'
  BY <1>0, <1>1, <1>6 DEF ToldSoFar, Has
<1>20. SentSoFar'
  BY <1>0, <1>1, <1>7 DEF SentSoFar, ClientOver
<1>21. BodiesWhole'
  BY <1>0, <1>1, <1>9 DEF BodiesWhole, Has
<1>22. RequestChunks'
  BY <1>0, <1>1, <1>6 DEF RequestChunks
<1>23. ResponseChunks'
  BY <1>0, <1>1, <1>7 DEF ResponseChunks
<1>24. QED
  BY <1>11, <1>12, <1>13, <1>14, <1>15, <1>16, <1>17, <1>18, <1>19, <1>20, <1>21, <1>22,
     <1>23 DEF MInv

\* The client leaves while its request is with the server.
LEMMA GoneWhileTalkingInv ==
  ASSUME IInv, MInv, HandleError("RequestError"), Talking
  PROVE  MInv'
<1>0. /\ TypeOK /\ ProgramsOnly /\ StatesKnown /\ SentLater /\ AtFirst /\ GoneIsLast
      /\ HooksInOrder /\ HooksRun
      /\ PeersAhead /\ RequestDrained /\ ResponseTakenTo /\ SentKnown
      /\ MessagesInOrder /\ ToldWhen /\ ToldSoFar /\ SentSoFar
      /\ BodiesWhole /\ RequestChunks /\ ResponseChunks
  BY DEF IInv, MInv
<1>1. /\ UNCHANGED <<sstate, body, toClient, hooks, passthrough, client, chunks>>
      /\ todo = << >> /\ queue # << >> /\ Head(queue) = "RequestError"
      /\ queue' = Tail(queue) /\ ~passthrough
      /\ todo' = ErrorSteps("RequestError")
      /\ toServer' = Append(toServer, "RequestError")
      /\ server' = "gone" /\ cstate' = "errored"
  BY DEF HandleError, Talking, states, sent, ends, peers
<1>2. todo \notin Opens \cup Reopened \cup Ending \cup Routing \cup Responding \cup
              ResponseHook \cup Finishing \cup KillError \cup Killing \cup Asked \cup
              Connecting \cup RequestErrorHook \cup AfterRequestError \cup
              ResponseErrorHook \cup AfterResponseError \cup Headed \cup Oversized \cup
              Unanswering
  BY <1>1, Idle
<1>3. todo' \in RequestErrorHook
  BY <1>1, Pairs
    DEF ErrorSteps, CloseAfterError, NeedErrorHook, Talking, RequestErrorHook
<1>4. todo' \notin Opens \cup Reopened \cup Ending \cup Routing \cup Responding \cup
              ResponseHook \cup Finishing \cup KillError \cup Killing \cup Asked \cup
              Connecting \cup AfterRequestError \cup ResponseErrorHook \cup
              AfterResponseError \cup Headed \cup Oversized \cup Unanswering
  BY <1>3, Within, RequestErrorHookOnly DEF Opens
<1>5. Took("RequestError")
  BY <1>1, Taken
<1>6. (Told' <=> Told)
  BY <1>1 DEF Sent, Told, Has
<1>7. /\ Sent /\ ~Told
      /\ cstate \in {"stream", "done"}
      /\ sstate \in {"wait", "consume", "stream"}
  <2>1. cstate \in {"stream", "done"} /\ sstate \notin {"done", "errored"}
    BY DEF Talking
  <2>2. Sent
    BY <1>0, <1>1, <2>1 DEF SentKnown, Over
  <2>3. sstate # "uninitialized"
    BY <1>0, <1>2, <2>2 DEF SentKnown, Opens
  <2>4. sstate \in {"wait", "consume", "stream"}
    BY <1>0, <2>1, <2>3 DEF TypeOK
  <2>5. QED
    BY <1>0, <1>1, <2>1, <2>2, <2>4 DEF ToldWhen
<1>8. /\ toServer' \in Seq(ToServer) /\ RequestOrdered(toServer')
      /\ Range(toServer') = Range(toServer) \cup {"RequestError"}
      /\ Count(toServer', "RequestData") = Count(toServer, "RequestData")
      /\ Sent'
  <2>1. toServer \in Seq(ToServer) /\ RequestOrdered(toServer) /\ toServer # << >>
    BY <1>0, <1>7, RangeEmpty
      DEF TypeOK, ToServer, MessagesInOrder, RequestInOrder, RequestOrdered, Sent, Has
  <2>2. /\ Append(toServer, "RequestError") \in Seq(ToServer)
        /\ RequestOrdered(Append(toServer, "RequestError"))
        /\ Range(Append(toServer, "RequestError")) = Range(toServer) \cup {"RequestError"}
        /\ Count(Append(toServer, "RequestError"), "RequestData") = Count(toServer, "RequestData")
    BY <2>1, SendsError
  <2>3. QED
    BY <1>1, <1>7, <2>2 DEF Sent, Has
<1>9. /\ Count(queue', "RequestData") = Count(queue, "RequestData")
      /\ Count(queue', "ResponseData") = Count(queue, "ResponseData")
  BY <1>0, <1>1, TookCounts DEF TypeOK
<1>10. Awaited => Awaited'
  BY <1>1, <1>5, TookOther
<1>11. (Sent' <=> Sent)
  BY <1>7, <1>8
<1>12. HooksInOrder'
  BY <1>0, <1>1 DEF HooksInOrder
<1>13. HooksRun'
  BY <1>0, <1>1, <1>2, <1>3, <1>4, Within DEF HooksRun, Early, Over, Opens
<1>14. PeersAhead'
  BY TookPeers, <1>0, <1>1, <1>7, <1>5, <1>11
<1>15. RequestDrained'
  BY <1>0, <1>1, <1>2, <1>4 DEF RequestDrained, ClientOver, Took
<1>16. ResponseTakenTo'
  BY <1>0, <1>1, <1>2, <1>4, <1>5, <1>10 DEF ResponseTakenTo, Early, ServerOver, Took
<1>17. SentKnown'
  BY <1>0, <1>1, <1>2, <1>7, <1>8 DEF SentKnown, Over, Opens
<1>18. MessagesInOrder'
  <2>1. RequestInOrder'
    BY <1>8 DEF RequestInOrder, RequestOrdered
  <2>2. ResponseInOrder'
    BY <1>0, <1>1 DEF MessagesInOrder, ResponseInOrder
  <2>3. QED
    BY <2>1, <2>2 DEF MessagesInOrder
<1>19. ToldWhen'
  BY <1>0, <1>1, <1>2, <1>6, <1>7 DEF ToldWhen, Early
<1>20. ToldSoFar'
  BY <1>0, <1>1, <1>2, <1>4, <1>6 DEF ToldSoFar
<1>21. SentSoFar'
  BY <1>0, <1>1, <1>2, <1>8 DEF SentSoFar, ClientOver, Has
<1>22. BodiesWhole'
  BY <1>0, <1>1, <1>2, <1>8 DEF BodiesWhole, Has
<1>23. RequestChunks'
  BY <1>0, <1>1, <1>2, <1>4 DEF RequestChunks
<1>24. ResponseChunks'
  BY <1>0, <1>1, <1>2, <1>7, <1>8, <1>9 DEF ResponseChunks, Took
<1>25. QED
  BY <1>12, <1>13, <1>14, <1>15, <1>16, <1>17, <1>18, <1>19, <1>20, <1>21, <1>22, <1>23,
     <1>24 DEF MInv

\* The client leaves before that, or after.
LEMMA GoneOtherwiseInv ==
  ASSUME IInv, MInv, HandleError("RequestError"), ~Talking
  PROVE  MInv'
<1>0. /\ TypeOK /\ ProgramsOnly /\ StatesKnown /\ SentLater /\ AtFirst /\ GoneIsLast
      /\ HooksInOrder /\ HooksRun
      /\ PeersAhead /\ RequestDrained /\ ResponseTakenTo /\ SentKnown
      /\ MessagesInOrder /\ ToldWhen /\ ToldSoFar /\ SentSoFar
      /\ BodiesWhole /\ RequestChunks /\ ResponseChunks
  BY DEF IInv, MInv
<1>1. /\ UNCHANGED <<cstate, sstate, body, toClient, toServer, hooks, passthrough>>
      /\ UNCHANGED <<client, server, chunks>>
      /\ todo = << >> /\ queue # << >> /\ Head(queue) = "RequestError"
      /\ queue' = Tail(queue) /\ ~passthrough
      /\ todo' = ErrorSteps("RequestError")
  BY DEF HandleError, Talking, states, sent, ends, peers
<1>2. todo \notin Opens \cup Reopened \cup Ending \cup Routing \cup Responding \cup
              ResponseHook \cup Finishing \cup KillError \cup Killing \cup Asked \cup
              Connecting \cup RequestErrorHook \cup AfterRequestError \cup
              ResponseErrorHook \cup AfterResponseError \cup Headed \cup Oversized \cup
              Unanswering
  BY <1>1, Idle
<1>3. todo' \in RequestErrorHook \cup AfterRequestError
  <2>1. todo' = <<"error", "close_after_RequestError">> \/ todo' = <<"close_after_RequestError">>
    <3>1. CASE NeedErrorHook
      BY <1>1, <3>1, Pairs DEF ErrorSteps, CloseAfterError
    <3>2. CASE ~NeedErrorHook
      BY <1>1, <3>2, ConcatEmptySeq DEF ErrorSteps, CloseAfterError
    <3>3. QED
      BY <3>1, <3>2
  <2>2. QED
    BY <2>1 DEF RequestErrorHook, AfterRequestError
<1>4. todo' \notin Opens \cup Reopened \cup Ending \cup Routing \cup Responding \cup
              ResponseHook \cup Finishing \cup KillError \cup Killing \cup Asked \cup
              Connecting \cup ResponseErrorHook \cup AfterResponseError \cup
              Headed \cup Oversized \cup Unanswering
  BY <1>3, Within, RequestErrorHookOnly, AfterRequestErrorOnly DEF Opens
<1>5. Took("RequestError")
  BY <1>1, Taken
<1>6. (Sent' <=> Sent) /\ (Told' <=> Told)
  BY <1>1 DEF Sent, Told, Has
<1>7. /\ Count(queue', "RequestData") = Count(queue, "RequestData")
      /\ Count(queue', "ResponseData") = Count(queue, "ResponseData")
  BY <1>0, <1>1, TookCounts DEF TypeOK
<1>8. Awaited => Awaited'
  BY <1>1, <1>5, TookOther
<1>9. HooksInOrder'
  BY <1>0, <1>1 DEF HooksInOrder
<1>10. HooksRun'
  BY <1>0, <1>1, <1>2, <1>4, Within DEF HooksRun, Early, Over, Opens
<1>11. PeersAhead'
  BY TookPeers, <1>0, <1>1, <1>5, <1>6
<1>12. RequestDrained'
  BY <1>0, <1>1, <1>4, <1>5 DEF RequestDrained, ClientOver, Took
<1>13. ResponseTakenTo'
  BY <1>0, <1>1, <1>2, <1>4, <1>5, <1>6, <1>8
    DEF ResponseTakenTo, Early, ServerOver, Took
<1>14. SentKnown'
  BY <1>0, <1>1, <1>2, <1>4, <1>6 DEF SentKnown, Over, Opens
<1>15. MessagesInOrder'
  BY <1>0, <1>1 DEF MessagesInOrder, ResponseInOrder, RequestInOrder
<1>16. ToldWhen'
  BY <1>0, <1>1, <1>4, <1>6 DEF ToldWhen, Early
<1>17. ToldSoFar'
  BY <1>0, <1>1, <1>2, <1>4, <1>6 DEF ToldSoFar
<1>18. SentSoFar'
  BY <1>0, <1>1, <1>6 DEF SentSoFar, ClientOver
<1>19. BodiesWhole'
  BY <1>0, <1>1 DEF BodiesWhole
<1>20. RequestChunks'
  BY <1>0, <1>1, <1>2, <1>4, <1>7 DEF RequestChunks
<1>21. ResponseChunks'
  BY <1>0, <1>1, <1>2, <1>5, <1>6, <1>7 DEF ResponseChunks, Took
<1>22. QED
  BY <1>9, <1>10, <1>11, <1>12, <1>13, <1>14, <1>15, <1>16, <1>17, <1>18, <1>19, <1>20,
     <1>21 DEF MInv

\* The server fails.
LEMMA ServerFailedInv ==
  ASSUME IInv, MInv, HandleError("ResponseError")
  PROVE  MInv'
<1>0. /\ TypeOK /\ ProgramsOnly /\ StatesKnown /\ SentLater /\ AtFirst /\ GoneIsLast
      /\ HooksInOrder /\ HooksRun
      /\ PeersAhead /\ RequestDrained /\ ResponseTakenTo /\ SentKnown
      /\ MessagesInOrder /\ ToldWhen /\ ToldSoFar /\ SentSoFar
      /\ BodiesWhole /\ RequestChunks /\ ResponseChunks
  BY DEF IInv, MInv
<1>1. /\ UNCHANGED <<cstate, sstate, body, toClient, toServer, hooks, passthrough>>
      /\ UNCHANGED <<client, server, chunks>>
      /\ todo = << >> /\ queue # << >> /\ Head(queue) = "ResponseError"
      /\ queue' = Tail(queue) /\ ~passthrough
      /\ todo' = ErrorSteps("ResponseError")
  BY DEF HandleError, states, sent, ends, peers
<1>2. todo \notin Opens \cup Reopened \cup Ending \cup Routing \cup Responding \cup
              ResponseHook \cup Finishing \cup KillError \cup Killing \cup Asked \cup
              Connecting \cup RequestErrorHook \cup AfterRequestError \cup
              ResponseErrorHook \cup AfterResponseError \cup Headed \cup Oversized \cup
              Unanswering
  BY <1>1, Idle
<1>3. todo' \in ResponseErrorHook \cup AfterResponseError
  <2>1. todo' = <<"error", "close_after_ResponseError">> \/ todo' = <<"close_after_ResponseError">>
    <3>1. CASE NeedErrorHook
      BY <1>1, <3>1, Pairs DEF ErrorSteps, CloseAfterError
    <3>2. CASE ~NeedErrorHook
      BY <1>1, <3>2, ConcatEmptySeq DEF ErrorSteps, CloseAfterError
    <3>3. QED
      BY <3>1, <3>2
  <2>2. QED
    BY <2>1 DEF ResponseErrorHook, AfterResponseError
<1>4. todo' \notin Opens \cup Reopened \cup Ending \cup Routing \cup Responding \cup
              ResponseHook \cup Finishing \cup KillError \cup Killing \cup Asked \cup
              Connecting \cup RequestErrorHook \cup AfterRequestError \cup Headed \cup
              Oversized \cup Unanswering
  BY <1>3, Within, ResponseErrorHookOnly, AfterResponseErrorOnly DEF Opens
<1>5. Took("ResponseError")
  BY <1>1, Taken
<1>6. (Sent' <=> Sent) /\ (Told' <=> Told)
  BY <1>1 DEF Sent, Told, Has
<1>7. /\ Count(queue', "RequestData") = Count(queue, "RequestData")
      /\ Count(queue', "ResponseData") = Count(queue, "ResponseData")
  BY <1>0, <1>1, TookCounts DEF TypeOK
<1>8. Awaited => Awaited'
  BY <1>1, <1>5, TookOther
<1>9. server = "gone"
  BY <1>0, <1>5 DEF Took, PeersAhead
<1>10. HooksInOrder'
  BY <1>0, <1>1 DEF HooksInOrder
<1>11. HooksRun'
  BY <1>0, <1>1, <1>2, <1>4, <1>6, Within DEF HooksRun, Early, Over, Opens
<1>12. PeersAhead'
  BY TookPeers, <1>0, <1>1, <1>5, <1>6
<1>13. RequestDrained'
  BY <1>0, <1>1, <1>4, <1>5 DEF RequestDrained, ClientOver, Took
<1>14. ResponseTakenTo'
  BY <1>0, <1>1, <1>2, <1>4, <1>5, <1>6, <1>8
    DEF ResponseTakenTo, Early, ServerOver, Took
<1>15. SentKnown'
  BY <1>0, <1>1, <1>2, <1>4, <1>6 DEF SentKnown, Over, Opens
<1>16. MessagesInOrder'
  BY <1>0, <1>1 DEF MessagesInOrder, ResponseInOrder, RequestInOrder
<1>17. ToldWhen'
  BY <1>0, <1>1, <1>4, <1>6, <1>9 DEF ToldWhen, Early
<1>18. ToldSoFar'
  BY <1>0, <1>1, <1>2, <1>4, <1>6 DEF ToldSoFar
<1>19. SentSoFar'
  BY <1>0, <1>1, <1>6 DEF SentSoFar, ClientOver
<1>20. BodiesWhole'
  BY <1>0, <1>1 DEF BodiesWhole
<1>21. RequestChunks'
  BY <1>0, <1>1, <1>2, <1>4, <1>7 DEF RequestChunks
<1>22. ResponseChunks'
  BY <1>0, <1>1, <1>2, <1>5, <1>6, <1>7 DEF ResponseChunks, Took
<1>23. QED
  BY <1>10, <1>11, <1>12, <1>13, <1>14, <1>15, <1>16, <1>17, <1>18, <1>19, <1>20, <1>21,
     <1>22 DEF MInv

\* The client has left a flow that is killed.
LEMMA KilledClientGoneInv ==
  ASSUME IInv, MInv, CloseAfter("RequestError"), Killed
  PROVE  MInv'
<1>0. /\ TypeOK /\ ProgramsOnly /\ StatesKnown /\ SentLater /\ AtFirst /\ GoneIsLast
      /\ HooksInOrder /\ HooksRun
      /\ PeersAhead /\ RequestDrained /\ ResponseTakenTo /\ SentKnown
      /\ MessagesInOrder /\ ToldWhen /\ ToldSoFar /\ SentSoFar
      /\ BodiesWhole /\ RequestChunks /\ ResponseChunks
  BY DEF IInv, MInv
<1>1. /\ UNCHANGED <<body, queue, toServer, hooks, passthrough, client, server>>
      /\ UNCHANGED <<chunks>>
      /\ toClient' = Append(toClient, "ResponseError")
      /\ cstate' = "errored" /\ sstate' = "errored"
  BY DEF CloseAfter, CloseAfterError, states, sent, ends, peers
<1>2. /\ todo \in Programs /\ todo # << >>
      /\ todo = <<"close_after_RequestError">>
  <2>1. todo \in Programs /\ todo # << >> /\ (Head(todo) = "close_after_RequestError")
    BY <1>0 DEF ProgramsOnly, CloseAfter, CloseAfterError, At
  <2>2. QED
    BY <2>1, Whereabouts
<1>3. todo \in AfterRequestError
  BY <1>2 DEF AfterRequestError
<1>4. todo \notin Opens \cup Reopened \cup Ending \cup Routing \cup Responding \cup
              ResponseHook \cup Finishing \cup KillError \cup Killing \cup Asked \cup
              Connecting \cup RequestErrorHook \cup ResponseErrorHook \cup
              AfterResponseError \cup Headed \cup Oversized \cup Unanswering
  BY <1>3, Within, AfterRequestErrorOnly DEF Opens
<1>5. todo' = << >>
  BY <1>2, <1>1, Thens DEF CloseAfter, Then, CloseAfterError
<1>6. todo' \notin Opens \cup Reopened \cup Ending \cup Routing \cup Responding \cup
              ResponseHook \cup Finishing \cup KillError \cup Killing \cup Asked \cup
              Connecting \cup RequestErrorHook \cup AfterRequestError \cup
              ResponseErrorHook \cup AfterResponseError \cup Headed \cup Oversized \cup
              Unanswering
  BY <1>5, Idle
<1>7. (Sent' <=> Sent)
  BY <1>1 DEF Sent, Told, Has
<1>8. client = "gone"
  BY <1>0, <1>3 DEF GoneIsLast
<1>9. /\ toClient' \in Seq(ToClient) /\ ResponseOrdered(toClient')
      /\ Range(toClient') = Range(toClient) \cup {"ResponseError"}
      /\ Count(toClient', "ResponseData") = Count(toClient, "ResponseData")
      /\ Follows(toClient', "ResponseEnd", "ResponseError") => Has(toClient, "ResponseEnd")
      /\ Told'
  <2>1. toClient \in Seq(ToClient) /\ ResponseOrdered(toClient)
    BY <1>0 DEF TypeOK, ToClient, MessagesInOrder, ResponseInOrder, ResponseOrdered
  <2>2. /\ Append(toClient, "ResponseError") \in Seq(ToClient)
        /\ ResponseOrdered(Append(toClient, "ResponseError"))
        /\ Range(Append(toClient, "ResponseError")) = Range(toClient) \cup {"ResponseError"}
        /\ Count(Append(toClient, "ResponseError"), "ResponseData") = Count(toClient, "ResponseData")
        /\ Follows(Append(toClient, "ResponseError"), "ResponseEnd", "ResponseError") =>
             Has(toClient, "ResponseEnd")
    BY <2>1, TellsError
  <2>3. QED
    BY <1>1, <2>2 DEF Told, Unended, Terminal
<1>10. ~passthrough /\ todo # << >>
  BY <1>0, <1>3, Idle
    DEF StatesKnown, AfterRequestError, OpeningFailed, AfterResponseError
<1>11. HooksInOrder'
  BY <1>0, <1>1 DEF HooksInOrder
<1>12. HooksRun'
  BY <1>0, <1>1, <1>2, <1>5, <1>6 DEF HooksRun, Early, Over, Opens
<1>13. PeersAhead'
  BY <1>0, <1>1, <1>2, <1>7 DEF PeersAhead, ClientOver, ServerOver
<1>14. RequestDrained'
  BY <1>0, <1>1, <1>6 DEF RequestDrained, ClientOver
<1>15. ResponseTakenTo'
  BY <1>0, <1>1, <1>6, <1>7 DEF ResponseTakenTo, Early, ServerOver
<1>16. SentKnown'
  BY <1>0, <1>1, <1>6, <1>10 DEF SentKnown, Over, Opens
<1>17. MessagesInOrder'
  <2>1. Has(toClient, "ResponseEnd") => "gone" \in {client, server}
    BY <1>8 DEF Told, Unended, Terminal, Has
  <2>2. ResponseInOrder'
    BY <1>1, <1>9, <2>1 DEF ResponseInOrder, ResponseOrdered
  <2>3. QED
    BY <1>0, <1>1, <2>2 DEF MessagesInOrder, RequestInOrder
<1>18. ToldWhen'
  BY <1>0, <1>1, <1>6 DEF ToldWhen, Early
<1>19. ToldSoFar'
  BY <1>0, <1>1, <1>6 DEF ToldSoFar, Has
<1>20. SentSoFar'
  BY <1>0, <1>1, <1>7 DEF SentSoFar, ClientOver
<1>21. BodiesWhole'
  BY <1>0, <1>1, <1>9 DEF BodiesWhole, Has
<1>22. RequestChunks'
  BY <1>0, <1>1, <1>6 DEF RequestChunks
<1>23. ResponseChunks'
  BY <1>0, <1>1, <1>7 DEF ResponseChunks
<1>24. QED
  BY <1>11, <1>12, <1>13, <1>14, <1>15, <1>16, <1>17, <1>18, <1>19, <1>20, <1>21, <1>22,
     <1>23 DEF MInv

\* The server has failed a flow that is killed.
LEMMA KilledServerFailedInv ==
  ASSUME IInv, MInv, CloseAfter("ResponseError"), Killed, todo \in AfterResponseError
  PROVE  MInv'
<1>0. /\ TypeOK /\ ProgramsOnly /\ StatesKnown /\ SentLater /\ AtFirst /\ GoneIsLast
      /\ HooksInOrder /\ HooksRun
      /\ PeersAhead /\ RequestDrained /\ ResponseTakenTo /\ SentKnown
      /\ MessagesInOrder /\ ToldWhen /\ ToldSoFar /\ SentSoFar
      /\ BodiesWhole /\ RequestChunks /\ ResponseChunks
  BY DEF IInv, MInv
<1>1. /\ UNCHANGED <<body, queue, toServer, hooks, passthrough, client, server>>
      /\ UNCHANGED <<chunks>>
      /\ toClient' = Append(toClient, "ResponseError")
      /\ cstate' = "errored" /\ sstate' = "errored"
  BY DEF CloseAfter, CloseAfterError, states, sent, ends, peers
<1>2. todo \in AfterResponseError
  BY <1>1 DEF AfterResponseError
<1>3. todo \notin Opens \cup Reopened \cup Ending \cup Routing \cup Responding \cup
              ResponseHook \cup Finishing \cup KillError \cup Killing \cup Asked \cup
              Connecting \cup RequestErrorHook \cup AfterRequestError \cup
              ResponseErrorHook \cup Headed \cup Oversized \cup Unanswering
  BY <1>2, Within, AfterResponseErrorOnly DEF Opens
<1>4. todo' = << >>
  <2>1. todo \in Programs /\ todo # << >>
    BY <1>0 DEF ProgramsOnly, CloseAfter, At
  <2>2. todo' = Tail(todo)
    BY <2>1, Thens DEF CloseAfter, Then
  <2>3. QED
    BY <1>2, <2>2 DEF AfterResponseError
<1>5. todo' \notin Opens \cup Reopened \cup Ending \cup Routing \cup Responding \cup
              ResponseHook \cup Finishing \cup KillError \cup Killing \cup Asked \cup
              Connecting \cup RequestErrorHook \cup AfterRequestError \cup
              ResponseErrorHook \cup AfterResponseError \cup Headed \cup Oversized \cup
              Unanswering
  BY <1>4, Idle
<1>6. (Sent' <=> Sent)
  BY <1>1 DEF Sent, Told, Has
<1>7. ~Told \/ server = "gone"
  BY <1>0, <1>2 DEF ToldWhen
<1>8. /\ toClient' \in Seq(ToClient) /\ ResponseOrdered(toClient')
      /\ Range(toClient') = Range(toClient) \cup {"ResponseError"}
      /\ Count(toClient', "ResponseData") = Count(toClient, "ResponseData")
      /\ Follows(toClient', "ResponseEnd", "ResponseError") => Has(toClient, "ResponseEnd")
      /\ Told'
  <2>1. toClient \in Seq(ToClient) /\ ResponseOrdered(toClient)
    BY <1>0 DEF TypeOK, ToClient, MessagesInOrder, ResponseInOrder, ResponseOrdered
  <2>2. /\ Append(toClient, "ResponseError") \in Seq(ToClient)
        /\ ResponseOrdered(Append(toClient, "ResponseError"))
        /\ Range(Append(toClient, "ResponseError")) = Range(toClient) \cup {"ResponseError"}
        /\ Count(Append(toClient, "ResponseError"), "ResponseData") = Count(toClient, "ResponseData")
        /\ Follows(Append(toClient, "ResponseError"), "ResponseEnd", "ResponseError") =>
             Has(toClient, "ResponseEnd")
    BY <2>1, TellsError
  <2>3. QED
    BY <1>1, <2>2 DEF Told, Unended, Terminal
<1>9. ~passthrough /\ todo # << >>
  BY <1>0, <1>2, Idle
    DEF StatesKnown, AfterRequestError, OpeningFailed, AfterResponseError
<1>10. HooksInOrder'
  BY <1>0, <1>1 DEF HooksInOrder
<1>11. HooksRun'
  BY <1>0, <1>1, <1>4, <1>5 DEF HooksRun, Early, Over, Opens
<1>12. PeersAhead'
  BY <1>0, <1>1, <1>4, <1>5, <1>6 DEF PeersAhead, ClientOver, ServerOver
<1>13. RequestDrained'
  BY <1>0, <1>1, <1>5 DEF RequestDrained, ClientOver
<1>14. ResponseTakenTo'
  BY <1>0, <1>1, <1>5, <1>6 DEF ResponseTakenTo, Early, ServerOver
<1>15. SentKnown'
  BY <1>0, <1>1, <1>5, <1>9 DEF SentKnown, Over, Opens
<1>16. MessagesInOrder'
  <2>1. Has(toClient, "ResponseEnd") => "gone" \in {client, server}
    BY <1>7 DEF Told, Unended, Terminal, Has
  <2>2. ResponseInOrder'
    BY <1>1, <1>8, <2>1 DEF ResponseInOrder, ResponseOrdered
  <2>3. QED
    BY <1>0, <1>1, <2>2 DEF MessagesInOrder, RequestInOrder
<1>17. ToldWhen'
  BY <1>0, <1>1, <1>5 DEF ToldWhen, Early
<1>18. ToldSoFar'
  BY <1>0, <1>1, <1>5 DEF ToldSoFar, Has
<1>19. SentSoFar'
  BY <1>0, <1>1, <1>6 DEF SentSoFar, ClientOver
<1>20. BodiesWhole'
  BY <1>0, <1>1, <1>8 DEF BodiesWhole, Has
<1>21. RequestChunks'
  BY <1>0, <1>1, <1>5 DEF RequestChunks
<1>22. ResponseChunks'
  BY <1>0, <1>1, <1>6 DEF ResponseChunks
<1>23. QED
  BY <1>10, <1>11, <1>12, <1>13, <1>14, <1>15, <1>16, <1>17, <1>18, <1>19, <1>20, <1>21,
     <1>22 DEF MInv

\* The request of a flow that is killed could not be sent.
LEMMA KilledUnopenedInv ==
  ASSUME IInv, MInv, CloseAfter("ResponseError"), Killed, todo \in OpeningFailed
  PROVE  MInv'
<1>0. /\ TypeOK /\ ProgramsOnly /\ StatesKnown /\ SentLater /\ AtFirst /\ GoneIsLast
      /\ HooksInOrder /\ HooksRun
      /\ PeersAhead /\ RequestDrained /\ ResponseTakenTo /\ SentKnown
      /\ MessagesInOrder /\ ToldWhen /\ ToldSoFar /\ SentSoFar
      /\ BodiesWhole /\ RequestChunks /\ ResponseChunks
  BY DEF IInv, MInv
<1>1. /\ UNCHANGED <<body, queue, toServer, hooks, passthrough, client, server>>
      /\ UNCHANGED <<chunks>>
      /\ toClient' = Append(toClient, "ResponseError")
      /\ cstate' = "errored" /\ sstate' = "errored"
  BY DEF CloseAfter, CloseAfterError, states, sent, ends, peers
<1>2. todo \in OpeningFailed
  BY <1>1 DEF OpeningFailed
<1>3. todo \notin Opens \cup Reopened \cup Ending \cup Routing \cup Responding \cup
              ResponseHook \cup Finishing \cup KillError \cup Killing \cup Asked \cup
              Connecting \cup RequestErrorHook \cup AfterRequestError \cup
              ResponseErrorHook \cup AfterResponseError \cup Headed \cup Oversized \cup
              Unanswering
  BY <1>2, Within, OpeningFailedOnly DEF Opens
<1>4. todo' \in Abandoning
  <2>1. todo \in Programs /\ todo # << >>
    BY <1>0 DEF ProgramsOnly, CloseAfter, At
  <2>2. todo' = Tail(todo)
    BY <2>1, Thens DEF CloseAfter, Then
  <2>3. CASE todo = <<"close_after_ResponseError", "abandon_request", "expect_response">>
    <3>1. todo' = <<"abandon_request", "expect_response">>
      BY <2>2, <2>3
    <3>2. QED
      BY <3>1 DEF Abandoning
  <2>4. CASE todo = <<"close_after_ResponseError", "abandon_request", "replay_request">>
    <3>1. todo' = <<"abandon_request", "replay_request">>
      BY <2>2, <2>4
    <3>2. QED
      BY <3>1 DEF Abandoning
  <2>5. QED
    BY <1>2, <2>3, <2>4 DEF OpeningFailed
<1>5. todo' \notin Reopened \cup Ending \cup Routing \cup Responding \cup ResponseHook \cup
              Finishing \cup KillError \cup Killing \cup Asked \cup Connecting \cup
              RequestErrorHook \cup AfterRequestError \cup ResponseErrorHook \cup
              AfterResponseError \cup Headed \cup Oversized \cup Unanswering
  BY <1>4, Within, AbandoningOnly DEF Opens
<1>6. (Sent' <=> Sent)
  BY <1>1 DEF Sent, Told, Has
<1>7. /\ ~Told /\ ~Has(toClient, "ResponseHeaders") /\ ~Has(hooks, "responseheaders")
      /\ cstate \in {"wait", "consume"} /\ sstate \in {"uninitialized", "wait"}
      /\ ~Sent
  <2>1. cstate \in {"wait", "consume"} /\ sstate \in {"uninitialized", "wait"} /\ ~Sent
    BY <1>0, <1>2 DEF StatesKnown, SentLater
  <2>2. ~Told
    BY <1>0, <2>1 DEF ToldWhen
  <2>3. ~Has(toClient, "ResponseHeaders")
    BY <1>0, <2>1, <2>2 DEF ToldSoFar
  <2>4. todo \notin Headed \cup KillError \cup Killing \cup ResponseHook \cup Finishing
    BY <1>3
  <2>5. ~Has(hooks, "responseheaders")
    BY <1>0, <2>1, <2>4 DEF HooksRun, Early
  <2>6. QED
    BY <2>1, <2>2, <2>3, <2>5
<1>8. /\ toClient' \in Seq(ToClient) /\ ResponseOrdered(toClient')
      /\ Range(toClient') = Range(toClient) \cup {"ResponseError"}
      /\ Count(toClient', "ResponseData") = Count(toClient, "ResponseData")
      /\ Follows(toClient', "ResponseEnd", "ResponseError") => Has(toClient, "ResponseEnd")
      /\ Told'
  <2>1. toClient \in Seq(ToClient) /\ ResponseOrdered(toClient)
    BY <1>0 DEF TypeOK, ToClient, MessagesInOrder, ResponseInOrder, ResponseOrdered
  <2>2. /\ Append(toClient, "ResponseError") \in Seq(ToClient)
        /\ ResponseOrdered(Append(toClient, "ResponseError"))
        /\ Range(Append(toClient, "ResponseError")) = Range(toClient) \cup {"ResponseError"}
        /\ Count(Append(toClient, "ResponseError"), "ResponseData") = Count(toClient, "ResponseData")
        /\ Follows(Append(toClient, "ResponseError"), "ResponseEnd", "ResponseError") =>
             Has(toClient, "ResponseEnd")
    BY <2>1, TellsError
  <2>3. QED
    BY <1>1, <2>2 DEF Told, Unended, Terminal
<1>9. ~passthrough /\ todo # << >>
  BY <1>0, <1>2, Idle
    DEF StatesKnown, AfterRequestError, OpeningFailed, AfterResponseError
<1>10. HooksInOrder'
  BY <1>0, <1>1 DEF HooksInOrder
<1>11. HooksRun'
  BY <1>0, <1>1, <1>5, <1>7, Within DEF HooksRun, Early, Over, Opens
<1>12. PeersAhead'
  BY <1>0, <1>1, <1>6, <1>9 DEF PeersAhead, ClientOver, ServerOver
<1>13. RequestDrained'
  BY <1>0, <1>1, <1>5 DEF RequestDrained, ClientOver
<1>14. ResponseTakenTo'
  BY <1>0, <1>1, <1>5, <1>6 DEF ResponseTakenTo, Early, ServerOver
<1>15. SentKnown'
  BY <1>0, <1>1, <1>5, <1>9 DEF SentKnown, Over, Opens
<1>16. MessagesInOrder'
  <2>1. Has(toClient, "ResponseEnd") => "gone" \in {client, server}
    BY <1>7 DEF Told, Unended, Terminal, Has
  <2>2. ResponseInOrder'
    BY <1>1, <1>8, <2>1 DEF ResponseInOrder, ResponseOrdered
  <2>3. QED
    BY <1>0, <1>1, <2>2 DEF MessagesInOrder, RequestInOrder
<1>17. ToldWhen'
  BY <1>0, <1>1, <1>5 DEF ToldWhen, Early
<1>18. ToldSoFar'
  BY <1>0, <1>1, <1>7, <1>8 DEF ToldSoFar, Has
<1>19. SentSoFar'
  BY <1>0, <1>1, <1>6 DEF SentSoFar, ClientOver
<1>20. BodiesWhole'
  BY <1>0, <1>1, <1>8 DEF BodiesWhole, Has
<1>21. RequestChunks'
  BY <1>0, <1>1, <1>5 DEF RequestChunks
<1>22. ResponseChunks'
  BY <1>0, <1>1, <1>6 DEF ResponseChunks
<1>23. QED
  BY <1>10, <1>11, <1>12, <1>13, <1>14, <1>15, <1>16, <1>17, <1>18, <1>19, <1>20, <1>21,
     <1>22 DEF MInv

\* The client has left.
LEMMA ClosedByClientInv ==
  ASSUME IInv, MInv, CloseAfter("RequestError"), ~Killed
  PROVE  MInv'
<1>0. /\ TypeOK /\ ProgramsOnly /\ StatesKnown /\ SentLater /\ AtFirst /\ GoneIsLast
      /\ HooksInOrder /\ HooksRun
      /\ PeersAhead /\ RequestDrained /\ ResponseTakenTo /\ SentKnown
      /\ MessagesInOrder /\ ToldWhen /\ ToldSoFar /\ SentSoFar
      /\ BodiesWhole /\ RequestChunks /\ ResponseChunks
  BY DEF IInv, MInv
<1>1. /\ UNCHANGED <<cstate, sstate, body, queue, toServer, hooks>>
      /\ UNCHANGED <<passthrough, client, server, chunks>>
      /\ toClient' = ForwardError("RequestError")
  BY DEF CloseAfter, CloseAfterError, states, sent, ends, peers
<1>2. /\ todo \in Programs /\ todo # << >>
      /\ todo = <<"close_after_RequestError">>
  <2>1. todo \in Programs /\ todo # << >> /\ (Head(todo) = "close_after_RequestError")
    BY <1>0 DEF ProgramsOnly, CloseAfter, CloseAfterError, At
  <2>2. QED
    BY <2>1, Whereabouts
<1>3. todo \in AfterRequestError
  BY <1>2 DEF AfterRequestError
<1>4. todo \notin Opens \cup Reopened \cup Ending \cup Routing \cup Responding \cup
              ResponseHook \cup Finishing \cup KillError \cup Killing \cup Asked \cup
              Connecting \cup RequestErrorHook \cup ResponseErrorHook \cup
              AfterResponseError \cup Headed \cup Oversized \cup Unanswering
  BY <1>3, Within, AfterRequestErrorOnly DEF Opens
<1>5. todo' = << >>
  BY <1>2, <1>1, Thens DEF CloseAfter, Then, CloseAfterError
<1>6. todo' \notin Opens \cup Reopened \cup Ending \cup Routing \cup Responding \cup
              ResponseHook \cup Finishing \cup KillError \cup Killing \cup Asked \cup
              Connecting \cup RequestErrorHook \cup AfterRequestError \cup
              ResponseErrorHook \cup AfterResponseError \cup Headed \cup Oversized \cup
              Unanswering
  BY <1>5, Idle
<1>7. (Sent' <=> Sent)
  BY <1>1 DEF Sent, Told, Has
<1>8. toClient' = toClient
  BY <1>1 DEF ForwardError
<1>9. Told' <=> Told
  BY <1>8 DEF Told
<1>10. ~passthrough /\ todo # << >>
  BY <1>0, <1>3, Idle
    DEF StatesKnown, AfterRequestError, OpeningFailed, AfterResponseError
<1>11. HooksInOrder'
  BY <1>0, <1>1 DEF HooksInOrder
<1>12. HooksRun'
  BY <1>0, <1>1, <1>2, <1>4, <1>5, <1>6 DEF HooksRun, Early, Over, Opens
<1>13. PeersAhead'
  BY <1>0, <1>1, <1>2, <1>7 DEF PeersAhead, ClientOver, ServerOver
<1>14. RequestDrained'
  BY <1>0, <1>1, <1>6 DEF RequestDrained, ClientOver
<1>15. ResponseTakenTo'
  BY <1>0, <1>1, <1>4, <1>6, <1>7 DEF ResponseTakenTo, Early, ServerOver, Awaited
<1>16. SentKnown'
  BY <1>0, <1>1, <1>3, <1>4, <1>6, <1>7 DEF SentKnown, Over, Opens
<1>17. MessagesInOrder'
  BY <1>0, <1>1, <1>8 DEF MessagesInOrder, ResponseInOrder, RequestInOrder
<1>18. ToldWhen'
  BY <1>0, <1>1, <1>6, <1>7, <1>9 DEF ToldWhen, Early
<1>19. ToldSoFar'
  BY <1>0, <1>1, <1>4, <1>6, <1>8, <1>9 DEF ToldSoFar
<1>20. SentSoFar'
  BY <1>0, <1>1, <1>7 DEF SentSoFar, ClientOver
<1>21. BodiesWhole'
  BY <1>0, <1>1, <1>8 DEF BodiesWhole
<1>22. RequestChunks'
  BY <1>0, <1>1, <1>4, <1>6 DEF RequestChunks
<1>23. ResponseChunks'
  BY <1>0, <1>1, <1>4, <1>7, <1>8 DEF ResponseChunks
<1>24. QED
  BY <1>11, <1>12, <1>13, <1>14, <1>15, <1>16, <1>17, <1>18, <1>19, <1>20, <1>21, <1>22,
     <1>23 DEF MInv

\* The request could not be sent.
LEMMA UnopenedInv ==
  ASSUME IInv, MInv, CloseAfter("ResponseError"), ~Killed, todo \in OpeningFailed
  PROVE  MInv'
<1>0. /\ TypeOK /\ ProgramsOnly /\ StatesKnown /\ SentLater /\ AtFirst /\ GoneIsLast
      /\ HooksInOrder /\ HooksRun
      /\ PeersAhead /\ RequestDrained /\ ResponseTakenTo /\ SentKnown
      /\ MessagesInOrder /\ ToldWhen /\ ToldSoFar /\ SentSoFar
      /\ BodiesWhole /\ RequestChunks /\ ResponseChunks
  BY DEF IInv, MInv
<1>1. /\ UNCHANGED <<cstate, body, queue, toServer, hooks, passthrough, client>>
      /\ UNCHANGED <<server, chunks>>
      /\ toClient' = ForwardError("ResponseError")
      /\ sstate' = "errored"
  BY DEF CloseAfter, CloseAfterError, states, sent, ends, peers
<1>2. todo \in OpeningFailed
  BY <1>1 DEF OpeningFailed
<1>3. todo \notin Opens \cup Reopened \cup Ending \cup Routing \cup Responding \cup
              ResponseHook \cup Finishing \cup KillError \cup Killing \cup Asked \cup
              Connecting \cup RequestErrorHook \cup AfterRequestError \cup
              ResponseErrorHook \cup AfterResponseError \cup Headed \cup Oversized \cup
              Unanswering
  BY <1>2, Within, OpeningFailedOnly DEF Opens
<1>4. todo' \in Abandoning
  <2>1. todo \in Programs /\ todo # << >>
    BY <1>0 DEF ProgramsOnly, CloseAfter, At
  <2>2. todo' = Tail(todo)
    BY <2>1, Thens DEF CloseAfter, Then
  <2>3. CASE todo = <<"close_after_ResponseError", "abandon_request", "expect_response">>
    <3>1. todo' = <<"abandon_request", "expect_response">>
      BY <2>2, <2>3
    <3>2. QED
      BY <3>1 DEF Abandoning
  <2>4. CASE todo = <<"close_after_ResponseError", "abandon_request", "replay_request">>
    <3>1. todo' = <<"abandon_request", "replay_request">>
      BY <2>2, <2>4
    <3>2. QED
      BY <3>1 DEF Abandoning
  <2>5. QED
    BY <1>2, <2>3, <2>4 DEF OpeningFailed
<1>5. todo' \notin Reopened \cup Ending \cup Routing \cup Responding \cup ResponseHook \cup
              Finishing \cup KillError \cup Killing \cup Asked \cup Connecting \cup
              RequestErrorHook \cup AfterRequestError \cup ResponseErrorHook \cup
              AfterResponseError \cup Headed \cup Oversized \cup Unanswering
  BY <1>4, Within, AbandoningOnly DEF Opens
<1>6. (Sent' <=> Sent)
  BY <1>1 DEF Sent, Told, Has
<1>7. /\ ~Told /\ ~Has(toClient, "ResponseHeaders") /\ ~Has(hooks, "responseheaders")
      /\ cstate \in {"wait", "consume"} /\ sstate \in {"uninitialized", "wait"}
      /\ ~Sent
  <2>1. cstate \in {"wait", "consume"} /\ sstate \in {"uninitialized", "wait"} /\ ~Sent
    BY <1>0, <1>2 DEF StatesKnown, SentLater
  <2>2. ~Told
    BY <1>0, <2>1 DEF ToldWhen
  <2>3. ~Has(toClient, "ResponseHeaders")
    BY <1>0, <2>1, <2>2 DEF ToldSoFar
  <2>4. todo \notin Headed \cup KillError \cup Killing \cup ResponseHook \cup Finishing
    BY <1>3
  <2>5. ~Has(hooks, "responseheaders")
    BY <1>0, <2>1, <2>4 DEF HooksRun, Early
  <2>6. QED
    BY <2>1, <2>2, <2>3, <2>5
<1>8. toClient' = Append(toClient, "ResponseError")
  BY <1>1, <1>7 DEF ForwardError
<1>9. /\ toClient' \in Seq(ToClient) /\ ResponseOrdered(toClient')
      /\ Range(toClient') = Range(toClient) \cup {"ResponseError"}
      /\ Count(toClient', "ResponseData") = Count(toClient, "ResponseData")
      /\ Follows(toClient', "ResponseEnd", "ResponseError") => Has(toClient, "ResponseEnd")
      /\ Told'
  <2>1. toClient \in Seq(ToClient) /\ ResponseOrdered(toClient)
    BY <1>0 DEF TypeOK, ToClient, MessagesInOrder, ResponseInOrder, ResponseOrdered
  <2>2. /\ Append(toClient, "ResponseError") \in Seq(ToClient)
        /\ ResponseOrdered(Append(toClient, "ResponseError"))
        /\ Range(Append(toClient, "ResponseError")) = Range(toClient) \cup {"ResponseError"}
        /\ Count(Append(toClient, "ResponseError"), "ResponseData") = Count(toClient, "ResponseData")
        /\ Follows(Append(toClient, "ResponseError"), "ResponseEnd", "ResponseError") =>
             Has(toClient, "ResponseEnd")
    BY <2>1, TellsError
  <2>3. QED
    BY <1>8, <2>2 DEF Told, Unended, Terminal
<1>10. ~passthrough /\ todo # << >>
  BY <1>0, <1>2, Idle
    DEF StatesKnown, AfterRequestError, OpeningFailed, AfterResponseError
<1>11. HooksInOrder'
  BY <1>0, <1>1 DEF HooksInOrder
<1>12. HooksRun'
  BY <1>0, <1>1, <1>2, <1>3, <1>5, <1>7, Within DEF HooksRun, Early, Over, Opens
<1>13. PeersAhead'
  BY <1>0, <1>1, <1>6, <1>10 DEF PeersAhead, ClientOver, ServerOver
<1>14. RequestDrained'
  BY <1>0, <1>1, <1>5, <1>7 DEF RequestDrained, ClientOver
<1>15. ResponseTakenTo'
  BY <1>0, <1>1, <1>5, <1>6 DEF ResponseTakenTo, Early, ServerOver
<1>16. SentKnown'
  BY <1>0, <1>1, <1>5, <1>6, <1>10 DEF SentKnown, Over, Opens
<1>17. MessagesInOrder'
  <2>1. Has(toClient, "ResponseEnd") => "gone" \in {client, server}
    BY <1>7 DEF Told, Unended, Terminal, Has
  <2>2. ResponseInOrder'
    BY <1>1, <1>9, <2>1 DEF ResponseInOrder, ResponseOrdered
  <2>3. QED
    BY <1>0, <1>1, <2>2 DEF MessagesInOrder, RequestInOrder
<1>18. ToldWhen'
  BY <1>0, <1>1, <1>5 DEF ToldWhen, Early
<1>19. ToldSoFar'
  BY <1>0, <1>1, <1>7, <1>9 DEF ToldSoFar, Has
<1>20. SentSoFar'
  BY <1>0, <1>1, <1>6 DEF SentSoFar, ClientOver
<1>21. BodiesWhole'
  BY <1>0, <1>1, <1>9 DEF BodiesWhole, Has
<1>22. RequestChunks'
  BY <1>0, <1>1, <1>3, <1>5 DEF RequestChunks
<1>23. ResponseChunks'
  BY <1>0, <1>1, <1>6 DEF ResponseChunks
<1>24. QED
  BY <1>11, <1>12, <1>13, <1>14, <1>15, <1>16, <1>17, <1>18, <1>19, <1>20, <1>21, <1>22,
     <1>23 DEF MInv

-----------------------------------------------------------------------------
\* The server has failed.
LEMMA ClosedByServerInv ==
  ASSUME IInv, MInv, CloseAfter("ResponseError"), ~Killed, todo \in AfterResponseError
  PROVE  MInv'
<1>0. /\ TypeOK /\ ProgramsOnly /\ StatesKnown /\ SentLater /\ AtFirst /\ GoneIsLast
      /\ HooksInOrder /\ HooksRun
      /\ PeersAhead /\ RequestDrained /\ ResponseTakenTo /\ SentKnown
      /\ MessagesInOrder /\ ToldWhen /\ ToldSoFar /\ SentSoFar
      /\ BodiesWhole /\ RequestChunks /\ ResponseChunks
  BY DEF IInv, MInv
<1>1. /\ UNCHANGED <<cstate, body, queue, toServer, hooks, passthrough, client>>
      /\ UNCHANGED <<server, chunks>>
      /\ toClient' = ForwardError("ResponseError")
      /\ sstate' = "errored"
  BY DEF CloseAfter, CloseAfterError, states, sent, ends, peers
<1>2. todo \in AfterResponseError
  BY <1>1 DEF AfterResponseError
<1>3. todo \notin Opens \cup Reopened \cup Ending \cup Routing \cup Responding \cup
              ResponseHook \cup Finishing \cup KillError \cup Killing \cup Asked \cup
              Connecting \cup RequestErrorHook \cup AfterRequestError \cup
              ResponseErrorHook \cup Headed \cup Oversized \cup Unanswering
  BY <1>2, Within, AfterResponseErrorOnly DEF Opens
<1>4. todo' = << >>
  <2>1. todo \in Programs /\ todo # << >>
    BY <1>0 DEF ProgramsOnly, CloseAfter, At
  <2>2. todo' = Tail(todo)
    BY <2>1, Thens DEF CloseAfter, Then
  <2>3. QED
    BY <1>2, <2>2 DEF AfterResponseError
<1>5. todo' \notin Opens \cup Reopened \cup Ending \cup Routing \cup Responding \cup
              ResponseHook \cup Finishing \cup KillError \cup Killing \cup Asked \cup
              Connecting \cup RequestErrorHook \cup AfterRequestError \cup
              ResponseErrorHook \cup AfterResponseError \cup Headed \cup Oversized \cup
              Unanswering
  BY <1>4, Idle
<1>6. (Sent' <=> Sent)
  BY <1>1 DEF Sent, Told, Has
<1>7. ~Told \/ server = "gone"
  BY <1>0, <1>2 DEF ToldWhen
<1>8. /\ toClient' \in Seq(ToClient) /\ ResponseOrdered(toClient')
      /\ Range(toClient) \subseteq Range(toClient')
      /\ Range(toClient') \subseteq Range(toClient) \cup {"ResponseError"}
      /\ Count(toClient', "ResponseData") = Count(toClient, "ResponseData")
      /\ Follows(toClient', "ResponseEnd", "ResponseError") => Has(toClient, "ResponseEnd")
      /\ Told => Told'
  <2>1. toClient \in Seq(ToClient) /\ ResponseOrdered(toClient)
    BY <1>0 DEF TypeOK, ToClient, MessagesInOrder, ResponseInOrder, ResponseOrdered
  <2>2. CASE toClient' = toClient
    BY <2>1, <2>2, FollowsHas DEF Told, Unended
  <2>3. CASE toClient' = Append(toClient, "ResponseError")
    <3>1. /\ Append(toClient, "ResponseError") \in Seq(ToClient)
          /\ ResponseOrdered(Append(toClient, "ResponseError"))
          /\ Range(Append(toClient, "ResponseError")) = Range(toClient) \cup {"ResponseError"}
          /\ Count(Append(toClient, "ResponseError"), "ResponseData") = Count(toClient, "ResponseData")
          /\ Follows(Append(toClient, "ResponseError"), "ResponseEnd", "ResponseError") =>
               Has(toClient, "ResponseEnd")
      BY <2>1, TellsError
    <3>2. QED
      BY <2>3, <3>1 DEF Told, Unended, Terminal
  <2>4. QED
    BY <1>1, <2>2, <2>3 DEF ForwardError
<1>9. ~passthrough /\ todo # << >>
  BY <1>0, <1>2, Idle
    DEF StatesKnown, AfterRequestError, OpeningFailed, AfterResponseError
<1>10. ~(cstate = "done" /\ sstate = "uninitialized")
  BY <1>0, <1>3, <1>9 DEF SentKnown
<1>11. HooksInOrder'
  BY <1>0, <1>1 DEF HooksInOrder
<1>12. HooksRun'
  BY <1>0, <1>1, <1>2, <1>3, <1>5, Within DEF HooksRun, Early, Over, Opens
<1>13. PeersAhead'
  BY <1>0, <1>1, <1>4, <1>6 DEF PeersAhead, ClientOver, ServerOver
<1>14. RequestDrained'
  BY <1>0, <1>1, <1>5, <1>10 DEF RequestDrained, ClientOver
<1>15. ResponseTakenTo'
  BY <1>0, <1>1, <1>5, <1>6 DEF ResponseTakenTo, Early, ServerOver
<1>16. SentKnown'
  BY <1>0, <1>1, <1>5, <1>6, <1>9 DEF SentKnown, Over, Opens
<1>17. MessagesInOrder'
  <2>1. Has(toClient, "ResponseEnd") => "gone" \in {client, server}
    BY <1>7 DEF Told, Unended, Terminal, Has
  <2>2. ResponseInOrder'
    BY <1>1, <1>8, <2>1 DEF ResponseInOrder, ResponseOrdered
  <2>3. QED
    BY <1>0, <1>1, <2>2 DEF MessagesInOrder, RequestInOrder
<1>18. ToldWhen'
  BY <1>0, <1>1, <1>5 DEF ToldWhen, Early
<1>19. ToldSoFar'
  BY <1>0, <1>1, <1>5 DEF ToldSoFar, Has
<1>20. SentSoFar'
  BY <1>0, <1>1, <1>6 DEF SentSoFar, ClientOver
<1>21. BodiesWhole'
  BY <1>0, <1>1, <1>8 DEF BodiesWhole, Has
<1>22. RequestChunks'
  BY <1>0, <1>1, <1>3, <1>5 DEF RequestChunks
<1>23. ResponseChunks'
  BY <1>0, <1>1, <1>6 DEF ResponseChunks
<1>24. QED
  BY <1>11, <1>12, <1>13, <1>14, <1>15, <1>16, <1>17, <1>18, <1>19, <1>20, <1>21, <1>22,
     <1>23 DEF MInv

\* The headers of a request that is invalid.
LEMMA InvalidRequestInv ==
  ASSUME IInv, MInv, InvalidRequest
  PROVE  MInv'
<1>0. /\ TypeOK /\ ProgramsOnly /\ StatesKnown /\ SentLater /\ AtFirst /\ GoneIsLast
      /\ HooksInOrder /\ HooksRun
      /\ PeersAhead /\ RequestDrained /\ ResponseTakenTo /\ SentKnown
      /\ MessagesInOrder /\ ToldWhen /\ ToldSoFar /\ SentSoFar
      /\ BodiesWhole /\ RequestChunks /\ ResponseChunks
  BY DEF IInv, MInv
<1>1. /\ UNCHANGED <<cstate, sstate, body, toClient, toServer, hooks, passthrough>>
      /\ UNCHANGED <<client, server, chunks>>
      /\ todo = << >> /\ queue # << >> /\ Head(queue) = "RequestHeaders"
      /\ queue' = Tail(queue) /\ ~passthrough
  BY DEF InvalidRequest, FirstEvent, Handle, states, sent, ends, peers
<1>2. todo \notin Opens \cup Reopened \cup Ending \cup Routing \cup Responding \cup
              ResponseHook \cup Finishing \cup KillError \cup Killing \cup Asked \cup
              Connecting \cup RequestErrorHook \cup AfterRequestError \cup
              ResponseErrorHook \cup AfterResponseError \cup Headed \cup Oversized \cup
              Unanswering
  BY <1>1, Idle
<1>3. todo' \in Invalid
  BY <1>1 DEF InvalidRequest, Invalid
<1>4. todo' \notin Opens \cup Reopened \cup Ending \cup Routing \cup Responding \cup
              ResponseHook \cup Finishing \cup KillError \cup Killing \cup Asked \cup
              Connecting \cup RequestErrorHook \cup AfterRequestError \cup
              ResponseErrorHook \cup AfterResponseError \cup Headed \cup Oversized \cup
              Unanswering
  BY <1>3, Within, InvalidOnly DEF Opens
<1>5. Took("RequestHeaders")
  BY <1>1, Taken
<1>6. (Sent' <=> Sent) /\ (Told' <=> Told)
  BY <1>1 DEF Sent, Told, Has
<1>7. /\ cstate = "wait" /\ sstate = "uninitialized" /\ ~Sent /\ toServer = << >>
      /\ toClient = << >> /\ Range(toClient) = {} /\ Range(hooks) = {} /\ ~Told
  <2>1. cstate = "wait"
    BY DEF InvalidRequest, FirstEvent
  <2>2. sstate = "uninitialized" /\ ~Sent /\ hooks = << >> /\ toClient = << >>
    BY <1>0, <1>1, <1>2, <2>1 DEF StatesKnown, SentLater, AtFirst, Opens
  <2>3. QED
    BY <1>0, <2>1, <2>2, RangeEmpty DEF SentSoFar, Told, Unended
<1>8. /\ Count(queue', "RequestData") = Count(queue, "RequestData")
      /\ Count(queue', "ResponseData") = Count(queue, "ResponseData")
  BY <1>0, <1>1, TookCounts DEF TypeOK
<1>9. Awaited => Awaited'
  BY <1>1, <1>5, TookOther
<1>10. HooksInOrder'
  BY <1>0, <1>1 DEF HooksInOrder
<1>11. HooksRun'
  BY <1>0, <1>1, <1>4, <1>7 DEF HooksRun, Early, Over, Opens, Has
<1>12. PeersAhead'
  BY TookPeers, <1>0, <1>1, <1>5, <1>6
<1>13. RequestDrained'
  BY <1>0, <1>1, <1>4, <1>5 DEF RequestDrained, ClientOver, Took
<1>14. ResponseTakenTo'
  BY <1>0, <1>1, <1>2, <1>4, <1>5, <1>6, <1>9
    DEF ResponseTakenTo, Early, ServerOver, Took
<1>15. SentKnown'
  BY <1>0, <1>1, <1>2, <1>4, <1>6 DEF SentKnown, Over, Opens
<1>16. MessagesInOrder'
  BY <1>0, <1>1 DEF MessagesInOrder, ResponseInOrder, RequestInOrder
<1>17. ToldWhen'
  BY <1>0, <1>1, <1>4, <1>6 DEF ToldWhen, Early
<1>18. ToldSoFar'
  BY <1>0, <1>1, <1>2, <1>4, <1>6 DEF ToldSoFar
<1>19. SentSoFar'
  BY <1>0, <1>1, <1>6 DEF SentSoFar, ClientOver
<1>20. BodiesWhole'
  BY <1>0, <1>1 DEF BodiesWhole
<1>21. RequestChunks'
  BY <1>0, <1>1, <1>2, <1>4, <1>8 DEF RequestChunks
<1>22. ResponseChunks'
  BY <1>0, <1>1, <1>5, <1>7 DEF ResponseChunks, Took
<1>23. QED
  BY <1>10, <1>11, <1>12, <1>13, <1>14, <1>15, <1>16, <1>17, <1>18, <1>19, <1>20, <1>21,
     <1>22 DEF MInv

\* The headers of a request.
LEMMA AnnouncedRequestInv ==
  ASSUME IInv, MInv, AnnouncedRequest
  PROVE  MInv'
<1>0. /\ TypeOK /\ ProgramsOnly /\ StatesKnown /\ SentLater /\ AtFirst /\ GoneIsLast
      /\ HooksInOrder /\ HooksRun
      /\ PeersAhead /\ RequestDrained /\ ResponseTakenTo /\ SentKnown
      /\ MessagesInOrder /\ ToldWhen /\ ToldSoFar /\ SentSoFar
      /\ BodiesWhole /\ RequestChunks /\ ResponseChunks
  BY DEF IInv, MInv
<1>1. /\ UNCHANGED <<cstate, sstate, body, toClient, toServer, hooks, passthrough>>
      /\ UNCHANGED <<client, server, chunks>>
      /\ todo = << >> /\ queue # << >> /\ Head(queue) = "RequestHeaders"
      /\ queue' = Tail(queue) /\ ~passthrough
  BY DEF AnnouncedRequest, FirstEvent, Handle, states, sent, ends, peers
<1>2. todo \notin Opens \cup Reopened \cup Ending \cup Routing \cup Responding \cup
              ResponseHook \cup Finishing \cup KillError \cup Killing \cup Asked \cup
              Connecting \cup RequestErrorHook \cup AfterRequestError \cup
              ResponseErrorHook \cup AfterResponseError \cup Headed \cup Oversized \cup
              Unanswering
  BY <1>1, Idle
<1>3. todo' \in Announced
  BY <1>1 DEF AnnouncedRequest, Announced
<1>4. todo' \notin Opens \cup Reopened \cup Ending \cup Routing \cup Responding \cup
              ResponseHook \cup Finishing \cup KillError \cup Killing \cup Asked \cup
              Connecting \cup RequestErrorHook \cup AfterRequestError \cup
              ResponseErrorHook \cup AfterResponseError \cup Headed \cup Oversized \cup
              Unanswering
  BY <1>3, Within, AnnouncedOnly DEF Opens
<1>5. Took("RequestHeaders")
  BY <1>1, Taken
<1>6. (Sent' <=> Sent) /\ (Told' <=> Told)
  BY <1>1 DEF Sent, Told, Has
<1>7. /\ cstate = "wait" /\ sstate = "uninitialized" /\ ~Sent /\ toServer = << >>
      /\ toClient = << >> /\ Range(toClient) = {} /\ Range(hooks) = {} /\ ~Told
  <2>1. cstate = "wait"
    BY DEF AnnouncedRequest, FirstEvent
  <2>2. sstate = "uninitialized" /\ ~Sent /\ hooks = << >> /\ toClient = << >>
    BY <1>0, <1>1, <1>2, <2>1 DEF StatesKnown, SentLater, AtFirst, Opens
  <2>3. QED
    BY <1>0, <2>1, <2>2, RangeEmpty DEF SentSoFar, Told, Unended
<1>8. /\ Count(queue', "RequestData") = Count(queue, "RequestData")
      /\ Count(queue', "ResponseData") = Count(queue, "ResponseData")
  BY <1>0, <1>1, TookCounts DEF TypeOK
<1>9. Awaited => Awaited'
  BY <1>1, <1>5, TookOther
<1>10. HooksInOrder'
  BY <1>0, <1>1 DEF HooksInOrder
<1>11. HooksRun'
  BY <1>0, <1>1, <1>4, <1>7 DEF HooksRun, Early, Over, Opens, Has
<1>12. PeersAhead'
  BY TookPeers, <1>0, <1>1, <1>5, <1>6
<1>13. RequestDrained'
  BY <1>0, <1>1, <1>4, <1>5 DEF RequestDrained, ClientOver, Took
<1>14. ResponseTakenTo'
  BY <1>0, <1>1, <1>2, <1>4, <1>5, <1>6, <1>9
    DEF ResponseTakenTo, Early, ServerOver, Took
<1>15. SentKnown'
  BY <1>0, <1>1, <1>2, <1>4, <1>6 DEF SentKnown, Over, Opens
<1>16. MessagesInOrder'
  BY <1>0, <1>1 DEF MessagesInOrder, ResponseInOrder, RequestInOrder
<1>17. ToldWhen'
  BY <1>0, <1>1, <1>4, <1>6 DEF ToldWhen, Early
<1>18. ToldSoFar'
  BY <1>0, <1>1, <1>2, <1>4, <1>6 DEF ToldSoFar
<1>19. SentSoFar'
  BY <1>0, <1>1, <1>6 DEF SentSoFar, ClientOver
<1>20. BodiesWhole'
  BY <1>0, <1>1 DEF BodiesWhole
<1>21. RequestChunks'
  BY <1>0, <1>1, <1>2, <1>4, <1>8 DEF RequestChunks
<1>22. ResponseChunks'
  BY <1>0, <1>1, <1>5, <1>7 DEF ResponseChunks, Took
<1>23. QED
  BY <1>10, <1>11, <1>12, <1>13, <1>14, <1>15, <1>16, <1>17, <1>18, <1>19, <1>20, <1>21,
     <1>22 DEF MInv

\* The headers of a CONNECT request.
LEMMA ConnectRequestInv ==
  ASSUME IInv, MInv, ConnectRequest
  PROVE  MInv'
<1>0. /\ TypeOK /\ ProgramsOnly /\ StatesKnown /\ SentLater /\ AtFirst /\ GoneIsLast
      /\ HooksInOrder /\ HooksRun
      /\ PeersAhead /\ RequestDrained /\ ResponseTakenTo /\ SentKnown
      /\ MessagesInOrder /\ ToldWhen /\ ToldSoFar /\ SentSoFar
      /\ BodiesWhole /\ RequestChunks /\ ResponseChunks
  BY DEF IInv, MInv
<1>1. /\ UNCHANGED <<sstate, body, toClient, toServer, hooks, passthrough, client>>
      /\ UNCHANGED <<server, chunks>>
      /\ todo = << >> /\ queue # << >> /\ Head(queue) = "RequestHeaders"
      /\ queue' = Tail(queue) /\ ~passthrough
      /\ cstate' = "done"
  BY DEF ConnectRequest, FirstEvent, Handle, states, sent, ends, peers
<1>2. todo \notin Opens \cup Reopened \cup Ending \cup Routing \cup Responding \cup
              ResponseHook \cup Finishing \cup KillError \cup Killing \cup Asked \cup
              Connecting \cup RequestErrorHook \cup AfterRequestError \cup
              ResponseErrorHook \cup AfterResponseError \cup Headed \cup Oversized \cup
              Unanswering
  BY <1>1, Idle
<1>3. todo' \in Asked
  BY <1>1 DEF ConnectRequest, Asked
<1>4. todo' \notin Opens \cup Reopened \cup Ending \cup Routing \cup Responding \cup
              ResponseHook \cup Finishing \cup KillError \cup Killing \cup
              Connecting \cup RequestErrorHook \cup AfterRequestError \cup
              ResponseErrorHook \cup AfterResponseError \cup Headed \cup Oversized \cup
              Unanswering
  BY <1>3, Within, AskedOnly DEF Opens
<1>5. Took("RequestHeaders")
  BY <1>1, Taken
<1>6. (Sent' <=> Sent) /\ (Told' <=> Told)
  BY <1>1 DEF Sent, Told, Has
<1>7. /\ cstate = "wait" /\ sstate = "uninitialized" /\ ~Sent /\ toServer = << >>
      /\ toClient = << >> /\ Range(toClient) = {} /\ Range(hooks) = {} /\ ~Told
  <2>1. cstate = "wait"
    BY DEF ConnectRequest, FirstEvent
  <2>2. sstate = "uninitialized" /\ ~Sent /\ hooks = << >> /\ toClient = << >>
    BY <1>0, <1>1, <1>2, <2>1 DEF StatesKnown, SentLater, AtFirst, Opens
  <2>3. QED
    BY <1>0, <2>1, <2>2, RangeEmpty DEF SentSoFar, Told, Unended
<1>8. /\ Count(queue', "RequestData") = Count(queue, "RequestData")
      /\ Count(queue', "ResponseData") = Count(queue, "ResponseData")
  BY <1>0, <1>1, TookCounts DEF TypeOK
<1>9. Awaited => Awaited'
  BY <1>1, <1>5, TookOther
<1>10. HooksInOrder'
  BY <1>0, <1>1 DEF HooksInOrder
<1>11. HooksRun'
  BY <1>0, <1>1, <1>4, <1>7 DEF HooksRun, Early, Over, Opens, Has
<1>12. PeersAhead'
  BY TookPeers, <1>0, <1>1, <1>5, <1>6
<1>13. RequestDrained'
  BY <1>0, <1>1, <1>4, <1>7 DEF RequestDrained, ClientOver, Took
<1>14. ResponseTakenTo'
  BY <1>0, <1>1, <1>2, <1>4, <1>5, <1>6, <1>9
    DEF ResponseTakenTo, Early, ServerOver, Took
<1>15. SentKnown'
  BY <1>0, <1>1, <1>2, <1>3, <1>4, <1>6 DEF SentKnown, Over, Opens
<1>16. MessagesInOrder'
  BY <1>0, <1>1 DEF MessagesInOrder, ResponseInOrder, RequestInOrder
<1>17. ToldWhen'
  BY <1>0, <1>6, <1>7 DEF ToldWhen, Early
<1>18. ToldSoFar'
  BY <1>0, <1>1, <1>2, <1>4, <1>6 DEF ToldSoFar
<1>19. SentSoFar'
  BY <1>0, <1>1, <1>6 DEF SentSoFar, ClientOver
<1>20. BodiesWhole'
  BY <1>0, <1>1 DEF BodiesWhole
<1>21. RequestChunks'
  BY <1>0, <1>1, <1>4 DEF RequestChunks
<1>22. ResponseChunks'
  BY <1>0, <1>1, <1>5, <1>7 DEF ResponseChunks, Took
<1>23. QED
  BY <1>10, <1>11, <1>12, <1>13, <1>14, <1>15, <1>16, <1>17, <1>18, <1>19, <1>20, <1>21,
     <1>22 DEF MInv

\* The headers of a request without a destination.
LEMMA LostRequestInv ==
  ASSUME IInv, MInv, LostRequest
  PROVE  MInv'
<1>0. /\ TypeOK /\ ProgramsOnly /\ StatesKnown /\ SentLater /\ AtFirst /\ GoneIsLast
      /\ HooksInOrder /\ HooksRun
      /\ PeersAhead /\ RequestDrained /\ ResponseTakenTo /\ SentKnown
      /\ MessagesInOrder /\ ToldWhen /\ ToldSoFar /\ SentSoFar
      /\ BodiesWhole /\ RequestChunks /\ ResponseChunks
  BY DEF IInv, MInv
<1>1. /\ UNCHANGED <<sstate, body, todo, toServer, hooks, passthrough, client>>
      /\ UNCHANGED <<server, chunks>>
      /\ todo = << >> /\ queue # << >> /\ Head(queue) = "RequestHeaders"
      /\ queue' = Tail(queue) /\ ~passthrough
      /\ toClient' = Append(toClient, "ResponseError")
      /\ cstate' = "errored"
  BY DEF LostRequest, FirstEvent, Handle, states, sent, ends, peers
<1>2. todo \notin Opens \cup Reopened \cup Ending \cup Routing \cup Responding \cup
              ResponseHook \cup Finishing \cup KillError \cup Killing \cup Asked \cup
              Connecting \cup RequestErrorHook \cup AfterRequestError \cup
              ResponseErrorHook \cup AfterResponseError \cup Headed \cup Oversized \cup
              Unanswering
  BY <1>1, Idle
<1>3. Took("RequestHeaders")
  BY <1>1, Taken
<1>4. (Sent' <=> Sent)
  BY <1>1 DEF Sent, Told, Has
<1>5. /\ cstate = "wait" /\ sstate = "uninitialized" /\ ~Sent /\ toServer = << >>
      /\ toClient = << >> /\ Range(toClient) = {} /\ Range(hooks) = {} /\ ~Told
  <2>1. cstate = "wait"
    BY DEF LostRequest, FirstEvent
  <2>2. sstate = "uninitialized" /\ ~Sent /\ hooks = << >> /\ toClient = << >>
    BY <1>0, <1>1, <1>2, <2>1 DEF StatesKnown, SentLater, AtFirst, Opens
  <2>3. QED
    BY <1>0, <2>1, <2>2, RangeEmpty DEF SentSoFar, Told, Unended
<1>6. /\ Count(queue', "RequestData") = Count(queue, "RequestData")
      /\ Count(queue', "ResponseData") = Count(queue, "ResponseData")
  BY <1>0, <1>1, TookCounts DEF TypeOK
<1>7. Awaited => Awaited'
  BY <1>1, <1>3, TookOther
<1>8. /\ toClient' \in Seq(ToClient) /\ ResponseOrdered(toClient')
      /\ Range(toClient') = Range(toClient) \cup {"ResponseError"}
      /\ Count(toClient', "ResponseData") = Count(toClient, "ResponseData")
      /\ Follows(toClient', "ResponseEnd", "ResponseError") => Has(toClient, "ResponseEnd")
      /\ Told'
  <2>1. toClient \in Seq(ToClient) /\ ResponseOrdered(toClient)
    BY <1>0 DEF TypeOK, ToClient, MessagesInOrder, ResponseInOrder, ResponseOrdered
  <2>2. /\ Append(toClient, "ResponseError") \in Seq(ToClient)
        /\ ResponseOrdered(Append(toClient, "ResponseError"))
        /\ Range(Append(toClient, "ResponseError")) = Range(toClient) \cup {"ResponseError"}
        /\ Count(Append(toClient, "ResponseError"), "ResponseData") = Count(toClient, "ResponseData")
        /\ Follows(Append(toClient, "ResponseError"), "ResponseEnd", "ResponseError") =>
             Has(toClient, "ResponseEnd")
    BY <2>1, TellsError
  <2>3. QED
    BY <1>1, <2>2 DEF Told, Unended, Terminal
<1>9. ~Told
  BY <1>5
<1>10. HooksInOrder'
  BY <1>0, <1>1 DEF HooksInOrder
<1>11. HooksRun'
  BY <1>0, <1>1 DEF HooksRun, Early, Over, Opens, Has
<1>12. PeersAhead'
  BY TookPeers, <1>0, <1>1, <1>3, <1>4
<1>13. RequestDrained'
  BY <1>0, <1>1, <1>2 DEF RequestDrained, ClientOver, Took
<1>14. ResponseTakenTo'
  BY <1>0, <1>1, <1>3, <1>4, <1>6, <1>7 DEF ResponseTakenTo, Early, ServerOver, Took
<1>15. SentKnown'
  BY <1>0, <1>1, <1>2, <1>4 DEF SentKnown, Over, Opens
<1>16. MessagesInOrder'
  <2>1. ~Has(toClient, "ResponseEnd")
    BY <1>9 DEF Told, Unended, Terminal, Has
  <2>2. ResponseInOrder'
    BY <1>1, <1>8, <2>1 DEF ResponseInOrder, ResponseOrdered
  <2>3. QED
    BY <1>0, <1>1, <2>2 DEF MessagesInOrder, RequestInOrder
<1>17. ToldWhen'
  BY <1>0, <1>1, <1>2, <1>4, <1>5 DEF ToldWhen, Early
<1>18. ToldSoFar'
  BY <1>0, <1>1, <1>8 DEF ToldSoFar, Has
<1>19. SentSoFar'
  BY <1>0, <1>1, <1>4 DEF SentSoFar, ClientOver
<1>20. BodiesWhole'
  BY <1>0, <1>1, <1>5 DEF BodiesWhole, Has
<1>21. RequestChunks'
  BY <1>0, <1>1, <1>2 DEF RequestChunks
<1>22. ResponseChunks'
  BY <1>0, <1>1, <1>3, <1>5 DEF ResponseChunks, Took
<1>23. QED
  BY <1>10, <1>11, <1>12, <1>13, <1>14, <1>15, <1>16, <1>17, <1>18, <1>19, <1>20, <1>21,
     <1>22 DEF MInv

-----------------------------------------------------------------------------
(* The request. *)

\* A request that is buffered begins.
LEMMA BufferingBeginsInv ==
  ASSUME IInv, MInv, BeginRequest, "request" \notin flow.stream \ bodyless
  PROVE  MInv'
<1>0. /\ TypeOK /\ ProgramsOnly /\ StatesKnown /\ SentLater /\ AtFirst /\ GoneIsLast
      /\ HooksInOrder /\ HooksRun
      /\ PeersAhead /\ RequestDrained /\ ResponseTakenTo /\ SentKnown
      /\ MessagesInOrder /\ ToldWhen /\ ToldSoFar /\ SentSoFar
      /\ BodiesWhole /\ RequestChunks /\ ResponseChunks
  BY DEF IInv, MInv
<1>1. /\ UNCHANGED <<body, queue, toClient, toServer, hooks, passthrough, client>>
      /\ UNCHANGED <<server, chunks>>
      /\ cstate' = "consume" /\ sstate' = "wait"
  BY DEF BeginRequest, Proceed, states, sent, ends, peers
<1>2. /\ todo \in Programs /\ todo # << >>
      /\ todo = <<"begin_request">>
  <2>1. todo \in Programs /\ todo # << >> /\ (Head(todo) = "begin_request")
    BY <1>0 DEF ProgramsOnly, BeginRequest, Proceed, At
  <2>2. QED
    BY <2>1, Whereabouts
<1>3. todo \in Beginning
  BY <1>2 DEF Beginning
<1>4. todo \notin Opens \cup Reopened \cup Ending \cup Routing \cup Responding \cup
              ResponseHook \cup Finishing \cup KillError \cup Killing \cup Asked \cup
              Connecting \cup RequestErrorHook \cup AfterRequestError \cup
              ResponseErrorHook \cup AfterResponseError \cup Headed \cup Oversized \cup
              Unanswering
  BY <1>3, Within, BeginningOnly DEF Opens
<1>5. todo' = << >>
  BY <1>2, Thens DEF BeginRequest, Then
<1>6. todo' \notin Opens \cup Reopened \cup Ending \cup Routing \cup Responding \cup
              ResponseHook \cup Finishing \cup KillError \cup Killing \cup Asked \cup
              Connecting \cup RequestErrorHook \cup AfterRequestError \cup
              ResponseErrorHook \cup AfterResponseError \cup Headed \cup Oversized \cup
              Unanswering
  BY <1>5, Idle
<1>7. (Sent' <=> Sent) /\ (Told' <=> Told)
  BY <1>1 DEF Sent, Told, Has
<1>8. /\ cstate = "wait" /\ sstate = "uninitialized" /\ ~Sent /\ ~Told
      /\ ~Has(toClient, "ResponseHeaders") /\ ~passthrough
  BY <1>0, <1>3, <1>2 DEF StatesKnown, SentLater, ToldWhen, ToldSoFar
<1>9. HooksInOrder'
  BY <1>0, <1>1 DEF HooksInOrder
<1>10. HooksRun'
  BY <1>0, <1>1, <1>2, <1>4, <1>6, <1>8 DEF HooksRun, Early, Over, Opens
<1>11. PeersAhead'
  BY <1>0, <1>1, <1>2, <1>7 DEF PeersAhead, ClientOver, ServerOver
<1>12. RequestDrained'
  BY <1>1, <1>6 DEF RequestDrained, ClientOver
<1>13. ResponseTakenTo'
  BY <1>0, <1>1, <1>4, <1>6, <1>7, <1>8 DEF ResponseTakenTo, Early, ServerOver, Awaited
<1>14. SentKnown'
  BY <1>1, <1>6, <1>8 DEF SentKnown, Over, Opens
<1>15. MessagesInOrder'
  BY <1>0, <1>1 DEF MessagesInOrder, ResponseInOrder, RequestInOrder
<1>16. ToldWhen'
  BY <1>7, <1>8 DEF ToldWhen, Early
<1>17. ToldSoFar'
  BY <1>0, <1>1, <1>8 DEF ToldSoFar
<1>18. SentSoFar'
  BY <1>0, <1>1, <1>8 DEF SentSoFar, ClientOver
<1>19. BodiesWhole'
  BY <1>0, <1>1 DEF BodiesWhole
<1>20. RequestChunks'
  BY <1>0, <1>1, <1>8 DEF RequestChunks
<1>21. ResponseChunks'
  BY <1>0, <1>1, <1>7, <1>8 DEF ResponseChunks
<1>22. QED
  BY <1>9, <1>10, <1>11, <1>12, <1>13, <1>14, <1>15, <1>16, <1>17, <1>18, <1>19, <1>20,
     <1>21 DEF MInv

\* The server is sent the headers of a request that is streamed from the start.
LEMMA StreamingBeginsInv ==
  ASSUME IInv, MInv, StreamRequest, todo \in Opening
  PROVE  MInv'
<1>0. /\ TypeOK /\ ProgramsOnly /\ StatesKnown /\ SentLater /\ AtFirst /\ GoneIsLast
      /\ HooksInOrder /\ HooksRun
      /\ PeersAhead /\ RequestDrained /\ ResponseTakenTo /\ SentKnown
      /\ MessagesInOrder /\ ToldWhen /\ ToldSoFar /\ SentSoFar
      /\ BodiesWhole /\ RequestChunks /\ ResponseChunks
  BY DEF IInv, MInv
<1>1. /\ UNCHANGED <<sstate, body, queue, toClient, hooks, passthrough, client>>
      /\ UNCHANGED <<server, chunks>>
      /\ toServer' = Append(toServer, "RequestHeaders") /\ cstate' = "stream"
  BY DEF StreamRequest, states, sent, ends, peers
<1>2. todo \in Opening
  BY <1>1 DEF Opening
<1>3. todo \notin Opens \cup Reopened \cup Ending \cup Routing \cup Responding \cup
              ResponseHook \cup Finishing \cup KillError \cup Killing \cup Asked \cup
              Connecting \cup RequestErrorHook \cup AfterRequestError \cup
              ResponseErrorHook \cup AfterResponseError \cup Headed \cup Oversized \cup
              Unanswering
  BY <1>2, Within, OpeningOnly DEF Opens
<1>4. todo' \in Opened
  <2>1. todo = <<"stream_request", "expect_response">>
    BY <1>2 DEF Opening, StreamRequest, At
  <2>2. todo' = <<"expect_response">>
    <3>1. todo \in Programs /\ todo # << >>
      BY <1>0, <2>1 DEF ProgramsOnly
    <3>2. todo' = Tail(todo)
      BY <3>1, Thens DEF StreamRequest, Then
    <3>3. QED
      BY <2>1, <3>2
  <2>3. QED
    BY <2>2 DEF Opened
<1>5. todo' \notin Reopened \cup Ending \cup Routing \cup Responding \cup ResponseHook \cup
              Finishing \cup KillError \cup Killing \cup Asked \cup Connecting \cup
              RequestErrorHook \cup AfterRequestError \cup ResponseErrorHook \cup
              AfterResponseError \cup Headed \cup Oversized \cup Unanswering
  BY <1>4, Within, OpenedOnly DEF Opens
<1>6. (Told' <=> Told)
  BY <1>1 DEF Sent, Told, Has
<1>7. /\ cstate = "wait" /\ sstate = "uninitialized"
      /\ ~Sent /\ ~Told /\ todo # << >>
  BY <1>0, <1>2, Idle DEF StatesKnown, SentLater, ToldWhen, StreamRequest, At
<1>8. /\ toServer' \in Seq(ToServer) /\ RequestOrdered(toServer')
      /\ Range(toServer') = {"RequestHeaders"} /\ Sent'
      /\ Count(toServer', "RequestData") = 0 /\ Count(toServer, "RequestData") = 0
  <2>1. toServer = << >>
    BY <1>0, <1>7 DEF SentSoFar
  <2>2. Append(toServer, "RequestHeaders") = <<"RequestHeaders">>
    BY <2>1
  <2>3. QED
    BY <1>1, <2>1, BeginsRequest, CountEmpty DEF Sent, Has
<1>9. /\ ~Has(toClient, "ResponseHeaders") /\ ~Has(hooks, "responseheaders") /\ ~Has(hooks, "response")
      /\ Count(queue, "ResponseData") = 0 /\ Count(toClient, "ResponseData") = 0
      /\ body["response"] = 0 /\ chunks["response"] = 0
  <2>1. ~Has(toClient, "ResponseHeaders")
    BY <1>0, <1>7 DEF ToldSoFar
  <2>2. ~Has(toClient, "ResponseData")
    BY <1>0, <2>1, FollowsHas DEF MessagesInOrder, ResponseInOrder
  <2>3. body["response"] = 0 /\ chunks["response"] = 0 /\ ~Responded(queue)
    BY <1>0, <1>7 DEF ResponseChunks
  <2>4. ~Has(queue, "ResponseData")
    BY <2>3 DEF Responded, Has, ResponseEvents
  <2>5. ~Has(hooks, "responseheaders") /\ ~Has(hooks, "response")
    BY <1>0, <1>7, <1>3 DEF HooksRun, Early, HooksInOrder
  <2>6. QED
    BY <2>1, <2>2, <2>3, <2>4, <2>5, CountNone
<1>10. HooksInOrder'
  BY <1>0, <1>1 DEF HooksInOrder
<1>11. HooksRun'
  BY <1>0, <1>1, <1>3, <1>5, <1>7, Within DEF HooksRun, Early, Over, Opens
<1>12. PeersAhead'
  BY <1>0, <1>1, <1>7 DEF PeersAhead, ClientOver, ServerOver
<1>13. RequestDrained'
  BY <1>0, <1>1, <1>5 DEF RequestDrained, ClientOver
<1>14. ResponseTakenTo'
  BY <1>0, <1>1, <1>3, <1>5, <1>7, <1>9 DEF ResponseTakenTo, Early, ServerOver, Awaited
<1>15. SentKnown'
  BY <1>0, <1>1, <1>4, <1>8 DEF SentKnown, Over, Opens
<1>16. MessagesInOrder'
  <2>1. RequestInOrder'
    BY <1>8 DEF RequestInOrder, RequestOrdered
  <2>2. ResponseInOrder'
    BY <1>0, <1>1 DEF MessagesInOrder, ResponseInOrder
  <2>3. QED
    BY <2>1, <2>2 DEF MessagesInOrder
<1>17. ToldWhen'
  BY <1>0, <1>6, <1>7 DEF ToldWhen, Early
<1>18. ToldSoFar'
  BY <1>0, <1>1, <1>7 DEF ToldSoFar
<1>19. SentSoFar'
  BY <1>0, <1>8 DEF SentSoFar, ClientOver, Has
<1>20. BodiesWhole'
  BY <1>0, <1>1, <1>8 DEF BodiesWhole, Has
<1>21. RequestChunks'
  BY <1>0, <1>1, <1>7, <1>8 DEF RequestChunks
<1>22. ResponseChunks'
  BY <1>0, <1>1, <1>7 DEF ResponseChunks
<1>23. QED
  BY <1>10, <1>11, <1>12, <1>13, <1>14, <1>15, <1>16, <1>17, <1>18, <1>19, <1>20, <1>21,
     <1>22 DEF MInv

\* The server is sent the headers of a request that is streamed from here on.
LEMMA StreamingTakesOverInv ==
  ASSUME IInv, MInv, StreamRequest, todo \in Reopening
  PROVE  MInv'
<1>0. /\ TypeOK /\ ProgramsOnly /\ StatesKnown /\ SentLater /\ AtFirst /\ GoneIsLast
      /\ HooksInOrder /\ HooksRun
      /\ PeersAhead /\ RequestDrained /\ ResponseTakenTo /\ SentKnown
      /\ MessagesInOrder /\ ToldWhen /\ ToldSoFar /\ SentSoFar
      /\ BodiesWhole /\ RequestChunks /\ ResponseChunks
  BY DEF IInv, MInv
<1>1. /\ UNCHANGED <<sstate, body, queue, toClient, hooks, passthrough, client>>
      /\ UNCHANGED <<server, chunks>>
      /\ toServer' = Append(toServer, "RequestHeaders") /\ cstate' = "stream"
  BY DEF StreamRequest, states, sent, ends, peers
<1>2. todo \in Reopening
  BY <1>1 DEF Reopening
<1>3. todo \notin Opens \cup Reopened \cup Ending \cup Routing \cup Responding \cup
              ResponseHook \cup Finishing \cup KillError \cup Killing \cup Asked \cup
              Connecting \cup RequestErrorHook \cup AfterRequestError \cup
              ResponseErrorHook \cup AfterResponseError \cup Headed \cup Oversized \cup
              Unanswering
  BY <1>2, Within, ReopeningOnly DEF Opens
<1>4. todo' \in Reopened
  <2>1. todo = <<"stream_request", "replay_request">>
    BY <1>2 DEF Reopening, StreamRequest, At
  <2>2. todo' = <<"replay_request">>
    <3>1. todo \in Programs /\ todo # << >>
      BY <1>0, <2>1 DEF ProgramsOnly
    <3>2. todo' = Tail(todo)
      BY <3>1, Thens DEF StreamRequest, Then
    <3>3. QED
      BY <2>1, <3>2
  <2>3. QED
    BY <2>2 DEF Reopened
<1>5. todo' \notin Ending \cup Routing \cup Responding \cup ResponseHook \cup Finishing \cup
              KillError \cup Killing \cup Asked \cup Connecting \cup
              RequestErrorHook \cup AfterRequestError \cup ResponseErrorHook \cup
              AfterResponseError \cup Headed \cup Oversized \cup Unanswering
  BY <1>4, Within, ReopenedOnly DEF Opens
<1>6. (Told' <=> Told)
  BY <1>1 DEF Sent, Told, Has
<1>7. /\ cstate = "consume" /\ sstate = "wait"
      /\ ~Sent /\ ~Told /\ todo # << >>
  BY <1>0, <1>2, Idle DEF StatesKnown, SentLater, ToldWhen, StreamRequest, At
<1>8. /\ toServer' \in Seq(ToServer) /\ RequestOrdered(toServer')
      /\ Range(toServer') = {"RequestHeaders"} /\ Sent'
      /\ Count(toServer', "RequestData") = 0 /\ Count(toServer, "RequestData") = 0
  <2>1. toServer = << >>
    BY <1>0, <1>7 DEF SentSoFar
  <2>2. Append(toServer, "RequestHeaders") = <<"RequestHeaders">>
    BY <2>1
  <2>3. QED
    BY <1>1, <2>1, BeginsRequest, CountEmpty DEF Sent, Has
<1>9. /\ ~Has(toClient, "ResponseHeaders") /\ ~Has(hooks, "responseheaders") /\ ~Has(hooks, "response")
      /\ Count(queue, "ResponseData") = 0 /\ Count(toClient, "ResponseData") = 0
      /\ body["response"] = 0 /\ chunks["response"] = 0
  <2>1. ~Has(toClient, "ResponseHeaders")
    BY <1>0, <1>7 DEF ToldSoFar
  <2>2. ~Has(toClient, "ResponseData")
    BY <1>0, <2>1, FollowsHas DEF MessagesInOrder, ResponseInOrder
  <2>3. body["response"] = 0 /\ chunks["response"] = 0 /\ ~Responded(queue)
    BY <1>0, <1>7 DEF ResponseChunks
  <2>4. ~Has(queue, "ResponseData")
    BY <2>3 DEF Responded, Has, ResponseEvents
  <2>5. ~Has(hooks, "responseheaders") /\ ~Has(hooks, "response")
    BY <1>0, <1>7, <1>3 DEF HooksRun, Early, HooksInOrder
  <2>6. QED
    BY <2>1, <2>2, <2>3, <2>4, <2>5, CountNone
<1>10. HooksInOrder'
  BY <1>0, <1>1 DEF HooksInOrder
<1>11. HooksRun'
  BY <1>0, <1>1, <1>3, <1>5, <1>7, Within DEF HooksRun, Early, Over, Opens
<1>12. PeersAhead'
  BY <1>0, <1>1, <1>7 DEF PeersAhead, ClientOver, ServerOver
<1>13. RequestDrained'
  BY <1>0, <1>1, <1>5 DEF RequestDrained, ClientOver
<1>14. ResponseTakenTo'
  BY <1>0, <1>1, <1>3, <1>5, <1>7, <1>9 DEF ResponseTakenTo, Early, ServerOver, Awaited
<1>15. SentKnown'
  BY <1>0, <1>1, <1>7, <1>8 DEF SentKnown, Over, Opens
<1>16. MessagesInOrder'
  <2>1. RequestInOrder'
    BY <1>8 DEF RequestInOrder, RequestOrdered
  <2>2. ResponseInOrder'
    BY <1>0, <1>1 DEF MessagesInOrder, ResponseInOrder
  <2>3. QED
    BY <2>1, <2>2 DEF MessagesInOrder
<1>17. ToldWhen'
  BY <1>0, <1>6, <1>7 DEF ToldWhen, Early
<1>18. ToldSoFar'
  BY <1>0, <1>1, <1>6, <1>7 DEF ToldSoFar
<1>19. SentSoFar'
  BY <1>0, <1>8 DEF SentSoFar, ClientOver, Has
<1>20. BodiesWhole'
  BY <1>0, <1>1, <1>8 DEF BodiesWhole, Has
<1>21. RequestChunks'
  BY <1>0, <1>1, <1>4, <1>7, <1>8 DEF RequestChunks
<1>22. ResponseChunks'
  BY <1>0, <1>1, <1>7, <1>9 DEF ResponseChunks
<1>23. QED
  BY <1>10, <1>11, <1>12, <1>13, <1>14, <1>15, <1>16, <1>17, <1>18, <1>19, <1>20, <1>21,
     <1>22 DEF MInv

\* A request that could not be sent is given up.
LEMMA AbandonRequestInv ==
  ASSUME IInv, MInv, AbandonRequest
  PROVE  MInv'
<1>0. /\ TypeOK /\ ProgramsOnly /\ StatesKnown /\ SentLater /\ AtFirst /\ GoneIsLast
      /\ HooksInOrder /\ HooksRun
      /\ PeersAhead /\ RequestDrained /\ ResponseTakenTo /\ SentKnown
      /\ MessagesInOrder /\ ToldWhen /\ ToldSoFar /\ SentSoFar
      /\ BodiesWhole /\ RequestChunks /\ ResponseChunks
  BY DEF IInv, MInv
<1>1. /\ UNCHANGED <<sstate, body, queue, toClient, toServer, hooks, passthrough>>
      /\ UNCHANGED <<client, server, chunks>>
      /\ cstate' = "errored"
  BY DEF AbandonRequest, states, sent, ends, peers
<1>2. /\ todo \in Programs /\ todo # << >>
      /\ todo \in {<<"abandon_request", "expect_response">>,
               <<"abandon_request", "replay_request">>}
  <2>1. todo \in Programs /\ todo # << >> /\ (Head(todo) = "abandon_request")
    BY <1>0 DEF ProgramsOnly, AbandonRequest, At
  <2>2. QED
    BY <2>1, Whereabouts
<1>3. todo \in Abandoning
  BY <1>2 DEF Abandoning
<1>4. todo \notin Reopened \cup Ending \cup Routing \cup Responding \cup ResponseHook \cup
              Finishing \cup KillError \cup Killing \cup Asked \cup Connecting \cup
              RequestErrorHook \cup AfterRequestError \cup ResponseErrorHook \cup
              AfterResponseError \cup Headed \cup Oversized \cup Unanswering
  BY <1>3, Within, AbandoningOnly DEF Opens
<1>5. todo' \in Opened \cup Reopened
  <2>1. todo' = Tail(todo)
    BY <1>2, Thens DEF AbandonRequest, Then
  <2>2. CASE todo = <<"abandon_request", "expect_response">>
    <3>1. todo' = <<"expect_response">>
      BY <2>1, <2>2
    <3>2. QED
      BY <3>1 DEF Opened
  <2>3. CASE todo = <<"abandon_request", "replay_request">>
    <3>1. todo' = <<"replay_request">>
      BY <2>1, <2>3
    <3>2. QED
      BY <3>1 DEF Reopened
  <2>4. QED
    BY <1>2, <2>2, <2>3
<1>6. todo' \notin Ending \cup Routing \cup Responding \cup ResponseHook \cup Finishing \cup
              KillError \cup Killing \cup Asked \cup Connecting \cup
              RequestErrorHook \cup AfterRequestError \cup ResponseErrorHook \cup
              AfterResponseError \cup Headed \cup Oversized \cup Unanswering
  BY <1>5, Within, OpenedOnly, ReopenedOnly
<1>7. (Sent' <=> Sent) /\ (Told' <=> Told)
  BY <1>1 DEF Sent, Told, Has
<1>8. sstate = "errored" /\ ~Sent /\ ~passthrough /\ todo \in Opens
  BY <1>0, <1>3, <1>2 DEF StatesKnown, Opens
<1>9. HooksInOrder'
  BY <1>0, <1>1 DEF HooksInOrder
<1>10. HooksRun'
  BY <1>0, <1>1, <1>3, <1>6, Within DEF HooksRun, Early, Over, Opens
<1>11. PeersAhead'
  BY <1>0, <1>1, <1>2, <1>7 DEF PeersAhead, ClientOver, ServerOver
<1>12. RequestDrained'
  BY <1>1, <1>6 DEF RequestDrained, ClientOver
<1>13. ResponseTakenTo'
  BY <1>0, <1>1, <1>4, <1>6, <1>7 DEF ResponseTakenTo, Early, ServerOver, Awaited
<1>14. SentKnown'
  BY <1>1, <1>6, <1>8 DEF SentKnown, Over, Opens
<1>15. MessagesInOrder'
  BY <1>0, <1>1 DEF MessagesInOrder, ResponseInOrder, RequestInOrder
<1>16. ToldWhen'
  BY <1>1, <1>6, <1>8 DEF ToldWhen, Early
<1>17. ToldSoFar'
  BY <1>0, <1>1, <1>8 DEF ToldSoFar
<1>18. SentSoFar'
  BY <1>0, <1>1, <1>7 DEF SentSoFar, ClientOver
<1>19. BodiesWhole'
  BY <1>0, <1>1 DEF BodiesWhole
<1>20. RequestChunks'
  BY <1>1, <1>6 DEF RequestChunks
<1>21. ResponseChunks'
  BY <1>0, <1>1, <1>4, <1>7 DEF ResponseChunks
<1>22. QED
  BY <1>9, <1>10, <1>11, <1>12, <1>13, <1>14, <1>15, <1>16, <1>17, <1>18, <1>19, <1>20,
     <1>21 DEF MInv

\* The response to a request that is streamed is expected.
LEMMA ResponseExpectedInv ==
  ASSUME IInv, MInv, ExpectResponse, sstate = "uninitialized"
  PROVE  MInv'
<1>0. /\ TypeOK /\ ProgramsOnly /\ StatesKnown /\ SentLater /\ AtFirst /\ GoneIsLast
      /\ HooksInOrder /\ HooksRun
      /\ PeersAhead /\ RequestDrained /\ ResponseTakenTo /\ SentKnown
      /\ MessagesInOrder /\ ToldWhen /\ ToldSoFar /\ SentSoFar
      /\ BodiesWhole /\ RequestChunks /\ ResponseChunks
  BY DEF IInv, MInv
<1>1. /\ UNCHANGED <<cstate, body, queue, toClient, toServer, hooks, passthrough>>
      /\ UNCHANGED <<client, server, chunks>>
      /\ sstate' = "wait"
  BY DEF ExpectResponse, states, sent, ends, peers
<1>2. /\ todo \in Programs /\ todo # << >>
      /\ todo = <<"expect_response">>
  <2>1. todo \in Programs /\ todo # << >> /\ (Head(todo) = "expect_response")
    BY <1>0 DEF ProgramsOnly, ExpectResponse, At
  <2>2. QED
    BY <2>1, Whereabouts
<1>3. todo \in Opened
  BY <1>2 DEF Opened
<1>4. todo \notin Reopened \cup Ending \cup Routing \cup Responding \cup ResponseHook \cup
              Finishing \cup KillError \cup Killing \cup Asked \cup Connecting \cup
              RequestErrorHook \cup AfterRequestError \cup ResponseErrorHook \cup
              AfterResponseError \cup Headed \cup Oversized \cup Unanswering
  BY <1>3, Within, OpenedOnly DEF Opens
<1>5. todo' = << >>
  BY <1>2, Thens DEF ExpectResponse, Then
<1>6. todo' \notin Opens \cup Reopened \cup Ending \cup Routing \cup Responding \cup
              ResponseHook \cup Finishing \cup KillError \cup Killing \cup Asked \cup
              Connecting \cup RequestErrorHook \cup AfterRequestError \cup
              ResponseErrorHook \cup AfterResponseError \cup Headed \cup Oversized \cup
              Unanswering
  BY <1>5, Idle
<1>7. (Sent' <=> Sent) /\ (Told' <=> Told)
  BY <1>1 DEF Sent, Told, Has
<1>8. /\ cstate = "stream" /\ sstate = "uninitialized" /\ ~Told
      /\ todo \in Opens /\ ~passthrough
  BY <1>0, <1>3, <1>2 DEF StatesKnown, ToldWhen, Opens, Early
<1>9. /\ ~Has(toClient, "ResponseHeaders") /\ ~Has(toClient, "ResponseTrailers")
      /\ ~Has(hooks, "responseheaders") /\ ~Has(hooks, "response")
      /\ Count(queue, "ResponseData") = 0 /\ Count(toClient, "ResponseData") = 0
      /\ body["response"] = 0 /\ chunks["response"] = 0
  <2>1. ~Has(toClient, "ResponseHeaders")
    BY <1>0, <1>8 DEF ToldSoFar
  <2>2. ~Has(toClient, "ResponseData") /\ ~Has(toClient, "ResponseTrailers")
    BY <1>0, <2>1, FollowsHas DEF MessagesInOrder, ResponseInOrder
  <2>3. body["response"] = 0 /\ chunks["response"] = 0 /\ ~Responded(queue)
    BY <1>0, <1>8 DEF ResponseChunks
  <2>4. ~Has(queue, "ResponseData")
    BY <2>3 DEF Responded, Has, ResponseEvents
  <2>5. ~Has(hooks, "responseheaders") /\ ~Has(hooks, "response")
    BY <1>0, <1>8 DEF HooksRun, HooksInOrder
  <2>6. QED
    BY <2>1, <2>2, <2>3, <2>4, <2>5, CountNone
<1>10. HooksInOrder'
  BY <1>0, <1>1 DEF HooksInOrder
<1>11. HooksRun'
  BY <1>0, <1>1, <1>2, <1>3, <1>5, <1>6 DEF HooksRun, Early, Over, Opens
<1>12. PeersAhead'
  BY <1>0, <1>1, <1>2, <1>7 DEF PeersAhead, ClientOver, ServerOver
<1>13. RequestDrained'
  BY <1>0, <1>1, <1>6, <1>8 DEF RequestDrained, ClientOver
<1>14. ResponseTakenTo'
  BY <1>0, <1>1, <1>4, <1>6, <1>7 DEF ResponseTakenTo, Early, ServerOver, Awaited
<1>15. SentKnown'
  BY <1>0, <1>1, <1>7, <1>8 DEF SentKnown, Over, Opens
<1>16. MessagesInOrder'
  BY <1>0, <1>1 DEF MessagesInOrder, ResponseInOrder, RequestInOrder
<1>17. ToldWhen'
  BY <1>0, <1>1, <1>6, <1>7 DEF ToldWhen, Early
<1>18. ToldSoFar'
  BY <1>0, <1>1, <1>6, <1>7 DEF ToldSoFar
<1>19. SentSoFar'
  BY <1>0, <1>1, <1>7 DEF SentSoFar, ClientOver
<1>20. BodiesWhole'
  BY <1>0, <1>1 DEF BodiesWhole
<1>21. RequestChunks'
  BY <1>0, <1>1, <1>4, <1>6 DEF RequestChunks
<1>22. ResponseChunks'
  BY <1>0, <1>1, <1>9 DEF ResponseChunks
<1>23. QED
  BY <1>10, <1>11, <1>12, <1>13, <1>14, <1>15, <1>16, <1>17, <1>18, <1>19, <1>20, <1>21,
     <1>22 DEF MInv

\* After a request that could not be sent, nothing comes.
LEMMA NothingExpectedInv ==
  ASSUME IInv, MInv, ExpectResponse, sstate # "uninitialized"
  PROVE  MInv'
<1>0. /\ TypeOK /\ ProgramsOnly /\ StatesKnown /\ SentLater /\ AtFirst /\ GoneIsLast
      /\ HooksInOrder /\ HooksRun
      /\ PeersAhead /\ RequestDrained /\ ResponseTakenTo /\ SentKnown
      /\ MessagesInOrder /\ ToldWhen /\ ToldSoFar /\ SentSoFar
      /\ BodiesWhole /\ RequestChunks /\ ResponseChunks
  BY DEF IInv, MInv
<1>1. /\ UNCHANGED <<cstate, body, queue, toClient, toServer, hooks, passthrough>>
      /\ UNCHANGED <<client, server, chunks>>
      /\ sstate' = "wait"
  BY DEF ExpectResponse, states, sent, ends, peers
<1>2. /\ todo \in Programs /\ todo # << >>
      /\ todo = <<"expect_response">>
  <2>1. todo \in Programs /\ todo # << >> /\ (Head(todo) = "expect_response")
    BY <1>0 DEF ProgramsOnly, ExpectResponse, At
  <2>2. QED
    BY <2>1, Whereabouts
<1>3. todo \in Opened
  BY <1>2 DEF Opened
<1>4. todo \notin Reopened \cup Ending \cup Routing \cup Responding \cup ResponseHook \cup
              Finishing \cup KillError \cup Killing \cup Asked \cup Connecting \cup
              RequestErrorHook \cup AfterRequestError \cup ResponseErrorHook \cup
              AfterResponseError \cup Headed \cup Oversized \cup Unanswering
  BY <1>3, Within, OpenedOnly DEF Opens
<1>5. todo' = << >>
  BY <1>2, Thens DEF ExpectResponse, Then
<1>6. todo' \notin Opens \cup Reopened \cup Ending \cup Routing \cup Responding \cup
              ResponseHook \cup Finishing \cup KillError \cup Killing \cup Asked \cup
              Connecting \cup RequestErrorHook \cup AfterRequestError \cup
              ResponseErrorHook \cup AfterResponseError \cup Headed \cup Oversized \cup
              Unanswering
  BY <1>5, Idle
<1>7. (Sent' <=> Sent) /\ (Told' <=> Told)
  BY <1>1 DEF Sent, Told, Has
<1>8. /\ cstate = "errored" /\ sstate = "errored" /\ ~Sent /\ ~Responded(queue) /\ Awaited
      /\ todo \in Opens /\ ~passthrough
  <2>1. cstate = "errored" /\ sstate = "errored" /\ ~Sent /\ ~passthrough
    BY <1>0, <1>3, <1>2 DEF StatesKnown
  <2>2. ~FromServer(queue) /\ server = "idle"
    BY <1>0, <2>1 DEF SentLater, PeersAhead
  <2>3. ~Responded(queue)
    BY <2>2 DEF FromServer, Responded, RequestEvents, ResponseEvents
  <2>4. QED
    BY <1>3, <2>1, <2>2, <2>3 DEF Opens, Awaited
<1>9. /\ ~Has(toClient, "ResponseHeaders") /\ ~Has(toClient, "ResponseTrailers")
      /\ ~Has(hooks, "responseheaders") /\ ~Has(hooks, "response")
      /\ Count(queue, "ResponseData") = 0 /\ Count(toClient, "ResponseData") = 0
      /\ body["response"] = 0 /\ chunks["response"] = 0
  <2>1. ~Has(toClient, "ResponseHeaders")
    BY <1>0, <1>8 DEF ToldSoFar
  <2>2. ~Has(toClient, "ResponseData") /\ ~Has(toClient, "ResponseTrailers")
    BY <1>0, <2>1, FollowsHas DEF MessagesInOrder, ResponseInOrder
  <2>3. body["response"] = 0 /\ chunks["response"] = 0 /\ ~Responded(queue)
    BY <1>0, <1>8 DEF ResponseChunks
  <2>4. ~Has(queue, "ResponseData")
    BY <2>3 DEF Responded, Has, ResponseEvents
  <2>5. ~Has(hooks, "responseheaders") /\ ~Has(hooks, "response")
    BY <1>0, <1>8 DEF HooksRun, HooksInOrder
  <2>6. QED
    BY <2>1, <2>2, <2>3, <2>4, <2>5, CountNone
<1>10. HooksInOrder'
  BY <1>0, <1>1 DEF HooksInOrder
<1>11. HooksRun'
  BY <1>0, <1>1, <1>2, <1>5, <1>6, <1>9 DEF HooksRun, Early, Over, Opens
<1>12. PeersAhead'
  BY <1>0, <1>1, <1>2, <1>7 DEF PeersAhead, ClientOver, ServerOver
<1>13. RequestDrained'
  BY <1>0, <1>1, <1>6 DEF RequestDrained, ClientOver
<1>14. ResponseTakenTo'
  BY <1>0, <1>1, <1>6, <1>7, <1>8 DEF ResponseTakenTo, Early, ServerOver, Awaited
<1>15. SentKnown'
  BY <1>0, <1>1, <1>6, <1>8 DEF SentKnown, Over, Opens
<1>16. MessagesInOrder'
  BY <1>0, <1>1 DEF MessagesInOrder, ResponseInOrder, RequestInOrder
<1>17. ToldWhen'
  BY <1>0, <1>1, <1>6, <1>7, <1>8 DEF ToldWhen, Early
<1>18. ToldSoFar'
  BY <1>0, <1>1, <1>9 DEF ToldSoFar
<1>19. SentSoFar'
  BY <1>0, <1>1, <1>7 DEF SentSoFar, ClientOver
<1>20. BodiesWhole'
  BY <1>0, <1>1 DEF BodiesWhole
<1>21. RequestChunks'
  BY <1>0, <1>1, <1>4, <1>6 DEF RequestChunks
<1>22. ResponseChunks'
  BY <1>0, <1>1, <1>7, <1>8 DEF ResponseChunks
<1>23. QED
  BY <1>10, <1>11, <1>12, <1>13, <1>14, <1>15, <1>16, <1>17, <1>18, <1>19, <1>20, <1>21,
     <1>22 DEF MInv

\* What was buffered of a request that is streamed from here on is sent.
LEMMA ReplayInv ==
  ASSUME IInv, MInv, ReplayRequest, cstate = "stream"
  PROVE  MInv'
<1>0. /\ TypeOK /\ ProgramsOnly /\ StatesKnown /\ SentLater /\ AtFirst /\ GoneIsLast
      /\ HooksInOrder /\ HooksRun
      /\ PeersAhead /\ RequestDrained /\ ResponseTakenTo /\ SentKnown
      /\ MessagesInOrder /\ ToldWhen /\ ToldSoFar /\ SentSoFar
      /\ BodiesWhole /\ RequestChunks /\ ResponseChunks
  BY DEF IInv, MInv
<1>1. /\ UNCHANGED <<cstate, sstate, queue, toClient, hooks, passthrough, client>>
      /\ UNCHANGED <<server, chunks>>
      /\ toServer' = toServer \o Copies("RequestData", body["request"])
      /\ body' = [body EXCEPT !["request"] = 0]
  BY DEF ReplayRequest, states, sent, ends, peers
<1>2. /\ todo \in Programs /\ todo # << >>
      /\ todo = <<"replay_request">>
  <2>1. todo \in Programs /\ todo # << >> /\ (Head(todo) = "replay_request")
    BY <1>0 DEF ProgramsOnly, ReplayRequest, At
  <2>2. QED
    BY <2>1, Whereabouts
<1>3. todo \in Reopened
  BY <1>2 DEF Reopened
<1>4. todo \notin Ending \cup Routing \cup Responding \cup ResponseHook \cup Finishing \cup
              KillError \cup Killing \cup Asked \cup Connecting \cup
              RequestErrorHook \cup AfterRequestError \cup ResponseErrorHook \cup
              AfterResponseError \cup Headed \cup Oversized \cup Unanswering
  BY <1>3, Within, ReopenedOnly DEF Opens
<1>5. todo' = << >>
  BY <1>2, Thens DEF ReplayRequest, Then
<1>6. todo' \notin Opens \cup Reopened \cup Ending \cup Routing \cup Responding \cup
              ResponseHook \cup Finishing \cup KillError \cup Killing \cup Asked \cup
              Connecting \cup RequestErrorHook \cup AfterRequestError \cup
              ResponseErrorHook \cup AfterResponseError \cup Headed \cup Oversized \cup
              Unanswering
  BY <1>5, Idle
<1>7. (Told' <=> Told)
  BY <1>1 DEF Sent, Told, Has
<1>8. /\ cstate = "stream" /\ sstate = "wait" /\ ~passthrough
      /\ todo \in Opens /\ Sent
  BY <1>0, <1>3, <1>2 DEF StatesKnown, Opens, SentKnown
<1>9. /\ body'["request"] = 0 /\ body'["response"] = body["response"]
      /\ body["request"] \in Nat /\ chunks["request"] \in Nat
      /\ Count(queue, "RequestData") \in Nat /\ Count(toServer, "RequestData") \in Nat
  <2>1. /\ body \in [Sides -> 0..MaxChunks] /\ chunks \in [Sides -> 0..MaxChunks]
        /\ queue \in Seq(Events) /\ toServer \in Seq(ToServer) /\ MaxChunks \in Nat
    BY <1>0, HttpStreamAssumption DEF TypeOK, ToServer
  <2>2. body'["request"] = 0 /\ body'["response"] = body["response"]
    BY <1>1, <2>1 DEF Sides
  <2>3. body["request"] \in Nat /\ chunks["request"] \in Nat
    BY <2>1 DEF Sides
  <2>4. QED
    BY <2>1, <2>2, <2>3, CountIsNat
<1>10. /\ toServer' \in Seq(ToServer) /\ RequestOrdered(toServer')
       /\ Range(toServer) \subseteq Range(toServer')
       /\ Range(toServer') \subseteq Range(toServer) \cup {"RequestData"}
       /\ Count(toServer', "RequestData") = Count(toServer, "RequestData") + body["request"]
       /\ Sent'
  <2>1. Range(toServer) \subseteq {"RequestHeaders", "RequestData"}
    BY <1>0, <1>8 DEF SentSoFar
  <2>2. /\ toServer \in Seq(ToServer) /\ RequestOrdered(toServer) /\ toServer # << >>
        /\ Unfinished(toServer) /\ ~Has(toServer, "RequestTrailers")
    BY <1>0, <1>8, <2>1, RangeEmpty
      DEF TypeOK, ToServer, MessagesInOrder, RequestInOrder, RequestOrdered, Sent, Has,
          Unfinished
  <2>3. QED
    BY <1>1, <1>8, <1>9, <2>2, SendsData DEF Sent, Has
<1>11. HooksInOrder'
  BY <1>0, <1>1 DEF HooksInOrder
<1>12. HooksRun'
  BY <1>0, <1>1, <1>2, <1>3, <1>6 DEF HooksRun, Early, Over, Opens
<1>13. PeersAhead'
  BY <1>0, <1>1, <1>10 DEF PeersAhead, ClientOver, ServerOver
<1>14. RequestDrained'
  BY <1>0, <1>1, <1>6 DEF RequestDrained, ClientOver
<1>15. ResponseTakenTo'
  BY <1>0, <1>1, <1>4, <1>6, <1>8 DEF ResponseTakenTo, Early, ServerOver, Awaited
<1>16. SentKnown'
  BY <1>0, <1>1, <1>8, <1>10 DEF SentKnown, Over, Opens
<1>17. MessagesInOrder'
  <2>1. RequestInOrder'
    BY <1>10 DEF RequestInOrder, RequestOrdered
  <2>2. ResponseInOrder'
    BY <1>0, <1>1 DEF MessagesInOrder, ResponseInOrder
  <2>3. QED
    BY <2>1, <2>2 DEF MessagesInOrder
<1>18. ToldWhen'
  BY <1>0, <1>1, <1>6, <1>7 DEF ToldWhen, Early
<1>19. ToldSoFar'
  BY <1>0, <1>1, <1>4, <1>6, <1>7 DEF ToldSoFar
<1>20. SentSoFar'
  BY <1>0, <1>1, <1>10 DEF SentSoFar, ClientOver, Has
<1>21. BodiesWhole'
  BY <1>0, <1>1, <1>10 DEF BodiesWhole, Has, SentSoFar
<1>22. RequestChunks'
  BY <1>0, <1>1, <1>9, <1>10 DEF RequestChunks
<1>23. ResponseChunks'
  BY <1>0, <1>1, <1>8, <1>10 DEF ResponseChunks
<1>24. QED
  BY <1>11, <1>12, <1>13, <1>14, <1>15, <1>16, <1>17, <1>18, <1>19, <1>20, <1>21, <1>22,
     <1>23 DEF MInv

\* What was buffered of a request that could not be sent is forgotten.
LEMMA NothingReplayedInv ==
  ASSUME IInv, MInv, ReplayRequest, cstate # "stream"
  PROVE  MInv'
<1>0. /\ TypeOK /\ ProgramsOnly /\ StatesKnown /\ SentLater /\ AtFirst /\ GoneIsLast
      /\ HooksInOrder /\ HooksRun
      /\ PeersAhead /\ RequestDrained /\ ResponseTakenTo /\ SentKnown
      /\ MessagesInOrder /\ ToldWhen /\ ToldSoFar /\ SentSoFar
      /\ BodiesWhole /\ RequestChunks /\ ResponseChunks
  BY DEF IInv, MInv
<1>1. /\ UNCHANGED <<cstate, sstate, queue, toClient, toServer, hooks, passthrough>>
      /\ UNCHANGED <<client, server, chunks>>
      /\ body' = [body EXCEPT !["request"] = 0]
  BY DEF ReplayRequest, states, sent, ends, peers
<1>2. /\ todo \in Programs /\ todo # << >>
      /\ todo = <<"replay_request">>
  <2>1. todo \in Programs /\ todo # << >> /\ (Head(todo) = "replay_request")
    BY <1>0 DEF ProgramsOnly, ReplayRequest, At
  <2>2. QED
    BY <2>1, Whereabouts
<1>3. todo \in Reopened
  BY <1>2 DEF Reopened
<1>4. todo \notin Ending \cup Routing \cup Responding \cup ResponseHook \cup Finishing \cup
              KillError \cup Killing \cup Asked \cup Connecting \cup
              RequestErrorHook \cup AfterRequestError \cup ResponseErrorHook \cup
              AfterResponseError \cup Headed \cup Oversized \cup Unanswering
  BY <1>3, Within, ReopenedOnly DEF Opens
<1>5. todo' = << >>
  BY <1>2, Thens DEF ReplayRequest, Then
<1>6. todo' \notin Opens \cup Reopened \cup Ending \cup Routing \cup Responding \cup
              ResponseHook \cup Finishing \cup KillError \cup Killing \cup Asked \cup
              Connecting \cup RequestErrorHook \cup AfterRequestError \cup
              ResponseErrorHook \cup AfterResponseError \cup Headed \cup Oversized \cup
              Unanswering
  BY <1>5, Idle
<1>7. (Sent' <=> Sent) /\ (Told' <=> Told)
  BY <1>1 DEF Sent, Told, Has
<1>8. /\ cstate = "errored" /\ sstate = "errored" /\ ~passthrough
      /\ todo \in Opens
  BY <1>0, <1>3, <1>2 DEF StatesKnown, Opens
<1>9. body'["request"] = 0 /\ body'["response"] = body["response"]
  BY <1>0, <1>1 DEF TypeOK, Sides
<1>10. HooksInOrder'
  BY <1>0, <1>1 DEF HooksInOrder
<1>11. HooksRun'
  BY <1>0, <1>1, <1>2, <1>3, <1>5, <1>6 DEF HooksRun, Early, Over, Opens
<1>12. PeersAhead'
  BY <1>0, <1>1, <1>2, <1>7 DEF PeersAhead, ClientOver, ServerOver
<1>13. RequestDrained'
  BY <1>0, <1>1, <1>6 DEF RequestDrained, ClientOver
<1>14. ResponseTakenTo'
  BY <1>0, <1>1, <1>4, <1>6, <1>7 DEF ResponseTakenTo, Early, ServerOver, Awaited
<1>15. SentKnown'
  BY <1>0, <1>1, <1>6, <1>8 DEF SentKnown, Over, Opens
<1>16. MessagesInOrder'
  BY <1>0, <1>1 DEF MessagesInOrder, ResponseInOrder, RequestInOrder
<1>17. ToldWhen'
  BY <1>0, <1>1, <1>6, <1>7 DEF ToldWhen, Early
<1>18. ToldSoFar'
  BY <1>0, <1>1, <1>4, <1>6, <1>7 DEF ToldSoFar
<1>19. SentSoFar'
  BY <1>0, <1>1, <1>7 DEF SentSoFar, ClientOver
<1>20. BodiesWhole'
  BY <1>0, <1>1 DEF BodiesWhole
<1>21. RequestChunks'
  BY <1>0, <1>1, <1>6, <1>8 DEF RequestChunks
<1>22. ResponseChunks'
  BY <1>0, <1>1, <1>4, <1>7 DEF ResponseChunks
<1>23. QED
  BY <1>10, <1>11, <1>12, <1>13, <1>14, <1>15, <1>16, <1>17, <1>18, <1>19, <1>20, <1>21,
     <1>22 DEF MInv

\* A request that is too large is refused.
LEMMA RefuseRequestInv ==
  ASSUME IInv, MInv, RefuseRequest
  PROVE  MInv'
<1>0. /\ TypeOK /\ ProgramsOnly /\ StatesKnown /\ SentLater /\ AtFirst /\ GoneIsLast
      /\ HooksInOrder /\ HooksRun
      /\ PeersAhead /\ RequestDrained /\ ResponseTakenTo /\ SentKnown
      /\ MessagesInOrder /\ ToldWhen /\ ToldSoFar /\ SentSoFar
      /\ BodiesWhole /\ RequestChunks /\ ResponseChunks
  BY DEF IInv, MInv
<1>1. /\ UNCHANGED <<sstate, body, queue, toServer, hooks, passthrough, client>>
      /\ UNCHANGED <<server, chunks>>
      /\ todo' = << >> /\ cstate' = "errored"
      /\ toClient' = Append(toClient, "ResponseError")
  BY DEF RefuseRequest, states, sent, ends, peers
<1>2. /\ todo \in Programs /\ todo # << >>
      /\ todo = <<"refuse_request">>
  <2>1. todo \in Programs /\ todo # << >> /\ (Head(todo) = "refuse_request")
    BY <1>0 DEF ProgramsOnly, RefuseRequest, At
  <2>2. QED
    BY <2>1, Whereabouts
<1>3. todo \in Refusing
  BY <1>2 DEF Refusing
<1>4. todo \notin Opens \cup Reopened \cup Ending \cup Routing \cup Responding \cup
              ResponseHook \cup Finishing \cup KillError \cup Killing \cup Asked \cup
              Connecting \cup RequestErrorHook \cup AfterRequestError \cup
              ResponseErrorHook \cup AfterResponseError \cup Headed \cup Oversized \cup
              Unanswering
  BY <1>3, Within, RefusingOnly DEF Opens
<1>5. todo' = << >>
  BY <1>1
<1>6. todo' \notin Opens \cup Reopened \cup Ending \cup Routing \cup Responding \cup
              ResponseHook \cup Finishing \cup KillError \cup Killing \cup Asked \cup
              Connecting \cup RequestErrorHook \cup AfterRequestError \cup
              ResponseErrorHook \cup AfterResponseError \cup Headed \cup Oversized \cup
              Unanswering
  BY <1>5, Idle
<1>7. (Sent' <=> Sent)
  BY <1>1 DEF Sent, Told, Has
<1>8. /\ cstate \in {"wait", "consume"} /\ sstate \in {"uninitialized", "wait"}
      /\ ~Sent /\ ~Told /\ ~passthrough
  BY <1>0, <1>3, <1>2 DEF StatesKnown, SentLater, ToldWhen
<1>9. /\ toClient' \in Seq(ToClient) /\ ResponseOrdered(toClient')
      /\ Range(toClient') = Range(toClient) \cup {"ResponseError"}
      /\ Count(toClient', "ResponseData") = Count(toClient, "ResponseData")
      /\ Follows(toClient', "ResponseEnd", "ResponseError") => Has(toClient, "ResponseEnd")
      /\ Told'
  <2>1. toClient \in Seq(ToClient) /\ ResponseOrdered(toClient)
    BY <1>0 DEF TypeOK, ToClient, MessagesInOrder, ResponseInOrder, ResponseOrdered
  <2>2. /\ Append(toClient, "ResponseError") \in Seq(ToClient)
        /\ ResponseOrdered(Append(toClient, "ResponseError"))
        /\ Range(Append(toClient, "ResponseError")) = Range(toClient) \cup {"ResponseError"}
        /\ Count(Append(toClient, "ResponseError"), "ResponseData") = Count(toClient, "ResponseData")
        /\ Follows(Append(toClient, "ResponseError"), "ResponseEnd", "ResponseError") =>
             Has(toClient, "ResponseEnd")
    BY <2>1, TellsError
  <2>3. QED
    BY <1>1, <2>2 DEF Told, Unended, Terminal
<1>10. HooksInOrder'
  BY <1>0, <1>1 DEF HooksInOrder
<1>11. HooksRun'
  BY <1>0, <1>1, <1>4, <1>6 DEF HooksRun, Early, Over, Opens
<1>12. PeersAhead'
  BY <1>0, <1>1, <1>2, <1>7 DEF PeersAhead, ClientOver, ServerOver
<1>13. RequestDrained'
  BY <1>0, <1>1, <1>6 DEF RequestDrained, ClientOver
<1>14. ResponseTakenTo'
  BY <1>0, <1>1, <1>4, <1>6, <1>7 DEF ResponseTakenTo, Early, ServerOver, Awaited
<1>15. SentKnown'
  BY <1>0, <1>1, <1>4, <1>6, <1>7 DEF SentKnown, Over, Opens
<1>16. MessagesInOrder'
  <2>1. ~Has(toClient, "ResponseEnd")
    BY <1>8 DEF Told, Unended, Terminal, Has
  <2>2. ResponseInOrder'
    BY <1>1, <1>9, <2>1 DEF ResponseInOrder, ResponseOrdered
  <2>3. QED
    BY <1>0, <1>1, <2>2 DEF MessagesInOrder, RequestInOrder
<1>17. ToldWhen'
  BY <1>0, <1>1, <1>6, <1>7, <1>8 DEF ToldWhen, Early
<1>18. ToldSoFar'
  BY <1>0, <1>1, <1>4, <1>6, <1>9 DEF ToldSoFar, Has
<1>19. SentSoFar'
  BY <1>0, <1>1, <1>7 DEF SentSoFar, ClientOver
<1>20. BodiesWhole'
  BY <1>0, <1>1, <1>9 DEF BodiesWhole, Has
<1>21. RequestChunks'
  BY <1>0, <1>1, <1>6 DEF RequestChunks
<1>22. ResponseChunks'
  BY <1>0, <1>1, <1>7, <1>8 DEF ResponseChunks
<1>23. QED
  BY <1>10, <1>11, <1>12, <1>13, <1>14, <1>15, <1>16, <1>17, <1>18, <1>19, <1>20, <1>21,
     <1>22 DEF MInv

\* A chunk of a request that is buffered.
LEMMA ConsumeRequestDataInv ==
  ASSUME IInv, MInv, ConsumeRequestData
  PROVE  MInv'
<1>0. /\ TypeOK /\ ProgramsOnly /\ StatesKnown /\ SentLater /\ AtFirst /\ GoneIsLast
      /\ HooksInOrder /\ HooksRun
      /\ PeersAhead /\ RequestDrained /\ ResponseTakenTo /\ SentKnown
      /\ MessagesInOrder /\ ToldWhen /\ ToldSoFar /\ SentSoFar
      /\ BodiesWhole /\ RequestChunks /\ ResponseChunks
  BY DEF IInv, MInv
<1>1. /\ UNCHANGED <<cstate, sstate, toClient, toServer, hooks, passthrough, client>>
      /\ UNCHANGED <<server, chunks>>
      /\ todo = << >> /\ queue # << >> /\ Head(queue) = "RequestData"
      /\ queue' = Tail(queue) /\ ~passthrough
      /\ cstate = "consume" /\ body' = [body EXCEPT !["request"] = @ + 1]
  BY DEF ConsumeRequestData, Handle, states, sent, ends, peers
<1>2. todo \notin Opens \cup Reopened \cup Ending \cup Routing \cup Responding \cup
              ResponseHook \cup Finishing \cup KillError \cup Killing \cup Asked \cup
              Connecting \cup RequestErrorHook \cup AfterRequestError \cup
              ResponseErrorHook \cup AfterResponseError \cup Headed \cup Oversized \cup
              Unanswering
  BY <1>1, Idle
<1>3. Took("RequestData")
  BY <1>1, Taken
<1>4. (Sent' <=> Sent) /\ (Told' <=> Told)
  BY <1>1 DEF Sent, Told, Has
<1>5. sstate = "wait" /\ ~Sent /\ ~Told
  BY <1>0, <1>1, <1>2 DEF StatesKnown, SentLater, ToldWhen, Opens
<1>6. /\ todo' \notin Opens \cup Reopened \cup Ending \cup Routing \cup Responding \cup
                 ResponseHook \cup Finishing \cup KillError \cup Killing \cup Asked \cup
                 Connecting \cup RequestErrorHook \cup AfterRequestError \cup
                 ResponseErrorHook \cup AfterResponseError \cup Headed \cup Oversized \cup
                 Unanswering
  <2>1. todo' = << >> \/ todo' \in Reopening \/ todo' \in RefusalError
    BY <1>1 DEF ConsumeRequestData, Reopening, RefusalError
  <2>2. CASE todo' = << >>
    BY <2>2, Idle
  <2>3. CASE todo' \in Reopening
    BY <2>3, Within, ReopeningOnly DEF Opens
  <2>4. CASE todo' \in RefusalError
    BY <2>4, Within, RefusalErrorOnly DEF Opens
  <2>5. QED
    BY <2>1, <2>2, <2>3, <2>4
<1>7. Awaited => Awaited'
  BY <1>1, <1>3, TookOther
<1>8. /\ body'["request"] = body["request"] + 1 /\ body'["response"] = body["response"]
      /\ body["request"] \in Nat
  BY <1>0, <1>1, HttpStreamAssumption DEF TypeOK, Sides
<1>9. /\ Count(queue, "RequestData") = Count(queue', "RequestData") + 1
      /\ Count(queue', "ResponseData") = Count(queue, "ResponseData")
      /\ Count(queue, "RequestData") \in Nat /\ Count(queue', "RequestData") \in Nat
  BY <1>0, <1>1, TookCounts DEF TypeOK
<1>10. HooksInOrder'
  BY <1>0, <1>1 DEF HooksInOrder
<1>11. HooksRun'
  BY <1>0, <1>1, <1>2, <1>6 DEF HooksRun, Early, Over, Opens
<1>12. PeersAhead'
  BY TookPeers, <1>0, <1>1, <1>3, <1>4
<1>13. RequestDrained'
  BY <1>0, <1>1, <1>6 DEF RequestDrained, ClientOver, Took
<1>14. ResponseTakenTo'
  BY <1>0, <1>1, <1>2, <1>3, <1>4, <1>6, <1>7
    DEF ResponseTakenTo, Early, ServerOver, Took
<1>15. SentKnown'
  BY <1>0, <1>1, <1>2, <1>4, <1>6 DEF SentKnown, Over, Opens
<1>16. MessagesInOrder'
  BY <1>0, <1>1 DEF MessagesInOrder, ResponseInOrder, RequestInOrder
<1>17. ToldWhen'
  BY <1>0, <1>4, <1>5 DEF ToldWhen, Early
<1>18. ToldSoFar'
  BY <1>0, <1>1, <1>5 DEF ToldSoFar
<1>19. SentSoFar'
  BY <1>0, <1>1, <1>4 DEF SentSoFar, ClientOver
<1>20. BodiesWhole'
  BY <1>0, <1>1 DEF BodiesWhole
<1>21. RequestChunks'
  BY <1>0, <1>1, <1>8, <1>9 DEF RequestChunks
<1>22. ResponseChunks'
  BY <1>0, <1>1, <1>3, <1>4, <1>5 DEF ResponseChunks, Took
<1>23. QED
  BY <1>10, <1>11, <1>12, <1>13, <1>14, <1>15, <1>16, <1>17, <1>18, <1>19, <1>20, <1>21,
     <1>22 DEF MInv

\* A chunk of a request that is streamed.
LEMMA StreamRequestDataInv ==
  ASSUME IInv, MInv, StreamRequestData
  PROVE  MInv'
<1>0. /\ TypeOK /\ ProgramsOnly /\ StatesKnown /\ SentLater /\ AtFirst /\ GoneIsLast
      /\ HooksInOrder /\ HooksRun
      /\ PeersAhead /\ RequestDrained /\ ResponseTakenTo /\ SentKnown
      /\ MessagesInOrder /\ ToldWhen /\ ToldSoFar /\ SentSoFar
      /\ BodiesWhole /\ RequestChunks /\ ResponseChunks
  BY DEF IInv, MInv
<1>1. /\ UNCHANGED <<cstate, sstate, body, todo, toClient, hooks, passthrough>>
      /\ UNCHANGED <<client, server, chunks>>
      /\ todo = << >> /\ queue # << >> /\ Head(queue) = "RequestData"
      /\ queue' = Tail(queue) /\ ~passthrough
      /\ cstate = "stream" /\ toServer' = Append(toServer, "RequestData")
  BY DEF StreamRequestData, Handle, states, sent, ends, peers
<1>2. todo \notin Opens \cup Reopened \cup Ending \cup Routing \cup Responding \cup
              ResponseHook \cup Finishing \cup KillError \cup Killing \cup Asked \cup
              Connecting \cup RequestErrorHook \cup AfterRequestError \cup
              ResponseErrorHook \cup AfterResponseError \cup Headed \cup Oversized \cup
              Unanswering
  BY <1>1, Idle
<1>3. Took("RequestData")
  BY <1>1, Taken
<1>4. (Told' <=> Told)
  BY <1>1 DEF Sent, Told, Has
<1>5. Sent /\ cstate = "stream"
  BY <1>0, <1>1 DEF SentKnown
<1>6. /\ toServer' \in Seq(ToServer) /\ RequestOrdered(toServer')
      /\ Range(toServer') = Range(toServer) \cup {"RequestData"} /\ Sent'
      /\ Count(toServer', "RequestData") = Count(toServer, "RequestData") + 1
      /\ Count(toServer, "RequestData") \in Nat
  <2>1. Range(toServer) \subseteq {"RequestHeaders", "RequestData"}
    BY <1>0, <1>5 DEF SentSoFar
  <2>2. /\ toServer \in Seq(ToServer) /\ RequestOrdered(toServer) /\ toServer # << >>
        /\ Unfinished(toServer) /\ ~Has(toServer, "RequestTrailers")
    BY <1>0, <1>5, <2>1, RangeEmpty
      DEF TypeOK, ToServer, MessagesInOrder, RequestInOrder, RequestOrdered, Sent, Has,
          Unfinished
  <2>3. QED
    BY <1>1, <1>5, <2>2, SendsChunk, CountIsNat DEF Sent, Has
<1>7. Sent' <=> Sent
  BY <1>5, <1>6
<1>8. Awaited => Awaited'
  BY <1>1, <1>3, TookOther
<1>9. body["request"] \in Nat
  BY <1>0, HttpStreamAssumption DEF TypeOK, Sides
<1>10. /\ Count(queue, "RequestData") = Count(queue', "RequestData") + 1
       /\ Count(queue', "ResponseData") = Count(queue, "ResponseData")
       /\ Count(queue, "RequestData") \in Nat /\ Count(queue', "RequestData") \in Nat
  BY <1>0, <1>1, TookCounts DEF TypeOK
<1>11. HooksInOrder'
  BY <1>0, <1>1 DEF HooksInOrder
<1>12. HooksRun'
  BY <1>0, <1>1, <1>2 DEF HooksRun, Early, Over, Opens
<1>13. PeersAhead'
  BY TookPeers, <1>0, <1>1, <1>3, <1>7
<1>14. RequestDrained'
  BY <1>0, <1>1, <1>2 DEF RequestDrained, ClientOver, Took
<1>15. ResponseTakenTo'
  BY <1>0, <1>1, <1>3, <1>5, <1>8 DEF ResponseTakenTo, Early, ServerOver, Took
<1>16. SentKnown'
  BY <1>0, <1>1, <1>6 DEF SentKnown, Over, Opens
<1>17. MessagesInOrder'
  <2>1. RequestInOrder'
    BY <1>6 DEF RequestInOrder, RequestOrdered
  <2>2. ResponseInOrder'
    BY <1>0, <1>1 DEF MessagesInOrder, ResponseInOrder
  <2>3. QED
    BY <2>1, <2>2 DEF MessagesInOrder
<1>18. ToldWhen'
  BY <1>0, <1>1, <1>4 DEF ToldWhen, Early
<1>19. ToldSoFar'
  BY <1>0, <1>1, <1>4 DEF ToldSoFar
<1>20. SentSoFar'
  BY <1>0, <1>1, <1>6 DEF SentSoFar, ClientOver, Has
<1>21. BodiesWhole'
  BY <1>0, <1>1, <1>6 DEF BodiesWhole, Has, SentSoFar
<1>22. RequestChunks'
  <2>1. /\ body["request"] + Count(queue, "RequestData") + Count(toServer, "RequestData") = chunks["request"]
        /\ body["request"] = 0
    BY <1>0, <1>1, <1>2 DEF RequestChunks
  <2>2. body["request"] + Count(queue', "RequestData") + Count(toServer', "RequestData") = chunks["request"]
    BY <2>1, <1>6, <1>10
  <2>3. QED
    BY <1>1, <2>1, <2>2 DEF RequestChunks
<1>23. ResponseChunks'
  BY <1>0, <1>1, <1>3, <1>5, <1>6, <1>10 DEF ResponseChunks, Took
<1>24. QED
  BY <1>11, <1>12, <1>13, <1>14, <1>15, <1>16, <1>17, <1>18, <1>19, <1>20, <1>21, <1>22,
     <1>23 DEF MInv

\* The trailers of a request are kept.
LEMMA RequestTrailersInv ==
  ASSUME IInv, MInv, RequestTrailers
  PROVE  MInv'
<1>0. /\ TypeOK /\ ProgramsOnly /\ StatesKnown /\ SentLater /\ AtFirst /\ GoneIsLast
      /\ HooksInOrder /\ HooksRun
      /\ PeersAhead /\ RequestDrained /\ ResponseTakenTo /\ SentKnown
      /\ MessagesInOrder /\ ToldWhen /\ ToldSoFar /\ SentSoFar
      /\ BodiesWhole /\ RequestChunks /\ ResponseChunks
  BY DEF IInv, MInv
<1>1. /\ UNCHANGED <<cstate, sstate, body, todo, toClient, toServer, hooks>>
      /\ UNCHANGED <<passthrough, client, server, chunks>>
      /\ todo = << >> /\ queue # << >> /\ Head(queue) = "RequestTrailers"
      /\ queue' = Tail(queue) /\ ~passthrough
  BY DEF RequestTrailers, Handle, states, sent, ends, peers
<1>2. todo \notin Opens \cup Reopened \cup Ending \cup Routing \cup Responding \cup
              ResponseHook \cup Finishing \cup KillError \cup Killing \cup Asked \cup
              Connecting \cup RequestErrorHook \cup AfterRequestError \cup
              ResponseErrorHook \cup AfterResponseError \cup Headed \cup Oversized \cup
              Unanswering
  BY <1>1, Idle
<1>3. Took("RequestTrailers")
  BY <1>1, Taken
<1>4. (Sent' <=> Sent) /\ (Told' <=> Told)
  BY <1>1 DEF Sent, Told, Has
<1>5. /\ Count(queue', "RequestData") = Count(queue, "RequestData")
      /\ Count(queue', "ResponseData") = Count(queue, "ResponseData")
  BY <1>0, <1>1, TookCounts DEF TypeOK
<1>6. Awaited => Awaited'
  BY <1>1, <1>3, TookOther
<1>7. HooksInOrder'
  BY <1>0, <1>1 DEF HooksInOrder
<1>8. HooksRun'
  BY <1>0, <1>1 DEF HooksRun, Early, Over
<1>9. PeersAhead'
  BY TookPeers, <1>0, <1>1, <1>3, <1>4
<1>10. RequestDrained'
  BY <1>0, <1>1, <1>3 DEF RequestDrained, ClientOver, Took
<1>11. ResponseTakenTo'
  BY <1>0, <1>1, <1>3, <1>4, <1>6 DEF ResponseTakenTo, Early, ServerOver, Took
<1>12. SentKnown'
  BY <1>0, <1>1, <1>4 DEF SentKnown
<1>13. MessagesInOrder'
  BY <1>0, <1>1 DEF MessagesInOrder, ResponseInOrder, RequestInOrder
<1>14. ToldWhen'
  BY <1>0, <1>1, <1>4 DEF ToldWhen
<1>15. ToldSoFar'
  BY <1>0, <1>1, <1>4 DEF ToldSoFar
<1>16. SentSoFar'
  BY <1>0, <1>1, <1>4 DEF SentSoFar, ClientOver
<1>17. BodiesWhole'
  BY <1>0, <1>1 DEF BodiesWhole
<1>18. RequestChunks'
  BY <1>0, <1>1, <1>5 DEF RequestChunks
<1>19. ResponseChunks'
  BY <1>0, <1>1, <1>3, <1>4, <1>5 DEF ResponseChunks, Took
<1>20. QED
  BY <1>7, <1>8, <1>9, <1>10, <1>11, <1>12, <1>13, <1>14, <1>15, <1>16, <1>17, <1>18,
     <1>19 DEF MInv

\* A request that was buffered is complete.
LEMMA BufferedRequestEndsInv ==
  ASSUME IInv, MInv, RequestEnd, cstate = "consume"
  PROVE  MInv'
<1>0. /\ TypeOK /\ ProgramsOnly /\ StatesKnown /\ SentLater /\ AtFirst /\ GoneIsLast
      /\ HooksInOrder /\ HooksRun
      /\ PeersAhead /\ RequestDrained /\ ResponseTakenTo /\ SentKnown
      /\ MessagesInOrder /\ ToldWhen /\ ToldSoFar /\ SentSoFar
      /\ BodiesWhole /\ RequestChunks /\ ResponseChunks
  BY DEF IInv, MInv
<1>1. /\ UNCHANGED <<sstate, body, toClient, toServer, hooks, passthrough, client>>
      /\ UNCHANGED <<server, chunks>>
      /\ todo = << >> /\ queue # << >> /\ Head(queue) = "RequestEnd"
      /\ queue' = Tail(queue) /\ ~passthrough
      /\ todo' = <<"request", "route_request">> /\ cstate' = "done"
  BY DEF RequestEnd, Handle, states, sent, ends, peers
<1>2. todo \notin Opens \cup Reopened \cup Ending \cup Routing \cup Responding \cup
              ResponseHook \cup Finishing \cup KillError \cup Killing \cup Asked \cup
              Connecting \cup RequestErrorHook \cup AfterRequestError \cup
              ResponseErrorHook \cup AfterResponseError \cup Headed \cup Oversized \cup
              Unanswering
  BY <1>1, Idle
<1>3. todo' \in Routing
  BY <1>1 DEF Routing
<1>4. todo' \notin Opens \cup Reopened \cup Ending \cup Responding \cup ResponseHook \cup
              Finishing \cup KillError \cup Killing \cup Asked \cup Connecting \cup
              RequestErrorHook \cup AfterRequestError \cup ResponseErrorHook \cup
              AfterResponseError \cup Oversized \cup Unanswering
  BY <1>3, Within, RoutingOnly DEF Opens
<1>5. Took("RequestEnd")
  BY <1>1, Taken
<1>6. (Sent' <=> Sent) /\ (Told' <=> Told)
  BY <1>1 DEF Sent, Told, Has
<1>7. sstate = "wait" /\ ~Sent /\ ~Told
  BY <1>0, <1>1, <1>2 DEF StatesKnown, SentLater, ToldWhen, Opens
<1>8. ClientOver /\ ~Requested(queue')
  BY <1>0, <1>5 DEF Took, PeersAhead
<1>9. /\ Count(queue', "RequestData") = Count(queue, "RequestData")
      /\ Count(queue', "ResponseData") = Count(queue, "ResponseData")
  BY <1>0, <1>1, TookCounts DEF TypeOK
<1>10. Awaited => Awaited'
  BY <1>1, <1>5, TookOther
<1>11. todo' \notin Headed
  BY <1>1 DEF Headed
<1>12. HooksInOrder'
  BY <1>0, <1>1 DEF HooksInOrder
<1>13. HooksRun'
  BY <1>0, <1>1, <1>2, <1>3, <1>4, <1>11 DEF HooksRun, Early, Over, Opens
<1>14. PeersAhead'
  BY TookPeers, <1>0, <1>1, <1>5, <1>6
<1>15. RequestDrained'
  BY <1>0, <1>1, <1>2, <1>8 DEF RequestDrained, ClientOver, Took
<1>16. ResponseTakenTo'
  BY <1>0, <1>1, <1>2, <1>4, <1>5, <1>6, <1>10
    DEF ResponseTakenTo, Early, ServerOver, Took
<1>17. SentKnown'
  BY <1>0, <1>1, <1>2, <1>4, <1>7 DEF SentKnown, Over, Opens
<1>18. MessagesInOrder'
  BY <1>0, <1>1, <1>2 DEF MessagesInOrder, ResponseInOrder, RequestInOrder
<1>19. ToldWhen'
  BY <1>0, <1>1, <1>2, <1>4, <1>6 DEF ToldWhen, Early
<1>20. ToldSoFar'
  BY <1>0, <1>1, <1>2, <1>4, <1>6 DEF ToldSoFar
<1>21. SentSoFar'
  BY <1>0, <1>1, <1>2, <1>6 DEF SentSoFar, ClientOver
<1>22. BodiesWhole'
  BY <1>0, <1>1, <1>2 DEF BodiesWhole
<1>23. RequestChunks'
  BY <1>0, <1>1, <1>2, <1>9 DEF RequestChunks
<1>24. ResponseChunks'
  BY <1>0, <1>1, <1>2, <1>5, <1>6, <1>7 DEF ResponseChunks, Took
<1>25. QED
  BY <1>12, <1>13, <1>14, <1>15, <1>16, <1>17, <1>18, <1>19, <1>20, <1>21, <1>22, <1>23,
     <1>24 DEF MInv

\* A request that was streamed is complete.
LEMMA StreamedRequestEndsInv ==
  ASSUME IInv, MInv, RequestEnd, cstate = "stream"
  PROVE  MInv'
<1>0. /\ TypeOK /\ ProgramsOnly /\ StatesKnown /\ SentLater /\ AtFirst /\ GoneIsLast
      /\ HooksInOrder /\ HooksRun
      /\ PeersAhead /\ RequestDrained /\ ResponseTakenTo /\ SentKnown
      /\ MessagesInOrder /\ ToldWhen /\ ToldSoFar /\ SentSoFar
      /\ BodiesWhole /\ RequestChunks /\ ResponseChunks
  BY DEF IInv, MInv
<1>1. /\ UNCHANGED <<cstate, sstate, body, toClient, toServer, hooks, passthrough>>
      /\ UNCHANGED <<client, server, chunks>>
      /\ todo = << >> /\ queue # << >> /\ Head(queue) = "RequestEnd"
      /\ queue' = Tail(queue) /\ ~passthrough
      /\ todo' = <<"request", "end_request">> /\ cstate = "stream"
  BY DEF RequestEnd, Handle, states, sent, ends, peers
<1>2. todo \notin Opens \cup Reopened \cup Ending \cup Routing \cup Responding \cup
              ResponseHook \cup Finishing \cup KillError \cup Killing \cup Asked \cup
              Connecting \cup RequestErrorHook \cup AfterRequestError \cup
              ResponseErrorHook \cup AfterResponseError \cup Headed \cup Oversized \cup
              Unanswering
  BY <1>1, Idle
<1>3. todo' \in Ending
  BY <1>1 DEF Ending
<1>4. todo' \notin Opens \cup Reopened \cup Routing \cup Responding \cup ResponseHook \cup
              Finishing \cup KillError \cup Killing \cup Asked \cup Connecting \cup
              RequestErrorHook \cup AfterRequestError \cup ResponseErrorHook \cup
              AfterResponseError \cup Headed \cup Oversized \cup Unanswering
  BY <1>3, Within, EndingOnly DEF Opens
<1>5. Took("RequestEnd")
  BY <1>1, Taken
<1>6. (Sent' <=> Sent) /\ (Told' <=> Told)
  BY <1>1 DEF Sent, Told, Has
<1>7. ClientOver /\ ~Requested(queue')
  BY <1>0, <1>5 DEF Took, PeersAhead
<1>8. /\ Count(queue', "RequestData") = Count(queue, "RequestData")
      /\ Count(queue', "ResponseData") = Count(queue, "ResponseData")
  BY <1>0, <1>1, TookCounts DEF TypeOK
<1>9. Awaited => Awaited'
  BY <1>1, <1>5, TookOther
<1>10. HooksInOrder'
  BY <1>0, <1>1 DEF HooksInOrder
<1>11. HooksRun'
  BY <1>0, <1>1, <1>2, <1>4 DEF HooksRun, Early, Over, Opens
<1>12. PeersAhead'
  BY TookPeers, <1>0, <1>1, <1>5, <1>6
<1>13. RequestDrained'
  BY <1>0, <1>1, <1>7 DEF RequestDrained, ClientOver, Took
<1>14. ResponseTakenTo'
  BY <1>0, <1>1, <1>2, <1>4, <1>5, <1>6, <1>9
    DEF ResponseTakenTo, Early, ServerOver, Took
<1>15. SentKnown'
  BY <1>0, <1>1, <1>2, <1>6 DEF SentKnown, Over, Opens
<1>16. MessagesInOrder'
  BY <1>0, <1>1 DEF MessagesInOrder, ResponseInOrder, RequestInOrder
<1>17. ToldWhen'
  BY <1>0, <1>1, <1>4, <1>6 DEF ToldWhen, Early
<1>18. ToldSoFar'
  BY <1>0, <1>1, <1>2, <1>4, <1>6 DEF ToldSoFar
<1>19. SentSoFar'
  BY <1>0, <1>1, <1>6 DEF SentSoFar, ClientOver
<1>20. BodiesWhole'
  BY <1>0, <1>1 DEF BodiesWhole
<1>21. RequestChunks'
  BY <1>0, <1>1, <1>2, <1>8 DEF RequestChunks
<1>22. ResponseChunks'
  BY <1>0, <1>1, <1>2, <1>5, <1>6, <1>8 DEF ResponseChunks, Took
<1>23. QED
  BY <1>10, <1>11, <1>12, <1>13, <1>14, <1>15, <1>16, <1>17, <1>18, <1>19, <1>20, <1>21,
     <1>22 DEF MInv

\* A request that was buffered is sent.
LEMMA ForwardRequestInv ==
  ASSUME IInv, MInv, ForwardRequest
  PROVE  MInv'
<1>0. /\ TypeOK /\ ProgramsOnly /\ StatesKnown /\ SentLater /\ AtFirst /\ GoneIsLast
      /\ HooksInOrder /\ HooksRun
      /\ PeersAhead /\ RequestDrained /\ ResponseTakenTo /\ SentKnown
      /\ MessagesInOrder /\ ToldWhen /\ ToldSoFar /\ SentSoFar
      /\ BodiesWhole /\ RequestChunks /\ ResponseChunks
  BY DEF IInv, MInv
<1>1. /\ UNCHANGED <<cstate, sstate, body, queue, toClient, hooks, passthrough>>
      /\ UNCHANGED <<client, server, chunks>>
      /\ toServer' = toServer \o <<"RequestHeaders">> \o Copies("RequestData", body["request"])
                       \o Trailers("RequestTrailers", "request") \o <<"RequestEnd">>
  BY DEF ForwardRequest, states, sent, ends, peers
<1>2. /\ todo \in Programs /\ todo # << >>
      /\ todo = <<"forward_request">>
  <2>1. todo \in Programs /\ todo # << >> /\ (Head(todo) = "forward_request")
    BY <1>0 DEF ProgramsOnly, ForwardRequest, At
  <2>2. QED
    BY <2>1, Whereabouts
<1>3. todo \in Routing
  BY <1>2 DEF Routing
<1>4. todo \notin Opens \cup Reopened \cup Ending \cup Responding \cup ResponseHook \cup
              Finishing \cup KillError \cup Killing \cup Asked \cup Connecting \cup
              RequestErrorHook \cup AfterRequestError \cup ResponseErrorHook \cup
              AfterResponseError \cup Oversized \cup Unanswering
  BY <1>3, Within, RoutingOnly DEF Opens
<1>5. todo' = << >>
  BY <1>2, Thens DEF ForwardRequest, Then
<1>6. todo' \notin Opens \cup Reopened \cup Ending \cup Routing \cup Responding \cup
              ResponseHook \cup Finishing \cup KillError \cup Killing \cup Asked \cup
              Connecting \cup RequestErrorHook \cup AfterRequestError \cup
              ResponseErrorHook \cup AfterResponseError \cup Headed \cup Oversized \cup
              Unanswering
  BY <1>5, Idle
<1>7. (Told' <=> Told)
  BY <1>1 DEF Sent, Told, Has
<1>8. /\ cstate = "done" /\ sstate = "wait" /\ ~Sent /\ ~passthrough /\ ~Told
      /\ todo \notin Headed
  BY <1>0, <1>3, <1>2 DEF StatesKnown, ToldWhen, Headed
<1>9. /\ ClientOver /\ Count(queue, "RequestData") = 0 /\ Count(toServer, "RequestData") = 0
      /\ toServer = << >> /\ body["request"] \in Nat /\ body["request"] = chunks["request"]
  <2>1. ClientOver /\ ~Requested(queue)
    BY <1>0, <1>8, <1>3 DEF RequestDrained
  <2>2. ~Has(queue, "RequestData")
    BY <2>1 DEF Requested, Has, RequestEvents
  <2>3. Count(queue, "RequestData") = 0
    BY <2>2, CountNone
  <2>4. toServer = << >>
    BY <1>0, <1>8 DEF SentSoFar
  <2>5. body["request"] \in Nat /\ chunks["request"] \in Nat
    BY <1>0, HttpStreamAssumption DEF TypeOK, Sides
  <2>6. Count(toServer, "RequestData") = 0
    BY <2>4, CountEmpty
  <2>7. body["request"] + Count(queue, "RequestData") + Count(toServer, "RequestData") = chunks["request"]
    BY <1>0, <1>3 DEF RequestChunks
  <2>8. QED
    BY <2>1, <2>3, <2>4, <2>5, <2>6, <2>7
<1>10. /\ toServer' \in Seq(ToServer) /\ RequestOrdered(toServer')
       /\ {"RequestHeaders", "RequestEnd"} \subseteq Range(toServer') /\ Sent'
       /\ Count(toServer', "RequestData") = body["request"]
  <2>1. toServer' = << >> \o <<"RequestHeaders">> \o Copies("RequestData", body["request"])
                     \o Trailers("RequestTrailers", "request") \o <<"RequestEnd">>
    BY <1>1, <1>9
  <2>2. QED
    BY <1>9, <2>1, RequestSent DEF Sent, Has
<1>11. /\ ~Has(toClient, "ResponseHeaders") /\ ~Has(hooks, "responseheaders") /\ ~Has(hooks, "response")
       /\ Count(queue, "ResponseData") = 0 /\ Count(toClient, "ResponseData") = 0
       /\ body["response"] = 0 /\ chunks["response"] = 0
  <2>1. ~Has(toClient, "ResponseHeaders")
    BY <1>0, <1>8 DEF ToldSoFar
  <2>2. ~Has(toClient, "ResponseData")
    BY <1>0, <2>1, FollowsHas DEF MessagesInOrder, ResponseInOrder
  <2>3. body["response"] = 0 /\ chunks["response"] = 0 /\ ~Responded(queue)
    BY <1>0, <1>8 DEF ResponseChunks
  <2>4. ~Has(queue, "ResponseData")
    BY <2>3 DEF Responded, Has, ResponseEvents
  <2>5. ~Has(hooks, "responseheaders") /\ ~Has(hooks, "response")
    BY <1>0, <1>8, <1>4 DEF HooksRun, Early, HooksInOrder
  <2>6. QED
    BY <2>1, <2>2, <2>3, <2>4, <2>5, CountNone
<1>12. HooksInOrder'
  BY <1>0, <1>1 DEF HooksInOrder
<1>13. HooksRun'
  BY <1>0, <1>1, <1>2, <1>3, <1>4, <1>5, <1>6, <1>8 DEF HooksRun, Early, Over, Opens
<1>14. PeersAhead'
  BY <1>0, <1>1, <1>2, <1>8 DEF PeersAhead, ClientOver, ServerOver
<1>15. RequestDrained'
  BY <1>0, <1>1, <1>2, <1>8 DEF RequestDrained, ClientOver
<1>16. ResponseTakenTo'
  BY <1>0, <1>1, <1>2, <1>4, <1>6, <1>8, <1>11
    DEF ResponseTakenTo, Early, ServerOver, Awaited
<1>17. SentKnown'
  BY <1>0, <1>1, <1>2, <1>8, <1>10 DEF SentKnown, Over, Opens
<1>18. MessagesInOrder'
  <2>1. RequestInOrder'
    BY <1>10 DEF RequestInOrder, RequestOrdered
  <2>2. ResponseInOrder'
    BY <1>0, <1>1 DEF MessagesInOrder, ResponseInOrder
  <2>3. QED
    BY <2>1, <2>2 DEF MessagesInOrder
<1>19. ToldWhen'
  BY <1>0, <1>1, <1>2, <1>7, <1>8 DEF ToldWhen, Early
<1>20. ToldSoFar'
  BY <1>0, <1>1, <1>2, <1>4, <1>6, <1>7 DEF ToldSoFar
<1>21. SentSoFar'
  BY <1>0, <1>1, <1>2, <1>8, <1>9, <1>10 DEF SentSoFar, ClientOver
<1>22. BodiesWhole'
  BY <1>0, <1>1, <1>2, <1>9, <1>10 DEF BodiesWhole
<1>23. RequestChunks'
  BY <1>0, <1>1, <1>2, <1>6, <1>8 DEF RequestChunks
<1>24. ResponseChunks'
  BY <1>0, <1>1, <1>2, <1>8, <1>11 DEF ResponseChunks
<1>25. QED
  BY <1>12, <1>13, <1>14, <1>15, <1>16, <1>17, <1>18, <1>19, <1>20, <1>21, <1>22, <1>23,
     <1>24 DEF MInv

\* The end of a request that is streamed is sent before that of the response.
LEMMA EndRequestInv ==
  ASSUME IInv, MInv, EndRequest, sstate # "done"
  PROVE  MInv'
<1>0. /\ TypeOK /\ ProgramsOnly /\ StatesKnown /\ SentLater /\ AtFirst /\ GoneIsLast
      /\ HooksInOrder /\ HooksRun
      /\ PeersAhead /\ RequestDrained /\ ResponseTakenTo /\ SentKnown
      /\ MessagesInOrder /\ ToldWhen /\ ToldSoFar /\ SentSoFar
      /\ BodiesWhole /\ RequestChunks /\ ResponseChunks
  BY DEF IInv, MInv
<1>1. /\ UNCHANGED <<sstate, body, queue, toClient, hooks, passthrough, client>>
      /\ UNCHANGED <<server, chunks>>
      /\ cstate' = "done"
      /\ toServer' = toServer \o Trailers("RequestTrailers", "request") \o <<"RequestEnd">>
  BY DEF EndRequest, states, sent, ends, peers
<1>2. /\ todo \in Programs /\ todo # << >>
      /\ todo = <<"end_request">>
  <2>1. todo \in Programs /\ todo # << >> /\ (Head(todo) = "end_request")
    BY <1>0 DEF ProgramsOnly, EndRequest, At
  <2>2. QED
    BY <2>1, Whereabouts
<1>3. todo \in Ending
  BY <1>2 DEF Ending
<1>4. todo \notin Opens \cup Reopened \cup Routing \cup Responding \cup ResponseHook \cup
              Finishing \cup KillError \cup Killing \cup Asked \cup Connecting \cup
              RequestErrorHook \cup AfterRequestError \cup ResponseErrorHook \cup
              AfterResponseError \cup Headed \cup Oversized \cup Unanswering
  BY <1>3, Within, EndingOnly DEF Opens
<1>5. todo' = << >>
  BY <1>2, Thens DEF EndRequest, Then
<1>6. todo' \notin Opens \cup Reopened \cup Ending \cup Routing \cup Responding \cup
              ResponseHook \cup Finishing \cup KillError \cup Killing \cup Asked \cup
              Connecting \cup RequestErrorHook \cup AfterRequestError \cup
              ResponseErrorHook \cup AfterResponseError \cup Headed \cup Oversized \cup
              Unanswering
  BY <1>5, Idle
<1>7. (Told' <=> Told)
  BY <1>1 DEF Sent, Told, Has
<1>8. /\ cstate = "stream" /\ Sent /\ ~passthrough /\ sstate # "uninitialized"
      /\ todo \in Ending /\ (Told => sstate = "errored")
  BY <1>0, <1>3, <1>4 DEF StatesKnown, SentKnown, ToldWhen, Opens
<1>9. /\ ClientOver /\ ~Requested(queue)
      /\ Count(toServer, "RequestData") = chunks["request"]
  <2>1. ClientOver /\ ~Requested(queue)
    BY <1>0, <1>8, <1>3 DEF RequestDrained
  <2>2. ~Has(queue, "RequestData")
    BY <2>1 DEF Requested, Has, RequestEvents
  <2>3. Count(queue, "RequestData") = 0
    BY <2>2, CountNone
  <2>4. /\ body["request"] + Count(queue, "RequestData") + Count(toServer, "RequestData") = chunks["request"]
        /\ body["request"] = 0
    BY <1>0, <1>8, <1>4 DEF RequestChunks
  <2>5. Count(toServer, "RequestData") \in Nat
    BY <1>0, CountIsNat DEF TypeOK
  <2>6. QED
    BY <2>1, <2>3, <2>4, <2>5
<1>10. /\ toServer' \in Seq(ToServer) /\ RequestOrdered(toServer')
       /\ Range(toServer) \cup {"RequestEnd"} \subseteq Range(toServer') /\ Sent'
       /\ Count(toServer', "RequestData") = Count(toServer, "RequestData")
  <2>1. Range(toServer) \subseteq {"RequestHeaders", "RequestData"}
    BY <1>0, <1>8 DEF SentSoFar
  <2>2. /\ toServer \in Seq(ToServer) /\ RequestOrdered(toServer) /\ toServer # << >>
        /\ Unfinished(toServer)
    BY <1>0, <1>8, <2>1, RangeEmpty
      DEF TypeOK, ToServer, MessagesInOrder, RequestInOrder, RequestOrdered, Sent, Has,
          Unfinished
  <2>3. ASSUME NEW u, u = toServer \o Trailers("RequestTrailers", "request") \o <<"RequestEnd">>
        PROVE  /\ u \in Seq(ToServer) /\ RequestOrdered(u)
               /\ Range(toServer) \cup {"RequestEnd"} \subseteq Range(u)
               /\ Count(u, "RequestData") = Count(toServer, "RequestData")
    BY <2>2, <2>3, RequestConcluded
  <2>4. /\ toServer' \in Seq(ToServer) /\ RequestOrdered(toServer')
        /\ Range(toServer) \cup {"RequestEnd"} \subseteq Range(toServer')
        /\ Count(toServer', "RequestData") = Count(toServer, "RequestData")
    BY <1>1, <2>3
  <2>5. QED
    BY <1>8, <2>4 DEF Sent, Has
<1>11. HooksInOrder'
  BY <1>0, <1>1 DEF HooksInOrder
<1>12. HooksRun'
  BY <1>0, <1>1, <1>2, <1>4, <1>5, <1>6 DEF HooksRun, Early, Over, Opens
<1>13. PeersAhead'
  BY <1>0, <1>1, <1>2, <1>10 DEF PeersAhead, ClientOver, ServerOver
<1>14. RequestDrained'
  BY <1>0, <1>1, <1>3 DEF RequestDrained, ClientOver
<1>15. ResponseTakenTo'
  BY <1>0, <1>1, <1>4, <1>6, <1>8 DEF ResponseTakenTo, Early, ServerOver, Awaited
<1>16. SentKnown'
  BY <1>0, <1>1, <1>8, <1>10 DEF SentKnown, Over, Opens
<1>17. MessagesInOrder'
  <2>1. RequestInOrder'
    BY <1>10 DEF RequestInOrder, RequestOrdered
  <2>2. ResponseInOrder'
    BY <1>0, <1>1 DEF MessagesInOrder, ResponseInOrder
  <2>3. QED
    BY <2>1, <2>2 DEF MessagesInOrder
<1>18. ToldWhen'
  BY <1>0, <1>1, <1>6, <1>7, <1>8 DEF ToldWhen, Early
<1>19. ToldSoFar'
  BY <1>0, <1>1, <1>6, <1>7 DEF ToldSoFar
<1>20. SentSoFar'
  BY <1>0, <1>1, <1>7, <1>9, <1>10 DEF SentSoFar, ClientOver
<1>21. BodiesWhole'
  BY <1>0, <1>1, <1>10, <1>9 DEF BodiesWhole
<1>22. RequestChunks'
  BY <1>0, <1>1, <1>6 DEF RequestChunks
<1>23. ResponseChunks'
  BY <1>0, <1>1, <1>8, <1>10 DEF ResponseChunks
<1>24. QED
  BY <1>11, <1>12, <1>13, <1>14, <1>15, <1>16, <1>17, <1>18, <1>19, <1>20, <1>21, <1>22,
     <1>23 DEF MInv

\* What flow_done does after it has sent what is before: the response ends, or the
\* connection does.
Completes(before) ==
  /\ toClient' = before \o <<"ResponseEnd">>
  /\ cstate' = "done" /\ sstate' = "done"
  /\ UNCHANGED client

GivesUp(before) ==
  /\ toClient' = before /\ client' = "gone"
  /\ cstate' = "errored" /\ sstate' = "errored"
  /\ UNCHANGED passthrough

LEMMA FlowDoneCases ==
  ASSUME NEW before, FlowDone(before)
  PROVE  Completes(before) \/ GivesUp(before)
BY DEF FlowDone, Completes, GivesUp, ends

\* The end of a request is sent after the response, which ends, too.
LEMMA EndRequestLastInv ==
  ASSUME IInv, MInv, EndRequest, sstate = "done", Completes(toClient)
  PROVE  MInv'
<1>0. /\ TypeOK /\ ProgramsOnly /\ StatesKnown /\ SentLater /\ AtFirst /\ GoneIsLast
      /\ HooksInOrder /\ HooksRun
      /\ PeersAhead /\ RequestDrained /\ ResponseTakenTo /\ SentKnown
      /\ MessagesInOrder /\ ToldWhen /\ ToldSoFar /\ SentSoFar
      /\ BodiesWhole /\ RequestChunks /\ ResponseChunks
  BY DEF IInv, MInv
<1>1. /\ UNCHANGED <<sstate, body, queue, hooks, client, server, chunks>>
      /\ cstate' = "done" /\ toClient' = toClient \o <<"ResponseEnd">>
      /\ toServer' = toServer \o Trailers("RequestTrailers", "request") \o <<"RequestEnd">>
  BY DEF EndRequest, Completes, states, sent, ends, peers
<1>2. /\ todo \in Programs /\ todo # << >>
      /\ todo = <<"end_request">>
  <2>1. todo \in Programs /\ todo # << >> /\ (Head(todo) = "end_request")
    BY <1>0 DEF ProgramsOnly, EndRequest, Completes, At
  <2>2. QED
    BY <2>1, Whereabouts
<1>3. todo \in Ending
  BY <1>2 DEF Ending
<1>4. todo \notin Opens \cup Reopened \cup Routing \cup Responding \cup ResponseHook \cup
              Finishing \cup KillError \cup Killing \cup Asked \cup Connecting \cup
              RequestErrorHook \cup AfterRequestError \cup ResponseErrorHook \cup
              AfterResponseError \cup Headed \cup Oversized \cup Unanswering
  BY <1>3, Within, EndingOnly DEF Opens
<1>5. todo' = << >>
  BY <1>2, Thens DEF EndRequest, Then
<1>6. todo' \notin Opens \cup Reopened \cup Ending \cup Routing \cup Responding \cup
              ResponseHook \cup Finishing \cup KillError \cup Killing \cup Asked \cup
              Connecting \cup RequestErrorHook \cup AfterRequestError \cup
              ResponseErrorHook \cup AfterResponseError \cup Headed \cup Oversized \cup
              Unanswering
  BY <1>5, Idle
<1>7. sstate = "done" /\ sstate' = "done"
  BY DEF Completes
<1>8. /\ cstate = "stream" /\ Sent /\ ~passthrough /\ sstate # "uninitialized"
      /\ todo \in Ending /\ (Told => sstate = "errored")
  BY <1>0, <1>3 DEF StatesKnown, SentKnown, ToldWhen
<1>9. /\ ClientOver /\ ~Requested(queue)
      /\ Count(toServer, "RequestData") = chunks["request"]
  <2>1. ClientOver /\ ~Requested(queue)
    BY <1>0, <1>8, <1>3 DEF RequestDrained
  <2>2. ~Has(queue, "RequestData")
    BY <2>1 DEF Requested, Has, RequestEvents
  <2>3. Count(queue, "RequestData") = 0
    BY <2>2, CountNone
  <2>4. /\ body["request"] + Count(queue, "RequestData") + Count(toServer, "RequestData") = chunks["request"]
        /\ body["request"] = 0
    BY <1>0, <1>8, <1>4 DEF RequestChunks
  <2>5. Count(toServer, "RequestData") \in Nat
    BY <1>0, CountIsNat DEF TypeOK
  <2>6. QED
    BY <2>1, <2>3, <2>4, <2>5
<1>10. /\ toServer' \in Seq(ToServer) /\ RequestOrdered(toServer')
       /\ Range(toServer) \cup {"RequestEnd"} \subseteq Range(toServer') /\ Sent'
       /\ Count(toServer', "RequestData") = Count(toServer, "RequestData")
  <2>1. Range(toServer) \subseteq {"RequestHeaders", "RequestData"}
    BY <1>0, <1>8 DEF SentSoFar
  <2>2. /\ toServer \in Seq(ToServer) /\ RequestOrdered(toServer) /\ toServer # << >>
        /\ Unfinished(toServer)
    BY <1>0, <1>8, <2>1, RangeEmpty
      DEF TypeOK, ToServer, MessagesInOrder, RequestInOrder, RequestOrdered, Sent, Has,
          Unfinished
  <2>3. ASSUME NEW u, u = toServer \o Trailers("RequestTrailers", "request") \o <<"RequestEnd">>
        PROVE  /\ u \in Seq(ToServer) /\ RequestOrdered(u)
               /\ Range(toServer) \cup {"RequestEnd"} \subseteq Range(u)
               /\ Count(u, "RequestData") = Count(toServer, "RequestData")
    BY <2>2, <2>3, RequestConcluded
  <2>4. /\ toServer' \in Seq(ToServer) /\ RequestOrdered(toServer')
        /\ Range(toServer) \cup {"RequestEnd"} \subseteq Range(toServer')
        /\ Count(toServer', "RequestData") = Count(toServer, "RequestData")
    BY <1>1, <2>3
  <2>5. QED
    BY <1>8, <2>4 DEF Sent, Has
<1>11. /\ toClient' \in Seq(ToClient) /\ ResponseOrdered(toClient')
       /\ Range(toClient') = Range(toClient) \cup {"ResponseEnd"}
       /\ Count(toClient', "ResponseData") = Count(toClient, "ResponseData")
       /\ ~Follows(toClient', "ResponseEnd", "ResponseError")
       /\ Has(toClient, "ResponseHeaders")
       /\ Told'
  <2>1. todo \notin Killing /\ ~Told
    BY <1>4, <1>8, <1>7
  <2>2. Unended(toClient) /\ Has(toClient, "ResponseHeaders")
    BY <1>0, <1>7, <2>1 DEF ToldSoFar, Told
  <2>3. toClient \in Seq(ToClient) /\ ResponseOrdered(toClient)
    BY <1>0 DEF TypeOK, ToClient, MessagesInOrder, ResponseInOrder, ResponseOrdered
  <2>4. QED
    BY <1>1, <2>2, <2>3, TellsEnd DEF Told, Unended, Terminal
<1>12. HooksInOrder'
  BY <1>0, <1>1 DEF HooksInOrder
<1>13. HooksRun'
  BY <1>0, <1>1, <1>2, <1>3, <1>4, <1>5, <1>6, <1>9 DEF HooksRun, Early, Over, Opens
<1>14. PeersAhead'
  BY <1>0, <1>1, <1>2, <1>8, <1>10 DEF PeersAhead, ClientOver, ServerOver
<1>15. RequestDrained'
  BY <1>0, <1>1, <1>2, <1>3 DEF RequestDrained, ClientOver
<1>16. ResponseTakenTo'
  BY <1>0, <1>1, <1>2, <1>8 DEF ResponseTakenTo, Early, ServerOver, Awaited
<1>17. SentKnown'
  BY <1>0, <1>1, <1>2, <1>6 DEF SentKnown, Over, Opens
<1>18. MessagesInOrder'
  <2>1. RequestInOrder'
    BY <1>10 DEF RequestInOrder, RequestOrdered
  <2>2. ResponseInOrder'
    BY <1>11 DEF ResponseInOrder, ResponseOrdered
  <2>3. QED
    BY <2>1, <2>2 DEF MessagesInOrder
<1>19. ToldWhen'
  BY <1>0, <1>1, <1>2, <1>6 DEF ToldWhen, Early
<1>20. ToldSoFar'
  BY <1>0, <1>1, <1>2, <1>6, <1>11 DEF ToldSoFar, Has
<1>21. SentSoFar'
  BY <1>0, <1>1, <1>2, <1>9, <1>10 DEF SentSoFar, ClientOver
<1>22. BodiesWhole'
  BY <1>0, <1>1, <1>10, <1>9, <1>11, <1>8, <1>4 DEF BodiesWhole, ResponseChunks
<1>23. RequestChunks'
  BY <1>0, <1>1, <1>2, <1>6 DEF RequestChunks
<1>24. ResponseChunks'
  BY <1>0, <1>1, <1>2, <1>4, <1>8, <1>10, <1>11 DEF ResponseChunks
<1>25. QED
  BY <1>12, <1>13, <1>14, <1>15, <1>16, <1>17, <1>18, <1>19, <1>20, <1>21, <1>22, <1>23,
     <1>24 DEF MInv

\* The end of a request is sent after the response, and nobody takes over.
LEMMA EndRequestSwitchesInv ==
  ASSUME IInv, MInv, EndRequest, sstate = "done", GivesUp(toClient)
  PROVE  MInv'
<1>0. /\ TypeOK /\ ProgramsOnly /\ StatesKnown /\ SentLater /\ AtFirst /\ GoneIsLast
      /\ HooksInOrder /\ HooksRun
      /\ PeersAhead /\ RequestDrained /\ ResponseTakenTo /\ SentKnown
      /\ MessagesInOrder /\ ToldWhen /\ ToldSoFar /\ SentSoFar
      /\ BodiesWhole /\ RequestChunks /\ ResponseChunks
  BY DEF IInv, MInv
<1>1. /\ UNCHANGED <<body, queue, toClient, hooks, passthrough, server, chunks>>
      /\ cstate' = "errored" /\ sstate' = "errored" /\ client' = "gone"
      /\ toServer' = toServer \o Trailers("RequestTrailers", "request") \o <<"RequestEnd">>
  BY DEF EndRequest, GivesUp, states, sent, ends, peers
<1>2. /\ todo \in Programs /\ todo # << >>
      /\ todo = <<"end_request">>
  <2>1. todo \in Programs /\ todo # << >> /\ (Head(todo) = "end_request")
    BY <1>0 DEF ProgramsOnly, EndRequest, GivesUp, At
  <2>2. QED
    BY <2>1, Whereabouts
<1>3. todo \in Ending
  BY <1>2 DEF Ending
<1>4. todo \notin Opens \cup Reopened \cup Routing \cup Responding \cup ResponseHook \cup
              Finishing \cup KillError \cup Killing \cup Asked \cup Connecting \cup
              RequestErrorHook \cup AfterRequestError \cup ResponseErrorHook \cup
              AfterResponseError \cup Headed \cup Oversized \cup Unanswering
  BY <1>3, Within, EndingOnly DEF Opens
<1>5. todo' = << >>
  BY <1>2, Thens DEF EndRequest, Then
<1>6. todo' \notin Opens \cup Reopened \cup Ending \cup Routing \cup Responding \cup
              ResponseHook \cup Finishing \cup KillError \cup Killing \cup Asked \cup
              Connecting \cup RequestErrorHook \cup AfterRequestError \cup
              ResponseErrorHook \cup AfterResponseError \cup Headed \cup Oversized \cup
              Unanswering
  BY <1>5, Idle
<1>7. (Told' <=> Told)
  BY <1>1 DEF Sent, Told, Has
<1>8. sstate = "done"
  BY <1>1
<1>9. /\ cstate = "stream" /\ Sent /\ ~passthrough /\ sstate # "uninitialized"
      /\ todo \in Ending /\ (Told => sstate = "errored")
  BY <1>0, <1>3 DEF StatesKnown, SentKnown, ToldWhen
<1>10. /\ ClientOver /\ ~Requested(queue)
       /\ Count(toServer, "RequestData") = chunks["request"]
  <2>1. ClientOver /\ ~Requested(queue)
    BY <1>0, <1>9, <1>3 DEF RequestDrained
  <2>2. ~Has(queue, "RequestData")
    BY <2>1 DEF Requested, Has, RequestEvents
  <2>3. Count(queue, "RequestData") = 0
    BY <2>2, CountNone
  <2>4. /\ body["request"] + Count(queue, "RequestData") + Count(toServer, "RequestData") = chunks["request"]
        /\ body["request"] = 0
    BY <1>0, <1>9, <1>4 DEF RequestChunks
  <2>5. Count(toServer, "RequestData") \in Nat
    BY <1>0, CountIsNat DEF TypeOK
  <2>6. QED
    BY <2>1, <2>3, <2>4, <2>5
<1>11. /\ toServer' \in Seq(ToServer) /\ RequestOrdered(toServer')
       /\ Range(toServer) \cup {"RequestEnd"} \subseteq Range(toServer') /\ Sent'
       /\ Count(toServer', "RequestData") = Count(toServer, "RequestData")
  <2>1. Range(toServer) \subseteq {"RequestHeaders", "RequestData"}
    BY <1>0, <1>9 DEF SentSoFar
  <2>2. /\ toServer \in Seq(ToServer) /\ RequestOrdered(toServer) /\ toServer # << >>
        /\ Unfinished(toServer)
    BY <1>0, <1>9, <2>1, RangeEmpty
      DEF TypeOK, ToServer, MessagesInOrder, RequestInOrder, RequestOrdered, Sent, Has,
          Unfinished
  <2>3. ASSUME NEW u, u = toServer \o Trailers("RequestTrailers", "request") \o <<"RequestEnd">>
        PROVE  /\ u \in Seq(ToServer) /\ RequestOrdered(u)
               /\ Range(toServer) \cup {"RequestEnd"} \subseteq Range(u)
               /\ Count(u, "RequestData") = Count(toServer, "RequestData")
    BY <2>2, <2>3, RequestConcluded
  <2>4. /\ toServer' \in Seq(ToServer) /\ RequestOrdered(toServer')
        /\ Range(toServer) \cup {"RequestEnd"} \subseteq Range(toServer')
        /\ Count(toServer', "RequestData") = Count(toServer, "RequestData")
    BY <1>1, <2>3
  <2>5. QED
    BY <1>9, <2>4 DEF Sent, Has
<1>12. HooksInOrder'
  BY <1>0, <1>1 DEF HooksInOrder
<1>13. HooksRun'
  BY <1>0, <1>1, <1>2, <1>3, <1>5, <1>6 DEF HooksRun, Early, Over, Opens
<1>14. PeersAhead'
  BY <1>0, <1>1, <1>2, <1>11 DEF PeersAhead, ClientOver, ServerOver
<1>15. RequestDrained'
  BY <1>0, <1>1, <1>2, <1>3 DEF RequestDrained, ClientOver
<1>16. ResponseTakenTo'
  BY <1>0, <1>1, <1>2, <1>9 DEF ResponseTakenTo, Early, ServerOver
<1>17. SentKnown'
  BY <1>0, <1>1, <1>2, <1>6, <1>9 DEF SentKnown, Over, Opens
<1>18. MessagesInOrder'
  <2>1. RequestInOrder'
    BY <1>11 DEF RequestInOrder, RequestOrdered
  <2>2. ResponseInOrder'
    BY <1>0, <1>1 DEF MessagesInOrder, ResponseInOrder
  <2>3. QED
    BY <2>1, <2>2 DEF MessagesInOrder
<1>19. ToldWhen'
  BY <1>0, <1>1, <1>2, <1>6 DEF ToldWhen, Early
<1>20. ToldSoFar'
  BY <1>0, <1>1, <1>2, <1>6, <1>8 DEF ToldSoFar
<1>21. SentSoFar'
  BY <1>0, <1>1, <1>2, <1>11 DEF SentSoFar, ClientOver
<1>22. BodiesWhole'
  BY <1>0, <1>1, <1>11, <1>10 DEF BodiesWhole
<1>23. RequestChunks'
  BY <1>0, <1>1, <1>2, <1>6 DEF RequestChunks
<1>24. ResponseChunks'
  BY <1>0, <1>1, <1>2, <1>11 DEF ResponseChunks
<1>25. QED
  BY <1>12, <1>13, <1>14, <1>15, <1>16, <1>17, <1>18, <1>19, <1>20, <1>21, <1>22, <1>23,
     <1>24 DEF MInv

-----------------------------------------------------------------------------
(* The response. *)

\* The headers of a response.
LEMMA ResponseHeadersInv ==
  ASSUME IInv, MInv, ResponseHeaders, todo' \in Responding
  PROVE  MInv'
<1>0. /\ TypeOK /\ ProgramsOnly /\ StatesKnown /\ SentLater /\ AtFirst /\ GoneIsLast
      /\ HooksInOrder /\ HooksRun
      /\ PeersAhead /\ RequestDrained /\ ResponseTakenTo /\ SentKnown
      /\ MessagesInOrder /\ ToldWhen /\ ToldSoFar /\ SentSoFar
      /\ BodiesWhole /\ RequestChunks /\ ResponseChunks
  BY DEF IInv, MInv
<1>1. /\ UNCHANGED <<cstate, sstate, body, toClient, toServer, hooks, passthrough>>
      /\ UNCHANGED <<client, server, chunks>>
      /\ todo = << >> /\ queue # << >> /\ Head(queue) = "ResponseHeaders"
      /\ queue' = Tail(queue) /\ ~passthrough
      /\ todo' \in {<<"responseheaders", "begin_response">>,
                    <<"responseheaders", "response_too_large">>}
  BY DEF ResponseHeaders, Handle, states, sent, ends, peers, Responding
<1>2. todo \notin Opens \cup Reopened \cup Ending \cup Routing \cup Responding \cup
              ResponseHook \cup Finishing \cup KillError \cup Killing \cup Asked \cup
              Connecting \cup RequestErrorHook \cup AfterRequestError \cup
              ResponseErrorHook \cup AfterResponseError \cup Headed \cup Oversized \cup
              Unanswering
  BY <1>1, Idle
<1>3. todo' \in Responding
  BY DEF Responding
<1>4. todo' \notin Opens \cup Reopened \cup Ending \cup Routing \cup ResponseHook \cup
              Finishing \cup KillError \cup Killing \cup Asked \cup Connecting \cup
              RequestErrorHook \cup AfterRequestError \cup ResponseErrorHook \cup
              AfterResponseError \cup Oversized \cup Unanswering
  BY <1>3, Within, RespondingOnly DEF Opens
<1>5. Took("ResponseHeaders")
  BY <1>1, Taken
<1>6. (Sent' <=> Sent) /\ (Told' <=> Told)
  BY <1>1 DEF Sent, Told, Has
<1>7. /\ Sent /\ ~Told /\ sstate = "wait" /\ cstate \notin {"wait", "consume"}
      /\ server # "idle" /\ ~Has(queue', "ResponseHeaders")
      /\ ~Has(hooks, "responseheaders") /\ ~Has(hooks, "response")
  <2>1. sstate = "wait"
    BY DEF ResponseHeaders
  <2>2. Responded(queue) /\ FromServer(queue) /\ ~Has(queue', "ResponseHeaders")
    BY <1>5 DEF Took, FromServer, Has, RequestEvents, ResponseEvents
  <2>3. Sent /\ server # "idle"
    BY <1>0, <2>2 DEF SentLater, PeersAhead
  <2>4. cstate \notin {"wait", "consume"} /\ ~Told
    BY <1>0, <1>1, <2>1, <2>3 DEF SentLater, ToldWhen
  <2>5. ~Has(hooks, "responseheaders") /\ ~Has(hooks, "response")
    BY <1>0, <1>2, <2>1 DEF HooksRun, HooksInOrder, Early
  <2>6. QED
    BY <2>1, <2>2, <2>3, <2>4, <2>5
<1>8. /\ Count(queue', "RequestData") = Count(queue, "RequestData")
      /\ Count(queue', "ResponseData") = Count(queue, "ResponseData")
  BY <1>0, <1>1, TookCounts DEF TypeOK
<1>9. todo' \notin Headed
  BY <1>1 DEF ResponseHeaders, Headed
<1>10. HooksInOrder'
  BY <1>0, <1>1 DEF HooksInOrder
<1>11. HooksRun'
  BY <1>0, <1>1, <1>2, <1>4, <1>9 DEF HooksRun, Early, Over, Opens
<1>12. PeersAhead'
  BY TookPeers, <1>0, <1>1, <1>5, <1>6
<1>13. RequestDrained'
  BY <1>0, <1>1, <1>4, <1>5, <1>6 DEF RequestDrained, ClientOver, Took
<1>14. ResponseTakenTo'
  BY <1>0, <1>1, <1>4, <1>7 DEF ResponseTakenTo, Early, ServerOver, Took
<1>15. SentKnown'
  BY <1>0, <1>1, <1>6, <1>7 DEF SentKnown, Over, Opens
<1>16. MessagesInOrder'
  BY <1>0, <1>1 DEF MessagesInOrder, ResponseInOrder, RequestInOrder
<1>17. ToldWhen'
  BY <1>0, <1>1, <1>4, <1>6 DEF ToldWhen, Early
<1>18. ToldSoFar'
  BY <1>0, <1>1, <1>2, <1>4, <1>6 DEF ToldSoFar
<1>19. SentSoFar'
  BY <1>0, <1>1, <1>6 DEF SentSoFar, ClientOver
<1>20. BodiesWhole'
  BY <1>0, <1>1 DEF BodiesWhole
<1>21. RequestChunks'
  BY <1>0, <1>1, <1>2, <1>4, <1>8 DEF RequestChunks
<1>22. ResponseChunks'
  BY <1>0, <1>1, <1>2, <1>5, <1>6, <1>8 DEF ResponseChunks, Took
<1>23. QED
  BY <1>10, <1>11, <1>12, <1>13, <1>14, <1>15, <1>16, <1>17, <1>18, <1>19, <1>20, <1>21,
     <1>22 DEF MInv

\* The headers of a response that is invalid.
LEMMA InvalidResponseInv ==
  ASSUME IInv, MInv, ResponseHeaders, todo' \notin Responding
  PROVE  MInv'
<1>0. /\ TypeOK /\ ProgramsOnly /\ StatesKnown /\ SentLater /\ AtFirst /\ GoneIsLast
      /\ HooksInOrder /\ HooksRun
      /\ PeersAhead /\ RequestDrained /\ ResponseTakenTo /\ SentKnown
      /\ MessagesInOrder /\ ToldWhen /\ ToldSoFar /\ SentSoFar
      /\ BodiesWhole /\ RequestChunks /\ ResponseChunks
  BY DEF IInv, MInv
<1>1. /\ UNCHANGED <<cstate, sstate, body, toClient, toServer, hooks, passthrough>>
      /\ UNCHANGED <<client, chunks>>
      /\ todo = << >> /\ queue # << >> /\ Head(queue) = "ResponseHeaders"
      /\ queue' = Tail(queue) /\ ~passthrough
      /\ todo' = <<"error", "reject">> /\ server' = "gone"
  BY DEF ResponseHeaders, Responding, Handle, states, sent, ends, peers
<1>2. todo \notin Opens \cup Reopened \cup Ending \cup Routing \cup Responding \cup
              ResponseHook \cup Finishing \cup KillError \cup Killing \cup Asked \cup
              Connecting \cup RequestErrorHook \cup AfterRequestError \cup
              ResponseErrorHook \cup AfterResponseError \cup Headed \cup Oversized \cup
              Unanswering
  BY <1>1, Idle
<1>3. todo' \in KillError
  BY <1>1 DEF KillError
<1>4. todo' \notin Opens \cup Reopened \cup Ending \cup Routing \cup Responding \cup
              ResponseHook \cup Finishing \cup Killing \cup Asked \cup Connecting \cup
              RequestErrorHook \cup AfterRequestError \cup ResponseErrorHook \cup
              AfterResponseError \cup Headed \cup Unanswering
  BY <1>3, Within, KillErrorOnly DEF Opens
<1>5. Took("ResponseHeaders")
  BY <1>1, Taken
<1>6. (Sent' <=> Sent) /\ (Told' <=> Told)
  BY <1>1 DEF Sent, Told, Has
<1>7. /\ Sent /\ ~Told /\ sstate = "wait" /\ cstate \notin {"wait", "consume"}
      /\ server # "idle" /\ ~Has(queue', "ResponseHeaders")
      /\ ~Has(hooks, "responseheaders") /\ ~Has(hooks, "response")
  <2>1. sstate = "wait"
    BY DEF ResponseHeaders
  <2>2. Responded(queue) /\ FromServer(queue) /\ ~Has(queue', "ResponseHeaders")
    BY <1>5 DEF Took, FromServer, Has, RequestEvents, ResponseEvents
  <2>3. Sent /\ server # "idle"
    BY <1>0, <2>2 DEF SentLater, PeersAhead
  <2>4. cstate \notin {"wait", "consume"} /\ ~Told
    BY <1>0, <1>1, <2>1, <2>3 DEF SentLater, ToldWhen
  <2>5. ~Has(hooks, "responseheaders") /\ ~Has(hooks, "response")
    BY <1>0, <1>2, <2>1 DEF HooksRun, HooksInOrder, Early
  <2>6. QED
    BY <2>1, <2>2, <2>3, <2>4, <2>5
<1>8. /\ Count(queue', "RequestData") = Count(queue, "RequestData")
      /\ Count(queue', "ResponseData") = Count(queue, "ResponseData")
  BY <1>0, <1>1, TookCounts DEF TypeOK
<1>9. todo' \notin Oversized
  BY <1>1 DEF Oversized
<1>10. HooksInOrder'
  BY <1>0, <1>1 DEF HooksInOrder
<1>11. HooksRun'
  BY <1>0, <1>1, <1>2, <1>4 DEF HooksRun, Early, Over, Opens
<1>12. PeersAhead'
  BY TookPeers, <1>0, <1>1, <1>5, <1>6, <1>7
<1>13. RequestDrained'
  BY <1>0, <1>1, <1>4, <1>5 DEF RequestDrained, ClientOver, Took
<1>14. ResponseTakenTo'
  BY <1>0, <1>1, <1>3, <1>4, <1>5 DEF ResponseTakenTo, Early, ServerOver, Took
<1>15. SentKnown'
  BY <1>0, <1>1, <1>6, <1>7 DEF SentKnown, Over, Opens
<1>16. MessagesInOrder'
  BY <1>0, <1>1 DEF MessagesInOrder, ResponseInOrder, RequestInOrder
<1>17. ToldWhen'
  BY <1>0, <1>6, <1>7 DEF ToldWhen, Early
<1>18. ToldSoFar'
  BY <1>0, <1>1, <1>2, <1>4, <1>6 DEF ToldSoFar
<1>19. SentSoFar'
  BY <1>0, <1>1, <1>6 DEF SentSoFar, ClientOver
<1>20. BodiesWhole'
  BY <1>0, <1>1 DEF BodiesWhole
<1>21. RequestChunks'
  BY <1>0, <1>1, <1>2, <1>4, <1>8 DEF RequestChunks
<1>22. ResponseChunks'
  BY <1>0, <1>1, <1>2, <1>5, <1>6, <1>8 DEF ResponseChunks, Took
<1>23. QED
  BY <1>10, <1>11, <1>12, <1>13, <1>14, <1>15, <1>16, <1>17, <1>18, <1>19, <1>20, <1>21,
     <1>22 DEF MInv

\* A response that is buffered begins.
LEMMA BufferedResponseInv ==
  ASSUME IInv, MInv, BeginResponse, "response" \notin flow.stream \ bodyless
  PROVE  MInv'
<1>0. /\ TypeOK /\ ProgramsOnly /\ StatesKnown /\ SentLater /\ AtFirst /\ GoneIsLast
      /\ HooksInOrder /\ HooksRun
      /\ PeersAhead /\ RequestDrained /\ ResponseTakenTo /\ SentKnown
      /\ MessagesInOrder /\ ToldWhen /\ ToldSoFar /\ SentSoFar
      /\ BodiesWhole /\ RequestChunks /\ ResponseChunks
  BY DEF IInv, MInv
<1>1. /\ UNCHANGED <<cstate, body, queue, toClient, toServer, hooks, passthrough>>
      /\ UNCHANGED <<client, server, chunks>>
      /\ sstate' = "consume"
  BY DEF BeginResponse, Proceed, states, sent, ends, peers
<1>2. /\ todo \in Programs /\ todo # << >>
      /\ todo = <<"begin_response">>
  <2>1. todo \in Programs /\ todo # << >> /\ (Head(todo) = "begin_response")
    BY <1>0 DEF ProgramsOnly, BeginResponse, Proceed, At
  <2>2. QED
    BY <2>1, Whereabouts
<1>3. todo \in Responding
  BY <1>2 DEF Responding
<1>4. todo \notin Opens \cup Reopened \cup Ending \cup Routing \cup ResponseHook \cup
              Finishing \cup KillError \cup Killing \cup Asked \cup Connecting \cup
              RequestErrorHook \cup AfterRequestError \cup ResponseErrorHook \cup
              AfterResponseError \cup Oversized \cup Unanswering
  BY <1>3, Within, RespondingOnly DEF Opens
<1>5. todo' = << >>
  BY <1>2, Thens DEF BeginResponse, Then
<1>6. todo' \notin Opens \cup Reopened \cup Ending \cup Routing \cup Responding \cup
              ResponseHook \cup Finishing \cup KillError \cup Killing \cup Asked \cup
              Connecting \cup RequestErrorHook \cup AfterRequestError \cup
              ResponseErrorHook \cup AfterResponseError \cup Headed \cup Oversized \cup
              Unanswering
  BY <1>5, Idle
<1>7. (Sent' <=> Sent) /\ (Told' <=> Told)
  BY <1>1 DEF Sent, Told, Has
<1>8. /\ Sent /\ ~Told /\ sstate = "wait" /\ cstate \notin {"wait", "consume"} /\ ~passthrough
      /\ Has(hooks, "responseheaders") /\ ~Has(hooks, "response") /\ body["response"] = 0
      /\ ~Has(toClient, "ResponseHeaders") /\ ~Has(toClient, "ResponseTrailers")
  <2>1. sstate = "wait" /\ cstate \notin {"wait", "consume"} /\ Sent /\ ~passthrough
    BY <1>0, <1>3, <1>2 DEF StatesKnown, SentKnown
  <2>2. ~Told
    BY <1>0, <2>1 DEF ToldWhen
  <2>3. ~Has(toClient, "ResponseHeaders") /\ ~Has(toClient, "ResponseTrailers")
    BY <1>0, <2>1, <2>2 DEF ToldSoFar
  <2>4. todo \in Headed
    BY <1>2 DEF Headed
  <2>5. Has(hooks, "responseheaders") /\ ~Has(hooks, "response") /\ body["response"] = 0
    BY <1>0, <1>4, <2>1, <2>4 DEF HooksRun, ResponseChunks, Over
  <2>6. QED
    BY <2>1, <2>2, <2>3, <2>5
<1>9. HooksInOrder'
  BY <1>0, <1>1 DEF HooksInOrder
<1>10. HooksRun'
  BY <1>0, <1>1, <1>2, <1>5, <1>6, <1>8 DEF HooksRun, Early, Over, Opens
<1>11. PeersAhead'
  BY <1>0, <1>1, <1>2, <1>7 DEF PeersAhead, ClientOver, ServerOver
<1>12. RequestDrained'
  BY <1>0, <1>1, <1>6, <1>8 DEF RequestDrained, ClientOver
<1>13. ResponseTakenTo'
  BY <1>0, <1>1, <1>3, <1>6, <1>7 DEF ResponseTakenTo, Early, ServerOver
<1>14. SentKnown'
  BY <1>1, <1>7, <1>8 DEF SentKnown, Over, Opens
<1>15. MessagesInOrder'
  BY <1>0, <1>1 DEF MessagesInOrder, ResponseInOrder, RequestInOrder
<1>16. ToldWhen'
  BY <1>7, <1>8 DEF ToldWhen, Early
<1>17. ToldSoFar'
  BY <1>1, <1>8 DEF ToldSoFar
<1>18. SentSoFar'
  BY <1>0, <1>1, <1>7 DEF SentSoFar, ClientOver
<1>19. BodiesWhole'
  BY <1>0, <1>1 DEF BodiesWhole
<1>20. RequestChunks'
  BY <1>0, <1>1, <1>4, <1>6 DEF RequestChunks
<1>21. ResponseChunks'
  BY <1>0, <1>1, <1>7, <1>8 DEF ResponseChunks
<1>22. QED
  BY <1>9, <1>10, <1>11, <1>12, <1>13, <1>14, <1>15, <1>16, <1>17, <1>18, <1>19, <1>20,
     <1>21 DEF MInv

\* A response that is streamed begins.
LEMMA StreamedResponseInv ==
  ASSUME IInv, MInv, BeginResponse, "response" \in flow.stream \ bodyless
  PROVE  MInv'
<1>0. /\ TypeOK /\ ProgramsOnly /\ StatesKnown /\ SentLater /\ AtFirst /\ GoneIsLast
      /\ HooksInOrder /\ HooksRun
      /\ PeersAhead /\ RequestDrained /\ ResponseTakenTo /\ SentKnown
      /\ MessagesInOrder /\ ToldWhen /\ ToldSoFar /\ SentSoFar
      /\ BodiesWhole /\ RequestChunks /\ ResponseChunks
  BY DEF IInv, MInv
<1>1. /\ UNCHANGED <<cstate, body, queue, toServer, hooks, passthrough, client>>
      /\ UNCHANGED <<server, chunks>>
      /\ sstate' = "stream" /\ toClient' = Append(toClient, "ResponseHeaders")
  BY DEF BeginResponse, Proceed, states, sent, ends, peers
<1>2. /\ todo \in Programs /\ todo # << >>
      /\ todo = <<"begin_response">>
  <2>1. todo \in Programs /\ todo # << >> /\ (Head(todo) = "begin_response")
    BY <1>0 DEF ProgramsOnly, BeginResponse, Proceed, At
  <2>2. QED
    BY <2>1, Whereabouts
<1>3. todo \in Responding
  BY <1>2 DEF Responding
<1>4. todo \notin Opens \cup Reopened \cup Ending \cup Routing \cup ResponseHook \cup
              Finishing \cup KillError \cup Killing \cup Asked \cup Connecting \cup
              RequestErrorHook \cup AfterRequestError \cup ResponseErrorHook \cup
              AfterResponseError \cup Oversized \cup Unanswering
  BY <1>3, Within, RespondingOnly DEF Opens
<1>5. todo' = << >>
  BY <1>2, Thens DEF BeginResponse, Then
<1>6. todo' \notin Opens \cup Reopened \cup Ending \cup Routing \cup Responding \cup
              ResponseHook \cup Finishing \cup KillError \cup Killing \cup Asked \cup
              Connecting \cup RequestErrorHook \cup AfterRequestError \cup
              ResponseErrorHook \cup AfterResponseError \cup Headed \cup Oversized \cup
              Unanswering
  BY <1>5, Idle
<1>7. (Sent' <=> Sent)
  BY <1>1 DEF Sent, Told, Has
<1>8. /\ Sent /\ ~Told /\ sstate = "wait" /\ cstate \notin {"wait", "consume"} /\ ~passthrough
      /\ Has(hooks, "responseheaders") /\ ~Has(hooks, "response") /\ body["response"] = 0
      /\ ~Has(toClient, "ResponseHeaders") /\ ~Has(toClient, "ResponseTrailers")
  <2>1. sstate = "wait" /\ cstate \notin {"wait", "consume"} /\ Sent /\ ~passthrough
    BY <1>0, <1>3, <1>2 DEF StatesKnown, SentKnown
  <2>2. ~Told
    BY <1>0, <2>1 DEF ToldWhen
  <2>3. ~Has(toClient, "ResponseHeaders") /\ ~Has(toClient, "ResponseTrailers")
    BY <1>0, <2>1, <2>2 DEF ToldSoFar
  <2>4. todo \in Headed
    BY <1>2 DEF Headed
  <2>5. Has(hooks, "responseheaders") /\ ~Has(hooks, "response") /\ body["response"] = 0
    BY <1>0, <1>4, <2>1, <2>4 DEF HooksRun, ResponseChunks, Over
  <2>6. QED
    BY <2>1, <2>2, <2>3, <2>5
<1>9. toClient' = toClient \o <<"ResponseHeaders">>
  BY <1>0, <1>1, AppendIsConcat DEF TypeOK
<1>10. /\ toClient' \in Seq(ToClient) /\ ResponseOrdered(toClient') /\ ~Told'
       /\ Range(toClient') = Range(toClient) \cup {"ResponseHeaders"}
       /\ Count(toClient', "ResponseData") = Count(toClient, "ResponseData")
       /\ ~Has(toClient', "ResponseEnd")
  <2>1. toClient \in Seq(ToClient) /\ ResponseOrdered(toClient) /\ Unended(toClient)
    BY <1>0, <1>8
      DEF TypeOK, ToClient, MessagesInOrder, ResponseInOrder, ResponseOrdered, Told
  <2>2. /\ toClient \o <<"ResponseHeaders">> \in Seq(ToClient)
        /\ ResponseOrdered(toClient \o <<"ResponseHeaders">>)
        /\ Range(toClient \o <<"ResponseHeaders">>) = Range(toClient) \cup {"ResponseHeaders"}
        /\ Count(toClient \o <<"ResponseHeaders">>, "ResponseData") = Count(toClient, "ResponseData")
    BY <2>1, <1>8, TellsHeaders
  <2>3. QED
    BY <1>9, <2>1, <2>2 DEF Told, Unended, Terminal, Has
<1>11. HooksInOrder'
  BY <1>0, <1>1 DEF HooksInOrder
<1>12. HooksRun'
  BY <1>0, <1>1, <1>2, <1>5, <1>6, <1>8 DEF HooksRun, Early, Over, Opens
<1>13. PeersAhead'
  BY <1>0, <1>1, <1>2, <1>7 DEF PeersAhead, ClientOver, ServerOver
<1>14. RequestDrained'
  BY <1>0, <1>1, <1>6, <1>8 DEF RequestDrained, ClientOver
<1>15. ResponseTakenTo'
  BY <1>0, <1>1, <1>3, <1>6, <1>7 DEF ResponseTakenTo, Early, ServerOver
<1>16. SentKnown'
  BY <1>0, <1>1, <1>7, <1>8 DEF SentKnown, Over, Opens
<1>17. MessagesInOrder'
  <2>1. RequestInOrder'
    BY <1>0, <1>1 DEF MessagesInOrder, RequestInOrder
  <2>2. ~Follows(toClient', "ResponseEnd", "ResponseError")
    BY <1>10, FollowsHas DEF Has
  <2>3. ResponseInOrder'
    BY <1>10, <2>2 DEF ResponseInOrder, ResponseOrdered
  <2>4. QED
    BY <2>1, <2>3 DEF MessagesInOrder
<1>18. ToldWhen'
  BY <1>0, <1>1, <1>10 DEF ToldWhen, Early
<1>19. ToldSoFar'
  BY <1>0, <1>1, <1>6, <1>8, <1>10 DEF ToldSoFar, Has
<1>20. SentSoFar'
  BY <1>0, <1>1, <1>7 DEF SentSoFar, ClientOver
<1>21. BodiesWhole'
  BY <1>0, <1>1, <1>10 DEF BodiesWhole
<1>22. RequestChunks'
  BY <1>0, <1>1, <1>4, <1>6 DEF RequestChunks
<1>23. ResponseChunks'
  BY <1>0, <1>1, <1>2, <1>7, <1>8, <1>10 DEF ResponseChunks
<1>24. QED
  BY <1>11, <1>12, <1>13, <1>14, <1>15, <1>16, <1>17, <1>18, <1>19, <1>20, <1>21, <1>22,
     <1>23 DEF MInv

\* A chunk of a response that is streamed.
LEMMA StreamResponseDataInv ==
  ASSUME IInv, MInv, StreamResponseData
  PROVE  MInv'
<1>0. /\ TypeOK /\ ProgramsOnly /\ StatesKnown /\ SentLater /\ AtFirst /\ GoneIsLast
      /\ HooksInOrder /\ HooksRun
      /\ PeersAhead /\ RequestDrained /\ ResponseTakenTo /\ SentKnown
      /\ MessagesInOrder /\ ToldWhen /\ ToldSoFar /\ SentSoFar
      /\ BodiesWhole /\ RequestChunks /\ ResponseChunks
  BY DEF IInv, MInv
<1>1. /\ UNCHANGED <<cstate, sstate, body, todo, toServer, hooks, passthrough>>
      /\ UNCHANGED <<client, server, chunks>>
      /\ todo = << >> /\ queue # << >> /\ Head(queue) = "ResponseData"
      /\ queue' = Tail(queue) /\ ~passthrough
      /\ sstate = "stream" /\ toClient' = Append(toClient, "ResponseData")
  BY DEF StreamResponseData, Handle, states, sent, ends, peers
<1>2. todo \notin Opens \cup Reopened \cup Ending \cup Routing \cup Responding \cup
              ResponseHook \cup Finishing \cup KillError \cup Killing \cup Asked \cup
              Connecting \cup RequestErrorHook \cup AfterRequestError \cup
              ResponseErrorHook \cup AfterResponseError \cup Headed \cup Oversized \cup
              Unanswering
  BY <1>1, Idle
<1>3. Took("ResponseData")
  BY <1>1, Taken
<1>4. (Sent' <=> Sent)
  BY <1>1 DEF Sent, Told, Has
<1>5. /\ Sent /\ ~Told /\ Has(toClient, "ResponseHeaders") /\ ~Has(toClient, "ResponseTrailers")
  <2>1. sstate = "stream" /\ Sent
    BY <1>0 DEF SentKnown, StreamResponseData
  <2>2. ~Told
    BY <1>0, <1>1, <2>1 DEF ToldWhen, Early
  <2>3. QED
    BY <1>0, <2>1, <2>2 DEF ToldSoFar
<1>6. /\ toClient' \in Seq(ToClient) /\ ResponseOrdered(toClient') /\ ~Told'
      /\ Range(toClient') = Range(toClient) \cup {"ResponseData"}
      /\ Count(toClient', "ResponseData") = Count(toClient, "ResponseData") + 1
      /\ ~Has(toClient', "ResponseEnd")
  <2>1. toClient \in Seq(ToClient) /\ ResponseOrdered(toClient) /\ Unended(toClient)
    BY <1>0, <1>5
      DEF TypeOK, ToClient, MessagesInOrder, ResponseInOrder, ResponseOrdered, Told
  <2>2. /\ Append(toClient, "ResponseData") \in Seq(ToClient)
        /\ ResponseOrdered(Append(toClient, "ResponseData"))
        /\ Range(Append(toClient, "ResponseData")) = Range(toClient) \cup {"ResponseData"}
        /\ Count(Append(toClient, "ResponseData"), "ResponseData") = Count(toClient, "ResponseData") + 1
    BY <2>1, <1>5, TellsChunk
  <2>3. QED
    BY <1>1, <2>1, <2>2 DEF Told, Unended, Terminal, Has
<1>7. Awaited => Awaited'
  BY <1>1, <1>3, TookOther
<1>8. /\ body["response"] \in Nat /\ Count(toClient, "ResponseData") \in Nat
  <2>1. body \in [Sides -> 0..MaxChunks] /\ toClient \in Seq(ToClient) /\ MaxChunks \in Nat
    BY <1>0, HttpStreamAssumption DEF TypeOK, ToClient
  <2>2. body["response"] \in Nat
    BY <2>1 DEF Sides
  <2>3. QED
    BY <2>1, <2>2, CountIsNat
<1>9. /\ Count(queue, "ResponseData") = Count(queue', "ResponseData") + 1
      /\ Count(queue', "RequestData") = Count(queue, "RequestData")
      /\ Count(queue, "ResponseData") \in Nat /\ Count(queue', "ResponseData") \in Nat
  BY <1>0, <1>1, TookCounts DEF TypeOK
<1>10. HooksInOrder'
  BY <1>0, <1>1 DEF HooksInOrder
<1>11. HooksRun'
  BY <1>0, <1>1 DEF HooksRun, Early, Over, Opens
<1>12. PeersAhead'
  BY TookPeers, <1>0, <1>1, <1>3, <1>4
<1>13. RequestDrained'
  BY <1>0, <1>1, <1>3 DEF RequestDrained, ClientOver, Took
<1>14. ResponseTakenTo'
  BY <1>0, <1>1, <1>3, <1>4 DEF ResponseTakenTo, Early, ServerOver, Took
<1>15. SentKnown'
  BY <1>0, <1>1, <1>4 DEF SentKnown, Over, Opens
<1>16. MessagesInOrder'
  <2>1. RequestInOrder'
    BY <1>0, <1>1 DEF MessagesInOrder, RequestInOrder
  <2>2. ~Follows(toClient', "ResponseEnd", "ResponseError")
    BY <1>6, FollowsHas DEF Has
  <2>3. ResponseInOrder'
    BY <1>6, <2>2 DEF ResponseInOrder, ResponseOrdered
  <2>4. QED
    BY <2>1, <2>3 DEF MessagesInOrder
<1>17. ToldWhen'
  BY <1>0, <1>6 DEF ToldWhen, Early
<1>18. ToldSoFar'
  BY <1>0, <1>1, <1>6 DEF ToldSoFar, Has
<1>19. SentSoFar'
  BY <1>0, <1>1, <1>4 DEF SentSoFar, ClientOver
<1>20. BodiesWhole'
  BY <1>0, <1>1, <1>6 DEF BodiesWhole
<1>21. RequestChunks'
  BY <1>0, <1>1, <1>9 DEF RequestChunks
<1>22. ResponseChunks'
  <2>1. /\ body["response"] + Count(queue, "ResponseData") + Count(toClient, "ResponseData") = chunks["response"]
        /\ body["response"] = 0
    BY <1>0, <1>1, <1>5 DEF ResponseChunks
  <2>2. body["response"] + Count(queue', "ResponseData") + Count(toClient', "ResponseData") = chunks["response"]
    BY <2>1, <1>6, <1>8, <1>9
  <2>3. QED
    BY <1>1, <1>4, <1>5, <2>1, <2>2 DEF ResponseChunks
<1>23. QED
  BY <1>10, <1>11, <1>12, <1>13, <1>14, <1>15, <1>16, <1>17, <1>18, <1>19, <1>20, <1>21,
     <1>22 DEF MInv

\* The trailers of a response are kept.
LEMMA ResponseTrailersInv ==
  ASSUME IInv, MInv, ResponseTrailers
  PROVE  MInv'
<1>0. /\ TypeOK /\ ProgramsOnly /\ StatesKnown /\ SentLater /\ AtFirst /\ GoneIsLast
      /\ HooksInOrder /\ HooksRun
      /\ PeersAhead /\ RequestDrained /\ ResponseTakenTo /\ SentKnown
      /\ MessagesInOrder /\ ToldWhen /\ ToldSoFar /\ SentSoFar
      /\ BodiesWhole /\ RequestChunks /\ ResponseChunks
  BY DEF IInv, MInv
<1>1. /\ UNCHANGED <<cstate, sstate, body, todo, toClient, toServer, hooks>>
      /\ UNCHANGED <<passthrough, client, server, chunks>>
      /\ todo = << >> /\ queue # << >> /\ Head(queue) = "ResponseTrailers"
      /\ queue' = Tail(queue) /\ ~passthrough
      /\ sstate \in {"consume", "stream"}
  BY DEF ResponseTrailers, Handle, states, sent, ends, peers
<1>2. todo \notin Opens \cup Reopened \cup Ending \cup Routing \cup Responding \cup
              ResponseHook \cup Finishing \cup KillError \cup Killing \cup Asked \cup
              Connecting \cup RequestErrorHook \cup AfterRequestError \cup
              ResponseErrorHook \cup AfterResponseError \cup Headed \cup Oversized \cup
              Unanswering
  BY <1>1, Idle
<1>3. Took("ResponseTrailers")
  BY <1>1, Taken
<1>4. (Sent' <=> Sent) /\ (Told' <=> Told)
  BY <1>1 DEF Sent, Told, Has
<1>5. /\ Count(queue', "RequestData") = Count(queue, "RequestData")
      /\ Count(queue', "ResponseData") = Count(queue, "ResponseData")
  BY <1>0, <1>1, TookCounts DEF TypeOK
<1>6. Awaited => Awaited'
  BY <1>1, <1>3, TookOther
<1>7. HooksInOrder'
  BY <1>0, <1>1 DEF HooksInOrder
<1>8. HooksRun'
  BY <1>0, <1>1 DEF HooksRun, Early, Over
<1>9. PeersAhead'
  BY TookPeers, <1>0, <1>1, <1>3, <1>4
<1>10. RequestDrained'
  BY <1>0, <1>1, <1>3 DEF RequestDrained, ClientOver, Took
<1>11. ResponseTakenTo'
  BY <1>0, <1>1, <1>3, <1>4 DEF ResponseTakenTo, Early, ServerOver, Took
<1>12. SentKnown'
  BY <1>0, <1>1, <1>4 DEF SentKnown
<1>13. MessagesInOrder'
  BY <1>0, <1>1 DEF MessagesInOrder, ResponseInOrder, RequestInOrder
<1>14. ToldWhen'
  BY <1>0, <1>1, <1>4 DEF ToldWhen
<1>15. ToldSoFar'
  BY <1>0, <1>1, <1>4 DEF ToldSoFar
<1>16. SentSoFar'
  BY <1>0, <1>1, <1>4 DEF SentSoFar, ClientOver
<1>17. BodiesWhole'
  BY <1>0, <1>1 DEF BodiesWhole
<1>18. RequestChunks'
  BY <1>0, <1>1, <1>5 DEF RequestChunks
<1>19. ResponseChunks'
  BY <1>0, <1>1, <1>3, <1>4, <1>5 DEF ResponseChunks, Took
<1>20. QED
  BY <1>7, <1>8, <1>9, <1>10, <1>11, <1>12, <1>13, <1>14, <1>15, <1>16, <1>17, <1>18,
     <1>19 DEF MInv

\* A response is complete.
LEMMA ResponseEndInv ==
  ASSUME IInv, MInv, ResponseEnd
  PROVE  MInv'
<1>0. /\ TypeOK /\ ProgramsOnly /\ StatesKnown /\ SentLater /\ AtFirst /\ GoneIsLast
      /\ HooksInOrder /\ HooksRun
      /\ PeersAhead /\ RequestDrained /\ ResponseTakenTo /\ SentKnown
      /\ MessagesInOrder /\ ToldWhen /\ ToldSoFar /\ SentSoFar
      /\ BodiesWhole /\ RequestChunks /\ ResponseChunks
  BY DEF IInv, MInv
<1>1. /\ UNCHANGED <<cstate, sstate, body, toClient, toServer, hooks, passthrough>>
      /\ UNCHANGED <<client, server, chunks>>
      /\ todo = << >> /\ queue # << >> /\ Head(queue) = "ResponseEnd"
      /\ queue' = Tail(queue) /\ ~passthrough
      /\ sstate \in {"consume", "stream"}
      /\ todo' = <<"response", "finish_response">>
  BY DEF ResponseEnd, Handle, states, sent, ends, peers
<1>2. todo \notin Opens \cup Reopened \cup Ending \cup Routing \cup Responding \cup
              ResponseHook \cup Finishing \cup KillError \cup Killing \cup Asked \cup
              Connecting \cup RequestErrorHook \cup AfterRequestError \cup
              ResponseErrorHook \cup AfterResponseError \cup Headed \cup Oversized \cup
              Unanswering
  BY <1>1, Idle
<1>3. todo' \in ResponseHook
  BY <1>1 DEF ResponseHook
<1>4. todo' \notin Opens \cup Reopened \cup Ending \cup Routing \cup Responding \cup
              Finishing \cup KillError \cup Killing \cup Asked \cup Connecting \cup
              RequestErrorHook \cup AfterRequestError \cup ResponseErrorHook \cup
              AfterResponseError \cup Headed \cup Oversized \cup Unanswering
  BY <1>3, Within, ResponseHookOnly DEF Opens
<1>5. Took("ResponseEnd")
  BY <1>1, Taken
<1>6. (Sent' <=> Sent) /\ (Told' <=> Told)
  BY <1>1 DEF Sent, Told, Has
<1>7. /\ ServerOver /\ ~Responded(queue') /\ Sent /\ Has(hooks, "responseheaders")
  BY <1>0, <1>1, <1>5 DEF Took, PeersAhead, SentKnown, HooksRun
<1>8. /\ Count(queue', "RequestData") = Count(queue, "RequestData")
      /\ Count(queue', "ResponseData") = Count(queue, "ResponseData")
  BY <1>0, <1>1, TookCounts DEF TypeOK
<1>9. Awaited => Awaited'
  BY <1>1, <1>5, TookOther
<1>10. HooksInOrder'
  BY <1>0, <1>1 DEF HooksInOrder
<1>11. HooksRun'
  BY <1>0, <1>1, <1>2, <1>4 DEF HooksRun, Early, Over, Opens
<1>12. PeersAhead'
  BY TookPeers, <1>0, <1>1, <1>5, <1>6
<1>13. RequestDrained'
  BY <1>0, <1>1, <1>4, <1>5 DEF RequestDrained, ClientOver, Took
<1>14. ResponseTakenTo'
  BY <1>0, <1>1, <1>5, <1>7 DEF ResponseTakenTo, Early, ServerOver, Took
<1>15. SentKnown'
  BY <1>0, <1>1, <1>6 DEF SentKnown, Over, Opens
<1>16. MessagesInOrder'
  BY <1>0, <1>1 DEF MessagesInOrder, ResponseInOrder, RequestInOrder
<1>17. ToldWhen'
  BY <1>0, <1>1, <1>6 DEF ToldWhen, Early
<1>18. ToldSoFar'
  BY <1>0, <1>1, <1>4, <1>6 DEF ToldSoFar
<1>19. SentSoFar'
  BY <1>0, <1>1, <1>6 DEF SentSoFar, ClientOver
<1>20. BodiesWhole'
  BY <1>0, <1>1 DEF BodiesWhole
<1>21. RequestChunks'
  BY <1>0, <1>1, <1>2, <1>4, <1>6, <1>8 DEF RequestChunks
<1>22. ResponseChunks'
  BY <1>0, <1>1, <1>5, <1>6, <1>8 DEF ResponseChunks, Took
<1>23. QED
  BY <1>10, <1>11, <1>12, <1>13, <1>14, <1>15, <1>16, <1>17, <1>18, <1>19, <1>20, <1>21,
     <1>22 DEF MInv

\* A response that is too large is refused.
LEMMA RefuseResponseInv ==
  ASSUME IInv, MInv, RefuseResponse
  PROVE  MInv'
<1>0. /\ TypeOK /\ ProgramsOnly /\ StatesKnown /\ SentLater /\ AtFirst /\ GoneIsLast
      /\ HooksInOrder /\ HooksRun
      /\ PeersAhead /\ RequestDrained /\ ResponseTakenTo /\ SentKnown
      /\ MessagesInOrder /\ ToldWhen /\ ToldSoFar /\ SentSoFar
      /\ BodiesWhole /\ RequestChunks /\ ResponseChunks
  BY DEF IInv, MInv
<1>1. /\ UNCHANGED <<body, queue, hooks, passthrough, client, chunks>>
      /\ todo' = << >> /\ cstate' = "errored" /\ sstate' = "errored"
      /\ server' = "gone"
      /\ toClient' = Append(toClient, "ResponseError")
      /\ toServer' = Append(toServer, "RequestError")
  BY DEF RefuseResponse, states, sent, ends, peers
<1>2. /\ todo \in Programs /\ todo # << >>
      /\ todo = <<"refuse_response">>
  <2>1. todo \in Programs /\ todo # << >> /\ (Head(todo) = "refuse_response")
    BY <1>0 DEF ProgramsOnly, RefuseResponse, At
  <2>2. QED
    BY <2>1, Whereabouts
<1>3. todo \in Killing
  BY <1>2 DEF Killing
<1>4. todo \notin Opens \cup Reopened \cup Ending \cup Routing \cup Responding \cup
              ResponseHook \cup Finishing \cup KillError \cup Asked \cup
              Connecting \cup RequestErrorHook \cup AfterRequestError \cup
              ResponseErrorHook \cup AfterResponseError \cup Headed \cup Unanswering
  BY <1>3, Within, KillingOnly DEF Opens
<1>5. todo' = << >>
  BY <1>1
<1>6. todo' \notin Opens \cup Reopened \cup Ending \cup Routing \cup Responding \cup
              ResponseHook \cup Finishing \cup KillError \cup Killing \cup Asked \cup
              Connecting \cup RequestErrorHook \cup AfterRequestError \cup
              ResponseErrorHook \cup AfterResponseError \cup Headed \cup Oversized \cup
              Unanswering
  BY <1>5, Idle
<1>7. /\ Sent /\ ~Told /\ ~passthrough
  <2>1. todo \in Oversized
    BY <1>2 DEF Oversized
  <2>2. QED
    BY <1>0, <1>3, <1>2, <2>1 DEF SentKnown, ToldWhen, StatesKnown
<1>8. /\ toClient' \in Seq(ToClient) /\ ResponseOrdered(toClient')
      /\ Range(toClient') = Range(toClient) \cup {"ResponseError"}
      /\ Count(toClient', "ResponseData") = Count(toClient, "ResponseData")
      /\ Follows(toClient', "ResponseEnd", "ResponseError") => Has(toClient, "ResponseEnd")
      /\ Told'
  <2>1. toClient \in Seq(ToClient) /\ ResponseOrdered(toClient)
    BY <1>0 DEF TypeOK, ToClient, MessagesInOrder, ResponseInOrder, ResponseOrdered
  <2>2. /\ Append(toClient, "ResponseError") \in Seq(ToClient)
        /\ ResponseOrdered(Append(toClient, "ResponseError"))
        /\ Range(Append(toClient, "ResponseError")) = Range(toClient) \cup {"ResponseError"}
        /\ Count(Append(toClient, "ResponseError"), "ResponseData") = Count(toClient, "ResponseData")
        /\ Follows(Append(toClient, "ResponseError"), "ResponseEnd", "ResponseError") =>
             Has(toClient, "ResponseEnd")
    BY <2>1, TellsError
  <2>3. QED
    BY <1>1, <2>2 DEF Told, Unended, Terminal
<1>9. /\ toServer' \in Seq(ToServer) /\ RequestOrdered(toServer')
      /\ Range(toServer') = Range(toServer) \cup {"RequestError"}
      /\ Count(toServer', "RequestData") = Count(toServer, "RequestData")
      /\ Sent'
  <2>1. toServer \in Seq(ToServer) /\ RequestOrdered(toServer) /\ toServer # << >>
    BY <1>0, <1>7, RangeEmpty
      DEF TypeOK, ToServer, MessagesInOrder, RequestInOrder, RequestOrdered, Sent, Has
  <2>2. /\ Append(toServer, "RequestError") \in Seq(ToServer)
        /\ RequestOrdered(Append(toServer, "RequestError"))
        /\ Range(Append(toServer, "RequestError")) = Range(toServer) \cup {"RequestError"}
        /\ Count(Append(toServer, "RequestError"), "RequestData") = Count(toServer, "RequestData")
    BY <2>1, SendsError
  <2>3. QED
    BY <1>1, <1>7, <2>2 DEF Sent, Has
<1>10. HooksInOrder'
  BY <1>0, <1>1 DEF HooksInOrder
<1>11. HooksRun'
  BY <1>0, <1>1, <1>6 DEF HooksRun, Early, Over, Opens
<1>12. PeersAhead'
  BY <1>0, <1>1, <1>2, <1>9 DEF PeersAhead, ClientOver, ServerOver
<1>13. RequestDrained'
  BY <1>0, <1>1, <1>6 DEF RequestDrained, ClientOver
<1>14. ResponseTakenTo'
  BY <1>0, <1>1, <1>6 DEF ResponseTakenTo, Early, ServerOver
<1>15. SentKnown'
  BY <1>0, <1>1, <1>6, <1>7 DEF SentKnown, Over, Opens
<1>16. MessagesInOrder'
  <2>1. ~Has(toClient, "ResponseEnd")
    BY <1>7 DEF Told, Unended, Terminal, Has
  <2>2. ResponseInOrder'
    BY <1>1, <1>8, <2>1 DEF ResponseInOrder, ResponseOrdered
  <2>3. RequestInOrder'
    BY <1>9 DEF RequestInOrder, RequestOrdered
  <2>4. QED
    BY <2>2, <2>3 DEF MessagesInOrder
<1>17. ToldWhen'
  BY <1>0, <1>1, <1>6 DEF ToldWhen, Early
<1>18. ToldSoFar'
  BY <1>0, <1>1, <1>6 DEF ToldSoFar, Has
<1>19. SentSoFar'
  BY <1>0, <1>1, <1>9 DEF SentSoFar, ClientOver, Has
<1>20. BodiesWhole'
  BY <1>0, <1>1, <1>9 DEF BodiesWhole, Has
<1>21. RequestChunks'
  BY <1>0, <1>1, <1>6 DEF RequestChunks
<1>22. ResponseChunks'
  BY <1>0, <1>1, <1>6, <1>9 DEF ResponseChunks
<1>23. QED
  BY <1>10, <1>11, <1>12, <1>13, <1>14, <1>15, <1>16, <1>17, <1>18, <1>19, <1>20, <1>21,
     <1>22 DEF MInv

\* A chunk of a response that is buffered, or exceeds the limit.
LEMMA ConsumeResponseDataInv ==
  ASSUME IInv, MInv, ConsumeResponseData, UNCHANGED sstate
  PROVE  MInv'
<1>0. /\ TypeOK /\ ProgramsOnly /\ StatesKnown /\ SentLater /\ AtFirst /\ GoneIsLast
      /\ HooksInOrder /\ HooksRun
      /\ PeersAhead /\ RequestDrained /\ ResponseTakenTo /\ SentKnown
      /\ MessagesInOrder /\ ToldWhen /\ ToldSoFar /\ SentSoFar
      /\ BodiesWhole /\ RequestChunks /\ ResponseChunks
  BY DEF IInv, MInv
<1>1. /\ UNCHANGED <<cstate, sstate, toClient, toServer, hooks, passthrough, client>>
      /\ UNCHANGED <<server, chunks>>
      /\ todo = << >> /\ queue # << >> /\ Head(queue) = "ResponseData"
      /\ queue' = Tail(queue) /\ ~passthrough
      /\ sstate = "consume"
      /\ body' = [body EXCEPT !["response"] = @ + 1]
  BY DEF ConsumeResponseData, Handle, states, sent, ends, peers
<1>2. todo \notin Opens \cup Reopened \cup Ending \cup Routing \cup Responding \cup
              ResponseHook \cup Finishing \cup KillError \cup Killing \cup Asked \cup
              Connecting \cup RequestErrorHook \cup AfterRequestError \cup
              ResponseErrorHook \cup AfterResponseError \cup Headed \cup Oversized \cup
              Unanswering
  BY <1>1, Idle
<1>3. Took("ResponseData")
  BY <1>1, Taken
<1>4. (Sent' <=> Sent) /\ (Told' <=> Told)
  BY <1>1 DEF Sent, Told, Has
<1>5. /\ todo' \notin Opens \cup Reopened \cup Ending \cup Routing \cup Responding \cup
                 ResponseHook \cup Finishing \cup Killing \cup Asked \cup Connecting \cup
                 RequestErrorHook \cup AfterRequestError \cup ResponseErrorHook \cup
                 AfterResponseError \cup Headed \cup Unanswering
  <2>1. todo' = << >> \/ todo' \in KillError
    BY <1>1 DEF ConsumeResponseData, KillError
  <2>2. CASE todo' = << >>
    BY <2>2, Idle
  <2>3. CASE todo' \in KillError
    BY <2>3, Within, KillErrorOnly DEF Opens
  <2>4. QED
    BY <2>1, <2>2, <2>3
<1>6. /\ Sent /\ ~Told /\ Has(hooks, "responseheaders")
      /\ ~Has(toClient, "ResponseHeaders") /\ ~Has(toClient, "ResponseData")
  <2>1. sstate = "consume"
    BY <1>1
  <2>2. Sent /\ ~Told /\ Has(hooks, "responseheaders")
    BY <1>0, <1>1, <2>1 DEF SentKnown, ToldWhen, Early, HooksRun
  <2>3. ~Has(toClient, "ResponseHeaders")
    BY <1>0, <2>1, <2>2 DEF ToldSoFar
  <2>4. QED
    BY <1>0, <2>2, <2>3, FollowsHas DEF MessagesInOrder, ResponseInOrder
<1>7. Awaited => Awaited'
  BY <1>1, <1>3, TookOther
<1>8. ~Has(queue', "ResponseHeaders") /\ server # "idle"
  BY <1>0, <1>3, <1>1, <1>6 DEF Took, ResponseTakenTo
<1>9. /\ body'["response"] = body["response"] + 1 /\ body'["request"] = body["request"]
      /\ body["response"] \in Nat
  BY <1>0, <1>1, HttpStreamAssumption DEF TypeOK, Sides
<1>10. /\ Count(queue, "ResponseData") = Count(queue', "ResponseData") + 1
       /\ Count(queue', "RequestData") = Count(queue, "RequestData")
       /\ Count(queue, "ResponseData") \in Nat /\ Count(queue', "ResponseData") \in Nat
  BY <1>0, <1>1, TookCounts DEF TypeOK
<1>11. HooksInOrder'
  BY <1>0, <1>1 DEF HooksInOrder
<1>12. HooksRun'
  BY <1>0, <1>1, <1>2, <1>5, Within DEF HooksRun, Early, Over, Opens
<1>13. PeersAhead'
  BY TookPeers, <1>0, <1>1, <1>3, <1>4
<1>14. RequestDrained'
  BY <1>0, <1>1, <1>3, <1>5 DEF RequestDrained, ClientOver, Took
<1>15. ResponseTakenTo'
  BY <1>0, <1>1, <1>3, <1>4, <1>5 DEF ResponseTakenTo, Early, ServerOver, Took
<1>16. SentKnown'
  BY <1>0, <1>1, <1>4 DEF SentKnown, Over, Opens
<1>17. MessagesInOrder'
  BY <1>0, <1>1 DEF MessagesInOrder, ResponseInOrder, RequestInOrder
<1>18. ToldWhen'
  BY <1>0, <1>1, <1>4 DEF ToldWhen, Early
<1>19. ToldSoFar'
  BY <1>0, <1>1, <1>4, <1>5 DEF ToldSoFar
<1>20. SentSoFar'
  BY <1>0, <1>1, <1>4 DEF SentSoFar, ClientOver
<1>21. BodiesWhole'
  BY <1>0, <1>1 DEF BodiesWhole
<1>22. RequestChunks'
  BY <1>0, <1>1, <1>2, <1>5, <1>10 DEF RequestChunks
<1>23. ResponseChunks'
  BY <1>0, <1>1, <1>4, <1>6, <1>9, <1>10 DEF ResponseChunks, Took
<1>24. QED
  BY <1>11, <1>12, <1>13, <1>14, <1>15, <1>16, <1>17, <1>18, <1>19, <1>20, <1>21, <1>22,
     <1>23 DEF MInv

\* From here on the response is streamed.
LEMMA FlushResponseDataInv ==
  ASSUME IInv, MInv, ConsumeResponseData, sstate' # sstate
  PROVE  MInv'
<1>0. /\ TypeOK /\ ProgramsOnly /\ StatesKnown /\ SentLater /\ AtFirst /\ GoneIsLast
      /\ HooksInOrder /\ HooksRun
      /\ PeersAhead /\ RequestDrained /\ ResponseTakenTo /\ SentKnown
      /\ MessagesInOrder /\ ToldWhen /\ ToldSoFar /\ SentSoFar
      /\ BodiesWhole /\ RequestChunks /\ ResponseChunks
  BY DEF IInv, MInv
<1>1. /\ UNCHANGED <<cstate, todo, toServer, hooks, passthrough, client, server>>
      /\ UNCHANGED <<chunks>>
      /\ todo = << >> /\ queue # << >> /\ Head(queue) = "ResponseData"
      /\ queue' = Tail(queue) /\ ~passthrough
      /\ sstate = "consume" /\ sstate' = "stream" /\ toClient' = FlushBuffered
      /\ body' = [body EXCEPT !["response"] = 0]
  BY DEF ConsumeResponseData, Handle, states, sent, ends, peers
<1>2. todo \notin Opens \cup Reopened \cup Ending \cup Routing \cup Responding \cup
              ResponseHook \cup Finishing \cup KillError \cup Killing \cup Asked \cup
              Connecting \cup RequestErrorHook \cup AfterRequestError \cup
              ResponseErrorHook \cup AfterResponseError \cup Headed \cup Oversized \cup
              Unanswering
  BY <1>1, Idle
<1>3. Took("ResponseData")
  BY <1>1, Taken
<1>4. (Sent' <=> Sent)
  BY <1>1 DEF Sent, Told, Has
<1>5. /\ Sent /\ ~Told /\ Has(hooks, "responseheaders")
      /\ ~Has(toClient, "ResponseHeaders") /\ ~Has(toClient, "ResponseData")
  <2>1. sstate = "consume"
    BY <1>1
  <2>2. Sent /\ ~Told /\ Has(hooks, "responseheaders")
    BY <1>0, <1>1, <2>1 DEF SentKnown, ToldWhen, Early, HooksRun
  <2>3. ~Has(toClient, "ResponseHeaders")
    BY <1>0, <2>1, <2>2 DEF ToldSoFar
  <2>4. QED
    BY <1>0, <2>2, <2>3, FollowsHas DEF MessagesInOrder, ResponseInOrder
<1>6. /\ body'["response"] = 0 /\ body'["request"] = body["request"]
      /\ body["response"] \in Nat
  BY <1>0, <1>1, HttpStreamAssumption DEF TypeOK, Sides
<1>7. Awaited => Awaited'
  BY <1>1, <1>3, TookOther
<1>8. ~Has(queue', "ResponseHeaders") /\ server # "idle"
  BY <1>0, <1>3, <1>1, <1>5 DEF Took, ResponseTakenTo
<1>9. /\ Count(queue, "ResponseData") = Count(queue', "ResponseData") + 1
      /\ Count(queue', "RequestData") = Count(queue, "RequestData")
      /\ Count(queue, "ResponseData") \in Nat /\ Count(queue', "ResponseData") \in Nat
  BY <1>0, <1>1, TookCounts DEF TypeOK
<1>10. /\ toClient' \in Seq(ToClient) /\ ResponseOrdered(toClient') /\ ~Told'
       /\ Has(toClient', "ResponseHeaders") /\ ~Has(toClient', "ResponseTrailers")
       /\ Count(toClient', "ResponseData") = body["response"] + 1
       /\ ~Has(toClient', "ResponseEnd")
  <2>1. toClient \in Seq(ToClient) /\ ResponseOrdered(toClient) /\ Unended(toClient)
    BY <1>0, <1>5
      DEF TypeOK, ToClient, MessagesInOrder, ResponseInOrder, ResponseOrdered, Told
  <2>2. ASSUME NEW n \in Nat, NEW u, u = toClient \o <<"ResponseHeaders">> \o Copies("ResponseData", n)
        PROVE  /\ u \in Seq(ToClient) /\ ResponseOrdered(u) /\ Unended(u)
               /\ Has(u, "ResponseHeaders") /\ ~Has(u, "ResponseTrailers")
               /\ Count(u, "ResponseData") = n
    BY <2>1, <2>2, <1>5, ResponseBegun
  <2>3. toClient' = toClient \o <<"ResponseHeaders">> \o Copies("ResponseData", body["response"] + 1)
    BY <1>1 DEF FlushBuffered
  <2>4. body["response"] + 1 \in Nat
    BY <1>6
  <2>5. /\ toClient' \in Seq(ToClient) /\ ResponseOrdered(toClient') /\ Unended(toClient')
        /\ Has(toClient', "ResponseHeaders") /\ ~Has(toClient', "ResponseTrailers")
        /\ Count(toClient', "ResponseData") = body["response"] + 1
    BY <2>2, <2>3, <2>4
  <2>6. QED
    BY <2>5 DEF Told, Unended, Terminal, Has
<1>11. HooksInOrder'
  BY <1>0, <1>1 DEF HooksInOrder
<1>12. HooksRun'
  BY <1>0, <1>1, <1>2 DEF HooksRun, Early, Over, Opens
<1>13. PeersAhead'
  BY TookPeers, <1>0, <1>1, <1>3, <1>4
<1>14. RequestDrained'
  BY <1>0, <1>1, <1>3 DEF RequestDrained, ClientOver, Took
<1>15. ResponseTakenTo'
  BY <1>0, <1>1, <1>3, <1>4 DEF ResponseTakenTo, Early, ServerOver, Took
<1>16. SentKnown'
  BY <1>0, <1>1, <1>4 DEF SentKnown, Over, Opens
<1>17. MessagesInOrder'
  <2>1. RequestInOrder'
    BY <1>0, <1>1 DEF MessagesInOrder, RequestInOrder
  <2>2. ~Follows(toClient', "ResponseEnd", "ResponseError")
    BY <1>10, FollowsHas DEF Has
  <2>3. ResponseInOrder'
    BY <1>10, <2>2 DEF ResponseInOrder, ResponseOrdered
  <2>4. QED
    BY <2>1, <2>3 DEF MessagesInOrder
<1>18. ToldWhen'
  BY <1>0, <1>1, <1>10 DEF ToldWhen, Early
<1>19. ToldSoFar'
  BY <1>0, <1>1, <1>2, <1>10 DEF ToldSoFar
<1>20. SentSoFar'
  BY <1>0, <1>1, <1>4 DEF SentSoFar, ClientOver
<1>21. BodiesWhole'
  BY <1>0, <1>1, <1>10 DEF BodiesWhole
<1>22. RequestChunks'
  BY <1>0, <1>1, <1>9 DEF RequestChunks
<1>23. ResponseChunks'
  <2>1. body["response"] + Count(queue, "ResponseData") + Count(toClient, "ResponseData") = chunks["response"]
    BY <1>0, <1>1, <1>5 DEF ResponseChunks
  <2>2. Count(toClient, "ResponseData") = 0
    BY <1>5, CountNone
  <2>3. body'["response"] + Count(queue', "ResponseData") + Count(toClient', "ResponseData") = chunks["response"]
    BY <2>1, <2>2, <1>10, <1>6, <1>9
  <2>4. QED
    BY <1>1, <1>4, <1>5, <1>6, <2>3 DEF ResponseChunks
<1>24. QED
  BY <1>11, <1>12, <1>13, <1>14, <1>15, <1>16, <1>17, <1>18, <1>19, <1>20, <1>21, <1>22,
     <1>23 DEF MInv

\* A response is sent before the end of the request.
LEMMA FinishResponseInv ==
  ASSUME IInv, MInv, NEW all, FinishResponse, cstate # "done",
         all = toClient \o UnsentResponse \o Trailers("ResponseTrailers", "response")
  PROVE  MInv'
<1>0. /\ TypeOK /\ ProgramsOnly /\ StatesKnown /\ SentLater /\ AtFirst /\ GoneIsLast
      /\ HooksInOrder /\ HooksRun
      /\ PeersAhead /\ RequestDrained /\ ResponseTakenTo /\ SentKnown
      /\ MessagesInOrder /\ ToldWhen /\ ToldSoFar /\ SentSoFar
      /\ BodiesWhole /\ RequestChunks /\ ResponseChunks
  BY DEF IInv, MInv
<1>1. /\ UNCHANGED <<cstate, body, queue, toServer, hooks, passthrough, client>>
      /\ UNCHANGED <<server, chunks>>
      /\ sstate' = "done" /\ toClient' = toClient \o UnsentResponse \o Trailers("ResponseTrailers", "response")
  BY DEF FinishResponse, Proceed, states, sent, ends, peers
<1>2. /\ todo \in Programs /\ todo # << >>
      /\ todo = <<"finish_response">>
  <2>1. todo \in Programs /\ todo # << >> /\ (Head(todo) = "finish_response")
    BY <1>0 DEF ProgramsOnly, FinishResponse, Proceed, At
  <2>2. QED
    BY <2>1, Whereabouts
<1>3. todo \in Finishing
  BY <1>2 DEF Finishing
<1>4. todo \notin Opens \cup Reopened \cup Ending \cup Routing \cup Responding \cup
              ResponseHook \cup KillError \cup Killing \cup Asked \cup Connecting \cup
              RequestErrorHook \cup AfterRequestError \cup ResponseErrorHook \cup
              AfterResponseError \cup Headed \cup Oversized \cup Unanswering
  BY <1>3, Within, FinishingOnly DEF Opens
<1>5. todo' = << >>
  BY <1>2, Thens DEF FinishResponse, Then
<1>6. todo' \notin Opens \cup Reopened \cup Ending \cup Routing \cup Responding \cup
              ResponseHook \cup Finishing \cup KillError \cup Killing \cup Asked \cup
              Connecting \cup RequestErrorHook \cup AfterRequestError \cup
              ResponseErrorHook \cup AfterResponseError \cup Headed \cup Oversized \cup
              Unanswering
  BY <1>5, Idle
<1>7. (Sent' <=> Sent)
  BY <1>1 DEF Sent, Told, Has
<1>8. /\ sstate \in {"wait", "consume", "stream"} /\ cstate \notin {"wait", "consume"}
      /\ ~Told /\ ~passthrough /\ ~Responded(queue) /\ ~Has(queue, "ResponseHeaders")
      /\ (Sent => ServerOver) /\ Has(hooks, "responseheaders")
  <2>1. /\ sstate \in {"wait", "consume", "stream"} /\ cstate \notin {"wait", "consume"}
        /\ ~passthrough
    BY <1>0, <1>3, <1>2 DEF StatesKnown
  <2>2. ~Told
    BY <1>0, <1>3, <2>1 DEF ToldWhen, SentKnown
  <2>3. ~Responded(queue) /\ ~Has(queue, "ResponseHeaders") /\ (Sent => ServerOver)
    BY <1>0, <1>3 DEF ResponseTakenTo
  <2>4. Has(hooks, "responseheaders")
    BY <1>0, <1>3 DEF HooksRun
  <2>5. QED
    BY <2>1, <2>2, <2>3, <2>4
<1>9. /\ all \in Seq(ToClient) /\ ResponseOrdered(all) /\ Unended(all)
      /\ Has(all, "ResponseHeaders")
      /\ Sent => Count(all, "ResponseData") = chunks["response"]
  <2>1. toClient \in Seq(ToClient) /\ ResponseOrdered(toClient) /\ Unended(toClient)
    BY <1>0, <1>8
      DEF TypeOK, ToClient, MessagesInOrder, ResponseInOrder, ResponseOrdered, Told
  <2>2. body["response"] \in Nat
    BY <1>0, HttpStreamAssumption DEF TypeOK, Sides
  <2>3. /\ sstate = "stream" => (Has(toClient, "ResponseHeaders") /\ body["response"] = 0)
        /\ sstate # "stream" => ~Has(toClient, "ResponseHeaders")
    BY <1>0, <1>8 DEF ToldSoFar, ResponseChunks
  <2>4. /\ all \in Seq(ToClient) /\ ResponseOrdered(all) /\ Unended(all)
        /\ Has(all, "ResponseHeaders")
        /\ Count(all, "ResponseData") = Count(toClient, "ResponseData") + body["response"]
    BY <2>1, <2>2, <2>3, ResponseAllButEnd
  <2>5. Sent => Count(all, "ResponseData") = chunks["response"]
    <3>1. ~Has(queue, "ResponseData")
      BY <1>8 DEF Responded, Has, ResponseEvents
    <3>2. Count(queue, "ResponseData") = 0
      BY <3>1, CountNone
    <3>3. Sent => body["response"] + Count(queue, "ResponseData") + Count(toClient, "ResponseData")
                    = chunks["response"]
      BY <1>0, <1>8 DEF ResponseChunks
    <3>4. Count(toClient, "ResponseData") \in Nat
      BY <2>1, CountIsNat
    <3>5. QED
      BY <2>2, <2>4, <3>2, <3>3, <3>4
  <2>6. QED
    BY <2>4, <2>5
<1>10. /\ toClient' = all /\ ~Told' /\ ~Has(toClient', "ResponseEnd")
  BY <1>1, <1>9 DEF Told, Unended, Terminal, Has
<1>11. HooksInOrder'
  BY <1>0, <1>1 DEF HooksInOrder
<1>12. HooksRun'
  BY <1>0, <1>1, <1>2, <1>5, <1>6 DEF HooksRun, Early, Over, Opens
<1>13. PeersAhead'
  BY <1>0, <1>1, <1>2, <1>7 DEF PeersAhead, ClientOver, ServerOver
<1>14. RequestDrained'
  BY <1>0, <1>1, <1>6 DEF RequestDrained, ClientOver
<1>15. ResponseTakenTo'
  BY <1>0, <1>1, <1>3, <1>7 DEF ResponseTakenTo, Early, ServerOver
<1>16. SentKnown'
  BY <1>0, <1>1, <1>3, <1>7 DEF SentKnown, Over, Opens
<1>17. MessagesInOrder'
  <2>1. RequestInOrder'
    BY <1>0, <1>1 DEF MessagesInOrder, RequestInOrder
  <2>2. ~Follows(toClient', "ResponseEnd", "ResponseError")
    BY <1>10, FollowsHas
  <2>3. ResponseInOrder'
    BY <1>10, <1>9, <2>2 DEF ResponseInOrder, ResponseOrdered
  <2>4. QED
    BY <2>1, <2>3 DEF MessagesInOrder
<1>18. ToldWhen'
  BY <1>0, <1>1, <1>10 DEF ToldWhen, Early
<1>19. ToldSoFar'
  BY <1>0, <1>1, <1>6, <1>9 DEF ToldSoFar
<1>20. SentSoFar'
  BY <1>0, <1>1, <1>7 DEF SentSoFar, ClientOver
<1>21. BodiesWhole'
  BY <1>0, <1>1, <1>10 DEF BodiesWhole
<1>22. RequestChunks'
  BY <1>0, <1>1, <1>4, <1>6 DEF RequestChunks
<1>23. ResponseChunks'
  BY <1>0, <1>1, <1>7, <1>9 DEF ResponseChunks
<1>24. QED
  BY <1>11, <1>12, <1>13, <1>14, <1>15, <1>16, <1>17, <1>18, <1>19, <1>20, <1>21, <1>22,
     <1>23 DEF MInv

\* A response is sent, and with it all is done.
LEMMA FinishResponseLastInv ==
  ASSUME IInv, MInv, NEW all, FinishResponse, cstate = "done", Completes(all),
         all = toClient \o UnsentResponse \o Trailers("ResponseTrailers", "response")
  PROVE  MInv'
<1>0. /\ TypeOK /\ ProgramsOnly /\ StatesKnown /\ SentLater /\ AtFirst /\ GoneIsLast
      /\ HooksInOrder /\ HooksRun
      /\ PeersAhead /\ RequestDrained /\ ResponseTakenTo /\ SentKnown
      /\ MessagesInOrder /\ ToldWhen /\ ToldSoFar /\ SentSoFar
      /\ BodiesWhole /\ RequestChunks /\ ResponseChunks
  BY DEF IInv, MInv
<1>1. /\ UNCHANGED <<body, queue, toServer, hooks, client, server, chunks>>
      /\ cstate' = "done" /\ sstate' = "done" /\ cstate = "done"
      /\ toClient' = all \o <<"ResponseEnd">>
  BY DEF FinishResponse, Proceed, Completes, states, sent, ends, peers
<1>2. /\ todo \in Programs /\ todo # << >>
      /\ todo = <<"finish_response">>
  <2>1. todo \in Programs /\ todo # << >> /\ (Head(todo) = "finish_response")
    BY <1>0 DEF ProgramsOnly, FinishResponse, Proceed, Completes, At
  <2>2. QED
    BY <2>1, Whereabouts
<1>3. todo \in Finishing
  BY <1>2 DEF Finishing
<1>4. todo \notin Opens \cup Reopened \cup Ending \cup Routing \cup Responding \cup
              ResponseHook \cup KillError \cup Killing \cup Asked \cup Connecting \cup
              RequestErrorHook \cup AfterRequestError \cup ResponseErrorHook \cup
              AfterResponseError \cup Headed \cup Oversized \cup Unanswering
  BY <1>3, Within, FinishingOnly DEF Opens
<1>5. todo' = << >>
  BY <1>2, Thens DEF FinishResponse, Then
<1>6. todo' \notin Opens \cup Reopened \cup Ending \cup Routing \cup Responding \cup
              ResponseHook \cup Finishing \cup KillError \cup Killing \cup Asked \cup
              Connecting \cup RequestErrorHook \cup AfterRequestError \cup
              ResponseErrorHook \cup AfterResponseError \cup Headed \cup Oversized \cup
              Unanswering
  BY <1>5, Idle
<1>7. (Sent' <=> Sent)
  BY <1>1 DEF Sent, Told, Has
<1>8. /\ sstate \in {"wait", "consume", "stream"} /\ cstate \notin {"wait", "consume"}
      /\ ~Told /\ ~passthrough /\ ~Responded(queue) /\ ~Has(queue, "ResponseHeaders")
      /\ (Sent => ServerOver) /\ Has(hooks, "responseheaders")
  <2>1. /\ sstate \in {"wait", "consume", "stream"} /\ cstate \notin {"wait", "consume"}
        /\ ~passthrough
    BY <1>0, <1>3, <1>2 DEF StatesKnown
  <2>2. ~Told
    BY <1>0, <1>3, <2>1 DEF ToldWhen, SentKnown
  <2>3. ~Responded(queue) /\ ~Has(queue, "ResponseHeaders") /\ (Sent => ServerOver)
    BY <1>0, <1>3 DEF ResponseTakenTo
  <2>4. Has(hooks, "responseheaders")
    BY <1>0, <1>3 DEF HooksRun
  <2>5. QED
    BY <2>1, <2>2, <2>3, <2>4
<1>9. /\ all \in Seq(ToClient) /\ ResponseOrdered(all) /\ Unended(all)
      /\ Has(all, "ResponseHeaders")
      /\ Sent => Count(all, "ResponseData") = chunks["response"]
  <2>1. toClient \in Seq(ToClient) /\ ResponseOrdered(toClient) /\ Unended(toClient)
    BY <1>0, <1>8
      DEF TypeOK, ToClient, MessagesInOrder, ResponseInOrder, ResponseOrdered, Told
  <2>2. body["response"] \in Nat
    BY <1>0, HttpStreamAssumption DEF TypeOK, Sides
  <2>3. /\ sstate = "stream" => (Has(toClient, "ResponseHeaders") /\ body["response"] = 0)
        /\ sstate # "stream" => ~Has(toClient, "ResponseHeaders")
    BY <1>0, <1>8 DEF ToldSoFar, ResponseChunks
  <2>4. /\ all \in Seq(ToClient) /\ ResponseOrdered(all) /\ Unended(all)
        /\ Has(all, "ResponseHeaders")
        /\ Count(all, "ResponseData") = Count(toClient, "ResponseData") + body["response"]
    BY <2>1, <2>2, <2>3, ResponseAllButEnd
  <2>5. Sent => Count(all, "ResponseData") = chunks["response"]
    <3>1. ~Has(queue, "ResponseData")
      BY <1>8 DEF Responded, Has, ResponseEvents
    <3>2. Count(queue, "ResponseData") = 0
      BY <3>1, CountNone
    <3>3. Sent => body["response"] + Count(queue, "ResponseData") + Count(toClient, "ResponseData")
                    = chunks["response"]
      BY <1>0, <1>8 DEF ResponseChunks
    <3>4. Count(toClient, "ResponseData") \in Nat
      BY <2>1, CountIsNat
    <3>5. QED
      BY <2>2, <2>4, <3>2, <3>3, <3>4
  <2>6. QED
    BY <2>4, <2>5
<1>10. /\ toClient' \in Seq(ToClient) /\ ResponseOrdered(toClient') /\ Told'
       /\ Range(toClient') = Range(all) \cup {"ResponseEnd"}
       /\ Count(toClient', "ResponseData") = Count(all, "ResponseData")
       /\ ~Follows(toClient', "ResponseEnd", "ResponseError")
       /\ Has(toClient', "ResponseHeaders")
  <2>1. /\ all \o <<"ResponseEnd">> \in Seq(ToClient)
        /\ ResponseOrdered(all \o <<"ResponseEnd">>)
        /\ Range(all \o <<"ResponseEnd">>) = Range(all) \cup {"ResponseEnd"}
        /\ Count(all \o <<"ResponseEnd">>, "ResponseData") = Count(all, "ResponseData")
        /\ ~Follows(all \o <<"ResponseEnd">>, "ResponseEnd", "ResponseError")
    BY <1>9, TellsEnd
  <2>2. QED
    BY <1>1, <1>9, <2>1 DEF Told, Unended, Terminal, Has
<1>11. HooksInOrder'
  BY <1>0, <1>1 DEF HooksInOrder
<1>12. HooksRun'
  BY <1>0, <1>1, <1>2, <1>5, <1>6 DEF HooksRun, Early, Over, Opens
<1>13. PeersAhead'
  BY <1>0, <1>1, <1>7 DEF PeersAhead, ClientOver, ServerOver
<1>14. RequestDrained'
  BY <1>0, <1>1, <1>8 DEF RequestDrained, ClientOver
<1>15. ResponseTakenTo'
  BY <1>0, <1>1, <1>3, <1>7 DEF ResponseTakenTo, Early, ServerOver
<1>16. SentKnown'
  BY <1>0, <1>1, <1>6 DEF SentKnown, Over, Opens
<1>17. MessagesInOrder'
  <2>1. RequestInOrder'
    BY <1>0, <1>1 DEF MessagesInOrder, RequestInOrder
  <2>2. ResponseInOrder'
    BY <1>10 DEF ResponseInOrder, ResponseOrdered
  <2>3. QED
    BY <2>1, <2>2 DEF MessagesInOrder
<1>18. ToldWhen'
  BY <1>0, <1>1, <1>6 DEF ToldWhen, Early
<1>19. ToldSoFar'
  BY <1>0, <1>1, <1>6, <1>10 DEF ToldSoFar, Has
<1>20. SentSoFar'
  BY <1>0, <1>1, <1>7 DEF SentSoFar, ClientOver
<1>21. BodiesWhole'
  BY <1>0, <1>1, <1>9, <1>10 DEF BodiesWhole, PeersAhead
<1>22. RequestChunks'
  BY <1>0, <1>1, <1>6 DEF RequestChunks
<1>23. ResponseChunks'
  BY <1>0, <1>1, <1>7, <1>9, <1>10 DEF ResponseChunks
<1>24. QED
  BY <1>11, <1>12, <1>13, <1>14, <1>15, <1>16, <1>17, <1>18, <1>19, <1>20, <1>21, <1>22,
     <1>23 DEF MInv

\* A response is sent, and nobody takes over.
LEMMA FinishResponseSwitchesInv ==
  ASSUME IInv, MInv, NEW all, FinishResponse, cstate = "done", GivesUp(all),
         all = toClient \o UnsentResponse \o Trailers("ResponseTrailers", "response")
  PROVE  MInv'
<1>0. /\ TypeOK /\ ProgramsOnly /\ StatesKnown /\ SentLater /\ AtFirst /\ GoneIsLast
      /\ HooksInOrder /\ HooksRun
      /\ PeersAhead /\ RequestDrained /\ ResponseTakenTo /\ SentKnown
      /\ MessagesInOrder /\ ToldWhen /\ ToldSoFar /\ SentSoFar
      /\ BodiesWhole /\ RequestChunks /\ ResponseChunks
  BY DEF IInv, MInv
<1>1. /\ UNCHANGED <<body, queue, toServer, hooks, passthrough, server, chunks>>
      /\ cstate' = "errored" /\ sstate' = "errored" /\ client' = "gone" /\ cstate = "done"
  BY DEF FinishResponse, Proceed, GivesUp, states, sent, ends, peers
<1>2. /\ todo \in Programs /\ todo # << >>
      /\ todo = <<"finish_response">>
  <2>1. todo \in Programs /\ todo # << >> /\ (Head(todo) = "finish_response")
    BY <1>0 DEF ProgramsOnly, FinishResponse, Proceed, GivesUp, At
  <2>2. QED
    BY <2>1, Whereabouts
<1>3. todo \in Finishing
  BY <1>2 DEF Finishing
<1>4. todo \notin Opens \cup Reopened \cup Ending \cup Routing \cup Responding \cup
              ResponseHook \cup KillError \cup Killing \cup Asked \cup Connecting \cup
              RequestErrorHook \cup AfterRequestError \cup ResponseErrorHook \cup
              AfterResponseError \cup Headed \cup Oversized \cup Unanswering
  BY <1>3, Within, FinishingOnly DEF Opens
<1>5. todo' = << >>
  BY <1>2, Thens DEF FinishResponse, Then
<1>6. todo' \notin Opens \cup Reopened \cup Ending \cup Routing \cup Responding \cup
              ResponseHook \cup Finishing \cup KillError \cup Killing \cup Asked \cup
              Connecting \cup RequestErrorHook \cup AfterRequestError \cup
              ResponseErrorHook \cup AfterResponseError \cup Headed \cup Oversized \cup
              Unanswering
  BY <1>5, Idle
<1>7. (Sent' <=> Sent)
  BY <1>1 DEF Sent, Told, Has
<1>8. /\ sstate \in {"wait", "consume", "stream"} /\ cstate \notin {"wait", "consume"}
      /\ ~Told /\ ~passthrough /\ ~Responded(queue) /\ ~Has(queue, "ResponseHeaders")
      /\ (Sent => ServerOver) /\ Has(hooks, "responseheaders")
  <2>1. /\ sstate \in {"wait", "consume", "stream"} /\ cstate \notin {"wait", "consume"}
        /\ ~passthrough
    BY <1>0, <1>3, <1>2 DEF StatesKnown
  <2>2. ~Told
    BY <1>0, <1>3, <2>1 DEF ToldWhen, SentKnown
  <2>3. ~Responded(queue) /\ ~Has(queue, "ResponseHeaders") /\ (Sent => ServerOver)
    BY <1>0, <1>3 DEF ResponseTakenTo
  <2>4. Has(hooks, "responseheaders")
    BY <1>0, <1>3 DEF HooksRun
  <2>5. QED
    BY <2>1, <2>2, <2>3, <2>4
<1>9. /\ all \in Seq(ToClient) /\ ResponseOrdered(all) /\ Unended(all)
      /\ Has(all, "ResponseHeaders")
      /\ Sent => Count(all, "ResponseData") = chunks["response"]
  <2>1. toClient \in Seq(ToClient) /\ ResponseOrdered(toClient) /\ Unended(toClient)
    BY <1>0, <1>8
      DEF TypeOK, ToClient, MessagesInOrder, ResponseInOrder, ResponseOrdered, Told
  <2>2. body["response"] \in Nat
    BY <1>0, HttpStreamAssumption DEF TypeOK, Sides
  <2>3. /\ sstate = "stream" => (Has(toClient, "ResponseHeaders") /\ body["response"] = 0)
        /\ sstate # "stream" => ~Has(toClient, "ResponseHeaders")
    BY <1>0, <1>8 DEF ToldSoFar, ResponseChunks
  <2>4. /\ all \in Seq(ToClient) /\ ResponseOrdered(all) /\ Unended(all)
        /\ Has(all, "ResponseHeaders")
        /\ Count(all, "ResponseData") = Count(toClient, "ResponseData") + body["response"]
    BY <2>1, <2>2, <2>3, ResponseAllButEnd
  <2>5. Sent => Count(all, "ResponseData") = chunks["response"]
    <3>1. ~Has(queue, "ResponseData")
      BY <1>8 DEF Responded, Has, ResponseEvents
    <3>2. Count(queue, "ResponseData") = 0
      BY <3>1, CountNone
    <3>3. Sent => body["response"] + Count(queue, "ResponseData") + Count(toClient, "ResponseData")
                    = chunks["response"]
      BY <1>0, <1>8 DEF ResponseChunks
    <3>4. Count(toClient, "ResponseData") \in Nat
      BY <2>1, CountIsNat
    <3>5. QED
      BY <2>2, <2>4, <3>2, <3>3, <3>4
  <2>6. QED
    BY <2>4, <2>5
<1>10. /\ toClient' = all /\ ~Told' /\ ~Has(toClient', "ResponseEnd")
  BY <1>9 DEF GivesUp, Told, Unended, Terminal, Has
<1>11. HooksInOrder'
  BY <1>0, <1>1 DEF HooksInOrder
<1>12. HooksRun'
  BY <1>0, <1>1, <1>2, <1>5, <1>6 DEF HooksRun, Early, Over, Opens
<1>13. PeersAhead'
  BY <1>0, <1>1, <1>7 DEF PeersAhead, ClientOver, ServerOver
<1>14. RequestDrained'
  BY <1>0, <1>1, <1>6 DEF RequestDrained, ClientOver
<1>15. ResponseTakenTo'
  BY <1>0, <1>1, <1>3, <1>7 DEF ResponseTakenTo, Early, ServerOver
<1>16. SentKnown'
  BY <1>0, <1>1, <1>6, <1>7, <1>8 DEF SentKnown, Over, Opens
<1>17. MessagesInOrder'
  <2>1. RequestInOrder'
    BY <1>0, <1>1 DEF MessagesInOrder, RequestInOrder
  <2>2. ~Follows(toClient', "ResponseEnd", "ResponseError")
    BY <1>10, FollowsHas
  <2>3. ResponseInOrder'
    BY <1>10, <1>9, <2>2 DEF ResponseInOrder, ResponseOrdered
  <2>4. QED
    BY <2>1, <2>3 DEF MessagesInOrder
<1>18. ToldWhen'
  BY <1>0, <1>1, <1>6 DEF ToldWhen, Early
<1>19. ToldSoFar'
  BY <1>0, <1>1, <1>6 DEF ToldSoFar
<1>20. SentSoFar'
  BY <1>0, <1>1, <1>7 DEF SentSoFar, ClientOver
<1>21. BodiesWhole'
  BY <1>0, <1>1, <1>10 DEF BodiesWhole
<1>22. RequestChunks'
  BY <1>0, <1>1, <1>6 DEF RequestChunks
<1>23. ResponseChunks'
  BY <1>0, <1>1, <1>7 DEF ResponseChunks
<1>24. QED
  BY <1>11, <1>12, <1>13, <1>14, <1>15, <1>16, <1>17, <1>18, <1>19, <1>20, <1>21, <1>22,
     <1>23 DEF MInv

-----------------------------------------------------------------------------
(* CONNECT. *)

\* The client is told that the tunnel is open.
LEMMA TunnelInv ==
  ASSUME IInv, MInv, Tunnel
  PROVE  MInv'
<1>0. /\ TypeOK /\ ProgramsOnly /\ StatesKnown /\ SentLater /\ AtFirst /\ GoneIsLast
      /\ HooksInOrder /\ HooksRun
      /\ PeersAhead /\ RequestDrained /\ ResponseTakenTo /\ SentKnown
      /\ MessagesInOrder /\ ToldWhen /\ ToldSoFar /\ SentSoFar
      /\ BodiesWhole /\ RequestChunks /\ ResponseChunks
  BY DEF IInv, MInv
<1>1. /\ UNCHANGED <<cstate, sstate, body, queue, toServer, hooks, client>>
      /\ UNCHANGED <<server, chunks>>
      /\ passthrough' = TRUE
      /\ \E content \in {<< >>, <<"ResponseData">>} : toClient' = ConnectResponse(content)
  BY DEF Tunnel, states, sent, ends, peers
<1>2. /\ todo \in Programs /\ todo # << >>
      /\ todo = <<"tunnel">>
  <2>1. todo \in Programs /\ todo # << >> /\ (Head(todo) = "tunnel")
    BY <1>0 DEF ProgramsOnly, Tunnel, At
  <2>2. QED
    BY <2>1, Whereabouts
<1>3. todo \in Connecting
  BY <1>2 DEF Connecting
<1>4. todo \notin Opens \cup Reopened \cup Ending \cup Routing \cup Responding \cup
              ResponseHook \cup Finishing \cup KillError \cup Killing \cup Asked \cup
              RequestErrorHook \cup AfterRequestError \cup ResponseErrorHook \cup
              AfterResponseError \cup Headed \cup Oversized
  BY <1>3, Within, ConnectingOnly DEF Opens
<1>5. todo' = << >>
  BY <1>2, Thens DEF Tunnel, Then
<1>6. todo' \notin Opens \cup Reopened \cup Ending \cup Routing \cup Responding \cup
              ResponseHook \cup Finishing \cup KillError \cup Killing \cup Asked \cup
              Connecting \cup RequestErrorHook \cup AfterRequestError \cup
              ResponseErrorHook \cup AfterResponseError \cup Headed \cup Oversized \cup
              Unanswering
  BY <1>5, Idle
<1>7. (Sent' <=> Sent)
  BY <1>1 DEF Sent, Told, Has
<1>8. /\ cstate = "done" /\ sstate = "uninitialized" /\ ~Sent
      /\ ~Told /\ ~passthrough /\ ~Has(toClient, "ResponseHeaders") /\ ~Has(hooks, "response")
  <2>1. cstate = "done" /\ sstate = "uninitialized" /\ ~Sent /\ ~passthrough
    BY <1>0, <1>3, <1>2 DEF StatesKnown
  <2>2. ~Told
    BY <1>0, <2>1 DEF ToldWhen
  <2>3. ~Has(toClient, "ResponseHeaders") /\ ~Has(hooks, "response")
    BY <1>0, <1>4, <2>1, <2>2 DEF ToldSoFar, HooksRun, Over
  <2>4. QED
    BY <2>1, <2>2, <2>3
<1>9. /\ toClient' \in Seq(ToClient) /\ ResponseOrdered(toClient') /\ Told'
      /\ Has(toClient', "ResponseHeaders") /\ ~Has(toClient', "ResponseTrailers")
      /\ ~Follows(toClient', "ResponseEnd", "ResponseError")
  <2>1. toClient \in Seq(ToClient) /\ ResponseOrdered(toClient) /\ Unended(toClient)
    BY <1>0, <1>8
      DEF TypeOK, ToClient, MessagesInOrder, ResponseInOrder, ResponseOrdered, Told
  <2>2. PICK content \in {<< >>, <<"ResponseData">>} : toClient' = ConnectResponse(content)
    BY <1>1
  <2>3. /\ toClient' \in Seq(ToClient) /\ ResponseOrdered(toClient')
        /\ {"ResponseHeaders", "ResponseEnd"} \subseteq Range(toClient')
        /\ ~Has(toClient', "ResponseTrailers")
        /\ ~Follows(toClient', "ResponseEnd", "ResponseError")
    BY <2>1, <2>2, <1>8, ConnectAnswered
  <2>4. QED
    BY <2>3 DEF Told, Unended, Terminal, Has
<1>10. HooksInOrder'
  BY <1>0, <1>1 DEF HooksInOrder
<1>11. HooksRun'
  BY <1>0, <1>1, <1>2, <1>4, <1>5, <1>6 DEF HooksRun, Early, Over, Opens
<1>12. PeersAhead'
  BY <1>0, <1>1, <1>2, <1>7 DEF PeersAhead, ClientOver, ServerOver
<1>13. RequestDrained'
  BY <1>0, <1>1, <1>6 DEF RequestDrained, ClientOver
<1>14. ResponseTakenTo'
  BY <1>0, <1>1, <1>4, <1>6, <1>7 DEF ResponseTakenTo, Early, ServerOver, Awaited
<1>15. SentKnown'
  BY <1>0, <1>1, <1>6, <1>7, <1>8 DEF SentKnown, Over, Opens
<1>16. MessagesInOrder'
  <2>1. RequestInOrder'
    BY <1>0, <1>1 DEF MessagesInOrder, RequestInOrder
  <2>2. ResponseInOrder'
    BY <1>9 DEF ResponseInOrder, ResponseOrdered
  <2>3. QED
    BY <2>1, <2>2 DEF MessagesInOrder
<1>17. ToldWhen'
  BY <1>0, <1>1, <1>6, <1>8 DEF ToldWhen, Early
<1>18. ToldSoFar'
  BY <1>0, <1>6, <1>9 DEF ToldSoFar
<1>19. SentSoFar'
  BY <1>0, <1>1, <1>7 DEF SentSoFar, ClientOver
<1>20. BodiesWhole'
  BY <1>0, <1>1, <1>8 DEF BodiesWhole
<1>21. RequestChunks'
  BY <1>0, <1>1, <1>4, <1>6 DEF RequestChunks
<1>22. ResponseChunks'
  BY <1>0, <1>1, <1>8 DEF ResponseChunks
<1>23. QED
  BY <1>10, <1>11, <1>12, <1>13, <1>14, <1>15, <1>16, <1>17, <1>18, <1>19, <1>20, <1>21,
     <1>22 DEF MInv

\* The client is told that there is no tunnel.
LEMMA RefuseConnectInv ==
  ASSUME IInv, MInv, RefuseConnect
  PROVE  MInv'
<1>0. /\ TypeOK /\ ProgramsOnly /\ StatesKnown /\ SentLater /\ AtFirst /\ GoneIsLast
      /\ HooksInOrder /\ HooksRun
      /\ PeersAhead /\ RequestDrained /\ ResponseTakenTo /\ SentKnown
      /\ MessagesInOrder /\ ToldWhen /\ ToldSoFar /\ SentSoFar
      /\ BodiesWhole /\ RequestChunks /\ ResponseChunks
  BY DEF IInv, MInv
<1>1. /\ UNCHANGED <<sstate, body, queue, toServer, hooks, passthrough, client>>
      /\ UNCHANGED <<server, chunks>>
      /\ cstate' = "errored"
      /\ \E content \in {<< >>, <<"ResponseData">>} : toClient' = ConnectResponse(content)
  BY DEF RefuseConnect, states, sent, ends, peers
<1>2. /\ todo \in Programs /\ todo # << >>
      /\ todo = <<"refuse_connect">>
  <2>1. todo \in Programs /\ todo # << >> /\ (Head(todo) = "refuse_connect")
    BY <1>0 DEF ProgramsOnly, RefuseConnect, At
  <2>2. QED
    BY <2>1, Whereabouts
<1>3. todo \in Connecting
  BY <1>2 DEF Connecting
<1>4. todo \notin Opens \cup Reopened \cup Ending \cup Routing \cup Responding \cup
              ResponseHook \cup Finishing \cup KillError \cup Killing \cup Asked \cup
              RequestErrorHook \cup AfterRequestError \cup ResponseErrorHook \cup
              AfterResponseError \cup Headed \cup Oversized
  BY <1>3, Within, ConnectingOnly DEF Opens
<1>5. todo' = << >>
  BY <1>2, Thens DEF RefuseConnect, Then
<1>6. todo' \notin Opens \cup Reopened \cup Ending \cup Routing \cup Responding \cup
              ResponseHook \cup Finishing \cup KillError \cup Killing \cup Asked \cup
              Connecting \cup RequestErrorHook \cup AfterRequestError \cup
              ResponseErrorHook \cup AfterResponseError \cup Headed \cup Oversized \cup
              Unanswering
  BY <1>5, Idle
<1>7. (Sent' <=> Sent)
  BY <1>1 DEF Sent, Told, Has
<1>8. /\ cstate = "done" /\ sstate = "uninitialized" /\ ~Sent
      /\ ~Told /\ ~passthrough /\ ~Has(toClient, "ResponseHeaders") /\ ~Has(hooks, "response")
  <2>1. cstate = "done" /\ sstate = "uninitialized" /\ ~Sent /\ ~passthrough
    BY <1>0, <1>3, <1>2 DEF StatesKnown
  <2>2. ~Told
    BY <1>0, <2>1 DEF ToldWhen
  <2>3. ~Has(toClient, "ResponseHeaders") /\ ~Has(hooks, "response")
    BY <1>0, <1>4, <2>1, <2>2 DEF ToldSoFar, HooksRun, Over
  <2>4. QED
    BY <2>1, <2>2, <2>3
<1>9. /\ toClient' \in Seq(ToClient) /\ ResponseOrdered(toClient') /\ Told'
      /\ Has(toClient', "ResponseHeaders") /\ ~Has(toClient', "ResponseTrailers")
      /\ ~Follows(toClient', "ResponseEnd", "ResponseError")
  <2>1. toClient \in Seq(ToClient) /\ ResponseOrdered(toClient) /\ Unended(toClient)
    BY <1>0, <1>8
      DEF TypeOK, ToClient, MessagesInOrder, ResponseInOrder, ResponseOrdered, Told
  <2>2. PICK content \in {<< >>, <<"ResponseData">>} : toClient' = ConnectResponse(content)
    BY <1>1
  <2>3. /\ toClient' \in Seq(ToClient) /\ ResponseOrdered(toClient')
        /\ {"ResponseHeaders", "ResponseEnd"} \subseteq Range(toClient')
        /\ ~Has(toClient', "ResponseTrailers")
        /\ ~Follows(toClient', "ResponseEnd", "ResponseError")
    BY <2>1, <2>2, <1>8, ConnectAnswered
  <2>4. QED
    BY <2>3 DEF Told, Unended, Terminal, Has
<1>10. HooksInOrder'
  BY <1>0, <1>1 DEF HooksInOrder
<1>11. HooksRun'
  BY <1>0, <1>1, <1>4, <1>5, <1>6 DEF HooksRun, Early, Over, Opens
<1>12. PeersAhead'
  BY <1>0, <1>1, <1>2, <1>7 DEF PeersAhead, ClientOver, ServerOver
<1>13. RequestDrained'
  BY <1>0, <1>1, <1>6 DEF RequestDrained, ClientOver
<1>14. ResponseTakenTo'
  BY <1>0, <1>1, <1>4, <1>6, <1>7 DEF ResponseTakenTo, Early, ServerOver, Awaited
<1>15. SentKnown'
  BY <1>0, <1>1, <1>4, <1>6, <1>7 DEF SentKnown, Over, Opens
<1>16. MessagesInOrder'
  <2>1. RequestInOrder'
    BY <1>0, <1>1 DEF MessagesInOrder, RequestInOrder
  <2>2. ResponseInOrder'
    BY <1>9 DEF ResponseInOrder, ResponseOrdered
  <2>3. QED
    BY <2>1, <2>2 DEF MessagesInOrder
<1>17. ToldWhen'
  BY <1>0, <1>1, <1>6, <1>7, <1>8 DEF ToldWhen, Early
<1>18. ToldSoFar'
  BY <1>0, <1>6, <1>9 DEF ToldSoFar
<1>19. SentSoFar'
  BY <1>0, <1>1, <1>7 DEF SentSoFar, ClientOver
<1>20. BodiesWhole'
  BY <1>0, <1>1, <1>8 DEF BodiesWhole
<1>21. RequestChunks'
  BY <1>0, <1>1, <1>6 DEF RequestChunks
<1>22. ResponseChunks'
  BY <1>0, <1>1, <1>8 DEF ResponseChunks
<1>23. QED
  BY <1>10, <1>11, <1>12, <1>13, <1>14, <1>15, <1>16, <1>17, <1>18, <1>19, <1>20, <1>21,
     <1>22 DEF MInv

-----------------------------------------------------------------------------
\* Every step keeps the invariant.
LEMMA MessagesStep == IInv /\ MInv /\ [Next]_vars => MInv'
<1> SUFFICES ASSUME IInv, MInv, [Next]_vars PROVE MInv'
  OBVIOUS
<1>0. todo \in Programs
  BY DEF IInv, ProgramsOnly
<1>1. CASE CheckKilled
  BY <1>1, KilledMoves, KilledAtEndInv
<1>2. CASE StreamRequest
  <2>1. todo # << >> /\ Head(todo) = "stream_request"
    BY <1>2 DEF StreamRequest, At
  <2>2. todo \in Opening \cup Reopening
    BY <1>0, <2>1, Whereabouts DEF Opening, Reopening
  <2>3. QED
    BY <1>2, <2>2, StreamingBeginsInv, StreamingTakesOverInv
<1>3. ASSUME NEW e \in Errors, CloseAfter(e)
      PROVE  MInv'
  <2>1. CASE e = "RequestError"
    BY <1>3, <2>1, KilledClientGoneInv, ClosedByClientInv
  <2>2. CASE e = "ResponseError"
    <3>1. todo # << >> /\ Head(todo) = "close_after_ResponseError"
      BY <1>3, <2>2 DEF CloseAfter, CloseAfterError, At
    <3>2. todo \in OpeningFailed \cup AfterResponseError
      BY <1>0, <3>1, Whereabouts DEF OpeningFailed, AfterResponseError
    <3>3. QED
      BY <1>3, <2>2, <3>2, KilledServerFailedInv, KilledUnopenedInv, UnopenedInv,
         ClosedByServerInv
  <2>3. QED
    BY <1>3, <2>1, <2>2 DEF Errors
<1>4. ASSUME NEW e \in Errors, HandleError(e)
      PROVE  MInv'
  BY <1>4, GoneWhileTalkingInv, GoneOtherwiseInv, ServerFailedInv DEF Errors
<1>5. CASE RequestHeaders
  BY <1>5, RequestHeadersCases, InvalidRequestInv, AnnouncedRequestInv,
     ConnectRequestInv, LostRequestInv
<1>6. CASE BeginRequest
  BY <1>6, StreamingMoves, BufferingBeginsInv
<1>7. CASE ExpectResponse
  BY <1>7, ResponseExpectedInv, NothingExpectedInv
<1>8. CASE ReplayRequest
  BY <1>8, ReplayInv, NothingReplayedInv
<1>9. CASE RequestEnd
  BY <1>9, BufferedRequestEndsInv, StreamedRequestEndsInv DEF RequestEnd
<1>10. CASE EndRequest
  <2>1. sstate = "done" => FlowDone(toClient)
    BY <1>10 DEF EndRequest
  <2>2. QED
    BY <1>10, <2>1, FlowDoneCases, EndRequestInv, EndRequestLastInv,
       EndRequestSwitchesInv
<1>11. CASE ResponseHeaders
  BY <1>11, ResponseHeadersInv, InvalidResponseInv
<1>12. CASE BeginResponse
  BY <1>12, BufferedResponseInv, StreamedResponseInv
<1>13. CASE ConsumeResponseData
  BY <1>13, ConsumeResponseDataInv, FlushResponseDataInv
<1>14. CASE FinishResponse
  <2> DEFINE all == toClient \o UnsentResponse \o Trailers("ResponseTrailers", "response")
  <2>1. cstate = "done" => FlowDone(all)
    BY <1>14 DEF FinishResponse
  <2>2. PICK told : told = all
    OBVIOUS
  <2>3. cstate = "done" => FlowDone(told)
    BY <2>1, <2>2
  <2> HIDE DEF all
  <2>4. cstate = "done" => Completes(told) \/ GivesUp(told)
    BY <2>3, FlowDoneCases
  <2>5. told = toClient \o UnsentResponse \o Trailers("ResponseTrailers", "response")
    BY <2>2 DEF all
  <2>6. QED
    BY <1>14, <2>4, <2>5, FinishResponseInv, FinishResponseLastInv,
       FinishResponseSwitchesInv
<1>15. CASE Request
  BY <1>15, <1>2, <1>5, <1>6, <1>7, <1>8, <1>9, <1>10, AbandonRequestInv,
     RequestTooLargeMoves, RefuseRequestInv, ConsumeRequestDataInv,
     StreamRequestDataInv, RequestTrailersInv, RouteMoves, ForwardRequestInv DEF Request
<1>16. CASE Response
  BY <1>16, <1>11, <1>12, <1>13, <1>14, ResponseTooLargeMoves, RefuseResponseInv,
     StreamResponseDataInv, ResponseTrailersInv, ResponseEndInv, InlineMoves
    DEF Response
<1>17. CASE Connect
  BY <1>17, HandleConnectMoves, FinishConnectMoves, TunnelInv, RefuseConnectInv
    DEF Connect
<1>18. CASE Failure
  BY <1>18, <1>1, <1>3, <1>4, RejectInv, SwallowInv DEF Failure
<1>19. CASE Answers
  BY <1>19, HookMoves, ConnectedMoves, NotConnectedMoves DEF Answers
<1>20. QED
  BY <1>15, <1>16, <1>17, <1>18, <1>19, PeersInv, UserKillsInv DEF Next, Stream

LEMMA MessagesInit == Init => MInv
<1> SUFFICES ASSUME Init PROVE MInv
  OBVIOUS
<1>1. /\ cstate = "wait" /\ sstate = "uninitialized" /\ todo = << >> /\ queue = << >>
      /\ toClient = << >> /\ toServer = << >> /\ hooks = << >> /\ client = "idle"
      /\ server = "idle" /\ passthrough = FALSE
      /\ body["request"] = 0 /\ body["response"] = 0
      /\ chunks["request"] = 0 /\ chunks["response"] = 0
  BY DEF Init, Sides
<1>2. /\ Range(queue) = {} /\ Range(toClient) = {} /\ Range(toServer) = {}
      /\ Range(hooks) = {}
  BY <1>1, RangeEmpty
<1>3. /\ Count(queue, "RequestData") = 0 /\ Count(queue, "ResponseData") = 0
      /\ Count(toServer, "RequestData") = 0 /\ Count(toClient, "ResponseData") = 0
  BY <1>1, CountEmpty
<1>4. ~Sent /\ ~Told /\ ~Responded(queue)
  BY <1>1, <1>2, NothingEmpty DEF Sent, Told, Unended, Has
<1>5. HooksInOrder
  BY <1>1, <1>2, CountEmpty DEF HooksInOrder, Before, Has
<1>6. HooksRun
  BY <1>1, <1>2, Idle DEF HooksRun, Has, Early, Opens
<1>7. PeersAhead
  BY <1>1, <1>2, <1>4 DEF PeersAhead, QueueOrdered, Has
<1>8. RequestDrained /\ SentKnown
  BY <1>1, <1>4, Idle DEF RequestDrained, SentKnown, Early, Opens
<1>9. ResponseTakenTo
  BY <1>1, <1>2, <1>4 DEF ResponseTakenTo, Awaited, Has
<1>10. MessagesInOrder
  <2>1. \A e : Count(<< >>, e) = 0
    BY CountEmpty
  <2>2. \A e, f : ~Follows(<< >>, e, f)
    BY DEF Follows
  <2>3. ResponseInOrder
    BY <1>1, <1>2, <2>1, <2>2 DEF ResponseInOrder, Has
  <2>4. RequestInOrder
    BY <1>1, <2>1, <2>2 DEF RequestInOrder
  <2>5. QED
    BY <2>3, <2>4 DEF MessagesInOrder
<1>11. ToldWhen /\ ToldSoFar /\ SentSoFar
  BY <1>1, <1>2, <1>4 DEF ToldWhen, ToldSoFar, SentSoFar, Has
<1>12. BodiesWhole
  BY <1>1, <1>2, <1>3 DEF BodiesWhole, Has
<1>13. RequestChunks /\ ResponseChunks
  BY <1>1, <1>3, <1>4 DEF RequestChunks, ResponseChunks
<1>14. QED
  BY <1>5, <1>6, <1>7, <1>8, <1>9, <1>10, <1>11, <1>12, <1>13 DEF MInv

(* How far the client, the server and the stream are, what has been sent to *)
(* either side, and what is still buffered or in the queue fit together in  *)
(* every reachable state: nothing is lost between the two connections.      *)
THEOREM HttpMessages == Spec => []MInv
<1>1. Init => IInv /\ MInv
  BY InitInv, MessagesInit
<1>2. (IInv /\ MInv) /\ [Next]_vars => (IInv /\ MInv)'
  BY StepInv, MessagesStep
<1>3. QED
  BY <1>1, <1>2, PTL DEF Spec

-----------------------------------------------------------------------------
\* The event at the head of the queue is one that the states of the stream take.
LEMMA EventExpected == IInv /\ MInv => EventsExpected
<1> SUFFICES ASSUME IInv, MInv, todo = << >>, queue # << >>, ~passthrough
             PROVE  Expected(Head(queue))
  BY DEF EventsExpected
<1>1. /\ AtFirst /\ SentLater /\ PeersAhead /\ RequestDrained /\ ResponseTakenTo /\ SentKnown
      /\ queue \in Seq(Events)
      /\ cstate \in {"wait", "consume", "stream", "done", "errored"}
      /\ sstate \in {"uninitialized", "wait", "consume", "stream", "done", "errored"}
  BY DEF IInv, MInv, TypeOK
<1>2. /\ Head(queue) \in Events /\ Range(queue) = {Head(queue)} \cup Range(Tail(queue))
      /\ Head(queue) \in ResponseEvents => ~Has(Tail(queue), "ResponseHeaders")
  BY <1>1, Taking, OrderTaking DEF PeersAhead
<1>3. /\ todo \notin Opens /\ todo \notin Responding \cup ResponseHook \cup Finishing
      /\ todo \notin KillError \cup Killing /\ todo \notin Asked \cup Connecting
  BY Idle
<1>4. CASE Head(queue) = "RequestHeaders"
  BY <1>1, <1>2, <1>4 DEF PeersAhead, Has, Expected, RequestEvents, ResponseEvents
<1>5. CASE Head(queue) \in RequestEvents \ {"RequestHeaders"}
  <2>1. cstate # "wait"
    <3>1. SUFFICES ASSUME cstate = "wait" PROVE FALSE
      OBVIOUS
    <3>2. queue = <<"RequestHeaders">>
      BY <1>1, <3>1 DEF AtFirst
    <3>3. QED
      BY <1>5, <3>2
  <2>2. Requested(queue)
    BY <1>2, <1>5 DEF Requested
  <2>3. cstate # "done"
    BY <1>1, <1>3, <2>2 DEF RequestDrained, SentKnown
  <2>4. QED
    BY <1>1, <1>5, <2>1, <2>3 DEF Expected, RequestEvents, ResponseEvents
<1>6. CASE Head(queue) \in ResponseEvents
  <2>1. Responded(queue) /\ FromServer(queue)
    BY <1>2, <1>6 DEF Responded, FromServer, ResponseEvents, RequestEvents
  <2>2. sstate # "uninitialized"
    BY <1>1, <1>3, <2>1 DEF SentLater, SentKnown, Opens
  <2>3. sstate # "done"
    BY <1>1, <2>1 DEF ResponseTakenTo
  <2>4. CASE Head(queue) = "ResponseHeaders"
    <3>1. sstate \notin {"consume", "stream"}
      BY <1>1, <1>2, <2>4 DEF ResponseTakenTo, Has
    <3>2. QED
      BY <1>1, <2>2, <2>3, <2>4, <3>1 DEF Expected
  <2>5. CASE Head(queue) # "ResponseHeaders"
    <3>1. ~Has(queue, "ResponseHeaders")
      BY <1>2, <1>6, <2>5 DEF Has
    <3>2. sstate # "wait"
      BY <1>1, <1>3, <2>1, <3>1 DEF ResponseTakenTo, Awaited, Early
    <3>3. QED
      BY <1>1, <1>6, <2>2, <2>3, <2>5, <3>2 DEF Expected
  <2>6. QED
    BY <2>4, <2>5
<1>7. CASE Head(queue) \in Errors
  BY <1>7 DEF Expected, Errors, RequestEvents, ResponseEvents
<1>8. QED
  BY <1>2, <1>4, <1>5, <1>6, <1>7 DEF Events

(* The hooks of a flow run at most once each and in the documented order    *)
(* (requestheaders, request, responseheaders, response; _hooks.py), and the *)
(* event that comes next is one that the method of the client's or of the   *)
(* server's side that receives it expects: no @expect assertion fails.      *)
THEOREM HooksRunInOrder == Spec => []HooksAndEventsInOrder
<1>1. IInv /\ MInv => HooksAndEventsInOrder
  BY EventExpected DEF MInv, HooksAndEventsInOrder
<1>2. QED
  BY <1>1, HttpInvariant, HttpMessages, PTL

(* What either side is told is a message: headers, data, trailers and its   *)
(* end, once and in order, with an error in place of what is missing; and a *)
(* message told to its end has all the chunks of the one received, whether  *)
(* it was buffered, streamed, or streamed from half way on.                 *)
THEOREM WholeMessagesAreTold == Spec => []MessagesWhole
<1>1. MInv => MessagesWhole
  BY DEF MInv, MessagesWhole
<1>2. QED
  BY <1>1, HttpMessages, PTL
=============================================================================
