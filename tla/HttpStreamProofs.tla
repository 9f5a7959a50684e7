-------------------------- MODULE HttpStreamProofs --------------------------
(***************************************************************************)
(* Proofs about HttpStream, for messages of any length and with everything *)
(* that can happen to them: a flow has one outcome, is not live after it,  *)
(* and is not answered once it was killed.                                 *)
(***************************************************************************)
EXTENDS HttpStream, FiniteSetTheorems, SequenceTheorems, TLAPS

-----------------------------------------------------------------------------
(* What a generator may have left to do, by the part of the code it is in. *)

Announced == {<<"requestheaders", "begin_request">>,
              <<"requestheaders", "request_too_large">>}
Beginning == {<<"begin_request">>, <<"request_too_large">>}
Invalid == {<<"requestheaders", "error", "reject">>}
Opening == {<<"get_connection", "stream_request", "expect_response">>,
            <<"stream_request", "expect_response">>}
Reopening == {<<"get_connection", "stream_request", "replay_request">>,
              <<"stream_request", "replay_request">>}
Opened == {<<"expect_response">>}
Reopened == {<<"replay_request">>}
OpeningError ==
  {<<"error", "close_after_ResponseError", "abandon_request", "expect_response">>,
   <<"error", "close_after_ResponseError", "abandon_request", "replay_request">>}
OpeningFailed ==
  {<<"close_after_ResponseError", "abandon_request", "expect_response">>,
   <<"close_after_ResponseError", "abandon_request", "replay_request">>}
Abandoning == {<<"abandon_request", "expect_response">>,
               <<"abandon_request", "replay_request">>}
Routing == {<<"request", "route_request">>, <<"route_request">>,
            <<"get_connection", "forward_request">>, <<"forward_request">>,
            <<"responseheaders", "inline_response">>, <<"inline_response">>}
Ending == {<<"request", "end_request">>, <<"end_request">>}
Responding == {<<"responseheaders", "begin_response">>, <<"begin_response">>,
               <<"responseheaders", "response_too_large">>, <<"response_too_large">>}
ResponseHook == {<<"response", "finish_response">>}
Finishing == {<<"finish_response">>}
RefusalError == {<<"error", "refuse_request">>}
Refusing == {<<"refuse_request">>}
KillError == {<<"error", "kill">>, <<"error", "reject">>, <<"error", "refuse_response">>}
Killing == {<<"kill">>, <<"reject">>, <<"refuse_response">>}
RequestErrorHook == {<<"error", "close_after_RequestError">>}
AfterRequestError == {<<"close_after_RequestError">>}
ResponseErrorHook == {<<"error", "close_after_ResponseError">>}
AfterResponseError == {<<"close_after_ResponseError">>}
Asked == {<<"http_connect", "handle_connect">>}
Connecting == {<<"handle_connect">>, <<"open_connection", "finish_connect">>,
               <<"finish_connect">>, <<"http_connected", "tunnel">>, <<"tunnel">>,
               <<"http_connect_error", "refuse_connect">>, <<"refuse_connect">>}

\* Nothing is decided yet.
Undecided == Announced \cup Beginning \cup Invalid \cup Opening \cup Reopening \cup Routing \cup Asked
               \cup Connecting \cup Responding
\* The hook of the outcome is about to run.
Deciding == OpeningError \cup ResponseHook \cup RefusalError \cup KillError
              \cup RequestErrorHook \cup ResponseErrorHook
\* It has run.
Concluding == OpeningFailed \cup Abandoning \cup Finishing \cup Refusing \cup Killing
                \cup AfterRequestError \cup AfterResponseError
Working == Opened \cup Reopened \cup Ending \cup Undecided \cup Deciding \cup Concluding
Programs == {<< >>} \cup Working

ProgramsOnly == todo \in Programs

-----------------------------------------------------------------------------
\* What is in a queue of events.
Left(q) == Has(q, "RequestError")
FromServer(q) == \E e \in Range(q) : e \notin RequestEvents \cup {"RequestError"}
Responded(q) == \E e \in Range(q) : e \in ResponseEvents

\* The end of the client is its last event; the server may respond after it.
NothingAfterEnd(q) ==
  \A i, j \in DOMAIN q :
    (i < j /\ q[i] = "RequestError") => q[j] \notin RequestEvents \cup {"RequestError"}
ServedAfterEnd(q) ==
  \E i, j \in DOMAIN q : i < j /\ q[i] = "RequestError" /\ q[j] \in ResponseEvents

Sent == Has(toServer, "RequestHeaders")
Unended(s) == Range(s) \cap Terminal = {}
Told == ~Unended(toClient)
Over(state) == state \in {"done", "errored"}
BothErrored == cstate = "errored" /\ sstate = "errored"

\* The states of the client and the server at each point.
StatesKnown ==
  /\ todo \in Announced \cup Beginning \cup Invalid \cup Opening =>
       cstate = "wait" /\ sstate = "uninitialized"
  /\ todo \in Reopening => cstate = "consume" /\ sstate = "wait"
  /\ todo \in Opened => \/ cstate = "stream" /\ sstate = "uninitialized"
                        \/ cstate = "errored" /\ sstate = "errored" /\ ~Sent
  /\ todo \in Reopened => \/ cstate = "stream" /\ sstate = "wait"
                          \/ cstate = "errored" /\ sstate = "errored" /\ ~Sent
  /\ todo \in OpeningError \cup OpeningFailed \cup RefusalError \cup Refusing =>
       cstate \in {"wait", "consume"} /\ sstate \in {"uninitialized", "wait"}
  /\ todo \in Abandoning => sstate = "errored" /\ ~Sent
  /\ todo \in Routing => cstate = "done" /\ sstate = "wait" /\ ~Sent
  /\ todo \in Asked \cup Connecting =>
       cstate = "done" /\ sstate = "uninitialized" /\ ~Sent
  /\ todo \in Ending => cstate = "stream"
  /\ todo \in Responding => sstate = "wait" /\ cstate \notin {"wait", "consume"}
  /\ todo \in ResponseHook \cup Finishing =>
       sstate \in {"wait", "consume", "stream"} /\ cstate \notin {"wait", "consume"}
  /\ todo \in RequestErrorHook \cup AfterRequestError => cstate # "wait"
  /\ todo \in ResponseErrorHook \cup AfterResponseError => cstate \notin {"wait", "consume"}
  /\ todo \notin Abandoning =>
       /\ cstate = "wait" => sstate = "uninitialized"
       /\ cstate = "consume" => sstate = "wait"
  /\ passthrough => todo = << >> /\ cstate = "done"

\* The request is not sent while it is awaited or collected, and the server does
\* not respond before.
SentLater ==
  /\ cstate \in {"wait", "consume"} => ~Sent
  /\ ~Sent => ~FromServer(queue)

\* A request that is streamed is marked so.
StreamsAreMarked ==
  (\/ todo \in Opening \cup Reopening \cup OpeningError \cup OpeningFailed \cup Abandoning
   \/ todo \in Opened \cup Reopened
   \/ cstate = "stream") => "request" \in flow.stream

\* In the beginning there is nothing but the first event.
AtFirst ==
  /\ client = "idle" => cstate = "wait" /\ todo = << >> /\ queue = << >>
  /\ (cstate = "wait" /\ todo = << >>) =>
       (queue = << >> /\ client = "idle") \/ queue = <<"RequestHeaders">>
  /\ (cstate = "wait" /\ todo = << >>) \/ todo \in Announced \cup Invalid \cup Asked =>
       hooks = << >> /\ toClient = << >>

\* Before its first hook the stream has not got far.
BeforeFirstHook ==
  hooks = << >> =>
    \/ cstate = "wait" /\ (todo = << >> \/ todo \in Announced \cup Invalid)
    \/ cstate = "done" /\ todo \in Asked
    \/ cstate = "errored" /\ ~Sent /\ (todo = << >> \/ todo \in AfterRequestError)

\* A client that is gone sends nothing more, and its end is handled once.
GoneIsLast ==
  /\ Left(queue) =>
       client = "gone" /\ todo \notin RequestErrorHook \cup AfterRequestError
  /\ todo \in RequestErrorHook \cup AfterRequestError => client = "gone"
  /\ NothingAfterEnd(queue)

\* If it does, the next step will find out, with the one exception.
FoundOut ==
  ServedAfterEnd(queue) =>
    \/ Overtaken \/ BothErrored \/ todo \in Responding \cup ResponseHook \cup Finishing
    \/ todo \in KillError \cup Killing \cup ResponseErrorHook \cup AfterResponseError
    \/ todo = <<"request", "end_request">>

\* Who was given up does not get to respond.
GivenUp ==
  /\ (cstate = "errored" /\ ~Over(sstate)) =>
       \/ Overtaken
       \/ ~Sent
       \/ server = "gone" /\ ~Responded(queue)
  /\ (todo \in RequestErrorHook \cup AfterRequestError
        /\ cstate # "errored" /\ ~Over(sstate)) => queue = << >> /\ ~Sent

\* One outcome, and what follows from it.
OutcomeDecides ==
  \/ Overtaken
  \/ /\ Outcomes <= 1
     /\ todo \in Undecided \cup Deciding => Outcomes = 0
     /\ Outcomes = 1 =>
          \/ todo \in Concluding \/ cstate = "errored" \/ Over(sstate)
          \/ dropped /\ queue = << >> /\ todo = << >>

\* The chunks of a body are in the buffer or have yet to get there.
ChunksCounted ==
  /\ body["request"] + Count(queue, "RequestData") <= chunks["request"]
  /\ body["response"] + Count(queue, "ResponseData") <= chunks["response"]

ConnectHookRan == todo \in Connecting => Has(hooks, "http_connect")

IInv ==
  /\ TypeOK /\ ProgramsOnly /\ StatesKnown /\ SentLater /\ StreamsAreMarked
  /\ AtFirst /\ BeforeFirstHook /\ GoneIsLast /\ FoundOut /\ GivenUp
  /\ OutcomeDecides /\ OverIsNotLive /\ ChunksCounted /\ ConnectHookRan

-----------------------------------------------------------------------------
(* Sequences. *)
LEMMA RangeEmpty == Range(<< >>) = {}
BY DEF Range

LEMMA RangeOne == \A e : Range(<<e>>) = {e}
<1>1. ASSUME NEW e PROVE Range(<<e>>) = {e}
  <2>1. <<e>> \in Seq({e}) /\ Len(<<e>>) = 1 /\ <<e>>[1] = e
    OBVIOUS
  <2>2. DOMAIN <<e>> = {1}
    BY <2>1
  <2>3. QED
    BY <2>1, <2>2 DEF Range
<1>2. QED
  BY <1>1

LEMMA RangeNotEmpty ==
  ASSUME NEW S, NEW s \in Seq(S), s # << >>
  PROVE  Range(s) # {}
<1>1. 1 \in DOMAIN s
  BY LenProperties
<1>2. QED
  BY <1>1 DEF Range

LEMMA RangeAppend ==
  ASSUME NEW S, NEW s \in Seq(S), NEW e \in S
  PROVE  Range(Append(s, e)) = Range(s) \cup {e}
<1> DEFINE t == Append(s, e)
<1>1. /\ Len(s) \in Nat /\ DOMAIN s = 1..Len(s)
      /\ DOMAIN t = 1..Len(s) + 1
      /\ \A i \in 1..Len(s) : t[i] = s[i]
      /\ t[Len(s) + 1] = e
  BY AppendProperties, LenProperties
<1> HIDE DEF t
<1>2. ASSUME NEW x \in Range(t) PROVE x \in Range(s) \cup {e}
  <2>1. PICK i \in 1..Len(s) + 1 : x = t[i]
    BY <1>1, <1>2 DEF Range
  <2>2. i \in 1..Len(s) \/ i = Len(s) + 1
    BY <1>1
  <2>3. QED
    BY <1>1, <2>1, <2>2 DEF Range
<1>3. ASSUME NEW x \in Range(s) PROVE x \in Range(t)
  <2>1. PICK i \in 1..Len(s) : x = s[i]
    BY <1>1, <1>3 DEF Range
  <2>2. i \in 1..Len(s) + 1
    BY <1>1
  <2>3. QED
    BY <1>1, <2>1, <2>2 DEF Range
<1>4. e \in Range(t)
  <2>1. Len(s) + 1 \in 1..Len(s) + 1
    BY <1>1
  <2>2. QED
    BY <1>1, <2>1 DEF Range
<1>5. QED
  BY <1>2, <1>3, <1>4 DEF t

LEMMA RangeConcat ==
  ASSUME NEW S, NEW s \in Seq(S), NEW t \in Seq(S)
  PROVE  Range(s \o t) = Range(s) \cup Range(t)
<1> DEFINE u == s \o t
<1>1. /\ Len(s) \in Nat /\ Len(t) \in Nat
      /\ DOMAIN s = 1..Len(s) /\ DOMAIN t = 1..Len(t)
      /\ DOMAIN u = 1..Len(s) + Len(t)
      /\ \A i \in 1..Len(s) + Len(t) : u[i] = IF i <= Len(s) THEN s[i] ELSE t[i - Len(s)]
  <2>1. u \in Seq(S) /\ Len(u) = Len(s) + Len(t)
    BY ConcatProperties
  <2>2. QED
    BY <2>1, ConcatProperties, LenProperties
<1> HIDE DEF u
<1>2. ASSUME NEW x \in Range(u) PROVE x \in Range(s) \cup Range(t)
  <2>1. PICK i \in 1..Len(s) + Len(t) : x = u[i]
    BY <1>1, <1>2 DEF Range
  <2>2. CASE i <= Len(s)
    <3>1. i \in 1..Len(s) /\ x = s[i]
      BY <1>1, <2>1, <2>2
    <3>2. QED
      BY <1>1, <3>1 DEF Range
  <2>3. CASE ~(i <= Len(s))
    <3>1. i - Len(s) \in 1..Len(t) /\ x = t[i - Len(s)]
      BY <1>1, <2>1, <2>3
    <3>2. QED
      BY <1>1, <3>1 DEF Range
  <2>4. QED
    BY <2>2, <2>3
<1>3. ASSUME NEW x \in Range(s) PROVE x \in Range(u)
  <2>1. PICK i \in 1..Len(s) : x = s[i]
    BY <1>1, <1>3 DEF Range
  <2>2. i \in 1..Len(s) + Len(t) /\ x = u[i]
    BY <1>1, <2>1
  <2>3. QED
    BY <1>1, <2>2 DEF Range
<1>4. ASSUME NEW x \in Range(t) PROVE x \in Range(u)
  <2>1. PICK i \in 1..Len(t) : x = t[i]
    BY <1>1, <1>4 DEF Range
  <2> DEFINE j == i + Len(s)
  <2>2. j \in 1..Len(s) + Len(t) /\ ~(j <= Len(s)) /\ j - Len(s) = i
    BY <1>1, <2>1
  <2> HIDE DEF j
  <2>3. u[j] = x
    BY <1>1, <2>1, <2>2
  <2>4. QED
    BY <1>1, <2>2, <2>3 DEF Range
<1>5. QED
  BY <1>2, <1>3, <1>4 DEF u

LEMMA RangeTail ==
  ASSUME NEW S, NEW s \in Seq(S), s # << >>
  PROVE  Range(s) = {Head(s)} \cup Range(Tail(s))
<1> DEFINE t == Tail(s)
<1>1. /\ Len(s) \in Nat /\ Len(s) >= 1 /\ DOMAIN s = 1..Len(s) /\ Head(s) = s[1]
      /\ DOMAIN t = 1..Len(s) - 1
      /\ \A i \in 1..Len(s) - 1 : t[i] = s[i + 1]
  <2>1. t \in Seq(S) /\ Len(t) = Len(s) - 1
    BY HeadTailProperties
  <2>2. Len(s) \in Nat /\ Len(s) >= 1 /\ DOMAIN s = 1..Len(s) /\ Head(s) = s[1]
    BY LenProperties
  <2>3. QED
    BY <2>1, <2>2, HeadTailProperties, LenProperties
<1> HIDE DEF t
<1>2. ASSUME NEW x \in Range(s) PROVE x \in {Head(s)} \cup Range(t)
  <2>1. PICK i \in 1..Len(s) : x = s[i]
    BY <1>1, <1>2 DEF Range
  <2>2. CASE i = 1
    BY <1>1, <2>1, <2>2
  <2>3. CASE i # 1
    <3>1. i - 1 \in 1..Len(s) - 1 /\ x = t[i - 1]
      BY <1>1, <2>1, <2>3
    <3>2. QED
      BY <1>1, <3>1 DEF Range
  <2>4. QED
    BY <2>2, <2>3
<1>3. ASSUME NEW x \in Range(t) PROVE x \in Range(s)
  <2>1. PICK i \in 1..Len(s) - 1 : x = t[i]
    BY <1>1, <1>3 DEF Range
  <2>2. i + 1 \in 1..Len(s) /\ x = s[i + 1]
    BY <1>1, <2>1
  <2>3. QED
    BY <1>1, <2>2 DEF Range
<1>4. Head(s) \in Range(s)
  BY <1>1 DEF Range
<1>5. QED
  BY <1>2, <1>3, <1>4 DEF t

LEMMA CopiesAreSequences ==
  ASSUME NEW e, NEW n \in Nat
  PROVE  Copies(e, n) \in Seq({e}) /\ Range(Copies(e, n)) \subseteq {e}
BY DEF Copies, Range

LEMMA CountIsNat ==
  ASSUME NEW S, NEW s \in Seq(S), NEW e
  PROVE  Count(s, e) \in Nat /\ IsFiniteSet({i \in DOMAIN s : s[i] = e})
<1>1. Len(s) \in Nat /\ DOMAIN s = 1..Len(s)
  BY LenProperties
<1>2. IsFiniteSet(1..Len(s))
  BY <1>1, FS_Interval
<1>3. IsFiniteSet({i \in DOMAIN s : s[i] = e})
  BY <1>1, <1>2, FS_Subset
<1>4. QED
  BY <1>3, FS_CardinalityType DEF Count

LEMMA CountAppend ==
  ASSUME NEW S, NEW s \in Seq(S), NEW e \in S, NEW f
  PROVE  Count(Append(s, e), f) = IF e = f THEN Count(s, f) + 1 ELSE Count(s, f)
<1> DEFINE t == Append(s, e)
           A == {i \in DOMAIN s : s[i] = f}
           B == {i \in DOMAIN t : t[i] = f}
<1>1. /\ Len(s) \in Nat /\ DOMAIN s = 1..Len(s)
      /\ DOMAIN t = 1..Len(s) + 1
      /\ \A i \in 1..Len(s) : t[i] = s[i]
      /\ t[Len(s) + 1] = e
  BY AppendProperties, LenProperties
<1> HIDE DEF t
<1>2. IsFiniteSet(A)
  BY CountIsNat
<1>3. Len(s) + 1 \notin A
  BY <1>1
<1>4. CASE e = f
  <2>1. B = A \cup {Len(s) + 1}
    BY <1>1, <1>4
  <2>2. Cardinality(B) = Cardinality(A) + 1
    BY <1>2, <1>3, <2>1, FS_AddElement
  <2>3. QED
    BY <1>4, <2>2 DEF Count, t
<1>5. CASE e # f
  <2>1. B = A
    BY <1>1, <1>5
  <2>2. QED
    BY <1>5, <2>1 DEF Count, t
<1>6. QED
  BY <1>4, <1>5

LEMMA CountTail ==
  ASSUME NEW S, NEW s \in Seq(S), s # << >>, NEW f
  PROVE  Count(s, f) = IF Head(s) = f THEN Count(Tail(s), f) + 1 ELSE Count(Tail(s), f)
<1> DEFINE t == Tail(s)
           A == {i \in DOMAIN t : t[i] = f}
           B == {i \in DOMAIN s : s[i] = f}
           C == {i \in 2..Len(s) : s[i] = f}
           shift == [i \in A |-> i + 1]
<1>1. /\ Len(s) \in Nat /\ Len(s) >= 1 /\ DOMAIN s = 1..Len(s) /\ Head(s) = s[1]
      /\ DOMAIN t = 1..Len(s) - 1
      /\ \A i \in 1..Len(s) - 1 : t[i] = s[i + 1]
  <2>1. t \in Seq(S) /\ Len(t) = Len(s) - 1
    BY HeadTailProperties
  <2>2. Len(s) \in Nat /\ Len(s) >= 1 /\ DOMAIN s = 1..Len(s) /\ Head(s) = s[1]
    BY LenProperties
  <2>3. QED
    BY <2>1, <2>2, HeadTailProperties, LenProperties, ZenonT(30)
<1>2. IsFiniteSet(A)
  BY CountIsNat, HeadTailProperties
<1> HIDE DEF t
<1>3. shift \in Bijection(A, C)
  <2>1. shift \in [A -> C]
    BY <1>1
  <2>2. \A i, j \in A : shift[i] = shift[j] => i = j
    BY <1>1
  <2>3. ASSUME NEW j \in C PROVE \E i \in A : shift[i] = j
    <3>1. j - 1 \in A /\ shift[j - 1] = j
      BY <1>1, <2>3
    <3>2. QED
      BY <3>1
  <2>4. QED
    BY <2>1, <2>2, <2>3 DEF Bijection, Injection, Surjection, IsInjective
<1>4. IsFiniteSet(C) /\ Cardinality(C) = Cardinality(A)
  BY <1>2, <1>3, FS_Bijection DEF ExistsBijection
<1>5. 1 \notin C
  BY <1>1
<1>6. CASE Head(s) = f
  <2>1. B = C \cup {1}
    BY <1>1, <1>6
  <2>2. Cardinality(B) = Cardinality(C) + 1
    BY <1>4, <1>5, <2>1, FS_AddElement
  <2>3. QED
    BY <1>4, <1>6, <2>2 DEF Count, t
<1>7. CASE Head(s) # f
  <2>1. B = C
    BY <1>1, <1>7
  <2>2. QED
    BY <1>4, <1>7, <2>1 DEF Count, t
<1>8. QED
  BY <1>6, <1>7

LEMMA CountEmpty == \A e : Count(<< >>, e) = 0
BY FS_EmptySet DEF Count

LEMMA Pairs ==
  ASSUME NEW a, NEW b
  PROVE  <<a>> \o <<b>> = <<a, b>>
<1> DEFINE s == <<a>> \o <<b>>
           t == <<a, b>>
<1>1. <<a>> \in Seq({a, b}) /\ <<b>> \in Seq({a, b}) /\ t \in Seq({a, b}) /\ Len(t) = 2
  OBVIOUS
<1>2. s \in Seq({a, b}) /\ Len(s) = 2
  BY <1>1, ConcatProperties
<1>3. s[1] = a /\ s[2] = b /\ t[1] = a /\ t[2] = b
  BY <1>1, ConcatProperties
<1> HIDE DEF s, t
<1>4. \A i \in 1..2 : s[i] = t[i]
  BY <1>3
<1>5. QED
  BY <1>1, <1>2, <1>4, SeqEqual DEF s, t

LEMMA Fours ==
  ASSUME NEW a, NEW b, NEW c, NEW d
  PROVE  <<a, b>> \o <<c, d>> = <<a, b, c, d>>
<1> DEFINE s == <<a, b>> \o <<c, d>>
           t == <<a, b, c, d>>
           S == {a, b, c, d}
<1>1. <<a, b>> \in Seq(S) /\ <<c, d>> \in Seq(S) /\ t \in Seq(S) /\ Len(t) = 4
  OBVIOUS
<1>2. s \in Seq(S) /\ Len(s) = 4
  BY <1>1, ConcatProperties
<1>3. s[1] = a /\ s[2] = b /\ s[3] = c /\ s[4] = d
  BY <1>1, ConcatProperties
<1>4. t[1] = a /\ t[2] = b /\ t[3] = c /\ t[4] = d
  OBVIOUS
<1> HIDE DEF s, t
<1>5. \A i \in 1..4 : s[i] = t[i]
  BY <1>3, <1>4
<1>6. QED
  BY <1>1, <1>2, <1>5, SeqEqual DEF s, t

LEMMA Thirds ==
  ASSUME NEW a, NEW b, NEW c
  PROVE  SubSeq(<<a, b, c>>, 3, Len(<<a, b, c>>)) = <<c>>
<1> DEFINE s == <<a, b, c>>
           t == SubSeq(s, 3, 3)
           S == {a, b, c}
<1>1. s \in Seq(S) /\ Len(s) = 3 /\ s[3] = c /\ <<c>> \in Seq(S)
  OBVIOUS
<1> HIDE DEF s
<1>2. t \in Seq(S) /\ Len(t) = 1 /\ t[1] = c
  BY <1>1, SubSeqProperties
<1> HIDE DEF t
<1>3. t = <<c>>
  BY <1>1, <1>2, SeqEqual
<1>4. QED
  BY <1>1, <1>3 DEF s, t

-----------------------------------------------------------------------------
(* The queue. *)
LEMMA Taking ==
  ASSUME NEW q \in Seq(Events), q # << >>
  PROVE  /\ Tail(q) \in Seq(Events) /\ Head(q) \in Events
         /\ Range(q) = {Head(q)} \cup Range(Tail(q))
         /\ NothingAfterEnd(q) => NothingAfterEnd(Tail(q))
         /\ (NothingAfterEnd(q) /\ Head(q) = "RequestError") =>
              Range(Tail(q)) \cap (RequestEvents \cup {"RequestError"}) = {}
         /\ ServedAfterEnd(Tail(q)) => ServedAfterEnd(q)
         /\ (Head(q) = "RequestError" /\ Range(Tail(q)) \cap ResponseEvents # {}) =>
              ServedAfterEnd(q)
<1> DEFINE t == Tail(q)
<1>1. /\ Len(q) \in Nat /\ Len(q) >= 1 /\ DOMAIN q = 1..Len(q) /\ Head(q) = q[1]
      /\ DOMAIN t = 1..Len(q) - 1
      /\ \A i \in 1..Len(q) - 1 : t[i] = q[i + 1]
  <2>1. t \in Seq(Events) /\ Len(t) = Len(q) - 1
    BY HeadTailProperties
  <2>2. Len(q) \in Nat /\ Len(q) >= 1 /\ DOMAIN q = 1..Len(q) /\ Head(q) = q[1]
    BY LenProperties
  <2>3. QED
    BY <2>1, <2>2, HeadTailProperties, LenProperties
<1>2. t \in Seq(Events) /\ Head(q) \in Events /\ Range(q) = {Head(q)} \cup Range(t)
  BY HeadTailProperties, RangeTail
<1> HIDE DEF t
<1>3. \A i \in DOMAIN t : i + 1 \in DOMAIN q /\ t[i] = q[i + 1] /\ i \in Nat
  BY <1>1
<1>4. ASSUME NothingAfterEnd(q) PROVE NothingAfterEnd(t)
  <2>1. SUFFICES ASSUME NEW i \in DOMAIN t, NEW j \in DOMAIN t, i < j, t[i] = "RequestError"
                 PROVE  t[j] \notin RequestEvents \cup {"RequestError"}
    BY DEF NothingAfterEnd
  <2>2. i + 1 < j + 1
    BY <1>3, <2>1
  <2>3. QED
    BY <1>3, <1>4, <2>1, <2>2 DEF NothingAfterEnd
<1>5. ASSUME NothingAfterEnd(q), Head(q) = "RequestError", NEW e \in Range(t)
      PROVE  e \notin RequestEvents \cup {"RequestError"}
  <2>1. PICK j \in DOMAIN t : e = t[j]
    BY <1>5 DEF Range
  <2>2. j + 1 \in DOMAIN q /\ e = q[j + 1] /\ 1 \in DOMAIN q /\ 1 < j + 1
    BY <1>1, <2>1
  <2>3. q[1] = "RequestError"
    BY <1>1, <1>5
  <2>4. QED
    BY <1>5, <2>2, <2>3 DEF NothingAfterEnd
<1>6. ASSUME ServedAfterEnd(t) PROVE ServedAfterEnd(q)
  <2>1. PICK i \in DOMAIN t, j \in DOMAIN t :
          i < j /\ t[i] = "RequestError" /\ t[j] \in ResponseEvents
    BY <1>6 DEF ServedAfterEnd
  <2>2. i + 1 < j + 1
    BY <1>3, <2>1
  <2>3. QED
    BY <1>3, <2>1, <2>2 DEF ServedAfterEnd
<1>7. ASSUME Head(q) = "RequestError", NEW e \in Range(t), e \in ResponseEvents
      PROVE  ServedAfterEnd(q)
  <2>1. PICK j \in DOMAIN t : e = t[j]
    BY <1>7 DEF Range
  <2>2. j + 1 \in DOMAIN q /\ e = q[j + 1] /\ 1 \in DOMAIN q /\ 1 < j + 1
    BY <1>1, <2>1
  <2>3. q[1] = "RequestError"
    BY <1>1, <1>7
  <2>4. QED
    BY <1>7, <2>2, <2>3 DEF ServedAfterEnd
<1>8. QED
  BY <1>2, <1>4, <1>5, <1>6, <1>7 DEF t

LEMMA Putting ==
  ASSUME NEW q \in Seq(Events), NEW e \in Events
  PROVE  /\ Append(q, e) \in Seq(Events) /\ Append(q, e) # << >>
         /\ Range(Append(q, e)) = Range(q) \cup {e}
         /\ (/\ NothingAfterEnd(q)
             /\ "RequestError" \notin Range(q) \/ e \notin RequestEvents \cup {"RequestError"}) =>
              NothingAfterEnd(Append(q, e))
         /\ ServedAfterEnd(Append(q, e)) =>
              ServedAfterEnd(q) \/ ("RequestError" \in Range(q) /\ e \in ResponseEvents)
<1> DEFINE t == Append(q, e)
<1>1. /\ Len(q) \in Nat /\ DOMAIN q = 1..Len(q)
      /\ DOMAIN t = 1..Len(q) + 1
      /\ \A i \in 1..Len(q) : t[i] = q[i]
      /\ t[Len(q) + 1] = e
  BY AppendProperties, LenProperties
<1>2. t \in Seq(Events) /\ t # << >> /\ Range(t) = Range(q) \cup {e}
  BY AppendProperties, RangeAppend
<1> HIDE DEF t
<1>3. ASSUME NEW i \in DOMAIN t, NEW j \in DOMAIN t, i < j
      PROVE  /\ i \in DOMAIN q /\ t[i] = q[i] /\ q[i] \in Range(q)
             /\ (j \in DOMAIN q /\ t[j] = q[j]) \/ t[j] = e
  <2>1. i \in 1..Len(q)
    BY <1>1, <1>3
  <2>2. j \in 1..Len(q) \/ j = Len(q) + 1
    BY <1>1
  <2>3. QED
    BY <1>1, <2>1, <2>2 DEF Range
<1>4. ASSUME NothingAfterEnd(q),
             "RequestError" \notin Range(q) \/ e \notin RequestEvents \cup {"RequestError"}
      PROVE  NothingAfterEnd(t)
  BY <1>3, <1>4 DEF NothingAfterEnd
<1>5. ASSUME ServedAfterEnd(t)
      PROVE  ServedAfterEnd(q) \/ ("RequestError" \in Range(q) /\ e \in ResponseEvents)
  <2>1. PICK i \in DOMAIN t, j \in DOMAIN t :
          i < j /\ t[i] = "RequestError" /\ t[j] \in ResponseEvents
    BY <1>5 DEF ServedAfterEnd
  <2>2. i \in DOMAIN q /\ q[i] = "RequestError" /\ q[i] \in Range(q)
    BY <1>3, <2>1
  <2>3. CASE j \in DOMAIN q /\ t[j] = q[j]
    BY <2>1, <2>2, <2>3 DEF ServedAfterEnd
  <2>4. CASE t[j] = e
    BY <2>1, <2>2, <2>4
  <2>5. QED
    BY <1>3, <2>1, <2>3, <2>4
<1>6. QED
  BY <1>2, <1>4, <1>5 DEF t

LEMMA NothingEmpty ==
  ~Left(<< >>) /\ ~FromServer(<< >>) /\ ~Responded(<< >>)
    /\ NothingAfterEnd(<< >>) /\ ~ServedAfterEnd(<< >>)
BY RangeEmpty DEF Left, FromServer, Responded, Has, NothingAfterEnd, ServedAfterEnd

LEMMA Served ==
  ASSUME NEW q, ServedAfterEnd(q)
  PROVE  Left(q) /\ Responded(q) /\ FromServer(q)
BY DEF ServedAfterEnd, Left, Responded, FromServer, Has, Range, RequestEvents, ResponseEvents

LEMMA TakesRequest ==
  ASSUME NEW q \in Seq(Events), q # << >>, Head(q) \in RequestEvents
  PROVE  /\ Tail(q) \in Seq(Events)
         /\ (Left(Tail(q)) <=> Left(q))
         /\ (FromServer(Tail(q)) <=> FromServer(q))
         /\ (Responded(Tail(q)) <=> Responded(q))
         /\ ServedAfterEnd(Tail(q)) => ServedAfterEnd(q)
         /\ NothingAfterEnd(q) => NothingAfterEnd(Tail(q))
BY Taking DEF Left, FromServer, Responded, Has, RequestEvents, ResponseEvents

LEMMA TakesRequestError ==
  ASSUME NEW q \in Seq(Events), q # << >>, Head(q) = "RequestError"
  PROVE  /\ Tail(q) \in Seq(Events)
         /\ Left(q)
         /\ (FromServer(Tail(q)) <=> FromServer(q))
         /\ (Responded(Tail(q)) <=> Responded(q))
         /\ NothingAfterEnd(q) => (~Left(Tail(q)) /\ NothingAfterEnd(Tail(q)))
         /\ Responded(Tail(q)) => ServedAfterEnd(q)
BY Taking DEF Left, FromServer, Responded, Has, RequestEvents, ResponseEvents

LEMMA TakesResponse ==
  ASSUME NEW q \in Seq(Events), q # << >>, Head(q) \in ResponseEvents
  PROVE  /\ Tail(q) \in Seq(Events)
         /\ (Left(Tail(q)) <=> Left(q))
         /\ FromServer(q)
         /\ Responded(q)
         /\ ServedAfterEnd(Tail(q)) => ServedAfterEnd(q)
         /\ NothingAfterEnd(q) => NothingAfterEnd(Tail(q))
<1> DEFINE t == Tail(q)
<1>1. /\ t \in Seq(Events) /\ Range(q) = {Head(q)} \cup Range(t)
      /\ NothingAfterEnd(q) => NothingAfterEnd(t)
      /\ ServedAfterEnd(t) => ServedAfterEnd(q)
  BY Taking
<1> HIDE DEF t
<1>2. QED
  BY <1>1 DEF Left, FromServer, Responded, Has, RequestEvents, ResponseEvents, t

LEMMA TakesResponseError ==
  ASSUME NEW q \in Seq(Events), q # << >>, Head(q) = "ResponseError"
  PROVE  /\ Tail(q) \in Seq(Events)
         /\ (Left(Tail(q)) <=> Left(q))
         /\ FromServer(q)
         /\ (Responded(Tail(q)) <=> Responded(q))
         /\ ServedAfterEnd(Tail(q)) => ServedAfterEnd(q)
         /\ NothingAfterEnd(q) => NothingAfterEnd(Tail(q))
<1> DEFINE t == Tail(q)
<1>1. /\ t \in Seq(Events) /\ Range(q) = {Head(q)} \cup Range(t)
      /\ NothingAfterEnd(q) => NothingAfterEnd(t)
      /\ ServedAfterEnd(t) => ServedAfterEnd(q)
  BY Taking
<1> HIDE DEF t
<1>2. QED
  BY <1>1 DEF Left, FromServer, Responded, Has, RequestEvents, ResponseEvents, t

LEMMA Takes ==
  ASSUME NEW q \in Seq(Events), q # << >>
  PROVE  /\ Tail(q) \in Seq(Events)
         /\ Left(Tail(q)) => Left(q)
         /\ FromServer(Tail(q)) => FromServer(q)
         /\ Responded(Tail(q)) => Responded(q)
         /\ ServedAfterEnd(Tail(q)) => ServedAfterEnd(q)
         /\ NothingAfterEnd(q) => NothingAfterEnd(Tail(q))
BY Taking DEF Left, FromServer, Responded, Has

LEMMA PutsRequest ==
  ASSUME NEW q \in Seq(Events), NEW e \in RequestEvents
  PROVE  /\ Append(q, e) \in Seq(Events) /\ Append(q, e) # << >>
         /\ q = << >> => Append(q, e) = <<e>>
         /\ (Left(Append(q, e)) <=> Left(q))
         /\ (FromServer(Append(q, e)) <=> FromServer(q))
         /\ (Responded(Append(q, e)) <=> Responded(q))
         /\ ServedAfterEnd(Append(q, e)) => ServedAfterEnd(q)
         /\ (NothingAfterEnd(q) /\ ~Left(q)) => NothingAfterEnd(Append(q, e))
<1>1. e \in Events
  BY DEF Events, Errors
<1>2. ASSUME q = << >>
      PROVE  Append(q, e) = <<e>>
  BY <1>2
<1>3. /\ Append(q, e) \in Seq(Events) /\ Append(q, e) # << >>
      /\ Range(Append(q, e)) = Range(q) \cup {e}
  BY <1>1, Putting
<1>4. /\ (/\ NothingAfterEnd(q)
          /\ "RequestError" \notin Range(q) \/ e \notin RequestEvents \cup {"RequestError"}) =>
           NothingAfterEnd(Append(q, e))
      /\ ServedAfterEnd(Append(q, e)) =>
           ServedAfterEnd(q) \/ ("RequestError" \in Range(q) /\ e \in ResponseEvents)
  BY <1>1, Putting
<1>5. QED
  BY <1>1, <1>2, <1>3, <1>4
    DEF Left, FromServer, Responded, Has, RequestEvents, ResponseEvents

LEMMA PutsRequestError ==
  ASSUME NEW q \in Seq(Events), NEW e, e = "RequestError"
  PROVE  /\ Append(q, e) \in Seq(Events) /\ Append(q, e) # << >>
         /\ q = << >> => Append(q, e) = <<e>>
         /\ Left(Append(q, e))
         /\ (FromServer(Append(q, e)) <=> FromServer(q))
         /\ (Responded(Append(q, e)) <=> Responded(q))
         /\ ServedAfterEnd(Append(q, e)) => ServedAfterEnd(q)
         /\ (NothingAfterEnd(q) /\ ~Left(q)) => NothingAfterEnd(Append(q, e))
<1>1. e \in Events
  BY DEF Events, Errors
<1>2. ASSUME q = << >>
      PROVE  Append(q, e) = <<e>>
  BY <1>2
<1>3. /\ Append(q, e) \in Seq(Events) /\ Append(q, e) # << >>
      /\ Range(Append(q, e)) = Range(q) \cup {e}
  BY <1>1, Putting
<1>4. /\ (/\ NothingAfterEnd(q)
          /\ "RequestError" \notin Range(q) \/ e \notin RequestEvents \cup {"RequestError"}) =>
           NothingAfterEnd(Append(q, e))
      /\ ServedAfterEnd(Append(q, e)) =>
           ServedAfterEnd(q) \/ ("RequestError" \in Range(q) /\ e \in ResponseEvents)
  BY <1>1, Putting
<1>5. QED
  BY <1>1, <1>2, <1>3, <1>4
    DEF Left, FromServer, Responded, Has, RequestEvents, ResponseEvents

LEMMA PutsResponse ==
  ASSUME NEW q \in Seq(Events), NEW e \in ResponseEvents
  PROVE  /\ Append(q, e) \in Seq(Events) /\ Append(q, e) # << >>
         /\ q = << >> => Append(q, e) = <<e>>
         /\ (Left(Append(q, e)) <=> Left(q))
         /\ FromServer(Append(q, e))
         /\ Responded(Append(q, e))
         /\ ServedAfterEnd(Append(q, e)) => (ServedAfterEnd(q) \/ Left(q))
         /\ NothingAfterEnd(q) => NothingAfterEnd(Append(q, e))
<1>1. e \in Events
  BY DEF Events, Errors
<1>2. ASSUME q = << >>
      PROVE  Append(q, e) = <<e>>
  BY <1>2
<1>3. /\ Append(q, e) \in Seq(Events) /\ Append(q, e) # << >>
      /\ Range(Append(q, e)) = Range(q) \cup {e}
  BY <1>1, Putting
<1>4. /\ (/\ NothingAfterEnd(q)
          /\ "RequestError" \notin Range(q) \/ e \notin RequestEvents \cup {"RequestError"}) =>
           NothingAfterEnd(Append(q, e))
      /\ ServedAfterEnd(Append(q, e)) =>
           ServedAfterEnd(q) \/ ("RequestError" \in Range(q) /\ e \in ResponseEvents)
  BY <1>1, Putting
<1>5. QED
  BY <1>1, <1>2, <1>3, <1>4
    DEF Left, FromServer, Responded, Has, RequestEvents, ResponseEvents

LEMMA PutsResponseError ==
  ASSUME NEW q \in Seq(Events), NEW e, e = "ResponseError"
  PROVE  /\ Append(q, e) \in Seq(Events) /\ Append(q, e) # << >>
         /\ q = << >> => Append(q, e) = <<e>>
         /\ (Left(Append(q, e)) <=> Left(q))
         /\ FromServer(Append(q, e))
         /\ (Responded(Append(q, e)) <=> Responded(q))
         /\ ServedAfterEnd(Append(q, e)) => ServedAfterEnd(q)
         /\ NothingAfterEnd(q) => NothingAfterEnd(Append(q, e))
<1>1. e \in Events
  BY DEF Events, Errors
<1>2. ASSUME q = << >>
      PROVE  Append(q, e) = <<e>>
  BY <1>2
<1>3. /\ Append(q, e) \in Seq(Events) /\ Append(q, e) # << >>
      /\ Range(Append(q, e)) = Range(q) \cup {e}
  BY <1>1, Putting
<1>4. /\ (/\ NothingAfterEnd(q)
          /\ "RequestError" \notin Range(q) \/ e \notin RequestEvents \cup {"RequestError"}) =>
           NothingAfterEnd(Append(q, e))
      /\ ServedAfterEnd(Append(q, e)) =>
           ServedAfterEnd(q) \/ ("RequestError" \in Range(q) /\ e \in ResponseEvents)
  BY <1>1, Putting
<1>5. e \notin RequestEvents \cup {"RequestError"} /\ e \notin ResponseEvents
  BY DEF RequestEvents, ResponseEvents
<1>6. /\ Left(Append(q, e)) <=> Left(q)
      /\ FromServer(Append(q, e))
      /\ Responded(Append(q, e)) <=> Responded(q)
  BY <1>3, <1>5 DEF Left, FromServer, Responded, Has
<1>7. QED
  BY <1>1, <1>2, <1>3, <1>4, <1>5, <1>6

-----------------------------------------------------------------------------
(* What is left to do tells where the generator is. *)
LEMMA IdleOnly == << >> \notin Working
BY DEF Working, Undecided, Deciding, Concluding, Announced, Beginning, Invalid,
   Opening, Reopening, Opened, Reopened, OpeningError, OpeningFailed,
   Abandoning, Routing, Ending, Responding, ResponseHook, Finishing,
   RefusalError, Refusing, KillError, Killing, RequestErrorHook,
   AfterRequestError, ResponseErrorHook, AfterResponseError, Asked, Connecting

LEMMA AnnouncedOnly ==
  ASSUME NEW t \in Announced
  PROVE  t # << >> /\ t \notin (Beginning \cup Invalid \cup Opening \cup Reopening
          \cup Opened \cup Reopened \cup OpeningError
          \cup OpeningFailed \cup Abandoning \cup Routing
          \cup Ending \cup Responding \cup ResponseHook
          \cup Finishing \cup RefusalError \cup Refusing
          \cup KillError \cup Killing \cup RequestErrorHook
          \cup AfterRequestError \cup ResponseErrorHook
          \cup AfterResponseError \cup Asked
          \cup Connecting)
<1>1. CASE t = <<"requestheaders", "begin_request">>
  BY <1>1
    DEF Announced, Beginning, Invalid, Opening, Reopening, Opened, Reopened,
     OpeningError, OpeningFailed, Abandoning, Routing, Ending, Responding,
     ResponseHook, Finishing, RefusalError, Refusing, KillError, Killing,
     RequestErrorHook, AfterRequestError, ResponseErrorHook, AfterResponseError,
     Asked, Connecting
<1>2. CASE t = <<"requestheaders", "request_too_large">>
  BY <1>2
    DEF Announced, Beginning, Invalid, Opening, Reopening, Opened, Reopened,
     OpeningError, OpeningFailed, Abandoning, Routing, Ending, Responding,
     ResponseHook, Finishing, RefusalError, Refusing, KillError, Killing,
     RequestErrorHook, AfterRequestError, ResponseErrorHook, AfterResponseError,
     Asked, Connecting
<1>3. QED
  BY <1>1, <1>2 DEF Announced

LEMMA BeginningOnly ==
  ASSUME NEW t \in Beginning
  PROVE  t # << >> /\ t \notin (Announced \cup Invalid \cup Opening \cup Reopening
          \cup Opened \cup Reopened \cup OpeningError
          \cup OpeningFailed \cup Abandoning \cup Routing
          \cup Ending \cup Responding \cup ResponseHook
          \cup Finishing \cup RefusalError \cup Refusing
          \cup KillError \cup Killing \cup RequestErrorHook
          \cup AfterRequestError \cup ResponseErrorHook
          \cup AfterResponseError \cup Asked
          \cup Connecting)
<1>1. CASE t = <<"begin_request">>
  BY <1>1
    DEF Announced, Beginning, Invalid, Opening, Reopening, Opened, Reopened,
     OpeningError, OpeningFailed, Abandoning, Routing, Ending, Responding,
     ResponseHook, Finishing, RefusalError, Refusing, KillError, Killing,
     RequestErrorHook, AfterRequestError, ResponseErrorHook, AfterResponseError,
     Asked, Connecting
<1>2. CASE t = <<"request_too_large">>
  BY <1>2
    DEF Announced, Beginning, Invalid, Opening, Reopening, Opened, Reopened,
     OpeningError, OpeningFailed, Abandoning, Routing, Ending, Responding,
     ResponseHook, Finishing, RefusalError, Refusing, KillError, Killing,
     RequestErrorHook, AfterRequestError, ResponseErrorHook, AfterResponseError,
     Asked, Connecting
<1>3. QED
  BY <1>1, <1>2 DEF Beginning

LEMMA InvalidOnly ==
  ASSUME NEW t \in Invalid
  PROVE  t # << >> /\ t \notin (Announced \cup Beginning \cup Opening \cup Reopening
          \cup Opened \cup Reopened \cup OpeningError
          \cup OpeningFailed \cup Abandoning \cup Routing
          \cup Ending \cup Responding \cup ResponseHook
          \cup Finishing \cup RefusalError \cup Refusing
          \cup KillError \cup Killing \cup RequestErrorHook
          \cup AfterRequestError \cup ResponseErrorHook
          \cup AfterResponseError \cup Asked
          \cup Connecting)
BY SMTT(40)
  DEF Announced, Beginning, Invalid, Opening, Reopening, Opened, Reopened,
   OpeningError, OpeningFailed, Abandoning, Routing, Ending, Responding,
   ResponseHook, Finishing, RefusalError, Refusing, KillError, Killing,
   RequestErrorHook, AfterRequestError, ResponseErrorHook, AfterResponseError,
   Asked, Connecting

LEMMA OpeningOnly ==
  ASSUME NEW t \in Opening
  PROVE  t # << >> /\ t \notin (Announced \cup Beginning \cup Invalid \cup Reopening
          \cup Opened \cup Reopened \cup OpeningError
          \cup OpeningFailed \cup Abandoning \cup Routing
          \cup Ending \cup Responding \cup ResponseHook
          \cup Finishing \cup RefusalError \cup Refusing
          \cup KillError \cup Killing \cup RequestErrorHook
          \cup AfterRequestError \cup ResponseErrorHook
          \cup AfterResponseError \cup Asked
          \cup Connecting)
<1>1. CASE t = <<"get_connection", "stream_request", "expect_response">>
  BY <1>1
    DEF Announced, Beginning, Invalid, Opening, Reopening, Opened, Reopened,
     OpeningError, OpeningFailed, Abandoning, Routing, Ending, Responding,
     ResponseHook, Finishing, RefusalError, Refusing, KillError, Killing,
     RequestErrorHook, AfterRequestError, ResponseErrorHook, AfterResponseError,
     Asked, Connecting
<1>2. CASE t = <<"stream_request", "expect_response">>
  BY <1>2
    DEF Announced, Beginning, Invalid, Opening, Reopening, Opened, Reopened,
     OpeningError, OpeningFailed, Abandoning, Routing, Ending, Responding,
     ResponseHook, Finishing, RefusalError, Refusing, KillError, Killing,
     RequestErrorHook, AfterRequestError, ResponseErrorHook, AfterResponseError,
     Asked, Connecting
<1>3. QED
  BY <1>1, <1>2 DEF Opening

LEMMA ReopeningOnly ==
  ASSUME NEW t \in Reopening
  PROVE  t # << >> /\ t \notin (Announced \cup Beginning \cup Invalid \cup Opening
          \cup Opened \cup Reopened \cup OpeningError
          \cup OpeningFailed \cup Abandoning \cup Routing
          \cup Ending \cup Responding \cup ResponseHook
          \cup Finishing \cup RefusalError \cup Refusing
          \cup KillError \cup Killing \cup RequestErrorHook
          \cup AfterRequestError \cup ResponseErrorHook
          \cup AfterResponseError \cup Asked
          \cup Connecting)
<1>1. CASE t = <<"get_connection", "stream_request", "replay_request">>
  BY <1>1
    DEF Announced, Beginning, Invalid, Opening, Reopening, Opened, Reopened,
     OpeningError, OpeningFailed, Abandoning, Routing, Ending, Responding,
     ResponseHook, Finishing, RefusalError, Refusing, KillError, Killing,
     RequestErrorHook, AfterRequestError, ResponseErrorHook, AfterResponseError,
     Asked, Connecting
<1>2. CASE t = <<"stream_request", "replay_request">>
  BY <1>2
    DEF Announced, Beginning, Invalid, Opening, Reopening, Opened, Reopened,
     OpeningError, OpeningFailed, Abandoning, Routing, Ending, Responding,
     ResponseHook, Finishing, RefusalError, Refusing, KillError, Killing,
     RequestErrorHook, AfterRequestError, ResponseErrorHook, AfterResponseError,
     Asked, Connecting
<1>3. QED
  BY <1>1, <1>2 DEF Reopening

LEMMA OpenedOnly ==
  ASSUME NEW t \in Opened
  PROVE  t # << >> /\ t \notin (Announced \cup Beginning \cup Invalid \cup Opening
          \cup Reopening \cup Reopened \cup OpeningError
          \cup OpeningFailed \cup Abandoning \cup Routing
          \cup Ending \cup Responding \cup ResponseHook
          \cup Finishing \cup RefusalError \cup Refusing
          \cup KillError \cup Killing \cup RequestErrorHook
          \cup AfterRequestError \cup ResponseErrorHook
          \cup AfterResponseError \cup Asked
          \cup Connecting)
BY SMTT(40)
  DEF Announced, Beginning, Invalid, Opening, Reopening, Opened, Reopened,
   OpeningError, OpeningFailed, Abandoning, Routing, Ending, Responding,
   ResponseHook, Finishing, RefusalError, Refusing, KillError, Killing,
   RequestErrorHook, AfterRequestError, ResponseErrorHook, AfterResponseError,
   Asked, Connecting

LEMMA ReopenedOnly ==
  ASSUME NEW t \in Reopened
  PROVE  t # << >> /\ t \notin (Announced \cup Beginning \cup Invalid \cup Opening
          \cup Reopening \cup Opened \cup OpeningError
          \cup OpeningFailed \cup Abandoning \cup Routing
          \cup Ending \cup Responding \cup ResponseHook
          \cup Finishing \cup RefusalError \cup Refusing
          \cup KillError \cup Killing \cup RequestErrorHook
          \cup AfterRequestError \cup ResponseErrorHook
          \cup AfterResponseError \cup Asked
          \cup Connecting)
BY SMTT(40)
  DEF Announced, Beginning, Invalid, Opening, Reopening, Opened, Reopened,
   OpeningError, OpeningFailed, Abandoning, Routing, Ending, Responding,
   ResponseHook, Finishing, RefusalError, Refusing, KillError, Killing,
   RequestErrorHook, AfterRequestError, ResponseErrorHook, AfterResponseError,
   Asked, Connecting

LEMMA OpeningErrorOnly ==
  ASSUME NEW t \in OpeningError
  PROVE  t # << >> /\ t \notin (Announced \cup Beginning \cup Invalid \cup Opening
          \cup Reopening \cup Opened \cup Reopened
          \cup OpeningFailed \cup Abandoning \cup Routing
          \cup Ending \cup Responding \cup ResponseHook
          \cup Finishing \cup RefusalError \cup Refusing
          \cup KillError \cup Killing \cup RequestErrorHook
          \cup AfterRequestError \cup ResponseErrorHook
          \cup AfterResponseError \cup Asked
          \cup Connecting)
<1>1. CASE t = <<"error", "close_after_ResponseError", "abandon_request", "expect_response">>
  BY <1>1
    DEF Announced, Beginning, Invalid, Opening, Reopening, Opened, Reopened,
     OpeningError, OpeningFailed, Abandoning, Routing, Ending, Responding,
     ResponseHook, Finishing, RefusalError, Refusing, KillError, Killing,
     RequestErrorHook, AfterRequestError, ResponseErrorHook, AfterResponseError,
     Asked, Connecting
<1>2. CASE t = <<"error", "close_after_ResponseError", "abandon_request", "replay_request">>
  BY <1>2
    DEF Announced, Beginning, Invalid, Opening, Reopening, Opened, Reopened,
     OpeningError, OpeningFailed, Abandoning, Routing, Ending, Responding,
     ResponseHook, Finishing, RefusalError, Refusing, KillError, Killing,
     RequestErrorHook, AfterRequestError, ResponseErrorHook, AfterResponseError,
     Asked, Connecting
<1>3. QED
  BY <1>1, <1>2 DEF OpeningError

LEMMA OpeningFailedOnly ==
  ASSUME NEW t \in OpeningFailed
  PROVE  t # << >> /\ t \notin (Announced \cup Beginning \cup Invalid \cup Opening
          \cup Reopening \cup Opened \cup Reopened
          \cup OpeningError \cup Abandoning \cup Routing
          \cup Ending \cup Responding \cup ResponseHook
          \cup Finishing \cup RefusalError \cup Refusing
          \cup KillError \cup Killing \cup RequestErrorHook
          \cup AfterRequestError \cup ResponseErrorHook
          \cup AfterResponseError \cup Asked
          \cup Connecting)
<1>1. CASE t = <<"close_after_ResponseError", "abandon_request", "expect_response">>
  BY <1>1
    DEF Announced, Beginning, Invalid, Opening, Reopening, Opened, Reopened,
     OpeningError, OpeningFailed, Abandoning, Routing, Ending, Responding,
     ResponseHook, Finishing, RefusalError, Refusing, KillError, Killing,
     RequestErrorHook, AfterRequestError, ResponseErrorHook, AfterResponseError,
     Asked, Connecting
<1>2. CASE t = <<"close_after_ResponseError", "abandon_request", "replay_request">>
  BY <1>2
    DEF Announced, Beginning, Invalid, Opening, Reopening, Opened, Reopened,
     OpeningError, OpeningFailed, Abandoning, Routing, Ending, Responding,
     ResponseHook, Finishing, RefusalError, Refusing, KillError, Killing,
     RequestErrorHook, AfterRequestError, ResponseErrorHook, AfterResponseError,
     Asked, Connecting
<1>3. QED
  BY <1>1, <1>2 DEF OpeningFailed

LEMMA AbandoningOnly ==
  ASSUME NEW t \in Abandoning
  PROVE  t # << >> /\ t \notin (Announced \cup Beginning \cup Invalid \cup Opening
          \cup Reopening \cup Opened \cup Reopened
          \cup OpeningError \cup OpeningFailed \cup Routing
          \cup Ending \cup Responding \cup ResponseHook
          \cup Finishing \cup RefusalError \cup Refusing
          \cup KillError \cup Killing \cup RequestErrorHook
          \cup AfterRequestError \cup ResponseErrorHook
          \cup AfterResponseError \cup Asked
          \cup Connecting)
<1>1. CASE t = <<"abandon_request", "expect_response">>
  BY <1>1
    DEF Announced, Beginning, Invalid, Opening, Reopening, Opened, Reopened,
     OpeningError, OpeningFailed, Abandoning, Routing, Ending, Responding,
     ResponseHook, Finishing, RefusalError, Refusing, KillError, Killing,
     RequestErrorHook, AfterRequestError, ResponseErrorHook, AfterResponseError,
     Asked, Connecting
<1>2. CASE t = <<"abandon_request", "replay_request">>
  BY <1>2
    DEF Announced, Beginning, Invalid, Opening, Reopening, Opened, Reopened,
     OpeningError, OpeningFailed, Abandoning, Routing, Ending, Responding,
     ResponseHook, Finishing, RefusalError, Refusing, KillError, Killing,
     RequestErrorHook, AfterRequestError, ResponseErrorHook, AfterResponseError,
     Asked, Connecting
<1>3. QED
  BY <1>1, <1>2 DEF Abandoning

LEMMA RoutingOnly ==
  ASSUME NEW t \in Routing
  PROVE  t # << >> /\ t \notin (Announced \cup Beginning \cup Invalid \cup Opening
          \cup Reopening \cup Opened \cup Reopened
          \cup OpeningError \cup OpeningFailed
          \cup Abandoning \cup Ending \cup Responding
          \cup ResponseHook \cup Finishing \cup RefusalError
          \cup Refusing \cup KillError \cup Killing
          \cup RequestErrorHook \cup AfterRequestError
          \cup ResponseErrorHook \cup AfterResponseError
          \cup Asked \cup Connecting)
<1>1. CASE t = <<"request", "route_request">>
  BY <1>1
    DEF Announced, Beginning, Invalid, Opening, Reopening, Opened, Reopened,
     OpeningError, OpeningFailed, Abandoning, Routing, Ending, Responding,
     ResponseHook, Finishing, RefusalError, Refusing, KillError, Killing,
     RequestErrorHook, AfterRequestError, ResponseErrorHook, AfterResponseError,
     Asked, Connecting
<1>2. CASE t = <<"route_request">>
  BY <1>2
    DEF Announced, Beginning, Invalid, Opening, Reopening, Opened, Reopened,
     OpeningError, OpeningFailed, Abandoning, Routing, Ending, Responding,
     ResponseHook, Finishing, RefusalError, Refusing, KillError, Killing,
     RequestErrorHook, AfterRequestError, ResponseErrorHook, AfterResponseError,
     Asked, Connecting
<1>3. CASE t = <<"get_connection", "forward_request">>
  BY <1>3
    DEF Announced, Beginning, Invalid, Opening, Reopening, Opened, Reopened,
     OpeningError, OpeningFailed, Abandoning, Routing, Ending, Responding,
     ResponseHook, Finishing, RefusalError, Refusing, KillError, Killing,
     RequestErrorHook, AfterRequestError, ResponseErrorHook, AfterResponseError,
     Asked, Connecting
<1>4. CASE t = <<"forward_request">>
  BY <1>4
    DEF Announced, Beginning, Invalid, Opening, Reopening, Opened, Reopened,
     OpeningError, OpeningFailed, Abandoning, Routing, Ending, Responding,
     ResponseHook, Finishing, RefusalError, Refusing, KillError, Killing,
     RequestErrorHook, AfterRequestError, ResponseErrorHook, AfterResponseError,
     Asked, Connecting
<1>5. CASE t = <<"responseheaders", "inline_response">>
  BY <1>5
    DEF Announced, Beginning, Invalid, Opening, Reopening, Opened, Reopened,
     OpeningError, OpeningFailed, Abandoning, Routing, Ending, Responding,
     ResponseHook, Finishing, RefusalError, Refusing, KillError, Killing,
     RequestErrorHook, AfterRequestError, ResponseErrorHook, AfterResponseError,
     Asked, Connecting
<1>6. CASE t = <<"inline_response">>
  BY <1>6
    DEF Announced, Beginning, Invalid, Opening, Reopening, Opened, Reopened,
     OpeningError, OpeningFailed, Abandoning, Routing, Ending, Responding,
     ResponseHook, Finishing, RefusalError, Refusing, KillError, Killing,
     RequestErrorHook, AfterRequestError, ResponseErrorHook, AfterResponseError,
     Asked, Connecting
<1>7. QED
  BY <1>1, <1>2, <1>3, <1>4, <1>5, <1>6 DEF Routing

LEMMA EndingOnly ==
  ASSUME NEW t \in Ending
  PROVE  t # << >> /\ t \notin (Announced \cup Beginning \cup Invalid \cup Opening
          \cup Reopening \cup Opened \cup Reopened
          \cup OpeningError \cup OpeningFailed
          \cup Abandoning \cup Routing \cup Responding
          \cup ResponseHook \cup Finishing \cup RefusalError
          \cup Refusing \cup KillError \cup Killing
          \cup RequestErrorHook \cup AfterRequestError
          \cup ResponseErrorHook \cup AfterResponseError
          \cup Asked \cup Connecting)
<1>1. CASE t = <<"request", "end_request">>
  BY <1>1
    DEF Announced, Beginning, Invalid, Opening, Reopening, Opened, Reopened,
     OpeningError, OpeningFailed, Abandoning, Routing, Ending, Responding,
     ResponseHook, Finishing, RefusalError, Refusing, KillError, Killing,
     RequestErrorHook, AfterRequestError, ResponseErrorHook, AfterResponseError,
     Asked, Connecting
<1>2. CASE t = <<"end_request">>
  BY <1>2
    DEF Announced, Beginning, Invalid, Opening, Reopening, Opened, Reopened,
     OpeningError, OpeningFailed, Abandoning, Routing, Ending, Responding,
     ResponseHook, Finishing, RefusalError, Refusing, KillError, Killing,
     RequestErrorHook, AfterRequestError, ResponseErrorHook, AfterResponseError,
     Asked, Connecting
<1>3. QED
  BY <1>1, <1>2 DEF Ending

LEMMA RespondingOnly ==
  ASSUME NEW t \in Responding
  PROVE  t # << >> /\ t \notin (Announced \cup Beginning \cup Invalid \cup Opening
          \cup Reopening \cup Opened \cup Reopened
          \cup OpeningError \cup OpeningFailed
          \cup Abandoning \cup Routing \cup Ending
          \cup ResponseHook \cup Finishing \cup RefusalError
          \cup Refusing \cup KillError \cup Killing
          \cup RequestErrorHook \cup AfterRequestError
          \cup ResponseErrorHook \cup AfterResponseError
          \cup Asked \cup Connecting)
<1>1. CASE t = <<"responseheaders", "begin_response">>
  BY <1>1
    DEF Announced, Beginning, Invalid, Opening, Reopening, Opened, Reopened,
     OpeningError, OpeningFailed, Abandoning, Routing, Ending, Responding,
     ResponseHook, Finishing, RefusalError, Refusing, KillError, Killing,
     RequestErrorHook, AfterRequestError, ResponseErrorHook, AfterResponseError,
     Asked, Connecting
<1>2. CASE t = <<"begin_response">>
  BY <1>2
    DEF Announced, Beginning, Invalid, Opening, Reopening, Opened, Reopened,
     OpeningError, OpeningFailed, Abandoning, Routing, Ending, Responding,
     ResponseHook, Finishing, RefusalError, Refusing, KillError, Killing,
     RequestErrorHook, AfterRequestError, ResponseErrorHook, AfterResponseError,
     Asked, Connecting
<1>3. CASE t = <<"responseheaders", "response_too_large">>
  BY <1>3
    DEF Announced, Beginning, Invalid, Opening, Reopening, Opened, Reopened,
     OpeningError, OpeningFailed, Abandoning, Routing, Ending, Responding,
     ResponseHook, Finishing, RefusalError, Refusing, KillError, Killing,
     RequestErrorHook, AfterRequestError, ResponseErrorHook, AfterResponseError,
     Asked, Connecting
<1>4. CASE t = <<"response_too_large">>
  BY <1>4
    DEF Announced, Beginning, Invalid, Opening, Reopening, Opened, Reopened,
     OpeningError, OpeningFailed, Abandoning, Routing, Ending, Responding,
     ResponseHook, Finishing, RefusalError, Refusing, KillError, Killing,
     RequestErrorHook, AfterRequestError, ResponseErrorHook, AfterResponseError,
     Asked, Connecting
<1>5. QED
  BY <1>1, <1>2, <1>3, <1>4 DEF Responding

LEMMA ResponseHookOnly ==
  ASSUME NEW t \in ResponseHook
  PROVE  t # << >> /\ t \notin (Announced \cup Beginning \cup Invalid \cup Opening
          \cup Reopening \cup Opened \cup Reopened
          \cup OpeningError \cup OpeningFailed
          \cup Abandoning \cup Routing \cup Ending
          \cup Responding \cup Finishing \cup RefusalError
          \cup Refusing \cup KillError \cup Killing
          \cup RequestErrorHook \cup AfterRequestError
          \cup ResponseErrorHook \cup AfterResponseError
          \cup Asked \cup Connecting)
BY SMTT(40)
  DEF Announced, Beginning, Invalid, Opening, Reopening, Opened, Reopened,
   OpeningError, OpeningFailed, Abandoning, Routing, Ending, Responding,
   ResponseHook, Finishing, RefusalError, Refusing, KillError, Killing,
   RequestErrorHook, AfterRequestError, ResponseErrorHook, AfterResponseError,
   Asked, Connecting

LEMMA FinishingOnly ==
  ASSUME NEW t \in Finishing
  PROVE  t # << >> /\ t \notin (Announced \cup Beginning \cup Invalid \cup Opening
          \cup Reopening \cup Opened \cup Reopened
          \cup OpeningError \cup OpeningFailed
          \cup Abandoning \cup Routing \cup Ending
          \cup Responding \cup ResponseHook
          \cup RefusalError \cup Refusing \cup KillError
          \cup Killing \cup RequestErrorHook
          \cup AfterRequestError \cup ResponseErrorHook
          \cup AfterResponseError \cup Asked
          \cup Connecting)
BY SMTT(40)
  DEF Announced, Beginning, Invalid, Opening, Reopening, Opened, Reopened,
   OpeningError, OpeningFailed, Abandoning, Routing, Ending, Responding,
   ResponseHook, Finishing, RefusalError, Refusing, KillError, Killing,
   RequestErrorHook, AfterRequestError, ResponseErrorHook, AfterResponseError,
   Asked, Connecting

LEMMA RefusalErrorOnly ==
  ASSUME NEW t \in RefusalError
  PROVE  t # << >> /\ t \notin (Announced \cup Beginning \cup Invalid \cup Opening
          \cup Reopening \cup Opened \cup Reopened
          \cup OpeningError \cup OpeningFailed
          \cup Abandoning \cup Routing \cup Ending
          \cup Responding \cup ResponseHook \cup Finishing
          \cup Refusing \cup KillError \cup Killing
          \cup RequestErrorHook \cup AfterRequestError
          \cup ResponseErrorHook \cup AfterResponseError
          \cup Asked \cup Connecting)
BY SMTT(40)
  DEF Announced, Beginning, Invalid, Opening, Reopening, Opened, Reopened,
   OpeningError, OpeningFailed, Abandoning, Routing, Ending, Responding,
   ResponseHook, Finishing, RefusalError, Refusing, KillError, Killing,
   RequestErrorHook, AfterRequestError, ResponseErrorHook, AfterResponseError,
   Asked, Connecting

LEMMA RefusingOnly ==
  ASSUME NEW t \in Refusing
  PROVE  t # << >> /\ t \notin (Announced \cup Beginning \cup Invalid \cup Opening
          \cup Reopening \cup Opened \cup Reopened
          \cup OpeningError \cup OpeningFailed
          \cup Abandoning \cup Routing \cup Ending
          \cup Responding \cup ResponseHook \cup Finishing
          \cup RefusalError \cup KillError \cup Killing
          \cup RequestErrorHook \cup AfterRequestError
          \cup ResponseErrorHook \cup AfterResponseError
          \cup Asked \cup Connecting)
BY SMTT(40)
  DEF Announced, Beginning, Invalid, Opening, Reopening, Opened, Reopened,
   OpeningError, OpeningFailed, Abandoning, Routing, Ending, Responding,
   ResponseHook, Finishing, RefusalError, Refusing, KillError, Killing,
   RequestErrorHook, AfterRequestError, ResponseErrorHook, AfterResponseError,
   Asked, Connecting

LEMMA KillErrorOnly ==
  ASSUME NEW t \in KillError
  PROVE  t # << >> /\ t \notin (Announced \cup Beginning \cup Invalid \cup Opening
          \cup Reopening \cup Opened \cup Reopened
          \cup OpeningError \cup OpeningFailed
          \cup Abandoning \cup Routing \cup Ending
          \cup Responding \cup ResponseHook \cup Finishing
          \cup RefusalError \cup Refusing \cup Killing
          \cup RequestErrorHook \cup AfterRequestError
          \cup ResponseErrorHook \cup AfterResponseError
          \cup Asked \cup Connecting)
<1>1. CASE t = <<"error", "kill">>
  BY <1>1
    DEF Announced, Beginning, Invalid, Opening, Reopening, Opened, Reopened,
     OpeningError, OpeningFailed, Abandoning, Routing, Ending, Responding,
     ResponseHook, Finishing, RefusalError, Refusing, KillError, Killing,
     RequestErrorHook, AfterRequestError, ResponseErrorHook, AfterResponseError,
     Asked, Connecting
<1>2. CASE t = <<"error", "reject">>
  BY <1>2
    DEF Announced, Beginning, Invalid, Opening, Reopening, Opened, Reopened,
     OpeningError, OpeningFailed, Abandoning, Routing, Ending, Responding,
     ResponseHook, Finishing, RefusalError, Refusing, KillError, Killing,
     RequestErrorHook, AfterRequestError, ResponseErrorHook, AfterResponseError,
     Asked, Connecting
<1>3. CASE t = <<"error", "refuse_response">>
  BY <1>3
    DEF Announced, Beginning, Invalid, Opening, Reopening, Opened, Reopened,
     OpeningError, OpeningFailed, Abandoning, Routing, Ending, Responding,
     ResponseHook, Finishing, RefusalError, Refusing, KillError, Killing,
     RequestErrorHook, AfterRequestError, ResponseErrorHook, AfterResponseError,
     Asked, Connecting
<1>4. QED
  BY <1>1, <1>2, <1>3 DEF KillError

LEMMA KillingOnly ==
  ASSUME NEW t \in Killing
  PROVE  t # << >> /\ t \notin (Announced \cup Beginning \cup Invalid \cup Opening
          \cup Reopening \cup Opened \cup Reopened
          \cup OpeningError \cup OpeningFailed
          \cup Abandoning \cup Routing \cup Ending
          \cup Responding \cup ResponseHook \cup Finishing
          \cup RefusalError \cup Refusing \cup KillError
          \cup RequestErrorHook \cup AfterRequestError
          \cup ResponseErrorHook \cup AfterResponseError
          \cup Asked \cup Connecting)
<1>1. CASE t = <<"kill">>
  BY <1>1
    DEF Announced, Beginning, Invalid, Opening, Reopening, Opened, Reopened,
     OpeningError, OpeningFailed, Abandoning, Routing, Ending, Responding,
     ResponseHook, Finishing, RefusalError, Refusing, KillError, Killing,
     RequestErrorHook, AfterRequestError, ResponseErrorHook, AfterResponseError,
     Asked, Connecting
<1>2. CASE t = <<"reject">>
  BY <1>2
    DEF Announced, Beginning, Invalid, Opening, Reopening, Opened, Reopened,
     OpeningError, OpeningFailed, Abandoning, Routing, Ending, Responding,
     ResponseHook, Finishing, RefusalError, Refusing, KillError, Killing,
     RequestErrorHook, AfterRequestError, ResponseErrorHook, AfterResponseError,
     Asked, Connecting
<1>3. CASE t = <<"refuse_response">>
  BY <1>3
    DEF Announced, Beginning, Invalid, Opening, Reopening, Opened, Reopened,
     OpeningError, OpeningFailed, Abandoning, Routing, Ending, Responding,
     ResponseHook, Finishing, RefusalError, Refusing, KillError, Killing,
     RequestErrorHook, AfterRequestError, ResponseErrorHook, AfterResponseError,
     Asked, Connecting
<1>4. QED
  BY <1>1, <1>2, <1>3 DEF Killing

LEMMA RequestErrorHookOnly ==
  ASSUME NEW t \in RequestErrorHook
  PROVE  t # << >> /\ t \notin (Announced \cup Beginning \cup Invalid \cup Opening
          \cup Reopening \cup Opened \cup Reopened
          \cup OpeningError \cup OpeningFailed
          \cup Abandoning \cup Routing \cup Ending
          \cup Responding \cup ResponseHook \cup Finishing
          \cup RefusalError \cup Refusing \cup KillError
          \cup Killing \cup AfterRequestError
          \cup ResponseErrorHook \cup AfterResponseError
          \cup Asked \cup Connecting)
BY SMTT(40)
  DEF Announced, Beginning, Invalid, Opening, Reopening, Opened, Reopened,
   OpeningError, OpeningFailed, Abandoning, Routing, Ending, Responding,
   ResponseHook, Finishing, RefusalError, Refusing, KillError, Killing,
   RequestErrorHook, AfterRequestError, ResponseErrorHook, AfterResponseError,
   Asked, Connecting

LEMMA AfterRequestErrorOnly ==
  ASSUME NEW t \in AfterRequestError
  PROVE  t # << >> /\ t \notin (Announced \cup Beginning \cup Invalid \cup Opening
          \cup Reopening \cup Opened \cup Reopened
          \cup OpeningError \cup OpeningFailed
          \cup Abandoning \cup Routing \cup Ending
          \cup Responding \cup ResponseHook \cup Finishing
          \cup RefusalError \cup Refusing \cup KillError
          \cup Killing \cup RequestErrorHook
          \cup ResponseErrorHook \cup AfterResponseError
          \cup Asked \cup Connecting)
BY SMTT(40)
  DEF Announced, Beginning, Invalid, Opening, Reopening, Opened, Reopened,
   OpeningError, OpeningFailed, Abandoning, Routing, Ending, Responding,
   ResponseHook, Finishing, RefusalError, Refusing, KillError, Killing,
   RequestErrorHook, AfterRequestError, ResponseErrorHook, AfterResponseError,
   Asked, Connecting

LEMMA ResponseErrorHookOnly ==
  ASSUME NEW t \in ResponseErrorHook
  PROVE  t # << >> /\ t \notin (Announced \cup Beginning \cup Invalid \cup Opening
          \cup Reopening \cup Opened \cup Reopened
          \cup OpeningError \cup OpeningFailed
          \cup Abandoning \cup Routing \cup Ending
          \cup Responding \cup ResponseHook \cup Finishing
          \cup RefusalError \cup Refusing \cup KillError
          \cup Killing \cup RequestErrorHook
          \cup AfterRequestError \cup AfterResponseError
          \cup Asked \cup Connecting)
BY SMTT(40)
  DEF Announced, Beginning, Invalid, Opening, Reopening, Opened, Reopened,
   OpeningError, OpeningFailed, Abandoning, Routing, Ending, Responding,
   ResponseHook, Finishing, RefusalError, Refusing, KillError, Killing,
   RequestErrorHook, AfterRequestError, ResponseErrorHook, AfterResponseError,
   Asked, Connecting

LEMMA AfterResponseErrorOnly ==
  ASSUME NEW t \in AfterResponseError
  PROVE  t # << >> /\ t \notin (Announced \cup Beginning \cup Invalid \cup Opening
          \cup Reopening \cup Opened \cup Reopened
          \cup OpeningError \cup OpeningFailed
          \cup Abandoning \cup Routing \cup Ending
          \cup Responding \cup ResponseHook \cup Finishing
          \cup RefusalError \cup Refusing \cup KillError
          \cup Killing \cup RequestErrorHook
          \cup AfterRequestError \cup ResponseErrorHook
          \cup Asked \cup Connecting)
BY SMTT(40)
  DEF Announced, Beginning, Invalid, Opening, Reopening, Opened, Reopened,
   OpeningError, OpeningFailed, Abandoning, Routing, Ending, Responding,
   ResponseHook, Finishing, RefusalError, Refusing, KillError, Killing,
   RequestErrorHook, AfterRequestError, ResponseErrorHook, AfterResponseError,
   Asked, Connecting

LEMMA AskedOnly ==
  ASSUME NEW t \in Asked
  PROVE  t # << >> /\ t \notin (Announced \cup Beginning \cup Invalid \cup Opening
          \cup Reopening \cup Opened \cup Reopened
          \cup OpeningError \cup OpeningFailed
          \cup Abandoning \cup Routing \cup Ending
          \cup Responding \cup ResponseHook \cup Finishing
          \cup RefusalError \cup Refusing \cup KillError
          \cup Killing \cup RequestErrorHook
          \cup AfterRequestError \cup ResponseErrorHook
          \cup AfterResponseError \cup Connecting)
BY SMTT(40)
  DEF Announced, Beginning, Invalid, Opening, Reopening, Opened, Reopened,
   OpeningError, OpeningFailed, Abandoning, Routing, Ending, Responding,
   ResponseHook, Finishing, RefusalError, Refusing, KillError, Killing,
   RequestErrorHook, AfterRequestError, ResponseErrorHook, AfterResponseError,
   Asked, Connecting

LEMMA ConnectingOnly ==
  ASSUME NEW t \in Connecting
  PROVE  t # << >> /\ t \notin (Announced \cup Beginning \cup Invalid \cup Opening
          \cup Reopening \cup Opened \cup Reopened
          \cup OpeningError \cup OpeningFailed
          \cup Abandoning \cup Routing \cup Ending
          \cup Responding \cup ResponseHook \cup Finishing
          \cup RefusalError \cup Refusing \cup KillError
          \cup Killing \cup RequestErrorHook
          \cup AfterRequestError \cup ResponseErrorHook
          \cup AfterResponseError \cup Asked)
<1>1. CASE t = <<"handle_connect">>
  BY <1>1
    DEF Announced, Beginning, Invalid, Opening, Reopening, Opened, Reopened,
     OpeningError, OpeningFailed, Abandoning, Routing, Ending, Responding,
     ResponseHook, Finishing, RefusalError, Refusing, KillError, Killing,
     RequestErrorHook, AfterRequestError, ResponseErrorHook, AfterResponseError,
     Asked, Connecting
<1>2. CASE t = <<"open_connection", "finish_connect">>
  BY <1>2
    DEF Announced, Beginning, Invalid, Opening, Reopening, Opened, Reopened,
     OpeningError, OpeningFailed, Abandoning, Routing, Ending, Responding,
     ResponseHook, Finishing, RefusalError, Refusing, KillError, Killing,
     RequestErrorHook, AfterRequestError, ResponseErrorHook, AfterResponseError,
     Asked, Connecting
<1>3. CASE t = <<"finish_connect">>
  BY <1>3
    DEF Announced, Beginning, Invalid, Opening, Reopening, Opened, Reopened,
     OpeningError, OpeningFailed, Abandoning, Routing, Ending, Responding,
     ResponseHook, Finishing, RefusalError, Refusing, KillError, Killing,
     RequestErrorHook, AfterRequestError, ResponseErrorHook, AfterResponseError,
     Asked, Connecting
<1>4. CASE t = <<"http_connected", "tunnel">>
  BY <1>4
    DEF Announced, Beginning, Invalid, Opening, Reopening, Opened, Reopened,
     OpeningError, OpeningFailed, Abandoning, Routing, Ending, Responding,
     ResponseHook, Finishing, RefusalError, Refusing, KillError, Killing,
     RequestErrorHook, AfterRequestError, ResponseErrorHook, AfterResponseError,
     Asked, Connecting
<1>5. CASE t = <<"tunnel">>
  BY <1>5
    DEF Announced, Beginning, Invalid, Opening, Reopening, Opened, Reopened,
     OpeningError, OpeningFailed, Abandoning, Routing, Ending, Responding,
     ResponseHook, Finishing, RefusalError, Refusing, KillError, Killing,
     RequestErrorHook, AfterRequestError, ResponseErrorHook, AfterResponseError,
     Asked, Connecting
<1>6. CASE t = <<"http_connect_error", "refuse_connect">>
  BY <1>6
    DEF Announced, Beginning, Invalid, Opening, Reopening, Opened, Reopened,
     OpeningError, OpeningFailed, Abandoning, Routing, Ending, Responding,
     ResponseHook, Finishing, RefusalError, Refusing, KillError, Killing,
     RequestErrorHook, AfterRequestError, ResponseErrorHook, AfterResponseError,
     Asked, Connecting
<1>7. CASE t = <<"refuse_connect">>
  BY <1>7
    DEF Announced, Beginning, Invalid, Opening, Reopening, Opened, Reopened,
     OpeningError, OpeningFailed, Abandoning, Routing, Ending, Responding,
     ResponseHook, Finishing, RefusalError, Refusing, KillError, Killing,
     RequestErrorHook, AfterRequestError, ResponseErrorHook, AfterResponseError,
     Asked, Connecting
<1>8. QED
  BY <1>1, <1>2, <1>3, <1>4, <1>5, <1>6, <1>7 DEF Connecting

LEMMA ProgramsAreSteps == Programs \subseteq Seq(Steps)
BY DEF Programs, Working, Undecided, Deciding, Concluding, Announced, Beginning,
   Invalid, Opening, Reopening, Opened, Reopened, OpeningError, OpeningFailed,
   Abandoning, Routing, Ending, Responding, ResponseHook, Finishing,
   RefusalError, Refusing, KillError, Killing, RequestErrorHook,
   AfterRequestError, ResponseErrorHook, AfterResponseError, Asked, Connecting,
   Steps, Blocking, Hooks, Checked, CheckedLoudly, CheckedQuietly

LEMMA Whereabouts ==
  ASSUME NEW t \in Programs, t # << >>
  PROVE  /\ Head(t) = "requestheaders" => t \in {<<"requestheaders", "begin_request">>, <<"requestheaders", "request_too_large">>, <<"requestheaders", "error", "reject">>}
         /\ Head(t) = "begin_request" => t \in {<<"begin_request">>}
         /\ Head(t) = "request_too_large" => t \in {<<"request_too_large">>}
         /\ Head(t) = "get_connection" => t \in {<<"get_connection", "stream_request", "expect_response">>, <<"get_connection", "stream_request", "replay_request">>, <<"get_connection", "forward_request">>}
         /\ Head(t) = "stream_request" => t \in {<<"stream_request", "expect_response">>, <<"stream_request", "replay_request">>}
         /\ Head(t) = "expect_response" => t \in {<<"expect_response">>}
         /\ Head(t) = "replay_request" => t \in {<<"replay_request">>}
         /\ Head(t) = "error" => t \in {<<"error", "close_after_ResponseError", "abandon_request", "expect_response">>, <<"error", "close_after_ResponseError", "abandon_request", "replay_request">>, <<"error", "refuse_request">>, <<"error", "kill">>, <<"error", "reject">>, <<"error", "refuse_response">>, <<"error", "close_after_RequestError">>, <<"error", "close_after_ResponseError">>}
         /\ Head(t) = "close_after_ResponseError" => t \in {<<"close_after_ResponseError", "abandon_request", "expect_response">>, <<"close_after_ResponseError", "abandon_request", "replay_request">>, <<"close_after_ResponseError">>}
         /\ Head(t) = "abandon_request" => t \in {<<"abandon_request", "expect_response">>, <<"abandon_request", "replay_request">>}
         /\ Head(t) = "request" => t \in {<<"request", "route_request">>, <<"request", "end_request">>}
         /\ Head(t) = "route_request" => t \in {<<"route_request">>}
         /\ Head(t) = "forward_request" => t \in {<<"forward_request">>}
         /\ Head(t) = "responseheaders" => t \in {<<"responseheaders", "inline_response">>, <<"responseheaders", "begin_response">>, <<"responseheaders", "response_too_large">>}
         /\ Head(t) = "inline_response" => t \in {<<"inline_response">>}
         /\ Head(t) = "end_request" => t \in {<<"end_request">>}
         /\ Head(t) = "begin_response" => t \in {<<"begin_response">>}
         /\ Head(t) = "response_too_large" => t \in {<<"response_too_large">>}
         /\ Head(t) = "response" => t \in {<<"response", "finish_response">>}
         /\ Head(t) = "finish_response" => t \in {<<"finish_response">>}
         /\ Head(t) = "refuse_request" => t \in {<<"refuse_request">>}
         /\ Head(t) = "kill" => t \in {<<"kill">>}
         /\ Head(t) = "reject" => t \in {<<"reject">>}
         /\ Head(t) = "refuse_response" => t \in {<<"refuse_response">>}
         /\ Head(t) = "close_after_RequestError" => t \in {<<"close_after_RequestError">>}
         /\ Head(t) = "http_connect" => t \in {<<"http_connect", "handle_connect">>}
         /\ Head(t) = "handle_connect" => t \in {<<"handle_connect">>}
         /\ Head(t) = "open_connection" => t \in {<<"open_connection", "finish_connect">>}
         /\ Head(t) = "finish_connect" => t \in {<<"finish_connect">>}
         /\ Head(t) = "http_connected" => t \in {<<"http_connected", "tunnel">>}
         /\ Head(t) = "tunnel" => t \in {<<"tunnel">>}
         /\ Head(t) = "http_connect_error" => t \in {<<"http_connect_error", "refuse_connect">>}
         /\ Head(t) = "refuse_connect" => t \in {<<"refuse_connect">>}
<1>1. ASSUME Head(t) = "requestheaders"
      PROVE  t \in {<<"requestheaders", "begin_request">>, <<"requestheaders", "request_too_large">>, <<"requestheaders", "error", "reject">>}
  BY <1>1
    DEF Programs, Working, Undecided, Deciding, Concluding, Announced,
     Beginning, Invalid, Opening, Reopening, Opened, Reopened, OpeningError,
     OpeningFailed, Abandoning, Routing, Ending, Responding, ResponseHook,
     Finishing, RefusalError, Refusing, KillError, Killing, RequestErrorHook,
     AfterRequestError, ResponseErrorHook, AfterResponseError, Asked, Connecting
<1>2. ASSUME Head(t) = "begin_request"
      PROVE  t \in {<<"begin_request">>}
  BY <1>2
    DEF Programs, Working, Undecided, Deciding, Concluding, Announced,
     Beginning, Invalid, Opening, Reopening, Opened, Reopened, OpeningError,
     OpeningFailed, Abandoning, Routing, Ending, Responding, ResponseHook,
     Finishing, RefusalError, Refusing, KillError, Killing, RequestErrorHook,
     AfterRequestError, ResponseErrorHook, AfterResponseError, Asked, Connecting
<1>3. ASSUME Head(t) = "request_too_large"
      PROVE  t \in {<<"request_too_large">>}
  BY <1>3
    DEF Programs, Working, Undecided, Deciding, Concluding, Announced,
     Beginning, Invalid, Opening, Reopening, Opened, Reopened, OpeningError,
     OpeningFailed, Abandoning, Routing, Ending, Responding, ResponseHook,
     Finishing, RefusalError, Refusing, KillError, Killing, RequestErrorHook,
     AfterRequestError, ResponseErrorHook, AfterResponseError, Asked, Connecting
<1>4. ASSUME Head(t) = "get_connection"
      PROVE  t \in {<<"get_connection", "stream_request", "expect_response">>, <<"get_connection", "stream_request", "replay_request">>, <<"get_connection", "forward_request">>}
  BY <1>4
    DEF Programs, Working, Undecided, Deciding, Concluding, Announced,
     Beginning, Invalid, Opening, Reopening, Opened, Reopened, OpeningError,
     OpeningFailed, Abandoning, Routing, Ending, Responding, ResponseHook,
     Finishing, RefusalError, Refusing, KillError, Killing, RequestErrorHook,
     AfterRequestError, ResponseErrorHook, AfterResponseError, Asked, Connecting
<1>5. ASSUME Head(t) = "stream_request"
      PROVE  t \in {<<"stream_request", "expect_response">>, <<"stream_request", "replay_request">>}
  BY <1>5
    DEF Programs, Working, Undecided, Deciding, Concluding, Announced,
     Beginning, Invalid, Opening, Reopening, Opened, Reopened, OpeningError,
     OpeningFailed, Abandoning, Routing, Ending, Responding, ResponseHook,
     Finishing, RefusalError, Refusing, KillError, Killing, RequestErrorHook,
     AfterRequestError, ResponseErrorHook, AfterResponseError, Asked, Connecting
<1>6. ASSUME Head(t) = "expect_response"
      PROVE  t \in {<<"expect_response">>}
  BY <1>6
    DEF Programs, Working, Undecided, Deciding, Concluding, Announced,
     Beginning, Invalid, Opening, Reopening, Opened, Reopened, OpeningError,
     OpeningFailed, Abandoning, Routing, Ending, Responding, ResponseHook,
     Finishing, RefusalError, Refusing, KillError, Killing, RequestErrorHook,
     AfterRequestError, ResponseErrorHook, AfterResponseError, Asked, Connecting
<1>7. ASSUME Head(t) = "replay_request"
      PROVE  t \in {<<"replay_request">>}
  BY <1>7
    DEF Programs, Working, Undecided, Deciding, Concluding, Announced,
     Beginning, Invalid, Opening, Reopening, Opened, Reopened, OpeningError,
     OpeningFailed, Abandoning, Routing, Ending, Responding, ResponseHook,
     Finishing, RefusalError, Refusing, KillError, Killing, RequestErrorHook,
     AfterRequestError, ResponseErrorHook, AfterResponseError, Asked, Connecting
<1>8. ASSUME Head(t) = "error"
      PROVE  t \in {<<"error", "close_after_ResponseError", "abandon_request", "expect_response">>, <<"error", "close_after_ResponseError", "abandon_request", "replay_request">>, <<"error", "refuse_request">>, <<"error", "kill">>, <<"error", "reject">>, <<"error", "refuse_response">>, <<"error", "close_after_RequestError">>, <<"error", "close_after_ResponseError">>}
  BY <1>8
    DEF Programs, Working, Undecided, Deciding, Concluding, Announced,
     Beginning, Invalid, Opening, Reopening, Opened, Reopened, OpeningError,
     OpeningFailed, Abandoning, Routing, Ending, Responding, ResponseHook,
     Finishing, RefusalError, Refusing, KillError, Killing, RequestErrorHook,
     AfterRequestError, ResponseErrorHook, AfterResponseError, Asked, Connecting
<1>9. ASSUME Head(t) = "close_after_ResponseError"
      PROVE  t \in {<<"close_after_ResponseError", "abandon_request", "expect_response">>, <<"close_after_ResponseError", "abandon_request", "replay_request">>, <<"close_after_ResponseError">>}
  BY <1>9
    DEF Programs, Working, Undecided, Deciding, Concluding, Announced,
     Beginning, Invalid, Opening, Reopening, Opened, Reopened, OpeningError,
     OpeningFailed, Abandoning, Routing, Ending, Responding, ResponseHook,
     Finishing, RefusalError, Refusing, KillError, Killing, RequestErrorHook,
     AfterRequestError, ResponseErrorHook, AfterResponseError, Asked, Connecting
<1>10. ASSUME Head(t) = "abandon_request"
      PROVE  t \in {<<"abandon_request", "expect_response">>, <<"abandon_request", "replay_request">>}
  BY <1>10
    DEF Programs, Working, Undecided, Deciding, Concluding, Announced,
     Beginning, Invalid, Opening, Reopening, Opened, Reopened, OpeningError,
     OpeningFailed, Abandoning, Routing, Ending, Responding, ResponseHook,
     Finishing, RefusalError, Refusing, KillError, Killing, RequestErrorHook,
     AfterRequestError, ResponseErrorHook, AfterResponseError, Asked, Connecting
<1>11. ASSUME Head(t) = "request"
      PROVE  t \in {<<"request", "route_request">>, <<"request", "end_request">>}
  BY <1>11
    DEF Programs, Working, Undecided, Deciding, Concluding, Announced,
     Beginning, Invalid, Opening, Reopening, Opened, Reopened, OpeningError,
     OpeningFailed, Abandoning, Routing, Ending, Responding, ResponseHook,
     Finishing, RefusalError, Refusing, KillError, Killing, RequestErrorHook,
     AfterRequestError, ResponseErrorHook, AfterResponseError, Asked, Connecting
<1>12. ASSUME Head(t) = "route_request"
      PROVE  t \in {<<"route_request">>}
  BY <1>12
    DEF Programs, Working, Undecided, Deciding, Concluding, Announced,
     Beginning, Invalid, Opening, Reopening, Opened, Reopened, OpeningError,
     OpeningFailed, Abandoning, Routing, Ending, Responding, ResponseHook,
     Finishing, RefusalError, Refusing, KillError, Killing, RequestErrorHook,
     AfterRequestError, ResponseErrorHook, AfterResponseError, Asked, Connecting
<1>13. ASSUME Head(t) = "forward_request"
      PROVE  t \in {<<"forward_request">>}
  BY <1>13
    DEF Programs, Working, Undecided, Deciding, Concluding, Announced,
     Beginning, Invalid, Opening, Reopening, Opened, Reopened, OpeningError,
     OpeningFailed, Abandoning, Routing, Ending, Responding, ResponseHook,
     Finishing, RefusalError, Refusing, KillError, Killing, RequestErrorHook,
     AfterRequestError, ResponseErrorHook, AfterResponseError, Asked, Connecting
<1>14. ASSUME Head(t) = "responseheaders"
      PROVE  t \in {<<"responseheaders", "inline_response">>, <<"responseheaders", "begin_response">>, <<"responseheaders", "response_too_large">>}
  BY <1>14
    DEF Programs, Working, Undecided, Deciding, Concluding, Announced,
     Beginning, Invalid, Opening, Reopening, Opened, Reopened, OpeningError,
     OpeningFailed, Abandoning, Routing, Ending, Responding, ResponseHook,
     Finishing, RefusalError, Refusing, KillError, Killing, RequestErrorHook,
     AfterRequestError, ResponseErrorHook, AfterResponseError, Asked, Connecting
<1>15. ASSUME Head(t) = "inline_response"
      PROVE  t \in {<<"inline_response">>}
  BY <1>15
    DEF Programs, Working, Undecided, Deciding, Concluding, Announced,
     Beginning, Invalid, Opening, Reopening, Opened, Reopened, OpeningError,
     OpeningFailed, Abandoning, Routing, Ending, Responding, ResponseHook,
     Finishing, RefusalError, Refusing, KillError, Killing, RequestErrorHook,
     AfterRequestError, ResponseErrorHook, AfterResponseError, Asked, Connecting
<1>16. ASSUME Head(t) = "end_request"
      PROVE  t \in {<<"end_request">>}
  BY <1>16
    DEF Programs, Working, Undecided, Deciding, Concluding, Announced,
     Beginning, Invalid, Opening, Reopening, Opened, Reopened, OpeningError,
     OpeningFailed, Abandoning, Routing, Ending, Responding, ResponseHook,
     Finishing, RefusalError, Refusing, KillError, Killing, RequestErrorHook,
     AfterRequestError, ResponseErrorHook, AfterResponseError, Asked, Connecting
<1>17. ASSUME Head(t) = "begin_response"
      PROVE  t \in {<<"begin_response">>}
  BY <1>17
    DEF Programs, Working, Undecided, Deciding, Concluding, Announced,
     Beginning, Invalid, Opening, Reopening, Opened, Reopened, OpeningError,
     OpeningFailed, Abandoning, Routing, Ending, Responding, ResponseHook,
     Finishing, RefusalError, Refusing, KillError, Killing, RequestErrorHook,
     AfterRequestError, ResponseErrorHook, AfterResponseError, Asked, Connecting
<1>18. ASSUME Head(t) = "response_too_large"
      PROVE  t \in {<<"response_too_large">>}
  BY <1>18
    DEF Programs, Working, Undecided, Deciding, Concluding, Announced,
     Beginning, Invalid, Opening, Reopening, Opened, Reopened, OpeningError,
     OpeningFailed, Abandoning, Routing, Ending, Responding, ResponseHook,
     Finishing, RefusalError, Refusing, KillError, Killing, RequestErrorHook,
     AfterRequestError, ResponseErrorHook, AfterResponseError, Asked, Connecting
<1>19. ASSUME Head(t) = "response"
      PROVE  t \in {<<"response", "finish_response">>}
  BY <1>19
    DEF Programs, Working, Undecided, Deciding, Concluding, Announced,
     Beginning, Invalid, Opening, Reopening, Opened, Reopened, OpeningError,
     OpeningFailed, Abandoning, Routing, Ending, Responding, ResponseHook,
     Finishing, RefusalError, Refusing, KillError, Killing, RequestErrorHook,
     AfterRequestError, ResponseErrorHook, AfterResponseError, Asked, Connecting
<1>20. ASSUME Head(t) = "finish_response"
      PROVE  t \in {<<"finish_response">>}
  BY <1>20
    DEF Programs, Working, Undecided, Deciding, Concluding, Announced,
     Beginning, Invalid, Opening, Reopening, Opened, Reopened, OpeningError,
     OpeningFailed, Abandoning, Routing, Ending, Responding, ResponseHook,
     Finishing, RefusalError, Refusing, KillError, Killing, RequestErrorHook,
     AfterRequestError, ResponseErrorHook, AfterResponseError, Asked, Connecting
<1>21. ASSUME Head(t) = "refuse_request"
      PROVE  t \in {<<"refuse_request">>}
  BY <1>21
    DEF Programs, Working, Undecided, Deciding, Concluding, Announced,
     Beginning, Invalid, Opening, Reopening, Opened, Reopened, OpeningError,
     OpeningFailed, Abandoning, Routing, Ending, Responding, ResponseHook,
     Finishing, RefusalError, Refusing, KillError, Killing, RequestErrorHook,
     AfterRequestError, ResponseErrorHook, AfterResponseError, Asked, Connecting
<1>22. ASSUME Head(t) = "kill"
      PROVE  t \in {<<"kill">>}
  BY <1>22
    DEF Programs, Working, Undecided, Deciding, Concluding, Announced,
     Beginning, Invalid, Opening, Reopening, Opened, Reopened, OpeningError,
     OpeningFailed, Abandoning, Routing, Ending, Responding, ResponseHook,
     Finishing, RefusalError, Refusing, KillError, Killing, RequestErrorHook,
     AfterRequestError, ResponseErrorHook, AfterResponseError, Asked, Connecting
<1>23. ASSUME Head(t) = "reject"
      PROVE  t \in {<<"reject">>}
  BY <1>23
    DEF Programs, Working, Undecided, Deciding, Concluding, Announced,
     Beginning, Invalid, Opening, Reopening, Opened, Reopened, OpeningError,
     OpeningFailed, Abandoning, Routing, Ending, Responding, ResponseHook,
     Finishing, RefusalError, Refusing, KillError, Killing, RequestErrorHook,
     AfterRequestError, ResponseErrorHook, AfterResponseError, Asked, Connecting
<1>24. ASSUME Head(t) = "refuse_response"
      PROVE  t \in {<<"refuse_response">>}
  BY <1>24
    DEF Programs, Working, Undecided, Deciding, Concluding, Announced,
     Beginning, Invalid, Opening, Reopening, Opened, Reopened, OpeningError,
     OpeningFailed, Abandoning, Routing, Ending, Responding, ResponseHook,
     Finishing, RefusalError, Refusing, KillError, Killing, RequestErrorHook,
     AfterRequestError, ResponseErrorHook, AfterResponseError, Asked, Connecting
<1>25. ASSUME Head(t) = "close_after_RequestError"
      PROVE  t \in {<<"close_after_RequestError">>}
  BY <1>25
    DEF Programs, Working, Undecided, Deciding, Concluding, Announced,
     Beginning, Invalid, Opening, Reopening, Opened, Reopened, OpeningError,
     OpeningFailed, Abandoning, Routing, Ending, Responding, ResponseHook,
     Finishing, RefusalError, Refusing, KillError, Killing, RequestErrorHook,
     AfterRequestError, ResponseErrorHook, AfterResponseError, Asked, Connecting
<1>26. ASSUME Head(t) = "http_connect"
      PROVE  t \in {<<"http_connect", "handle_connect">>}
  BY <1>26
    DEF Programs, Working, Undecided, Deciding, Concluding, Announced,
     Beginning, Invalid, Opening, Reopening, Opened, Reopened, OpeningError,
     OpeningFailed, Abandoning, Routing, Ending, Responding, ResponseHook,
     Finishing, RefusalError, Refusing, KillError, Killing, RequestErrorHook,
     AfterRequestError, ResponseErrorHook, AfterResponseError, Asked, Connecting
<1>27. ASSUME Head(t) = "handle_connect"
      PROVE  t \in {<<"handle_connect">>}
  BY <1>27
    DEF Programs, Working, Undecided, Deciding, Concluding, Announced,
     Beginning, Invalid, Opening, Reopening, Opened, Reopened, OpeningError,
     OpeningFailed, Abandoning, Routing, Ending, Responding, ResponseHook,
     Finishing, RefusalError, Refusing, KillError, Killing, RequestErrorHook,
     AfterRequestError, ResponseErrorHook, AfterResponseError, Asked, Connecting
<1>28. ASSUME Head(t) = "open_connection"
      PROVE  t \in {<<"open_connection", "finish_connect">>}
  BY <1>28
    DEF Programs, Working, Undecided, Deciding, Concluding, Announced,
     Beginning, Invalid, Opening, Reopening, Opened, Reopened, OpeningError,
     OpeningFailed, Abandoning, Routing, Ending, Responding, ResponseHook,
     Finishing, RefusalError, Refusing, KillError, Killing, RequestErrorHook,
     AfterRequestError, ResponseErrorHook, AfterResponseError, Asked, Connecting
<1>29. ASSUME Head(t) = "finish_connect"
      PROVE  t \in {<<"finish_connect">>}
  BY <1>29
    DEF Programs, Working, Undecided, Deciding, Concluding, Announced,
     Beginning, Invalid, Opening, Reopening, Opened, Reopened, OpeningError,
     OpeningFailed, Abandoning, Routing, Ending, Responding, ResponseHook,
     Finishing, RefusalError, Refusing, KillError, Killing, RequestErrorHook,
     AfterRequestError, ResponseErrorHook, AfterResponseError, Asked, Connecting
<1>30. ASSUME Head(t) = "http_connected"
      PROVE  t \in {<<"http_connected", "tunnel">>}
  BY <1>30
    DEF Programs, Working, Undecided, Deciding, Concluding, Announced,
     Beginning, Invalid, Opening, Reopening, Opened, Reopened, OpeningError,
     OpeningFailed, Abandoning, Routing, Ending, Responding, ResponseHook,
     Finishing, RefusalError, Refusing, KillError, Killing, RequestErrorHook,
     AfterRequestError, ResponseErrorHook, AfterResponseError, Asked, Connecting
<1>31. ASSUME Head(t) = "tunnel"
      PROVE  t \in {<<"tunnel">>}
  BY <1>31
    DEF Programs, Working, Undecided, Deciding, Concluding, Announced,
     Beginning, Invalid, Opening, Reopening, Opened, Reopened, OpeningError,
     OpeningFailed, Abandoning, Routing, Ending, Responding, ResponseHook,
     Finishing, RefusalError, Refusing, KillError, Killing, RequestErrorHook,
     AfterRequestError, ResponseErrorHook, AfterResponseError, Asked, Connecting
<1>32. ASSUME Head(t) = "http_connect_error"
      PROVE  t \in {<<"http_connect_error", "refuse_connect">>}
  BY <1>32
    DEF Programs, Working, Undecided, Deciding, Concluding, Announced,
     Beginning, Invalid, Opening, Reopening, Opened, Reopened, OpeningError,
     OpeningFailed, Abandoning, Routing, Ending, Responding, ResponseHook,
     Finishing, RefusalError, Refusing, KillError, Killing, RequestErrorHook,
     AfterRequestError, ResponseErrorHook, AfterResponseError, Asked, Connecting
<1>33. ASSUME Head(t) = "refuse_connect"
      PROVE  t \in {<<"refuse_connect">>}
  BY <1>33
    DEF Programs, Working, Undecided, Deciding, Concluding, Announced,
     Beginning, Invalid, Opening, Reopening, Opened, Reopened, OpeningError,
     OpeningFailed, Abandoning, Routing, Ending, Responding, ResponseHook,
     Finishing, RefusalError, Refusing, KillError, Killing, RequestErrorHook,
     AfterRequestError, ResponseErrorHook, AfterResponseError, Asked, Connecting
<1>34. QED
  BY <1>1, <1>2, <1>3, <1>4, <1>5, <1>6, <1>7, <1>8, <1>9, <1>10, <1>11, <1>12,
     <1>13, <1>14, <1>15, <1>16, <1>17, <1>18, <1>19, <1>20, <1>21, <1>22,
     <1>23, <1>24, <1>25, <1>26, <1>27, <1>28, <1>29, <1>30, <1>31, <1>32, <1>33

LEMMA PausedAt ==
  ASSUME NEW t \in Programs, t # << >>, Head(t) \in Blocking
  PROVE  t \notin Opened \cup Reopened /\ (t \in Ending => t = <<"request", "end_request">>)
BY DEF Opened, Reopened, Ending, Blocking, Hooks

LEMMA CountTaking ==
  ASSUME NEW q \in Seq(Events), q # << >>, NEW f
  PROVE  /\ Count(q, f) \in Nat /\ Count(Tail(q), f) \in Nat
         /\ Head(q) = f => Count(q, f) = Count(Tail(q), f) + 1
         /\ Head(q) # f => Count(q, f) = Count(Tail(q), f)
         /\ Count(Tail(q), f) <= Count(q, f)
<1>1. Tail(q) \in Seq(Events)
  OBVIOUS
<1>2. Count(q, f) \in Nat /\ Count(Tail(q), f) \in Nat
  BY <1>1, CountIsNat
<1>3. Count(q, f) = IF Head(q) = f THEN Count(Tail(q), f) + 1 ELSE Count(Tail(q), f)
  BY CountTail
<1>4. QED
  BY <1>2, <1>3

LEMMA CountPutting ==
  ASSUME NEW q \in Seq(Events), NEW e \in Events, NEW f
  PROVE  /\ Count(q, f) \in Nat /\ Count(Append(q, e), f) \in Nat
         /\ e = f => Count(Append(q, e), f) = Count(q, f) + 1
         /\ e # f => Count(Append(q, e), f) = Count(q, f)
<1>1. Append(q, e) \in Seq(Events)
  OBVIOUS
<1>2. Count(q, f) \in Nat /\ Count(Append(q, e), f) \in Nat
  BY <1>1, CountIsNat
<1>3. Count(Append(q, e), f) = IF e = f THEN Count(q, f) + 1 ELSE Count(q, f)
  BY CountAppend
<1>4. QED
  BY <1>2, <1>3

LEMMA Thens ==
  ASSUME NEW t \in Programs, t # << >>
  PROVE  << >> \o Tail(t) = Tail(t)
<1>1. Tail(t) \in Seq(Steps)
  BY ProgramsAreSteps
<1>2. QED
  BY <1>1, ConcatEmptySeq

LEMMA Alone ==
  ASSUME NEW x, NEW S, NEW s \in Seq(S)
  PROVE  s \o Tail(<<x>>) = s
<1>1. Tail(<<x>>) = << >>
  OBVIOUS
<1>2. QED
  BY <1>1, ConcatEmptySeq

LEMMA Adding ==
  ASSUME NEW S, NEW s \in Seq(S), NEW t \in Seq(S)
  PROVE  s \o t \in Seq(S) /\ Range(s \o t) = Range(s) \cup Range(t)
BY ConcatProperties, RangeConcat

LEMMA HookRuns ==
  ASSUME NEW s \in Seq(Hooks), NEW h \in Hooks
  PROVE  /\ Append(s, h) \in Seq(Hooks) /\ Append(s, h) # << >>
         /\ Range(Append(s, h)) = Range(s) \cup {h}
         /\ Count(s, "error") + Count(s, "response") \in Nat
         /\ h \in {"error", "response"} =>
              Count(Append(s, h), "error") + Count(Append(s, h), "response") =
                Count(s, "error") + Count(s, "response") + 1
         /\ h \notin {"error", "response"} =>
              Count(Append(s, h), "error") + Count(Append(s, h), "response") =
                Count(s, "error") + Count(s, "response")
<1>1. Append(s, h) \in Seq(Hooks) /\ Append(s, h) # << >>
  BY AppendProperties
<1>2. Range(Append(s, h)) = Range(s) \cup {h}
  BY RangeAppend
<1>3. /\ Count(s, "error") \in Nat /\ Count(s, "response") \in Nat
  BY CountIsNat
<1>4. /\ Count(Append(s, h), "error") = IF h = "error" THEN Count(s, "error") + 1
                                                      ELSE Count(s, "error")
      /\ Count(Append(s, h), "response") = IF h = "response" THEN Count(s, "response") + 1
                                                            ELSE Count(s, "response")
  BY CountAppend
<1>5. QED
  BY <1>1, <1>2, <1>3, <1>4

LEMMA ChangedHow ==
  ASSUME flow \in Flows, NEW h, NEW f \in Changed(h)
  PROVE  /\ f \in Flows /\ f.live = flow.live
         /\ "request" \in flow.stream => "request" \in f.stream
<1>1. CASE f = flow
  BY <1>1
<1>2. CASE h = "requestheaders" /\ "request" \notin flow.stream
  <2>1. \/ f = flow
        \/ f = [flow EXCEPT !.stream = {"request"}]
        \/ f = [flow EXCEPT !.response = "plain"]
    BY <1>2 DEF Changed
  <2>2. QED
    BY <1>1, <2>1 DEF Flows, Sides
<1>3. CASE h \in {"request", "http_connect"}
  <2>1. f = flow \/ f = [flow EXCEPT !.response = "plain"]
    BY <1>3 DEF Changed
  <2>2. QED
    BY <1>1, <2>1 DEF Flows
<1>4. CASE h = "responseheaders"
  <2>1. f = flow \/ f = [flow EXCEPT !.stream = @ \cup {"response"}]
    BY <1>4 DEF Changed
  <2>2. QED
    BY <1>1, <2>1 DEF Flows, Sides
<1>5. CASE h \notin {"requestheaders", "request", "http_connect", "responseheaders"}
  BY <1>1, <1>5 DEF Changed
<1>6. CASE h = "requestheaders" /\ "request" \in flow.stream
  BY <1>1, <1>6 DEF Changed
<1>7. QED
  BY <1>2, <1>3, <1>4, <1>5, <1>6

LEMMA OutcomesAreNat == hooks \in Seq(Hooks) => Outcomes \in Nat
<1>1. ASSUME hooks \in Seq(Hooks)
      PROVE  Count(hooks, "error") \in Nat /\ Count(hooks, "response") \in Nat
  BY <1>1, CountIsNat
<1>2. QED
  BY <1>1 DEF Outcomes

-----------------------------------------------------------------------------
(* What is sent. *)
ToServer == RequestEvents \cup {"RequestError"}
ToClient == ResponseEvents \cup {"ResponseError"}

LEMMA CopiesAmong ==
  ASSUME NEW S, NEW e \in S, NEW n \in Nat
  PROVE  Copies(e, n) \in Seq(S) /\ Range(Copies(e, n)) \subseteq {e}
<1>1. Copies(e, n) \in Seq(S)
  BY DEF Copies
<1>2. QED
  BY <1>1, CopiesAreSequences

LEMMA TrailersAmong ==
  ASSUME NEW S, NEW e \in S, NEW side
  PROVE  Trailers(e, side) \in Seq(S) /\ Range(Trailers(e, side)) \subseteq {e}
BY RangeEmpty, RangeOne DEF Trailers

LEMMA Sends ==
  ASSUME NEW s \in Seq(ToServer), NEW e \in ToServer
  PROVE  /\ Append(s, e) \in Seq(ToServer)
         /\ e # "RequestHeaders" =>
              (Has(Append(s, e), "RequestHeaders") <=> Has(s, "RequestHeaders"))
         /\ e = "RequestHeaders" => Has(Append(s, e), "RequestHeaders")
<1>1. Append(s, e) \in Seq(ToServer)
  OBVIOUS
<1>2. Range(Append(s, e)) = Range(s) \cup {e}
  BY RangeAppend
<1>3. QED
  BY <1>1, <1>2 DEF Has

LEMMA Replays ==
  ASSUME NEW s \in Seq(ToServer), NEW n \in Nat
  PROVE  /\ s \o Copies("RequestData", n) \in Seq(ToServer)
         /\ Has(s \o Copies("RequestData", n), "RequestHeaders") <=> Has(s, "RequestHeaders")
<1>1. "RequestData" \in ToServer
  BY DEF ToServer, RequestEvents
<1>2. Copies("RequestData", n) \in Seq(ToServer) /\ Range(Copies("RequestData", n)) \subseteq {"RequestData"}
  BY <1>1, CopiesAmong
<1>3. QED
  BY <1>2, Adding DEF Has

LEMMA EndsRequest ==
  ASSUME NEW s \in Seq(ToServer), NEW side
  PROVE  /\ s \o Trailers("RequestTrailers", side) \o <<"RequestEnd">> \in Seq(ToServer)
         /\ Has(s \o Trailers("RequestTrailers", side) \o <<"RequestEnd">>, "RequestHeaders")
              <=> Has(s, "RequestHeaders")
<1> DEFINE t == Trailers("RequestTrailers", side)
<1>1. "RequestTrailers" \in ToServer /\ <<"RequestEnd">> \in Seq(ToServer)
  BY DEF ToServer, RequestEvents
<1>2. t \in Seq(ToServer) /\ Range(t) \subseteq {"RequestTrailers"} /\ Range(<<"RequestEnd">>) = {"RequestEnd"}
  BY <1>1, TrailersAmong, RangeOne
<1> HIDE DEF t
<1>3. s \o t \in Seq(ToServer) /\ Range(s \o t) = Range(s) \cup Range(t)
  BY <1>2, Adding
<1> DEFINE u == s \o t
<1> HIDE DEF u
<1>4. u \in Seq(ToServer)
  BY <1>3 DEF u
<1>5. /\ u \o <<"RequestEnd">> \in Seq(ToServer)
      /\ Range(u \o <<"RequestEnd">>) = Range(u) \cup Range(<<"RequestEnd">>)
  BY <1>1, <1>4, Adding, ZenonT(30)
<1>6. /\ u \o <<"RequestEnd">> \in Seq(ToServer)
      /\ Has(u \o <<"RequestEnd">>, "RequestHeaders") <=> Has(s, "RequestHeaders")
  BY <1>2, <1>3, <1>5 DEF Has, u
<1>7. QED
  BY <1>6 DEF t, u

LEMMA Forwards ==
  ASSUME NEW s \in Seq(ToServer), NEW n \in Nat, NEW side
  PROVE  /\ s \o <<"RequestHeaders">> \o Copies("RequestData", n)
              \o Trailers("RequestTrailers", side) \o <<"RequestEnd">> \in Seq(ToServer)
         /\ Has(s \o <<"RequestHeaders">> \o Copies("RequestData", n)
                  \o Trailers("RequestTrailers", side) \o <<"RequestEnd">>, "RequestHeaders")
<1>1. "RequestHeaders" \in ToServer /\ <<"RequestHeaders">> \in Seq(ToServer)
  BY DEF ToServer, RequestEvents
<1> DEFINE h == s \o <<"RequestHeaders">>
           d == h \o Copies("RequestData", n)
<1>2. h \in Seq(ToServer) /\ Has(h, "RequestHeaders")
  <2>1. h \in Seq(ToServer) /\ Range(h) = Range(s) \cup Range(<<"RequestHeaders">>)
    BY <1>1, Adding, ZenonT(30)
  <2>2. QED
    BY <2>1, RangeOne DEF Has
<1> HIDE DEF h
<1>3. d \in Seq(ToServer) /\ Has(d, "RequestHeaders")
  BY <1>2, Replays
<1> HIDE DEF d
<1>4. /\ d \o Trailers("RequestTrailers", side) \o <<"RequestEnd">> \in Seq(ToServer)
      /\ Has(d \o Trailers("RequestTrailers", side) \o <<"RequestEnd">>, "RequestHeaders")
  BY <1>3, EndsRequest
<1>5. QED
  BY <1>4 DEF d, h

LEMMA Responds ==
  ASSUME NEW s \in Seq(ToClient), NEW e \in ToClient
  PROVE  /\ Append(s, e) \in Seq(ToClient)
         /\ e \notin Terminal => (Unended(Append(s, e)) <=> Unended(s))
<1>1. Append(s, e) \in Seq(ToClient)
  OBVIOUS
<1>2. Range(Append(s, e)) = Range(s) \cup {e}
  BY RangeAppend
<1>3. QED
  BY <1>1, <1>2 DEF Unended

LEMMA Buffers ==
  ASSUME NEW s \in Seq(ToClient), NEW n \in Nat
  PROVE  /\ s \o <<"ResponseHeaders">> \o Copies("ResponseData", n) \in Seq(ToClient)
         /\ Unended(s \o <<"ResponseHeaders">> \o Copies("ResponseData", n)) <=> Unended(s)
         /\ <<"ResponseHeaders">> \o Copies("ResponseData", n) \in Seq(ToClient)
         /\ Unended(<<"ResponseHeaders">> \o Copies("ResponseData", n))
         /\ Range(s \o <<"ResponseHeaders">> \o Copies("ResponseData", n))
              \subseteq Range(s) \cup {"ResponseHeaders", "ResponseData"}
<1> DEFINE h == <<"ResponseHeaders">>
           d == Copies("ResponseData", n)
<1>1. /\ "ResponseData" \in ToClient /\ h \in Seq(ToClient)
      /\ Range(h) = {"ResponseHeaders"}
  BY RangeOne DEF ToClient, ResponseEvents
<1>2. d \in Seq(ToClient) /\ Range(d) \subseteq {"ResponseData"}
  BY <1>1, CopiesAmong
<1> HIDE DEF d, h
<1>3. /\ s \o h \in Seq(ToClient) /\ Range(s \o h) = Range(s) \cup Range(h)
      /\ h \o d \in Seq(ToClient) /\ Range(h \o d) = Range(h) \cup Range(d)
  BY <1>1, <1>2, Adding
<1> DEFINE u == s \o h
<1> HIDE DEF u
<1>4. u \in Seq(ToClient)
  BY <1>3 DEF u
<1>5. u \o d \in Seq(ToClient) /\ Range(u \o d) = Range(u) \cup Range(d)
  BY <1>2, <1>4, Adding
<1>6. /\ u \o d \in Seq(ToClient) /\ (Unended(u \o d) <=> Unended(s))
      /\ h \o d \in Seq(ToClient) /\ Unended(h \o d)
      /\ Range(u \o d) \subseteq Range(s) \cup {"ResponseHeaders", "ResponseData"}
  BY <1>1, <1>2, <1>3, <1>5 DEF Unended, Terminal, u
<1>7. QED
  BY <1>6 DEF u, d, h

LEMMA EndsResponse ==
  ASSUME NEW s \in Seq(ToClient)
  PROVE  s \o <<"ResponseEnd">> \in Seq(ToClient)
<1>1. <<"ResponseEnd">> \in Seq(ToClient)
  BY DEF ToClient, ResponseEvents
<1>2. QED
  BY <1>1, Adding

LEMMA ConnectResponds ==
  ASSUME NEW s \in Seq(ToClient), NEW c \in {<< >>, <<"ResponseData">>}
  PROVE  s \o <<"ResponseHeaders">> \o c \o <<"ResponseEnd">> \in Seq(ToClient)
<1>1. <<"ResponseHeaders">> \in Seq(ToClient) /\ <<"ResponseData">> \in Seq(ToClient)
  BY DEF ToClient, ResponseEvents
<1>2. c \in Seq(ToClient)
  <2>1. CASE c = << >>
    BY <2>1
  <2>2. CASE c = <<"ResponseData">>
    BY <1>1, <2>2
  <2>3. QED
    BY <2>1, <2>2
<1> DEFINE u == s \o <<"ResponseHeaders">>
           v == u \o c
<1>3. u \in Seq(ToClient)
  BY <1>1, Adding
<1> HIDE DEF u
<1>4. v \in Seq(ToClient)
  BY <1>2, <1>3, Adding
<1> HIDE DEF v
<1>5. v \o <<"ResponseEnd">> \in Seq(ToClient)
  BY <1>4, EndsResponse
<1>6. QED
  BY <1>5 DEF u, v

LEMMA Flushes ==
  ASSUME toClient \in Seq(ToClient), body["response"] \in Nat
  PROVE  /\ FlushBuffered \in Seq(ToClient)
         /\ Unended(FlushBuffered) <=> Unended(toClient)
         /\ Range(FlushBuffered) \subseteq
              Range(toClient) \cup {"ResponseHeaders", "ResponseData"}
<1>1. body["response"] + 1 \in Nat
  OBVIOUS
<1> DEFINE n == body["response"] + 1
<1> HIDE DEF n
<1>2. /\ toClient \o <<"ResponseHeaders">> \o Copies("ResponseData", n) \in Seq(ToClient)
      /\ Unended(toClient \o <<"ResponseHeaders">> \o Copies("ResponseData", n))
           <=> Unended(toClient)
      /\ Range(toClient \o <<"ResponseHeaders">> \o Copies("ResponseData", n))
           \subseteq Range(toClient) \cup {"ResponseHeaders", "ResponseData"}
  BY <1>1, Buffers DEF n
<1>3. QED
  BY <1>2 DEF FlushBuffered, n

LEMMA Finishes ==
  ASSUME toClient \in Seq(ToClient), body["response"] \in Nat
  PROVE  /\ toClient \o UnsentResponse \o Trailers("ResponseTrailers", "response") \in Seq(ToClient)
         /\ Unended(toClient \o UnsentResponse \o Trailers("ResponseTrailers", "response"))
              <=> Unended(toClient)
<1> DEFINE r == UnsentResponse
           t == Trailers("ResponseTrailers", "response")
<1>1. r \in Seq(ToClient) /\ Unended(r)
  <2>1. CASE sstate = "stream"
    <3>1. r = << >>
      BY <2>1 DEF UnsentResponse
    <3>2. QED
      BY <3>1, RangeEmpty DEF Unended
  <2>2. CASE sstate # "stream"
    <3>1. r = <<"ResponseHeaders">> \o Copies("ResponseData", body["response"])
      BY <2>2 DEF UnsentResponse, BufferedResponse
    <3>2. QED
      BY <3>1, Buffers
  <2>3. QED
    BY <2>1, <2>2
<1>2. t \in Seq(ToClient) /\ Range(t) \subseteq {"ResponseTrailers"}
  <2>1. "ResponseTrailers" \in ToClient
    BY DEF ToClient, ResponseEvents
  <2>2. QED
    BY <2>1, TrailersAmong
<1> HIDE DEF r, t
<1>3. toClient \o r \in Seq(ToClient) /\ Range(toClient \o r) = Range(toClient) \cup Range(r)
  BY <1>1, Adding
<1> DEFINE u == toClient \o r
<1> HIDE DEF u
<1>4. u \in Seq(ToClient)
  BY <1>3 DEF u
<1>5. u \o t \in Seq(ToClient) /\ Range(u \o t) = Range(u) \cup Range(t)
  BY <1>2, <1>4, Adding
<1>6. u \o t \in Seq(ToClient) /\ (Unended(u \o t) <=> Unended(toClient))
  BY <1>1, <1>2, <1>3, <1>5 DEF Unended, Terminal, u
<1>7. QED
  BY <1>6 DEF u, r, t

LEMMA LastOne ==
  ASSUME NEW q \in Seq(Events), q # << >>, Head(q) = "RequestError",
         NothingAfterEnd(q), ~FromServer(q)
  PROVE  Tail(q) = << >>
<1>1. ASSUME NEW e \in Range(Tail(q))
      PROVE  FALSE
  <2>1. e \notin RequestEvents \cup {"RequestError"}
    BY <1>1, Taking
  <2>2. e \in Range(q)
    BY <1>1, Taking
  <2>3. QED
    BY <2>1, <2>2 DEF FromServer
<1>2. Tail(q) \in Seq(Events)
  BY Taking
<1>3. QED
  BY <1>1, <1>2, RangeNotEmpty

LEMMA OneMore ==
  ASSUME MaxChunks \in Nat, NEW b \in [Sides -> 0..MaxChunks], NEW c \in [Sides -> 0..MaxChunks],
         NEW s \in Sides, NEW n \in Nat, b[s] + n + 1 <= c[s]
  PROVE  [b EXCEPT ![s] = @ + 1] \in [Sides -> 0..MaxChunks]
<1>1. b[s] \in 0..MaxChunks /\ c[s] \in 0..MaxChunks
  OBVIOUS
<1>2. b[s] + 1 \in 0..MaxChunks
  BY <1>1
<1>3. QED
  BY <1>2

LEMMA AlonePair ==
  ASSUME NEW a, NEW b, NEW x
  PROVE  <<a, b>> \o Tail(<<x>>) = <<a, b>>
<1>1. <<a, b>> \in Seq({a, b})
  OBVIOUS
<1>2. QED
  BY <1>1, Alone

LEMMA AloneThree ==
  ASSUME NEW a, NEW b, NEW c, NEW x
  PROVE  <<a, b, c>> \o Tail(<<x>>) = <<a, b, c>>
<1>1. <<a, b, c>> \in Seq({a, b, c})
  OBVIOUS
<1>2. QED
  BY <1>1, Alone

\* The ways of state_wait_for_request_headers.
FirstEvent ==
  /\ Handle("RequestHeaders") /\ cstate = "wait"
  /\ UNCHANGED <<body, sstate, toServer, hooks, ends, peers>>
InvalidRequest ==
  /\ FirstEvent /\ UNCHANGED <<cstate, toClient>>
  /\ flow' = [flow EXCEPT !.live = TRUE, !.error = "other"]
  /\ todo' = <<"requestheaders", "error", "reject">>
ConnectRequest ==
  /\ FirstEvent /\ UNCHANGED toClient
  /\ flow' = [flow EXCEPT !.live = TRUE]
  /\ cstate' = "done"
  /\ todo' = <<"http_connect", "handle_connect">>
LostRequest ==
  /\ FirstEvent /\ UNCHANGED todo
  /\ flow' = [flow EXCEPT !.live = TRUE]
  /\ toClient' = Append(toClient, "ResponseError")
  /\ cstate' = "errored"
AnnouncedRequest ==
  /\ FirstEvent /\ UNCHANGED <<cstate, toClient>>
  /\ \/ flow' = [flow EXCEPT !.live = TRUE, !.stream = {}]
     \/ flow' = [flow EXCEPT !.live = TRUE, !.stream = {"request"}]
  /\ todo' \in Announced

LEMMA AnnouncedLive ==
  ASSUME flow \in Flows, AnnouncedRequest
  PROVE  flow' \in Flows /\ flow'.live = TRUE
<1>1. ASSUME NEW s \in SUBSET Sides, flow' = [flow EXCEPT !.live = TRUE, !.stream = s]
      PROVE  flow' \in Flows /\ flow'.live = TRUE
  BY <1>1 DEF Flows
<1>2. {} \in SUBSET Sides /\ {"request"} \in SUBSET Sides
  BY DEF Sides
<1>3. CASE flow' = [flow EXCEPT !.live = TRUE, !.stream = {}]
  BY <1>1, <1>2, <1>3
<1>4. CASE flow' = [flow EXCEPT !.live = TRUE, !.stream = {"request"}]
  BY <1>1, <1>2, <1>4
<1>5. QED
  BY <1>3, <1>4 DEF AnnouncedRequest

LEMMA ResponseSeen ==
  ASSUME flow \in Flows, ResponseHeaders
  PROVE  /\ flow' \in Flows /\ flow'.live = flow.live
         /\ "request" \in flow.stream => "request" \in flow'.stream
<1>1. PICK response \in {"plain", "switching"}, more \in {{}, {"response"}} :
        \/ flow' = [flow EXCEPT !.response = response, !.stream = @ \cup more]
        \/ flow' = [flow EXCEPT !.response = response, !.stream = @ \cup more, !.error = "other"]
  BY DEF ResponseHeaders
<1>2. flow.stream \cup more \in SUBSET Sides
  BY DEF Flows, Sides
<1>3. CASE flow' = [flow EXCEPT !.response = response, !.stream = @ \cup more]
  BY <1>2, <1>3 DEF Flows
<1>4. CASE flow' = [flow EXCEPT !.response = response, !.stream = @ \cup more, !.error = "other"]
  BY <1>2, <1>4 DEF Flows
<1>5. QED
  BY <1>1, <1>3, <1>4

LEMMA RequestHeadersCases ==
  ASSUME RequestHeaders
  PROVE  InvalidRequest \/ ConnectRequest \/ LostRequest \/ AnnouncedRequest
<1>1. FirstEvent
  BY DEF RequestHeaders, FirstEvent
<1>2. ASSUME NEW verdict,
             flow' = [flow EXCEPT !.live = TRUE,
                                  !.stream = IF verdict = "stream" THEN {"request"} ELSE {}],
             todo' = <<"requestheaders">> \o
               (IF verdict = "abort" THEN <<"request_too_large">> ELSE <<"begin_request">>),
             UNCHANGED <<cstate, toClient>>
      PROVE  AnnouncedRequest
  <2>1. todo' \in Announced
    <3>1. CASE verdict = "abort"
      BY <1>2, <3>1, Pairs DEF Announced
    <3>2. CASE verdict # "abort"
      BY <1>2, <3>2, Pairs DEF Announced
    <3>3. QED
      BY <3>1, <3>2
  <2>2. \/ flow' = [flow EXCEPT !.live = TRUE, !.stream = {}]
        \/ flow' = [flow EXCEPT !.live = TRUE, !.stream = {"request"}]
    BY <1>2
  <2>3. QED
    BY <1>1, <1>2, <2>1, <2>2 DEF AnnouncedRequest
<1>3. QED
  BY <1>1, <1>2
    DEF RequestHeaders, InvalidRequest, ConnectRequest, LostRequest, FirstEvent


(* An error is noted in the flow, and the flow ends; nothing else changes. *)
LEMMA FlowMarks ==
  ASSUME flow \in Flows
  PROVE  /\ Noted(flow) \in Flows /\ WithError(flow) \in Flows
         /\ [flow EXCEPT !.live = FALSE] \in Flows
         /\ [Noted(flow) EXCEPT !.live = FALSE] \in Flows
         /\ Noted(flow).live = flow.live /\ WithError(flow).live = flow.live
         /\ [flow EXCEPT !.live = FALSE].live = FALSE
         /\ [Noted(flow) EXCEPT !.live = FALSE].live = FALSE
         /\ Noted(flow).stream = flow.stream /\ WithError(flow).stream = flow.stream
         /\ [flow EXCEPT !.live = FALSE].stream = flow.stream
         /\ [Noted(flow) EXCEPT !.live = FALSE].stream = flow.stream
<1>1. ASSUME NEW f \in Flows
      PROVE  /\ [f EXCEPT !.live = FALSE] \in Flows
             /\ [f EXCEPT !.live = FALSE].live = FALSE
             /\ [f EXCEPT !.live = FALSE].stream = f.stream
  BY DEF Flows
<1>2. /\ [flow EXCEPT !.error = "other"] \in Flows
      /\ [flow EXCEPT !.error = "other"].live = flow.live
      /\ [flow EXCEPT !.error = "other"].stream = flow.stream
  BY DEF Flows
<1>3. /\ Noted(flow) \in Flows /\ Noted(flow).live = flow.live
      /\ Noted(flow).stream = flow.stream
  BY <1>2 DEF Noted
<1>4. /\ WithError(flow) \in Flows /\ WithError(flow).live = flow.live
      /\ WithError(flow).stream = flow.stream
  BY <1>2 DEF WithError
<1>5. QED
  BY <1>1, <1>3, <1>4

-----------------------------------------------------------------------------
-----------------------------------------------------------------------------
(* Steps that only take the generator on, with a hook or without.           *)
KeepsLife ==
  /\ flow' \in Flows /\ flow'.live = flow.live
  /\ "request" \in flow.stream => "request" \in flow'.stream

OnlyMoves ==
  /\ UNCHANGED <<cstate, sstate, body, queue, toClient, toServer, dropped>>
  /\ UNCHANGED <<passthrough, client, server, bodyless, chunks>>
  /\ KeepsLife

From(P, Q) == todo \in P /\ todo' \in Q

\* On, with the outcome still open.
GoesOn ==
  \/ From(Announced, Beginning) \/ From(Invalid, KillError) \/ From(Asked, Connecting)
  \/ From(Beginning, Opening) /\ "request" \in flow.stream
  \/ From(Beginning, KillError) \/ From(Beginning, RefusalError)
  \/ From(Opening, Opening) \/ From(Opening, OpeningError)
  \/ From(Reopening, Reopening) \/ From(Reopening, OpeningError)
  \/ From(Routing, Routing) \/ From(Routing, ResponseErrorHook)
  \/ From(Routing, ResponseHook) \/ From(Routing, KillError)
  \/ From(Connecting, Connecting) \/ From(Connecting, Killing)
  \/ From(Responding, Responding) \/ From(Responding, KillError)

\* On, with the hook of the outcome.
Decides ==
  \/ From(ResponseHook, Finishing) \/ From(OpeningError, OpeningFailed)
  \/ From(RefusalError, Refusing) \/ From(KillError, Killing)
  \/ From(RequestErrorHook, AfterRequestError) \/ From(ResponseErrorHook, AfterResponseError)

LEMMA Moving ==
  ASSUME IInv, OnlyMoves, hooks' \in Seq(Hooks),
         \/ GoesOn /\ Outcomes' = Outcomes
         \/ Decides /\ Outcomes' = Outcomes + 1 /\ hooks' # << >>,
         Range(hooks) \subseteq Range(hooks'),
         hooks' = << >> => hooks = << >>,
         todo \in Announced \cup Invalid \cup Asked => hooks' # << >>,
         todo \in Asked => Has(hooks', "http_connect")
  PROVE  IInv'
<1>0. /\ TypeOK /\ ProgramsOnly /\ StatesKnown /\ SentLater /\ StreamsAreMarked
      /\ AtFirst /\ BeforeFirstHook /\ GoneIsLast /\ FoundOut /\ GivenUp
      /\ OutcomeDecides /\ OverIsNotLive /\ ChunksCounted /\ ConnectHookRan
  BY DEF IInv
<1>1. /\ UNCHANGED <<cstate, sstate, body, queue, toClient, toServer, dropped>>
      /\ UNCHANGED <<passthrough, client, server, bodyless, chunks>>
      /\ flow' \in Flows /\ flow'.live = flow.live
      /\ "request" \in flow.stream => "request" \in flow'.stream
  BY DEF OnlyMoves, KeepsLife
<1>2. Outcomes \in Nat /\ (Overtaken => Overtaken') /\ Sent' = Sent /\ Told' = Told
  BY <1>0, <1>1, OutcomesAreNat DEF Overtaken, Has, Sent, Told, TypeOK
<1>3. todo' \in Programs /\ todo' # << >> /\ todo # << >>
  BY IdleOnly DEF GoesOn, Decides, From, Programs, Working, Undecided, Deciding, Concluding
<1>4. TypeOK'
  BY <1>0, <1>1, <1>3, ProgramsAreSteps DEF TypeOK
<1>4a. todo \in Announced \cup Invalid \cup Asked => ~Told
  BY <1>0, RangeEmpty DEF AtFirst, Told, Unended
<1>5. SentLater' /\ ChunksCounted'
  BY <1>0, <1>1, <1>2 DEF SentLater, ChunksCounted
<1> DEFINE Rest == /\ StatesKnown' /\ StreamsAreMarked' /\ AtFirst' /\ BeforeFirstHook'
                   /\ GoneIsLast' /\ FoundOut' /\ GivenUp' /\ OutcomeDecides'
                   /\ OverIsNotLive' /\ ConnectHookRan'
<1>6. ASSUME From(Announced, Beginning), Outcomes' = Outcomes PROVE Rest
  <2>1. StatesKnown' /\ StreamsAreMarked'
    BY <1>0, <1>1, <1>2, <1>3, <1>6, AnnouncedOnly, BeginningOnly, Served
    DEF From, StatesKnown, SentLater, StreamsAreMarked, Over
  <2>2. AtFirst' /\ BeforeFirstHook' /\ GoneIsLast'
    BY <1>0, <1>1, <1>2, <1>3, <1>6, AnnouncedOnly, BeginningOnly, Served
    DEF From, StatesKnown, AtFirst, BeforeFirstHook, GoneIsLast
  <2>3. OverIsNotLive' /\ ConnectHookRan'
    BY <1>0, <1>1, <1>2, <1>3, <1>4a, <1>6, AnnouncedOnly, BeginningOnly, Served
    DEF From, AtFirst, BeforeFirstHook, OverIsNotLive, ConnectHookRan, Told, Unended, Has
  <2>4. FoundOut'
    BY <1>0, <1>1, <1>2, <1>3, <1>6, AnnouncedOnly, BeginningOnly, Served
    DEF From, StatesKnown, SentLater, GoneIsLast, FoundOut, GivenUp, StreamsAreMarked, BothErrored
  <2>5. GivenUp'
    BY <1>0, <1>1, <1>2, <1>3, <1>6, AnnouncedOnly, BeginningOnly, Served
    DEF From, StatesKnown, SentLater, GoneIsLast, FoundOut, GivenUp, Over
  <2>6. OutcomeDecides'
    BY <1>0, <1>1, <1>2, <1>3, <1>6, AnnouncedOnly, BeginningOnly, Served
    DEF From, StatesKnown, SentLater, GivenUp, OutcomeDecides, Over, Undecided, Deciding, Concluding
  <2>7. QED
    BY <2>1, <2>2, <2>3, <2>4, <2>5, <2>6
<1>7. ASSUME From(Invalid, KillError), Outcomes' = Outcomes PROVE Rest
  <2>1. StatesKnown' /\ StreamsAreMarked'
    BY <1>0, <1>1, <1>2, <1>3, <1>7, InvalidOnly, KillErrorOnly, Served
    DEF From, StatesKnown, SentLater, StreamsAreMarked, Over
  <2>2. AtFirst' /\ BeforeFirstHook' /\ GoneIsLast'
    BY <1>0, <1>1, <1>2, <1>3, <1>7, InvalidOnly, KillErrorOnly, Served
    DEF From, StatesKnown, AtFirst, BeforeFirstHook, GoneIsLast
  <2>3. OverIsNotLive' /\ ConnectHookRan'
    BY <1>0, <1>1, <1>2, <1>3, <1>4a, <1>7, InvalidOnly, KillErrorOnly, Served
    DEF From, AtFirst, BeforeFirstHook, OverIsNotLive, ConnectHookRan, Told, Unended, Has
  <2>4. FoundOut'
    BY <1>0, <1>1, <1>2, <1>3, <1>7, InvalidOnly, KillErrorOnly, Served
    DEF From, StatesKnown, SentLater, GoneIsLast, FoundOut, GivenUp, StreamsAreMarked, BothErrored
  <2>5. GivenUp'
    BY <1>0, <1>1, <1>2, <1>3, <1>7, InvalidOnly, KillErrorOnly, Served
    DEF From, StatesKnown, SentLater, GoneIsLast, FoundOut, GivenUp, Over
  <2>6. OutcomeDecides'
    BY <1>0, <1>1, <1>2, <1>3, <1>7, InvalidOnly, KillErrorOnly, Served
    DEF From, StatesKnown, SentLater, GivenUp, OutcomeDecides, Over, Undecided, Deciding, Concluding
  <2>7. QED
    BY <2>1, <2>2, <2>3, <2>4, <2>5, <2>6
<1>8. ASSUME From(Asked, Connecting), Outcomes' = Outcomes PROVE Rest
  <2>1. StatesKnown' /\ StreamsAreMarked'
    BY <1>0, <1>1, <1>2, <1>3, <1>8, AskedOnly, ConnectingOnly, Served
    DEF From, StatesKnown, SentLater, StreamsAreMarked, Over
  <2>2. AtFirst' /\ BeforeFirstHook' /\ GoneIsLast'
    BY <1>0, <1>1, <1>2, <1>3, <1>8, AskedOnly, ConnectingOnly, Served
    DEF From, StatesKnown, AtFirst, BeforeFirstHook, GoneIsLast
  <2>3. OverIsNotLive' /\ ConnectHookRan'
    BY <1>0, <1>1, <1>2, <1>3, <1>4a, <1>8, AskedOnly, ConnectingOnly, Served
    DEF From, AtFirst, BeforeFirstHook, OverIsNotLive, ConnectHookRan, Told, Unended, Has
  <2>4. FoundOut'
    BY <1>0, <1>1, <1>2, <1>3, <1>8, AskedOnly, ConnectingOnly, Served
    DEF From, StatesKnown, SentLater, GoneIsLast, FoundOut, GivenUp, StreamsAreMarked, BothErrored
  <2>5. GivenUp'
    BY <1>0, <1>1, <1>2, <1>3, <1>8, AskedOnly, ConnectingOnly, Served
    DEF From, StatesKnown, SentLater, GoneIsLast, FoundOut, GivenUp, Over
  <2>6. OutcomeDecides'
    BY <1>0, <1>1, <1>2, <1>3, <1>8, AskedOnly, ConnectingOnly, Served
    DEF From, StatesKnown, SentLater, GivenUp, OutcomeDecides, Over, Undecided, Deciding, Concluding
  <2>7. QED
    BY <2>1, <2>2, <2>3, <2>4, <2>5, <2>6
<1>9. ASSUME From(Beginning, Opening), Outcomes' = Outcomes, "request" \in flow.stream PROVE Rest
  <2>1. StatesKnown' /\ StreamsAreMarked'
    BY <1>0, <1>1, <1>2, <1>3, <1>9, BeginningOnly, OpeningOnly, Served
    DEF From, StatesKnown, SentLater, StreamsAreMarked, Over
  <2>2. AtFirst' /\ BeforeFirstHook' /\ GoneIsLast'
    BY <1>0, <1>1, <1>2, <1>3, <1>9, BeginningOnly, OpeningOnly, Served
    DEF From, StatesKnown, AtFirst, BeforeFirstHook, GoneIsLast
  <2>3. OverIsNotLive' /\ ConnectHookRan'
    BY <1>0, <1>1, <1>2, <1>3, <1>9, BeginningOnly, OpeningOnly, Served
    DEF From, AtFirst, BeforeFirstHook, OverIsNotLive, ConnectHookRan, Told, Unended, Has
  <2>4. FoundOut'
    BY <1>0, <1>1, <1>2, <1>3, <1>9, BeginningOnly, OpeningOnly, Served
    DEF From, StatesKnown, SentLater, GoneIsLast, FoundOut, GivenUp, StreamsAreMarked, BothErrored
  <2>5. GivenUp'
    BY <1>0, <1>1, <1>2, <1>3, <1>9, BeginningOnly, OpeningOnly, Served
    DEF From, StatesKnown, SentLater, GoneIsLast, FoundOut, GivenUp, Over
  <2>6. OutcomeDecides'
    BY <1>0, <1>1, <1>2, <1>3, <1>9, BeginningOnly, OpeningOnly, Served
    DEF From, StatesKnown, SentLater, GivenUp, OutcomeDecides, Over, Undecided, Deciding, Concluding
  <2>7. QED
    BY <2>1, <2>2, <2>3, <2>4, <2>5, <2>6
<1>10. ASSUME From(Beginning, KillError), Outcomes' = Outcomes PROVE Rest
  <2>1. StatesKnown' /\ StreamsAreMarked'
    BY <1>0, <1>1, <1>2, <1>3, <1>10, BeginningOnly, KillErrorOnly, Served
    DEF From, StatesKnown, SentLater, StreamsAreMarked, Over
  <2>2. AtFirst' /\ BeforeFirstHook' /\ GoneIsLast'
    BY <1>0, <1>1, <1>2, <1>3, <1>10, BeginningOnly, KillErrorOnly, Served
    DEF From, StatesKnown, AtFirst, BeforeFirstHook, GoneIsLast
  <2>3. OverIsNotLive' /\ ConnectHookRan'
    BY <1>0, <1>1, <1>2, <1>3, <1>10, BeginningOnly, KillErrorOnly, Served
    DEF From, AtFirst, BeforeFirstHook, OverIsNotLive, ConnectHookRan, Told, Unended, Has
  <2>4. FoundOut'
    BY <1>0, <1>1, <1>2, <1>3, <1>10, BeginningOnly, KillErrorOnly, Served
    DEF From, StatesKnown, SentLater, GoneIsLast, FoundOut, GivenUp, StreamsAreMarked, BothErrored
  <2>5. GivenUp'
    BY <1>0, <1>1, <1>2, <1>3, <1>10, BeginningOnly, KillErrorOnly, Served
    DEF From, StatesKnown, SentLater, GoneIsLast, FoundOut, GivenUp, Over
  <2>6. OutcomeDecides'
    BY <1>0, <1>1, <1>2, <1>3, <1>10, BeginningOnly, KillErrorOnly, Served
    DEF From, StatesKnown, SentLater, GivenUp, OutcomeDecides, Over, Undecided, Deciding, Concluding
  <2>7. QED
    BY <2>1, <2>2, <2>3, <2>4, <2>5, <2>6
<1>11. ASSUME From(Beginning, RefusalError), Outcomes' = Outcomes PROVE Rest
  <2>1. StatesKnown' /\ StreamsAreMarked'
    BY <1>0, <1>1, <1>2, <1>3, <1>11, BeginningOnly, RefusalErrorOnly, Served
    DEF From, StatesKnown, SentLater, StreamsAreMarked, Over
  <2>2. AtFirst' /\ BeforeFirstHook' /\ GoneIsLast'
    BY <1>0, <1>1, <1>2, <1>3, <1>11, BeginningOnly, RefusalErrorOnly, Served
    DEF From, StatesKnown, AtFirst, BeforeFirstHook, GoneIsLast
  <2>3. OverIsNotLive' /\ ConnectHookRan'
    BY <1>0, <1>1, <1>2, <1>3, <1>11, BeginningOnly, RefusalErrorOnly, Served
    DEF From, AtFirst, BeforeFirstHook, OverIsNotLive, ConnectHookRan, Told, Unended, Has
  <2>4. FoundOut'
    BY <1>0, <1>1, <1>2, <1>3, <1>11, BeginningOnly, RefusalErrorOnly, Served
    DEF From, StatesKnown, SentLater, GoneIsLast, FoundOut, GivenUp, StreamsAreMarked, BothErrored
  <2>5. GivenUp'
    BY <1>0, <1>1, <1>2, <1>3, <1>11, BeginningOnly, RefusalErrorOnly, Served
    DEF From, StatesKnown, SentLater, GoneIsLast, FoundOut, GivenUp, Over
  <2>6. OutcomeDecides'
    BY <1>0, <1>1, <1>2, <1>3, <1>11, BeginningOnly, RefusalErrorOnly, Served
    DEF From, StatesKnown, SentLater, GivenUp, OutcomeDecides, Over, Undecided, Deciding, Concluding
  <2>7. QED
    BY <2>1, <2>2, <2>3, <2>4, <2>5, <2>6
<1>12. ASSUME From(Opening, Opening), Outcomes' = Outcomes PROVE Rest
  <2>1. StatesKnown' /\ StreamsAreMarked'
    BY <1>0, <1>1, <1>2, <1>3, <1>12, OpeningOnly, Served
    DEF From, StatesKnown, SentLater, StreamsAreMarked, Over
  <2>2. AtFirst' /\ BeforeFirstHook' /\ GoneIsLast'
    BY <1>0, <1>1, <1>2, <1>3, <1>12, OpeningOnly, Served
    DEF From, StatesKnown, AtFirst, BeforeFirstHook, GoneIsLast
  <2>3. OverIsNotLive' /\ ConnectHookRan'
    BY <1>0, <1>1, <1>2, <1>3, <1>12, OpeningOnly, Served
    DEF From, AtFirst, BeforeFirstHook, OverIsNotLive, ConnectHookRan, Told, Unended, Has
  <2>4. FoundOut'
    BY <1>0, <1>1, <1>2, <1>3, <1>12, OpeningOnly, Served
    DEF From, StatesKnown, SentLater, GoneIsLast, FoundOut, GivenUp, StreamsAreMarked, BothErrored
  <2>5. GivenUp'
    BY <1>0, <1>1, <1>2, <1>3, <1>12, OpeningOnly, Served
    DEF From, StatesKnown, SentLater, GoneIsLast, FoundOut, GivenUp, Over
  <2>6. OutcomeDecides'
    BY <1>0, <1>1, <1>2, <1>3, <1>12, OpeningOnly, Served
    DEF From, StatesKnown, SentLater, GivenUp, OutcomeDecides, Over, Undecided, Deciding, Concluding
  <2>7. QED
    BY <2>1, <2>2, <2>3, <2>4, <2>5, <2>6
<1>13. ASSUME From(Opening, OpeningError), Outcomes' = Outcomes PROVE Rest
  <2>1. StatesKnown' /\ StreamsAreMarked'
    BY <1>0, <1>1, <1>2, <1>3, <1>13, OpeningOnly, OpeningErrorOnly, Served
    DEF From, StatesKnown, SentLater, StreamsAreMarked, Over
  <2>2. AtFirst' /\ BeforeFirstHook' /\ GoneIsLast'
    BY <1>0, <1>1, <1>2, <1>3, <1>13, OpeningOnly, OpeningErrorOnly, Served
    DEF From, StatesKnown, AtFirst, BeforeFirstHook, GoneIsLast
  <2>3. OverIsNotLive' /\ ConnectHookRan'
    BY <1>0, <1>1, <1>2, <1>3, <1>13, OpeningOnly, OpeningErrorOnly, Served
    DEF From, AtFirst, BeforeFirstHook, OverIsNotLive, ConnectHookRan, Told, Unended, Has
  <2>4. FoundOut'
    BY <1>0, <1>1, <1>2, <1>3, <1>13, OpeningOnly, OpeningErrorOnly, Served
    DEF From, StatesKnown, SentLater, GoneIsLast, FoundOut, GivenUp, StreamsAreMarked, BothErrored
  <2>5. GivenUp'
    BY <1>0, <1>1, <1>2, <1>3, <1>13, OpeningOnly, OpeningErrorOnly, Served
    DEF From, StatesKnown, SentLater, GoneIsLast, FoundOut, GivenUp, Over
  <2>6. OutcomeDecides'
    BY <1>0, <1>1, <1>2, <1>3, <1>13, OpeningOnly, OpeningErrorOnly, Served
    DEF From, StatesKnown, SentLater, GivenUp, OutcomeDecides, Over, Undecided, Deciding, Concluding
  <2>7. QED
    BY <2>1, <2>2, <2>3, <2>4, <2>5, <2>6
<1>14. ASSUME From(Reopening, Reopening), Outcomes' = Outcomes PROVE Rest
  <2>1. StatesKnown' /\ StreamsAreMarked'
    BY <1>0, <1>1, <1>2, <1>3, <1>14, ReopeningOnly, Served
    DEF From, StatesKnown, SentLater, StreamsAreMarked, Over
  <2>2. AtFirst' /\ BeforeFirstHook' /\ GoneIsLast'
    BY <1>0, <1>1, <1>2, <1>3, <1>14, ReopeningOnly, Served
    DEF From, StatesKnown, AtFirst, BeforeFirstHook, GoneIsLast
  <2>3. OverIsNotLive' /\ ConnectHookRan'
    BY <1>0, <1>1, <1>2, <1>3, <1>14, ReopeningOnly, Served
    DEF From, AtFirst, BeforeFirstHook, OverIsNotLive, ConnectHookRan, Told, Unended, Has
  <2>4. FoundOut'
    BY <1>0, <1>1, <1>2, <1>3, <1>14, ReopeningOnly, Served
    DEF From, StatesKnown, SentLater, GoneIsLast, FoundOut, GivenUp, StreamsAreMarked, BothErrored
  <2>5. GivenUp'
    BY <1>0, <1>1, <1>2, <1>3, <1>14, ReopeningOnly, Served
    DEF From, StatesKnown, SentLater, GoneIsLast, FoundOut, GivenUp, Over
  <2>6. OutcomeDecides'
    BY <1>0, <1>1, <1>2, <1>3, <1>14, ReopeningOnly, Served
    DEF From, StatesKnown, SentLater, GivenUp, OutcomeDecides, Over, Undecided, Deciding, Concluding
  <2>7. QED
    BY <2>1, <2>2, <2>3, <2>4, <2>5, <2>6
<1>15. ASSUME From(Reopening, OpeningError), Outcomes' = Outcomes PROVE Rest
  <2>1. StatesKnown' /\ StreamsAreMarked'
    BY <1>0, <1>1, <1>2, <1>3, <1>15, ReopeningOnly, OpeningErrorOnly, Served
    DEF From, StatesKnown, SentLater, StreamsAreMarked, Over
  <2>2. AtFirst' /\ BeforeFirstHook' /\ GoneIsLast'
    BY <1>0, <1>1, <1>2, <1>3, <1>15, ReopeningOnly, OpeningErrorOnly, Served
    DEF From, StatesKnown, AtFirst, BeforeFirstHook, GoneIsLast
  <2>3. OverIsNotLive' /\ ConnectHookRan'
    BY <1>0, <1>1, <1>2, <1>3, <1>15, ReopeningOnly, OpeningErrorOnly, Served
    DEF From, AtFirst, BeforeFirstHook, OverIsNotLive, ConnectHookRan, Told, Unended, Has
  <2>4. FoundOut'
    BY <1>0, <1>1, <1>2, <1>3, <1>15, ReopeningOnly, OpeningErrorOnly, Served
    DEF From, StatesKnown, SentLater, GoneIsLast, FoundOut, GivenUp, StreamsAreMarked, BothErrored
  <2>5. GivenUp'
    BY <1>0, <1>1, <1>2, <1>3, <1>15, ReopeningOnly, OpeningErrorOnly, Served
    DEF From, StatesKnown, SentLater, GoneIsLast, FoundOut, GivenUp, Over
  <2>6. OutcomeDecides'
    BY <1>0, <1>1, <1>2, <1>3, <1>15, ReopeningOnly, OpeningErrorOnly, Served
    DEF From, StatesKnown, SentLater, GivenUp, OutcomeDecides, Over, Undecided, Deciding, Concluding
  <2>7. QED
    BY <2>1, <2>2, <2>3, <2>4, <2>5, <2>6
<1>16. ASSUME From(Routing, Routing), Outcomes' = Outcomes PROVE Rest
  <2>1. StatesKnown' /\ StreamsAreMarked'
    BY <1>0, <1>1, <1>2, <1>3, <1>16, RoutingOnly, Served
    DEF From, StatesKnown, SentLater, StreamsAreMarked, Over
  <2>2. AtFirst' /\ BeforeFirstHook' /\ GoneIsLast'
    BY <1>0, <1>1, <1>2, <1>3, <1>16, RoutingOnly, Served
    DEF From, StatesKnown, AtFirst, BeforeFirstHook, GoneIsLast
  <2>3. OverIsNotLive' /\ ConnectHookRan'
    BY <1>0, <1>1, <1>2, <1>3, <1>16, RoutingOnly, Served
    DEF From, AtFirst, BeforeFirstHook, OverIsNotLive, ConnectHookRan, Told, Unended, Has
  <2>4. FoundOut'
    BY <1>0, <1>1, <1>2, <1>3, <1>16, RoutingOnly, Served
    DEF From, StatesKnown, SentLater, GoneIsLast, FoundOut, GivenUp, StreamsAreMarked, BothErrored
  <2>5. GivenUp'
    BY <1>0, <1>1, <1>2, <1>3, <1>16, RoutingOnly, Served
    DEF From, StatesKnown, SentLater, GoneIsLast, FoundOut, GivenUp, Over
  <2>6. OutcomeDecides'
    BY <1>0, <1>1, <1>2, <1>3, <1>16, RoutingOnly, Served
    DEF From, StatesKnown, SentLater, GivenUp, OutcomeDecides, Over, Undecided, Deciding, Concluding
  <2>7. QED
    BY <2>1, <2>2, <2>3, <2>4, <2>5, <2>6
<1>17. ASSUME From(Routing, ResponseErrorHook), Outcomes' = Outcomes PROVE Rest
  <2>1. StatesKnown' /\ StreamsAreMarked'
    BY <1>0, <1>1, <1>2, <1>3, <1>17, RoutingOnly, ResponseErrorHookOnly, Served
    DEF From, StatesKnown, SentLater, StreamsAreMarked, Over
  <2>2. AtFirst' /\ BeforeFirstHook' /\ GoneIsLast'
    BY <1>0, <1>1, <1>2, <1>3, <1>17, RoutingOnly, ResponseErrorHookOnly, Served
    DEF From, StatesKnown, AtFirst, BeforeFirstHook, GoneIsLast
  <2>3. OverIsNotLive' /\ ConnectHookRan'
    BY <1>0, <1>1, <1>2, <1>3, <1>17, RoutingOnly, ResponseErrorHookOnly, Served
    DEF From, AtFirst, BeforeFirstHook, OverIsNotLive, ConnectHookRan, Told, Unended, Has
  <2>4. FoundOut'
    BY <1>0, <1>1, <1>2, <1>3, <1>17, RoutingOnly, ResponseErrorHookOnly, Served
    DEF From, StatesKnown, SentLater, GoneIsLast, FoundOut, GivenUp, StreamsAreMarked, BothErrored
  <2>5. GivenUp'
    BY <1>0, <1>1, <1>2, <1>3, <1>17, RoutingOnly, ResponseErrorHookOnly, Served
    DEF From, StatesKnown, SentLater, GoneIsLast, FoundOut, GivenUp, Over
  <2>6. OutcomeDecides'
    BY <1>0, <1>1, <1>2, <1>3, <1>17, RoutingOnly, ResponseErrorHookOnly, Served
    DEF From, StatesKnown, SentLater, GivenUp, OutcomeDecides, Over, Undecided, Deciding, Concluding
  <2>7. QED
    BY <2>1, <2>2, <2>3, <2>4, <2>5, <2>6
<1>18. ASSUME From(Routing, ResponseHook), Outcomes' = Outcomes PROVE Rest
  <2>1. StatesKnown' /\ StreamsAreMarked'
    BY <1>0, <1>1, <1>2, <1>3, <1>18, RoutingOnly, ResponseHookOnly, Served
    DEF From, StatesKnown, SentLater, StreamsAreMarked, Over
  <2>2. AtFirst' /\ BeforeFirstHook' /\ GoneIsLast'
    BY <1>0, <1>1, <1>2, <1>3, <1>18, RoutingOnly, ResponseHookOnly, Served
    DEF From, StatesKnown, AtFirst, BeforeFirstHook, GoneIsLast
  <2>3. OverIsNotLive' /\ ConnectHookRan'
    BY <1>0, <1>1, <1>2, <1>3, <1>18, RoutingOnly, ResponseHookOnly, Served
    DEF From, AtFirst, BeforeFirstHook, OverIsNotLive, ConnectHookRan, Told, Unended, Has
  <2>4. FoundOut'
    BY <1>0, <1>1, <1>2, <1>3, <1>18, RoutingOnly, ResponseHookOnly, Served
    DEF From, StatesKnown, SentLater, GoneIsLast, FoundOut, GivenUp, StreamsAreMarked, BothErrored
  <2>5. GivenUp'
    BY <1>0, <1>1, <1>2, <1>3, <1>18, RoutingOnly, ResponseHookOnly, Served
    DEF From, StatesKnown, SentLater, GoneIsLast, FoundOut, GivenUp, Over
  <2>6. OutcomeDecides'
    BY <1>0, <1>1, <1>2, <1>3, <1>18, RoutingOnly, ResponseHookOnly, Served
    DEF From, StatesKnown, SentLater, GivenUp, OutcomeDecides, Over, Undecided, Deciding, Concluding
  <2>7. QED
    BY <2>1, <2>2, <2>3, <2>4, <2>5, <2>6
<1>19. ASSUME From(Routing, KillError), Outcomes' = Outcomes PROVE Rest
  <2>1. StatesKnown' /\ StreamsAreMarked'
    BY <1>0, <1>1, <1>2, <1>3, <1>19, RoutingOnly, KillErrorOnly, Served
    DEF From, StatesKnown, SentLater, StreamsAreMarked, Over
  <2>2. AtFirst' /\ BeforeFirstHook' /\ GoneIsLast'
    BY <1>0, <1>1, <1>2, <1>3, <1>19, RoutingOnly, KillErrorOnly, Served
    DEF From, StatesKnown, AtFirst, BeforeFirstHook, GoneIsLast
  <2>3. OverIsNotLive' /\ ConnectHookRan'
    BY <1>0, <1>1, <1>2, <1>3, <1>19, RoutingOnly, KillErrorOnly, Served
    DEF From, AtFirst, BeforeFirstHook, OverIsNotLive, ConnectHookRan, Told, Unended, Has
  <2>4. FoundOut'
    BY <1>0, <1>1, <1>2, <1>3, <1>19, RoutingOnly, KillErrorOnly, Served
    DEF From, StatesKnown, SentLater, GoneIsLast, FoundOut, GivenUp, StreamsAreMarked, BothErrored
  <2>5. GivenUp'
    BY <1>0, <1>1, <1>2, <1>3, <1>19, RoutingOnly, KillErrorOnly, Served
    DEF From, StatesKnown, SentLater, GoneIsLast, FoundOut, GivenUp, Over
  <2>6. OutcomeDecides'
    BY <1>0, <1>1, <1>2, <1>3, <1>19, RoutingOnly, KillErrorOnly, Served
    DEF From, StatesKnown, SentLater, GivenUp, OutcomeDecides, Over, Undecided, Deciding, Concluding
  <2>7. QED
    BY <2>1, <2>2, <2>3, <2>4, <2>5, <2>6
<1>20. ASSUME From(Connecting, Connecting), Outcomes' = Outcomes PROVE Rest
  <2>1. StatesKnown' /\ StreamsAreMarked'
    BY <1>0, <1>1, <1>2, <1>3, <1>20, ConnectingOnly, Served
    DEF From, StatesKnown, SentLater, StreamsAreMarked, Over
  <2>2. AtFirst' /\ BeforeFirstHook' /\ GoneIsLast'
    BY <1>0, <1>1, <1>2, <1>3, <1>20, ConnectingOnly, Served
    DEF From, StatesKnown, AtFirst, BeforeFirstHook, GoneIsLast
  <2>3. OverIsNotLive' /\ ConnectHookRan'
    BY <1>0, <1>1, <1>2, <1>3, <1>20, ConnectingOnly, Served
    DEF From, AtFirst, BeforeFirstHook, OverIsNotLive, ConnectHookRan, Told, Unended, Has
  <2>4. FoundOut'
    BY <1>0, <1>1, <1>2, <1>3, <1>20, ConnectingOnly, Served
    DEF From, StatesKnown, SentLater, GoneIsLast, FoundOut, GivenUp, StreamsAreMarked, BothErrored
  <2>5. GivenUp'
    BY <1>0, <1>1, <1>2, <1>3, <1>20, ConnectingOnly, Served
    DEF From, StatesKnown, SentLater, GoneIsLast, FoundOut, GivenUp, Over
  <2>6. OutcomeDecides'
    BY <1>0, <1>1, <1>2, <1>3, <1>20, ConnectingOnly, Served
    DEF From, StatesKnown, SentLater, GivenUp, OutcomeDecides, Over, Undecided, Deciding, Concluding
  <2>7. QED
    BY <2>1, <2>2, <2>3, <2>4, <2>5, <2>6
<1>21. ASSUME From(Connecting, Killing), Outcomes' = Outcomes PROVE Rest
  <2>1. StatesKnown' /\ StreamsAreMarked'
    BY <1>0, <1>1, <1>2, <1>3, <1>21, ConnectingOnly, KillingOnly, Served
    DEF From, StatesKnown, SentLater, StreamsAreMarked, Over
  <2>2. AtFirst' /\ BeforeFirstHook' /\ GoneIsLast'
    BY <1>0, <1>1, <1>2, <1>3, <1>21, ConnectingOnly, KillingOnly, Served
    DEF From, StatesKnown, AtFirst, BeforeFirstHook, GoneIsLast
  <2>3. OverIsNotLive' /\ ConnectHookRan'
    BY <1>0, <1>1, <1>2, <1>3, <1>21, ConnectingOnly, KillingOnly, Served
    DEF From, AtFirst, BeforeFirstHook, OverIsNotLive, ConnectHookRan, Told, Unended, Has
  <2>4. FoundOut'
    BY <1>0, <1>1, <1>2, <1>3, <1>21, ConnectingOnly, KillingOnly, Served
    DEF From, StatesKnown, SentLater, GoneIsLast, FoundOut, GivenUp, StreamsAreMarked, BothErrored
  <2>5. GivenUp'
    BY <1>0, <1>1, <1>2, <1>3, <1>21, ConnectingOnly, KillingOnly, Served
    DEF From, StatesKnown, SentLater, GoneIsLast, FoundOut, GivenUp, Over
  <2>6. OutcomeDecides'
    BY <1>0, <1>1, <1>2, <1>3, <1>21, ConnectingOnly, KillingOnly, Served
    DEF From, StatesKnown, SentLater, GivenUp, OutcomeDecides, Over, Undecided, Deciding, Concluding
  <2>7. QED
    BY <2>1, <2>2, <2>3, <2>4, <2>5, <2>6
<1>22. ASSUME From(Responding, Responding), Outcomes' = Outcomes PROVE Rest
  <2>1. StatesKnown' /\ StreamsAreMarked'
    BY <1>0, <1>1, <1>2, <1>3, <1>22, RespondingOnly, Served
    DEF From, StatesKnown, SentLater, StreamsAreMarked, Over
  <2>2. AtFirst' /\ BeforeFirstHook' /\ GoneIsLast'
    BY <1>0, <1>1, <1>2, <1>3, <1>22, RespondingOnly, Served
    DEF From, StatesKnown, AtFirst, BeforeFirstHook, GoneIsLast
  <2>3. OverIsNotLive' /\ ConnectHookRan'
    BY <1>0, <1>1, <1>2, <1>3, <1>22, RespondingOnly, Served
    DEF From, AtFirst, BeforeFirstHook, OverIsNotLive, ConnectHookRan, Told, Unended, Has
  <2>4. FoundOut'
    BY <1>0, <1>1, <1>2, <1>3, <1>22, RespondingOnly, Served
    DEF From, StatesKnown, SentLater, GoneIsLast, FoundOut, GivenUp, StreamsAreMarked, BothErrored
  <2>5. GivenUp'
    BY <1>0, <1>1, <1>2, <1>3, <1>22, RespondingOnly, Served
    DEF From, StatesKnown, SentLater, GoneIsLast, FoundOut, GivenUp, Over
  <2>6. OutcomeDecides'
    BY <1>0, <1>1, <1>2, <1>3, <1>22, RespondingOnly, Served
    DEF From, StatesKnown, SentLater, GivenUp, OutcomeDecides, Over, Undecided, Deciding, Concluding
  <2>7. QED
    BY <2>1, <2>2, <2>3, <2>4, <2>5, <2>6
<1>23. ASSUME From(Responding, KillError), Outcomes' = Outcomes PROVE Rest
  <2>1. StatesKnown' /\ StreamsAreMarked'
    BY <1>0, <1>1, <1>2, <1>3, <1>23, RespondingOnly, KillErrorOnly, Served
    DEF From, StatesKnown, SentLater, StreamsAreMarked, Over
  <2>2. AtFirst' /\ BeforeFirstHook' /\ GoneIsLast'
    BY <1>0, <1>1, <1>2, <1>3, <1>23, RespondingOnly, KillErrorOnly, Served
    DEF From, StatesKnown, AtFirst, BeforeFirstHook, GoneIsLast
  <2>3. OverIsNotLive' /\ ConnectHookRan'
    BY <1>0, <1>1, <1>2, <1>3, <1>23, RespondingOnly, KillErrorOnly, Served
    DEF From, AtFirst, BeforeFirstHook, OverIsNotLive, ConnectHookRan, Told, Unended, Has
  <2>4. FoundOut'
    BY <1>0, <1>1, <1>2, <1>3, <1>23, RespondingOnly, KillErrorOnly, Served
    DEF From, StatesKnown, SentLater, GoneIsLast, FoundOut, GivenUp, StreamsAreMarked, BothErrored
  <2>5. GivenUp'
    BY <1>0, <1>1, <1>2, <1>3, <1>23, RespondingOnly, KillErrorOnly, Served
    DEF From, StatesKnown, SentLater, GoneIsLast, FoundOut, GivenUp, Over
  <2>6. OutcomeDecides'
    BY <1>0, <1>1, <1>2, <1>3, <1>23, RespondingOnly, KillErrorOnly, Served
    DEF From, StatesKnown, SentLater, GivenUp, OutcomeDecides, Over, Undecided, Deciding, Concluding
  <2>7. QED
    BY <2>1, <2>2, <2>3, <2>4, <2>5, <2>6
<1>24. ASSUME From(ResponseHook, Finishing), Outcomes' = Outcomes + 1, hooks' # << >> PROVE Rest
  <2>1. StatesKnown' /\ StreamsAreMarked'
    BY <1>0, <1>1, <1>2, <1>3, <1>24, ResponseHookOnly, FinishingOnly, Served
    DEF From, StatesKnown, SentLater, StreamsAreMarked, Over
  <2>2. AtFirst' /\ BeforeFirstHook' /\ GoneIsLast'
    BY <1>0, <1>1, <1>2, <1>3, <1>24, ResponseHookOnly, FinishingOnly, Served
    DEF From, StatesKnown, AtFirst, BeforeFirstHook, GoneIsLast
  <2>3. OverIsNotLive' /\ ConnectHookRan'
    BY <1>0, <1>1, <1>2, <1>3, <1>24, ResponseHookOnly, FinishingOnly, Served
    DEF From, AtFirst, BeforeFirstHook, OverIsNotLive, ConnectHookRan, Told, Unended, Has
  <2>4. FoundOut'
    BY <1>0, <1>1, <1>2, <1>3, <1>24, ResponseHookOnly, FinishingOnly, Served
    DEF From, StatesKnown, SentLater, GoneIsLast, FoundOut, GivenUp, StreamsAreMarked, BothErrored
  <2>5. GivenUp'
    BY <1>0, <1>1, <1>2, <1>3, <1>24, ResponseHookOnly, FinishingOnly, Served
    DEF From, StatesKnown, SentLater, GoneIsLast, FoundOut, GivenUp, Over
  <2>6. OutcomeDecides'
    BY <1>0, <1>1, <1>2, <1>3, <1>24, ResponseHookOnly, FinishingOnly, Served
    DEF From, StatesKnown, SentLater, GivenUp, OutcomeDecides, Over, Undecided, Deciding, Concluding
  <2>7. QED
    BY <2>1, <2>2, <2>3, <2>4, <2>5, <2>6
<1>25. ASSUME From(OpeningError, OpeningFailed), Outcomes' = Outcomes + 1, hooks' # << >> PROVE Rest
  <2>1. StatesKnown' /\ StreamsAreMarked'
    BY <1>0, <1>1, <1>2, <1>3, <1>25, OpeningErrorOnly, OpeningFailedOnly, Served
    DEF From, StatesKnown, SentLater, StreamsAreMarked, Over
  <2>2. AtFirst' /\ BeforeFirstHook' /\ GoneIsLast'
    BY <1>0, <1>1, <1>2, <1>3, <1>25, OpeningErrorOnly, OpeningFailedOnly, Served
    DEF From, StatesKnown, AtFirst, BeforeFirstHook, GoneIsLast
  <2>3. OverIsNotLive' /\ ConnectHookRan'
    BY <1>0, <1>1, <1>2, <1>3, <1>25, OpeningErrorOnly, OpeningFailedOnly, Served
    DEF From, AtFirst, BeforeFirstHook, OverIsNotLive, ConnectHookRan, Told, Unended, Has
  <2>4. FoundOut'
    BY <1>0, <1>1, <1>2, <1>3, <1>25, OpeningErrorOnly, OpeningFailedOnly, Served
    DEF From, StatesKnown, SentLater, GoneIsLast, FoundOut, GivenUp, StreamsAreMarked, BothErrored
  <2>5. GivenUp'
    BY <1>0, <1>1, <1>2, <1>3, <1>25, OpeningErrorOnly, OpeningFailedOnly, Served
    DEF From, StatesKnown, SentLater, GoneIsLast, FoundOut, GivenUp, Over
  <2>6. OutcomeDecides'
    BY <1>0, <1>1, <1>2, <1>3, <1>25, OpeningErrorOnly, OpeningFailedOnly, Served
    DEF From, StatesKnown, SentLater, GivenUp, OutcomeDecides, Over, Undecided, Deciding, Concluding
  <2>7. QED
    BY <2>1, <2>2, <2>3, <2>4, <2>5, <2>6
<1>26. ASSUME From(RefusalError, Refusing), Outcomes' = Outcomes + 1, hooks' # << >> PROVE Rest
  <2>1. StatesKnown' /\ StreamsAreMarked'
    BY <1>0, <1>1, <1>2, <1>3, <1>26, RefusalErrorOnly, RefusingOnly, Served
    DEF From, StatesKnown, SentLater, StreamsAreMarked, Over
  <2>2. AtFirst' /\ BeforeFirstHook' /\ GoneIsLast'
    BY <1>0, <1>1, <1>2, <1>3, <1>26, RefusalErrorOnly, RefusingOnly, Served
    DEF From, StatesKnown, AtFirst, BeforeFirstHook, GoneIsLast
  <2>3. OverIsNotLive' /\ ConnectHookRan'
    BY <1>0, <1>1, <1>2, <1>3, <1>26, RefusalErrorOnly, RefusingOnly, Served
    DEF From, AtFirst, BeforeFirstHook, OverIsNotLive, ConnectHookRan, Told, Unended, Has
  <2>4. FoundOut'
    BY <1>0, <1>1, <1>2, <1>3, <1>26, RefusalErrorOnly, RefusingOnly, Served
    DEF From, StatesKnown, SentLater, GoneIsLast, FoundOut, GivenUp, StreamsAreMarked, BothErrored
  <2>5. GivenUp'
    BY <1>0, <1>1, <1>2, <1>3, <1>26, RefusalErrorOnly, RefusingOnly, Served
    DEF From, StatesKnown, SentLater, GoneIsLast, FoundOut, GivenUp, Over
  <2>6. OutcomeDecides'
    BY <1>0, <1>1, <1>2, <1>3, <1>26, RefusalErrorOnly, RefusingOnly, Served
    DEF From, StatesKnown, SentLater, GivenUp, OutcomeDecides, Over, Undecided, Deciding, Concluding
  <2>7. QED
    BY <2>1, <2>2, <2>3, <2>4, <2>5, <2>6
<1>27. ASSUME From(KillError, Killing), Outcomes' = Outcomes + 1, hooks' # << >> PROVE Rest
  <2>1. StatesKnown' /\ StreamsAreMarked'
    BY <1>0, <1>1, <1>2, <1>3, <1>27, KillErrorOnly, KillingOnly, Served
    DEF From, StatesKnown, SentLater, StreamsAreMarked, Over
  <2>2. AtFirst' /\ BeforeFirstHook' /\ GoneIsLast'
    BY <1>0, <1>1, <1>2, <1>3, <1>27, KillErrorOnly, KillingOnly, Served
    DEF From, StatesKnown, AtFirst, BeforeFirstHook, GoneIsLast
  <2>3. OverIsNotLive' /\ ConnectHookRan'
    BY <1>0, <1>1, <1>2, <1>3, <1>27, KillErrorOnly, KillingOnly, Served
    DEF From, AtFirst, BeforeFirstHook, OverIsNotLive, ConnectHookRan, Told, Unended, Has
  <2>4. FoundOut'
    BY <1>0, <1>1, <1>2, <1>3, <1>27, KillErrorOnly, KillingOnly, Served
    DEF From, StatesKnown, SentLater, GoneIsLast, FoundOut, GivenUp, StreamsAreMarked, BothErrored
  <2>5. GivenUp'
    BY <1>0, <1>1, <1>2, <1>3, <1>27, KillErrorOnly, KillingOnly, Served
    DEF From, StatesKnown, SentLater, GoneIsLast, FoundOut, GivenUp, Over
  <2>6. OutcomeDecides'
    BY <1>0, <1>1, <1>2, <1>3, <1>27, KillErrorOnly, KillingOnly, Served
    DEF From, StatesKnown, SentLater, GivenUp, OutcomeDecides, Over, Undecided, Deciding, Concluding
  <2>7. QED
    BY <2>1, <2>2, <2>3, <2>4, <2>5, <2>6
<1>28. ASSUME From(RequestErrorHook, AfterRequestError), Outcomes' = Outcomes + 1, hooks' # << >> PROVE Rest
  <2>1. StatesKnown' /\ StreamsAreMarked'
    BY <1>0, <1>1, <1>2, <1>3, <1>28, RequestErrorHookOnly, AfterRequestErrorOnly, Served
    DEF From, StatesKnown, SentLater, StreamsAreMarked, Over
  <2>2. AtFirst' /\ BeforeFirstHook' /\ GoneIsLast'
    BY <1>0, <1>1, <1>2, <1>3, <1>28, RequestErrorHookOnly, AfterRequestErrorOnly, Served
    DEF From, StatesKnown, AtFirst, BeforeFirstHook, GoneIsLast
  <2>3. OverIsNotLive' /\ ConnectHookRan'
    BY <1>0, <1>1, <1>2, <1>3, <1>28, RequestErrorHookOnly, AfterRequestErrorOnly, Served
    DEF From, AtFirst, BeforeFirstHook, OverIsNotLive, ConnectHookRan, Told, Unended, Has
  <2>4. FoundOut'
    BY <1>0, <1>1, <1>2, <1>3, <1>28, RequestErrorHookOnly, AfterRequestErrorOnly, Served
    DEF From, StatesKnown, SentLater, GoneIsLast, FoundOut, GivenUp, StreamsAreMarked, BothErrored
  <2>5. GivenUp'
    BY <1>0, <1>1, <1>2, <1>3, <1>28, RequestErrorHookOnly, AfterRequestErrorOnly, Served
    DEF From, StatesKnown, SentLater, GoneIsLast, FoundOut, GivenUp, Over
  <2>6. OutcomeDecides'
    BY <1>0, <1>1, <1>2, <1>3, <1>28, RequestErrorHookOnly, AfterRequestErrorOnly, Served
    DEF From, StatesKnown, SentLater, GivenUp, OutcomeDecides, Over, Undecided, Deciding, Concluding
  <2>7. QED
    BY <2>1, <2>2, <2>3, <2>4, <2>5, <2>6
<1>29. ASSUME From(ResponseErrorHook, AfterResponseError), Outcomes' = Outcomes + 1, hooks' # << >> PROVE Rest
  <2>1. StatesKnown' /\ StreamsAreMarked'
    BY <1>0, <1>1, <1>2, <1>3, <1>29, ResponseErrorHookOnly, AfterResponseErrorOnly, Served
    DEF From, StatesKnown, SentLater, StreamsAreMarked, Over
  <2>2. AtFirst' /\ BeforeFirstHook' /\ GoneIsLast'
    BY <1>0, <1>1, <1>2, <1>3, <1>29, ResponseErrorHookOnly, AfterResponseErrorOnly, Served
    DEF From, StatesKnown, AtFirst, BeforeFirstHook, GoneIsLast
  <2>3. OverIsNotLive' /\ ConnectHookRan'
    BY <1>0, <1>1, <1>2, <1>3, <1>29, ResponseErrorHookOnly, AfterResponseErrorOnly, Served
    DEF From, AtFirst, BeforeFirstHook, OverIsNotLive, ConnectHookRan, Told, Unended, Has
  <2>4. FoundOut'
    BY <1>0, <1>1, <1>2, <1>3, <1>29, ResponseErrorHookOnly, AfterResponseErrorOnly, Served
    DEF From, StatesKnown, SentLater, GoneIsLast, FoundOut, GivenUp, StreamsAreMarked, BothErrored
  <2>5. GivenUp'
    BY <1>0, <1>1, <1>2, <1>3, <1>29, ResponseErrorHookOnly, AfterResponseErrorOnly, Served
    DEF From, StatesKnown, SentLater, GoneIsLast, FoundOut, GivenUp, Over
  <2>6. OutcomeDecides'
    BY <1>0, <1>1, <1>2, <1>3, <1>29, ResponseErrorHookOnly, AfterResponseErrorOnly, Served
    DEF From, StatesKnown, SentLater, GivenUp, OutcomeDecides, Over, Undecided, Deciding, Concluding
  <2>7. QED
    BY <2>1, <2>2, <2>3, <2>4, <2>5, <2>6
<1>30. QED
  BY <1>3, <1>4, <1>5, <1>6, <1>7, <1>8, <1>9, <1>10, <1>11, <1>12, <1>13, <1>14, <1>15, <1>16, <1>17, <1>18, <1>19, <1>20, <1>21, <1>22, <1>23, <1>24, <1>25, <1>26, <1>27, <1>28, <1>29, <1>0 DEF IInv, ProgramsOnly, GoesOn, Decides
-----------------------------------------------------------------------------
(* What the event that is taken tells about the queue and what is left of it. *)
SomethingTaken ==
  /\ queue' \in Seq(Events)
  /\ Left(queue') => Left(queue)
  /\ FromServer(queue') => FromServer(queue)
  /\ Responded(queue') => Responded(queue)
  /\ ServedAfterEnd(queue') => ServedAfterEnd(queue)
  /\ NothingAfterEnd(queue) => NothingAfterEnd(queue')

RequestErrorTaken ==
  /\ queue' \in Seq(Events)
  /\ Left(queue)
  /\ FromServer(queue') <=> FromServer(queue)
  /\ Responded(queue') <=> Responded(queue)
  /\ NothingAfterEnd(queue) => ~Left(queue')
  /\ Responded(queue') => ServedAfterEnd(queue)
  /\ NothingAfterEnd(queue) => NothingAfterEnd(queue')

ResponseErrorTaken ==
  /\ queue' \in Seq(Events)
  /\ Left(queue') <=> Left(queue)
  /\ FromServer(queue)
  /\ Responded(queue') <=> Responded(queue)
  /\ ServedAfterEnd(queue') => ServedAfterEnd(queue)
  /\ NothingAfterEnd(queue) => NothingAfterEnd(queue')

RequestTaken ==
  /\ queue' \in Seq(Events)
  /\ Left(queue') <=> Left(queue)
  /\ FromServer(queue') <=> FromServer(queue)
  /\ Responded(queue') <=> Responded(queue)
  /\ ServedAfterEnd(queue') => ServedAfterEnd(queue)
  /\ NothingAfterEnd(queue) => NothingAfterEnd(queue')

ResponseTaken ==
  /\ queue' \in Seq(Events)
  /\ Left(queue') <=> Left(queue)
  /\ FromServer(queue)
  /\ Responded(queue)
  /\ ServedAfterEnd(queue') => ServedAfterEnd(queue)
  /\ NothingAfterEnd(queue) => NothingAfterEnd(queue')

LEMMA CountsKept ==
  ASSUME TypeOK, ChunksCounted, queue # << >>, queue' = Tail(queue), UNCHANGED <<body, chunks>>
  PROVE  ChunksCounted'
<1>1. /\ body["request"] \in Nat /\ body["response"] \in Nat
      /\ chunks["request"] \in Nat /\ chunks["response"] \in Nat
  BY HttpStreamAssumption DEF TypeOK, Sides
<1>2. ASSUME NEW f
      PROVE  /\ Count(queue, f) \in Nat /\ Count(queue', f) \in Nat
             /\ Count(queue', f) <= Count(queue, f)
  BY CountTaking DEF TypeOK
<1>3. /\ Count(queue, "RequestData") \in Nat /\ Count(queue', "RequestData") \in Nat
      /\ Count(queue', "RequestData") <= Count(queue, "RequestData")
      /\ Count(queue, "ResponseData") \in Nat /\ Count(queue', "ResponseData") \in Nat
      /\ Count(queue', "ResponseData") <= Count(queue, "ResponseData")
  BY <1>2
<1>4. body' = body /\ chunks' = chunks
  OBVIOUS
<1>5. /\ body["request"] + Count(queue, "RequestData") <= chunks["request"]
      /\ body["response"] + Count(queue, "ResponseData") <= chunks["response"]
  BY DEF ChunksCounted
<1>6. body["request"] + Count(queue', "RequestData") <= chunks["request"]
  BY <1>1, <1>3, <1>5
<1>7. body["response"] + Count(queue', "ResponseData") <= chunks["response"]
  BY <1>1, <1>3, <1>5
<1>8. QED
  BY <1>4, <1>6, <1>7 DEF ChunksCounted

-----------------------------------------------------------------------------
(* Every step keeps the invariant. *)
LEMMA StepInv == IInv /\ [Next]_vars => IInv'
<1> SUFFICES ASSUME IInv, [Next]_vars PROVE IInv'
  OBVIOUS
<1>0. /\ TypeOK /\ ProgramsOnly /\ StatesKnown /\ SentLater /\ StreamsAreMarked
      /\ AtFirst /\ BeforeFirstHook /\ GoneIsLast /\ FoundOut /\ GivenUp
      /\ OutcomeDecides /\ OverIsNotLive /\ ChunksCounted /\ ConnectHookRan
  BY DEF IInv
<1>t. /\ cstate \in {"wait", "consume", "stream", "done", "errored"}
      /\ sstate \in {"uninitialized", "wait", "consume", "stream", "done", "errored"}
      /\ flow \in Flows /\ todo \in Programs /\ queue \in Seq(Events)
      /\ toClient \in Seq(ResponseEvents \cup {"ResponseError"})
      /\ toServer \in Seq(RequestEvents \cup {"RequestError"})
      /\ hooks \in Seq(Hooks) /\ MaxChunks \in Nat
      /\ body \in [Sides -> 0..MaxChunks] /\ chunks \in [Sides -> 0..MaxChunks]
  BY <1>0, HttpStreamAssumption DEF TypeOK, ProgramsOnly
<1>o. Outcomes \in Nat
  BY <1>t, OutcomesAreNat
<1>b. body["request"] \in Nat /\ body["response"] \in Nat
  BY <1>t DEF Sides
<1>1. ASSUME NEW e, NEW from, NEW to, ClientSends(e, from, to),
             e \in RequestEvents, "idle" \in from => e = "RequestHeaders", "gone" \notin from,
             to \in {"open", "trailers", "ended"}, chunks' \in [Sides -> 0..MaxChunks],
             chunks'["response"] = chunks["response"],
             IF e = "RequestData" THEN chunks'["request"] = chunks["request"] + 1
                                  ELSE chunks'["request"] = chunks["request"]
      PROVE  IInv'
  <2>1. /\ client # "gone" /\ client' = to /\ to # "idle" /\ (client = "idle" => e = "RequestHeaders")
        /\ queue' = Append(queue, e) /\ ~dropped /\ (todo = << >> => queue = << >>)
        /\ UNCHANGED <<cstate, sstate, flow, body, todo, toClient, toServer, hooks, dropped,
                    passthrough, server, bodyless>>
    BY <1>1 DEF ClientSends, Arrive, Received, Paused, states, sent, ends
  <2>2. /\ queue' \in Seq(Events) /\ queue' # << >>
        /\ queue = << >> => queue' = <<e>>
        /\ Left(queue') <=> Left(queue)
        /\ FromServer(queue') <=> FromServer(queue)
        /\ Responded(queue') <=> Responded(queue)
        /\ ServedAfterEnd(queue') => ServedAfterEnd(queue)
        /\ (NothingAfterEnd(queue) /\ ~Left(queue)) => NothingAfterEnd(queue')
    BY <1>t, <2>1, PutsRequest, <1>1
  <2>3. /\ Count(queue, "RequestData") \in Nat /\ Count(queue', "RequestData") \in Nat /\ (e # "RequestData" => Count(queue', "RequestData") = Count(queue, "RequestData"))
          /\ (e = "RequestData" => Count(queue', "RequestData") = Count(queue, "RequestData") + 1)
        /\ Count(queue, "ResponseData") \in Nat /\ Count(queue', "ResponseData") \in Nat /\ (e # "ResponseData" => Count(queue', "ResponseData") = Count(queue, "ResponseData"))
          /\ (e = "ResponseData" => Count(queue', "ResponseData") = Count(queue, "ResponseData") + 1)
    BY <1>t, <2>1, <1>1, CountPutting
      DEF Events, Errors, RequestEvents, ResponseEvents
  <2>4. Outcomes' = Outcomes /\ (Overtaken => Overtaken') /\ Sent' = Sent
    BY <2>1 DEF Outcomes, Overtaken, Sent
  <2>5. /\ Count(queue', "ResponseData") = Count(queue, "ResponseData")
        /\ chunks'["response"] = chunks["response"]
        /\ \/ /\ Count(queue', "RequestData") = Count(queue, "RequestData") + 1
              /\ chunks'["request"] = chunks["request"] + 1
           \/ /\ Count(queue', "RequestData") = Count(queue, "RequestData")
              /\ chunks'["request"] = chunks["request"]
    BY <1>t, <2>1, <1>1, <2>3 DEF RequestEvents
  <2>6. /\ body["request"] + Count(queue, "RequestData") <= chunks["request"]
        /\ body["response"] + Count(queue, "ResponseData") <= chunks["response"]
    BY <1>0 DEF ChunksCounted
  <2>7. client' \in {"idle", "open", "trailers", "ended", "gone"}
    BY <1>t, <2>1, <1>1
  <2>8. chunks' \in [Sides -> 0..MaxChunks]
    BY <1>t, <2>1, <1>1
  <2>9. /\ body["request"] \in Nat /\ body["response"] \in Nat
        /\ chunks["request"] \in Nat /\ chunks["response"] \in Nat
        /\ body'["request"] \in Nat /\ body'["response"] \in Nat
        /\ chunks'["request"] \in Nat /\ chunks'["response"] \in Nat
    BY <1>t, <2>1, <2>7, <2>8 DEF Sides
  <2>10. TypeOK'
    BY <1>0, <2>1, <2>2, <2>7, <2>8 DEF TypeOK
  <2>11. ChunksCounted'
    BY <2>1, <2>3, <2>9, <2>6, <2>5 DEF ChunksCounted
  <2>12. SentLater'
    BY <1>0, <2>1, <2>2, <2>4, <2>5 DEF SentLater, StatesKnown, Over
  <2>13. AtFirst' /\ GoneIsLast'
    BY <1>0, <2>1, <2>2, <2>4, <2>5 DEF AtFirst, StatesKnown, Over, GoneIsLast
  <2>14. FoundOut'
    BY <1>0, <2>1, <2>2, <2>4, Served, <2>5
      DEF FoundOut, BothErrored, GoneIsLast, GivenUp, Over, StatesKnown,
       SentLater, StreamsAreMarked
  <2>15. GivenUp'
    BY <1>0, <2>1, <2>2, <2>4, <2>5
      DEF GivenUp, Over, GoneIsLast, FoundOut, BothErrored, StatesKnown,
       SentLater
  <2>16. OutcomeDecides'
    BY <1>0, <2>1, <2>2, <2>4, <1>o, <2>5
      DEF OutcomeDecides, Over, StatesKnown, GivenUp, SentLater, Undecided,
       Deciding, Concluding
  <2>17. ProgramsOnly' /\ StatesKnown' /\ StreamsAreMarked'
       /\ BeforeFirstHook' /\ OverIsNotLive'
       /\ ConnectHookRan'
    BY <1>0, <2>1, <2>4
      DEF ProgramsOnly, StatesKnown, Over, StreamsAreMarked, BeforeFirstHook,
       OverIsNotLive, ConnectHookRan, Has
  <2>18. QED
    BY <2>10, <2>11, <2>12, <2>13, <2>14, <2>15, <2>16, <2>17 DEF IInv
<1>2. ASSUME NEW e, NEW from, NEW to, ClientSends(e, from, to),
             e = "RequestError", from \cap {"idle", "gone"} = {}, to = "gone",
             UNCHANGED chunks
      PROVE  IInv'
  <2>1. /\ client \notin {"idle", "gone"} /\ client' = "gone"
        /\ queue' = Append(queue, "RequestError") /\ ~dropped /\ (todo = << >> => queue = << >>)
        /\ UNCHANGED <<cstate, sstate, flow, body, todo, toClient, toServer, hooks, dropped,
                    passthrough, server, bodyless, chunks>>
    BY <1>2 DEF ClientSends, Arrive, Received, Paused, states, sent, ends
  <2>2. /\ queue' \in Seq(Events) /\ queue' # << >>
        /\ queue = << >> => queue' = <<"RequestError">>
        /\ Left(queue')
        /\ FromServer(queue') <=> FromServer(queue)
        /\ Responded(queue') <=> Responded(queue)
        /\ ServedAfterEnd(queue') => ServedAfterEnd(queue)
        /\ (NothingAfterEnd(queue) /\ ~Left(queue)) => NothingAfterEnd(queue')
    BY <1>t, <2>1, PutsRequestError
  <2>3. /\ Count(queue, "RequestData") \in Nat /\ Count(queue', "RequestData") \in Nat /\ ("RequestError" # "RequestData" => Count(queue', "RequestData") = Count(queue, "RequestData"))
          /\ ("RequestError" = "RequestData" => Count(queue', "RequestData") = Count(queue, "RequestData") + 1)
        /\ Count(queue, "ResponseData") \in Nat /\ Count(queue', "ResponseData") \in Nat /\ ("RequestError" # "ResponseData" => Count(queue', "ResponseData") = Count(queue, "ResponseData"))
          /\ ("RequestError" = "ResponseData" => Count(queue', "ResponseData") = Count(queue, "ResponseData") + 1)
    BY <1>t, <2>1, <1>2, CountPutting
      DEF Events, Errors, RequestEvents, ResponseEvents
  <2>4. Outcomes' = Outcomes /\ (Overtaken => Overtaken') /\ Sent' = Sent
    BY <2>1 DEF Outcomes, Overtaken, Sent
  <2>5. /\ body["request"] + Count(queue, "RequestData") <= chunks["request"]
        /\ body["response"] + Count(queue, "ResponseData") <= chunks["response"]
    BY <1>0 DEF ChunksCounted
  <2>6. client' \in {"idle", "open", "trailers", "ended", "gone"}
    BY <1>t, <2>1
  <2>7. /\ body["request"] \in Nat /\ body["response"] \in Nat
        /\ chunks["request"] \in Nat /\ chunks["response"] \in Nat
        /\ body'["request"] \in Nat /\ body'["response"] \in Nat
        /\ chunks'["request"] \in Nat /\ chunks'["response"] \in Nat
    BY <1>t, <2>1, <2>6 DEF Sides
  <2>8. TypeOK'
    BY <1>0, <2>1, <2>2, <2>6 DEF TypeOK
  <2>9. ChunksCounted'
    BY <2>1, <2>3, <2>7, <2>5 DEF ChunksCounted
  <2>10. SentLater'
    BY <1>0, <2>1, <2>2, <2>4 DEF SentLater, StatesKnown, Over
  <2>11. AtFirst' /\ GoneIsLast'
    BY <1>0, <2>1, <2>2, <2>4 DEF AtFirst, StatesKnown, Over, GoneIsLast
  <2>12. FoundOut'
    BY <1>0, <2>1, <2>2, <2>4, Served
      DEF FoundOut, BothErrored, GoneIsLast, GivenUp, Over, StatesKnown,
       SentLater, StreamsAreMarked
  <2>13. GivenUp'
    BY <1>0, <2>1, <2>2, <2>4
      DEF GivenUp, Over, GoneIsLast, FoundOut, BothErrored, StatesKnown,
       SentLater
  <2>14. OutcomeDecides'
    BY <1>0, <2>1, <2>2, <2>4, <1>o
      DEF OutcomeDecides, Over, StatesKnown, GivenUp, SentLater, Undecided,
       Deciding, Concluding
  <2>15. ProgramsOnly' /\ StatesKnown' /\ StreamsAreMarked'
       /\ BeforeFirstHook' /\ OverIsNotLive'
       /\ ConnectHookRan'
    BY <1>0, <2>1, <2>4
      DEF ProgramsOnly, StatesKnown, Over, StreamsAreMarked, BeforeFirstHook,
       OverIsNotLive, ConnectHookRan, Has
  <2>16. QED
    BY <2>8, <2>9, <2>10, <2>11, <2>12, <2>13, <2>14, <2>15 DEF IInv
<1>3. ASSUME NEW e, NEW from, NEW to, ServerSends(e, from, to),
             e \in ResponseEvents, "gone" \notin from,
             to \in {"open", "trailers", "early", "ended"},
             chunks' \in [Sides -> 0..MaxChunks],
             chunks'["request"] = chunks["request"],
             IF e = "ResponseData" THEN chunks'["response"] = chunks["response"] + 1
                                   ELSE chunks'["response"] = chunks["response"]
      PROVE  IInv'
  <2>1. /\ server # "gone" /\ server' = to /\ Sent
        /\ queue' = Append(queue, e) /\ ~dropped /\ (todo = << >> => queue = << >>)
        /\ UNCHANGED <<cstate, sstate, flow, body, todo, toClient, toServer, hooks, dropped,
                    passthrough, client, bodyless>>
    BY <1>3
      DEF ServerSends, Arrive, Received, Paused, states, sent, ends, Sent, Has
  <2>2. /\ queue' \in Seq(Events) /\ queue' # << >>
        /\ queue = << >> => queue' = <<e>>
        /\ Left(queue') <=> Left(queue)
        /\ FromServer(queue')
        /\ Responded(queue')
        /\ ServedAfterEnd(queue') => (ServedAfterEnd(queue) \/ Left(queue))
        /\ NothingAfterEnd(queue) => NothingAfterEnd(queue')
    BY <1>t, <2>1, PutsResponse, <1>3
  <2>3. /\ Count(queue, "RequestData") \in Nat /\ Count(queue', "RequestData") \in Nat /\ (e # "RequestData" => Count(queue', "RequestData") = Count(queue, "RequestData"))
          /\ (e = "RequestData" => Count(queue', "RequestData") = Count(queue, "RequestData") + 1)
        /\ Count(queue, "ResponseData") \in Nat /\ Count(queue', "ResponseData") \in Nat /\ (e # "ResponseData" => Count(queue', "ResponseData") = Count(queue, "ResponseData"))
          /\ (e = "ResponseData" => Count(queue', "ResponseData") = Count(queue, "ResponseData") + 1)
    BY <1>t, <2>1, <1>3, CountPutting
      DEF Events, Errors, RequestEvents, ResponseEvents
  <2>4. Outcomes' = Outcomes /\ Overtaken' = Overtaken /\ Sent' = Sent
    BY <2>1 DEF Outcomes, Overtaken, Sent
  <2>5. ServedAfterEnd(queue') => (ServedAfterEnd(queue) \/ (Left(queue) /\ todo # << >>))
    BY <1>t, <2>1, <2>2, NothingEmpty
  <2>6. todo # << >> => /\ todo \notin Opened \cup Reopened
                       /\ (todo \in Ending => todo = <<"request", "end_request">>)
    BY <1>t, <2>1, <1>3, PausedAt DEF ServerSends, Arrive, Paused
  <2>7. /\ Count(queue', "RequestData") = Count(queue, "RequestData")
        /\ chunks'["request"] = chunks["request"]
        /\ \/ /\ Count(queue', "ResponseData") = Count(queue, "ResponseData") + 1
              /\ chunks'["response"] = chunks["response"] + 1
           \/ /\ Count(queue', "ResponseData") = Count(queue, "ResponseData")
              /\ chunks'["response"] = chunks["response"]
    BY <1>t, <2>1, <1>3, <2>3 DEF ResponseEvents
  <2>8. /\ body["request"] + Count(queue, "RequestData") <= chunks["request"]
        /\ body["response"] + Count(queue, "ResponseData") <= chunks["response"]
    BY <1>0 DEF ChunksCounted
  <2>9. server' \in {"idle", "open", "trailers", "early", "ended", "gone"}
    BY <1>t, <2>1, <1>3
  <2>10. chunks' \in [Sides -> 0..MaxChunks]
    BY <1>t, <2>1, <1>3
  <2>11. /\ body["request"] \in Nat /\ body["response"] \in Nat
         /\ chunks["request"] \in Nat /\ chunks["response"] \in Nat
         /\ body'["request"] \in Nat /\ body'["response"] \in Nat
         /\ chunks'["request"] \in Nat /\ chunks'["response"] \in Nat
    BY <1>t, <2>1, <2>9, <2>10 DEF Sides
  <2>12. TypeOK'
    BY <1>0, <2>1, <2>2, <2>9, <2>10 DEF TypeOK
  <2>13. ChunksCounted'
    BY <2>1, <2>3, <2>11, <2>8, <2>5, <2>6, <2>7 DEF ChunksCounted
  <2>14. SentLater'
    BY <1>0, <2>1, <2>2, <2>4, <2>5, <2>6, <2>7 DEF SentLater, StatesKnown, Over
  <2>15. AtFirst' /\ GoneIsLast'
    BY <1>0, <2>1, <2>2, <2>4, <2>5, <2>6, <2>7
      DEF AtFirst, StatesKnown, Over, SentLater, GoneIsLast
  <2>16. FoundOut'
    BY <1>0, <2>1, <2>2, <2>4, Served, <2>5, <2>6, <2>7
      DEF FoundOut, BothErrored, GoneIsLast, StatesKnown, Over, SentLater,
       Programs, Working, Undecided, Deciding, Concluding, ProgramsOnly
  <2>17. GivenUp'
    BY <1>0, <2>1, <2>2, <2>4, <2>5, <2>6, <2>7
      DEF GivenUp, Over, GoneIsLast, FoundOut, BothErrored, StatesKnown,
       SentLater
  <2>18. OutcomeDecides'
    BY <1>0, <2>1, <2>2, <2>4, <1>o, <2>5, <2>6, <2>7
      DEF OutcomeDecides, Over, StatesKnown, GivenUp, SentLater, Undecided,
       Deciding, Concluding
  <2>19. ProgramsOnly' /\ StatesKnown' /\ StreamsAreMarked'
       /\ BeforeFirstHook' /\ OverIsNotLive'
       /\ ConnectHookRan'
    BY <1>0, <2>1, <2>4
      DEF ProgramsOnly, StatesKnown, Over, StreamsAreMarked, BeforeFirstHook,
       OverIsNotLive, ConnectHookRan, Has
  <2>20. QED
    BY <2>12, <2>13, <2>14, <2>15, <2>16, <2>17, <2>18, <2>19 DEF IInv
<1>4. ASSUME NEW e, NEW from, NEW to, ServerSends(e, from, to),
             e = "ResponseError", "gone" \notin from, to = "gone", UNCHANGED chunks
      PROVE  IInv'
  <2>1. /\ server # "gone" /\ server' = to /\ Sent
        /\ queue' = Append(queue, "ResponseError") /\ ~dropped /\ (todo = << >> => queue = << >>)
        /\ UNCHANGED <<cstate, sstate, flow, body, todo, toClient, toServer, hooks, dropped,
                    passthrough, client, bodyless, chunks>>
    BY <1>4
      DEF ServerSends, Arrive, Received, Paused, states, sent, ends, Sent, Has
  <2>2. /\ queue' \in Seq(Events) /\ queue' # << >>
        /\ queue = << >> => queue' = <<"ResponseError">>
        /\ Left(queue') <=> Left(queue)
        /\ FromServer(queue')
        /\ Responded(queue') <=> Responded(queue)
        /\ ServedAfterEnd(queue') => ServedAfterEnd(queue)
        /\ NothingAfterEnd(queue) => NothingAfterEnd(queue')
    BY <1>t, <2>1, PutsResponseError
  <2>3. /\ Count(queue, "RequestData") \in Nat /\ Count(queue', "RequestData") \in Nat /\ ("ResponseError" # "RequestData" => Count(queue', "RequestData") = Count(queue, "RequestData"))
          /\ ("ResponseError" = "RequestData" => Count(queue', "RequestData") = Count(queue, "RequestData") + 1)
        /\ Count(queue, "ResponseData") \in Nat /\ Count(queue', "ResponseData") \in Nat /\ ("ResponseError" # "ResponseData" => Count(queue', "ResponseData") = Count(queue, "ResponseData"))
          /\ ("ResponseError" = "ResponseData" => Count(queue', "ResponseData") = Count(queue, "ResponseData") + 1)
    BY <1>t, <2>1, <1>4, CountPutting
      DEF Events, Errors, RequestEvents, ResponseEvents
  <2>4. Outcomes' = Outcomes /\ Overtaken' = Overtaken /\ Sent' = Sent
    BY <2>1 DEF Outcomes, Overtaken, Sent
  <2>5. /\ body["request"] + Count(queue, "RequestData") <= chunks["request"]
        /\ body["response"] + Count(queue, "ResponseData") <= chunks["response"]
    BY <1>0 DEF ChunksCounted
  <2>6. server' \in {"idle", "open", "trailers", "early", "ended", "gone"}
    BY <1>t, <2>1, <1>4
  <2>7. /\ body["request"] \in Nat /\ body["response"] \in Nat
        /\ chunks["request"] \in Nat /\ chunks["response"] \in Nat
        /\ body'["request"] \in Nat /\ body'["response"] \in Nat
        /\ chunks'["request"] \in Nat /\ chunks'["response"] \in Nat
    BY <1>t, <2>1, <2>6 DEF Sides
  <2>8. TypeOK'
    BY <1>0, <2>1, <2>2, <2>6 DEF TypeOK
  <2>9. ChunksCounted'
    BY <2>1, <2>3, <2>7, <2>5 DEF ChunksCounted
  <2>10. SentLater'
    BY <1>0, <2>1, <2>2, <2>4 DEF SentLater, StatesKnown, Over
  <2>11. AtFirst' /\ GoneIsLast'
    BY <1>0, <2>1, <2>2, <2>4
      DEF AtFirst, StatesKnown, Over, SentLater, GoneIsLast
  <2>12. FoundOut'
    BY <1>0, <2>1, <2>2, <2>4, Served
      DEF FoundOut, BothErrored, GoneIsLast, GivenUp, Over, StatesKnown,
       SentLater, StreamsAreMarked
  <2>13. GivenUp'
    BY <1>0, <2>1, <2>2, <2>4
      DEF GivenUp, Over, GoneIsLast, FoundOut, BothErrored, StatesKnown,
       SentLater
  <2>14. OutcomeDecides'
    BY <1>0, <2>1, <2>2, <2>4, <1>o
      DEF OutcomeDecides, Over, StatesKnown, GivenUp, SentLater, Undecided,
       Deciding, Concluding
  <2>15. ProgramsOnly' /\ StatesKnown' /\ StreamsAreMarked'
       /\ BeforeFirstHook' /\ OverIsNotLive'
       /\ ConnectHookRan'
    BY <1>0, <2>1, <2>4
      DEF ProgramsOnly, StatesKnown, Over, StreamsAreMarked, BeforeFirstHook,
       OverIsNotLive, ConnectHookRan, Has
  <2>16. QED
    BY <2>8, <2>9, <2>10, <2>11, <2>12, <2>13, <2>14, <2>15 DEF IInv
<1>5. CASE UserKills
  <2>1. UNCHANGED <<cstate, sstate, body, todo, queue, toClient, toServer, hooks,
                    dropped, passthrough, client, server, bodyless, chunks>>
    BY <1>5 DEF UserKills, states, sent, ends, peers
  <2>2. /\ flow' \in Flows
        /\ flow'.live = FALSE /\ flow'.stream = flow.stream
    BY <1>t, <1>5 DEF UserKills, Flows, Sides
  <2>3. Outcomes' = Outcomes /\ (Overtaken => Overtaken') /\ Sent' = Sent /\ Told' = Told
    BY <2>1, <2>2 DEF Outcomes, Overtaken, Sent, Told
  <2>4. TypeOK'
    BY <1>0, <2>1, <2>2 DEF TypeOK
  <2>5. StreamsAreMarked'
    BY <1>0, <2>1, <2>2, <2>3 DEF StreamsAreMarked, StatesKnown, Over
  <2>6. OverIsNotLive'
    BY <1>0, <2>1, <2>2, <2>3
      DEF OverIsNotLive, AtFirst, BeforeFirstHook, Told, Unended
  <2>7. FoundOut'
    BY <1>0, <2>1, <2>3, <2>2, Served
      DEF FoundOut, BothErrored, GoneIsLast, GivenUp, Over, StatesKnown,
       SentLater, StreamsAreMarked
  <2>8. GivenUp'
    BY <1>0, <2>1, <2>3, <2>2
      DEF GivenUp, Over, GoneIsLast, FoundOut, BothErrored, StatesKnown,
       SentLater
  <2>9. OutcomeDecides'
    BY <1>0, <2>1, <2>3, <2>2, <1>o
      DEF OutcomeDecides, Over, StatesKnown, GivenUp, SentLater, Undecided,
       Deciding, Concluding
  <2>10. ProgramsOnly' /\ StatesKnown' /\ SentLater' /\ AtFirst'
       /\ BeforeFirstHook' /\ GoneIsLast' /\ ChunksCounted'
       /\ ConnectHookRan'
    BY <1>0, <2>1, <2>3
      DEF ProgramsOnly, StatesKnown, Over, SentLater, AtFirst, BeforeFirstHook,
       GoneIsLast, ChunksCounted, ConnectHookRan, Has
  <2>11. QED
    BY <2>4, <2>5, <2>6, <2>7, <2>8, <2>9, <2>10 DEF IInv
<1>6. CASE Swallow
  <2>1. UNCHANGED <<cstate, sstate, flow, body, todo, toClient, toServer, hooks, dropped,
                    passthrough, client, server, bodyless, chunks>>
    BY <1>6 DEF Swallow, states, sent, ends, peers
  <2>2. todo = << >> /\ queue # << >> /\ queue' = Tail(queue)
    BY <1>6 DEF Swallow
  <2>3. SomethingTaken
    BY <1>t, <2>2, Takes DEF SomethingTaken
  <2>4. Outcomes' = Outcomes /\ Overtaken' = Overtaken /\ Sent' = Sent
    BY <2>1 DEF Outcomes, Overtaken, Sent
  <2>5. cstate # "wait"
    BY <1>t, <2>1, <2>2, <1>0, <1>6, IdleOnly
      DEF Swallow, StatesKnown, Working, Undecided, Deciding, Concluding
  <2>6. TypeOK'
    BY <1>0, <2>1, <2>3 DEF TypeOK, SomethingTaken
  <2>7. ChunksCounted'
    BY <1>0, <2>1, <2>2, CountsKept
  <2>8. SentLater'
    BY <1>0, <2>1, <2>2, IdleOnly, <2>3, <2>4, <2>5
      DEF SentLater, StatesKnown, Over, Working, Undecided, Deciding,
       Concluding, SomethingTaken
  <2>9. AtFirst' /\ GoneIsLast'
    BY <1>0, <2>1, <2>2, IdleOnly, <2>3, <2>4, <2>5
      DEF AtFirst, StatesKnown, Over, GoneIsLast, Working, Undecided, Deciding,
       Concluding, SomethingTaken
  <2>10. FoundOut'
    BY <1>0, <2>1, <2>2, IdleOnly, <2>3, <2>4, Served, <2>5
      DEF FoundOut, BothErrored, GoneIsLast, GivenUp, Over, StatesKnown,
       SentLater, StreamsAreMarked, Working, Undecided, Deciding, Concluding,
       SomethingTaken
  <2>11. GivenUp'
    BY <1>0, <2>1, <2>2, IdleOnly, <2>3, <2>4, <2>5
      DEF GivenUp, Over, GoneIsLast, FoundOut, BothErrored, StatesKnown,
       SentLater, Working, Undecided, Deciding, Concluding, SomethingTaken
  <2>12. OutcomeDecides'
    BY <1>0, <2>1, <2>2, IdleOnly, <2>3, <2>4, <1>o, <2>5
      DEF OutcomeDecides, Over, StatesKnown, GivenUp, SentLater, Working,
       Undecided, Deciding, Concluding, SomethingTaken
  <2>13. ProgramsOnly' /\ StatesKnown' /\ StreamsAreMarked'
       /\ BeforeFirstHook' /\ OverIsNotLive'
       /\ ConnectHookRan'
    BY <1>0, <2>1, <2>4
      DEF ProgramsOnly, StatesKnown, Over, StreamsAreMarked, BeforeFirstHook,
       OverIsNotLive, ConnectHookRan, Has
  <2>14. QED
    BY <2>6, <2>7, <2>8, <2>9, <2>10, <2>11, <2>12, <2>13 DEF IInv
<1>7. ASSUME HookEnds,
             todo \in Ending
      PROVE  IInv'
  <2>1. UNCHANGED <<cstate, sstate, body, queue, toClient, toServer, dropped,
                    passthrough, client, server, bodyless, chunks>>
    BY <1>7 DEF HookEnds, states, sent, ends, peers
  <2>2. /\ todo # << >>
        /\ todo = <<"request", "end_request">>
        /\ todo \in Ending
    BY <1>7 DEF HookEnds, Hooks, Ending
  <2>3. todo' = Tail(todo)
    BY <1>t, <1>7, <2>2 DEF HookEnds
  <2>4. todo' \in Ending
    BY <1>7, <2>2, <2>3 DEF Ending
  <2>5. hooks' = Append(hooks, "request") /\ "request" \in Hooks /\ flow' \in Changed("request")
    BY <1>7, <2>2 DEF HookEnds, Hooks
  <2>6. /\ hooks' \in Seq(Hooks) /\ hooks' # << >>
        /\ Range(hooks') = Range(hooks) \cup {"request"}
    BY <1>t, <2>5, HookRuns
  <2>7. Outcomes' = Outcomes
    BY <1>t, <2>5, HookRuns DEF Outcomes
  <2>8. /\ flow' \in Flows
        /\ flow'.live = flow.live
        /\ "request" \in flow.stream => "request" \in flow'.stream
    BY <1>t, <2>5, ChangedHow
  <2>9. Overtaken => Overtaken'
    BY <2>1, <2>8, <2>6 DEF Overtaken, Has
  <2>10. Outcomes' = Outcomes /\ (Overtaken => Overtaken')
    BY <2>7, <2>9
  <2>11. Sent' = Sent
    BY <2>1 DEF Sent
  <2>12. Told' = Told
    BY <2>1 DEF Told
  <2>13. hooks' # << >>
    BY <2>6
  <2>14. todo' \in Programs
    BY <2>4 DEF Programs, Working, Undecided, Deciding, Concluding
  <2>15. todo' \in Seq(Steps)
    BY <2>14, ProgramsAreSteps
  <2>16. hooks' \in Seq(Hooks)
    BY <1>t, <2>1, <2>6
  <2>17. TypeOK' /\ ProgramsOnly'
    BY <1>0, <2>1, <2>8, <2>15, <2>16, <2>14 DEF TypeOK, ProgramsOnly
  <2>18. StatesKnown' /\ StreamsAreMarked'
    BY <1>0, <2>1, <2>2, <2>4, EndingOnly, <2>8, <2>11, <2>13
      DEF StatesKnown, Over, SentLater, StreamsAreMarked
  <2>19. AtFirst' /\ BeforeFirstHook' /\ GoneIsLast'
    BY <1>0, <2>1, <2>2, <2>4, EndingOnly, <2>11, <2>13
      DEF AtFirst, StatesKnown, Over, BeforeFirstHook, GoneIsLast
  <2>20. OverIsNotLive' /\ ConnectHookRan'
    BY <1>0, <2>1, <2>2, <2>4, EndingOnly, <2>8, <2>11, <2>12, <2>13
      DEF OverIsNotLive, AtFirst, BeforeFirstHook, ConnectHookRan, Told,
       Unended, Has
  <2>21. FoundOut'
    BY <1>0, <2>1, <2>2, <2>4, EndingOnly, <2>10, <2>8, <2>11, Served, <2>13,
       <2>6
      DEF FoundOut, BothErrored, GoneIsLast, GivenUp, Over, StatesKnown,
       SentLater, StreamsAreMarked, Overtaken, Has
  <2>22. GivenUp'
    BY <1>0, <2>1, <2>2, <2>4, EndingOnly, <2>10, <2>8, <2>11, <2>13
      DEF GivenUp, Over, GoneIsLast, FoundOut, BothErrored, StatesKnown,
       SentLater
  <2>23. OutcomeDecides'
    BY <1>0, <2>1, <2>2, <2>4, EndingOnly, <2>10, <2>8, <2>11, <1>o, <2>13
      DEF OutcomeDecides, Over, StatesKnown, GivenUp, SentLater, Undecided,
       Deciding, Concluding
  <2>24. SentLater' /\ ChunksCounted'
    BY <1>0, <2>1, <2>11 DEF SentLater, ChunksCounted
  <2>25. QED
    BY <2>17, <2>18, <2>19, <2>20, <2>21, <2>22, <2>23, <2>24 DEF IInv
<1>8. ASSUME Connected,
             todo \in Opening
      PROVE  IInv'
  <2>1. UNCHANGED <<cstate, sstate, flow, body, queue, toClient, toServer, hooks,
                    dropped, passthrough, client, server, bodyless, chunks>>
    BY <1>8 DEF Connected, states, sent, ends, peers
  <2>2. /\ todo # << >>
        /\ todo = <<"get_connection", "stream_request", "expect_response">>
        /\ todo \in Opening
    BY <1>8 DEF Connected, At, Opening
  <2>3. todo' = Tail(todo)
    BY <1>t, <1>8, <2>2, Thens DEF Connected, Then
  <2>4. todo' \in Opening
    BY <1>8, <2>2, <2>3 DEF Opening
  <2>5. OnlyMoves
    BY <1>t, <2>1 DEF OnlyMoves, KeepsLife
  <2>6. QED
    BY <2>1, <2>5, <2>2, <2>4, <1>t, OpeningOnly, Moving
      DEF GoesOn, From, Outcomes
<1>9. ASSUME Connected,
             todo \in Reopening
      PROVE  IInv'
  <2>1. UNCHANGED <<cstate, sstate, flow, body, queue, toClient, toServer, hooks,
                    dropped, passthrough, client, server, bodyless, chunks>>
    BY <1>9 DEF Connected, states, sent, ends, peers
  <2>2. /\ todo # << >>
        /\ todo = <<"get_connection", "stream_request", "replay_request">>
        /\ todo \in Reopening
    BY <1>9 DEF Connected, At, Reopening
  <2>3. todo' = Tail(todo)
    BY <1>t, <1>9, <2>2, Thens DEF Connected, Then
  <2>4. todo' \in Reopening
    BY <1>9, <2>2, <2>3 DEF Reopening
  <2>5. OnlyMoves
    BY <1>t, <2>1 DEF OnlyMoves, KeepsLife
  <2>6. QED
    BY <2>1, <2>5, <2>2, <2>4, <1>t, ReopeningOnly, Moving
      DEF GoesOn, From, Outcomes
<1>10. ASSUME Connected,
             todo \in Routing
      PROVE  IInv'
  <2>1. UNCHANGED <<cstate, sstate, flow, body, queue, toClient, toServer, hooks,
                    dropped, passthrough, client, server, bodyless, chunks>>
    BY <1>10 DEF Connected, states, sent, ends, peers
  <2>2. /\ todo # << >>
        /\ todo = <<"get_connection", "forward_request">>
        /\ todo \in Routing
    BY <1>10 DEF Connected, At, Routing
  <2>3. todo' = Tail(todo)
    BY <1>t, <1>10, <2>2, Thens DEF Connected, Then
  <2>4. todo' \in Routing
    BY <1>10, <2>2, <2>3 DEF Routing
  <2>5. OnlyMoves
    BY <1>t, <2>1 DEF OnlyMoves, KeepsLife
  <2>6. QED
    BY <2>1, <2>5, <2>2, <2>4, <1>t, RoutingOnly, Moving
      DEF GoesOn, From, Outcomes
<1>11. ASSUME Connected,
             todo \in Connecting
      PROVE  IInv'
  <2>1. UNCHANGED <<cstate, sstate, flow, body, queue, toClient, toServer, hooks,
                    dropped, passthrough, client, server, bodyless, chunks>>
    BY <1>11 DEF Connected, states, sent, ends, peers
  <2>2. /\ todo # << >>
        /\ todo = <<"open_connection", "finish_connect">>
        /\ todo \in Connecting
    BY <1>11 DEF Connected, At, Connecting
  <2>3. todo' = Tail(todo)
    BY <1>t, <1>11, <2>2, Thens DEF Connected, Then
  <2>4. todo' \in Connecting
    BY <1>11, <2>2, <2>3 DEF Connecting
  <2>5. OnlyMoves
    BY <1>t, <2>1 DEF OnlyMoves, KeepsLife
  <2>6. QED
    BY <2>1, <2>5, <2>2, <2>4, <1>t, ConnectingOnly, Moving
      DEF GoesOn, From, Outcomes
<1>12. ASSUME NotConnected,
             todo \in Opening
      PROVE  IInv'
  <2>1. /\ todo # << >>
        /\ todo = <<"get_connection", "stream_request", "expect_response">>
        /\ todo \in Opening
    BY <1>12 DEF NotConnected, At, Opening
  <2>2. UNCHANGED <<cstate, sstate, body, queue, toClient, toServer, hooks, dropped,
                    passthrough, client, server, bodyless, chunks>>
    BY <1>12, <2>1 DEF NotConnected, At, states, sent, ends, peers
  <2>3. NeedErrorHook
    BY <1>0, <2>1 DEF NeedErrorHook, StatesKnown
  <2>4. todo' \in OpeningError
    BY <1>12, <2>1, <2>3, Pairs, Fours, Thirds
      DEF NotConnected, At, ErrorSteps, CloseAfterError, OpeningError
  <2>5. /\ flow' \in Flows
        /\ flow'.live = flow.live
        /\ "request" \in flow.stream => "request" \in flow'.stream
    BY <1>t, <1>12, <2>1, <2>3, FlowMarks DEF NotConnected, At
  <2>6. OnlyMoves
    BY <1>t, <2>2, <2>5 DEF OnlyMoves, KeepsLife
  <2>7. QED
    BY <2>2, <2>6, <2>1, <2>4, <1>t, OpeningOnly, Moving
      DEF GoesOn, From, Outcomes
<1>13. ASSUME NotConnected,
             todo \in Reopening
      PROVE  IInv'
  <2>1. /\ todo # << >>
        /\ todo = <<"get_connection", "stream_request", "replay_request">>
        /\ todo \in Reopening
    BY <1>13 DEF NotConnected, At, Reopening
  <2>2. UNCHANGED <<cstate, sstate, body, queue, toClient, toServer, hooks, dropped,
                    passthrough, client, server, bodyless, chunks>>
    BY <1>13, <2>1 DEF NotConnected, At, states, sent, ends, peers
  <2>3. NeedErrorHook
    BY <1>0, <2>1 DEF NeedErrorHook, StatesKnown
  <2>4. todo' \in OpeningError
    BY <1>13, <2>1, <2>3, Pairs, Fours, Thirds
      DEF NotConnected, At, ErrorSteps, CloseAfterError, OpeningError
  <2>5. /\ flow' \in Flows
        /\ flow'.live = flow.live
        /\ "request" \in flow.stream => "request" \in flow'.stream
    BY <1>t, <1>13, <2>1, <2>3, FlowMarks DEF NotConnected, At
  <2>6. OnlyMoves
    BY <1>t, <2>2, <2>5 DEF OnlyMoves, KeepsLife
  <2>7. QED
    BY <2>2, <2>6, <2>1, <2>4, <1>t, ReopeningOnly, Moving
      DEF GoesOn, From, Outcomes
<1>14. ASSUME NotConnected,
             todo \in Routing
      PROVE  IInv'
  <2>1. /\ todo # << >>
        /\ todo = <<"get_connection", "forward_request">>
        /\ todo \in Routing
    BY <1>14 DEF NotConnected, At, Routing
  <2>2. UNCHANGED <<cstate, sstate, body, queue, toClient, toServer, hooks, dropped,
                    passthrough, client, server, bodyless, chunks>>
    BY <1>14, <2>1 DEF NotConnected, At, states, sent, ends, peers
  <2>3. NeedErrorHook
    BY <1>0, <2>1 DEF NeedErrorHook, StatesKnown
  <2>4. todo' \in ResponseErrorHook
    BY <1>14, <2>1, <2>3, Pairs, ConcatEmptySeq
      DEF NotConnected, At, ErrorSteps, CloseAfterError, ResponseErrorHook
  <2>5. /\ flow' \in Flows
        /\ flow'.live = flow.live
        /\ "request" \in flow.stream => "request" \in flow'.stream
    BY <1>t, <1>14, <2>1, <2>3, FlowMarks DEF NotConnected, At
  <2>6. OnlyMoves
    BY <1>t, <2>2, <2>5 DEF OnlyMoves, KeepsLife
  <2>7. QED
    BY <2>2, <2>6, <2>1, <2>4, <1>t, RoutingOnly, Moving
      DEF GoesOn, From, Outcomes
<1>15. ASSUME NotConnected,
             todo \in Connecting
      PROVE  IInv'
  <2>1. /\ todo # << >>
        /\ todo = <<"open_connection", "finish_connect">>
        /\ todo \in Connecting
    BY <1>15 DEF NotConnected, At, Connecting
  <2>2. UNCHANGED <<cstate, sstate, body, queue, toClient, toServer, hooks, dropped,
                    passthrough, client, server, bodyless, chunks>>
    BY <1>15, <2>1 DEF NotConnected, At, states, sent, ends, peers
  <2>3. todo' = Tail(todo)
    BY <1>t, <1>15, <2>1, Thens DEF NotConnected, At, Then
  <2>4. todo' \in Connecting
    BY <1>15, <2>1, <2>3 DEF Connecting
  <2>5. flow' = [flow EXCEPT !.response = "plain"]
    BY <1>15, <2>1 DEF NotConnected, At
  <2>6. /\ flow' \in Flows
        /\ flow'.live = flow.live
        /\ "request" \in flow.stream => "request" \in flow'.stream
    BY <1>t, <2>5 DEF Flows, Sides
  <2>7. OnlyMoves
    BY <1>t, <2>2, <2>6 DEF OnlyMoves, KeepsLife
  <2>8. QED
    BY <2>2, <2>7, <2>1, <2>4, <1>t, ConnectingOnly, Moving
      DEF GoesOn, From, Outcomes
<1>16. ASSUME CheckKilled,
             todo \in Beginning
      PROVE  IInv'
  <2>1. /\ todo # << >>
        /\ todo = <<"begin_request">>
        /\ todo \in Beginning
    BY <1>16
      DEF CheckKilled, Checked, CheckedLoudly, CheckedQuietly, At, Beginning
  <2>2. UNCHANGED <<cstate, sstate, body, queue, toClient, toServer, hooks, dropped,
                    passthrough, client, server, bodyless, chunks>>
    BY <1>16, <2>1
      DEF CheckKilled, Checked, CheckedLoudly, CheckedQuietly, At, sent, ends,
       peers
  <2>3. todo' \in KillError
    BY <1>16, <2>1 DEF CheckKilled, KillSteps, CheckedLoudly, KillError
  <2>4. /\ flow' \in Flows
        /\ flow'.live = flow.live
        /\ "request" \in flow.stream => "request" \in flow'.stream
    BY <1>t, <1>16, <2>1, FlowMarks DEF CheckKilled
  <2>5. OnlyMoves
    BY <1>t, <2>2, <2>4 DEF OnlyMoves, KeepsLife
  <2>6. QED
    BY <2>2, <2>5, <2>1, <2>3, <1>t, BeginningOnly, Moving
      DEF GoesOn, From, Outcomes
<1>17. ASSUME CheckKilled,
             todo \in Routing
      PROVE  IInv'
  <2>1. /\ todo # << >>
        /\ todo \in {<<"route_request">>, <<"inline_response">>}
        /\ todo \in Routing
    BY <1>17
      DEF CheckKilled, Checked, CheckedLoudly, CheckedQuietly, At, Routing
  <2>2. UNCHANGED <<cstate, sstate, body, queue, toClient, toServer, hooks, dropped,
                    passthrough, client, server, bodyless, chunks>>
    BY <1>17, <2>1
      DEF CheckKilled, Checked, CheckedLoudly, CheckedQuietly, At, sent, ends,
       peers
  <2>3. todo' \in KillError
    BY <1>17, <2>1 DEF CheckKilled, KillSteps, CheckedLoudly, KillError
  <2>4. /\ flow' \in Flows
        /\ flow'.live = flow.live
        /\ "request" \in flow.stream => "request" \in flow'.stream
    BY <1>t, <1>17, <2>1, FlowMarks DEF CheckKilled
  <2>5. OnlyMoves
    BY <1>t, <2>2, <2>4 DEF OnlyMoves, KeepsLife
  <2>6. QED
    BY <2>2, <2>5, <2>1, <2>3, <1>t, RoutingOnly, Moving
      DEF GoesOn, From, Outcomes
<1>18. ASSUME CheckKilled,
             todo \in Responding
      PROVE  IInv'
  <2>1. /\ todo # << >>
        /\ todo = <<"begin_response">>
        /\ todo \in Responding
    BY <1>18
      DEF CheckKilled, Checked, CheckedLoudly, CheckedQuietly, At, Responding
  <2>2. UNCHANGED <<cstate, sstate, body, queue, toClient, toServer, hooks, dropped,
                    passthrough, client, server, bodyless, chunks>>
    BY <1>18, <2>1
      DEF CheckKilled, Checked, CheckedLoudly, CheckedQuietly, At, sent, ends,
       peers
  <2>3. todo' \in KillError
    BY <1>18, <2>1 DEF CheckKilled, KillSteps, CheckedLoudly, KillError
  <2>4. /\ flow' \in Flows
        /\ flow'.live = flow.live
        /\ "request" \in flow.stream => "request" \in flow'.stream
    BY <1>t, <1>18, <2>1, FlowMarks DEF CheckKilled
  <2>5. OnlyMoves
    BY <1>t, <2>2, <2>4 DEF OnlyMoves, KeepsLife
  <2>6. QED
    BY <2>2, <2>5, <2>1, <2>3, <1>t, RespondingOnly, Moving
      DEF GoesOn, From, Outcomes
<1>19. ASSUME CheckKilled,
             todo \in Finishing
      PROVE  IInv'
  <2>1. /\ todo # << >>
        /\ todo = <<"finish_response">>
        /\ todo \in Finishing
    BY <1>19
      DEF CheckKilled, Checked, CheckedLoudly, CheckedQuietly, At, Finishing
  <2>2. /\ sstate' = "done"
        /\ UNCHANGED <<cstate, body, queue, toClient, toServer, hooks, dropped, passthrough,
                    client, server, bodyless, chunks>>
    BY <1>19, <2>1
      DEF CheckKilled, Checked, CheckedLoudly, CheckedQuietly, At, sent, ends,
       peers
  <2>3. todo' \in Killing
    BY <1>19, <2>1 DEF CheckKilled, KillSteps, CheckedLoudly, Killing
  <2>4. /\ flow' \in Flows
        /\ flow'.live = flow.live
        /\ "request" \in flow.stream => "request" \in flow'.stream
    BY <1>t, <1>19, <2>1, FlowMarks DEF CheckKilled
  <2>5. Outcomes' = Outcomes /\ (Overtaken => Overtaken') /\ Sent' = Sent /\ Told' = Told
    BY <2>2, <2>4 DEF Outcomes, Overtaken, Sent, Told
  <2>6. todo' \in Programs
    BY <2>3 DEF Programs, Working, Undecided, Deciding, Concluding
  <2>7. todo' \in Seq(Steps)
    BY <2>6, ProgramsAreSteps
  <2>8. sstate' \in {"uninitialized", "wait", "consume", "stream", "done", "errored"}
    BY <1>t, <2>2
  <2>9. TypeOK' /\ ProgramsOnly'
    BY <1>0, <2>2, <2>4, <2>7, <2>8, <2>6 DEF TypeOK, ProgramsOnly
  <2>10. StatesKnown' /\ StreamsAreMarked'
    BY <1>0, <2>2, <2>1, <2>3, FinishingOnly, KillingOnly, <2>4, <2>5
      DEF StatesKnown, Over, SentLater, StreamsAreMarked
  <2>11. AtFirst' /\ BeforeFirstHook' /\ GoneIsLast'
    BY <1>0, <2>2, <2>1, <2>3, FinishingOnly, KillingOnly, <2>5
      DEF AtFirst, StatesKnown, Over, BeforeFirstHook, GoneIsLast
  <2>12. OverIsNotLive' /\ ConnectHookRan'
    BY <1>0, <2>2, <2>1, <2>3, FinishingOnly, KillingOnly, <2>4, <2>5
      DEF OverIsNotLive, AtFirst, BeforeFirstHook, ConnectHookRan, Told,
       Unended, Has
  <2>13. FoundOut'
    BY <1>0, <2>2, <2>1, <2>3, FinishingOnly, KillingOnly, <2>5, <2>4, Served
      DEF FoundOut, BothErrored, GoneIsLast, GivenUp, Over, StatesKnown,
       SentLater, StreamsAreMarked
  <2>14. GivenUp'
    BY <1>0, <2>2, <2>1, <2>3, FinishingOnly, KillingOnly, <2>5, <2>4
      DEF GivenUp, Over, GoneIsLast, FoundOut, BothErrored, StatesKnown,
       SentLater
  <2>15. OutcomeDecides'
    BY <1>0, <2>2, <2>1, <2>3, FinishingOnly, KillingOnly, <2>5, <2>4, <1>o
      DEF OutcomeDecides, Over, StatesKnown, GivenUp, SentLater, Undecided,
       Deciding, Concluding
  <2>16. SentLater' /\ ChunksCounted'
    BY <1>0, <2>2, <2>5 DEF SentLater, ChunksCounted
  <2>17. QED
    BY <2>9, <2>10, <2>11, <2>12, <2>13, <2>14, <2>15, <2>16 DEF IInv
<1>20. ASSUME CheckKilled,
             todo \in Connecting
      PROVE  IInv'
  <2>1. /\ todo # << >>
        /\ todo = <<"handle_connect">>
        /\ todo \in Connecting
    BY <1>20
      DEF CheckKilled, Checked, CheckedLoudly, CheckedQuietly, At, Connecting
  <2>2. UNCHANGED <<cstate, sstate, body, queue, toClient, toServer, hooks, dropped,
                    passthrough, client, server, bodyless, chunks>>
    BY <1>20, <2>1
      DEF CheckKilled, Checked, CheckedLoudly, CheckedQuietly, At, sent, ends,
       peers
  <2>3. todo' \in Killing
    BY <1>20, <2>1 DEF CheckKilled, KillSteps, CheckedLoudly, Killing
  <2>4. /\ flow' \in Flows
        /\ flow'.live = flow.live
        /\ "request" \in flow.stream => "request" \in flow'.stream
    BY <1>t, <1>20, <2>1, FlowMarks DEF CheckKilled
  <2>5. OnlyMoves
    BY <1>t, <2>2, <2>4 DEF OnlyMoves, KeepsLife
  <2>6. QED
    BY <2>2, <2>5, <2>1, <2>3, <1>t, ConnectingOnly, Moving
      DEF GoesOn, From, Outcomes
<1>21. ASSUME Reject,
             todo \in Killing
      PROVE  IInv'
  <2>1. /\ toClient' = Append(toClient, "ResponseError")
        /\ cstate' = "errored" /\ sstate' = "errored"
        /\ UNCHANGED <<body, queue, toServer, hooks, dropped, passthrough, client, server,
                    bodyless, chunks>>
    BY <1>21 DEF Reject, At, ends, peers
  <2>2. /\ todo # << >>
        /\ todo \in {<<"kill">>, <<"reject">>}
        /\ todo \in Killing
    BY <1>21 DEF Reject, At, Killing
  <2>3. todo' = << >>
    BY <1>21, <2>2 DEF Reject
  <2>4. /\ flow' \in Flows
        /\ flow'.live = FALSE
        /\ "request" \in flow.stream => "request" \in flow'.stream
    BY <1>t, <1>21, <2>2 DEF Reject, Flows, Sides
  <2>5. Outcomes' = Outcomes /\ (Overtaken => Overtaken') /\ Sent' = Sent
    BY <2>1, <2>4 DEF Outcomes, Overtaken, Sent
  <2>6. todo' \in Programs
    BY <2>3 DEF Programs, Working, Undecided, Deciding, Concluding
  <2>7. todo' \in Seq(Steps)
    BY <2>6, ProgramsAreSteps
  <2>8. toClient' \in Seq(ResponseEvents \cup {"ResponseError"})
    BY <1>t, <2>1
  <2>9. cstate' \in {"wait", "consume", "stream", "done", "errored"}
    BY <1>t, <2>1
  <2>10. sstate' \in {"uninitialized", "wait", "consume", "stream", "done", "errored"}
    BY <1>t, <2>1
  <2>11. TypeOK' /\ ProgramsOnly'
    BY <1>0, <2>1, <2>4, <2>7, <2>8, <2>9, <2>10, <2>6 DEF TypeOK, ProgramsOnly
  <2>12. StatesKnown' /\ StreamsAreMarked'
    BY <1>0, <2>1, <2>2, <2>3, KillingOnly, IdleOnly, <2>4, <2>5
      DEF StatesKnown, Over, SentLater, StreamsAreMarked, Working, Undecided,
       Deciding, Concluding
  <2>13. SentLater'
    BY <1>0, <2>1, <2>2, <2>3, KillingOnly, IdleOnly, <2>5
      DEF SentLater, StatesKnown, Over, Working, Undecided, Deciding, Concluding
  <2>14. AtFirst' /\ BeforeFirstHook' /\ GoneIsLast'
    BY <1>0, <2>1, <2>2, <2>3, KillingOnly, IdleOnly, <2>5
      DEF AtFirst, StatesKnown, Over, BeforeFirstHook, GoneIsLast, Working,
       Undecided, Deciding, Concluding
  <2>15. OverIsNotLive' /\ ConnectHookRan'
    BY <1>0, <2>1, <2>2, <2>3, KillingOnly, IdleOnly, <2>4, <2>5
      DEF OverIsNotLive, AtFirst, BeforeFirstHook, ConnectHookRan, Working,
       Undecided, Deciding, Concluding, Told, Unended, Has
  <2>16. FoundOut'
    BY <1>0, <2>1, <2>2, <2>3, KillingOnly, IdleOnly, <2>5, <2>4, Served
      DEF FoundOut, BothErrored, GoneIsLast, GivenUp, Over, StatesKnown,
       SentLater, StreamsAreMarked, Working, Undecided, Deciding, Concluding
  <2>17. GivenUp'
    BY <1>0, <2>1, <2>2, <2>3, KillingOnly, IdleOnly, <2>5, <2>4
      DEF GivenUp, Over, GoneIsLast, FoundOut, BothErrored, StatesKnown,
       SentLater, Working, Undecided, Deciding, Concluding
  <2>18. OutcomeDecides'
    BY <1>0, <2>1, <2>2, <2>3, KillingOnly, IdleOnly, <2>5, <2>4, <1>o
      DEF OutcomeDecides, Over, StatesKnown, GivenUp, SentLater, Working,
       Undecided, Deciding, Concluding
  <2>19. ChunksCounted'
    BY <1>0, <2>1, <2>5 DEF ChunksCounted
  <2>20. QED
    BY <2>11, <2>12, <2>13, <2>14, <2>15, <2>16, <2>17, <2>18, <2>19 DEF IInv
<1>22. ASSUME HandleError("RequestError"),
             Talking
      PROVE  IInv'
  <2>1. /\ cstate \in {"stream", "done"} /\ sstate \notin {"done", "errored"} /\ NeedErrorHook
        /\ cstate' = "errored" /\ server' = "gone"
        /\ toServer' = Append(toServer, "RequestError")
        /\ UNCHANGED <<sstate, body, toClient, hooks, dropped, passthrough, client,
                    bodyless, chunks>>
    BY <1>22 DEF HandleError, Talking, NeedErrorHook, ends
  <2>2. todo = << >> /\ queue # << >> /\ queue' = Tail(queue) /\ Head(queue) = "RequestError" /\ ~passthrough
    BY <1>22 DEF HandleError
  <2>3. todo' \in RequestErrorHook
    BY <1>22, <2>2, Pairs, ConcatEmptySeq, <2>1
      DEF HandleError, ErrorSteps, CloseAfterError, RequestErrorHook
  <2>4. RequestErrorTaken
    BY <1>t, <2>2, TakesRequestError DEF RequestErrorTaken
  <2>5. /\ flow' \in Flows
        /\ flow'.live = flow.live
        /\ "request" \in flow.stream => "request" \in flow'.stream
    BY <1>t, <1>22, <2>2, FlowMarks DEF HandleError
  <2>6. Outcomes' = Outcomes /\ (Overtaken => Overtaken') /\ Told' = Told
    BY <2>1, <2>5 DEF Outcomes, Overtaken, Told
  <2>7. Sent' <=> Sent
    BY <1>t, <2>1, <2>2, Sends DEF Sent, ToServer
  <2>8. todo' \in Programs
    BY <2>3 DEF Programs, Working, Undecided, Deciding, Concluding
  <2>9. todo' \in Seq(Steps)
    BY <2>8, ProgramsAreSteps
  <2>10. toServer' \in Seq(RequestEvents \cup {"RequestError"})
    BY <1>t, <2>1
  <2>11. server' \in {"idle", "open", "trailers", "early", "ended", "gone"}
    BY <1>t, <2>1
  <2>12. cstate' \in {"wait", "consume", "stream", "done", "errored"}
    BY <1>t, <2>1
  <2>13. TypeOK' /\ ProgramsOnly'
    BY <1>0, <2>1, <2>4, <2>5, <2>9, <2>10, <2>11, <2>12, <2>8
      DEF TypeOK, RequestErrorTaken, ProgramsOnly
  <2>14. ChunksCounted'
    BY <1>0, <2>1, <2>2, CountsKept
  <2>15. StatesKnown' /\ StreamsAreMarked'
    BY <1>0, <2>1, <2>2, <2>3, IdleOnly, RequestErrorHookOnly, <2>5, <2>7
      DEF StatesKnown, Over, SentLater, StreamsAreMarked, Working, Undecided,
       Deciding, Concluding
  <2>16. SentLater'
    BY <1>0, <2>1, <2>2, <2>3, IdleOnly, RequestErrorHookOnly, <2>4, <2>7
      DEF SentLater, StatesKnown, Over, Working, Undecided, Deciding,
       Concluding, RequestErrorTaken
  <2>17. AtFirst' /\ BeforeFirstHook' /\ GoneIsLast'
    BY <1>0, <2>1, <2>2, <2>3, IdleOnly, RequestErrorHookOnly, <2>4, <2>7
      DEF AtFirst, StatesKnown, Over, BeforeFirstHook, GoneIsLast, Working,
       Undecided, Deciding, Concluding, RequestErrorTaken
  <2>18. OverIsNotLive' /\ ConnectHookRan'
    BY <1>0, <2>1, <2>2, <2>3, IdleOnly, RequestErrorHookOnly, <2>5, <2>7, <2>6
      DEF OverIsNotLive, AtFirst, BeforeFirstHook, ConnectHookRan, Working,
       Undecided, Deciding, Concluding, Told, Unended, Has
  <2>19. FoundOut'
    BY <1>0, <2>1, <2>2, <2>3, IdleOnly, RequestErrorHookOnly, <2>4, <2>6, <2>5,
       <2>7, Served
      DEF FoundOut, BothErrored, GoneIsLast, GivenUp, Over, StatesKnown,
       SentLater, StreamsAreMarked, Working, Undecided, Deciding, Concluding,
       RequestErrorTaken
  <2>20. GivenUp'
    BY <1>0, <2>1, <2>2, <2>3, IdleOnly, RequestErrorHookOnly, <2>4, <2>6, <2>5,
       <2>7
      DEF GivenUp, Over, GoneIsLast, FoundOut, BothErrored, StatesKnown,
       SentLater, Working, Undecided, Deciding, Concluding, RequestErrorTaken
  <2>21. OutcomeDecides'
    BY <1>0, <2>1, <2>2, <2>3, IdleOnly, RequestErrorHookOnly, <2>4, <2>6, <2>5,
       <2>7, <1>o
      DEF OutcomeDecides, Over, StatesKnown, GivenUp, SentLater, Working,
       Undecided, Deciding, Concluding, RequestErrorTaken
  <2>22. QED
    BY <2>13, <2>14, <2>15, <2>16, <2>17, <2>18, <2>19, <2>20, <2>21 DEF IInv
<1>23. ASSUME HandleError("RequestError"),
             ~Talking, NeedErrorHook
      PROVE  IInv'
  <2>1. /\ cstate \in {"wait", "consume"} /\ sstate \notin {"done", "errored"} /\ NeedErrorHook
        /\ UNCHANGED <<cstate, sstate, body, toClient, toServer, hooks, dropped,
                    passthrough, client, server, bodyless, chunks>>
    BY <1>23, <1>t DEF HandleError, Talking, NeedErrorHook, ends
  <2>2. todo = << >> /\ queue # << >> /\ queue' = Tail(queue) /\ Head(queue) = "RequestError" /\ ~passthrough
    BY <1>23 DEF HandleError
  <2>3. todo' \in RequestErrorHook
    BY <1>23, <2>2, Pairs, ConcatEmptySeq, <2>1
      DEF HandleError, ErrorSteps, CloseAfterError, RequestErrorHook
  <2>4. RequestErrorTaken
    BY <1>t, <2>2, TakesRequestError DEF RequestErrorTaken
  <2>5. /\ flow' \in Flows
        /\ flow'.live = flow.live
        /\ "request" \in flow.stream => "request" \in flow'.stream
    BY <1>t, <1>23, <2>2, FlowMarks DEF HandleError
  <2>6. Outcomes' = Outcomes /\ (Overtaken => Overtaken') /\ Sent' = Sent /\ Told' = Told
    BY <2>1, <2>5 DEF Outcomes, Overtaken, Sent, Told
  <2>7. cstate # "wait"
    BY <1>t, <2>1, <2>2, <1>0 DEF AtFirst
  <2>8. queue' = << >>
    BY <1>t, <2>1, <2>2, <1>0, LastOne DEF GoneIsLast, SentLater
  <2>9. todo' \in Programs
    BY <2>3 DEF Programs, Working, Undecided, Deciding, Concluding
  <2>10. todo' \in Seq(Steps)
    BY <2>9, ProgramsAreSteps
  <2>11. TypeOK' /\ ProgramsOnly'
    BY <1>0, <2>1, <2>4, <2>5, <2>10, <2>9
      DEF TypeOK, RequestErrorTaken, ProgramsOnly
  <2>12. ChunksCounted'
    BY <1>0, <2>1, <2>2, CountsKept
  <2>13. StatesKnown' /\ StreamsAreMarked'
    BY <1>0, <2>1, <2>2, <2>3, IdleOnly, RequestErrorHookOnly, <2>5, <2>6, <2>7,
       <2>8
      DEF StatesKnown, Over, SentLater, StreamsAreMarked, Working, Undecided,
       Deciding, Concluding
  <2>14. SentLater'
    BY <1>0, <2>1, <2>2, <2>3, IdleOnly, RequestErrorHookOnly, <2>4, <2>6, <2>7,
       <2>8
      DEF SentLater, StatesKnown, Over, Working, Undecided, Deciding,
       Concluding, RequestErrorTaken
  <2>15. AtFirst' /\ BeforeFirstHook' /\ GoneIsLast'
    BY <1>0, <2>1, <2>2, <2>3, IdleOnly, RequestErrorHookOnly, <2>4, <2>6, <2>7,
       <2>8
      DEF AtFirst, StatesKnown, Over, BeforeFirstHook, GoneIsLast, Working,
       Undecided, Deciding, Concluding, RequestErrorTaken
  <2>16. OverIsNotLive' /\ ConnectHookRan'
    BY <1>0, <2>1, <2>2, <2>3, IdleOnly, RequestErrorHookOnly, <2>5, <2>6, <2>7,
       <2>8
      DEF OverIsNotLive, AtFirst, BeforeFirstHook, ConnectHookRan, Working,
       Undecided, Deciding, Concluding, Told, Unended, Has
  <2>17. FoundOut'
    BY <1>0, <2>1, <2>2, <2>3, IdleOnly, RequestErrorHookOnly, <2>4, <2>6, <2>5,
       Served, <2>7, <2>8
      DEF FoundOut, BothErrored, GoneIsLast, GivenUp, Over, StatesKnown,
       SentLater, StreamsAreMarked, Working, Undecided, Deciding, Concluding,
       RequestErrorTaken
  <2>18. GivenUp'
    BY <1>0, <2>1, <2>2, <2>3, IdleOnly, RequestErrorHookOnly, <2>4, <2>6, <2>5,
       <2>7, <2>8
      DEF GivenUp, Over, GoneIsLast, FoundOut, BothErrored, StatesKnown,
       SentLater, Working, Undecided, Deciding, Concluding, RequestErrorTaken
  <2>19. OutcomeDecides'
    BY <1>0, <2>1, <2>2, <2>3, IdleOnly, RequestErrorHookOnly, <2>4, <2>6, <2>5,
       <1>o, <2>7, <2>8
      DEF OutcomeDecides, Over, StatesKnown, GivenUp, SentLater, Working,
       Undecided, Deciding, Concluding, RequestErrorTaken
  <2>20. QED
    BY <2>11, <2>12, <2>13, <2>14, <2>15, <2>16, <2>17, <2>18, <2>19 DEF IInv
<1>24. ASSUME HandleError("RequestError"),
             ~NeedErrorHook
      PROVE  IInv'
  <2>1. /\ cstate = "errored" \/ sstate \in {"done", "errored"}
        /\ ~NeedErrorHook
        /\ UNCHANGED <<cstate, sstate, body, toClient, toServer, hooks, dropped,
                    passthrough, client, server, bodyless, chunks>>
    BY <1>24 DEF HandleError, Talking, NeedErrorHook, ends
  <2>2. todo = << >> /\ queue # << >> /\ queue' = Tail(queue) /\ Head(queue) = "RequestError" /\ ~passthrough
    BY <1>24 DEF HandleError
  <2>3. todo' \in AfterRequestError
    BY <1>24, <2>2, Pairs, ConcatEmptySeq, <2>1
      DEF HandleError, ErrorSteps, CloseAfterError, AfterRequestError
  <2>4. RequestErrorTaken
    BY <1>t, <2>2, TakesRequestError DEF RequestErrorTaken
  <2>5. /\ flow' \in Flows
        /\ flow'.live = flow.live
        /\ "request" \in flow.stream => "request" \in flow'.stream
    BY <1>t, <1>24, <2>2, FlowMarks DEF HandleError
  <2>6. Outcomes' = Outcomes /\ (Overtaken => Overtaken') /\ Sent' = Sent /\ Told' = Told
    BY <2>1, <2>5 DEF Outcomes, Overtaken, Sent, Told
  <2>7. cstate # "wait"
    BY <1>t, <2>1, <2>2, <1>0 DEF AtFirst
  <2>8. todo' \in Programs
    BY <2>3 DEF Programs, Working, Undecided, Deciding, Concluding
  <2>9. todo' \in Seq(Steps)
    BY <2>8, ProgramsAreSteps
  <2>10. TypeOK' /\ ProgramsOnly'
    BY <1>0, <2>1, <2>4, <2>5, <2>9, <2>8
      DEF TypeOK, RequestErrorTaken, ProgramsOnly
  <2>11. ChunksCounted'
    BY <1>0, <2>1, <2>2, CountsKept
  <2>12. StatesKnown' /\ StreamsAreMarked'
    BY <1>0, <2>1, <2>2, <2>3, IdleOnly, AfterRequestErrorOnly, <2>5, <2>6, <2>7
      DEF StatesKnown, Over, SentLater, StreamsAreMarked, Working, Undecided,
       Deciding, Concluding
  <2>13. SentLater'
    BY <1>0, <2>1, <2>2, <2>3, IdleOnly, AfterRequestErrorOnly, <2>4, <2>6, <2>7
      DEF SentLater, StatesKnown, Over, Working, Undecided, Deciding,
       Concluding, RequestErrorTaken
  <2>14. AtFirst' /\ BeforeFirstHook' /\ GoneIsLast'
    BY <1>0, <2>1, <2>2, <2>3, IdleOnly, AfterRequestErrorOnly, <2>4, <2>6, <2>7
      DEF AtFirst, StatesKnown, Over, BeforeFirstHook, GoneIsLast, Working,
       Undecided, Deciding, Concluding, RequestErrorTaken
  <2>15. OverIsNotLive' /\ ConnectHookRan'
    BY <1>0, <2>1, <2>2, <2>3, IdleOnly, AfterRequestErrorOnly, <2>5, <2>6, <2>7
      DEF OverIsNotLive, AtFirst, BeforeFirstHook, ConnectHookRan, Working,
       Undecided, Deciding, Concluding, Told, Unended, Has
  <2>16. FoundOut'
    BY <1>0, <2>1, <2>2, <2>3, IdleOnly, AfterRequestErrorOnly, <2>4, <2>6,
       <2>5, Served, <2>7
      DEF FoundOut, BothErrored, GoneIsLast, GivenUp, Over, StatesKnown,
       SentLater, StreamsAreMarked, Working, Undecided, Deciding, Concluding,
       RequestErrorTaken
  <2>17. GivenUp'
    BY <1>0, <2>1, <2>2, <2>3, IdleOnly, AfterRequestErrorOnly, <2>4, <2>6,
       <2>5, <2>7
      DEF GivenUp, Over, GoneIsLast, FoundOut, BothErrored, StatesKnown,
       SentLater, Working, Undecided, Deciding, Concluding, RequestErrorTaken
  <2>18. OutcomeDecides'
    BY <1>0, <2>1, <2>2, <2>3, IdleOnly, AfterRequestErrorOnly, <2>4, <2>6,
       <2>5, <1>o, <2>7
      DEF OutcomeDecides, Over, StatesKnown, GivenUp, SentLater, Working,
       Undecided, Deciding, Concluding, RequestErrorTaken
  <2>19. QED
    BY <2>10, <2>11, <2>12, <2>13, <2>14, <2>15, <2>16, <2>17, <2>18 DEF IInv
<1>25. ASSUME HandleError("ResponseError"),
             NeedErrorHook
      PROVE  IInv'
  <2>1. /\ cstate # "errored" /\ sstate \notin {"done", "errored"} /\ NeedErrorHook
        /\ UNCHANGED <<cstate, sstate, body, toClient, toServer, hooks, dropped,
                    passthrough, client, server, bodyless, chunks>>
    BY <1>25 DEF HandleError, NeedErrorHook, ends
  <2>2. todo = << >> /\ queue # << >> /\ queue' = Tail(queue) /\ Head(queue) = "ResponseError" /\ ~passthrough
    BY <1>25 DEF HandleError
  <2>3. todo' \in ResponseErrorHook
    BY <1>25, <2>2, Pairs, ConcatEmptySeq, <2>1
      DEF HandleError, ErrorSteps, CloseAfterError, ResponseErrorHook
  <2>4. ResponseErrorTaken
    BY <1>t, <2>2, TakesResponseError DEF ResponseErrorTaken
  <2>5. /\ flow' \in Flows
        /\ flow'.live = flow.live
        /\ "request" \in flow.stream => "request" \in flow'.stream
    BY <1>t, <1>25, <2>2, FlowMarks DEF HandleError
  <2>6. Outcomes' = Outcomes /\ (Overtaken => Overtaken') /\ Sent' = Sent /\ Told' = Told
    BY <2>1, <2>5 DEF Outcomes, Overtaken, Sent, Told
  <2>7. Sent
    BY <1>t, <2>1, <2>2, <1>0, <2>4 DEF SentLater, ResponseErrorTaken
  <2>8. todo' \in Programs
    BY <2>3 DEF Programs, Working, Undecided, Deciding, Concluding
  <2>9. todo' \in Seq(Steps)
    BY <2>8, ProgramsAreSteps
  <2>10. TypeOK' /\ ProgramsOnly'
    BY <1>0, <2>1, <2>4, <2>5, <2>9, <2>8
      DEF TypeOK, ResponseErrorTaken, ProgramsOnly
  <2>11. ChunksCounted'
    BY <1>0, <2>1, <2>2, CountsKept
  <2>12. StatesKnown' /\ StreamsAreMarked'
    BY <1>0, <2>1, <2>2, <2>3, IdleOnly, ResponseErrorHookOnly, <2>5, <2>6, <2>7
      DEF StatesKnown, Over, SentLater, StreamsAreMarked, Working, Undecided,
       Deciding, Concluding
  <2>13. SentLater'
    BY <1>0, <2>1, <2>2, <2>3, IdleOnly, ResponseErrorHookOnly, <2>4, <2>6, <2>7
      DEF SentLater, StatesKnown, Over, Working, Undecided, Deciding,
       Concluding, ResponseErrorTaken
  <2>14. AtFirst' /\ BeforeFirstHook' /\ GoneIsLast'
    BY <1>0, <2>1, <2>2, <2>3, IdleOnly, ResponseErrorHookOnly, <2>4, <2>6, <2>7
      DEF AtFirst, StatesKnown, Over, BeforeFirstHook, GoneIsLast, Working,
       Undecided, Deciding, Concluding, ResponseErrorTaken
  <2>15. OverIsNotLive' /\ ConnectHookRan'
    BY <1>0, <2>1, <2>2, <2>3, IdleOnly, ResponseErrorHookOnly, <2>5, <2>6, <2>7
      DEF OverIsNotLive, AtFirst, BeforeFirstHook, ConnectHookRan, Working,
       Undecided, Deciding, Concluding, Told, Unended, Has
  <2>16. FoundOut'
    BY <1>0, <2>1, <2>2, <2>3, IdleOnly, ResponseErrorHookOnly, <2>4, <2>6,
       <2>5, Served, <2>7
      DEF FoundOut, BothErrored, GoneIsLast, GivenUp, Over, StatesKnown,
       SentLater, StreamsAreMarked, Working, Undecided, Deciding, Concluding,
       ResponseErrorTaken
  <2>17. GivenUp'
    BY <1>0, <2>1, <2>2, <2>3, IdleOnly, ResponseErrorHookOnly, <2>4, <2>6,
       <2>5, <2>7
      DEF GivenUp, Over, GoneIsLast, FoundOut, BothErrored, StatesKnown,
       SentLater, Working, Undecided, Deciding, Concluding, ResponseErrorTaken
  <2>18. OutcomeDecides'
    BY <1>0, <2>1, <2>2, <2>3, IdleOnly, ResponseErrorHookOnly, <2>4, <2>6,
       <2>5, <1>o, <2>7
      DEF OutcomeDecides, Over, StatesKnown, GivenUp, SentLater, Working,
       Undecided, Deciding, Concluding, ResponseErrorTaken
  <2>19. QED
    BY <2>10, <2>11, <2>12, <2>13, <2>14, <2>15, <2>16, <2>17, <2>18 DEF IInv
<1>26. ASSUME HandleError("ResponseError"),
             ~NeedErrorHook
      PROVE  IInv'
  <2>1. /\ cstate = "errored" \/ sstate \in {"done", "errored"}
        /\ ~NeedErrorHook
        /\ UNCHANGED <<cstate, sstate, body, toClient, toServer, hooks, dropped,
                    passthrough, client, server, bodyless, chunks>>
    BY <1>26 DEF HandleError, NeedErrorHook, ends
  <2>2. todo = << >> /\ queue # << >> /\ queue' = Tail(queue) /\ Head(queue) = "ResponseError" /\ ~passthrough
    BY <1>26 DEF HandleError
  <2>3. todo' \in AfterResponseError
    BY <1>26, <2>2, Pairs, ConcatEmptySeq, <2>1
      DEF HandleError, ErrorSteps, CloseAfterError, AfterResponseError
  <2>4. ResponseErrorTaken
    BY <1>t, <2>2, TakesResponseError DEF ResponseErrorTaken
  <2>5. /\ flow' \in Flows
        /\ flow'.live = flow.live
        /\ "request" \in flow.stream => "request" \in flow'.stream
    BY <1>t, <1>26, <2>2, FlowMarks DEF HandleError
  <2>6. Outcomes' = Outcomes /\ (Overtaken => Overtaken') /\ Sent' = Sent /\ Told' = Told
    BY <2>1, <2>5 DEF Outcomes, Overtaken, Sent, Told
  <2>7. Sent
    BY <1>t, <2>1, <2>2, <1>0, <2>4 DEF SentLater, ResponseErrorTaken
  <2>8. todo' \in Programs
    BY <2>3 DEF Programs, Working, Undecided, Deciding, Concluding
  <2>9. todo' \in Seq(Steps)
    BY <2>8, ProgramsAreSteps
  <2>10. TypeOK' /\ ProgramsOnly'
    BY <1>0, <2>1, <2>4, <2>5, <2>9, <2>8
      DEF TypeOK, ResponseErrorTaken, ProgramsOnly
  <2>11. ChunksCounted'
    BY <1>0, <2>1, <2>2, CountsKept
  <2>12. StatesKnown' /\ StreamsAreMarked'
    BY <1>0, <2>1, <2>2, <2>3, IdleOnly, AfterResponseErrorOnly, <2>5, <2>6,
       <2>7
      DEF StatesKnown, Over, SentLater, StreamsAreMarked, Working, Undecided,
       Deciding, Concluding
  <2>13. SentLater'
    BY <1>0, <2>1, <2>2, <2>3, IdleOnly, AfterResponseErrorOnly, <2>4, <2>6,
       <2>7
      DEF SentLater, StatesKnown, Over, Working, Undecided, Deciding,
       Concluding, ResponseErrorTaken
  <2>14. AtFirst' /\ BeforeFirstHook' /\ GoneIsLast'
    BY <1>0, <2>1, <2>2, <2>3, IdleOnly, AfterResponseErrorOnly, <2>4, <2>6,
       <2>7
      DEF AtFirst, StatesKnown, Over, BeforeFirstHook, GoneIsLast, Working,
       Undecided, Deciding, Concluding, ResponseErrorTaken
  <2>15. OverIsNotLive' /\ ConnectHookRan'
    BY <1>0, <2>1, <2>2, <2>3, IdleOnly, AfterResponseErrorOnly, <2>5, <2>6,
       <2>7
      DEF OverIsNotLive, AtFirst, BeforeFirstHook, ConnectHookRan, Working,
       Undecided, Deciding, Concluding, Told, Unended, Has
  <2>16. FoundOut'
    BY <1>0, <2>1, <2>2, <2>3, IdleOnly, AfterResponseErrorOnly, <2>4, <2>6,
       <2>5, Served, <2>7
      DEF FoundOut, BothErrored, GoneIsLast, GivenUp, Over, StatesKnown,
       SentLater, StreamsAreMarked, Working, Undecided, Deciding, Concluding,
       ResponseErrorTaken
  <2>17. GivenUp'
    BY <1>0, <2>1, <2>2, <2>3, IdleOnly, AfterResponseErrorOnly, <2>4, <2>6,
       <2>5, <2>7
      DEF GivenUp, Over, GoneIsLast, FoundOut, BothErrored, StatesKnown,
       SentLater, Working, Undecided, Deciding, Concluding, ResponseErrorTaken
  <2>18. OutcomeDecides'
    BY <1>0, <2>1, <2>2, <2>3, IdleOnly, AfterResponseErrorOnly, <2>4, <2>6,
       <2>5, <1>o, <2>7
      DEF OutcomeDecides, Over, StatesKnown, GivenUp, SentLater, Working,
       Undecided, Deciding, Concluding, ResponseErrorTaken
  <2>19. QED
    BY <2>10, <2>11, <2>12, <2>13, <2>14, <2>15, <2>16, <2>17, <2>18 DEF IInv
<1>27. ASSUME CloseAfter("RequestError"),
             Killed, todo \in AfterRequestError
      PROVE  IInv'
  <2>1. /\ toClient' = Append(toClient, "ResponseError")
        /\ cstate' = "errored" /\ sstate' = "errored"
        /\ UNCHANGED <<body, queue, toServer, hooks, dropped, passthrough, client, server,
                    bodyless, chunks>>
    BY <1>27 DEF CloseAfter, peers
  <2>2. /\ todo # << >>
        /\ todo = <<"close_after_RequestError">>
        /\ todo \in AfterRequestError
    BY <1>27 DEF CloseAfter, At, AfterRequestError
  <2>3. todo' = Tail(todo)
    BY <1>t, <1>27, <2>2, Thens DEF CloseAfter, Then
  <2>4. todo' = << >>
    BY <1>27, <2>2, <2>3
  <2>5. /\ flow' \in Flows
        /\ flow'.live = FALSE
        /\ "request" \in flow.stream => "request" \in flow'.stream
    BY <1>t, <1>27, <2>2, FlowMarks DEF CloseAfter
  <2>6. Outcomes' = Outcomes /\ (Overtaken => Overtaken') /\ Sent' = Sent
    BY <2>1, <2>5 DEF Outcomes, Overtaken, Sent
  <2>7. todo' \in Programs
    BY <2>4 DEF Programs, Working, Undecided, Deciding, Concluding
  <2>8. todo' \in Seq(Steps)
    BY <2>7, ProgramsAreSteps
  <2>9. toClient' \in Seq(ResponseEvents \cup {"ResponseError"})
    BY <1>t, <2>1
  <2>10. cstate' \in {"wait", "consume", "stream", "done", "errored"}
    BY <1>t, <2>1
  <2>11. sstate' \in {"uninitialized", "wait", "consume", "stream", "done", "errored"}
    BY <1>t, <2>1
  <2>12. TypeOK' /\ ProgramsOnly'
    BY <1>0, <2>1, <2>5, <2>8, <2>9, <2>10, <2>11, <2>7 DEF TypeOK, ProgramsOnly
  <2>13. StatesKnown' /\ StreamsAreMarked'
    BY <1>0, <2>1, <2>2, <2>4, AfterRequestErrorOnly, IdleOnly, <2>5, <2>6
      DEF StatesKnown, Over, SentLater, StreamsAreMarked, Working, Undecided,
       Deciding, Concluding
  <2>14. SentLater'
    BY <1>0, <2>1, <2>2, <2>4, AfterRequestErrorOnly, IdleOnly, <2>6
      DEF SentLater, StatesKnown, Over, Working, Undecided, Deciding, Concluding
  <2>15. AtFirst' /\ BeforeFirstHook' /\ GoneIsLast'
    BY <1>0, <2>1, <2>2, <2>4, AfterRequestErrorOnly, IdleOnly, <2>6
      DEF AtFirst, StatesKnown, Over, BeforeFirstHook, GoneIsLast, Working,
       Undecided, Deciding, Concluding
  <2>16. OverIsNotLive' /\ ConnectHookRan'
    BY <1>0, <2>1, <2>2, <2>4, AfterRequestErrorOnly, IdleOnly, <2>5, <2>6
      DEF OverIsNotLive, AtFirst, BeforeFirstHook, ConnectHookRan, Working,
       Undecided, Deciding, Concluding, Told, Unended, Has
  <2>17. FoundOut'
    BY <1>0, <2>1, <2>2, <2>4, AfterRequestErrorOnly, IdleOnly, <2>6, <2>5,
       Served
      DEF FoundOut, BothErrored, GoneIsLast, GivenUp, Over, StatesKnown,
       SentLater, StreamsAreMarked, Working, Undecided, Deciding, Concluding
  <2>18. GivenUp'
    BY <1>0, <2>1, <2>2, <2>4, AfterRequestErrorOnly, IdleOnly, <2>6, <2>5
      DEF GivenUp, Over, GoneIsLast, FoundOut, BothErrored, StatesKnown,
       SentLater, Working, Undecided, Deciding, Concluding
  <2>19. OutcomeDecides'
    BY <1>0, <2>1, <2>2, <2>4, AfterRequestErrorOnly, IdleOnly, <2>6, <2>5, <1>o
      DEF OutcomeDecides, Over, StatesKnown, GivenUp, SentLater, Working,
       Undecided, Deciding, Concluding
  <2>20. ChunksCounted'
    BY <1>0, <2>1, <2>6 DEF ChunksCounted
  <2>21. QED
    BY <2>12, <2>13, <2>14, <2>15, <2>16, <2>17, <2>18, <2>19, <2>20 DEF IInv
<1>28. ASSUME CloseAfter("ResponseError"),
             Killed, todo \in OpeningFailed
      PROVE  IInv'
  <2>1. /\ toClient' = Append(toClient, "ResponseError")
        /\ cstate' = "errored" /\ sstate' = "errored"
        /\ UNCHANGED <<body, queue, toServer, hooks, dropped, passthrough, client, server,
                    bodyless, chunks>>
    BY <1>28 DEF CloseAfter, peers
  <2>2. /\ todo # << >>
        /\ todo \in {<<"close_after_ResponseError", "abandon_request", "expect_response">>,
                   <<"close_after_ResponseError", "abandon_request", "replay_request">>}
        /\ todo \in OpeningFailed
    BY <1>28 DEF CloseAfter, At, OpeningFailed
  <2>3. todo' = Tail(todo)
    BY <1>t, <1>28, <2>2, Thens DEF CloseAfter, Then
  <2>4. todo' \in Abandoning
    <3>1. CASE todo = <<"close_after_ResponseError", "abandon_request", "expect_response">>
      BY <2>3, <3>1 DEF Abandoning
    <3>2. CASE todo = <<"close_after_ResponseError", "abandon_request", "replay_request">>
      BY <2>3, <3>2 DEF Abandoning
    <3>3. QED
      BY <2>2, <3>1, <3>2
  <2>5. /\ flow' \in Flows
        /\ flow'.live = FALSE
        /\ "request" \in flow.stream => "request" \in flow'.stream
    BY <1>t, <1>28, <2>2, FlowMarks DEF CloseAfter
  <2>6. Outcomes' = Outcomes /\ (Overtaken => Overtaken') /\ Sent' = Sent
    BY <2>1, <2>5 DEF Outcomes, Overtaken, Sent
  <2>7. todo' \in Programs
    BY <2>4 DEF Programs, Working, Undecided, Deciding, Concluding
  <2>8. todo' \in Seq(Steps)
    BY <2>7, ProgramsAreSteps
  <2>9. toClient' \in Seq(ResponseEvents \cup {"ResponseError"})
    BY <1>t, <2>1
  <2>10. cstate' \in {"wait", "consume", "stream", "done", "errored"}
    BY <1>t, <2>1
  <2>11. sstate' \in {"uninitialized", "wait", "consume", "stream", "done", "errored"}
    BY <1>t, <2>1
  <2>12. TypeOK' /\ ProgramsOnly'
    BY <1>0, <2>1, <2>5, <2>8, <2>9, <2>10, <2>11, <2>7 DEF TypeOK, ProgramsOnly
  <2>13. StatesKnown' /\ StreamsAreMarked'
    BY <1>0, <2>1, <2>2, <2>4, OpeningFailedOnly, AbandoningOnly, <2>5, <2>6
      DEF StatesKnown, Over, SentLater, StreamsAreMarked
  <2>14. SentLater'
    BY <1>0, <2>1, <2>2, <2>4, OpeningFailedOnly, AbandoningOnly, <2>6
      DEF SentLater, StatesKnown, Over
  <2>15. AtFirst' /\ BeforeFirstHook' /\ GoneIsLast'
    BY <1>0, <2>1, <2>2, <2>4, OpeningFailedOnly, AbandoningOnly, <2>6
      DEF AtFirst, StatesKnown, Over, BeforeFirstHook, GoneIsLast
  <2>16. OverIsNotLive' /\ ConnectHookRan'
    BY <1>0, <2>1, <2>2, <2>4, OpeningFailedOnly, AbandoningOnly, <2>5, <2>6
      DEF OverIsNotLive, AtFirst, BeforeFirstHook, ConnectHookRan, Told,
       Unended, Has
  <2>17. FoundOut'
    BY <1>0, <2>1, <2>2, <2>4, OpeningFailedOnly, AbandoningOnly, <2>6, <2>5,
       Served
      DEF FoundOut, BothErrored, GoneIsLast, GivenUp, Over, StatesKnown,
       SentLater, StreamsAreMarked
  <2>18. GivenUp'
    BY <1>0, <2>1, <2>2, <2>4, OpeningFailedOnly, AbandoningOnly, <2>6, <2>5
      DEF GivenUp, Over, GoneIsLast, FoundOut, BothErrored, StatesKnown,
       SentLater
  <2>19. OutcomeDecides'
    BY <1>0, <2>1, <2>2, <2>4, OpeningFailedOnly, AbandoningOnly, <2>6, <2>5,
       <1>o
      DEF OutcomeDecides, Over, StatesKnown, GivenUp, SentLater, Undecided,
       Deciding, Concluding
  <2>20. ChunksCounted'
    BY <1>0, <2>1, <2>6 DEF ChunksCounted
  <2>21. QED
    BY <2>12, <2>13, <2>14, <2>15, <2>16, <2>17, <2>18, <2>19, <2>20 DEF IInv
<1>29. ASSUME CloseAfter("ResponseError"),
             Killed, todo \in AfterResponseError
      PROVE  IInv'
  <2>1. /\ toClient' = Append(toClient, "ResponseError")
        /\ cstate' = "errored" /\ sstate' = "errored"
        /\ UNCHANGED <<body, queue, toServer, hooks, dropped, passthrough, client, server,
                    bodyless, chunks>>
    BY <1>29 DEF CloseAfter, peers
  <2>2. /\ todo # << >>
        /\ todo = <<"close_after_ResponseError">>
        /\ todo \in AfterResponseError
    BY <1>29 DEF CloseAfter, At, AfterResponseError
  <2>3. todo' = Tail(todo)
    BY <1>t, <1>29, <2>2, Thens DEF CloseAfter, Then
  <2>4. todo' = << >>
    BY <1>29, <2>2, <2>3
  <2>5. /\ flow' \in Flows
        /\ flow'.live = FALSE
        /\ "request" \in flow.stream => "request" \in flow'.stream
    BY <1>t, <1>29, <2>2, FlowMarks DEF CloseAfter
  <2>6. Outcomes' = Outcomes /\ (Overtaken => Overtaken') /\ Sent' = Sent
    BY <2>1, <2>5 DEF Outcomes, Overtaken, Sent
  <2>7. todo' \in Programs
    BY <2>4 DEF Programs, Working, Undecided, Deciding, Concluding
  <2>8. todo' \in Seq(Steps)
    BY <2>7, ProgramsAreSteps
  <2>9. toClient' \in Seq(ResponseEvents \cup {"ResponseError"})
    BY <1>t, <2>1
  <2>10. cstate' \in {"wait", "consume", "stream", "done", "errored"}
    BY <1>t, <2>1
  <2>11. sstate' \in {"uninitialized", "wait", "consume", "stream", "done", "errored"}
    BY <1>t, <2>1
  <2>12. TypeOK' /\ ProgramsOnly'
    BY <1>0, <2>1, <2>5, <2>8, <2>9, <2>10, <2>11, <2>7 DEF TypeOK, ProgramsOnly
  <2>13. StatesKnown' /\ StreamsAreMarked'
    BY <1>0, <2>1, <2>2, <2>4, AfterResponseErrorOnly, IdleOnly, <2>5, <2>6
      DEF StatesKnown, Over, SentLater, StreamsAreMarked, Working, Undecided,
       Deciding, Concluding
  <2>14. SentLater'
    BY <1>0, <2>1, <2>2, <2>4, AfterResponseErrorOnly, IdleOnly, <2>6
      DEF SentLater, StatesKnown, Over, Working, Undecided, Deciding, Concluding
  <2>15. AtFirst' /\ BeforeFirstHook' /\ GoneIsLast'
    BY <1>0, <2>1, <2>2, <2>4, AfterResponseErrorOnly, IdleOnly, <2>6
      DEF AtFirst, StatesKnown, Over, BeforeFirstHook, GoneIsLast, Working,
       Undecided, Deciding, Concluding
  <2>16. OverIsNotLive' /\ ConnectHookRan'
    BY <1>0, <2>1, <2>2, <2>4, AfterResponseErrorOnly, IdleOnly, <2>5, <2>6
      DEF OverIsNotLive, AtFirst, BeforeFirstHook, ConnectHookRan, Working,
       Undecided, Deciding, Concluding, Told, Unended, Has
  <2>17. FoundOut'
    BY <1>0, <2>1, <2>2, <2>4, AfterResponseErrorOnly, IdleOnly, <2>6, <2>5,
       Served
      DEF FoundOut, BothErrored, GoneIsLast, GivenUp, Over, StatesKnown,
       SentLater, StreamsAreMarked, Working, Undecided, Deciding, Concluding
  <2>18. GivenUp'
    BY <1>0, <2>1, <2>2, <2>4, AfterResponseErrorOnly, IdleOnly, <2>6, <2>5
      DEF GivenUp, Over, GoneIsLast, FoundOut, BothErrored, StatesKnown,
       SentLater, Working, Undecided, Deciding, Concluding
  <2>19. OutcomeDecides'
    BY <1>0, <2>1, <2>2, <2>4, AfterResponseErrorOnly, IdleOnly, <2>6, <2>5,
       <1>o
      DEF OutcomeDecides, Over, StatesKnown, GivenUp, SentLater, Working,
       Undecided, Deciding, Concluding
  <2>20. ChunksCounted'
    BY <1>0, <2>1, <2>6 DEF ChunksCounted
  <2>21. QED
    BY <2>12, <2>13, <2>14, <2>15, <2>16, <2>17, <2>18, <2>19, <2>20 DEF IInv
<1>30. ASSUME CloseAfter("RequestError"),
             ~Killed, todo \in AfterRequestError
      PROVE  IInv'
  <2>1. /\ dropped' = TRUE
        /\ UNCHANGED <<cstate, sstate, body, queue, toClient, toServer, hooks, passthrough,
                    client, server, bodyless, chunks>>
    BY <1>30 DEF CloseAfter, ForwardError, peers
  <2>2. /\ todo # << >>
        /\ todo = <<"close_after_RequestError">>
        /\ todo \in AfterRequestError
    BY <1>30 DEF CloseAfter, ForwardError, At, AfterRequestError
  <2>3. todo' = Tail(todo)
    BY <1>t, <1>30, <2>2, Thens DEF CloseAfter, Then
  <2>4. todo' = << >>
    BY <1>30, <2>2, <2>3
  <2>5. ~Left(queue)
    BY <1>30 DEF CloseAfter, ForwardError, Killed, KilledByRemote, Left
  <2>6. /\ flow' \in Flows
        /\ flow'.live = FALSE
        /\ "request" \in flow.stream => "request" \in flow'.stream
    BY <1>t, <1>30, <2>2, FlowMarks DEF CloseAfter
  <2>7. Outcomes' = Outcomes /\ (Overtaken => Overtaken') /\ Sent' = Sent /\ Told' = Told
    BY <2>1, <2>6 DEF Outcomes, Overtaken, Sent, Told
  <2>8. todo' \in Programs
    BY <2>4 DEF Programs, Working, Undecided, Deciding, Concluding
  <2>9. todo' \in Seq(Steps)
    BY <2>8, ProgramsAreSteps
  <2>10. dropped' \in BOOLEAN
    BY <1>t, <2>1
  <2>11. TypeOK' /\ ProgramsOnly'
    BY <1>0, <2>1, <2>6, <2>9, <2>10, <2>8 DEF TypeOK, ProgramsOnly
  <2>12. StatesKnown' /\ StreamsAreMarked'
    BY <1>0, <2>1, <2>2, <2>4, AfterRequestErrorOnly, IdleOnly, <2>6, <2>7
      DEF StatesKnown, Over, SentLater, StreamsAreMarked, Working, Undecided,
       Deciding, Concluding
  <2>13. AtFirst' /\ BeforeFirstHook' /\ GoneIsLast'
    BY <1>0, <2>1, <2>2, <2>4, AfterRequestErrorOnly, IdleOnly, <2>7, <2>5
      DEF AtFirst, StatesKnown, Over, BeforeFirstHook, GoneIsLast, Working,
       Undecided, Deciding, Concluding
  <2>14. OverIsNotLive' /\ ConnectHookRan'
    BY <1>0, <2>1, <2>2, <2>4, AfterRequestErrorOnly, IdleOnly, <2>6, <2>7
      DEF OverIsNotLive, AtFirst, BeforeFirstHook, ConnectHookRan, Working,
       Undecided, Deciding, Concluding, Told, Unended, Has
  <2>15. FoundOut'
    BY <1>0, <2>1, <2>2, <2>4, AfterRequestErrorOnly, IdleOnly, <2>5, <2>7,
       <2>6, Served
      DEF FoundOut, BothErrored, GoneIsLast, GivenUp, Over, StatesKnown,
       SentLater, StreamsAreMarked, Working, Undecided, Deciding, Concluding
  <2>16. GivenUp'
    BY <1>0, <2>1, <2>2, <2>4, AfterRequestErrorOnly, IdleOnly, <2>5, <2>7, <2>6
      DEF GivenUp, Over, GoneIsLast, FoundOut, BothErrored, StatesKnown,
       SentLater, Working, Undecided, Deciding, Concluding
  <2>17. OutcomeDecides'
    BY <1>0, <2>1, <2>2, <2>4, AfterRequestErrorOnly, IdleOnly, <2>7, <2>6, <1>o
      DEF OutcomeDecides, Over, StatesKnown, GivenUp, SentLater, Working,
       Undecided, Deciding, Concluding
  <2>18. SentLater' /\ ChunksCounted'
    BY <1>0, <2>1, <2>7 DEF SentLater, ChunksCounted
  <2>19. QED
    BY <2>11, <2>12, <2>13, <2>14, <2>15, <2>16, <2>17, <2>18 DEF IInv
<1>31. ASSUME CloseAfter("ResponseError"),
             ~Killed, todo \in OpeningFailed
      PROVE  IInv'
  <2>1. /\ dropped' = TRUE /\ sstate' = "errored"
        /\ toClient' = ForwardError("ResponseError")
        /\ UNCHANGED <<cstate, body, queue, toServer, hooks, passthrough, client, server,
                    bodyless, chunks>>
    BY <1>31 DEF CloseAfter, peers
  <2>2. /\ todo # << >>
        /\ todo \in {<<"close_after_ResponseError", "abandon_request", "expect_response">>,
                   <<"close_after_ResponseError", "abandon_request", "replay_request">>}
        /\ todo \in OpeningFailed
    BY <1>31 DEF CloseAfter, At, OpeningFailed
  <2>3. todo' = Tail(todo)
    BY <1>t, <1>31, <2>2, Thens DEF CloseAfter, Then
  <2>4. todo' \in Abandoning
    <3>1. CASE todo = <<"close_after_ResponseError", "abandon_request", "expect_response">>
      BY <2>3, <3>1 DEF Abandoning
    <3>2. CASE todo = <<"close_after_ResponseError", "abandon_request", "replay_request">>
      BY <2>3, <3>2 DEF Abandoning
    <3>3. QED
      BY <2>2, <3>1, <3>2
  <2>5. ~Left(queue)
    BY <1>31 DEF CloseAfter, Killed, KilledByRemote, Left
  <2>6. /\ flow' \in Flows
        /\ flow'.live = FALSE
        /\ "request" \in flow.stream => "request" \in flow'.stream
    BY <1>t, <1>31, <2>2, FlowMarks DEF CloseAfter
  <2>7. Outcomes' = Outcomes /\ (Overtaken => Overtaken') /\ Sent' = Sent
    BY <2>1, <2>6 DEF Outcomes, Overtaken, Sent
  <2>8. todo' \in Programs
    BY <2>4 DEF Programs, Working, Undecided, Deciding, Concluding
  <2>9. todo' \in Seq(Steps)
    BY <2>8, ProgramsAreSteps
  <2>10. dropped' \in BOOLEAN
    BY <1>t, <2>1
  <2>11. toClient' \in Seq(ResponseEvents \cup {"ResponseError"})
    BY <1>t, <2>1 DEF ForwardError
  <2>12. sstate' \in {"uninitialized", "wait", "consume", "stream", "done", "errored"}
    BY <1>t, <2>1
  <2>13. TypeOK' /\ ProgramsOnly'
    BY <1>0, <2>1, <2>6, <2>9, <2>10, <2>11, <2>12, <2>8
      DEF TypeOK, ProgramsOnly
  <2>14. StatesKnown' /\ StreamsAreMarked'
    BY <1>0, <2>1, <2>2, <2>4, OpeningFailedOnly, AbandoningOnly, <2>6, <2>7
      DEF StatesKnown, Over, SentLater, StreamsAreMarked
  <2>15. AtFirst' /\ BeforeFirstHook' /\ GoneIsLast'
    BY <1>0, <2>1, <2>2, <2>4, OpeningFailedOnly, AbandoningOnly, <2>7, <2>5
      DEF AtFirst, StatesKnown, Over, BeforeFirstHook, GoneIsLast
  <2>16. OverIsNotLive' /\ ConnectHookRan'
    BY <1>0, <2>1, <2>2, <2>4, OpeningFailedOnly, AbandoningOnly, <2>6, <2>7
      DEF OverIsNotLive, AtFirst, BeforeFirstHook, ConnectHookRan, Told,
       Unended, Has
  <2>17. FoundOut'
    BY <1>0, <2>1, <2>2, <2>4, OpeningFailedOnly, AbandoningOnly, <2>5, <2>7,
       <2>6, Served
      DEF FoundOut, BothErrored, GoneIsLast, GivenUp, Over, StatesKnown,
       SentLater, StreamsAreMarked
  <2>18. GivenUp'
    BY <1>0, <2>1, <2>2, <2>4, OpeningFailedOnly, AbandoningOnly, <2>5, <2>7,
       <2>6
      DEF GivenUp, Over, GoneIsLast, FoundOut, BothErrored, StatesKnown,
       SentLater
  <2>19. OutcomeDecides'
    BY <1>0, <2>1, <2>2, <2>4, OpeningFailedOnly, AbandoningOnly, <2>7, <2>6,
       <1>o
      DEF OutcomeDecides, Over, StatesKnown, GivenUp, SentLater, Undecided,
       Deciding, Concluding
  <2>20. SentLater' /\ ChunksCounted'
    BY <1>0, <2>1, <2>7 DEF SentLater, ChunksCounted
  <2>21. QED
    BY <2>13, <2>14, <2>15, <2>16, <2>17, <2>18, <2>19, <2>20 DEF IInv
<1>32. ASSUME CloseAfter("ResponseError"),
             ~Killed, todo \in AfterResponseError
      PROVE  IInv'
  <2>1. /\ dropped' = TRUE /\ sstate' = "errored"
        /\ toClient' = ForwardError("ResponseError")
        /\ UNCHANGED <<cstate, body, queue, toServer, hooks, passthrough, client, server,
                    bodyless, chunks>>
    BY <1>32 DEF CloseAfter, peers
  <2>2. /\ todo # << >>
        /\ todo = <<"close_after_ResponseError">>
        /\ todo \in AfterResponseError
    BY <1>32 DEF CloseAfter, At, AfterResponseError
  <2>3. todo' = Tail(todo)
    BY <1>t, <1>32, <2>2, Thens DEF CloseAfter, Then
  <2>4. todo' = << >>
    BY <1>32, <2>2, <2>3
  <2>5. ~Left(queue)
    BY <1>32 DEF CloseAfter, Killed, KilledByRemote, Left
  <2>6. /\ flow' \in Flows
        /\ flow'.live = FALSE
        /\ "request" \in flow.stream => "request" \in flow'.stream
    BY <1>t, <1>32, <2>2, FlowMarks DEF CloseAfter
  <2>7. Outcomes' = Outcomes /\ (Overtaken => Overtaken') /\ Sent' = Sent
    BY <2>1, <2>6 DEF Outcomes, Overtaken, Sent
  <2>8. todo' \in Programs
    BY <2>4 DEF Programs, Working, Undecided, Deciding, Concluding
  <2>9. todo' \in Seq(Steps)
    BY <2>8, ProgramsAreSteps
  <2>10. dropped' \in BOOLEAN
    BY <1>t, <2>1
  <2>11. toClient' \in Seq(ResponseEvents \cup {"ResponseError"})
    BY <1>t, <2>1 DEF ForwardError
  <2>12. sstate' \in {"uninitialized", "wait", "consume", "stream", "done", "errored"}
    BY <1>t, <2>1
  <2>13. TypeOK' /\ ProgramsOnly'
    BY <1>0, <2>1, <2>6, <2>9, <2>10, <2>11, <2>12, <2>8
      DEF TypeOK, ProgramsOnly
  <2>14. StatesKnown' /\ StreamsAreMarked'
    BY <1>0, <2>1, <2>2, <2>4, AfterResponseErrorOnly, IdleOnly, <2>6, <2>7
      DEF StatesKnown, Over, SentLater, StreamsAreMarked, Working, Undecided,
       Deciding, Concluding
  <2>15. AtFirst' /\ BeforeFirstHook' /\ GoneIsLast'
    BY <1>0, <2>1, <2>2, <2>4, AfterResponseErrorOnly, IdleOnly, <2>7, <2>5
      DEF AtFirst, StatesKnown, Over, BeforeFirstHook, GoneIsLast, Working,
       Undecided, Deciding, Concluding
  <2>16. OverIsNotLive' /\ ConnectHookRan'
    BY <1>0, <2>1, <2>2, <2>4, AfterResponseErrorOnly, IdleOnly, <2>6, <2>7
      DEF OverIsNotLive, AtFirst, BeforeFirstHook, ConnectHookRan, Working,
       Undecided, Deciding, Concluding, Told, Unended, Has
  <2>17. FoundOut'
    BY <1>0, <2>1, <2>2, <2>4, AfterResponseErrorOnly, IdleOnly, <2>5, <2>7,
       <2>6, Served
      DEF FoundOut, BothErrored, GoneIsLast, GivenUp, Over, StatesKnown,
       SentLater, StreamsAreMarked, Working, Undecided, Deciding, Concluding
  <2>18. GivenUp'
    BY <1>0, <2>1, <2>2, <2>4, AfterResponseErrorOnly, IdleOnly, <2>5, <2>7,
       <2>6
      DEF GivenUp, Over, GoneIsLast, FoundOut, BothErrored, StatesKnown,
       SentLater, Working, Undecided, Deciding, Concluding
  <2>19. OutcomeDecides'
    BY <1>0, <2>1, <2>2, <2>4, AfterResponseErrorOnly, IdleOnly, <2>7, <2>6,
       <1>o
      DEF OutcomeDecides, Over, StatesKnown, GivenUp, SentLater, Working,
       Undecided, Deciding, Concluding
  <2>20. SentLater' /\ ChunksCounted'
    BY <1>0, <2>1, <2>7 DEF SentLater, ChunksCounted
  <2>21. QED
    BY <2>13, <2>14, <2>15, <2>16, <2>17, <2>18, <2>19, <2>20 DEF IInv
<1>33. CASE InvalidRequest
  <2>1. /\ cstate = "wait"
        /\ UNCHANGED <<cstate, sstate, body, toClient, toServer, hooks, dropped,
                    passthrough, client, server, bodyless, chunks>>
    BY <1>33 DEF InvalidRequest, FirstEvent, Handle, ends, peers
  <2>2. todo = << >> /\ queue # << >> /\ queue' = Tail(queue) /\ Head(queue) = "RequestHeaders" /\ ~passthrough
    BY <1>33 DEF FirstEvent, Handle, InvalidRequest
  <2>3. todo' \in Invalid
    BY <1>33, <2>2 DEF InvalidRequest, Handle, Invalid
  <2>4. RequestTaken
    BY <1>t, <2>2, TakesRequest DEF RequestTaken, RequestEvents
  <2>5. /\ flow' \in Flows
        /\ flow'.live = TRUE
    BY <1>t, <1>33, <2>2 DEF InvalidRequest, Flows, Sides
  <2>6. Sent' = Sent /\ Told' = Told
    BY <2>1 DEF Sent, Told
  <2>7. Outcomes' = Outcomes /\ ~Overtaken
    BY <1>t, <2>1, <2>2, <2>5, <1>0, RangeEmpty
      DEF Outcomes, Overtaken, AtFirst, Has
  <2>8. /\ hooks = << >> /\ ~Told /\ client # "idle" /\ queue' = << >>
        /\ sstate = "uninitialized" /\ ~Sent /\ ~Overtaken
    BY <1>t, <2>1, <2>2, <1>0, RangeEmpty, IdleOnly
      DEF AtFirst, StatesKnown, SentLater, Told, Unended, Overtaken, Has,
       Working, Undecided, Deciding, Concluding
  <2>9. todo' \in Programs
    BY <2>3 DEF Programs, Working, Undecided, Deciding, Concluding
  <2>10. todo' \in Seq(Steps)
    BY <2>9, ProgramsAreSteps
  <2>11. TypeOK' /\ ProgramsOnly'
    BY <1>0, <2>1, <2>4, <2>5, <2>10, <2>9
      DEF TypeOK, RequestTaken, ProgramsOnly
  <2>12. ChunksCounted'
    BY <1>0, <2>1, <2>2, CountsKept
  <2>13. StatesKnown' /\ StreamsAreMarked'
    BY <1>0, <2>1, <2>2, <2>3, IdleOnly, InvalidOnly, <2>5, <2>6, <2>8
      DEF StatesKnown, Over, SentLater, StreamsAreMarked, Working, Undecided,
       Deciding, Concluding
  <2>14. SentLater'
    BY <1>0, <2>1, <2>2, <2>3, IdleOnly, InvalidOnly, <2>4, <2>6, <2>8
      DEF SentLater, StatesKnown, Over, Working, Undecided, Deciding,
       Concluding, RequestTaken
  <2>15. AtFirst' /\ BeforeFirstHook' /\ GoneIsLast'
    BY <1>0, <2>1, <2>2, <2>3, IdleOnly, InvalidOnly, <2>4, <2>6, <2>8
      DEF AtFirst, StatesKnown, Over, BeforeFirstHook, GoneIsLast, Working,
       Undecided, Deciding, Concluding, RequestTaken
  <2>16. OverIsNotLive' /\ ConnectHookRan'
    BY <1>0, <2>1, <2>2, <2>3, IdleOnly, InvalidOnly, <2>5, <2>6, <2>8
      DEF OverIsNotLive, AtFirst, BeforeFirstHook, ConnectHookRan, Working,
       Undecided, Deciding, Concluding, Told, Unended, Has
  <2>17. FoundOut'
    BY <1>0, <2>1, <2>2, <2>3, IdleOnly, InvalidOnly, <2>4, <2>7, <2>5, <2>6,
       Served, <2>8
      DEF FoundOut, BothErrored, GoneIsLast, GivenUp, Over, StatesKnown,
       SentLater, StreamsAreMarked, Working, Undecided, Deciding, Concluding,
       RequestTaken
  <2>18. GivenUp'
    BY <1>0, <2>1, <2>2, <2>3, IdleOnly, InvalidOnly, <2>4, <2>7, <2>5, <2>6,
       <2>8
      DEF GivenUp, Over, GoneIsLast, FoundOut, BothErrored, StatesKnown,
       SentLater, Working, Undecided, Deciding, Concluding, RequestTaken
  <2>19. OutcomeDecides'
    BY <1>0, <2>1, <2>2, <2>3, IdleOnly, InvalidOnly, <2>4, <2>7, <2>5, <2>6,
       <1>o, <2>8
      DEF OutcomeDecides, Over, StatesKnown, GivenUp, SentLater, Working,
       Undecided, Deciding, Concluding, RequestTaken
  <2>20. QED
    BY <2>11, <2>12, <2>13, <2>14, <2>15, <2>16, <2>17, <2>18, <2>19 DEF IInv
<1>34. CASE ConnectRequest
  <2>1. /\ cstate = "wait"
        /\ cstate' = "done"
        /\ UNCHANGED <<sstate, body, toClient, toServer, hooks, dropped, passthrough,
                    client, server, bodyless, chunks>>
    BY <1>34 DEF ConnectRequest, FirstEvent, Handle, ends, peers
  <2>2. todo = << >> /\ queue # << >> /\ queue' = Tail(queue) /\ Head(queue) = "RequestHeaders" /\ ~passthrough
    BY <1>34 DEF FirstEvent, Handle, ConnectRequest
  <2>3. todo' \in Asked
    BY <1>34, <2>2 DEF ConnectRequest, Handle, Asked
  <2>4. RequestTaken
    BY <1>t, <2>2, TakesRequest DEF RequestTaken, RequestEvents
  <2>5. /\ flow' \in Flows
        /\ flow'.live = TRUE
    BY <1>t, <1>34, <2>2 DEF ConnectRequest, Flows, Sides
  <2>6. Sent' = Sent /\ Told' = Told
    BY <2>1 DEF Sent, Told
  <2>7. Outcomes' = Outcomes /\ ~Overtaken
    BY <1>t, <2>1, <2>2, <2>5, <1>0, RangeEmpty
      DEF Outcomes, Overtaken, AtFirst, Has
  <2>8. /\ hooks = << >> /\ ~Told /\ client # "idle" /\ queue' = << >>
        /\ sstate = "uninitialized" /\ ~Sent /\ ~Overtaken
    BY <1>t, <2>1, <2>2, <1>0, RangeEmpty, IdleOnly
      DEF AtFirst, StatesKnown, SentLater, Told, Unended, Overtaken, Has,
       Working, Undecided, Deciding, Concluding
  <2>9. todo' \in Programs
    BY <2>3 DEF Programs, Working, Undecided, Deciding, Concluding
  <2>10. todo' \in Seq(Steps)
    BY <2>9, ProgramsAreSteps
  <2>11. cstate' \in {"wait", "consume", "stream", "done", "errored"}
    BY <1>t, <2>1
  <2>12. TypeOK' /\ ProgramsOnly'
    BY <1>0, <2>1, <2>4, <2>5, <2>10, <2>11, <2>9
      DEF TypeOK, RequestTaken, ProgramsOnly
  <2>13. ChunksCounted'
    BY <1>0, <2>1, <2>2, CountsKept
  <2>14. StatesKnown' /\ StreamsAreMarked'
    BY <1>0, <2>1, <2>2, <2>3, IdleOnly, AskedOnly, <2>5, <2>6, <2>8
      DEF StatesKnown, Over, SentLater, StreamsAreMarked, Working, Undecided,
       Deciding, Concluding
  <2>15. SentLater'
    BY <1>0, <2>1, <2>2, <2>3, IdleOnly, AskedOnly, <2>4, <2>6, <2>8
      DEF SentLater, StatesKnown, Over, Working, Undecided, Deciding,
       Concluding, RequestTaken
  <2>16. AtFirst' /\ BeforeFirstHook' /\ GoneIsLast'
    BY <1>0, <2>1, <2>2, <2>3, IdleOnly, AskedOnly, <2>4, <2>6, <2>8
      DEF AtFirst, StatesKnown, Over, BeforeFirstHook, GoneIsLast, Working,
       Undecided, Deciding, Concluding, RequestTaken
  <2>17. OverIsNotLive' /\ ConnectHookRan'
    BY <1>0, <2>1, <2>2, <2>3, IdleOnly, AskedOnly, <2>5, <2>6, <2>8
      DEF OverIsNotLive, AtFirst, BeforeFirstHook, ConnectHookRan, Working,
       Undecided, Deciding, Concluding, Told, Unended, Has
  <2>18. FoundOut'
    BY <1>0, <2>1, <2>2, <2>3, IdleOnly, AskedOnly, <2>4, <2>7, <2>5, <2>6,
       Served, <2>8
      DEF FoundOut, BothErrored, GoneIsLast, GivenUp, Over, StatesKnown,
       SentLater, StreamsAreMarked, Working, Undecided, Deciding, Concluding,
       RequestTaken
  <2>19. GivenUp'
    BY <1>0, <2>1, <2>2, <2>3, IdleOnly, AskedOnly, <2>4, <2>7, <2>5, <2>6, <2>8
      DEF GivenUp, Over, GoneIsLast, FoundOut, BothErrored, StatesKnown,
       SentLater, Working, Undecided, Deciding, Concluding, RequestTaken
  <2>20. OutcomeDecides'
    BY <1>0, <2>1, <2>2, <2>3, IdleOnly, AskedOnly, <2>4, <2>7, <2>5, <2>6,
       <1>o, <2>8
      DEF OutcomeDecides, Over, StatesKnown, GivenUp, SentLater, Working,
       Undecided, Deciding, Concluding, RequestTaken
  <2>21. QED
    BY <2>12, <2>13, <2>14, <2>15, <2>16, <2>17, <2>18, <2>19, <2>20 DEF IInv
<1>35. CASE LostRequest
  <2>1. /\ cstate = "wait"
        /\ toClient' = Append(toClient, "ResponseError")
        /\ cstate' = "errored"
        /\ UNCHANGED <<sstate, body, todo, toServer, hooks, dropped, passthrough, client,
                    server, bodyless, chunks>>
    BY <1>35 DEF LostRequest, FirstEvent, Handle, ends, peers
  <2>2. todo = << >> /\ queue # << >> /\ queue' = Tail(queue) /\ Head(queue) = "RequestHeaders" /\ ~passthrough
    BY <1>35 DEF FirstEvent, Handle, LostRequest
  <2>3. RequestTaken
    BY <1>t, <2>2, TakesRequest DEF RequestTaken, RequestEvents
  <2>4. /\ flow' \in Flows
        /\ flow'.live = TRUE
    BY <1>t, <1>35, <2>2 DEF LostRequest, Flows, Sides
  <2>5. Sent' = Sent
    BY <2>1 DEF Sent
  <2>6. Outcomes' = Outcomes /\ ~Overtaken
    BY <1>t, <2>1, <2>2, <2>4, <1>0, RangeEmpty
      DEF Outcomes, Overtaken, AtFirst, Has
  <2>7. /\ hooks = << >> /\ ~Told /\ client # "idle" /\ queue' = << >>
        /\ sstate = "uninitialized" /\ ~Sent /\ ~Overtaken
    BY <1>t, <2>1, <2>2, <1>0, RangeEmpty, IdleOnly
      DEF AtFirst, StatesKnown, SentLater, Told, Unended, Overtaken, Has,
       Working, Undecided, Deciding, Concluding
  <2>8. toClient' \in Seq(ResponseEvents \cup {"ResponseError"})
    BY <1>t, <2>1
  <2>9. cstate' \in {"wait", "consume", "stream", "done", "errored"}
    BY <1>t, <2>1
  <2>10. TypeOK'
    BY <1>0, <2>1, <2>3, <2>4, <2>8, <2>9 DEF TypeOK, RequestTaken
  <2>11. ChunksCounted'
    BY <1>0, <2>1, <2>2, CountsKept
  <2>12. StatesKnown' /\ StreamsAreMarked'
    BY <1>0, <2>1, <2>2, IdleOnly, <2>4, <2>5, <2>7
      DEF StatesKnown, Over, SentLater, StreamsAreMarked, Working, Undecided,
       Deciding, Concluding
  <2>13. SentLater'
    BY <1>0, <2>1, <2>2, IdleOnly, <2>3, <2>5, <2>7
      DEF SentLater, StatesKnown, Over, Working, Undecided, Deciding,
       Concluding, RequestTaken
  <2>14. AtFirst' /\ BeforeFirstHook' /\ GoneIsLast'
    BY <1>0, <2>1, <2>2, IdleOnly, <2>3, <2>5, <2>7
      DEF AtFirst, StatesKnown, Over, BeforeFirstHook, GoneIsLast, Working,
       Undecided, Deciding, Concluding, RequestTaken
  <2>15. OverIsNotLive'
    BY <1>0, <2>1, <2>2, IdleOnly, <2>4, <2>5, <2>7
      DEF OverIsNotLive, AtFirst, BeforeFirstHook, Working, Undecided, Deciding,
       Concluding, Told, Unended
  <2>16. FoundOut'
    BY <1>0, <2>1, <2>2, IdleOnly, <2>3, <2>6, <2>4, <2>5, Served, <2>7
      DEF FoundOut, BothErrored, GoneIsLast, GivenUp, Over, StatesKnown,
       SentLater, StreamsAreMarked, Working, Undecided, Deciding, Concluding,
       RequestTaken
  <2>17. GivenUp'
    BY <1>0, <2>1, <2>2, IdleOnly, <2>3, <2>6, <2>4, <2>5, <2>7
      DEF GivenUp, Over, GoneIsLast, FoundOut, BothErrored, StatesKnown,
       SentLater, Working, Undecided, Deciding, Concluding, RequestTaken
  <2>18. OutcomeDecides'
    BY <1>0, <2>1, <2>2, IdleOnly, <2>3, <2>6, <2>4, <2>5, <1>o, <2>7
      DEF OutcomeDecides, Over, StatesKnown, GivenUp, SentLater, Working,
       Undecided, Deciding, Concluding, RequestTaken
  <2>19. ProgramsOnly' /\ ConnectHookRan'
    BY <1>0, <2>1, <2>5 DEF ProgramsOnly, ConnectHookRan, Has
  <2>20. QED
    BY <2>10, <2>11, <2>12, <2>13, <2>14, <2>15, <2>16, <2>17, <2>18, <2>19
      DEF IInv
<1>36. CASE AnnouncedRequest
  <2>1. /\ cstate = "wait"
        /\ UNCHANGED <<cstate, sstate, body, toClient, toServer, hooks, dropped,
                    passthrough, client, server, bodyless, chunks>>
    BY <1>36 DEF AnnouncedRequest, FirstEvent, Handle, ends, peers
  <2>2. todo = << >> /\ queue # << >> /\ queue' = Tail(queue) /\ Head(queue) = "RequestHeaders" /\ ~passthrough
    BY <1>36 DEF FirstEvent, Handle, AnnouncedRequest
  <2>3. flow' \in Flows /\ flow'.live = TRUE
    BY <1>t, <1>36, AnnouncedLive
  <2>4. todo' \in Announced
    BY <1>36, <2>2 DEF AnnouncedRequest, Handle, Announced
  <2>5. RequestTaken
    BY <1>t, <2>2, TakesRequest DEF RequestTaken, RequestEvents
  <2>6. /\ flow' \in Flows
        /\ flow'.live = TRUE
    BY <1>t, <1>36, <2>2, <2>3 DEF AnnouncedRequest, Flows, Sides
  <2>7. Sent' = Sent /\ Told' = Told
    BY <2>1 DEF Sent, Told
  <2>8. Outcomes' = Outcomes /\ ~Overtaken
    BY <1>t, <2>1, <2>2, <2>6, <1>0, RangeEmpty
      DEF Outcomes, Overtaken, AtFirst, Has
  <2>9. /\ hooks = << >> /\ ~Told /\ client # "idle" /\ queue' = << >>
        /\ sstate = "uninitialized" /\ ~Sent /\ ~Overtaken
    BY <1>t, <2>1, <2>2, <1>0, RangeEmpty, IdleOnly
      DEF AtFirst, StatesKnown, SentLater, Told, Unended, Overtaken, Has,
       Working, Undecided, Deciding, Concluding
  <2>10. todo' \in Programs
    BY <2>4 DEF Programs, Working, Undecided, Deciding, Concluding
  <2>11. todo' \in Seq(Steps)
    BY <2>10, ProgramsAreSteps
  <2>12. TypeOK' /\ ProgramsOnly'
    BY <1>0, <2>1, <2>5, <2>6, <2>11, <2>10
      DEF TypeOK, RequestTaken, ProgramsOnly
  <2>13. ChunksCounted'
    BY <1>0, <2>1, <2>2, CountsKept
  <2>14. StatesKnown' /\ StreamsAreMarked'
    BY <1>0, <2>1, <2>2, <2>4, IdleOnly, AnnouncedOnly, <2>6, <2>7, <2>9
      DEF StatesKnown, Over, SentLater, StreamsAreMarked, Working, Undecided,
       Deciding, Concluding
  <2>15. SentLater'
    BY <1>0, <2>1, <2>2, <2>4, IdleOnly, AnnouncedOnly, <2>5, <2>7, <2>9
      DEF SentLater, StatesKnown, Over, Working, Undecided, Deciding,
       Concluding, RequestTaken
  <2>16. AtFirst' /\ BeforeFirstHook' /\ GoneIsLast'
    BY <1>0, <2>1, <2>2, <2>4, IdleOnly, AnnouncedOnly, <2>5, <2>7, <2>9
      DEF AtFirst, StatesKnown, Over, BeforeFirstHook, GoneIsLast, Working,
       Undecided, Deciding, Concluding, RequestTaken
  <2>17. OverIsNotLive' /\ ConnectHookRan'
    BY <1>0, <2>1, <2>2, <2>4, IdleOnly, AnnouncedOnly, <2>6, <2>7, <2>9
      DEF OverIsNotLive, AtFirst, BeforeFirstHook, ConnectHookRan, Working,
       Undecided, Deciding, Concluding, Told, Unended, Has
  <2>18. FoundOut'
    BY <1>0, <2>1, <2>2, <2>4, IdleOnly, AnnouncedOnly, <2>5, <2>8, <2>6, <2>7,
       Served, <2>9
      DEF FoundOut, BothErrored, GoneIsLast, GivenUp, Over, StatesKnown,
       SentLater, StreamsAreMarked, Working, Undecided, Deciding, Concluding,
       RequestTaken
  <2>19. GivenUp'
    BY <1>0, <2>1, <2>2, <2>4, IdleOnly, AnnouncedOnly, <2>5, <2>8, <2>6, <2>7,
       <2>9
      DEF GivenUp, Over, GoneIsLast, FoundOut, BothErrored, StatesKnown,
       SentLater, Working, Undecided, Deciding, Concluding, RequestTaken
  <2>20. OutcomeDecides'
    BY <1>0, <2>1, <2>2, <2>4, IdleOnly, AnnouncedOnly, <2>5, <2>8, <2>6, <2>7,
       <1>o, <2>9
      DEF OutcomeDecides, Over, StatesKnown, GivenUp, SentLater, Working,
       Undecided, Deciding, Concluding, RequestTaken
  <2>21. QED
    BY <2>12, <2>13, <2>14, <2>15, <2>16, <2>17, <2>18, <2>19, <2>20 DEF IInv
<1>37. ASSUME BeginRequest,
             "request" \in flow.stream \ bodyless
      PROVE  IInv'
  <2>1. /\ "request" \in flow.stream
        /\ UNCHANGED <<cstate, sstate, flow, body, queue, toClient, toServer, hooks,
                    dropped, passthrough, client, server, bodyless, chunks>>
    BY <1>37 DEF BeginRequest, Proceed, At, states, sent, ends, peers
  <2>2. todo # << >> /\ Head(todo) = "begin_request"
    BY <1>37 DEF BeginRequest, Proceed, At
  <2>3. /\ todo # << >>
        /\ todo = <<"begin_request">>
        /\ todo \in Beginning
    BY <1>t, <2>2, Whereabouts DEF Beginning
  <2>4. todo' \in Opening
    BY <1>37, <2>3, AloneThree DEF BeginRequest, Then, Opening
  <2>5. OnlyMoves
    BY <1>t, <2>1 DEF OnlyMoves, KeepsLife
  <2>6. QED
    BY <2>1, <2>5, <2>3, <2>4, <1>t, BeginningOnly, Moving
      DEF GoesOn, From, Outcomes
<1>38. ASSUME BeginRequest,
             "request" \notin flow.stream \ bodyless
      PROVE  IInv'
  <2>1. /\ cstate' = "consume" /\ sstate' = "wait"
        /\ UNCHANGED <<flow, body, queue, toClient, toServer, hooks, dropped, passthrough,
                    client, server, bodyless, chunks>>
    BY <1>38 DEF BeginRequest, Proceed, At, states, sent, ends, peers
  <2>2. todo # << >> /\ Head(todo) = "begin_request"
    BY <1>38 DEF BeginRequest, Proceed, At
  <2>3. /\ todo # << >>
        /\ todo = <<"begin_request">>
        /\ todo \in Beginning
    BY <1>t, <2>2, Whereabouts DEF Beginning
  <2>4. todo' = Tail(todo)
    BY <1>t, <1>38, <2>3, Thens DEF BeginRequest, Proceed, At, Then
  <2>5. todo' = << >>
    BY <1>38, <2>3, <2>4
  <2>6. ~Left(queue)
    BY <1>38
      DEF BeginRequest, Proceed, At, Killed, KilledByRemote, Left, Checked,
       CheckedLoudly, CheckedQuietly
  <2>7. Outcomes' = Outcomes /\ Overtaken' = Overtaken /\ Sent' = Sent
    BY <2>1 DEF Outcomes, Overtaken, Sent
  <2>8. todo' \in Programs
    BY <2>5 DEF Programs, Working, Undecided, Deciding, Concluding
  <2>9. todo' \in Seq(Steps)
    BY <2>8, ProgramsAreSteps
  <2>10. cstate' \in {"wait", "consume", "stream", "done", "errored"}
    BY <1>t, <2>1
  <2>11. sstate' \in {"uninitialized", "wait", "consume", "stream", "done", "errored"}
    BY <1>t, <2>1
  <2>12. TypeOK' /\ ProgramsOnly'
    BY <1>0, <2>1, <2>9, <2>10, <2>11, <2>8 DEF TypeOK, ProgramsOnly
  <2>13. StatesKnown' /\ StreamsAreMarked'
    BY <1>0, <2>1, <2>3, <2>5, BeginningOnly, IdleOnly, <2>7
      DEF StatesKnown, Over, SentLater, StreamsAreMarked, Working, Undecided,
       Deciding, Concluding
  <2>14. SentLater'
    BY <1>0, <2>1, <2>3, <2>5, BeginningOnly, IdleOnly, <2>7
      DEF SentLater, StatesKnown, Over, Working, Undecided, Deciding, Concluding
  <2>15. AtFirst' /\ BeforeFirstHook' /\ GoneIsLast'
    BY <1>0, <2>1, <2>3, <2>5, BeginningOnly, IdleOnly, <2>7, <2>6
      DEF AtFirst, StatesKnown, Over, BeforeFirstHook, GoneIsLast, Working,
       Undecided, Deciding, Concluding
  <2>16. ConnectHookRan'
    BY <1>0, <2>1, <2>3, <2>5, BeginningOnly, IdleOnly, <2>7
      DEF ConnectHookRan, Working, Undecided, Deciding, Concluding, Has
  <2>17. FoundOut'
    BY <1>0, <2>1, <2>3, <2>5, BeginningOnly, IdleOnly, <2>6, <2>7, Served
      DEF FoundOut, BothErrored, GoneIsLast, GivenUp, Over, StatesKnown,
       SentLater, StreamsAreMarked, Working, Undecided, Deciding, Concluding
  <2>18. GivenUp'
    BY <1>0, <2>1, <2>3, <2>5, BeginningOnly, IdleOnly, <2>6, <2>7
      DEF GivenUp, Over, GoneIsLast, FoundOut, BothErrored, StatesKnown,
       SentLater, Working, Undecided, Deciding, Concluding
  <2>19. OutcomeDecides'
    BY <1>0, <2>1, <2>3, <2>5, BeginningOnly, IdleOnly, <2>7, <1>o
      DEF OutcomeDecides, Over, StatesKnown, GivenUp, SentLater, Working,
       Undecided, Deciding, Concluding
  <2>20. OverIsNotLive' /\ ChunksCounted'
    BY <1>0, <2>1, <2>7 DEF OverIsNotLive, ChunksCounted
  <2>21. QED
    BY <2>12, <2>13, <2>14, <2>15, <2>16, <2>17, <2>18, <2>19, <2>20 DEF IInv
<1>39. ASSUME StreamRequest,
             todo \in Opening
      PROVE  IInv'
  <2>1. /\ toServer' = Append(toServer, "RequestHeaders")
        /\ cstate' = "stream"
        /\ UNCHANGED <<sstate, flow, body, queue, toClient, hooks, dropped, passthrough,
                    client, server, bodyless, chunks>>
    BY <1>39 DEF StreamRequest, At, ends, peers
  <2>2. /\ todo # << >>
        /\ todo = <<"stream_request", "expect_response">>
        /\ todo \in Opening
    BY <1>39 DEF StreamRequest, At, Opening
  <2>3. todo' = Tail(todo)
    BY <1>t, <1>39, <2>2, Thens DEF StreamRequest, At, Then
  <2>4. todo' \in Opened
    BY <1>39, <2>2, <2>3 DEF Opened
  <2>5. Outcomes' = Outcomes /\ Overtaken' = Overtaken
    BY <2>1 DEF Outcomes, Overtaken
  <2>6. Sent'
    BY <1>t, <2>1, <2>2, Sends DEF Sent, ToServer, RequestEvents
  <2>7. todo' \in Programs
    BY <2>4 DEF Programs, Working, Undecided, Deciding, Concluding
  <2>8. todo' \in Seq(Steps)
    BY <2>7, ProgramsAreSteps
  <2>9. toServer' \in Seq(RequestEvents \cup {"RequestError"})
    BY <1>t, <2>1 DEF RequestEvents
  <2>10. cstate' \in {"wait", "consume", "stream", "done", "errored"}
    BY <1>t, <2>1
  <2>11. TypeOK' /\ ProgramsOnly'
    BY <1>0, <2>1, <2>8, <2>9, <2>10, <2>7 DEF TypeOK, ProgramsOnly
  <2>12. StatesKnown' /\ StreamsAreMarked'
    BY <1>0, <2>1, <2>2, <2>4, OpeningOnly, OpenedOnly, <2>6
      DEF StatesKnown, Over, SentLater, StreamsAreMarked
  <2>13. SentLater'
    BY <1>0, <2>1, <2>2, <2>4, OpeningOnly, OpenedOnly, <2>6
      DEF SentLater, StatesKnown, Over
  <2>14. AtFirst' /\ BeforeFirstHook' /\ GoneIsLast'
    BY <1>0, <2>1, <2>2, <2>4, OpeningOnly, OpenedOnly, <2>6
      DEF AtFirst, StatesKnown, Over, BeforeFirstHook, GoneIsLast
  <2>15. ConnectHookRan'
    BY <1>0, <2>1, <2>2, <2>4, OpeningOnly, OpenedOnly, <2>6
      DEF ConnectHookRan, Has
  <2>16. FoundOut'
    BY <1>0, <2>1, <2>2, <2>4, OpeningOnly, OpenedOnly, <2>5, <2>6, Served
      DEF FoundOut, BothErrored, GoneIsLast, GivenUp, Over, StatesKnown,
       SentLater, StreamsAreMarked
  <2>17. GivenUp'
    BY <1>0, <2>1, <2>2, <2>4, OpeningOnly, OpenedOnly, <2>5, <2>6
      DEF GivenUp, Over, GoneIsLast, FoundOut, BothErrored, StatesKnown,
       SentLater
  <2>18. OutcomeDecides'
    BY <1>0, <2>1, <2>2, <2>4, OpeningOnly, OpenedOnly, <2>5, <2>6, <1>o
      DEF OutcomeDecides, Over, StatesKnown, GivenUp, SentLater, Undecided,
       Deciding, Concluding
  <2>19. OverIsNotLive' /\ ChunksCounted'
    BY <1>0, <2>1, <2>6 DEF OverIsNotLive, ChunksCounted
  <2>20. QED
    BY <2>11, <2>12, <2>13, <2>14, <2>15, <2>16, <2>17, <2>18, <2>19 DEF IInv
<1>40. ASSUME StreamRequest,
             todo \in Reopening
      PROVE  IInv'
  <2>1. /\ toServer' = Append(toServer, "RequestHeaders")
        /\ cstate' = "stream"
        /\ UNCHANGED <<sstate, flow, body, queue, toClient, hooks, dropped, passthrough,
                    client, server, bodyless, chunks>>
    BY <1>40 DEF StreamRequest, At, ends, peers
  <2>2. /\ todo # << >>
        /\ todo = <<"stream_request", "replay_request">>
        /\ todo \in Reopening
    BY <1>40 DEF StreamRequest, At, Reopening
  <2>3. todo' = Tail(todo)
    BY <1>t, <1>40, <2>2, Thens DEF StreamRequest, At, Then
  <2>4. todo' \in Reopened
    BY <1>40, <2>2, <2>3 DEF Reopened
  <2>5. Outcomes' = Outcomes /\ Overtaken' = Overtaken
    BY <2>1 DEF Outcomes, Overtaken
  <2>6. Sent'
    BY <1>t, <2>1, <2>2, Sends DEF Sent, ToServer, RequestEvents
  <2>7. todo' \in Programs
    BY <2>4 DEF Programs, Working, Undecided, Deciding, Concluding
  <2>8. todo' \in Seq(Steps)
    BY <2>7, ProgramsAreSteps
  <2>9. toServer' \in Seq(RequestEvents \cup {"RequestError"})
    BY <1>t, <2>1 DEF RequestEvents
  <2>10. cstate' \in {"wait", "consume", "stream", "done", "errored"}
    BY <1>t, <2>1
  <2>11. TypeOK' /\ ProgramsOnly'
    BY <1>0, <2>1, <2>8, <2>9, <2>10, <2>7 DEF TypeOK, ProgramsOnly
  <2>12. StatesKnown' /\ StreamsAreMarked'
    BY <1>0, <2>1, <2>2, <2>4, ReopeningOnly, ReopenedOnly, <2>6
      DEF StatesKnown, Over, SentLater, StreamsAreMarked
  <2>13. SentLater'
    BY <1>0, <2>1, <2>2, <2>4, ReopeningOnly, ReopenedOnly, <2>6
      DEF SentLater, StatesKnown, Over
  <2>14. AtFirst' /\ BeforeFirstHook' /\ GoneIsLast'
    BY <1>0, <2>1, <2>2, <2>4, ReopeningOnly, ReopenedOnly, <2>6
      DEF AtFirst, StatesKnown, Over, BeforeFirstHook, GoneIsLast
  <2>15. ConnectHookRan'
    BY <1>0, <2>1, <2>2, <2>4, ReopeningOnly, ReopenedOnly, <2>6
      DEF ConnectHookRan, Has
  <2>16. FoundOut'
    BY <1>0, <2>1, <2>2, <2>4, ReopeningOnly, ReopenedOnly, <2>5, <2>6, Served
      DEF FoundOut, BothErrored, GoneIsLast, GivenUp, Over, StatesKnown,
       SentLater, StreamsAreMarked
  <2>17. GivenUp'
    BY <1>0, <2>1, <2>2, <2>4, ReopeningOnly, ReopenedOnly, <2>5, <2>6
      DEF GivenUp, Over, GoneIsLast, FoundOut, BothErrored, StatesKnown,
       SentLater
  <2>18. OutcomeDecides'
    BY <1>0, <2>1, <2>2, <2>4, ReopeningOnly, ReopenedOnly, <2>5, <2>6, <1>o
      DEF OutcomeDecides, Over, StatesKnown, GivenUp, SentLater, Undecided,
       Deciding, Concluding
  <2>19. OverIsNotLive' /\ ChunksCounted'
    BY <1>0, <2>1, <2>6 DEF OverIsNotLive, ChunksCounted
  <2>20. QED
    BY <2>11, <2>12, <2>13, <2>14, <2>15, <2>16, <2>17, <2>18, <2>19 DEF IInv
<1>41. CASE AbandonRequest
  <2>1. /\ cstate' = "errored"
        /\ UNCHANGED <<sstate, flow, body, queue, toClient, toServer, hooks, dropped,
                    passthrough, client, server, bodyless, chunks>>
    BY <1>41 DEF AbandonRequest, At, sent, ends, peers
  <2>2. todo # << >> /\ Head(todo) = "abandon_request"
    BY <1>41 DEF AbandonRequest, At
  <2>3. /\ todo # << >>
        /\ todo \in {<<"abandon_request", "expect_response">>,
                   <<"abandon_request", "replay_request">>}
        /\ todo \in Abandoning
    BY <1>t, <2>2, Whereabouts DEF Abandoning
  <2>4. todo' = Tail(todo)
    BY <1>t, <1>41, <2>3, Thens DEF AbandonRequest, At, Then
  <2>5. todo' \in Opened \cup Reopened
    <3>1. CASE todo = <<"abandon_request", "expect_response">>
      BY <2>4, <3>1 DEF Opened, Reopened
    <3>2. CASE todo = <<"abandon_request", "replay_request">>
      BY <2>4, <3>2 DEF Opened, Reopened
    <3>3. QED
      BY <2>3, <3>1, <3>2
  <2>6. Outcomes' = Outcomes /\ Overtaken' = Overtaken /\ Sent' = Sent
    BY <2>1 DEF Outcomes, Overtaken, Sent
  <2>7. todo' \in Programs
    BY <2>5 DEF Programs, Working, Undecided, Deciding, Concluding
  <2>8. todo' \in Seq(Steps)
    BY <2>7, ProgramsAreSteps
  <2>9. cstate' \in {"wait", "consume", "stream", "done", "errored"}
    BY <1>t, <2>1
  <2>10. TypeOK' /\ ProgramsOnly'
    BY <1>0, <2>1, <2>8, <2>9, <2>7 DEF TypeOK, ProgramsOnly
  <2>11. StatesKnown' /\ StreamsAreMarked'
    BY <1>0, <2>1, <2>3, <2>5, AbandoningOnly, OpenedOnly, ReopenedOnly, <2>6
      DEF StatesKnown, Over, SentLater, StreamsAreMarked
  <2>12. SentLater'
    BY <1>0, <2>1, <2>3, <2>5, AbandoningOnly, OpenedOnly, ReopenedOnly, <2>6
      DEF SentLater, StatesKnown, Over
  <2>13. AtFirst' /\ BeforeFirstHook' /\ GoneIsLast'
    BY <1>0, <2>1, <2>3, <2>5, AbandoningOnly, OpenedOnly, ReopenedOnly, <2>6
      DEF AtFirst, StatesKnown, Over, BeforeFirstHook, GoneIsLast
  <2>14. ConnectHookRan'
    BY <1>0, <2>1, <2>3, <2>5, AbandoningOnly, OpenedOnly, ReopenedOnly, <2>6
      DEF ConnectHookRan, Has
  <2>15. FoundOut'
    BY <1>0, <2>1, <2>3, <2>5, AbandoningOnly, OpenedOnly, ReopenedOnly, <2>6,
       Served
      DEF FoundOut, BothErrored, GoneIsLast, GivenUp, Over, StatesKnown,
       SentLater, StreamsAreMarked
  <2>16. GivenUp'
    BY <1>0, <2>1, <2>3, <2>5, AbandoningOnly, OpenedOnly, ReopenedOnly, <2>6
      DEF GivenUp, Over, GoneIsLast, FoundOut, BothErrored, StatesKnown,
       SentLater
  <2>17. OutcomeDecides'
    BY <1>0, <2>1, <2>3, <2>5, AbandoningOnly, OpenedOnly, ReopenedOnly, <2>6,
       <1>o
      DEF OutcomeDecides, Over, StatesKnown, GivenUp, SentLater, Undecided,
       Deciding, Concluding
  <2>18. OverIsNotLive' /\ ChunksCounted'
    BY <1>0, <2>1, <2>6 DEF OverIsNotLive, ChunksCounted
  <2>19. QED
    BY <2>10, <2>11, <2>12, <2>13, <2>14, <2>15, <2>16, <2>17, <2>18 DEF IInv
<1>42. CASE ExpectResponse
  <2>1. /\ sstate' = "wait"
        /\ UNCHANGED <<cstate, flow, body, queue, toClient, toServer, hooks, dropped,
                    passthrough, client, server, bodyless, chunks>>
    BY <1>42 DEF ExpectResponse, At, sent, ends, peers
  <2>2. todo # << >> /\ Head(todo) = "expect_response"
    BY <1>42 DEF ExpectResponse, At
  <2>3. /\ todo # << >>
        /\ todo = <<"expect_response">>
        /\ todo \in Opened
    BY <1>t, <2>2, Whereabouts DEF Opened
  <2>4. todo' = Tail(todo)
    BY <1>t, <1>42, <2>3, Thens DEF ExpectResponse, At, Then
  <2>5. todo' = << >>
    BY <1>42, <2>3, <2>4
  <2>6. Outcomes' = Outcomes /\ Overtaken' = Overtaken /\ Sent' = Sent
    BY <2>1 DEF Outcomes, Overtaken, Sent
  <2>7. todo' \in Programs
    BY <2>5 DEF Programs, Working, Undecided, Deciding, Concluding
  <2>8. todo' \in Seq(Steps)
    BY <2>7, ProgramsAreSteps
  <2>9. sstate' \in {"uninitialized", "wait", "consume", "stream", "done", "errored"}
    BY <1>t, <2>1
  <2>10. TypeOK' /\ ProgramsOnly'
    BY <1>0, <2>1, <2>8, <2>9, <2>7 DEF TypeOK, ProgramsOnly
  <2>11. StatesKnown' /\ StreamsAreMarked'
    BY <1>0, <2>1, <2>3, <2>5, OpenedOnly, IdleOnly, <2>6
      DEF StatesKnown, Over, SentLater, StreamsAreMarked, Working, Undecided,
       Deciding, Concluding
  <2>12. AtFirst' /\ BeforeFirstHook' /\ GoneIsLast'
    BY <1>0, <2>1, <2>3, <2>5, OpenedOnly, IdleOnly, <2>6
      DEF AtFirst, StatesKnown, Over, BeforeFirstHook, GoneIsLast, Working,
       Undecided, Deciding, Concluding
  <2>13. ConnectHookRan'
    BY <1>0, <2>1, <2>3, <2>5, OpenedOnly, IdleOnly, <2>6
      DEF ConnectHookRan, Working, Undecided, Deciding, Concluding, Has
  <2>14. FoundOut'
    BY <1>0, <2>1, <2>3, <2>5, OpenedOnly, IdleOnly, <2>6, Served
      DEF FoundOut, BothErrored, GoneIsLast, GivenUp, Over, StatesKnown,
       SentLater, StreamsAreMarked, Working, Undecided, Deciding, Concluding
  <2>15. GivenUp'
    BY <1>0, <2>1, <2>3, <2>5, OpenedOnly, IdleOnly, <2>6
      DEF GivenUp, Over, GoneIsLast, FoundOut, BothErrored, StatesKnown,
       SentLater, Working, Undecided, Deciding, Concluding
  <2>16. OutcomeDecides'
    BY <1>0, <2>1, <2>3, <2>5, OpenedOnly, IdleOnly, <2>6, <1>o
      DEF OutcomeDecides, Over, StatesKnown, GivenUp, SentLater, Working,
       Undecided, Deciding, Concluding
  <2>17. SentLater' /\ OverIsNotLive' /\ ChunksCounted'
    BY <1>0, <2>1, <2>6 DEF SentLater, OverIsNotLive, ChunksCounted
  <2>18. QED
    BY <2>10, <2>11, <2>12, <2>13, <2>14, <2>15, <2>16, <2>17 DEF IInv
<1>43. ASSUME ReplayRequest,
             cstate = "stream"
      PROVE  IInv'
  <2>1. /\ body' = [body EXCEPT !["request"] = 0]
        /\ toServer' = toServer \o Copies("RequestData", body["request"])
        /\ UNCHANGED <<cstate, sstate, flow, queue, toClient, hooks, dropped, passthrough,
                    client, server, bodyless, chunks>>
    BY <1>43 DEF ReplayRequest, At, states, ends, peers
  <2>2. todo # << >> /\ Head(todo) = "replay_request"
    BY <1>43 DEF ReplayRequest, At
  <2>3. /\ todo # << >>
        /\ todo = <<"replay_request">>
        /\ todo \in Reopened
    BY <1>t, <2>2, Whereabouts DEF Reopened
  <2>4. todo' = Tail(todo)
    BY <1>t, <1>43, <2>3, Thens DEF ReplayRequest, At, Then
  <2>5. todo' = << >>
    BY <1>43, <2>3, <2>4
  <2>6. Outcomes' = Outcomes /\ Overtaken' = Overtaken
    BY <2>1 DEF Outcomes, Overtaken
  <2>7. (Sent' <=> Sent) /\ toServer' \in Seq(ToServer)
    BY <1>t, <2>1, <2>3, <1>b, Replays DEF Sent, ToServer
  <2>8. body'["request"] = 0 /\ body'["response"] = body["response"]
    BY <1>t, <2>1, <2>3 DEF Sides
  <2>9. /\ body["request"] + Count(queue, "RequestData") <= chunks["request"]
        /\ body["response"] + Count(queue, "ResponseData") <= chunks["response"]
    BY <1>0 DEF ChunksCounted
  <2>10. /\ Count(queue, "RequestData") \in Nat /\ Count(queue', "RequestData") = Count(queue, "RequestData")
         /\ Count(queue, "ResponseData") \in Nat /\ Count(queue', "ResponseData") = Count(queue, "ResponseData")
    BY <1>t, <2>1, CountIsNat
  <2>11. todo' \in Programs
    BY <2>5 DEF Programs, Working, Undecided, Deciding, Concluding
  <2>12. todo' \in Seq(Steps)
    BY <2>11, ProgramsAreSteps
  <2>13. toServer' \in Seq(RequestEvents \cup {"RequestError"})
    BY <1>t, <2>1, <2>7 DEF ToServer
  <2>14. body' \in [Sides -> 0..MaxChunks]
    BY <1>t, <2>1 DEF Sides
  <2>15. /\ body["request"] \in Nat /\ body["response"] \in Nat
         /\ chunks["request"] \in Nat /\ chunks["response"] \in Nat
         /\ body'["request"] \in Nat /\ body'["response"] \in Nat
         /\ chunks'["request"] \in Nat /\ chunks'["response"] \in Nat
    BY <1>t, <2>1, <2>12, <2>13, <2>14 DEF Sides
  <2>16. TypeOK' /\ ProgramsOnly'
    BY <1>0, <2>1, <2>12, <2>13, <2>14, <2>11 DEF TypeOK, ProgramsOnly
  <2>17. ChunksCounted'
    BY <2>1, <2>10, <2>15, <2>9, <2>8 DEF ChunksCounted
  <2>18. StatesKnown' /\ StreamsAreMarked'
    BY <1>0, <2>1, <2>3, <2>5, ReopenedOnly, IdleOnly, <2>7, <2>8
      DEF StatesKnown, Over, SentLater, StreamsAreMarked, Working, Undecided,
       Deciding, Concluding
  <2>19. SentLater'
    BY <1>0, <2>1, <2>3, <2>5, ReopenedOnly, IdleOnly, <2>7, <2>8
      DEF SentLater, StatesKnown, Over, Working, Undecided, Deciding, Concluding
  <2>20. AtFirst' /\ BeforeFirstHook' /\ GoneIsLast'
    BY <1>0, <2>1, <2>3, <2>5, ReopenedOnly, IdleOnly, <2>7, <2>8
      DEF AtFirst, StatesKnown, Over, BeforeFirstHook, GoneIsLast, Working,
       Undecided, Deciding, Concluding
  <2>21. ConnectHookRan'
    BY <1>0, <2>1, <2>3, <2>5, ReopenedOnly, IdleOnly, <2>7, <2>8
      DEF ConnectHookRan, Working, Undecided, Deciding, Concluding, Has
  <2>22. FoundOut'
    BY <1>0, <2>1, <2>3, <2>5, ReopenedOnly, IdleOnly, <2>6, <2>7, Served, <2>8
      DEF FoundOut, BothErrored, GoneIsLast, GivenUp, Over, StatesKnown,
       SentLater, StreamsAreMarked, Working, Undecided, Deciding, Concluding
  <2>23. GivenUp'
    BY <1>0, <2>1, <2>3, <2>5, ReopenedOnly, IdleOnly, <2>6, <2>7, <2>8
      DEF GivenUp, Over, GoneIsLast, FoundOut, BothErrored, StatesKnown,
       SentLater, Working, Undecided, Deciding, Concluding
  <2>24. OutcomeDecides'
    BY <1>0, <2>1, <2>3, <2>5, ReopenedOnly, IdleOnly, <2>6, <2>7, <1>o, <2>8
      DEF OutcomeDecides, Over, StatesKnown, GivenUp, SentLater, Working,
       Undecided, Deciding, Concluding
  <2>25. OverIsNotLive'
    BY <1>0, <2>1, <2>7 DEF OverIsNotLive
  <2>26. QED
    BY <2>16, <2>17, <2>18, <2>19, <2>20, <2>21, <2>22, <2>23, <2>24, <2>25
      DEF IInv
<1>44. ASSUME ReplayRequest,
             cstate # "stream"
      PROVE  IInv'
  <2>1. /\ body' = [body EXCEPT !["request"] = 0]
        /\ UNCHANGED <<cstate, sstate, flow, queue, toClient, toServer, hooks, dropped,
                    passthrough, client, server, bodyless, chunks>>
    BY <1>44 DEF ReplayRequest, At, states, ends, peers
  <2>2. todo # << >> /\ Head(todo) = "replay_request"
    BY <1>44 DEF ReplayRequest, At
  <2>3. /\ todo # << >>
        /\ todo = <<"replay_request">>
        /\ todo \in Reopened
    BY <1>t, <2>2, Whereabouts DEF Reopened
  <2>4. todo' = Tail(todo)
    BY <1>t, <1>44, <2>3, Thens DEF ReplayRequest, At, Then
  <2>5. todo' = << >>
    BY <1>44, <2>3, <2>4
  <2>6. Outcomes' = Outcomes /\ Overtaken' = Overtaken /\ Sent' = Sent
    BY <2>1 DEF Outcomes, Overtaken, Sent
  <2>7. body'["request"] = 0 /\ body'["response"] = body["response"]
    BY <1>t, <2>1, <2>3 DEF Sides
  <2>8. /\ body["request"] + Count(queue, "RequestData") <= chunks["request"]
        /\ body["response"] + Count(queue, "ResponseData") <= chunks["response"]
    BY <1>0 DEF ChunksCounted
  <2>9. /\ Count(queue, "RequestData") \in Nat /\ Count(queue', "RequestData") = Count(queue, "RequestData")
        /\ Count(queue, "ResponseData") \in Nat /\ Count(queue', "ResponseData") = Count(queue, "ResponseData")
    BY <1>t, <2>1, CountIsNat
  <2>10. todo' \in Programs
    BY <2>5 DEF Programs, Working, Undecided, Deciding, Concluding
  <2>11. todo' \in Seq(Steps)
    BY <2>10, ProgramsAreSteps
  <2>12. body' \in [Sides -> 0..MaxChunks]
    BY <1>t, <2>1 DEF Sides
  <2>13. /\ body["request"] \in Nat /\ body["response"] \in Nat
         /\ chunks["request"] \in Nat /\ chunks["response"] \in Nat
         /\ body'["request"] \in Nat /\ body'["response"] \in Nat
         /\ chunks'["request"] \in Nat /\ chunks'["response"] \in Nat
    BY <1>t, <2>1, <2>11, <2>12 DEF Sides
  <2>14. TypeOK' /\ ProgramsOnly'
    BY <1>0, <2>1, <2>11, <2>12, <2>10 DEF TypeOK, ProgramsOnly
  <2>15. ChunksCounted'
    BY <2>1, <2>9, <2>13, <2>8, <2>7 DEF ChunksCounted
  <2>16. StatesKnown' /\ StreamsAreMarked'
    BY <1>0, <2>1, <2>3, <2>5, ReopenedOnly, IdleOnly, <2>6, <2>7
      DEF StatesKnown, Over, SentLater, StreamsAreMarked, Working, Undecided,
       Deciding, Concluding
  <2>17. AtFirst' /\ BeforeFirstHook' /\ GoneIsLast'
    BY <1>0, <2>1, <2>3, <2>5, ReopenedOnly, IdleOnly, <2>6, <2>7
      DEF AtFirst, StatesKnown, Over, BeforeFirstHook, GoneIsLast, Working,
       Undecided, Deciding, Concluding
  <2>18. ConnectHookRan'
    BY <1>0, <2>1, <2>3, <2>5, ReopenedOnly, IdleOnly, <2>6, <2>7
      DEF ConnectHookRan, Working, Undecided, Deciding, Concluding, Has
  <2>19. FoundOut'
    BY <1>0, <2>1, <2>3, <2>5, ReopenedOnly, IdleOnly, <2>6, Served, <2>7
      DEF FoundOut, BothErrored, GoneIsLast, GivenUp, Over, StatesKnown,
       SentLater, StreamsAreMarked, Working, Undecided, Deciding, Concluding
  <2>20. GivenUp'
    BY <1>0, <2>1, <2>3, <2>5, ReopenedOnly, IdleOnly, <2>6, <2>7
      DEF GivenUp, Over, GoneIsLast, FoundOut, BothErrored, StatesKnown,
       SentLater, Working, Undecided, Deciding, Concluding
  <2>21. OutcomeDecides'
    BY <1>0, <2>1, <2>3, <2>5, ReopenedOnly, IdleOnly, <2>6, <1>o, <2>7
      DEF OutcomeDecides, Over, StatesKnown, GivenUp, SentLater, Working,
       Undecided, Deciding, Concluding
  <2>22. SentLater' /\ OverIsNotLive'
    BY <1>0, <2>1, <2>6 DEF SentLater, OverIsNotLive
  <2>23. QED
    BY <2>14, <2>15, <2>16, <2>17, <2>18, <2>19, <2>20, <2>21, <2>22 DEF IInv
<1>45. CASE RequestTooLarge
  <2>1. UNCHANGED <<cstate, sstate, body, queue, toClient, toServer, hooks, dropped,
                    passthrough, client, server, bodyless, chunks>>
    BY <1>45 DEF RequestTooLarge, At, states, sent, ends, peers
  <2>2. todo # << >> /\ Head(todo) = "request_too_large"
    BY <1>45 DEF RequestTooLarge, At
  <2>3. /\ todo # << >>
        /\ todo = <<"request_too_large">>
        /\ todo \in Beginning
    BY <1>t, <2>2, Whereabouts DEF Beginning
  <2>4. todo' \in RefusalError
    BY <1>45, <2>3 DEF RequestTooLarge, At, RefusalError
  <2>5. /\ flow' \in Flows
        /\ flow'.live = flow.live
        /\ "request" \in flow.stream => "request" \in flow'.stream
    BY <1>t, <1>45, <2>3 DEF RequestTooLarge, Flows, Sides
  <2>6. OnlyMoves
    BY <1>t, <2>1, <2>5 DEF OnlyMoves, KeepsLife
  <2>7. QED
    BY <2>1, <2>6, <2>3, <2>4, <1>t, BeginningOnly, Moving
      DEF GoesOn, From, Outcomes
<1>46. CASE RefuseRequest
  <2>1. /\ toClient' = Append(toClient, "ResponseError")
        /\ cstate' = "errored"
        /\ UNCHANGED <<sstate, body, queue, toServer, hooks, dropped, passthrough, client,
                    server, bodyless, chunks>>
    BY <1>46 DEF RefuseRequest, At, ends, peers
  <2>2. todo # << >> /\ Head(todo) = "refuse_request"
    BY <1>46 DEF RefuseRequest, At
  <2>3. /\ todo # << >>
        /\ todo = <<"refuse_request">>
        /\ todo \in Refusing
    BY <1>t, <2>2, Whereabouts DEF Refusing
  <2>4. todo' = << >>
    BY <1>46, <2>3 DEF RefuseRequest, At
  <2>5. /\ flow' \in Flows
        /\ flow'.live = FALSE
        /\ "request" \in flow.stream => "request" \in flow'.stream
    BY <1>t, <1>46, <2>3 DEF RefuseRequest, Flows, Sides
  <2>6. Outcomes' = Outcomes /\ (Overtaken => Overtaken') /\ Sent' = Sent
    BY <2>1, <2>5 DEF Outcomes, Overtaken, Sent
  <2>7. todo' \in Programs
    BY <2>4 DEF Programs, Working, Undecided, Deciding, Concluding
  <2>8. todo' \in Seq(Steps)
    BY <2>7, ProgramsAreSteps
  <2>9. toClient' \in Seq(ResponseEvents \cup {"ResponseError"})
    BY <1>t, <2>1
  <2>10. cstate' \in {"wait", "consume", "stream", "done", "errored"}
    BY <1>t, <2>1
  <2>11. TypeOK' /\ ProgramsOnly'
    BY <1>0, <2>1, <2>5, <2>8, <2>9, <2>10, <2>7 DEF TypeOK, ProgramsOnly
  <2>12. StatesKnown' /\ StreamsAreMarked'
    BY <1>0, <2>1, <2>3, <2>4, RefusingOnly, IdleOnly, <2>5, <2>6
      DEF StatesKnown, Over, SentLater, StreamsAreMarked, Working, Undecided,
       Deciding, Concluding
  <2>13. SentLater'
    BY <1>0, <2>1, <2>3, <2>4, RefusingOnly, IdleOnly, <2>6
      DEF SentLater, StatesKnown, Over, Working, Undecided, Deciding, Concluding
  <2>14. AtFirst' /\ BeforeFirstHook' /\ GoneIsLast'
    BY <1>0, <2>1, <2>3, <2>4, RefusingOnly, IdleOnly, <2>6
      DEF AtFirst, StatesKnown, Over, BeforeFirstHook, GoneIsLast, Working,
       Undecided, Deciding, Concluding
  <2>15. OverIsNotLive' /\ ConnectHookRan'
    BY <1>0, <2>1, <2>3, <2>4, RefusingOnly, IdleOnly, <2>5, <2>6
      DEF OverIsNotLive, AtFirst, BeforeFirstHook, ConnectHookRan, Working,
       Undecided, Deciding, Concluding, Told, Unended, Has
  <2>16. FoundOut'
    BY <1>0, <2>1, <2>3, <2>4, RefusingOnly, IdleOnly, <2>6, <2>5, Served
      DEF FoundOut, BothErrored, GoneIsLast, GivenUp, Over, StatesKnown,
       SentLater, StreamsAreMarked, Working, Undecided, Deciding, Concluding
  <2>17. GivenUp'
    BY <1>0, <2>1, <2>3, <2>4, RefusingOnly, IdleOnly, <2>6, <2>5
      DEF GivenUp, Over, GoneIsLast, FoundOut, BothErrored, StatesKnown,
       SentLater, Working, Undecided, Deciding, Concluding
  <2>18. OutcomeDecides'
    BY <1>0, <2>1, <2>3, <2>4, RefusingOnly, IdleOnly, <2>6, <2>5, <1>o
      DEF OutcomeDecides, Over, StatesKnown, GivenUp, SentLater, Working,
       Undecided, Deciding, Concluding
  <2>19. ChunksCounted'
    BY <1>0, <2>1, <2>6 DEF ChunksCounted
  <2>20. QED
    BY <2>11, <2>12, <2>13, <2>14, <2>15, <2>16, <2>17, <2>18, <2>19 DEF IInv
<1>47. ASSUME ConsumeRequestData,
             todo' = << >>
      PROVE  IInv'
  <2>1. /\ body' = [body EXCEPT !["request"] = @ + 1]
        /\ cstate = "consume"
        /\ UNCHANGED <<cstate, sstate, flow, todo, toClient, toServer, hooks, dropped,
                    passthrough, client, server, bodyless, chunks>>
    BY <1>47 DEF ConsumeRequestData, Handle, states, sent, ends, peers
  <2>2. todo = << >> /\ queue # << >> /\ queue' = Tail(queue) /\ Head(queue) = "RequestData" /\ ~passthrough
    BY <1>47 DEF Handle, ConsumeRequestData
  <2>3. RequestTaken
    BY <1>t, <2>2, TakesRequest DEF RequestTaken, RequestEvents
  <2>4. /\ Count(queue, "RequestData") \in Nat /\ Count(queue', "RequestData") \in Nat /\ Count(queue', "RequestData") + 1 = Count(queue, "RequestData")
        /\ Count(queue, "ResponseData") \in Nat /\ Count(queue', "ResponseData") \in Nat /\ Count(queue', "ResponseData") = Count(queue, "ResponseData")
    BY <1>t, <2>2, CountTaking
  <2>5. Outcomes' = Outcomes /\ Overtaken' = Overtaken /\ Sent' = Sent
    BY <2>1 DEF Outcomes, Overtaken, Sent
  <2>6. body'["request"] = body["request"] + 1 /\ body'["response"] = body["response"]
    BY <1>t, <2>1, <2>2 DEF Sides
  <2>7. /\ body["request"] + Count(queue, "RequestData") <= chunks["request"]
        /\ body["response"] + Count(queue, "ResponseData") <= chunks["response"]
    BY <1>0 DEF ChunksCounted
  <2>8. body["request"] + Count(queue', "RequestData") + 1 <= chunks["request"] /\ Count(queue', "RequestData") \in Nat
    BY <1>b, <2>7, <2>4
  <2>9. body' \in [Sides -> 0..MaxChunks]
    BY <1>t, <2>1, <2>8, OneMore DEF Sides
  <2>10. /\ body["request"] \in Nat /\ body["response"] \in Nat
         /\ chunks["request"] \in Nat /\ chunks["response"] \in Nat
         /\ body'["request"] \in Nat /\ body'["response"] \in Nat
         /\ chunks'["request"] \in Nat /\ chunks'["response"] \in Nat
    BY <1>t, <2>1, <2>9 DEF Sides
  <2>11. TypeOK'
    BY <1>0, <2>1, <2>3, <2>9 DEF TypeOK, RequestTaken
  <2>12. ChunksCounted'
    BY <2>1, <2>4, <2>10, <2>7, <2>6 DEF ChunksCounted
  <2>13. SentLater'
    BY <1>0, <2>1, <2>2, IdleOnly, <2>3, <2>5, <2>6
      DEF SentLater, StatesKnown, Over, Working, Undecided, Deciding,
       Concluding, RequestTaken
  <2>14. AtFirst' /\ GoneIsLast'
    BY <1>0, <2>1, <2>2, IdleOnly, <2>3, <2>5, <2>6
      DEF AtFirst, StatesKnown, Over, GoneIsLast, Working, Undecided, Deciding,
       Concluding, RequestTaken
  <2>15. FoundOut'
    BY <1>0, <2>1, <2>2, IdleOnly, <2>3, <2>5, Served, <2>6
      DEF FoundOut, BothErrored, GoneIsLast, GivenUp, Over, StatesKnown,
       SentLater, StreamsAreMarked, Working, Undecided, Deciding, Concluding,
       RequestTaken
  <2>16. GivenUp'
    BY <1>0, <2>1, <2>2, IdleOnly, <2>3, <2>5, <2>6
      DEF GivenUp, Over, GoneIsLast, FoundOut, BothErrored, StatesKnown,
       SentLater, Working, Undecided, Deciding, Concluding, RequestTaken
  <2>17. OutcomeDecides'
    BY <1>0, <2>1, <2>2, IdleOnly, <2>3, <2>5, <1>o, <2>6
      DEF OutcomeDecides, Over, StatesKnown, GivenUp, SentLater, Working,
       Undecided, Deciding, Concluding, RequestTaken
  <2>18. ProgramsOnly' /\ StatesKnown' /\ StreamsAreMarked'
       /\ BeforeFirstHook' /\ OverIsNotLive'
       /\ ConnectHookRan'
    BY <1>0, <2>1, <2>5
      DEF ProgramsOnly, StatesKnown, Over, StreamsAreMarked, BeforeFirstHook,
       OverIsNotLive, ConnectHookRan, Has
  <2>19. QED
    BY <2>11, <2>12, <2>13, <2>14, <2>15, <2>16, <2>17, <2>18 DEF IInv
<1>48. ASSUME ConsumeRequestData,
             todo' = <<"get_connection", "stream_request", "replay_request">>
      PROVE  IInv'
  <2>1. /\ body' = [body EXCEPT !["request"] = @ + 1]
        /\ cstate = "consume"
        /\ UNCHANGED <<cstate, sstate, toClient, toServer, hooks, dropped, passthrough,
                    client, server, bodyless, chunks>>
    BY <1>48 DEF ConsumeRequestData, Handle, states, sent, ends, peers
  <2>2. todo = << >> /\ queue # << >> /\ queue' = Tail(queue) /\ Head(queue) = "RequestData" /\ ~passthrough
    BY <1>48 DEF Handle, ConsumeRequestData
  <2>3. todo' \in Reopening
    BY <1>48, <2>2 DEF ConsumeRequestData, Handle, Reopening
  <2>4. RequestTaken
    BY <1>t, <2>2, TakesRequest DEF RequestTaken, RequestEvents
  <2>5. /\ Count(queue, "RequestData") \in Nat /\ Count(queue', "RequestData") \in Nat /\ Count(queue', "RequestData") + 1 = Count(queue, "RequestData")
        /\ Count(queue, "ResponseData") \in Nat /\ Count(queue', "ResponseData") \in Nat /\ Count(queue', "ResponseData") = Count(queue, "ResponseData")
    BY <1>t, <2>2, CountTaking
  <2>6. flow' = [flow EXCEPT !.stream = @ \cup {"request"}]
    BY <1>48, <2>2 DEF ConsumeRequestData, Handle
  <2>7. /\ flow' \in Flows
        /\ flow'.live = flow.live /\ "request" \in flow'.stream
    BY <1>t, <2>6 DEF Flows, Sides
  <2>8. Outcomes' = Outcomes /\ (Overtaken => Overtaken') /\ Sent' = Sent /\ Told' = Told
    BY <2>1, <2>7 DEF Outcomes, Overtaken, Sent, Told
  <2>9. body'["request"] = body["request"] + 1 /\ body'["response"] = body["response"]
    BY <1>t, <2>1, <2>2 DEF Sides
  <2>10. /\ body["request"] + Count(queue, "RequestData") <= chunks["request"]
         /\ body["response"] + Count(queue, "ResponseData") <= chunks["response"]
    BY <1>0 DEF ChunksCounted
  <2>11. todo' \in Programs
    BY <2>3 DEF Programs, Working, Undecided, Deciding, Concluding
  <2>12. todo' \in Seq(Steps)
    BY <2>11, ProgramsAreSteps
  <2>13. body["request"] + Count(queue', "RequestData") + 1 <= chunks["request"] /\ Count(queue', "RequestData") \in Nat
    BY <1>b, <2>10, <2>5
  <2>14. body' \in [Sides -> 0..MaxChunks]
    BY <1>t, <2>1, <2>13, OneMore DEF Sides
  <2>15. /\ body["request"] \in Nat /\ body["response"] \in Nat
         /\ chunks["request"] \in Nat /\ chunks["response"] \in Nat
         /\ body'["request"] \in Nat /\ body'["response"] \in Nat
         /\ chunks'["request"] \in Nat /\ chunks'["response"] \in Nat
    BY <1>t, <2>1, <2>12, <2>14 DEF Sides
  <2>16. TypeOK' /\ ProgramsOnly'
    BY <1>0, <2>1, <2>4, <2>7, <2>12, <2>14, <2>11
      DEF TypeOK, RequestTaken, ProgramsOnly
  <2>17. ChunksCounted'
    BY <2>1, <2>5, <2>15, <2>10, <2>9 DEF ChunksCounted
  <2>18. StatesKnown' /\ StreamsAreMarked'
    BY <1>0, <2>1, <2>2, <2>3, IdleOnly, ReopeningOnly, <2>7, <2>8, <2>9
      DEF StatesKnown, Over, SentLater, StreamsAreMarked, Working, Undecided,
       Deciding, Concluding
  <2>19. SentLater'
    BY <1>0, <2>1, <2>2, <2>3, IdleOnly, ReopeningOnly, <2>4, <2>8, <2>9
      DEF SentLater, StatesKnown, Over, Working, Undecided, Deciding,
       Concluding, RequestTaken
  <2>20. AtFirst' /\ BeforeFirstHook' /\ GoneIsLast'
    BY <1>0, <2>1, <2>2, <2>3, IdleOnly, ReopeningOnly, <2>4, <2>8, <2>9
      DEF AtFirst, StatesKnown, Over, BeforeFirstHook, GoneIsLast, Working,
       Undecided, Deciding, Concluding, RequestTaken
  <2>21. OverIsNotLive' /\ ConnectHookRan'
    BY <1>0, <2>1, <2>2, <2>3, IdleOnly, ReopeningOnly, <2>7, <2>8, <2>9
      DEF OverIsNotLive, AtFirst, BeforeFirstHook, ConnectHookRan, Working,
       Undecided, Deciding, Concluding, Told, Unended, Has
  <2>22. FoundOut'
    BY <1>0, <2>1, <2>2, <2>3, IdleOnly, ReopeningOnly, <2>4, <2>8, <2>7,
       Served, <2>9
      DEF FoundOut, BothErrored, GoneIsLast, GivenUp, Over, StatesKnown,
       SentLater, StreamsAreMarked, Working, Undecided, Deciding, Concluding,
       RequestTaken
  <2>23. GivenUp'
    BY <1>0, <2>1, <2>2, <2>3, IdleOnly, ReopeningOnly, <2>4, <2>8, <2>7, <2>9
      DEF GivenUp, Over, GoneIsLast, FoundOut, BothErrored, StatesKnown,
       SentLater, Working, Undecided, Deciding, Concluding, RequestTaken
  <2>24. OutcomeDecides'
    BY <1>0, <2>1, <2>2, <2>3, IdleOnly, ReopeningOnly, <2>4, <2>8, <2>7, <1>o,
       <2>9
      DEF OutcomeDecides, Over, StatesKnown, GivenUp, SentLater, Working,
       Undecided, Deciding, Concluding, RequestTaken
  <2>25. QED
    BY <2>16, <2>17, <2>18, <2>19, <2>20, <2>21, <2>22, <2>23, <2>24 DEF IInv
<1>49. ASSUME ConsumeRequestData,
             todo' = <<"error", "refuse_request">>
      PROVE  IInv'
  <2>1. /\ body' = [body EXCEPT !["request"] = @ + 1]
        /\ cstate = "consume"
        /\ UNCHANGED <<cstate, sstate, toClient, toServer, hooks, dropped, passthrough,
                    client, server, bodyless, chunks>>
    BY <1>49 DEF ConsumeRequestData, Handle, states, sent, ends, peers
  <2>2. todo = << >> /\ queue # << >> /\ queue' = Tail(queue) /\ Head(queue) = "RequestData" /\ ~passthrough
    BY <1>49 DEF Handle, ConsumeRequestData
  <2>3. todo' \in RefusalError
    BY <1>49, <2>2 DEF ConsumeRequestData, Handle, RefusalError
  <2>4. RequestTaken
    BY <1>t, <2>2, TakesRequest DEF RequestTaken, RequestEvents
  <2>5. /\ Count(queue, "RequestData") \in Nat /\ Count(queue', "RequestData") \in Nat /\ Count(queue', "RequestData") + 1 = Count(queue, "RequestData")
        /\ Count(queue, "ResponseData") \in Nat /\ Count(queue', "ResponseData") \in Nat /\ Count(queue', "ResponseData") = Count(queue, "ResponseData")
    BY <1>t, <2>2, CountTaking
  <2>6. flow' = [flow EXCEPT !.error = "other"]
    BY <1>49, <2>2 DEF ConsumeRequestData, Handle
  <2>7. /\ flow' \in Flows
        /\ flow'.live = flow.live
        /\ "request" \in flow.stream => "request" \in flow'.stream
    BY <1>t, <2>6 DEF Flows, Sides
  <2>8. Outcomes' = Outcomes /\ (Overtaken => Overtaken') /\ Sent' = Sent /\ Told' = Told
    BY <2>1, <2>7 DEF Outcomes, Overtaken, Sent, Told
  <2>9. body'["request"] = body["request"] + 1 /\ body'["response"] = body["response"]
    BY <1>t, <2>1, <2>2 DEF Sides
  <2>10. /\ body["request"] + Count(queue, "RequestData") <= chunks["request"]
         /\ body["response"] + Count(queue, "ResponseData") <= chunks["response"]
    BY <1>0 DEF ChunksCounted
  <2>11. todo' \in Programs
    BY <2>3 DEF Programs, Working, Undecided, Deciding, Concluding
  <2>12. todo' \in Seq(Steps)
    BY <2>11, ProgramsAreSteps
  <2>13. body["request"] + Count(queue', "RequestData") + 1 <= chunks["request"] /\ Count(queue', "RequestData") \in Nat
    BY <1>b, <2>10, <2>5
  <2>14. body' \in [Sides -> 0..MaxChunks]
    BY <1>t, <2>1, <2>13, OneMore DEF Sides
  <2>15. /\ body["request"] \in Nat /\ body["response"] \in Nat
         /\ chunks["request"] \in Nat /\ chunks["response"] \in Nat
         /\ body'["request"] \in Nat /\ body'["response"] \in Nat
         /\ chunks'["request"] \in Nat /\ chunks'["response"] \in Nat
    BY <1>t, <2>1, <2>12, <2>14 DEF Sides
  <2>16. TypeOK' /\ ProgramsOnly'
    BY <1>0, <2>1, <2>4, <2>7, <2>12, <2>14, <2>11
      DEF TypeOK, RequestTaken, ProgramsOnly
  <2>17. ChunksCounted'
    BY <2>1, <2>5, <2>15, <2>10, <2>9 DEF ChunksCounted
  <2>18. StatesKnown' /\ StreamsAreMarked'
    BY <1>0, <2>1, <2>2, <2>3, IdleOnly, RefusalErrorOnly, <2>7, <2>8, <2>9
      DEF StatesKnown, Over, SentLater, StreamsAreMarked, Working, Undecided,
       Deciding, Concluding
  <2>19. SentLater'
    BY <1>0, <2>1, <2>2, <2>3, IdleOnly, RefusalErrorOnly, <2>4, <2>8, <2>9
      DEF SentLater, StatesKnown, Over, Working, Undecided, Deciding,
       Concluding, RequestTaken
  <2>20. AtFirst' /\ BeforeFirstHook' /\ GoneIsLast'
    BY <1>0, <2>1, <2>2, <2>3, IdleOnly, RefusalErrorOnly, <2>4, <2>8, <2>9
      DEF AtFirst, StatesKnown, Over, BeforeFirstHook, GoneIsLast, Working,
       Undecided, Deciding, Concluding, RequestTaken
  <2>21. OverIsNotLive' /\ ConnectHookRan'
    BY <1>0, <2>1, <2>2, <2>3, IdleOnly, RefusalErrorOnly, <2>7, <2>8, <2>9
      DEF OverIsNotLive, AtFirst, BeforeFirstHook, ConnectHookRan, Working,
       Undecided, Deciding, Concluding, Told, Unended, Has
  <2>22. FoundOut'
    BY <1>0, <2>1, <2>2, <2>3, IdleOnly, RefusalErrorOnly, <2>4, <2>8, <2>7,
       Served, <2>9
      DEF FoundOut, BothErrored, GoneIsLast, GivenUp, Over, StatesKnown,
       SentLater, StreamsAreMarked, Working, Undecided, Deciding, Concluding,
       RequestTaken
  <2>23. GivenUp'
    BY <1>0, <2>1, <2>2, <2>3, IdleOnly, RefusalErrorOnly, <2>4, <2>8, <2>7,
       <2>9
      DEF GivenUp, Over, GoneIsLast, FoundOut, BothErrored, StatesKnown,
       SentLater, Working, Undecided, Deciding, Concluding, RequestTaken
  <2>24. OutcomeDecides'
    BY <1>0, <2>1, <2>2, <2>3, IdleOnly, RefusalErrorOnly, <2>4, <2>8, <2>7,
       <1>o, <2>9
      DEF OutcomeDecides, Over, StatesKnown, GivenUp, SentLater, Working,
       Undecided, Deciding, Concluding, RequestTaken
  <2>25. QED
    BY <2>16, <2>17, <2>18, <2>19, <2>20, <2>21, <2>22, <2>23, <2>24 DEF IInv
<1>50. CASE StreamRequestData
  <2>1. /\ toServer' = Append(toServer, "RequestData")
        /\ cstate = "stream"
        /\ UNCHANGED <<cstate, sstate, flow, body, todo, toClient, hooks, dropped,
                    passthrough, client, server, bodyless, chunks>>
    BY <1>50 DEF StreamRequestData, Handle, states, ends, peers
  <2>2. todo = << >> /\ queue # << >> /\ queue' = Tail(queue) /\ Head(queue) = "RequestData" /\ ~passthrough
    BY <1>50 DEF Handle, StreamRequestData
  <2>3. RequestTaken
    BY <1>t, <2>2, TakesRequest DEF RequestTaken, RequestEvents
  <2>4. Outcomes' = Outcomes /\ Overtaken' = Overtaken
    BY <2>1 DEF Outcomes, Overtaken
  <2>5. Sent' <=> Sent
    BY <1>t, <2>1, <2>2, Sends DEF Sent, ToServer, RequestEvents
  <2>6. toServer' \in Seq(RequestEvents \cup {"RequestError"})
    BY <1>t, <2>1 DEF RequestEvents
  <2>7. TypeOK'
    BY <1>0, <2>1, <2>3, <2>6 DEF TypeOK, RequestTaken
  <2>8. ChunksCounted'
    BY <1>0, <2>1, <2>2, CountsKept
  <2>9. StatesKnown'
    BY <1>0, <2>1, <2>2, IdleOnly, <2>5
      DEF StatesKnown, Over, SentLater, Working, Undecided, Deciding, Concluding
  <2>10. SentLater'
    BY <1>0, <2>1, <2>2, IdleOnly, <2>3, <2>5
      DEF SentLater, StatesKnown, Over, Working, Undecided, Deciding,
       Concluding, RequestTaken
  <2>11. AtFirst' /\ BeforeFirstHook' /\ GoneIsLast'
    BY <1>0, <2>1, <2>2, IdleOnly, <2>3, <2>5
      DEF AtFirst, StatesKnown, Over, BeforeFirstHook, GoneIsLast, Working,
       Undecided, Deciding, Concluding, RequestTaken
  <2>12. FoundOut'
    BY <1>0, <2>1, <2>2, IdleOnly, <2>3, <2>4, <2>5, Served
      DEF FoundOut, BothErrored, GoneIsLast, GivenUp, Over, StatesKnown,
       SentLater, StreamsAreMarked, Working, Undecided, Deciding, Concluding,
       RequestTaken
  <2>13. GivenUp'
    BY <1>0, <2>1, <2>2, IdleOnly, <2>3, <2>4, <2>5
      DEF GivenUp, Over, GoneIsLast, FoundOut, BothErrored, StatesKnown,
       SentLater, Working, Undecided, Deciding, Concluding, RequestTaken
  <2>14. OutcomeDecides'
    BY <1>0, <2>1, <2>2, IdleOnly, <2>3, <2>4, <2>5, <1>o
      DEF OutcomeDecides, Over, StatesKnown, GivenUp, SentLater, Working,
       Undecided, Deciding, Concluding, RequestTaken
  <2>15. ProgramsOnly' /\ StreamsAreMarked' /\ OverIsNotLive'
       /\ ConnectHookRan'
    BY <1>0, <2>1, <2>5
      DEF ProgramsOnly, StreamsAreMarked, OverIsNotLive, ConnectHookRan, Has
  <2>16. QED
    BY <2>7, <2>8, <2>9, <2>10, <2>11, <2>12, <2>13, <2>14, <2>15 DEF IInv
<1>51. CASE RequestTrailers
  <2>1. UNCHANGED <<cstate, sstate, body, todo, toClient, toServer, hooks, dropped,
                    passthrough, client, server, bodyless, chunks>>
    BY <1>51 DEF RequestTrailers, Handle, states, sent, ends, peers
  <2>2. todo = << >> /\ queue # << >> /\ queue' = Tail(queue) /\ Head(queue) = "RequestTrailers" /\ ~passthrough
    BY <1>51 DEF Handle, RequestTrailers
  <2>3. RequestTaken
    BY <1>t, <2>2, TakesRequest DEF RequestTaken, RequestEvents
  <2>4. /\ flow' \in Flows
        /\ flow'.live = flow.live
        /\ "request" \in flow.stream => "request" \in flow'.stream
    BY <1>t, <1>51, <2>2 DEF RequestTrailers, Flows, Sides
  <2>5. Outcomes' = Outcomes /\ (Overtaken => Overtaken') /\ Sent' = Sent /\ Told' = Told
    BY <2>1, <2>4 DEF Outcomes, Overtaken, Sent, Told
  <2>6. TypeOK'
    BY <1>0, <2>1, <2>3, <2>4 DEF TypeOK, RequestTaken
  <2>7. ChunksCounted'
    BY <1>0, <2>1, <2>2, CountsKept
  <2>8. StreamsAreMarked'
    BY <1>0, <2>1, <2>2, IdleOnly, <2>4, <2>5
      DEF StreamsAreMarked, StatesKnown, Over, Working, Undecided, Deciding,
       Concluding
  <2>9. SentLater'
    BY <1>0, <2>1, <2>2, IdleOnly, <2>3, <2>5
      DEF SentLater, StatesKnown, Over, Working, Undecided, Deciding,
       Concluding, RequestTaken
  <2>10. AtFirst' /\ GoneIsLast'
    BY <1>0, <2>1, <2>2, IdleOnly, <2>3, <2>5
      DEF AtFirst, StatesKnown, Over, GoneIsLast, Working, Undecided, Deciding,
       Concluding, RequestTaken
  <2>11. OverIsNotLive'
    BY <1>0, <2>1, <2>2, IdleOnly, <2>4, <2>5
      DEF OverIsNotLive, AtFirst, BeforeFirstHook, Working, Undecided, Deciding,
       Concluding, Told, Unended
  <2>12. FoundOut'
    BY <1>0, <2>1, <2>2, IdleOnly, <2>3, <2>5, <2>4, Served
      DEF FoundOut, BothErrored, GoneIsLast, GivenUp, Over, StatesKnown,
       SentLater, StreamsAreMarked, Working, Undecided, Deciding, Concluding,
       RequestTaken
  <2>13. GivenUp'
    BY <1>0, <2>1, <2>2, IdleOnly, <2>3, <2>5, <2>4
      DEF GivenUp, Over, GoneIsLast, FoundOut, BothErrored, StatesKnown,
       SentLater, Working, Undecided, Deciding, Concluding, RequestTaken
  <2>14. OutcomeDecides'
    BY <1>0, <2>1, <2>2, IdleOnly, <2>3, <2>5, <2>4, <1>o
      DEF OutcomeDecides, Over, StatesKnown, GivenUp, SentLater, Working,
       Undecided, Deciding, Concluding, RequestTaken
  <2>15. ProgramsOnly' /\ StatesKnown' /\ BeforeFirstHook'
       /\ ConnectHookRan'
    BY <1>0, <2>1, <2>5
      DEF ProgramsOnly, StatesKnown, Over, BeforeFirstHook, ConnectHookRan, Has
  <2>16. QED
    BY <2>6, <2>7, <2>8, <2>9, <2>10, <2>11, <2>12, <2>13, <2>14, <2>15 DEF IInv
<1>52. ASSUME RequestEnd,
             cstate = "consume"
      PROVE  IInv'
  <2>1. /\ cstate = "consume"
        /\ cstate' = "done"
        /\ UNCHANGED <<sstate, flow, body, toClient, toServer, hooks, dropped, passthrough,
                    client, server, bodyless, chunks>>
    BY <1>52 DEF RequestEnd, Handle, sent, ends, peers
  <2>2. todo = << >> /\ queue # << >> /\ queue' = Tail(queue) /\ Head(queue) = "RequestEnd" /\ ~passthrough
    BY <1>52 DEF Handle, RequestEnd
  <2>3. todo' \in Routing
    BY <1>52, <2>2 DEF RequestEnd, Handle, Routing
  <2>4. RequestTaken
    BY <1>t, <2>2, TakesRequest DEF RequestTaken, RequestEvents
  <2>5. Outcomes' = Outcomes /\ Overtaken' = Overtaken /\ Sent' = Sent
    BY <2>1 DEF Outcomes, Overtaken, Sent
  <2>6. todo' \in Programs
    BY <2>3 DEF Programs, Working, Undecided, Deciding, Concluding
  <2>7. todo' \in Seq(Steps)
    BY <2>6, ProgramsAreSteps
  <2>8. cstate' \in {"wait", "consume", "stream", "done", "errored"}
    BY <1>t, <2>1
  <2>9. TypeOK' /\ ProgramsOnly'
    BY <1>0, <2>1, <2>4, <2>7, <2>8, <2>6 DEF TypeOK, RequestTaken, ProgramsOnly
  <2>10. ChunksCounted'
    BY <1>0, <2>1, <2>2, CountsKept
  <2>11. StatesKnown' /\ StreamsAreMarked'
    BY <1>0, <2>1, <2>2, <2>3, IdleOnly, RoutingOnly, <2>5
      DEF StatesKnown, Over, SentLater, StreamsAreMarked, Working, Undecided,
       Deciding, Concluding
  <2>12. SentLater'
    BY <1>0, <2>1, <2>2, <2>3, IdleOnly, RoutingOnly, <2>4, <2>5
      DEF SentLater, StatesKnown, Over, Working, Undecided, Deciding,
       Concluding, RequestTaken
  <2>13. AtFirst' /\ BeforeFirstHook' /\ GoneIsLast'
    BY <1>0, <2>1, <2>2, <2>3, IdleOnly, RoutingOnly, <2>4, <2>5
      DEF AtFirst, StatesKnown, Over, BeforeFirstHook, GoneIsLast, Working,
       Undecided, Deciding, Concluding, RequestTaken
  <2>14. ConnectHookRan'
    BY <1>0, <2>1, <2>2, <2>3, IdleOnly, RoutingOnly, <2>5
      DEF ConnectHookRan, Working, Undecided, Deciding, Concluding, Has
  <2>15. FoundOut'
    BY <1>0, <2>1, <2>2, <2>3, IdleOnly, RoutingOnly, <2>4, <2>5, Served
      DEF FoundOut, BothErrored, GoneIsLast, GivenUp, Over, StatesKnown,
       SentLater, StreamsAreMarked, Working, Undecided, Deciding, Concluding,
       RequestTaken
  <2>16. GivenUp'
    BY <1>0, <2>1, <2>2, <2>3, IdleOnly, RoutingOnly, <2>4, <2>5
      DEF GivenUp, Over, GoneIsLast, FoundOut, BothErrored, StatesKnown,
       SentLater, Working, Undecided, Deciding, Concluding, RequestTaken
  <2>17. OutcomeDecides'
    BY <1>0, <2>1, <2>2, <2>3, IdleOnly, RoutingOnly, <2>4, <2>5, <1>o
      DEF OutcomeDecides, Over, StatesKnown, GivenUp, SentLater, Working,
       Undecided, Deciding, Concluding, RequestTaken
  <2>18. OverIsNotLive'
    BY <1>0, <2>1, <2>5 DEF OverIsNotLive
  <2>19. QED
    BY <2>9, <2>10, <2>11, <2>12, <2>13, <2>14, <2>15, <2>16, <2>17, <2>18
      DEF IInv
<1>53. ASSUME RequestEnd,
             cstate = "stream"
      PROVE  IInv'
  <2>1. /\ cstate = "stream"
        /\ UNCHANGED <<cstate, sstate, flow, body, toClient, toServer, hooks, dropped,
                    passthrough, client, server, bodyless, chunks>>
    BY <1>53 DEF RequestEnd, Handle, sent, ends, peers
  <2>2. todo = << >> /\ queue # << >> /\ queue' = Tail(queue) /\ Head(queue) = "RequestEnd" /\ ~passthrough
    BY <1>53 DEF Handle, RequestEnd
  <2>3. /\ todo' \in Ending
        /\ todo' = <<"request", "end_request">>
    BY <1>53, <2>2 DEF RequestEnd, Handle, Ending
  <2>4. RequestTaken
    BY <1>t, <2>2, TakesRequest DEF RequestTaken, RequestEvents
  <2>5. Outcomes' = Outcomes /\ Overtaken' = Overtaken /\ Sent' = Sent
    BY <2>1 DEF Outcomes, Overtaken, Sent
  <2>6. todo' \in Programs
    BY <2>3 DEF Programs, Working, Undecided, Deciding, Concluding
  <2>7. todo' \in Seq(Steps)
    BY <2>6, ProgramsAreSteps
  <2>8. TypeOK' /\ ProgramsOnly'
    BY <1>0, <2>1, <2>4, <2>7, <2>6 DEF TypeOK, RequestTaken, ProgramsOnly
  <2>9. ChunksCounted'
    BY <1>0, <2>1, <2>2, CountsKept
  <2>10. StatesKnown' /\ StreamsAreMarked'
    BY <1>0, <2>1, <2>2, <2>3, IdleOnly, EndingOnly, <2>5
      DEF StatesKnown, Over, SentLater, StreamsAreMarked, Working, Undecided,
       Deciding, Concluding
  <2>11. SentLater'
    BY <1>0, <2>1, <2>2, <2>3, IdleOnly, EndingOnly, <2>4, <2>5
      DEF SentLater, StatesKnown, Over, Working, Undecided, Deciding,
       Concluding, RequestTaken
  <2>12. AtFirst' /\ BeforeFirstHook' /\ GoneIsLast'
    BY <1>0, <2>1, <2>2, <2>3, IdleOnly, EndingOnly, <2>4, <2>5
      DEF AtFirst, StatesKnown, Over, BeforeFirstHook, GoneIsLast, Working,
       Undecided, Deciding, Concluding, RequestTaken
  <2>13. ConnectHookRan'
    BY <1>0, <2>1, <2>2, <2>3, IdleOnly, EndingOnly, <2>5
      DEF ConnectHookRan, Working, Undecided, Deciding, Concluding, Has
  <2>14. FoundOut'
    BY <1>0, <2>1, <2>2, <2>3, IdleOnly, EndingOnly, <2>4, <2>5, Served
      DEF FoundOut, BothErrored, GoneIsLast, GivenUp, Over, StatesKnown,
       SentLater, StreamsAreMarked, Working, Undecided, Deciding, Concluding,
       RequestTaken
  <2>15. GivenUp'
    BY <1>0, <2>1, <2>2, <2>3, IdleOnly, EndingOnly, <2>4, <2>5
      DEF GivenUp, Over, GoneIsLast, FoundOut, BothErrored, StatesKnown,
       SentLater, Working, Undecided, Deciding, Concluding, RequestTaken
  <2>16. OutcomeDecides'
    BY <1>0, <2>1, <2>2, <2>3, IdleOnly, EndingOnly, <2>4, <2>5, <1>o
      DEF OutcomeDecides, Over, StatesKnown, GivenUp, SentLater, Working,
       Undecided, Deciding, Concluding, RequestTaken
  <2>17. OverIsNotLive'
    BY <1>0, <2>1, <2>5 DEF OverIsNotLive
  <2>18. QED
    BY <2>8, <2>9, <2>10, <2>11, <2>12, <2>13, <2>14, <2>15, <2>16, <2>17
      DEF IInv
<1>54. CASE RouteRequest
  <2>1. UNCHANGED <<cstate, sstate, flow, body, queue, toClient, toServer, hooks,
                    dropped, passthrough, client, server, bodyless, chunks>>
    BY <1>54 DEF RouteRequest, Proceed, At, states, sent, ends, peers
  <2>2. todo # << >> /\ Head(todo) = "route_request"
    BY <1>54 DEF RouteRequest, Proceed, At
  <2>3. /\ todo # << >>
        /\ todo = <<"route_request">>
        /\ todo \in Routing
    BY <1>t, <2>2, Whereabouts DEF Routing
  <2>4. todo' \in Routing
    BY <1>54, <2>3 DEF RouteRequest, Proceed, At, Routing
  <2>5. OnlyMoves
    BY <1>t, <2>1 DEF OnlyMoves, KeepsLife
  <2>6. QED
    BY <2>1, <2>5, <2>3, <2>4, <1>t, RoutingOnly, Moving
      DEF GoesOn, From, Outcomes
<1>55. CASE ForwardRequest
  <2>1. /\ toServer' = toServer \o <<"RequestHeaders">> \o Copies("RequestData", body["request"])
           \o Trailers("RequestTrailers", "request") \o <<"RequestEnd">>
        /\ UNCHANGED <<cstate, sstate, flow, body, queue, toClient, hooks, dropped,
                    passthrough, client, server, bodyless, chunks>>
    BY <1>55 DEF ForwardRequest, At, states, ends, peers
  <2>2. todo # << >> /\ Head(todo) = "forward_request"
    BY <1>55 DEF ForwardRequest, At
  <2>3. /\ todo # << >>
        /\ todo = <<"forward_request">>
        /\ todo \in Routing
    BY <1>t, <2>2, Whereabouts DEF Routing
  <2>4. todo' = Tail(todo)
    BY <1>t, <1>55, <2>3, Thens DEF ForwardRequest, At, Then
  <2>5. todo' = << >>
    BY <1>55, <2>3, <2>4
  <2>6. Outcomes' = Outcomes /\ Overtaken' = Overtaken
    BY <2>1 DEF Outcomes, Overtaken
  <2>7. Sent' /\ toServer' \in Seq(ToServer)
    BY <1>t, <2>1, <2>3, <1>b, Forwards DEF Sent, ToServer
  <2>8. todo' \in Programs
    BY <2>5 DEF Programs, Working, Undecided, Deciding, Concluding
  <2>9. todo' \in Seq(Steps)
    BY <2>8, ProgramsAreSteps
  <2>10. toServer' \in Seq(RequestEvents \cup {"RequestError"})
    BY <1>t, <2>1, <2>7 DEF ToServer
  <2>11. TypeOK' /\ ProgramsOnly'
    BY <1>0, <2>1, <2>9, <2>10, <2>8 DEF TypeOK, ProgramsOnly
  <2>12. StatesKnown' /\ StreamsAreMarked'
    BY <1>0, <2>1, <2>3, <2>5, RoutingOnly, IdleOnly, <2>7
      DEF StatesKnown, Over, SentLater, StreamsAreMarked, Working, Undecided,
       Deciding, Concluding
  <2>13. SentLater'
    BY <1>0, <2>1, <2>3, <2>5, RoutingOnly, IdleOnly, <2>7
      DEF SentLater, StatesKnown, Over, Working, Undecided, Deciding, Concluding
  <2>14. AtFirst' /\ BeforeFirstHook' /\ GoneIsLast'
    BY <1>0, <2>1, <2>3, <2>5, RoutingOnly, IdleOnly, <2>7
      DEF AtFirst, StatesKnown, Over, BeforeFirstHook, GoneIsLast, Working,
       Undecided, Deciding, Concluding
  <2>15. ConnectHookRan'
    BY <1>0, <2>1, <2>3, <2>5, RoutingOnly, IdleOnly, <2>7
      DEF ConnectHookRan, Working, Undecided, Deciding, Concluding, Has
  <2>16. FoundOut'
    BY <1>0, <2>1, <2>3, <2>5, RoutingOnly, IdleOnly, <2>6, <2>7, Served
      DEF FoundOut, BothErrored, GoneIsLast, GivenUp, Over, StatesKnown,
       SentLater, StreamsAreMarked, Working, Undecided, Deciding, Concluding
  <2>17. GivenUp'
    BY <1>0, <2>1, <2>3, <2>5, RoutingOnly, IdleOnly, <2>6, <2>7
      DEF GivenUp, Over, GoneIsLast, FoundOut, BothErrored, StatesKnown,
       SentLater, Working, Undecided, Deciding, Concluding
  <2>18. OutcomeDecides'
    BY <1>0, <2>1, <2>3, <2>5, RoutingOnly, IdleOnly, <2>6, <2>7, <1>o
      DEF OutcomeDecides, Over, StatesKnown, GivenUp, SentLater, Working,
       Undecided, Deciding, Concluding
  <2>19. OverIsNotLive' /\ ChunksCounted'
    BY <1>0, <2>1, <2>7 DEF OverIsNotLive, ChunksCounted
  <2>20. QED
    BY <2>11, <2>12, <2>13, <2>14, <2>15, <2>16, <2>17, <2>18, <2>19 DEF IInv
<1>56. ASSUME EndRequest,
             sstate # "done"
      PROVE  IInv'
  <2>1. /\ toServer' = toServer \o Trailers("RequestTrailers", "request") \o <<"RequestEnd">>
        /\ cstate' = "done"
        /\ UNCHANGED <<sstate, flow, body, queue, toClient, hooks, dropped, passthrough,
                    client, server, bodyless, chunks>>
    BY <1>56 DEF EndRequest, At, FlowDone, ends
  <2>2. todo # << >> /\ Head(todo) = "end_request"
    BY <1>56 DEF EndRequest, At, FlowDone
  <2>3. /\ todo # << >>
        /\ todo = <<"end_request">>
        /\ todo \in Ending
    BY <1>t, <2>2, Whereabouts DEF Ending
  <2>4. todo' = Tail(todo)
    BY <1>t, <1>56, <2>3, Thens DEF EndRequest, At, Then
  <2>5. todo' = << >>
    BY <1>56, <2>3, <2>4
  <2>6. Outcomes' = Outcomes /\ Overtaken' = Overtaken
    BY <2>1 DEF Outcomes, Overtaken
  <2>7. (Sent' <=> Sent) /\ toServer' \in Seq(ToServer)
    BY <1>t, <2>1, <2>3, EndsRequest DEF Sent, ToServer
  <2>8. todo' \in Programs
    BY <2>5 DEF Programs, Working, Undecided, Deciding, Concluding
  <2>9. todo' \in Seq(Steps)
    BY <2>8, ProgramsAreSteps
  <2>10. toServer' \in Seq(RequestEvents \cup {"RequestError"})
    BY <1>t, <2>1, <2>7 DEF ToServer
  <2>11. cstate' \in {"wait", "consume", "stream", "done", "errored"}
    BY <1>t, <2>1
  <2>12. TypeOK' /\ ProgramsOnly'
    BY <1>0, <2>1, <2>9, <2>10, <2>11, <2>8 DEF TypeOK, ProgramsOnly
  <2>13. StatesKnown' /\ StreamsAreMarked'
    BY <1>0, <2>1, <2>3, <2>5, EndingOnly, IdleOnly, <2>7
      DEF StatesKnown, Over, SentLater, StreamsAreMarked, Working, Undecided,
       Deciding, Concluding
  <2>14. SentLater'
    BY <1>0, <2>1, <2>3, <2>5, EndingOnly, IdleOnly, <2>7
      DEF SentLater, StatesKnown, Over, Working, Undecided, Deciding, Concluding
  <2>15. AtFirst' /\ BeforeFirstHook' /\ GoneIsLast'
    BY <1>0, <2>1, <2>3, <2>5, EndingOnly, IdleOnly, <2>7
      DEF AtFirst, StatesKnown, Over, BeforeFirstHook, GoneIsLast, Working,
       Undecided, Deciding, Concluding
  <2>16. ConnectHookRan'
    BY <1>0, <2>1, <2>3, <2>5, EndingOnly, IdleOnly, <2>7
      DEF ConnectHookRan, Working, Undecided, Deciding, Concluding, Has
  <2>17. FoundOut'
    BY <1>0, <2>1, <2>3, <2>5, EndingOnly, IdleOnly, <2>6, <2>7, Served
      DEF FoundOut, BothErrored, GoneIsLast, GivenUp, Over, StatesKnown,
       SentLater, StreamsAreMarked, Working, Undecided, Deciding, Concluding
  <2>18. GivenUp'
    BY <1>0, <2>1, <2>3, <2>5, EndingOnly, IdleOnly, <2>6, <2>7
      DEF GivenUp, Over, GoneIsLast, FoundOut, BothErrored, StatesKnown,
       SentLater, Working, Undecided, Deciding, Concluding
  <2>19. OutcomeDecides'
    BY <1>0, <2>1, <2>3, <2>5, EndingOnly, IdleOnly, <2>6, <2>7, <1>o
      DEF OutcomeDecides, Over, StatesKnown, GivenUp, SentLater, Working,
       Undecided, Deciding, Concluding
  <2>20. OverIsNotLive' /\ ChunksCounted'
    BY <1>0, <2>1, <2>7 DEF OverIsNotLive, ChunksCounted
  <2>21. QED
    BY <2>12, <2>13, <2>14, <2>15, <2>16, <2>17, <2>18, <2>19, <2>20 DEF IInv
<1>57. ASSUME EndRequest,
             sstate = "done", flow.response # "switching"
      PROVE  IInv'
  <2>1. /\ toServer' = toServer \o Trailers("RequestTrailers", "request") \o <<"RequestEnd">>
        /\ dropped' = TRUE
        /\ cstate' = "done" /\ sstate' = "done"
        /\ toClient' = toClient \o <<"ResponseEnd">>
        /\ UNCHANGED <<body, queue, hooks, passthrough, client, server, bodyless, chunks>>
    BY <1>57 DEF EndRequest, At, FlowDone, ends
  <2>2. todo # << >> /\ Head(todo) = "end_request"
    BY <1>57 DEF EndRequest, At, FlowDone
  <2>3. /\ todo # << >>
        /\ todo = <<"end_request">>
        /\ todo \in Ending
    BY <1>t, <2>2, Whereabouts DEF Ending
  <2>4. todo' = Tail(todo)
    BY <1>t, <1>57, <2>3, Thens DEF EndRequest, At, Then
  <2>5. todo' = << >>
    BY <1>57, <2>3, <2>4
  <2>6. flow' = [flow EXCEPT !.live = FALSE]
    BY <1>57, <2>3 DEF EndRequest, FlowDone
  <2>7. /\ flow' \in Flows
        /\ flow'.live = FALSE
        /\ "request" \in flow.stream => "request" \in flow'.stream
    BY <1>t, <2>6 DEF Flows, Sides
  <2>8. Outcomes' = Outcomes /\ (Overtaken => Overtaken')
    BY <2>1, <2>7 DEF Outcomes, Overtaken
  <2>9. (Sent' <=> Sent) /\ toServer' \in Seq(ToServer)
    BY <1>t, <2>1, <2>3, EndsRequest DEF Sent, ToServer
  <2>10. todo' \in Programs
    BY <2>5 DEF Programs, Working, Undecided, Deciding, Concluding
  <2>11. todo' \in Seq(Steps)
    BY <2>10, ProgramsAreSteps
  <2>12. toServer' \in Seq(RequestEvents \cup {"RequestError"})
    BY <1>t, <2>1, <2>9 DEF ToServer
  <2>13. toClient' \in Seq(ResponseEvents \cup {"ResponseError"})
    BY <1>t, <2>1, EndsResponse DEF ToClient
  <2>14. dropped' \in BOOLEAN
    BY <1>t, <2>1
  <2>15. cstate' \in {"wait", "consume", "stream", "done", "errored"}
    BY <1>t, <2>1
  <2>16. sstate' \in {"uninitialized", "wait", "consume", "stream", "done", "errored"}
    BY <1>t, <2>1
  <2>17. TypeOK' /\ ProgramsOnly'
    BY <1>0, <2>1, <2>7, <2>11, <2>12, <2>13, <2>14, <2>15, <2>16, <2>10
      DEF TypeOK, ProgramsOnly
  <2>18. StatesKnown' /\ StreamsAreMarked'
    BY <1>0, <2>1, <2>3, <2>5, EndingOnly, IdleOnly, <2>7, <2>9
      DEF StatesKnown, Over, SentLater, StreamsAreMarked, Working, Undecided,
       Deciding, Concluding
  <2>19. SentLater'
    BY <1>0, <2>1, <2>3, <2>5, EndingOnly, IdleOnly, <2>9
      DEF SentLater, StatesKnown, Over, Working, Undecided, Deciding, Concluding
  <2>20. AtFirst' /\ BeforeFirstHook' /\ GoneIsLast'
    BY <1>0, <2>1, <2>3, <2>5, EndingOnly, IdleOnly, <2>9
      DEF AtFirst, StatesKnown, Over, BeforeFirstHook, GoneIsLast, Working,
       Undecided, Deciding, Concluding
  <2>21. OverIsNotLive' /\ ConnectHookRan'
    BY <1>0, <2>1, <2>3, <2>5, EndingOnly, IdleOnly, <2>7, <2>9
      DEF OverIsNotLive, AtFirst, BeforeFirstHook, ConnectHookRan, Working,
       Undecided, Deciding, Concluding, Told, Unended, Has
  <2>22. FoundOut'
    BY <1>0, <2>1, <2>3, <2>5, EndingOnly, IdleOnly, <2>8, <2>7, <2>9, Served
      DEF FoundOut, BothErrored, GoneIsLast, GivenUp, Over, StatesKnown,
       SentLater, StreamsAreMarked, Working, Undecided, Deciding, Concluding
  <2>23. GivenUp'
    BY <1>0, <2>1, <2>3, <2>5, EndingOnly, IdleOnly, <2>8, <2>7, <2>9
      DEF GivenUp, Over, GoneIsLast, FoundOut, BothErrored, StatesKnown,
       SentLater, Working, Undecided, Deciding, Concluding
  <2>24. OutcomeDecides'
    BY <1>0, <2>1, <2>3, <2>5, EndingOnly, IdleOnly, <2>8, <2>7, <2>9, <1>o
      DEF OutcomeDecides, Over, StatesKnown, GivenUp, SentLater, Working,
       Undecided, Deciding, Concluding
  <2>25. ChunksCounted'
    BY <1>0, <2>1, <2>9 DEF ChunksCounted
  <2>26. QED
    BY <2>17, <2>18, <2>19, <2>20, <2>21, <2>22, <2>23, <2>24, <2>25 DEF IInv
<1>58. ASSUME EndRequest,
             sstate = "done", flow.response = "switching",
             cstate' = "done"
      PROVE  IInv'
  <2>1. /\ toServer' = toServer \o Trailers("RequestTrailers", "request") \o <<"RequestEnd">>
        /\ passthrough' = TRUE
        /\ cstate' = "done" /\ sstate' = "done"
        /\ toClient' = toClient \o <<"ResponseEnd">>
        /\ UNCHANGED <<body, queue, hooks, dropped, client, server, bodyless, chunks>>
    BY <1>58 DEF EndRequest, At, FlowDone, ends
  <2>2. todo # << >> /\ Head(todo) = "end_request"
    BY <1>58 DEF EndRequest, At, FlowDone
  <2>3. /\ todo # << >>
        /\ todo = <<"end_request">>
        /\ todo \in Ending
    BY <1>t, <2>2, Whereabouts DEF Ending
  <2>4. todo' = Tail(todo)
    BY <1>t, <1>58, <2>3, Thens DEF EndRequest, At, Then
  <2>5. todo' = << >>
    BY <1>58, <2>3, <2>4
  <2>6. \E websocket \in BOOLEAN : flow' = [flow EXCEPT !.live = @ /\ websocket]
    BY <1>58, <2>3 DEF EndRequest, FlowDone
  <2>7. /\ flow' \in Flows
        /\ "request" \in flow.stream => "request" \in flow'.stream
    BY <1>t, <2>6 DEF Flows, Sides
  <2>8. Outcomes' = Outcomes /\ (Overtaken => Overtaken')
    BY <2>1, <2>7 DEF Outcomes, Overtaken
  <2>9. (Sent' <=> Sent) /\ toServer' \in Seq(ToServer)
    BY <1>t, <2>1, <2>3, EndsRequest DEF Sent, ToServer
  <2>10. todo' \in Programs
    BY <2>5 DEF Programs, Working, Undecided, Deciding, Concluding
  <2>11. todo' \in Seq(Steps)
    BY <2>10, ProgramsAreSteps
  <2>12. toServer' \in Seq(RequestEvents \cup {"RequestError"})
    BY <1>t, <2>1, <2>9 DEF ToServer
  <2>13. toClient' \in Seq(ResponseEvents \cup {"ResponseError"})
    BY <1>t, <2>1, EndsResponse DEF ToClient
  <2>14. passthrough' \in BOOLEAN
    BY <1>t, <2>1
  <2>15. cstate' \in {"wait", "consume", "stream", "done", "errored"}
    BY <1>t, <2>1
  <2>16. sstate' \in {"uninitialized", "wait", "consume", "stream", "done", "errored"}
    BY <1>t, <2>1
  <2>17. TypeOK' /\ ProgramsOnly'
    BY <1>0, <2>1, <2>7, <2>11, <2>12, <2>13, <2>14, <2>15, <2>16, <2>10
      DEF TypeOK, ProgramsOnly
  <2>18. StatesKnown' /\ StreamsAreMarked'
    BY <1>0, <2>1, <2>3, <2>5, EndingOnly, IdleOnly, <2>7, <2>9
      DEF StatesKnown, Over, SentLater, StreamsAreMarked, Working, Undecided,
       Deciding, Concluding
  <2>19. SentLater'
    BY <1>0, <2>1, <2>3, <2>5, EndingOnly, IdleOnly, <2>9
      DEF SentLater, StatesKnown, Over, Working, Undecided, Deciding, Concluding
  <2>20. AtFirst' /\ BeforeFirstHook' /\ GoneIsLast'
    BY <1>0, <2>1, <2>3, <2>5, EndingOnly, IdleOnly, <2>9
      DEF AtFirst, StatesKnown, Over, BeforeFirstHook, GoneIsLast, Working,
       Undecided, Deciding, Concluding
  <2>21. OverIsNotLive' /\ ConnectHookRan'
    BY <1>0, <2>1, <2>3, <2>5, EndingOnly, IdleOnly, <2>7, <2>9
      DEF OverIsNotLive, AtFirst, BeforeFirstHook, ConnectHookRan, Working,
       Undecided, Deciding, Concluding, Told, Unended, Has
  <2>22. FoundOut'
    BY <1>0, <2>1, <2>3, <2>5, EndingOnly, IdleOnly, <2>8, <2>7, <2>9, Served
      DEF FoundOut, BothErrored, GoneIsLast, GivenUp, Over, StatesKnown,
       SentLater, StreamsAreMarked, Working, Undecided, Deciding, Concluding
  <2>23. GivenUp'
    BY <1>0, <2>1, <2>3, <2>5, EndingOnly, IdleOnly, <2>8, <2>7, <2>9
      DEF GivenUp, Over, GoneIsLast, FoundOut, BothErrored, StatesKnown,
       SentLater, Working, Undecided, Deciding, Concluding
  <2>24. OutcomeDecides'
    BY <1>0, <2>1, <2>3, <2>5, EndingOnly, IdleOnly, <2>8, <2>7, <2>9, <1>o
      DEF OutcomeDecides, Over, StatesKnown, GivenUp, SentLater, Working,
       Undecided, Deciding, Concluding
  <2>25. ChunksCounted'
    BY <1>0, <2>1, <2>9 DEF ChunksCounted
  <2>26. QED
    BY <2>17, <2>18, <2>19, <2>20, <2>21, <2>22, <2>23, <2>24, <2>25 DEF IInv
<1>59. ASSUME EndRequest,
             sstate = "done", flow.response = "switching",
             cstate' # "done"
      PROVE  IInv'
  <2>1. /\ toServer' = toServer \o Trailers("RequestTrailers", "request") \o <<"RequestEnd">>
        /\ client' = "gone"
        /\ cstate' = "errored" /\ sstate' = "errored"
        /\ toClient' = toClient
        /\ UNCHANGED <<body, queue, hooks, dropped, passthrough, server, bodyless, chunks>>
    BY <1>59 DEF EndRequest, At, FlowDone, ends
  <2>2. todo # << >> /\ Head(todo) = "end_request"
    BY <1>59 DEF EndRequest, At, FlowDone
  <2>3. /\ todo # << >>
        /\ todo = <<"end_request">>
        /\ todo \in Ending
    BY <1>t, <2>2, Whereabouts DEF Ending
  <2>4. todo' = Tail(todo)
    BY <1>t, <1>59, <2>3, Thens DEF EndRequest, At, Then
  <2>5. todo' = << >>
    BY <1>59, <2>3, <2>4
  <2>6. flow' = [flow EXCEPT !.live = FALSE]
    BY <1>59, <2>3 DEF EndRequest, FlowDone
  <2>7. /\ flow' \in Flows
        /\ flow'.live = FALSE
        /\ "request" \in flow.stream => "request" \in flow'.stream
    BY <1>t, <2>6 DEF Flows, Sides
  <2>8. Outcomes' = Outcomes /\ (Overtaken => Overtaken')
    BY <2>1, <2>7 DEF Outcomes, Overtaken
  <2>9. (Sent' <=> Sent) /\ toServer' \in Seq(ToServer)
    BY <1>t, <2>1, <2>3, EndsRequest DEF Sent, ToServer
  <2>10. todo' \in Programs
    BY <2>5 DEF Programs, Working, Undecided, Deciding, Concluding
  <2>11. todo' \in Seq(Steps)
    BY <2>10, ProgramsAreSteps
  <2>12. toServer' \in Seq(RequestEvents \cup {"RequestError"})
    BY <1>t, <2>1, <2>9 DEF ToServer
  <2>13. toClient' \in Seq(ResponseEvents \cup {"ResponseError"})
    BY <1>t, <2>1 DEF ToClient
  <2>14. client' \in {"idle", "open", "trailers", "ended", "gone"}
    BY <1>t, <2>1
  <2>15. cstate' \in {"wait", "consume", "stream", "done", "errored"}
    BY <1>t, <2>1
  <2>16. sstate' \in {"uninitialized", "wait", "consume", "stream", "done", "errored"}
    BY <1>t, <2>1
  <2>17. TypeOK' /\ ProgramsOnly'
    BY <1>0, <2>1, <2>7, <2>11, <2>12, <2>13, <2>14, <2>15, <2>16, <2>10
      DEF TypeOK, ProgramsOnly
  <2>18. StatesKnown' /\ StreamsAreMarked'
    BY <1>0, <2>1, <2>3, <2>5, EndingOnly, IdleOnly, <2>7, <2>9
      DEF StatesKnown, Over, SentLater, StreamsAreMarked, Working, Undecided,
       Deciding, Concluding
  <2>19. SentLater'
    BY <1>0, <2>1, <2>3, <2>5, EndingOnly, IdleOnly, <2>9
      DEF SentLater, StatesKnown, Over, Working, Undecided, Deciding, Concluding
  <2>20. AtFirst' /\ BeforeFirstHook' /\ GoneIsLast'
    BY <1>0, <2>1, <2>3, <2>5, EndingOnly, IdleOnly, <2>9
      DEF AtFirst, StatesKnown, Over, BeforeFirstHook, GoneIsLast, Working,
       Undecided, Deciding, Concluding
  <2>21. OverIsNotLive' /\ ConnectHookRan'
    BY <1>0, <2>1, <2>3, <2>5, EndingOnly, IdleOnly, <2>7, <2>9
      DEF OverIsNotLive, AtFirst, BeforeFirstHook, ConnectHookRan, Working,
       Undecided, Deciding, Concluding, Told, Unended, Has
  <2>22. FoundOut'
    BY <1>0, <2>1, <2>3, <2>5, EndingOnly, IdleOnly, <2>8, <2>7, <2>9, Served
      DEF FoundOut, BothErrored, GoneIsLast, GivenUp, Over, StatesKnown,
       SentLater, StreamsAreMarked, Working, Undecided, Deciding, Concluding
  <2>23. GivenUp'
    BY <1>0, <2>1, <2>3, <2>5, EndingOnly, IdleOnly, <2>8, <2>7, <2>9
      DEF GivenUp, Over, GoneIsLast, FoundOut, BothErrored, StatesKnown,
       SentLater, Working, Undecided, Deciding, Concluding
  <2>24. OutcomeDecides'
    BY <1>0, <2>1, <2>3, <2>5, EndingOnly, IdleOnly, <2>8, <2>7, <2>9, <1>o
      DEF OutcomeDecides, Over, StatesKnown, GivenUp, SentLater, Working,
       Undecided, Deciding, Concluding
  <2>25. ChunksCounted'
    BY <1>0, <2>1, <2>9 DEF ChunksCounted
  <2>26. QED
    BY <2>17, <2>18, <2>19, <2>20, <2>21, <2>22, <2>23, <2>24, <2>25 DEF IInv
<1>60. ASSUME ResponseHeaders,
             todo' = <<"responseheaders", "response_too_large">>
      PROVE  IInv'
  <2>1. /\ sstate = "wait"
        /\ UNCHANGED <<cstate, sstate, body, toClient, toServer, hooks, dropped,
                    passthrough, client, server, bodyless, chunks>>
    BY <1>60 DEF ResponseHeaders, Handle, states, sent, ends
  <2>2. todo = << >> /\ queue # << >> /\ queue' = Tail(queue) /\ Head(queue) = "ResponseHeaders" /\ ~passthrough
    BY <1>60 DEF Handle, ResponseHeaders
  <2>3. /\ flow' \in Flows
        /\ flow'.live = flow.live
        /\ "request" \in flow.stream => "request" \in flow'.stream
    BY <1>t, <1>60, ResponseSeen
  <2>4. todo' \in Responding
    BY <1>60, <2>2 DEF ResponseHeaders, Handle, Responding
  <2>5. ResponseTaken
    BY <1>t, <2>2, TakesResponse DEF ResponseTaken, ResponseEvents
  <2>6. /\ flow' \in Flows
        /\ flow'.live = flow.live
        /\ "request" \in flow.stream => "request" \in flow'.stream
    BY <1>t, <1>60, <2>2, <2>3 DEF Flows, Sides
  <2>7. Outcomes' = Outcomes /\ (Overtaken => Overtaken') /\ Sent' = Sent /\ Told' = Told
    BY <2>1, <2>6 DEF Outcomes, Overtaken, Sent, Told
  <2>8. Sent
    BY <1>t, <2>1, <2>2, <1>0, <2>5 DEF SentLater, ResponseTaken
  <2>9. todo' \in Programs
    BY <2>4 DEF Programs, Working, Undecided, Deciding, Concluding
  <2>10. todo' \in Seq(Steps)
    BY <2>9, ProgramsAreSteps
  <2>11. TypeOK' /\ ProgramsOnly'
    BY <1>0, <2>1, <2>5, <2>6, <2>10, <2>9
      DEF TypeOK, ResponseTaken, ProgramsOnly
  <2>12. ChunksCounted'
    BY <1>0, <2>1, <2>2, CountsKept
  <2>13. StatesKnown' /\ StreamsAreMarked'
    BY <1>0, <2>1, <2>2, <2>4, IdleOnly, RespondingOnly, <2>6, <2>7, <2>8
      DEF StatesKnown, Over, SentLater, StreamsAreMarked, Working, Undecided,
       Deciding, Concluding
  <2>14. SentLater'
    BY <1>0, <2>1, <2>2, <2>4, IdleOnly, RespondingOnly, <2>5, <2>7, <2>8
      DEF SentLater, StatesKnown, Over, Working, Undecided, Deciding,
       Concluding, ResponseTaken
  <2>15. AtFirst' /\ BeforeFirstHook' /\ GoneIsLast'
    BY <1>0, <2>1, <2>2, <2>4, IdleOnly, RespondingOnly, <2>5, <2>7, <2>8
      DEF AtFirst, StatesKnown, Over, BeforeFirstHook, SentLater, GoneIsLast,
       Working, Undecided, Deciding, Concluding, ResponseTaken
  <2>16. OverIsNotLive' /\ ConnectHookRan'
    BY <1>0, <2>1, <2>2, <2>4, IdleOnly, RespondingOnly, <2>6, <2>7, <2>8
      DEF OverIsNotLive, AtFirst, BeforeFirstHook, ConnectHookRan, Working,
       Undecided, Deciding, Concluding, Told, Unended, Has
  <2>17. FoundOut'
    BY <1>0, <2>1, <2>2, <2>4, IdleOnly, RespondingOnly, <2>5, <2>7, <2>6,
       Served, <2>8
      DEF FoundOut, BothErrored, GoneIsLast, GivenUp, Over, StatesKnown,
       SentLater, StreamsAreMarked, Working, Undecided, Deciding, Concluding,
       ResponseTaken
  <2>18. GivenUp'
    BY <1>0, <2>1, <2>2, <2>4, IdleOnly, RespondingOnly, <2>5, <2>7, <2>6, <2>8
      DEF GivenUp, Over, GoneIsLast, FoundOut, BothErrored, StatesKnown,
       SentLater, Working, Undecided, Deciding, Concluding, ResponseTaken
  <2>19. OutcomeDecides'
    BY <1>0, <2>1, <2>2, <2>4, IdleOnly, RespondingOnly, <2>5, <2>7, <2>6, <1>o,
       <2>8
      DEF OutcomeDecides, Over, StatesKnown, GivenUp, SentLater, Working,
       Undecided, Deciding, Concluding, ResponseTaken
  <2>20. QED
    BY <2>11, <2>12, <2>13, <2>14, <2>15, <2>16, <2>17, <2>18, <2>19 DEF IInv
<1>61. ASSUME ResponseHeaders,
             todo' = <<"error", "reject">>
      PROVE  IInv'
  <2>1. /\ sstate = "wait"
        /\ server' = "gone"
        /\ UNCHANGED <<cstate, sstate, body, toClient, toServer, hooks, dropped,
                    passthrough, client, bodyless, chunks>>
    BY <1>61 DEF ResponseHeaders, Handle, states, sent, ends
  <2>2. todo = << >> /\ queue # << >> /\ queue' = Tail(queue) /\ Head(queue) = "ResponseHeaders" /\ ~passthrough
    BY <1>61 DEF Handle, ResponseHeaders
  <2>3. /\ flow' \in Flows
        /\ flow'.live = flow.live
        /\ "request" \in flow.stream => "request" \in flow'.stream
    BY <1>t, <1>61, ResponseSeen
  <2>4. todo' \in KillError
    BY <1>61, <2>2 DEF ResponseHeaders, Handle, KillError
  <2>5. ResponseTaken
    BY <1>t, <2>2, TakesResponse DEF ResponseTaken, ResponseEvents
  <2>6. /\ flow' \in Flows
        /\ flow'.live = flow.live
        /\ "request" \in flow.stream => "request" \in flow'.stream
    BY <1>t, <1>61, <2>2, <2>3 DEF Flows, Sides
  <2>7. Outcomes' = Outcomes /\ (Overtaken => Overtaken') /\ Sent' = Sent /\ Told' = Told
    BY <2>1, <2>6 DEF Outcomes, Overtaken, Sent, Told
  <2>8. Sent
    BY <1>t, <2>1, <2>2, <1>0, <2>5 DEF SentLater, ResponseTaken
  <2>9. todo' \in Programs
    BY <2>4 DEF Programs, Working, Undecided, Deciding, Concluding
  <2>10. todo' \in Seq(Steps)
    BY <2>9, ProgramsAreSteps
  <2>11. server' \in {"idle", "open", "trailers", "early", "ended", "gone"}
    BY <1>t, <2>1
  <2>12. TypeOK' /\ ProgramsOnly'
    BY <1>0, <2>1, <2>5, <2>6, <2>10, <2>11, <2>9
      DEF TypeOK, ResponseTaken, ProgramsOnly
  <2>13. ChunksCounted'
    BY <1>0, <2>1, <2>2, CountsKept
  <2>14. StatesKnown' /\ StreamsAreMarked'
    BY <1>0, <2>1, <2>2, <2>4, IdleOnly, KillErrorOnly, <2>6, <2>7, <2>8
      DEF StatesKnown, Over, SentLater, StreamsAreMarked, Working, Undecided,
       Deciding, Concluding
  <2>15. SentLater'
    BY <1>0, <2>1, <2>2, <2>4, IdleOnly, KillErrorOnly, <2>5, <2>7, <2>8
      DEF SentLater, StatesKnown, Over, Working, Undecided, Deciding,
       Concluding, ResponseTaken
  <2>16. AtFirst' /\ BeforeFirstHook' /\ GoneIsLast'
    BY <1>0, <2>1, <2>2, <2>4, IdleOnly, KillErrorOnly, <2>5, <2>7, <2>8
      DEF AtFirst, StatesKnown, Over, BeforeFirstHook, SentLater, GoneIsLast,
       Working, Undecided, Deciding, Concluding, ResponseTaken
  <2>17. OverIsNotLive' /\ ConnectHookRan'
    BY <1>0, <2>1, <2>2, <2>4, IdleOnly, KillErrorOnly, <2>6, <2>7, <2>8
      DEF OverIsNotLive, AtFirst, BeforeFirstHook, ConnectHookRan, Working,
       Undecided, Deciding, Concluding, Told, Unended, Has
  <2>18. FoundOut'
    BY <1>0, <2>1, <2>2, <2>4, IdleOnly, KillErrorOnly, <2>5, <2>7, <2>6,
       Served, <2>8
      DEF FoundOut, BothErrored, GoneIsLast, GivenUp, Over, StatesKnown,
       SentLater, StreamsAreMarked, Working, Undecided, Deciding, Concluding,
       ResponseTaken
  <2>19. GivenUp'
    BY <1>0, <2>1, <2>2, <2>4, IdleOnly, KillErrorOnly, <2>5, <2>7, <2>6, <2>8
      DEF GivenUp, Over, GoneIsLast, FoundOut, BothErrored, StatesKnown,
       SentLater, Working, Undecided, Deciding, Concluding, ResponseTaken
  <2>20. OutcomeDecides'
    BY <1>0, <2>1, <2>2, <2>4, IdleOnly, KillErrorOnly, <2>5, <2>7, <2>6, <1>o,
       <2>8
      DEF OutcomeDecides, Over, StatesKnown, GivenUp, SentLater, Working,
       Undecided, Deciding, Concluding, ResponseTaken
  <2>21. QED
    BY <2>12, <2>13, <2>14, <2>15, <2>16, <2>17, <2>18, <2>19, <2>20 DEF IInv
<1>62. ASSUME ResponseHeaders,
             todo' = <<"responseheaders", "begin_response">>
      PROVE  IInv'
  <2>1. /\ sstate = "wait"
        /\ UNCHANGED <<cstate, sstate, body, toClient, toServer, hooks, dropped,
                    passthrough, client, server, bodyless, chunks>>
    BY <1>62 DEF ResponseHeaders, Handle, states, sent, ends
  <2>2. todo = << >> /\ queue # << >> /\ queue' = Tail(queue) /\ Head(queue) = "ResponseHeaders" /\ ~passthrough
    BY <1>62 DEF Handle, ResponseHeaders
  <2>3. /\ flow' \in Flows
        /\ flow'.live = flow.live
        /\ "request" \in flow.stream => "request" \in flow'.stream
    BY <1>t, <1>62, ResponseSeen
  <2>4. todo' \in Responding
    BY <1>62, <2>2 DEF ResponseHeaders, Handle, Responding
  <2>5. ResponseTaken
    BY <1>t, <2>2, TakesResponse DEF ResponseTaken, ResponseEvents
  <2>6. /\ flow' \in Flows
        /\ flow'.live = flow.live
        /\ "request" \in flow.stream => "request" \in flow'.stream
    BY <1>t, <1>62, <2>2, <2>3 DEF Flows, Sides
  <2>7. Outcomes' = Outcomes /\ (Overtaken => Overtaken') /\ Sent' = Sent /\ Told' = Told
    BY <2>1, <2>6 DEF Outcomes, Overtaken, Sent, Told
  <2>8. Sent
    BY <1>t, <2>1, <2>2, <1>0, <2>5 DEF SentLater, ResponseTaken
  <2>9. todo' \in Programs
    BY <2>4 DEF Programs, Working, Undecided, Deciding, Concluding
  <2>10. todo' \in Seq(Steps)
    BY <2>9, ProgramsAreSteps
  <2>11. TypeOK' /\ ProgramsOnly'
    BY <1>0, <2>1, <2>5, <2>6, <2>10, <2>9
      DEF TypeOK, ResponseTaken, ProgramsOnly
  <2>12. ChunksCounted'
    BY <1>0, <2>1, <2>2, CountsKept
  <2>13. StatesKnown' /\ StreamsAreMarked'
    BY <1>0, <2>1, <2>2, <2>4, IdleOnly, RespondingOnly, <2>6, <2>7, <2>8
      DEF StatesKnown, Over, SentLater, StreamsAreMarked, Working, Undecided,
       Deciding, Concluding
  <2>14. SentLater'
    BY <1>0, <2>1, <2>2, <2>4, IdleOnly, RespondingOnly, <2>5, <2>7, <2>8
      DEF SentLater, StatesKnown, Over, Working, Undecided, Deciding,
       Concluding, ResponseTaken
  <2>15. AtFirst' /\ BeforeFirstHook' /\ GoneIsLast'
    BY <1>0, <2>1, <2>2, <2>4, IdleOnly, RespondingOnly, <2>5, <2>7, <2>8
      DEF AtFirst, StatesKnown, Over, BeforeFirstHook, SentLater, GoneIsLast,
       Working, Undecided, Deciding, Concluding, ResponseTaken
  <2>16. OverIsNotLive' /\ ConnectHookRan'
    BY <1>0, <2>1, <2>2, <2>4, IdleOnly, RespondingOnly, <2>6, <2>7, <2>8
      DEF OverIsNotLive, AtFirst, BeforeFirstHook, ConnectHookRan, Working,
       Undecided, Deciding, Concluding, Told, Unended, Has
  <2>17. FoundOut'
    BY <1>0, <2>1, <2>2, <2>4, IdleOnly, RespondingOnly, <2>5, <2>7, <2>6,
       Served, <2>8
      DEF FoundOut, BothErrored, GoneIsLast, GivenUp, Over, StatesKnown,
       SentLater, StreamsAreMarked, Working, Undecided, Deciding, Concluding,
       ResponseTaken
  <2>18. GivenUp'
    BY <1>0, <2>1, <2>2, <2>4, IdleOnly, RespondingOnly, <2>5, <2>7, <2>6, <2>8
      DEF GivenUp, Over, GoneIsLast, FoundOut, BothErrored, StatesKnown,
       SentLater, Working, Undecided, Deciding, Concluding, ResponseTaken
  <2>19. OutcomeDecides'
    BY <1>0, <2>1, <2>2, <2>4, IdleOnly, RespondingOnly, <2>5, <2>7, <2>6, <1>o,
       <2>8
      DEF OutcomeDecides, Over, StatesKnown, GivenUp, SentLater, Working,
       Undecided, Deciding, Concluding, ResponseTaken
  <2>20. QED
    BY <2>11, <2>12, <2>13, <2>14, <2>15, <2>16, <2>17, <2>18, <2>19 DEF IInv
<1>63. ASSUME BeginResponse,
             "response" \in flow.stream \ bodyless
      PROVE  IInv'
  <2>1. /\ toClient' = Append(toClient, "ResponseHeaders")
        /\ sstate' = "stream"
        /\ UNCHANGED <<cstate, flow, body, queue, toServer, hooks, dropped, passthrough,
                    client, server, bodyless, chunks>>
    BY <1>63 DEF BeginResponse, Proceed, At, ends, peers
  <2>2. todo # << >> /\ Head(todo) = "begin_response"
    BY <1>63 DEF BeginResponse, Proceed, At
  <2>3. /\ todo # << >>
        /\ todo = <<"begin_response">>
        /\ todo \in Responding
    BY <1>t, <2>2, Whereabouts DEF Responding
  <2>4. todo' = Tail(todo)
    BY <1>t, <1>63, <2>3, Thens DEF BeginResponse, Proceed, At, Then
  <2>5. todo' = << >>
    BY <1>63, <2>3, <2>4
  <2>6. ~Left(queue)
    BY <1>63
      DEF BeginResponse, Proceed, At, Killed, KilledByRemote, Left, Checked,
       CheckedLoudly, CheckedQuietly
  <2>7. Outcomes' = Outcomes /\ Overtaken' = Overtaken /\ Sent' = Sent
    BY <2>1 DEF Outcomes, Overtaken, Sent
  <2>8. (Told' <=> Told) /\ toClient' \in Seq(ToClient)
    BY <1>t, <2>1, <2>3, Responds DEF Told, ToClient, Terminal, ResponseEvents
  <2>9. todo' \in Programs
    BY <2>5 DEF Programs, Working, Undecided, Deciding, Concluding
  <2>10. todo' \in Seq(Steps)
    BY <2>9, ProgramsAreSteps
  <2>11. toClient' \in Seq(ResponseEvents \cup {"ResponseError"})
    BY <1>t, <2>1, <2>8 DEF ToClient
  <2>12. sstate' \in {"uninitialized", "wait", "consume", "stream", "done", "errored"}
    BY <1>t, <2>1
  <2>13. TypeOK' /\ ProgramsOnly'
    BY <1>0, <2>1, <2>10, <2>11, <2>12, <2>9 DEF TypeOK, ProgramsOnly
  <2>14. StatesKnown' /\ StreamsAreMarked'
    BY <1>0, <2>1, <2>3, <2>5, RespondingOnly, IdleOnly, <2>7
      DEF StatesKnown, Over, SentLater, StreamsAreMarked, Working, Undecided,
       Deciding, Concluding
  <2>15. AtFirst' /\ BeforeFirstHook' /\ GoneIsLast'
    BY <1>0, <2>1, <2>3, <2>5, RespondingOnly, IdleOnly, <2>7, <2>6
      DEF AtFirst, StatesKnown, Over, BeforeFirstHook, GoneIsLast, Working,
       Undecided, Deciding, Concluding
  <2>16. OverIsNotLive' /\ ConnectHookRan'
    BY <1>0, <2>1, <2>3, <2>5, RespondingOnly, IdleOnly, <2>7, <2>8
      DEF OverIsNotLive, AtFirst, BeforeFirstHook, ConnectHookRan, Working,
       Undecided, Deciding, Concluding, Told, Unended, Has
  <2>17. FoundOut'
    BY <1>0, <2>1, <2>3, <2>5, RespondingOnly, IdleOnly, <2>6, <2>7, Served
      DEF FoundOut, BothErrored, GoneIsLast, GivenUp, Over, StatesKnown,
       SentLater, StreamsAreMarked, Working, Undecided, Deciding, Concluding
  <2>18. GivenUp'
    BY <1>0, <2>1, <2>3, <2>5, RespondingOnly, IdleOnly, <2>6, <2>7
      DEF GivenUp, Over, GoneIsLast, FoundOut, BothErrored, StatesKnown,
       SentLater, Working, Undecided, Deciding, Concluding
  <2>19. OutcomeDecides'
    BY <1>0, <2>1, <2>3, <2>5, RespondingOnly, IdleOnly, <2>7, <1>o
      DEF OutcomeDecides, Over, StatesKnown, GivenUp, SentLater, Working,
       Undecided, Deciding, Concluding
  <2>20. SentLater' /\ ChunksCounted'
    BY <1>0, <2>1, <2>7 DEF SentLater, ChunksCounted
  <2>21. QED
    BY <2>13, <2>14, <2>15, <2>16, <2>17, <2>18, <2>19, <2>20 DEF IInv
<1>64. ASSUME BeginResponse,
             "response" \notin flow.stream \ bodyless
      PROVE  IInv'
  <2>1. /\ sstate' = "consume"
        /\ UNCHANGED <<cstate, flow, body, queue, toClient, toServer, hooks, dropped,
                    passthrough, client, server, bodyless, chunks>>
    BY <1>64 DEF BeginResponse, Proceed, At, ends, peers
  <2>2. todo # << >> /\ Head(todo) = "begin_response"
    BY <1>64 DEF BeginResponse, Proceed, At
  <2>3. /\ todo # << >>
        /\ todo = <<"begin_response">>
        /\ todo \in Responding
    BY <1>t, <2>2, Whereabouts DEF Responding
  <2>4. todo' = Tail(todo)
    BY <1>t, <1>64, <2>3, Thens DEF BeginResponse, Proceed, At, Then
  <2>5. todo' = << >>
    BY <1>64, <2>3, <2>4
  <2>6. ~Left(queue)
    BY <1>64
      DEF BeginResponse, Proceed, At, Killed, KilledByRemote, Left, Checked,
       CheckedLoudly, CheckedQuietly
  <2>7. Outcomes' = Outcomes /\ Overtaken' = Overtaken /\ Sent' = Sent
    BY <2>1 DEF Outcomes, Overtaken, Sent
  <2>8. todo' \in Programs
    BY <2>5 DEF Programs, Working, Undecided, Deciding, Concluding
  <2>9. todo' \in Seq(Steps)
    BY <2>8, ProgramsAreSteps
  <2>10. sstate' \in {"uninitialized", "wait", "consume", "stream", "done", "errored"}
    BY <1>t, <2>1
  <2>11. TypeOK' /\ ProgramsOnly'
    BY <1>0, <2>1, <2>9, <2>10, <2>8 DEF TypeOK, ProgramsOnly
  <2>12. StatesKnown' /\ StreamsAreMarked'
    BY <1>0, <2>1, <2>3, <2>5, RespondingOnly, IdleOnly, <2>7
      DEF StatesKnown, Over, SentLater, StreamsAreMarked, Working, Undecided,
       Deciding, Concluding
  <2>13. AtFirst' /\ BeforeFirstHook' /\ GoneIsLast'
    BY <1>0, <2>1, <2>3, <2>5, RespondingOnly, IdleOnly, <2>7, <2>6
      DEF AtFirst, StatesKnown, Over, BeforeFirstHook, GoneIsLast, Working,
       Undecided, Deciding, Concluding
  <2>14. ConnectHookRan'
    BY <1>0, <2>1, <2>3, <2>5, RespondingOnly, IdleOnly, <2>7
      DEF ConnectHookRan, Working, Undecided, Deciding, Concluding, Has
  <2>15. FoundOut'
    BY <1>0, <2>1, <2>3, <2>5, RespondingOnly, IdleOnly, <2>6, <2>7, Served
      DEF FoundOut, BothErrored, GoneIsLast, GivenUp, Over, StatesKnown,
       SentLater, StreamsAreMarked, Working, Undecided, Deciding, Concluding
  <2>16. GivenUp'
    BY <1>0, <2>1, <2>3, <2>5, RespondingOnly, IdleOnly, <2>6, <2>7
      DEF GivenUp, Over, GoneIsLast, FoundOut, BothErrored, StatesKnown,
       SentLater, Working, Undecided, Deciding, Concluding
  <2>17. OutcomeDecides'
    BY <1>0, <2>1, <2>3, <2>5, RespondingOnly, IdleOnly, <2>7, <1>o
      DEF OutcomeDecides, Over, StatesKnown, GivenUp, SentLater, Working,
       Undecided, Deciding, Concluding
  <2>18. SentLater' /\ OverIsNotLive' /\ ChunksCounted'
    BY <1>0, <2>1, <2>7 DEF SentLater, OverIsNotLive, ChunksCounted
  <2>19. QED
    BY <2>11, <2>12, <2>13, <2>14, <2>15, <2>16, <2>17, <2>18 DEF IInv
<1>65. CASE ResponseTooLarge
  <2>1. UNCHANGED <<cstate, sstate, body, queue, toClient, toServer, hooks, dropped,
                    passthrough, client, server, bodyless, chunks>>
    BY <1>65 DEF ResponseTooLarge, At, states, sent, ends, peers
  <2>2. todo # << >> /\ Head(todo) = "response_too_large"
    BY <1>65 DEF ResponseTooLarge, At
  <2>3. /\ todo # << >>
        /\ todo = <<"response_too_large">>
        /\ todo \in Responding
    BY <1>t, <2>2, Whereabouts DEF Responding
  <2>4. todo' \in KillError
    BY <1>65, <2>3 DEF ResponseTooLarge, At, KillError
  <2>5. /\ flow' \in Flows
        /\ flow'.live = flow.live
        /\ "request" \in flow.stream => "request" \in flow'.stream
    BY <1>t, <1>65, <2>3 DEF ResponseTooLarge, Flows, Sides
  <2>6. OnlyMoves
    BY <1>t, <2>1, <2>5 DEF OnlyMoves, KeepsLife
  <2>7. QED
    BY <2>1, <2>6, <2>3, <2>4, <1>t, RespondingOnly, Moving
      DEF GoesOn, From, Outcomes
<1>66. CASE RefuseResponse
  <2>1. /\ toClient' = Append(toClient, "ResponseError")
        /\ cstate' = "errored" /\ sstate' = "errored"
        /\ server' = "gone"
        /\ toServer' = Append(toServer, "RequestError")
        /\ UNCHANGED <<body, queue, hooks, dropped, passthrough, client, bodyless, chunks>>
    BY <1>66 DEF RefuseResponse, At, ends
  <2>2. todo # << >> /\ Head(todo) = "refuse_response"
    BY <1>66 DEF RefuseResponse, At
  <2>3. /\ todo # << >>
        /\ todo = <<"refuse_response">>
        /\ todo \in Killing
    BY <1>t, <2>2, Whereabouts DEF Killing
  <2>4. todo' = << >>
    BY <1>66, <2>3 DEF RefuseResponse, At
  <2>5. /\ flow' \in Flows
        /\ flow'.live = FALSE
        /\ "request" \in flow.stream => "request" \in flow'.stream
    BY <1>t, <1>66, <2>3 DEF RefuseResponse, Flows, Sides
  <2>6. Outcomes' = Outcomes /\ (Overtaken => Overtaken')
    BY <2>1, <2>5 DEF Outcomes, Overtaken
  <2>7. Sent' <=> Sent
    BY <1>t, <2>1, <2>3, Sends DEF Sent, ToServer
  <2>8. todo' \in Programs
    BY <2>4 DEF Programs, Working, Undecided, Deciding, Concluding
  <2>9. todo' \in Seq(Steps)
    BY <2>8, ProgramsAreSteps
  <2>10. toClient' \in Seq(ResponseEvents \cup {"ResponseError"})
    BY <1>t, <2>1
  <2>11. toServer' \in Seq(RequestEvents \cup {"RequestError"})
    BY <1>t, <2>1
  <2>12. cstate' \in {"wait", "consume", "stream", "done", "errored"}
    BY <1>t, <2>1
  <2>13. sstate' \in {"uninitialized", "wait", "consume", "stream", "done", "errored"}
    BY <1>t, <2>1
  <2>14. server' \in {"idle", "open", "trailers", "early", "ended", "gone"}
    BY <1>t, <2>1
  <2>15. TypeOK' /\ ProgramsOnly'
    BY <1>0, <2>1, <2>5, <2>9, <2>10, <2>11, <2>12, <2>13, <2>14, <2>8
      DEF TypeOK, ProgramsOnly
  <2>16. StatesKnown' /\ StreamsAreMarked'
    BY <1>0, <2>1, <2>3, <2>4, KillingOnly, IdleOnly, <2>5, <2>7
      DEF StatesKnown, Over, SentLater, StreamsAreMarked, Working, Undecided,
       Deciding, Concluding
  <2>17. SentLater'
    BY <1>0, <2>1, <2>3, <2>4, KillingOnly, IdleOnly, <2>7
      DEF SentLater, StatesKnown, Over, Working, Undecided, Deciding, Concluding
  <2>18. AtFirst' /\ BeforeFirstHook' /\ GoneIsLast'
    BY <1>0, <2>1, <2>3, <2>4, KillingOnly, IdleOnly, <2>7
      DEF AtFirst, StatesKnown, Over, BeforeFirstHook, GoneIsLast, Working,
       Undecided, Deciding, Concluding
  <2>19. OverIsNotLive' /\ ConnectHookRan'
    BY <1>0, <2>1, <2>3, <2>4, KillingOnly, IdleOnly, <2>5, <2>7
      DEF OverIsNotLive, AtFirst, BeforeFirstHook, ConnectHookRan, Working,
       Undecided, Deciding, Concluding, Told, Unended, Has
  <2>20. FoundOut'
    BY <1>0, <2>1, <2>3, <2>4, KillingOnly, IdleOnly, <2>6, <2>5, <2>7, Served
      DEF FoundOut, BothErrored, GoneIsLast, GivenUp, Over, StatesKnown,
       SentLater, StreamsAreMarked, Working, Undecided, Deciding, Concluding
  <2>21. GivenUp'
    BY <1>0, <2>1, <2>3, <2>4, KillingOnly, IdleOnly, <2>6, <2>5, <2>7
      DEF GivenUp, Over, GoneIsLast, FoundOut, BothErrored, StatesKnown,
       SentLater, Working, Undecided, Deciding, Concluding
  <2>22. OutcomeDecides'
    BY <1>0, <2>1, <2>3, <2>4, KillingOnly, IdleOnly, <2>6, <2>5, <2>7, <1>o
      DEF OutcomeDecides, Over, StatesKnown, GivenUp, SentLater, Working,
       Undecided, Deciding, Concluding
  <2>23. ChunksCounted'
    BY <1>0, <2>1, <2>7 DEF ChunksCounted
  <2>24. QED
    BY <2>15, <2>16, <2>17, <2>18, <2>19, <2>20, <2>21, <2>22, <2>23 DEF IInv
<1>67. ASSUME ConsumeResponseData,
             todo' = << >>, sstate' = "consume"
      PROVE  IInv'
  <2>1. /\ body' = [body EXCEPT !["response"] = @ + 1]
        /\ sstate = "consume"
        /\ UNCHANGED <<cstate, sstate, flow, todo, toClient, toServer, hooks, dropped,
                    passthrough, client, server, bodyless, chunks>>
    BY <1>67 DEF ConsumeResponseData, Handle, ends, peers
  <2>2. todo = << >> /\ queue # << >> /\ queue' = Tail(queue) /\ Head(queue) = "ResponseData" /\ ~passthrough
    BY <1>67 DEF Handle, ConsumeResponseData
  <2>3. ResponseTaken
    BY <1>t, <2>2, TakesResponse DEF ResponseTaken, ResponseEvents
  <2>4. /\ Count(queue, "RequestData") \in Nat /\ Count(queue', "RequestData") \in Nat /\ Count(queue', "RequestData") = Count(queue, "RequestData")
        /\ Count(queue, "ResponseData") \in Nat /\ Count(queue', "ResponseData") \in Nat /\ Count(queue', "ResponseData") + 1 = Count(queue, "ResponseData")
    BY <1>t, <2>2, CountTaking
  <2>5. Outcomes' = Outcomes /\ Overtaken' = Overtaken /\ Sent' = Sent
    BY <2>1 DEF Outcomes, Overtaken, Sent
  <2>6. body'["response"] = body["response"] + 1 /\ body'["request"] = body["request"]
    BY <1>t, <2>1, <2>2 DEF Sides
  <2>7. /\ body["request"] + Count(queue, "RequestData") <= chunks["request"]
        /\ body["response"] + Count(queue, "ResponseData") <= chunks["response"]
    BY <1>0 DEF ChunksCounted
  <2>8. body["response"] + Count(queue', "ResponseData") + 1 <= chunks["response"] /\ Count(queue', "ResponseData") \in Nat
    BY <1>b, <2>7, <2>4
  <2>9. body' \in [Sides -> 0..MaxChunks]
    BY <1>t, <2>1, <2>8, OneMore DEF Sides
  <2>10. /\ body["request"] \in Nat /\ body["response"] \in Nat
         /\ chunks["request"] \in Nat /\ chunks["response"] \in Nat
         /\ body'["request"] \in Nat /\ body'["response"] \in Nat
         /\ chunks'["request"] \in Nat /\ chunks'["response"] \in Nat
    BY <1>t, <2>1, <2>9 DEF Sides
  <2>11. TypeOK'
    BY <1>0, <2>1, <2>3, <2>9 DEF TypeOK, ResponseTaken
  <2>12. ChunksCounted'
    BY <2>1, <2>4, <2>10, <2>7, <2>6 DEF ChunksCounted
  <2>13. SentLater'
    BY <1>0, <2>1, <2>2, IdleOnly, <2>3, <2>5, <2>6
      DEF SentLater, StatesKnown, Over, Working, Undecided, Deciding,
       Concluding, ResponseTaken
  <2>14. AtFirst' /\ GoneIsLast'
    BY <1>0, <2>1, <2>2, IdleOnly, <2>3, <2>5, <2>6
      DEF AtFirst, StatesKnown, Over, GoneIsLast, Working, Undecided, Deciding,
       Concluding, ResponseTaken
  <2>15. FoundOut'
    BY <1>0, <2>1, <2>2, IdleOnly, <2>3, <2>5, Served, <2>6
      DEF FoundOut, BothErrored, GoneIsLast, GivenUp, Over, StatesKnown,
       SentLater, StreamsAreMarked, Working, Undecided, Deciding, Concluding,
       ResponseTaken
  <2>16. GivenUp'
    BY <1>0, <2>1, <2>2, IdleOnly, <2>3, <2>5, <2>6
      DEF GivenUp, Over, GoneIsLast, FoundOut, BothErrored, StatesKnown,
       SentLater, Working, Undecided, Deciding, Concluding, ResponseTaken
  <2>17. OutcomeDecides'
    BY <1>0, <2>1, <2>2, IdleOnly, <2>3, <2>5, <1>o, <2>6
      DEF OutcomeDecides, Over, StatesKnown, GivenUp, SentLater, Working,
       Undecided, Deciding, Concluding, ResponseTaken
  <2>18. ProgramsOnly' /\ StatesKnown' /\ StreamsAreMarked'
       /\ BeforeFirstHook' /\ OverIsNotLive'
       /\ ConnectHookRan'
    BY <1>0, <2>1, <2>5
      DEF ProgramsOnly, StatesKnown, Over, StreamsAreMarked, BeforeFirstHook,
       OverIsNotLive, ConnectHookRan, Has
  <2>19. QED
    BY <2>11, <2>12, <2>13, <2>14, <2>15, <2>16, <2>17, <2>18 DEF IInv
<1>68. ASSUME ConsumeResponseData,
             sstate' = "stream"
      PROVE  IInv'
  <2>1. /\ body' = [body EXCEPT !["response"] = 0]
        /\ sstate = "consume" /\ sstate' = "stream"
        /\ toClient' = FlushBuffered
        /\ UNCHANGED <<cstate, todo, toServer, hooks, dropped, passthrough, client, server,
                    bodyless, chunks>>
    BY <1>68 DEF ConsumeResponseData, Handle, ends, peers
  <2>2. todo = << >> /\ queue # << >> /\ queue' = Tail(queue) /\ Head(queue) = "ResponseData" /\ ~passthrough
    BY <1>68 DEF Handle, ConsumeResponseData
  <2>3. ResponseTaken
    BY <1>t, <2>2, TakesResponse DEF ResponseTaken, ResponseEvents
  <2>4. /\ Count(queue, "RequestData") \in Nat /\ Count(queue', "RequestData") \in Nat /\ Count(queue', "RequestData") = Count(queue, "RequestData")
        /\ Count(queue, "ResponseData") \in Nat /\ Count(queue', "ResponseData") \in Nat /\ Count(queue', "ResponseData") + 1 = Count(queue, "ResponseData")
    BY <1>t, <2>2, CountTaking
  <2>5. flow' = [flow EXCEPT !.stream = @ \cup {"response"}]
    BY <1>68, <2>2 DEF ConsumeResponseData, Handle
  <2>6. /\ flow' \in Flows
        /\ flow'.live = flow.live
        /\ "request" \in flow.stream => "request" \in flow'.stream
    BY <1>t, <2>5 DEF Flows, Sides
  <2>7. Outcomes' = Outcomes /\ (Overtaken => Overtaken') /\ Sent' = Sent
    BY <2>1, <2>6 DEF Outcomes, Overtaken, Sent
  <2>8. (Told' <=> Told) /\ toClient' \in Seq(ToClient)
    BY <1>t, <2>1, <2>2, <1>b, Flushes DEF Told, ToClient
  <2>9. body'["response"] = 0 /\ body'["request"] = body["request"]
    BY <1>t, <2>1, <2>2 DEF Sides
  <2>10. /\ body["request"] + Count(queue, "RequestData") <= chunks["request"]
         /\ body["response"] + Count(queue, "ResponseData") <= chunks["response"]
    BY <1>0 DEF ChunksCounted
  <2>11. body' \in [Sides -> 0..MaxChunks]
    BY <1>t, <2>1 DEF Sides
  <2>12. toClient' \in Seq(ResponseEvents \cup {"ResponseError"})
    BY <1>t, <2>1, <2>8 DEF ToClient
  <2>13. sstate' \in {"uninitialized", "wait", "consume", "stream", "done", "errored"}
    BY <1>t, <2>1
  <2>14. /\ body["request"] \in Nat /\ body["response"] \in Nat
         /\ chunks["request"] \in Nat /\ chunks["response"] \in Nat
         /\ body'["request"] \in Nat /\ body'["response"] \in Nat
         /\ chunks'["request"] \in Nat /\ chunks'["response"] \in Nat
    BY <1>t, <2>1, <2>11, <2>12, <2>13 DEF Sides
  <2>15. TypeOK'
    BY <1>0, <2>1, <2>3, <2>6, <2>11, <2>12, <2>13 DEF TypeOK, ResponseTaken
  <2>16. ChunksCounted'
    BY <2>1, <2>4, <2>14, <2>10, <2>9 DEF ChunksCounted
  <2>17. StatesKnown' /\ StreamsAreMarked'
    BY <1>0, <2>1, <2>2, IdleOnly, <2>6, <2>7, <2>9
      DEF StatesKnown, Over, SentLater, StreamsAreMarked, Working, Undecided,
       Deciding, Concluding
  <2>18. SentLater'
    BY <1>0, <2>1, <2>2, IdleOnly, <2>3, <2>7, <2>9
      DEF SentLater, StatesKnown, Over, Working, Undecided, Deciding,
       Concluding, ResponseTaken
  <2>19. AtFirst' /\ GoneIsLast'
    BY <1>0, <2>1, <2>2, IdleOnly, <2>3, <2>7, <2>9
      DEF AtFirst, StatesKnown, Over, GoneIsLast, Working, Undecided, Deciding,
       Concluding, ResponseTaken
  <2>20. OverIsNotLive'
    BY <1>0, <2>1, <2>2, IdleOnly, <2>6, <2>7, <2>8, <2>9
      DEF OverIsNotLive, AtFirst, BeforeFirstHook, Working, Undecided, Deciding,
       Concluding, Told, Unended
  <2>21. FoundOut'
    BY <1>0, <2>1, <2>2, IdleOnly, <2>3, <2>7, <2>6, Served, <2>9
      DEF FoundOut, BothErrored, GoneIsLast, GivenUp, Over, StatesKnown,
       SentLater, StreamsAreMarked, Working, Undecided, Deciding, Concluding,
       ResponseTaken
  <2>22. GivenUp'
    BY <1>0, <2>1, <2>2, IdleOnly, <2>3, <2>7, <2>6, <2>9
      DEF GivenUp, Over, GoneIsLast, FoundOut, BothErrored, StatesKnown,
       SentLater, Working, Undecided, Deciding, Concluding, ResponseTaken
  <2>23. OutcomeDecides'
    BY <1>0, <2>1, <2>2, IdleOnly, <2>3, <2>7, <2>6, <1>o, <2>9
      DEF OutcomeDecides, Over, StatesKnown, GivenUp, SentLater, Working,
       Undecided, Deciding, Concluding, ResponseTaken
  <2>24. ProgramsOnly' /\ BeforeFirstHook' /\ ConnectHookRan'
    BY <1>0, <2>1, <2>7 DEF ProgramsOnly, BeforeFirstHook, ConnectHookRan, Has
  <2>25. QED
    BY <2>15, <2>16, <2>17, <2>18, <2>19, <2>20, <2>21, <2>22, <2>23, <2>24
      DEF IInv
<1>69. ASSUME ConsumeResponseData,
             todo' = <<"error", "refuse_response">>
      PROVE  IInv'
  <2>1. /\ body' = [body EXCEPT !["response"] = @ + 1]
        /\ sstate = "consume"
        /\ UNCHANGED <<cstate, sstate, toClient, toServer, hooks, dropped, passthrough,
                    client, server, bodyless, chunks>>
    BY <1>69 DEF ConsumeResponseData, Handle, ends, peers
  <2>2. todo = << >> /\ queue # << >> /\ queue' = Tail(queue) /\ Head(queue) = "ResponseData" /\ ~passthrough
    BY <1>69 DEF Handle, ConsumeResponseData
  <2>3. todo' \in KillError
    BY <1>69, <2>2 DEF ConsumeResponseData, Handle, KillError
  <2>4. ResponseTaken
    BY <1>t, <2>2, TakesResponse DEF ResponseTaken, ResponseEvents
  <2>5. /\ Count(queue, "RequestData") \in Nat /\ Count(queue', "RequestData") \in Nat /\ Count(queue', "RequestData") = Count(queue, "RequestData")
        /\ Count(queue, "ResponseData") \in Nat /\ Count(queue', "ResponseData") \in Nat /\ Count(queue', "ResponseData") + 1 = Count(queue, "ResponseData")
    BY <1>t, <2>2, CountTaking
  <2>6. flow' = [flow EXCEPT !.error = "other"]
    BY <1>69, <2>2 DEF ConsumeResponseData, Handle
  <2>7. /\ flow' \in Flows
        /\ flow'.live = flow.live
        /\ "request" \in flow.stream => "request" \in flow'.stream
    BY <1>t, <2>6 DEF Flows, Sides
  <2>8. Outcomes' = Outcomes /\ (Overtaken => Overtaken') /\ Sent' = Sent /\ Told' = Told
    BY <2>1, <2>7 DEF Outcomes, Overtaken, Sent, Told
  <2>9. body'["response"] = body["response"] + 1 /\ body'["request"] = body["request"]
    BY <1>t, <2>1, <2>2 DEF Sides
  <2>10. Sent
    BY <1>t, <2>1, <2>2, <1>0, <2>4 DEF SentLater, ResponseTaken
  <2>11. /\ body["request"] + Count(queue, "RequestData") <= chunks["request"]
         /\ body["response"] + Count(queue, "ResponseData") <= chunks["response"]
    BY <1>0 DEF ChunksCounted
  <2>12. todo' \in Programs
    BY <2>3 DEF Programs, Working, Undecided, Deciding, Concluding
  <2>13. todo' \in Seq(Steps)
    BY <2>12, ProgramsAreSteps
  <2>14. body["response"] + Count(queue', "ResponseData") + 1 <= chunks["response"] /\ Count(queue', "ResponseData") \in Nat
    BY <1>b, <2>11, <2>5
  <2>15. body' \in [Sides -> 0..MaxChunks]
    BY <1>t, <2>1, <2>14, OneMore DEF Sides
  <2>16. /\ body["request"] \in Nat /\ body["response"] \in Nat
         /\ chunks["request"] \in Nat /\ chunks["response"] \in Nat
         /\ body'["request"] \in Nat /\ body'["response"] \in Nat
         /\ chunks'["request"] \in Nat /\ chunks'["response"] \in Nat
    BY <1>t, <2>1, <2>13, <2>15 DEF Sides
  <2>17. TypeOK' /\ ProgramsOnly'
    BY <1>0, <2>1, <2>4, <2>7, <2>13, <2>15, <2>12
      DEF TypeOK, ResponseTaken, ProgramsOnly
  <2>18. ChunksCounted'
    BY <2>1, <2>5, <2>16, <2>11, <2>9, <2>10 DEF ChunksCounted
  <2>19. StatesKnown' /\ StreamsAreMarked'
    BY <1>0, <2>1, <2>2, <2>3, IdleOnly, KillErrorOnly, <2>7, <2>8, <2>9, <2>10
      DEF StatesKnown, Over, SentLater, StreamsAreMarked, Working, Undecided,
       Deciding, Concluding
  <2>20. SentLater'
    BY <1>0, <2>1, <2>2, <2>3, IdleOnly, KillErrorOnly, <2>4, <2>8, <2>9, <2>10
      DEF SentLater, StatesKnown, Over, Working, Undecided, Deciding,
       Concluding, ResponseTaken
  <2>21. AtFirst' /\ BeforeFirstHook' /\ GoneIsLast'
    BY <1>0, <2>1, <2>2, <2>3, IdleOnly, KillErrorOnly, <2>4, <2>8, <2>9, <2>10
      DEF AtFirst, StatesKnown, Over, BeforeFirstHook, GoneIsLast, Working,
       Undecided, Deciding, Concluding, ResponseTaken
  <2>22. OverIsNotLive' /\ ConnectHookRan'
    BY <1>0, <2>1, <2>2, <2>3, IdleOnly, KillErrorOnly, <2>7, <2>8, <2>9, <2>10
      DEF OverIsNotLive, AtFirst, BeforeFirstHook, ConnectHookRan, Working,
       Undecided, Deciding, Concluding, Told, Unended, Has
  <2>23. FoundOut'
    BY <1>0, <2>1, <2>2, <2>3, IdleOnly, KillErrorOnly, <2>4, <2>8, <2>7,
       Served, <2>9, <2>10
      DEF FoundOut, BothErrored, GoneIsLast, GivenUp, Over, StatesKnown,
       SentLater, StreamsAreMarked, Working, Undecided, Deciding, Concluding,
       ResponseTaken
  <2>24. GivenUp'
    BY <1>0, <2>1, <2>2, <2>3, IdleOnly, KillErrorOnly, <2>4, <2>8, <2>7, <2>9,
       <2>10
      DEF GivenUp, Over, GoneIsLast, FoundOut, BothErrored, StatesKnown,
       SentLater, Working, Undecided, Deciding, Concluding, ResponseTaken
  <2>25. OutcomeDecides'
    BY <1>0, <2>1, <2>2, <2>3, IdleOnly, KillErrorOnly, <2>4, <2>8, <2>7, <1>o,
       <2>9, <2>10
      DEF OutcomeDecides, Over, StatesKnown, GivenUp, SentLater, Working,
       Undecided, Deciding, Concluding, ResponseTaken
  <2>26. QED
    BY <2>17, <2>18, <2>19, <2>20, <2>21, <2>22, <2>23, <2>24, <2>25 DEF IInv
<1>70. CASE StreamResponseData
  <2>1. /\ toClient' = Append(toClient, "ResponseData")
        /\ sstate = "stream"
        /\ UNCHANGED <<cstate, sstate, flow, body, todo, toServer, hooks, dropped,
                    passthrough, client, server, bodyless, chunks>>
    BY <1>70 DEF StreamResponseData, Handle, states, ends, peers
  <2>2. todo = << >> /\ queue # << >> /\ queue' = Tail(queue) /\ Head(queue) = "ResponseData" /\ ~passthrough
    BY <1>70 DEF Handle, StreamResponseData
  <2>3. ResponseTaken
    BY <1>t, <2>2, TakesResponse DEF ResponseTaken, ResponseEvents
  <2>4. Outcomes' = Outcomes /\ Overtaken' = Overtaken /\ Sent' = Sent
    BY <2>1 DEF Outcomes, Overtaken, Sent
  <2>5. (Told' <=> Told) /\ toClient' \in Seq(ToClient)
    BY <1>t, <2>1, <2>2, Responds DEF Told, ToClient, Terminal, ResponseEvents
  <2>6. toClient' \in Seq(ResponseEvents \cup {"ResponseError"})
    BY <1>t, <2>1, <2>5 DEF ToClient
  <2>7. TypeOK'
    BY <1>0, <2>1, <2>3, <2>6 DEF TypeOK, ResponseTaken
  <2>8. ChunksCounted'
    BY <1>0, <2>1, <2>2, CountsKept
  <2>9. SentLater'
    BY <1>0, <2>1, <2>2, IdleOnly, <2>3, <2>4
      DEF SentLater, StatesKnown, Over, Working, Undecided, Deciding,
       Concluding, ResponseTaken
  <2>10. AtFirst' /\ GoneIsLast'
    BY <1>0, <2>1, <2>2, IdleOnly, <2>3, <2>4
      DEF AtFirst, StatesKnown, Over, GoneIsLast, Working, Undecided, Deciding,
       Concluding, ResponseTaken
  <2>11. OverIsNotLive'
    BY <1>0, <2>1, <2>2, IdleOnly, <2>4, <2>5
      DEF OverIsNotLive, AtFirst, BeforeFirstHook, Working, Undecided, Deciding,
       Concluding, Told, Unended
  <2>12. FoundOut'
    BY <1>0, <2>1, <2>2, IdleOnly, <2>3, <2>4, Served
      DEF FoundOut, BothErrored, GoneIsLast, GivenUp, Over, StatesKnown,
       SentLater, StreamsAreMarked, Working, Undecided, Deciding, Concluding,
       ResponseTaken
  <2>13. GivenUp'
    BY <1>0, <2>1, <2>2, IdleOnly, <2>3, <2>4
      DEF GivenUp, Over, GoneIsLast, FoundOut, BothErrored, StatesKnown,
       SentLater, Working, Undecided, Deciding, Concluding, ResponseTaken
  <2>14. OutcomeDecides'
    BY <1>0, <2>1, <2>2, IdleOnly, <2>3, <2>4, <1>o
      DEF OutcomeDecides, Over, StatesKnown, GivenUp, SentLater, Working,
       Undecided, Deciding, Concluding, ResponseTaken
  <2>15. ProgramsOnly' /\ StatesKnown' /\ StreamsAreMarked'
       /\ BeforeFirstHook' /\ ConnectHookRan'
    BY <1>0, <2>1, <2>4
      DEF ProgramsOnly, StatesKnown, Over, StreamsAreMarked, BeforeFirstHook,
       ConnectHookRan, Has
  <2>16. QED
    BY <2>7, <2>8, <2>9, <2>10, <2>11, <2>12, <2>13, <2>14, <2>15 DEF IInv
<1>71. CASE ResponseTrailers
  <2>1. /\ sstate \in {"consume", "stream"}
        /\ UNCHANGED <<cstate, sstate, body, todo, toClient, toServer, hooks, dropped,
                    passthrough, client, server, bodyless, chunks>>
    BY <1>71 DEF ResponseTrailers, Handle, states, sent, ends, peers
  <2>2. todo = << >> /\ queue # << >> /\ queue' = Tail(queue) /\ Head(queue) = "ResponseTrailers" /\ ~passthrough
    BY <1>71 DEF Handle, ResponseTrailers
  <2>3. ResponseTaken
    BY <1>t, <2>2, TakesResponse DEF ResponseTaken, ResponseEvents
  <2>4. flow' = [flow EXCEPT !.trailers = @ \cup {"response"}]
    BY <1>71, <2>2 DEF ResponseTrailers
  <2>5. /\ flow' \in Flows
        /\ flow'.live = flow.live
        /\ "request" \in flow.stream => "request" \in flow'.stream
    BY <1>t, <2>4 DEF Flows, Sides
  <2>6. Outcomes' = Outcomes /\ (Overtaken => Overtaken') /\ Sent' = Sent /\ Told' = Told
    BY <2>1, <2>5 DEF Outcomes, Overtaken, Sent, Told
  <2>7. TypeOK'
    BY <1>0, <2>1, <2>3, <2>5 DEF TypeOK, ResponseTaken
  <2>8. ChunksCounted'
    BY <1>0, <2>1, <2>2, CountsKept
  <2>9. StreamsAreMarked'
    BY <1>0, <2>1, <2>2, IdleOnly, <2>5, <2>6
      DEF StreamsAreMarked, StatesKnown, Over, Working, Undecided, Deciding,
       Concluding
  <2>10. SentLater'
    BY <1>0, <2>1, <2>2, IdleOnly, <2>3, <2>6
      DEF SentLater, StatesKnown, Over, Working, Undecided, Deciding,
       Concluding, ResponseTaken
  <2>11. AtFirst' /\ GoneIsLast'
    BY <1>0, <2>1, <2>2, IdleOnly, <2>3, <2>6
      DEF AtFirst, StatesKnown, Over, GoneIsLast, Working, Undecided, Deciding,
       Concluding, ResponseTaken
  <2>12. OverIsNotLive'
    BY <1>0, <2>1, <2>2, IdleOnly, <2>5, <2>6
      DEF OverIsNotLive, AtFirst, BeforeFirstHook, Working, Undecided, Deciding,
       Concluding, Told, Unended
  <2>13. FoundOut'
    BY <1>0, <2>1, <2>2, IdleOnly, <2>3, <2>6, <2>5, Served
      DEF FoundOut, BothErrored, GoneIsLast, GivenUp, Over, StatesKnown,
       SentLater, StreamsAreMarked, Working, Undecided, Deciding, Concluding,
       ResponseTaken
  <2>14. GivenUp'
    BY <1>0, <2>1, <2>2, IdleOnly, <2>3, <2>6, <2>5
      DEF GivenUp, Over, GoneIsLast, FoundOut, BothErrored, StatesKnown,
       SentLater, Working, Undecided, Deciding, Concluding, ResponseTaken
  <2>15. OutcomeDecides'
    BY <1>0, <2>1, <2>2, IdleOnly, <2>3, <2>6, <2>5, <1>o
      DEF OutcomeDecides, Over, StatesKnown, GivenUp, SentLater, Working,
       Undecided, Deciding, Concluding, ResponseTaken
  <2>16. ProgramsOnly' /\ StatesKnown' /\ BeforeFirstHook'
       /\ ConnectHookRan'
    BY <1>0, <2>1, <2>6
      DEF ProgramsOnly, StatesKnown, Over, BeforeFirstHook, ConnectHookRan, Has
  <2>17. QED
    BY <2>7, <2>8, <2>9, <2>10, <2>11, <2>12, <2>13, <2>14, <2>15, <2>16
      DEF IInv
<1>72. CASE ResponseEnd
  <2>1. /\ sstate \in {"consume", "stream"}
        /\ UNCHANGED <<cstate, sstate, flow, body, toClient, toServer, hooks, dropped,
                    passthrough, client, server, bodyless, chunks>>
    BY <1>72 DEF ResponseEnd, Handle, states, sent, ends, peers
  <2>2. todo = << >> /\ queue # << >> /\ queue' = Tail(queue) /\ Head(queue) = "ResponseEnd" /\ ~passthrough
    BY <1>72 DEF Handle, ResponseEnd
  <2>3. todo' \in ResponseHook
    BY <1>72, <2>2 DEF ResponseEnd, Handle, ResponseHook
  <2>4. ResponseTaken
    BY <1>t, <2>2, TakesResponse DEF ResponseTaken, ResponseEvents
  <2>5. Outcomes' = Outcomes /\ Overtaken' = Overtaken /\ Sent' = Sent
    BY <2>1 DEF Outcomes, Overtaken, Sent
  <2>6. Sent
    BY <1>t, <2>1, <2>2, <1>0, <2>4 DEF SentLater, ResponseTaken
  <2>7. todo' \in Programs
    BY <2>3 DEF Programs, Working, Undecided, Deciding, Concluding
  <2>8. todo' \in Seq(Steps)
    BY <2>7, ProgramsAreSteps
  <2>9. TypeOK' /\ ProgramsOnly'
    BY <1>0, <2>1, <2>4, <2>8, <2>7 DEF TypeOK, ResponseTaken, ProgramsOnly
  <2>10. ChunksCounted'
    BY <1>0, <2>1, <2>2, CountsKept
  <2>11. StatesKnown' /\ StreamsAreMarked'
    BY <1>0, <2>1, <2>2, <2>3, IdleOnly, ResponseHookOnly, <2>5, <2>6
      DEF StatesKnown, Over, SentLater, StreamsAreMarked, Working, Undecided,
       Deciding, Concluding
  <2>12. SentLater'
    BY <1>0, <2>1, <2>2, <2>3, IdleOnly, ResponseHookOnly, <2>4, <2>5, <2>6
      DEF SentLater, StatesKnown, Over, Working, Undecided, Deciding,
       Concluding, ResponseTaken
  <2>13. AtFirst' /\ BeforeFirstHook' /\ GoneIsLast'
    BY <1>0, <2>1, <2>2, <2>3, IdleOnly, ResponseHookOnly, <2>4, <2>5, <2>6
      DEF AtFirst, StatesKnown, Over, BeforeFirstHook, GoneIsLast, Working,
       Undecided, Deciding, Concluding, ResponseTaken
  <2>14. ConnectHookRan'
    BY <1>0, <2>1, <2>2, <2>3, IdleOnly, ResponseHookOnly, <2>5, <2>6
      DEF ConnectHookRan, Working, Undecided, Deciding, Concluding, Has
  <2>15. FoundOut'
    BY <1>0, <2>1, <2>2, <2>3, IdleOnly, ResponseHookOnly, <2>4, <2>5, Served,
       <2>6
      DEF FoundOut, BothErrored, GoneIsLast, GivenUp, Over, StatesKnown,
       SentLater, StreamsAreMarked, Working, Undecided, Deciding, Concluding,
       ResponseTaken
  <2>16. GivenUp'
    BY <1>0, <2>1, <2>2, <2>3, IdleOnly, ResponseHookOnly, <2>4, <2>5, <2>6
      DEF GivenUp, Over, GoneIsLast, FoundOut, BothErrored, StatesKnown,
       SentLater, Working, Undecided, Deciding, Concluding, ResponseTaken
  <2>17. OutcomeDecides'
    BY <1>0, <2>1, <2>2, <2>3, IdleOnly, ResponseHookOnly, <2>4, <2>5, <1>o,
       <2>6
      DEF OutcomeDecides, Over, StatesKnown, GivenUp, SentLater, Working,
       Undecided, Deciding, Concluding, ResponseTaken
  <2>18. OverIsNotLive'
    BY <1>0, <2>1, <2>5 DEF OverIsNotLive
  <2>19. QED
    BY <2>9, <2>10, <2>11, <2>12, <2>13, <2>14, <2>15, <2>16, <2>17, <2>18
      DEF IInv
<1>73. CASE InlineResponse
  <2>1. UNCHANGED <<cstate, sstate, flow, body, queue, toClient, toServer, hooks,
                    dropped, passthrough, client, server, bodyless, chunks>>
    BY <1>73 DEF InlineResponse, Proceed, At, states, sent, ends, peers
  <2>2. todo # << >> /\ Head(todo) = "inline_response"
    BY <1>73 DEF InlineResponse, Proceed, At
  <2>3. /\ todo # << >>
        /\ todo = <<"inline_response">>
        /\ todo \in Routing
    BY <1>t, <2>2, Whereabouts DEF Routing
  <2>4. todo' \in ResponseHook
    BY <1>73, <2>3, AlonePair DEF InlineResponse, Then, ResponseHook
  <2>5. OnlyMoves
    BY <1>t, <2>1 DEF OnlyMoves, KeepsLife
  <2>6. QED
    BY <2>1, <2>5, <2>3, <2>4, <1>t, RoutingOnly, Moving
      DEF GoesOn, From, Outcomes
<1>74. ASSUME FinishResponse,
             cstate = "done", flow.response # "switching"
      PROVE  IInv'
  <2>1. /\ dropped' = TRUE
        /\ cstate' = "done" /\ sstate' = "done"
        /\ toClient' = toClient \o UnsentResponse \o Trailers("ResponseTrailers", "response") \o <<"ResponseEnd">>
        /\ UNCHANGED <<body, queue, toServer, hooks, passthrough, client, server, bodyless,
                    chunks>>
    BY <1>74 DEF FinishResponse, Proceed, At, FlowDone, ends
  <2>2. todo # << >> /\ Head(todo) = "finish_response"
    BY <1>74 DEF FinishResponse, Proceed, At, FlowDone
  <2>3. /\ todo # << >>
        /\ todo = <<"finish_response">>
        /\ todo \in Finishing
    BY <1>t, <2>2, Whereabouts DEF Finishing
  <2>4. todo' = Tail(todo)
    BY <1>t, <1>74, <2>3, Thens DEF FinishResponse, Proceed, At, Then
  <2>5. todo' = << >>
    BY <1>74, <2>3, <2>4
  <2>6. ~Left(queue)
    BY <1>74
      DEF FinishResponse, Proceed, At, FlowDone, Killed, KilledByRemote, Left,
       Checked, CheckedLoudly, CheckedQuietly
  <2>7. flow' = [flow EXCEPT !.live = FALSE]
    BY <1>74, <2>3 DEF FinishResponse, FlowDone, At, Proceed
  <2>8. /\ flow' \in Flows
        /\ flow'.live = FALSE
        /\ "request" \in flow.stream => "request" \in flow'.stream
    BY <1>t, <2>7 DEF Flows, Sides
  <2>9. Outcomes' = Outcomes /\ (Overtaken => Overtaken') /\ Sent' = Sent
    BY <2>1, <2>8 DEF Outcomes, Overtaken, Sent
  <2>10. todo' \in Programs
    BY <2>5 DEF Programs, Working, Undecided, Deciding, Concluding
  <2>11. todo' \in Seq(Steps)
    BY <2>10, ProgramsAreSteps
  <2>12. toClient' \in Seq(ResponseEvents \cup {"ResponseError"})
    BY <1>t, <2>1, EndsResponse, <1>b, Finishes DEF ToClient
  <2>13. dropped' \in BOOLEAN
    BY <1>t, <2>1
  <2>14. cstate' \in {"wait", "consume", "stream", "done", "errored"}
    BY <1>t, <2>1
  <2>15. sstate' \in {"uninitialized", "wait", "consume", "stream", "done", "errored"}
    BY <1>t, <2>1
  <2>16. TypeOK' /\ ProgramsOnly'
    BY <1>0, <2>1, <2>8, <2>11, <2>12, <2>13, <2>14, <2>15, <2>10
      DEF TypeOK, ProgramsOnly
  <2>17. StatesKnown' /\ StreamsAreMarked'
    BY <1>0, <2>1, <2>3, <2>5, FinishingOnly, IdleOnly, <2>8, <2>9
      DEF StatesKnown, Over, SentLater, StreamsAreMarked, Working, Undecided,
       Deciding, Concluding
  <2>18. SentLater'
    BY <1>0, <2>1, <2>3, <2>5, FinishingOnly, IdleOnly, <2>9
      DEF SentLater, StatesKnown, Over, Working, Undecided, Deciding, Concluding
  <2>19. AtFirst' /\ BeforeFirstHook' /\ GoneIsLast'
    BY <1>0, <2>1, <2>3, <2>5, FinishingOnly, IdleOnly, <2>9, <2>6
      DEF AtFirst, StatesKnown, Over, BeforeFirstHook, GoneIsLast, Working,
       Undecided, Deciding, Concluding
  <2>20. OverIsNotLive' /\ ConnectHookRan'
    BY <1>0, <2>1, <2>3, <2>5, FinishingOnly, IdleOnly, <2>8, <2>9
      DEF OverIsNotLive, AtFirst, BeforeFirstHook, ConnectHookRan, Working,
       Undecided, Deciding, Concluding, Told, Unended, Has
  <2>21. FoundOut'
    BY <1>0, <2>1, <2>3, <2>5, FinishingOnly, IdleOnly, <2>6, <2>9, <2>8, Served
      DEF FoundOut, BothErrored, GoneIsLast, GivenUp, Over, StatesKnown,
       SentLater, StreamsAreMarked, Working, Undecided, Deciding, Concluding
  <2>22. GivenUp'
    BY <1>0, <2>1, <2>3, <2>5, FinishingOnly, IdleOnly, <2>6, <2>9, <2>8
      DEF GivenUp, Over, GoneIsLast, FoundOut, BothErrored, StatesKnown,
       SentLater, Working, Undecided, Deciding, Concluding
  <2>23. OutcomeDecides'
    BY <1>0, <2>1, <2>3, <2>5, FinishingOnly, IdleOnly, <2>9, <2>8, <1>o
      DEF OutcomeDecides, Over, StatesKnown, GivenUp, SentLater, Working,
       Undecided, Deciding, Concluding
  <2>24. ChunksCounted'
    BY <1>0, <2>1, <2>9 DEF ChunksCounted
  <2>25. QED
    BY <2>16, <2>17, <2>18, <2>19, <2>20, <2>21, <2>22, <2>23, <2>24 DEF IInv
<1>75. ASSUME FinishResponse,
             cstate = "done", flow.response = "switching",
             cstate' = "done"
      PROVE  IInv'
  <2>1. /\ passthrough' = TRUE
        /\ cstate' = "done" /\ sstate' = "done"
        /\ toClient' = toClient \o UnsentResponse \o Trailers("ResponseTrailers", "response") \o <<"ResponseEnd">>
        /\ UNCHANGED <<body, queue, toServer, hooks, dropped, client, server, bodyless,
                    chunks>>
    BY <1>75 DEF FinishResponse, Proceed, At, FlowDone, ends
  <2>2. todo # << >> /\ Head(todo) = "finish_response"
    BY <1>75 DEF FinishResponse, Proceed, At, FlowDone
  <2>3. /\ todo # << >>
        /\ todo = <<"finish_response">>
        /\ todo \in Finishing
    BY <1>t, <2>2, Whereabouts DEF Finishing
  <2>4. todo' = Tail(todo)
    BY <1>t, <1>75, <2>3, Thens DEF FinishResponse, Proceed, At, Then
  <2>5. todo' = << >>
    BY <1>75, <2>3, <2>4
  <2>6. ~Left(queue)
    BY <1>75
      DEF FinishResponse, Proceed, At, FlowDone, Killed, KilledByRemote, Left,
       Checked, CheckedLoudly, CheckedQuietly
  <2>7. \E websocket \in BOOLEAN : flow' = [flow EXCEPT !.live = @ /\ websocket]
    BY <1>75, <2>3 DEF FinishResponse, FlowDone, At, Proceed
  <2>8. /\ flow' \in Flows
        /\ "request" \in flow.stream => "request" \in flow'.stream
    BY <1>t, <2>7 DEF Flows, Sides
  <2>9. Outcomes' = Outcomes /\ (Overtaken => Overtaken') /\ Sent' = Sent
    BY <2>1, <2>8 DEF Outcomes, Overtaken, Sent
  <2>10. todo' \in Programs
    BY <2>5 DEF Programs, Working, Undecided, Deciding, Concluding
  <2>11. todo' \in Seq(Steps)
    BY <2>10, ProgramsAreSteps
  <2>12. toClient' \in Seq(ResponseEvents \cup {"ResponseError"})
    BY <1>t, <2>1, EndsResponse, <1>b, Finishes DEF ToClient
  <2>13. passthrough' \in BOOLEAN
    BY <1>t, <2>1
  <2>14. cstate' \in {"wait", "consume", "stream", "done", "errored"}
    BY <1>t, <2>1
  <2>15. sstate' \in {"uninitialized", "wait", "consume", "stream", "done", "errored"}
    BY <1>t, <2>1
  <2>16. TypeOK' /\ ProgramsOnly'
    BY <1>0, <2>1, <2>8, <2>11, <2>12, <2>13, <2>14, <2>15, <2>10
      DEF TypeOK, ProgramsOnly
  <2>17. StatesKnown' /\ StreamsAreMarked'
    BY <1>0, <2>1, <2>3, <2>5, FinishingOnly, IdleOnly, <2>8, <2>9
      DEF StatesKnown, Over, SentLater, StreamsAreMarked, Working, Undecided,
       Deciding, Concluding
  <2>18. SentLater'
    BY <1>0, <2>1, <2>3, <2>5, FinishingOnly, IdleOnly, <2>9
      DEF SentLater, StatesKnown, Over, Working, Undecided, Deciding, Concluding
  <2>19. AtFirst' /\ BeforeFirstHook' /\ GoneIsLast'
    BY <1>0, <2>1, <2>3, <2>5, FinishingOnly, IdleOnly, <2>9, <2>6
      DEF AtFirst, StatesKnown, Over, BeforeFirstHook, GoneIsLast, Working,
       Undecided, Deciding, Concluding
  <2>20. OverIsNotLive' /\ ConnectHookRan'
    BY <1>0, <2>1, <2>3, <2>5, FinishingOnly, IdleOnly, <2>8, <2>9
      DEF OverIsNotLive, AtFirst, BeforeFirstHook, ConnectHookRan, Working,
       Undecided, Deciding, Concluding, Told, Unended, Has
  <2>21. FoundOut'
    BY <1>0, <2>1, <2>3, <2>5, FinishingOnly, IdleOnly, <2>6, <2>9, <2>8, Served
      DEF FoundOut, BothErrored, GoneIsLast, GivenUp, Over, StatesKnown,
       SentLater, StreamsAreMarked, Working, Undecided, Deciding, Concluding
  <2>22. GivenUp'
    BY <1>0, <2>1, <2>3, <2>5, FinishingOnly, IdleOnly, <2>6, <2>9, <2>8
      DEF GivenUp, Over, GoneIsLast, FoundOut, BothErrored, StatesKnown,
       SentLater, Working, Undecided, Deciding, Concluding
  <2>23. OutcomeDecides'
    BY <1>0, <2>1, <2>3, <2>5, FinishingOnly, IdleOnly, <2>9, <2>8, <1>o
      DEF OutcomeDecides, Over, StatesKnown, GivenUp, SentLater, Working,
       Undecided, Deciding, Concluding
  <2>24. ChunksCounted'
    BY <1>0, <2>1, <2>9 DEF ChunksCounted
  <2>25. QED
    BY <2>16, <2>17, <2>18, <2>19, <2>20, <2>21, <2>22, <2>23, <2>24 DEF IInv
<1>76. ASSUME FinishResponse,
             cstate = "done", flow.response = "switching",
             cstate' # "done"
      PROVE  IInv'
  <2>1. /\ client' = "gone"
        /\ cstate' = "errored" /\ sstate' = "errored"
        /\ toClient' = toClient \o UnsentResponse \o Trailers("ResponseTrailers", "response")
        /\ UNCHANGED <<body, queue, toServer, hooks, dropped, passthrough, server, bodyless,
                    chunks>>
    BY <1>76 DEF FinishResponse, Proceed, At, FlowDone, ends
  <2>2. todo # << >> /\ Head(todo) = "finish_response"
    BY <1>76 DEF FinishResponse, Proceed, At, FlowDone
  <2>3. /\ todo # << >>
        /\ todo = <<"finish_response">>
        /\ todo \in Finishing
    BY <1>t, <2>2, Whereabouts DEF Finishing
  <2>4. todo' = Tail(todo)
    BY <1>t, <1>76, <2>3, Thens DEF FinishResponse, Proceed, At, Then
  <2>5. todo' = << >>
    BY <1>76, <2>3, <2>4
  <2>6. ~Left(queue)
    BY <1>76
      DEF FinishResponse, Proceed, At, FlowDone, Killed, KilledByRemote, Left,
       Checked, CheckedLoudly, CheckedQuietly
  <2>7. flow' = [flow EXCEPT !.live = FALSE]
    BY <1>76, <2>3 DEF FinishResponse, FlowDone, At, Proceed
  <2>8. /\ flow' \in Flows
        /\ flow'.live = FALSE
        /\ "request" \in flow.stream => "request" \in flow'.stream
    BY <1>t, <2>7 DEF Flows, Sides
  <2>9. Outcomes' = Outcomes /\ (Overtaken => Overtaken') /\ Sent' = Sent
    BY <2>1, <2>8 DEF Outcomes, Overtaken, Sent
  <2>10. todo' \in Programs
    BY <2>5 DEF Programs, Working, Undecided, Deciding, Concluding
  <2>11. todo' \in Seq(Steps)
    BY <2>10, ProgramsAreSteps
  <2>12. toClient' \in Seq(ResponseEvents \cup {"ResponseError"})
    BY <1>t, <2>1, <1>b, Finishes DEF ToClient
  <2>13. client' \in {"idle", "open", "trailers", "ended", "gone"}
    BY <1>t, <2>1
  <2>14. cstate' \in {"wait", "consume", "stream", "done", "errored"}
    BY <1>t, <2>1
  <2>15. sstate' \in {"uninitialized", "wait", "consume", "stream", "done", "errored"}
    BY <1>t, <2>1
  <2>16. TypeOK' /\ ProgramsOnly'
    BY <1>0, <2>1, <2>8, <2>11, <2>12, <2>13, <2>14, <2>15, <2>10
      DEF TypeOK, ProgramsOnly
  <2>17. StatesKnown' /\ StreamsAreMarked'
    BY <1>0, <2>1, <2>3, <2>5, FinishingOnly, IdleOnly, <2>8, <2>9
      DEF StatesKnown, Over, SentLater, StreamsAreMarked, Working, Undecided,
       Deciding, Concluding
  <2>18. SentLater'
    BY <1>0, <2>1, <2>3, <2>5, FinishingOnly, IdleOnly, <2>9
      DEF SentLater, StatesKnown, Over, Working, Undecided, Deciding, Concluding
  <2>19. AtFirst' /\ BeforeFirstHook' /\ GoneIsLast'
    BY <1>0, <2>1, <2>3, <2>5, FinishingOnly, IdleOnly, <2>9, <2>6
      DEF AtFirst, StatesKnown, Over, BeforeFirstHook, GoneIsLast, Working,
       Undecided, Deciding, Concluding
  <2>20. OverIsNotLive' /\ ConnectHookRan'
    BY <1>0, <2>1, <2>3, <2>5, FinishingOnly, IdleOnly, <2>8, <2>9
      DEF OverIsNotLive, AtFirst, BeforeFirstHook, ConnectHookRan, Working,
       Undecided, Deciding, Concluding, Told, Unended, Has
  <2>21. FoundOut'
    BY <1>0, <2>1, <2>3, <2>5, FinishingOnly, IdleOnly, <2>6, <2>9, <2>8, Served
      DEF FoundOut, BothErrored, GoneIsLast, GivenUp, Over, StatesKnown,
       SentLater, StreamsAreMarked, Working, Undecided, Deciding, Concluding
  <2>22. GivenUp'
    BY <1>0, <2>1, <2>3, <2>5, FinishingOnly, IdleOnly, <2>6, <2>9, <2>8
      DEF GivenUp, Over, GoneIsLast, FoundOut, BothErrored, StatesKnown,
       SentLater, Working, Undecided, Deciding, Concluding
  <2>23. OutcomeDecides'
    BY <1>0, <2>1, <2>3, <2>5, FinishingOnly, IdleOnly, <2>9, <2>8, <1>o
      DEF OutcomeDecides, Over, StatesKnown, GivenUp, SentLater, Working,
       Undecided, Deciding, Concluding
  <2>24. ChunksCounted'
    BY <1>0, <2>1, <2>9 DEF ChunksCounted
  <2>25. QED
    BY <2>16, <2>17, <2>18, <2>19, <2>20, <2>21, <2>22, <2>23, <2>24 DEF IInv
<1>77. ASSUME FinishResponse,
             cstate # "done"
      PROVE  IInv'
  <2>1. /\ sstate' = "done"
        /\ toClient' = toClient \o UnsentResponse \o Trailers("ResponseTrailers", "response")
        /\ UNCHANGED <<cstate, flow, body, queue, toServer, hooks, dropped, passthrough,
                    client, server, bodyless, chunks>>
    BY <1>77 DEF FinishResponse, Proceed, At, FlowDone, ends
  <2>2. todo # << >> /\ Head(todo) = "finish_response"
    BY <1>77 DEF FinishResponse, Proceed, At, FlowDone
  <2>3. /\ todo # << >>
        /\ todo = <<"finish_response">>
        /\ todo \in Finishing
    BY <1>t, <2>2, Whereabouts DEF Finishing
  <2>4. todo' = Tail(todo)
    BY <1>t, <1>77, <2>3, Thens DEF FinishResponse, Proceed, At, Then
  <2>5. todo' = << >>
    BY <1>77, <2>3, <2>4
  <2>6. ~Left(queue)
    BY <1>77
      DEF FinishResponse, Proceed, At, FlowDone, Killed, KilledByRemote, Left,
       Checked, CheckedLoudly, CheckedQuietly
  <2>7. Outcomes' = Outcomes /\ Overtaken' = Overtaken /\ Sent' = Sent
    BY <2>1 DEF Outcomes, Overtaken, Sent
  <2>8. (Told' <=> Told) /\ toClient' \in Seq(ToClient)
    BY <1>t, <2>1, <2>3, <1>b, Finishes DEF Told, ToClient
  <2>9. todo' \in Programs
    BY <2>5 DEF Programs, Working, Undecided, Deciding, Concluding
  <2>10. todo' \in Seq(Steps)
    BY <2>9, ProgramsAreSteps
  <2>11. toClient' \in Seq(ResponseEvents \cup {"ResponseError"})
    BY <1>t, <2>1, <2>8 DEF ToClient
  <2>12. sstate' \in {"uninitialized", "wait", "consume", "stream", "done", "errored"}
    BY <1>t, <2>1
  <2>13. TypeOK' /\ ProgramsOnly'
    BY <1>0, <2>1, <2>10, <2>11, <2>12, <2>9 DEF TypeOK, ProgramsOnly
  <2>14. StatesKnown' /\ StreamsAreMarked'
    BY <1>0, <2>1, <2>3, <2>5, FinishingOnly, IdleOnly, <2>7
      DEF StatesKnown, Over, SentLater, StreamsAreMarked, Working, Undecided,
       Deciding, Concluding
  <2>15. AtFirst' /\ BeforeFirstHook' /\ GoneIsLast'
    BY <1>0, <2>1, <2>3, <2>5, FinishingOnly, IdleOnly, <2>7, <2>6
      DEF AtFirst, StatesKnown, Over, BeforeFirstHook, GoneIsLast, Working,
       Undecided, Deciding, Concluding
  <2>16. OverIsNotLive' /\ ConnectHookRan'
    BY <1>0, <2>1, <2>3, <2>5, FinishingOnly, IdleOnly, <2>7, <2>8
      DEF OverIsNotLive, AtFirst, BeforeFirstHook, ConnectHookRan, Working,
       Undecided, Deciding, Concluding, Told, Unended, Has
  <2>17. FoundOut'
    BY <1>0, <2>1, <2>3, <2>5, FinishingOnly, IdleOnly, <2>6, <2>7, Served
      DEF FoundOut, BothErrored, GoneIsLast, GivenUp, Over, StatesKnown,
       SentLater, StreamsAreMarked, Working, Undecided, Deciding, Concluding
  <2>18. GivenUp'
    BY <1>0, <2>1, <2>3, <2>5, FinishingOnly, IdleOnly, <2>6, <2>7
      DEF GivenUp, Over, GoneIsLast, FoundOut, BothErrored, StatesKnown,
       SentLater, Working, Undecided, Deciding, Concluding
  <2>19. OutcomeDecides'
    BY <1>0, <2>1, <2>3, <2>5, FinishingOnly, IdleOnly, <2>7, <1>o
      DEF OutcomeDecides, Over, StatesKnown, GivenUp, SentLater, Working,
       Undecided, Deciding, Concluding
  <2>20. SentLater' /\ ChunksCounted'
    BY <1>0, <2>1, <2>7 DEF SentLater, ChunksCounted
  <2>21. QED
    BY <2>13, <2>14, <2>15, <2>16, <2>17, <2>18, <2>19, <2>20 DEF IInv
<1>78. CASE HandleConnect
  <2>1. UNCHANGED <<cstate, sstate, flow, body, queue, toClient, toServer, hooks,
                    dropped, passthrough, client, server, bodyless, chunks>>
    BY <1>78 DEF HandleConnect, Proceed, At, states, sent, ends, peers
  <2>2. todo # << >> /\ Head(todo) = "handle_connect"
    BY <1>78 DEF HandleConnect, Proceed, At
  <2>3. /\ todo # << >>
        /\ todo = <<"handle_connect">>
        /\ todo \in Connecting
    BY <1>t, <2>2, Whereabouts DEF Connecting
  <2>4. todo' \in Connecting
    BY <1>78, <2>3 DEF HandleConnect, Connecting
  <2>5. OnlyMoves
    BY <1>t, <2>1 DEF OnlyMoves, KeepsLife
  <2>6. QED
    BY <2>1, <2>5, <2>3, <2>4, <1>t, ConnectingOnly, Moving
      DEF GoesOn, From, Outcomes
<1>79. CASE FinishConnect
  <2>1. UNCHANGED <<cstate, sstate, flow, body, queue, toClient, toServer, hooks,
                    dropped, passthrough, client, server, bodyless, chunks>>
    BY <1>79 DEF FinishConnect, At, states, sent, ends, peers
  <2>2. todo # << >> /\ Head(todo) = "finish_connect"
    BY <1>79 DEF FinishConnect, At
  <2>3. /\ todo # << >>
        /\ todo = <<"finish_connect">>
        /\ todo \in Connecting
    BY <1>t, <2>2, Whereabouts DEF Connecting
  <2>4. todo' \in Connecting
    BY <1>79, <2>3 DEF FinishConnect, Connecting
  <2>5. OnlyMoves
    BY <1>t, <2>1 DEF OnlyMoves, KeepsLife
  <2>6. QED
    BY <2>1, <2>5, <2>3, <2>4, <1>t, ConnectingOnly, Moving
      DEF GoesOn, From, Outcomes
<1>80. CASE Tunnel
  <2>1. /\ passthrough' = TRUE
        /\ toClient' = toClient \o <<"ResponseHeaders">> \o << >> \o <<"ResponseEnd">>
        /\ UNCHANGED <<cstate, sstate, body, queue, toServer, hooks, dropped, client,
                    server, bodyless, chunks>>
    BY <1>80 DEF Tunnel, At, ConnectResponse, states, peers
  <2>2. todo # << >> /\ Head(todo) = "tunnel"
    BY <1>80 DEF Tunnel, At, ConnectResponse
  <2>3. /\ todo # << >>
        /\ todo = <<"tunnel">>
        /\ todo \in Connecting
    BY <1>t, <2>2, Whereabouts DEF Connecting
  <2>4. todo' = Tail(todo)
    BY <1>t, <1>80, <2>3, Thens DEF Tunnel, At, Then
  <2>5. todo' = << >>
    BY <1>80, <2>3, <2>4
  <2>6. flow' = [flow EXCEPT !.response = "plain"]
    BY <1>80, <2>3 DEF Tunnel
  <2>7. /\ flow' \in Flows
        /\ flow'.live = flow.live
        /\ "request" \in flow.stream => "request" \in flow'.stream
    BY <1>t, <2>6 DEF Flows, Sides
  <2>8. Outcomes' = Outcomes /\ (Overtaken => Overtaken') /\ Sent' = Sent
    BY <2>1, <2>7 DEF Outcomes, Overtaken, Sent
  <2>9. todo' \in Programs
    BY <2>5 DEF Programs, Working, Undecided, Deciding, Concluding
  <2>10. todo' \in Seq(Steps)
    BY <2>9, ProgramsAreSteps
  <2>11. toClient' \in Seq(ResponseEvents \cup {"ResponseError"})
    BY <1>t, <2>1, ConnectResponds DEF ToClient
  <2>12. passthrough' \in BOOLEAN
    BY <1>t, <2>1
  <2>13. TypeOK' /\ ProgramsOnly'
    BY <1>0, <2>1, <2>7, <2>10, <2>11, <2>12, <2>9 DEF TypeOK, ProgramsOnly
  <2>14. StatesKnown' /\ StreamsAreMarked'
    BY <1>0, <2>1, <2>3, <2>5, ConnectingOnly, IdleOnly, <2>7, <2>8
      DEF StatesKnown, Over, SentLater, StreamsAreMarked, Working, Undecided,
       Deciding, Concluding
  <2>15. AtFirst' /\ BeforeFirstHook' /\ GoneIsLast'
    BY <1>0, <2>1, <2>3, <2>5, ConnectingOnly, IdleOnly, <2>8
      DEF AtFirst, StatesKnown, Over, BeforeFirstHook, GoneIsLast, Working,
       Undecided, Deciding, Concluding
  <2>16. OverIsNotLive' /\ ConnectHookRan'
    BY <1>0, <2>1, <2>3, <2>5, ConnectingOnly, IdleOnly, <2>7, <2>8
      DEF OverIsNotLive, AtFirst, BeforeFirstHook, ConnectHookRan, Working,
       Undecided, Deciding, Concluding, Told, Unended, Has
  <2>17. FoundOut'
    BY <1>0, <2>1, <2>3, <2>5, ConnectingOnly, IdleOnly, <2>8, <2>7, Served
      DEF FoundOut, BothErrored, GoneIsLast, GivenUp, Over, StatesKnown,
       SentLater, StreamsAreMarked, Working, Undecided, Deciding, Concluding
  <2>18. GivenUp'
    BY <1>0, <2>1, <2>3, <2>5, ConnectingOnly, IdleOnly, <2>8, <2>7
      DEF GivenUp, Over, GoneIsLast, FoundOut, BothErrored, StatesKnown,
       SentLater, Working, Undecided, Deciding, Concluding
  <2>19. OutcomeDecides'
    BY <1>0, <2>1, <2>3, <2>5, ConnectingOnly, IdleOnly, <2>8, <2>7, <1>o
      DEF OutcomeDecides, Over, StatesKnown, GivenUp, SentLater, Working,
       Undecided, Deciding, Concluding
  <2>20. SentLater' /\ ChunksCounted'
    BY <1>0, <2>1, <2>8 DEF SentLater, ChunksCounted
  <2>21. QED
    BY <2>13, <2>14, <2>15, <2>16, <2>17, <2>18, <2>19, <2>20 DEF IInv
<1>81. CASE RefuseConnect
  <2>1. /\ cstate' = "errored"
        /\ UNCHANGED <<sstate, body, queue, toServer, hooks, dropped, passthrough, client,
                    server, bodyless, chunks>>
    BY <1>81 DEF RefuseConnect, At, ends, peers
  <2>2. todo # << >> /\ Head(todo) = "refuse_connect"
    BY <1>81 DEF RefuseConnect, At
  <2>3. /\ todo # << >>
        /\ todo = <<"refuse_connect">>
        /\ todo \in Connecting
    BY <1>t, <2>2, Whereabouts DEF Connecting
  <2>4. todo' = Tail(todo)
    BY <1>t, <1>81, <2>3, Thens DEF RefuseConnect, At, Then
  <2>5. todo' = << >>
    BY <1>81, <2>3, <2>4
  <2>6. flow' = [flow EXCEPT !.live = FALSE]
    BY <1>81, <2>3 DEF RefuseConnect
  <2>7. /\ flow' \in Flows
        /\ flow'.live = FALSE
        /\ "request" \in flow.stream => "request" \in flow'.stream
    BY <1>t, <2>6 DEF Flows, Sides
  <2>8. Outcomes' = Outcomes /\ (Overtaken => Overtaken') /\ Sent' = Sent
    BY <2>1, <2>7 DEF Outcomes, Overtaken, Sent
  <2>9. todo' \in Programs
    BY <2>5 DEF Programs, Working, Undecided, Deciding, Concluding
  <2>10. todo' \in Seq(Steps)
    BY <2>9, ProgramsAreSteps
  <2>11. toClient' \in Seq(ResponseEvents \cup {"ResponseError"})
    BY <1>t, <2>1, <1>81, ConnectResponds
      DEF RefuseConnect, ConnectResponse, ToClient
  <2>12. cstate' \in {"wait", "consume", "stream", "done", "errored"}
    BY <1>t, <2>1
  <2>13. TypeOK' /\ ProgramsOnly'
    BY <1>0, <2>1, <2>7, <2>10, <2>11, <2>12, <2>9 DEF TypeOK, ProgramsOnly
  <2>14. StatesKnown' /\ StreamsAreMarked'
    BY <1>0, <2>1, <2>3, <2>5, ConnectingOnly, IdleOnly, <2>7, <2>8
      DEF StatesKnown, Over, SentLater, StreamsAreMarked, Working, Undecided,
       Deciding, Concluding
  <2>15. SentLater'
    BY <1>0, <2>1, <2>3, <2>5, ConnectingOnly, IdleOnly, <2>8
      DEF SentLater, StatesKnown, Over, Working, Undecided, Deciding, Concluding
  <2>16. AtFirst' /\ BeforeFirstHook' /\ GoneIsLast'
    BY <1>0, <2>1, <2>3, <2>5, ConnectingOnly, IdleOnly, <2>8
      DEF AtFirst, StatesKnown, Over, BeforeFirstHook, GoneIsLast, Working,
       Undecided, Deciding, Concluding
  <2>17. OverIsNotLive' /\ ConnectHookRan'
    BY <1>0, <2>1, <2>3, <2>5, ConnectingOnly, IdleOnly, <2>7, <2>8
      DEF OverIsNotLive, AtFirst, BeforeFirstHook, ConnectHookRan, Working,
       Undecided, Deciding, Concluding, Told, Unended, Has
  <2>18. FoundOut'
    BY <1>0, <2>1, <2>3, <2>5, ConnectingOnly, IdleOnly, <2>8, <2>7, Served
      DEF FoundOut, BothErrored, GoneIsLast, GivenUp, Over, StatesKnown,
       SentLater, StreamsAreMarked, Working, Undecided, Deciding, Concluding
  <2>19. GivenUp'
    BY <1>0, <2>1, <2>3, <2>5, ConnectingOnly, IdleOnly, <2>8, <2>7
      DEF GivenUp, Over, GoneIsLast, FoundOut, BothErrored, StatesKnown,
       SentLater, Working, Undecided, Deciding, Concluding
  <2>20. OutcomeDecides'
    BY <1>0, <2>1, <2>3, <2>5, ConnectingOnly, IdleOnly, <2>8, <2>7, <1>o
      DEF OutcomeDecides, Over, StatesKnown, GivenUp, SentLater, Working,
       Undecided, Deciding, Concluding
  <2>21. ChunksCounted'
    BY <1>0, <2>1, <2>8 DEF ChunksCounted
  <2>22. QED
    BY <2>13, <2>14, <2>15, <2>16, <2>17, <2>18, <2>19, <2>20, <2>21 DEF IInv
<1>82. CASE ClientSteps
  <2>1. ASSUME NEW e \in RequestEvents, NEW from, NEW to \in {"open", "trailers", "ended"},
               ClientSends(e, from, to), "gone" \notin from,
               "idle" \in from => e = "RequestHeaders",
               e # "RequestData", UNCHANGED chunks
        PROVE  IInv'
    BY <1>t, <2>1, <1>1
  <2>2. CASE ClientHeaders \/ ClientTrailers \/ ClientEnds
    BY <2>1, <2>2 DEF ClientHeaders, ClientTrailers, ClientEnds, RequestEvents
  <2>3. CASE ClientLeaves
    BY <2>3, <1>2 DEF ClientLeaves
  <2>4. CASE ClientData
    <3>1. /\ chunks' \in [Sides -> 0..MaxChunks] /\ chunks'["response"] = chunks["response"]
          /\ chunks'["request"] = chunks["request"] + 1
      BY <1>t, <2>4 DEF ClientData, MoreChunks, Sides
    <3>2. ClientSends("RequestData", {"open"}, "open")
      BY <2>4 DEF ClientData
    <3>3. QED
      BY <3>1, <3>2, <1>1 DEF RequestEvents
  <2>5. QED
    BY <1>82, <2>2, <2>3, <2>4 DEF ClientSteps
<1>83. CASE ServerSteps
  <2>1. ASSUME NEW e \in ResponseEvents, NEW from,
               NEW to \in {"open", "trailers", "early", "ended"},
               ServerSends(e, from, to), "gone" \notin from,
               e # "ResponseData", UNCHANGED chunks
        PROVE  IInv'
    BY <1>t, <2>1, <1>3
  <2>2. CASE ServerHeaders \/ ServerTrailers \/ ServerEnds
    BY <2>1, <2>2 DEF ServerHeaders, ServerTrailers, ServerEnds, ResponseEvents
  <2>3. CASE ServerFails
    BY <2>3, <1>4 DEF ServerFails
  <2>4. CASE ServerData
    <3>1. /\ chunks' \in [Sides -> 0..MaxChunks] /\ chunks'["request"] = chunks["request"]
          /\ chunks'["response"] = chunks["response"] + 1
      BY <1>t, <2>4 DEF ServerData, MoreChunks, Sides
    <3>2. ServerSends("ResponseData", {"open"}, "open")
      BY <2>4 DEF ServerData
    <3>3. QED
      BY <3>1, <3>2, <1>3 DEF ResponseEvents
  <2>5. QED
    BY <1>83, <2>2, <2>3, <2>4 DEF ServerSteps
<1>84. CASE HookEnds
  <2>1. /\ todo # << >> /\ Head(todo) \in Hooks /\ flow' \in Changed(Head(todo))
        /\ hooks' = Append(hooks, Head(todo)) /\ todo' = Tail(todo)
        /\ UNCHANGED <<cstate, sstate, body, queue, toClient, toServer, dropped>>
        /\ UNCHANGED <<passthrough, client, server, bodyless, chunks>>
    BY <1>84 DEF HookEnds, states, sent, ends, peers
  <2>2. OnlyMoves
    BY <1>t, <2>1, ChangedHow DEF OnlyMoves, KeepsLife
  <2>3. /\ hooks' \in Seq(Hooks) /\ hooks' # << >>
        /\ Range(hooks') = Range(hooks) \cup {Head(todo)}
    BY <1>t, <2>1, HookRuns
  <2>4. Outcomes' = IF Head(todo) \in {"error", "response"} THEN Outcomes + 1 ELSE Outcomes
    BY <1>t, <2>1, HookRuns DEF Outcomes
  <2>5. ASSUME GoesOn, Head(todo) \notin {"error", "response"},
               todo \in Asked => Head(todo) = "http_connect"
        PROVE  IInv'
    BY <2>2, <2>3, <2>4, <2>5, Moving DEF Has
  <2>6. ASSUME Decides, Head(todo) \in {"error", "response"}
        PROVE  IInv'
    <3>1. todo \notin Announced \cup Invalid \cup Asked
      BY <2>6, ResponseHookOnly, OpeningErrorOnly, RefusalErrorOnly, KillErrorOnly,
         RequestErrorHookOnly, ResponseErrorHookOnly
        DEF Decides, From
    <3>2. QED
      BY <2>2, <2>3, <2>4, <2>6, <3>1, Moving
  <2>7. CASE Head(todo) = "requestheaders"
    <3>1. todo \in {<<"requestheaders", "begin_request">>,
                   <<"requestheaders", "request_too_large">>,
                   <<"requestheaders", "error", "reject">>}
      BY <1>t, <2>1, <2>7, Whereabouts
    <3>2. CASE todo = <<"requestheaders", "begin_request">>
      <4>1. todo' = <<"begin_request">>
        BY <2>1, <3>2
      <4>2. From(Announced, Beginning)
        BY <3>2, <4>1 DEF From, Announced, Beginning
      <4>3. QED
        BY <2>5, <2>7, <4>2, AnnouncedOnly DEF GoesOn, From
    <3>3. CASE todo = <<"requestheaders", "request_too_large">>
      <4>1. todo' = <<"request_too_large">>
        BY <2>1, <3>3
      <4>2. From(Announced, Beginning)
        BY <3>3, <4>1 DEF From, Announced, Beginning
      <4>3. QED
        BY <2>5, <2>7, <4>2, AnnouncedOnly DEF GoesOn, From
    <3>4. CASE todo = <<"requestheaders", "error", "reject">>
      <4>1. todo' = <<"error", "reject">>
        BY <2>1, <3>4
      <4>2. From(Invalid, KillError)
        BY <3>4, <4>1 DEF From, Invalid, KillError
      <4>3. QED
        BY <2>5, <2>7, <4>2, InvalidOnly DEF GoesOn, From
    <3>5. QED
      BY <3>1, <3>2, <3>3, <3>4
  <2>8. CASE Head(todo) = "request"
    <3>1. todo \in {<<"request", "route_request">>, <<"request", "end_request">>}
      BY <1>t, <2>1, <2>8, Whereabouts
    <3>2. CASE todo = <<"request", "route_request">>
      <4>1. todo' = <<"route_request">>
        BY <2>1, <3>2
      <4>2. From(Routing, Routing)
        BY <3>2, <4>1 DEF From, Routing
      <4>3. QED
        BY <2>5, <2>8, <4>2, RoutingOnly DEF GoesOn, From
    <3>3. CASE todo = <<"request", "end_request">>
      <4>1. todo \in Ending
        BY <3>3 DEF Ending
      <4>2. QED
        BY <1>84, <1>7, <4>1
    <3>4. QED
      BY <3>1, <3>2, <3>3
  <2>9. CASE Head(todo) = "responseheaders"
    <3>1. todo \in {<<"responseheaders", "inline_response">>,
                   <<"responseheaders", "begin_response">>,
                   <<"responseheaders", "response_too_large">>}
      BY <1>t, <2>1, <2>9, Whereabouts
    <3>2. CASE todo = <<"responseheaders", "inline_response">>
      <4>1. todo' = <<"inline_response">>
        BY <2>1, <3>2
      <4>2. From(Routing, Routing)
        BY <3>2, <4>1 DEF From, Routing
      <4>3. QED
        BY <2>5, <2>9, <4>2, RoutingOnly DEF GoesOn, From
    <3>3. CASE todo = <<"responseheaders", "begin_response">>
      <4>1. todo' = <<"begin_response">>
        BY <2>1, <3>3
      <4>2. From(Responding, Responding)
        BY <3>3, <4>1 DEF From, Responding
      <4>3. QED
        BY <2>5, <2>9, <4>2, RespondingOnly DEF GoesOn, From
    <3>4. CASE todo = <<"responseheaders", "response_too_large">>
      <4>1. todo' = <<"response_too_large">>
        BY <2>1, <3>4
      <4>2. From(Responding, Responding)
        BY <3>4, <4>1 DEF From, Responding
      <4>3. QED
        BY <2>5, <2>9, <4>2, RespondingOnly DEF GoesOn, From
    <3>5. QED
      BY <3>1, <3>2, <3>3, <3>4
  <2>10. CASE Head(todo) = "response"
    <3>1. todo \in {<<"response", "finish_response">>}
      BY <1>t, <2>1, <2>10, Whereabouts
    <3>2. CASE todo = <<"response", "finish_response">>
      <4>1. todo' = <<"finish_response">>
        BY <2>1, <3>2
      <4>2. From(ResponseHook, Finishing)
        BY <3>2, <4>1 DEF From, ResponseHook, Finishing
      <4>3. QED
        BY <2>6, <2>10, <4>2 DEF Decides
    <3>3. QED
      BY <3>1, <3>2
  <2>11. CASE Head(todo) = "error"
    <3>1. todo \in {<<"error", "close_after_ResponseError", "abandon_request", "expect_response">>,
                   <<"error", "close_after_ResponseError", "abandon_request", "replay_request">>,
                   <<"error", "refuse_request">>, <<"error", "kill">>,
                   <<"error", "reject">>, <<"error", "refuse_response">>,
                   <<"error", "close_after_RequestError">>,
                   <<"error", "close_after_ResponseError">>}
      BY <1>t, <2>1, <2>11, Whereabouts
    <3>2. CASE todo = <<"error", "close_after_ResponseError", "abandon_request", "expect_response">>
      <4>1. todo' = <<"close_after_ResponseError", "abandon_request", "expect_response">>
        BY <2>1, <3>2
      <4>2. From(OpeningError, OpeningFailed)
        BY <3>2, <4>1 DEF From, OpeningError, OpeningFailed
      <4>3. QED
        BY <2>6, <2>11, <4>2 DEF Decides
    <3>3. CASE todo = <<"error", "close_after_ResponseError", "abandon_request", "replay_request">>
      <4>1. todo' = <<"close_after_ResponseError", "abandon_request", "replay_request">>
        BY <2>1, <3>3
      <4>2. From(OpeningError, OpeningFailed)
        BY <3>3, <4>1 DEF From, OpeningError, OpeningFailed
      <4>3. QED
        BY <2>6, <2>11, <4>2 DEF Decides
    <3>4. CASE todo = <<"error", "refuse_request">>
      <4>1. todo' = <<"refuse_request">>
        BY <2>1, <3>4
      <4>2. From(RefusalError, Refusing)
        BY <3>4, <4>1 DEF From, RefusalError, Refusing
      <4>3. QED
        BY <2>6, <2>11, <4>2 DEF Decides
    <3>5. CASE todo = <<"error", "kill">>
      <4>1. todo' = <<"kill">>
        BY <2>1, <3>5
      <4>2. From(KillError, Killing)
        BY <3>5, <4>1 DEF From, KillError, Killing
      <4>3. QED
        BY <2>6, <2>11, <4>2 DEF Decides
    <3>6. CASE todo = <<"error", "reject">>
      <4>1. todo' = <<"reject">>
        BY <2>1, <3>6
      <4>2. From(KillError, Killing)
        BY <3>6, <4>1 DEF From, KillError, Killing
      <4>3. QED
        BY <2>6, <2>11, <4>2 DEF Decides
    <3>7. CASE todo = <<"error", "refuse_response">>
      <4>1. todo' = <<"refuse_response">>
        BY <2>1, <3>7
      <4>2. From(KillError, Killing)
        BY <3>7, <4>1 DEF From, KillError, Killing
      <4>3. QED
        BY <2>6, <2>11, <4>2 DEF Decides
    <3>8. CASE todo = <<"error", "close_after_RequestError">>
      <4>1. todo' = <<"close_after_RequestError">>
        BY <2>1, <3>8
      <4>2. From(RequestErrorHook, AfterRequestError)
        BY <3>8, <4>1 DEF From, RequestErrorHook, AfterRequestError
      <4>3. QED
        BY <2>6, <2>11, <4>2 DEF Decides
    <3>9. CASE todo = <<"error", "close_after_ResponseError">>
      <4>1. todo' = <<"close_after_ResponseError">>
        BY <2>1, <3>9
      <4>2. From(ResponseErrorHook, AfterResponseError)
        BY <3>9, <4>1 DEF From, ResponseErrorHook, AfterResponseError
      <4>3. QED
        BY <2>6, <2>11, <4>2 DEF Decides
    <3>10. QED
      BY <3>1, <3>2, <3>3, <3>4, <3>5, <3>6, <3>7, <3>8, <3>9
  <2>12. CASE Head(todo) = "http_connect"
    <3>1. todo \in {<<"http_connect", "handle_connect">>}
      BY <1>t, <2>1, <2>12, Whereabouts
    <3>2. CASE todo = <<"http_connect", "handle_connect">>
      <4>1. todo' = <<"handle_connect">>
        BY <2>1, <3>2
      <4>2. From(Asked, Connecting)
        BY <3>2, <4>1 DEF From, Asked, Connecting
      <4>3. QED
        BY <2>5, <2>12, <4>2 DEF GoesOn, From
    <3>3. QED
      BY <3>1, <3>2
  <2>13. CASE Head(todo) = "http_connected"
    <3>1. todo \in {<<"http_connected", "tunnel">>}
      BY <1>t, <2>1, <2>13, Whereabouts
    <3>2. CASE todo = <<"http_connected", "tunnel">>
      <4>1. todo' = <<"tunnel">>
        BY <2>1, <3>2
      <4>2. From(Connecting, Connecting)
        BY <3>2, <4>1 DEF From, Connecting
      <4>3. QED
        BY <2>5, <2>13, <4>2, ConnectingOnly DEF GoesOn, From
    <3>3. QED
      BY <3>1, <3>2
  <2>14. CASE Head(todo) = "http_connect_error"
    <3>1. todo \in {<<"http_connect_error", "refuse_connect">>}
      BY <1>t, <2>1, <2>14, Whereabouts
    <3>2. CASE todo = <<"http_connect_error", "refuse_connect">>
      <4>1. todo' = <<"refuse_connect">>
        BY <2>1, <3>2
      <4>2. From(Connecting, Connecting)
        BY <3>2, <4>1 DEF From, Connecting
      <4>3. QED
        BY <2>5, <2>14, <4>2, ConnectingOnly DEF GoesOn, From
    <3>3. QED
      BY <3>1, <3>2
  <2>15. QED
    BY <2>1, <2>7, <2>8, <2>9, <2>10, <2>11, <2>12, <2>13, <2>14 DEF Hooks
<1>85. CASE Connected
  <2>1. todo # << >> /\ (Head(todo) = "get_connection" \/ Head(todo) = "open_connection")
    BY <1>85 DEF Connected, At
  <2>2. CASE Head(todo) = "get_connection"
    <3>1. todo \in Opening \cup Reopening \cup Routing
      BY <1>t, <2>1, <2>2, Whereabouts DEF Opening, Reopening, Routing
    <3>2. QED
      BY <1>85, <2>2, <3>1, <1>8, <1>9, <1>10
  <2>3. CASE Head(todo) = "open_connection"
    <3>1. todo \in Connecting
      BY <1>t, <2>1, <2>3, Whereabouts DEF Connecting
    <3>2. QED
      BY <1>85, <2>3, <3>1, <1>11
  <2>4. QED
    BY <2>1, <2>2, <2>3
<1>86. CASE NotConnected
  <2>1. todo # << >> /\ (Head(todo) = "get_connection" \/ Head(todo) = "open_connection")
    BY <1>86 DEF NotConnected, At
  <2>2. CASE Head(todo) = "get_connection"
    <3>1. todo \in Opening \cup Reopening \cup Routing
      BY <1>t, <2>1, <2>2, Whereabouts DEF Opening, Reopening, Routing
    <3>2. QED
      BY <1>86, <2>2, <3>1, <1>12, <1>13, <1>14
  <2>3. CASE Head(todo) = "open_connection"
    <3>1. todo \in Connecting
      BY <1>t, <2>1, <2>3, Whereabouts DEF Connecting
    <3>2. QED
      BY <1>86, <2>3, <3>1, <1>15
  <2>4. QED
    BY <2>1, <2>2, <2>3
<1>87. CASE CheckKilled
  <2>1. todo # << >> /\ Head(todo) \in {"begin_request", "route_request", "inline_response",
               "begin_response", "finish_response", "handle_connect"}
    BY <1>87 DEF CheckKilled, Checked, CheckedLoudly, CheckedQuietly
  <2>2. CASE Head(todo) = "begin_request"
    <3>1. todo \in Beginning
      BY <1>t, <2>1, <2>2, Whereabouts DEF Beginning
    <3>2. QED
      BY <1>87, <2>2, <3>1, <1>16
  <2>3. CASE Head(todo) = "route_request"
    <3>1. todo \in Routing
      BY <1>t, <2>1, <2>3, Whereabouts DEF Routing
    <3>2. QED
      BY <1>87, <2>3, <3>1, <1>17
  <2>4. CASE Head(todo) = "inline_response"
    <3>1. todo \in Routing
      BY <1>t, <2>1, <2>4, Whereabouts DEF Routing
    <3>2. QED
      BY <1>87, <2>4, <3>1, <1>17
  <2>5. CASE Head(todo) = "begin_response"
    <3>1. todo \in Responding
      BY <1>t, <2>1, <2>5, Whereabouts DEF Responding
    <3>2. QED
      BY <1>87, <2>5, <3>1, <1>18
  <2>6. CASE Head(todo) = "finish_response"
    <3>1. todo \in Finishing
      BY <1>t, <2>1, <2>6, Whereabouts DEF Finishing
    <3>2. QED
      BY <1>87, <2>6, <3>1, <1>19
  <2>7. CASE Head(todo) = "handle_connect"
    <3>1. todo \in Connecting
      BY <1>t, <2>1, <2>7, Whereabouts DEF Connecting
    <3>2. QED
      BY <1>87, <2>7, <3>1, <1>20
  <2>8. QED
    BY <2>1, <2>2, <2>3, <2>4, <2>5, <2>6, <2>7
<1>88. CASE Reject
  <2>1. todo # << >> /\ (Head(todo) = "kill" \/ Head(todo) = "reject")
    BY <1>88 DEF Reject, At
  <2>2. CASE Head(todo) = "kill"
    <3>1. todo \in Killing
      BY <1>t, <2>1, <2>2, Whereabouts DEF Killing
    <3>2. QED
      BY <1>88, <2>2, <3>1, <1>21
  <2>3. CASE Head(todo) = "reject"
    <3>1. todo \in Killing
      BY <1>t, <2>1, <2>3, Whereabouts DEF Killing
    <3>2. QED
      BY <1>88, <2>3, <3>1, <1>21
  <2>4. QED
    BY <2>1, <2>2, <2>3
<1>89. CASE StreamRequest
  <2>1. todo # << >> /\ Head(todo) = "stream_request"
    BY <1>89 DEF StreamRequest, At
  <2>2. CASE Head(todo) = "stream_request"
    <3>1. todo \in Opening \cup Reopening
      BY <1>t, <2>1, <2>2, Whereabouts DEF Opening, Reopening
    <3>2. QED
      BY <1>89, <2>2, <3>1, <1>39, <1>40
  <2>3. QED
    BY <2>1, <2>2
<1>90. ASSUME NEW e \in Errors, CloseAfter(e)
      PROVE  IInv'
  <2>1. CASE e = "RequestError"
    <3>1. todo # << >> /\ Head(todo) = "close_after_RequestError"
      BY <1>90, <2>1 DEF CloseAfter, CloseAfterError, At
    <3>2. todo \in AfterRequestError
      BY <1>t, <3>1, Whereabouts DEF AfterRequestError
    <3>3. QED
      BY <1>90, <2>1, <3>2, <1>27, <1>30
  <2>2. CASE e = "ResponseError"
    <3>1. todo # << >> /\ Head(todo) = "close_after_ResponseError"
      BY <1>90, <2>2 DEF CloseAfter, CloseAfterError, At
    <3>2. todo \in OpeningFailed \cup AfterResponseError
      BY <1>t, <3>1, Whereabouts DEF OpeningFailed, AfterResponseError
    <3>3. QED
      BY <1>90, <2>2, <3>2, <1>28, <1>29, <1>31, <1>32
  <2>3. QED
    BY <1>90, <2>1, <2>2 DEF Errors
<1>91. ASSUME NEW e \in Errors, HandleError(e)
      PROVE  IInv'
  BY <1>91, <1>22, <1>23, <1>24, <1>25, <1>26 DEF Errors
<1>92. CASE RequestHeaders
  BY <1>92, RequestHeadersCases, <1>33, <1>34, <1>35, <1>36
<1>93. CASE BeginRequest
  BY <1>93, <1>37, <1>38
<1>94. CASE ReplayRequest
  BY <1>94, <1>43, <1>44
<1>95. CASE RequestEnd
  BY <1>95, <1>52, <1>53 DEF RequestEnd
<1>96. CASE EndRequest
  BY <1>96, <1>56, <1>57, <1>58, <1>59
<1>97. CASE BeginResponse
  BY <1>97, <1>63, <1>64
<1>98. CASE FinishResponse
  BY <1>98, <1>74, <1>75, <1>76, <1>77
<1>99. CASE ConsumeRequestData
  <2>1. \/ todo' = << >>
        \/ todo' = <<"get_connection", "stream_request", "replay_request">>
        \/ todo' = <<"error", "refuse_request">>
    BY <1>99 DEF ConsumeRequestData, Handle
  <2>2. QED
    BY <1>99, <2>1, <1>47, <1>48, <1>49
<1>100. CASE ResponseHeaders
  <2>1. \/ todo' = <<"responseheaders", "response_too_large">>
        \/ todo' = <<"error", "reject">>
        \/ todo' = <<"responseheaders", "begin_response">>
    BY <1>100 DEF ResponseHeaders
  <2>2. QED
    BY <1>100, <2>1, <1>60, <1>61, <1>62
<1>101. CASE ConsumeResponseData
  <2>1. \/ todo' = << >> /\ sstate' = "consume"
        \/ sstate' = "stream"
        \/ todo' = <<"error", "refuse_response">>
    BY <1>101 DEF ConsumeResponseData, Handle
  <2>2. QED
    BY <1>101, <2>1, <1>67, <1>68, <1>69
<1>102. CASE UNCHANGED vars
  BY <1>0, <1>102
    DEF IInv, TypeOK, ProgramsOnly, StatesKnown, SentLater, StreamsAreMarked,
     AtFirst, BeforeFirstHook, GoneIsLast, FoundOut, GivenUp, OutcomeDecides,
     OverIsNotLive, ChunksCounted, ConnectHookRan, vars, Sent, Told, Unended,
     Over, Outcomes, Overtaken, BothErrored, Has
<1>103. QED
  BY <1>82, <1>83, <1>84, <1>85, <1>86, <1>87, <1>88, <1>89, <1>90, <1>91,
     <1>92, <1>93, <1>94, <1>95, <1>96, <1>97, <1>98, <1>99, <1>100, <1>101,
     <1>5, <1>6, <1>41, <1>42, <1>45, <1>46, <1>50, <1>51, <1>54, <1>55, <1>65,
     <1>66, <1>70, <1>71, <1>72, <1>73, <1>78, <1>79, <1>80, <1>81, <1>102
    DEF Next, Stream, Request, Response, Connect, Failure, Answers, ClientSteps,
     ServerSteps, Errors


-----------------------------------------------------------------------------
LEMMA InitInv == Init => IInv
<1> SUFFICES ASSUME Init PROVE IInv
  OBVIOUS
<1>1. /\ cstate = "wait" /\ sstate = "uninitialized" /\ todo = << >> /\ queue = << >>
      /\ toClient = << >> /\ toServer = << >> /\ hooks = << >> /\ client = "idle"
      /\ server = "idle" /\ dropped = FALSE /\ passthrough = FALSE
      /\ bodyless \subseteq Sides /\ flow.live = FALSE /\ "request" \notin flow.stream
  BY DEF Init
<1>2. ~Sent /\ ~Told
  BY <1>1, RangeEmpty DEF Sent, Told, Unended, Has
<1>3. /\ ~Left(queue) /\ ~FromServer(queue) /\ ~Responded(queue)
      /\ NothingAfterEnd(queue) /\ ~ServedAfterEnd(queue)
  BY <1>1, NothingEmpty
<1>4. /\ Count(queue, "RequestData") = 0 /\ Count(queue, "ResponseData") = 0
      /\ Count(hooks, "error") = 0 /\ Count(hooks, "response") = 0
  BY <1>1, CountEmpty
<1>5. TypeOK
  <2>1. flow \in Flows
    BY DEF Init, Flows, Sides
  <2>2. body \in [Sides -> 0..MaxChunks] /\ chunks \in [Sides -> 0..MaxChunks]
    BY HttpStreamAssumption DEF Init
  <2>3. /\ todo \in Seq(Steps) /\ queue \in Seq(Events) /\ hooks \in Seq(Hooks)
        /\ toClient \in Seq(ResponseEvents \cup {"ResponseError"})
        /\ toServer \in Seq(RequestEvents \cup {"RequestError"})
    BY <1>1
  <2>4. QED
    BY <1>1, <2>1, <2>2, <2>3 DEF TypeOK
<1>6. ProgramsOnly /\ StatesKnown /\ SentLater /\ AtFirst /\ BeforeFirstHook
  BY <1>1, <1>2, <1>3, IdleOnly
    DEF ProgramsOnly, Programs, StatesKnown, Over, SentLater, AtFirst, BeforeFirstHook,
        Working, Undecided, Deciding, Concluding
<1>7. StreamsAreMarked /\ GoneIsLast /\ FoundOut /\ ConnectHookRan
  BY <1>1, <1>3, IdleOnly
    DEF StreamsAreMarked, GoneIsLast, FoundOut, ConnectHookRan,
        Working, Undecided, Deciding, Concluding
<1>8. GivenUp /\ OutcomeDecides
  BY <1>1, <1>4, IdleOnly
    DEF GivenUp, OutcomeDecides, Outcomes, Working, Undecided, Deciding, Concluding
<1>9. OverIsNotLive
  BY <1>1 DEF OverIsNotLive
<1>10. ChunksCounted
  <2>1. body["request"] = 0 /\ body["response"] = 0 /\ chunks["request"] = 0
        /\ chunks["response"] = 0
    BY DEF Init, Sides
  <2>2. QED
    BY <1>4, <2>1 DEF ChunksCounted
<1>11. QED
  BY <1>5, <1>6, <1>7, <1>8, <1>9, <1>10 DEF IInv

(* What the generator does next, and what the peers have sent and seen, fit *)
(* together in every reachable state.                                       *)
THEOREM HttpInvariant == Spec => []IInv
<1>1. Init => IInv
  BY InitInv
<1>2. IInv /\ [Next]_vars => IInv'
  BY StepInv
<1>3. QED
  BY <1>1, <1>2, PTL DEF Spec

(* Whatever peers, addons and the user do, and in whatever order, a flow    *)
(* gets its error or its response hook once, but for the request that is    *)
(* overtaken, and when the client was told the end, the flow is not live.   *)
THEOREM FlowHasOneOutcome == Spec => []OneOutcomeEndsLife
<1>1. IInv => OneOutcomeEndsLife
  BY DEF IInv, OutcomeDecides, OneOutcomeEndsLife, OneOutcome
<1>2. QED
  BY <1>1, HttpInvariant, PTL

-----------------------------------------------------------------------------
\* A step does not complete the response.
Silent == Has(toClient', "ResponseEnd") => Has(toClient, "ResponseEnd")

LEMMA Unanswered ==
  ASSUME toClient \in Seq(ToClient)
  PROVE  /\ UNCHANGED toClient => Silent
         /\ \A e \in ToClient \ {"ResponseEnd"} : toClient' = Append(toClient, e) => Silent
<1>1. ASSUME NEW e \in ToClient \ {"ResponseEnd"}, toClient' = Append(toClient, e)
      PROVE  Silent
  <2>1. Range(toClient') = Range(toClient) \cup {e}
    BY <1>1, RangeAppend
  <2>2. QED
    BY <2>1 DEF Silent, Has
<1>2. QED
  BY <1>1 DEF Silent, Has

LEMMA KilledStep ==
  ASSUME IInv, Next, flow.error = "killed", sstate # "done", ~Has(hooks, "http_connect")
  PROVE  Silent
<1>1. toClient \in Seq(ToClient) /\ todo \in Programs /\ body["response"] \in Nat
  BY HttpStreamAssumption DEF IInv, TypeOK, ToClient, ProgramsOnly, Sides
<1>2. Killed
  BY DEF Killed
<1>3. CASE UNCHANGED toClient
  BY <1>1, <1>3, Unanswered
<1>4. ASSUME NEW e \in ToClient \ {"ResponseEnd"}, toClient' = Append(toClient, e)
      PROVE  Silent
  BY <1>1, <1>4, Unanswered
<1>5. CASE Request
  <2>1. UNCHANGED toClient \/ toClient' = Append(toClient, "ResponseError")
    BY <1>5
      DEF Request, RequestHeaders, BeginRequest, StreamRequest, AbandonRequest,
          ExpectResponse, ReplayRequest, RequestTooLarge, RefuseRequest,
          ConsumeRequestData, StreamRequestData, RequestTrailers, RequestEnd,
          RouteRequest, ForwardRequest, EndRequest, sent
  <2>2. QED
    BY <1>3, <1>4, <2>1 DEF ToClient
<1>6. CASE Response
  <2>1. ~BeginResponse /\ ~FinishResponse
    BY <1>2 DEF BeginResponse, FinishResponse, Proceed, Checked, CheckedLoudly, CheckedQuietly
  <2>2. CASE ConsumeResponseData
    <3>1. CASE toClient' = FlushBuffered
      <4>1. Range(FlushBuffered) \subseteq Range(toClient) \cup {"ResponseHeaders", "ResponseData"}
        BY <1>1, Flushes
      <4>2. QED
        BY <3>1, <4>1 DEF Silent, Has
    <3>2. QED
      BY <1>3, <2>2, <3>1 DEF ConsumeResponseData
  <2>3. CASE ResponseHeaders \/ ResponseTooLarge \/ ResponseTrailers \/ ResponseEnd \/ InlineResponse
    BY <1>3, <2>3 DEF ResponseHeaders, ResponseTooLarge, ResponseTrailers, ResponseEnd,
                      InlineResponse, sent
  <2>4. CASE RefuseResponse \/ StreamResponseData
    BY <1>4, <2>4 DEF RefuseResponse, StreamResponseData, ToClient, ResponseEvents
  <2>5. QED
    BY <1>6, <2>1, <2>2, <2>3, <2>4 DEF Response
<1>7. CASE Connect
  <2>1. ~Tunnel /\ ~RefuseConnect
    <3>1. ASSUME Tunnel \/ RefuseConnect PROVE FALSE
      <4>1. todo # << >> /\ Head(todo) \in {"tunnel", "refuse_connect"}
        BY <3>1 DEF Tunnel, RefuseConnect, At
      <4>2. todo \in Connecting
        BY <1>1, <4>1, Whereabouts DEF Connecting
      <4>3. QED
        BY <4>2 DEF IInv, ConnectHookRan
    <3>2. QED
      BY <3>1
  <2>2. QED
    BY <1>3, <1>7, <2>1 DEF Connect, HandleConnect, FinishConnect, sent
<1>8. CASE Failure
  <2>1. UNCHANGED toClient \/ toClient' = Append(toClient, "ResponseError")
    BY <1>8 DEF Failure, CheckKilled, Reject, Swallow, HandleError, CloseAfter,
                ForwardError, sent
  <2>2. QED
    BY <1>3, <1>4, <2>1 DEF ToClient
<1>9. CASE Answers \/ UserKills
  BY <1>3, <1>9 DEF Answers, HookEnds, Connected, NotConnected, UserKills, sent
<1>10. CASE ClientSteps \/ ServerSteps
  BY <1>3, <1>10
    DEF ClientSteps, ClientHeaders, ClientTrailers, ClientEnds, ClientLeaves, ClientData,
        ServerSteps, ServerHeaders, ServerTrailers, ServerEnds, ServerFails, ServerData,
        ClientSends, ServerSends, Received, sent
<1>11. QED
  BY <1>5, <1>6, <1>7, <1>8, <1>9, <1>10 DEF Next, Stream

(* The response to a flow that was killed is not completed: no step of the  *)
(* generator or of a peer sends the end, whenever the kill came before the  *)
(* end of the response hook.                                                *)
THEOREM KilledGetsNoAnswer == Spec => KilledIsNotAnswered
<1>1. IInv /\ [Next]_vars =>
        [flow.error = "killed" /\ sstate # "done" /\ ~Has(hooks, "http_connect")
           => (Has(toClient', "ResponseEnd") => Has(toClient, "ResponseEnd"))]_vars
  BY KilledStep DEF Silent
<1>2. QED
  BY <1>1, HttpInvariant, PTL DEF Spec, KilledIsNotAnswered
=============================================================================
