----------------------------- MODULE HttpStream -----------------------------
(***************************************************************************)
(* HttpStream (mitmproxy/proxy/layers/http/__init__.py): one HTTP request  *)
(* and its response, between the HTTP connections of the client and of the *)
(* server.                                                                 *)
(*                                                                         *)
(* A generator of the stream is the sequence todo of the steps it has left.*)
(* It pauses at hooks and at commands with an answer (Blocking); events    *)
(* that arrive meanwhile wait in queue.  All other steps follow at once,   *)
(* so nothing arrives between them (Paused).  A return from the handler    *)
(* empties todo.  Where the code calls check_killed after a hook, the step *)
(* that follows the hook is in Checked.                                    *)
(*                                                                         *)
(* The bytes of a body are counted in chunks.  Whether a message is        *)
(* malformed, too large or to be streamed is chosen nondeterministically.  *)
(***************************************************************************)
EXTENDS Naturals, FiniteSets, SequencesExt

CONSTANTS
  MaxChunks,       \* bound on the chunks of both bodies
  Verdicts,        \* what check_body_size may find
  Connects,        \* may the request be a CONNECT?
  EarlyResponses   \* may the server respond before it has the whole request?

ASSUME HttpStreamAssumption ==
  /\ MaxChunks \in Nat
  /\ "fine" \in Verdicts /\ Verdicts \subseteq {"fine", "stream", "abort"}
  /\ Connects \in BOOLEAN /\ EarlyResponses \in BOOLEAN

Sides == {"request", "response"}
Hooks == {"requestheaders", "request", "responseheaders", "response", "error",
          "http_connect", "http_connected", "http_connect_error"}
Blocking == Hooks \cup {"get_connection", "open_connection"}

\* Steps that begin with check_killed(True) and with check_killed(False).
CheckedLoudly == {"begin_request", "route_request", "inline_response", "begin_response"}
\* Faulty variant: no check_killed after the response hook.
CheckedInConnect == {"handle_connect"}

CheckedQuietly == {"finish_response", "handle_connect"}
Checked == CheckedLoudly \cup CheckedQuietly

Steps == Blocking \cup Checked \cup
  {"stream_request", "expect_response", "replay_request", "abandon_request",
   "forward_request", "end_request", "request_too_large", "refuse_request",
   "response_too_large", "refuse_response", "reject", "kill", "finish_connect",
   "tunnel", "refuse_connect", "close_after_RequestError", "close_after_ResponseError"}

RequestEvents == {"RequestHeaders", "RequestData", "RequestTrailers", "RequestEnd"}
ResponseEvents == {"ResponseHeaders", "ResponseData", "ResponseTrailers", "ResponseEnd"}
Errors == {"RequestError", "ResponseError"}
Events == RequestEvents \cup ResponseEvents \cup Errors

VARIABLES
  cstate,       \* client_state
  sstate,       \* server_state
  flow,         \* self.flow, with the choice of streaming and the trailers
  body,         \* chunks in request_body_buf and response_body_buf, or in the message
  todo,         \* what the suspended generator has left to do
  queue,        \* _paused_event_queue
  toClient,     \* history: events sent to the client's HTTP connection
  toServer,     \* history: events sent to the server's HTTP connection
  hooks,        \* history: hooks that have ended
  dropped,      \* DropStream was sent: events no longer reach the stream
  passthrough,  \* _handle_event is passthrough
  client,       \* how far the client is
  server,       \* how far the server is
  bodyless,     \* messages whose headers say end_stream; never changes
  chunks        \* history: chunks received from each peer

states == <<cstate, sstate>>
sent == <<toClient, toServer>>
peers == <<client, server, bodyless, chunks>>
ends == <<dropped, passthrough>>
vars == <<cstate, sstate, flow, body, todo, queue, toClient, toServer, hooks,
          dropped, passthrough, client, server, bodyless, chunks>>

Flows == [live : BOOLEAN, error : {"none", "killed", "other"},
          response : {"none", "plain", "switching"}, stream : SUBSET Sides,
          trailers : SUBSET Sides]

TypeOK ==
  /\ cstate \in {"wait", "consume", "stream", "done", "errored"}
  /\ sstate \in {"uninitialized", "wait", "consume", "stream", "done", "errored"}
  /\ flow \in Flows
  /\ body \in [Sides -> 0..MaxChunks]
  /\ todo \in Seq(Steps)
  /\ queue \in Seq(Events)
  /\ toClient \in Seq(ResponseEvents \cup {"ResponseError"})
  /\ toServer \in Seq(RequestEvents \cup {"RequestError"})
  /\ hooks \in Seq(Hooks)
  /\ dropped \in BOOLEAN /\ passthrough \in BOOLEAN
  /\ client \in {"idle", "open", "trailers", "ended", "gone"}
  /\ server \in {"idle", "open", "trailers", "early", "ended", "gone"}
  /\ bodyless \subseteq Sides
  /\ chunks \in [Sides -> 0..MaxChunks]

\* Start was handled.
Init ==
  /\ cstate = "wait" /\ sstate = "uninitialized"
  /\ flow = [live |-> FALSE, error |-> "none", response |-> "none", stream |-> {},
             trailers |-> {}]
  /\ body = [s \in Sides |-> 0]
  /\ todo = << >> /\ queue = << >>
  /\ toClient = << >> /\ toServer = << >> /\ hooks = << >>
  /\ dropped = FALSE /\ passthrough = FALSE
  /\ client = "idle" /\ server = "idle"
  /\ bodyless \in SUBSET Sides
  /\ chunks = [s \in Sides |-> 0]

-----------------------------------------------------------------------------
\* The peers.  Their HTTP connections send the events of a message in order,
\* or a protocol error in place of what is left of it.

\* Between two events of the outside world: the generator is suspended, or idle.
Paused == IF todo = << >> THEN queue = << >> ELSE Head(todo) \in Blocking

Arrive(e) == Paused /\ ~dropped /\ queue' = Append(queue, e)
Received == UNCHANGED <<states, flow, body, todo, sent, hooks, ends, bodyless>>
Has(seq, e) == e \in Range(seq)

MoreChunks == chunks["request"] + chunks["response"] < MaxChunks

ClientSends(e, from, to) ==
  /\ client \in from /\ ~Has(toClient, "ResponseEnd")
  /\ Arrive(e) /\ client' = to
  /\ UNCHANGED server /\ Received

ClientHeaders == ClientSends("RequestHeaders", {"idle"}, "open") /\ UNCHANGED chunks
ClientTrailers ==
  /\ "request" \notin bodyless /\ UNCHANGED chunks
  /\ ClientSends("RequestTrailers", {"open"}, "trailers")
ClientEnds ==
  ClientSends("RequestEnd", {"open", "trailers"}, "ended") /\ UNCHANGED chunks
ClientLeaves ==
  ClientSends("RequestError", {"open", "trailers", "ended"}, "gone") /\ UNCHANGED chunks
ClientData ==
  /\ "request" \notin bodyless /\ MoreChunks
  /\ chunks' = [chunks EXCEPT !["request"] = @ + 1]
  /\ ClientSends("RequestData", {"open"}, "open")

ServerSends(e, from, to) ==
  /\ server \in from /\ Has(toServer, "RequestHeaders")
  /\ EarlyResponses \/ Has(toServer, "RequestEnd")
  /\ Arrive(e) /\ server' = to
  /\ UNCHANGED client /\ Received

ServerHeaders == ServerSends("ResponseHeaders", {"idle"}, "open") /\ UNCHANGED chunks
ServerTrailers ==
  /\ "response" \notin bodyless /\ UNCHANGED chunks
  /\ ServerSends("ResponseTrailers", {"open"}, "trailers")
\* The connection is done with the stream only when the request is sent, too.
ServerEnds ==
  /\ ServerSends("ResponseEnd", {"open", "trailers"},
                 IF Has(toServer, "RequestEnd") THEN "ended" ELSE "early")
  /\ UNCHANGED chunks
ServerFails ==
  /\ ServerSends("ResponseError", {"idle", "open", "trailers", "early"}, "gone")
  /\ UNCHANGED chunks
ServerData ==
  /\ "response" \notin bodyless /\ MoreChunks
  /\ chunks' = [chunks EXCEPT !["response"] = @ + 1]
  /\ ServerSends("ResponseData", {"open"}, "open")

ClientSteps == ClientHeaders \/ ClientData \/ ClientTrailers \/ ClientEnds \/ ClientLeaves
ServerSteps == ServerHeaders \/ ServerData \/ ServerTrailers \/ ServerEnds \/ ServerFails

-----------------------------------------------------------------------------
\* Killing, hooks and answers.

KilledByRemote == Has(queue, "RequestError")
Killed == flow.error = "killed" \/ KilledByRemote
Noted(f) == IF f.error = "none" THEN [f EXCEPT !.error = "other"] ELSE f

\* Flow.kill, at any time while the flow is killable.
UserKills ==
  /\ Paused
  /\ flow.live /\ flow.error # "killed"
  /\ flow' = [flow EXCEPT !.error = "killed", !.live = FALSE]
  /\ UNCHANGED <<states, body, todo, queue, sent, hooks, ends, peers>>

\* What addons leave of the flow: they may stream a message and set a response,
\* though not both for a request.
Changed(h) ==
  {flow} \cup
  CASE h = "requestheaders" /\ "request" \notin flow.stream ->
         {[flow EXCEPT !.stream = {"request"}], [flow EXCEPT !.response = "plain"]}
    [] h \in {"request", "http_connect"} -> {[flow EXCEPT !.response = "plain"]}
    [] h = "responseheaders" -> {[flow EXCEPT !.stream = @ \cup {"response"}]}
    [] OTHER -> {}

HookEnds ==
  /\ todo # << >> /\ Head(todo) \in Hooks
  /\ flow' \in Changed(Head(todo))
  /\ hooks' = Append(hooks, Head(todo))
  /\ todo' = Tail(todo)
  /\ UNCHANGED <<states, body, queue, sent, ends, peers>>

-----------------------------------------------------------------------------
\* Errors.

At(s) == todo # << >> /\ Head(todo) = s
Proceed(s) == At(s) /\ ~(s \in Checked /\ Killed)
Then(steps) == todo' = steps \o Tail(todo)
CloseAfterError(e) == IF e = "RequestError" THEN "close_after_RequestError"
                                            ELSE "close_after_ResponseError"

\* Faulty variant: no error hook.
KillSilently == <<"kill">>

KillSteps == IF Head(todo) \in CheckedLoudly THEN <<"error", "kill">> ELSE <<"kill">>

\* check_killed in the steps that call it first.
CheckKilled ==
  /\ todo # << >> /\ Head(todo) \in Checked /\ Killed
  /\ flow' = Noted(flow)
  /\ todo' = KillSteps
  /\ sstate' = IF At("finish_response") THEN "done" ELSE sstate
  /\ UNCHANGED <<cstate, body, queue, sent, hooks, ends, peers>>

\* Faulty variant: the flow stays live.
RejectLive ==
  /\ At("kill") \/ At("reject")
  /\ toClient' = Append(toClient, "ResponseError")
  /\ UNCHANGED flow
  /\ cstate' = "errored" /\ sstate' = "errored"
  /\ todo' = << >>
  /\ UNCHANGED <<body, queue, toServer, hooks, ends, peers>>

\* The end of check_killed and of check_invalid.
Reject ==
  /\ At("kill") \/ At("reject")
  /\ toClient' = Append(toClient, "ResponseError")
  /\ flow' = [flow EXCEPT !.live = FALSE]
  /\ cstate' = "errored" /\ sstate' = "errored"
  /\ todo' = << >>
  /\ UNCHANGED <<body, queue, toServer, hooks, ends, peers>>

\* The part of handle_protocol_error up to the error hook.
Talking == cstate \in {"stream", "done"} /\ sstate \notin {"done", "errored"}
NeedErrorHook == cstate # "errored" /\ sstate \notin {"done", "errored"}

ErrorSteps(e) ==
  (IF NeedErrorHook THEN <<"error">> ELSE << >>) \o <<CloseAfterError(e)>>
WithError(f) == IF NeedErrorHook THEN [f EXCEPT !.error = "other"] ELSE f

HandleError(e) ==
  /\ todo = << >> /\ queue # << >> /\ Head(queue) = e /\ ~passthrough
  /\ queue' = Tail(queue)
  /\ IF e = "RequestError" /\ Talking
     THEN /\ toServer' = Append(toServer, e) /\ server' = "gone"
          /\ cstate' = "errored"
     ELSE UNCHANGED <<toServer, server, cstate>>
  /\ flow' = WithError(flow)
  /\ todo' = ErrorSteps(e)
  /\ UNCHANGED <<sstate, body, toClient, hooks, ends, client, bodyless, chunks>>

ForwardError(e) ==
  IF e = "ResponseError" /\ cstate # "errored" THEN Append(toClient, e) ELSE toClient

\* The part after it.  A return of check_killed leaves only handle_protocol_error.
CloseAfter(e) ==
  /\ At(CloseAfterError(e))
  /\ IF Killed
     THEN /\ toClient' = Append(toClient, "ResponseError")
          /\ flow' = [Noted(flow) EXCEPT !.live = FALSE]
          /\ cstate' = "errored" /\ sstate' = "errored"
          /\ UNCHANGED dropped
     ELSE /\ toClient' = ForwardError(e)
          /\ sstate' = IF e = "ResponseError" THEN "errored" ELSE sstate
          /\ flow' = [flow EXCEPT !.live = FALSE]
          /\ dropped' = TRUE
          /\ UNCHANGED cstate
  /\ Then(<< >>)
  /\ UNCHANGED <<body, queue, toServer, hooks, passthrough, peers>>

\* make_server_connection, and OpenConnection in handle_connect_regular.
Connected ==
  /\ At("get_connection") \/ At("open_connection")
  /\ Then(<< >>)
  /\ UNCHANGED <<states, flow, body, queue, sent, hooks, ends, peers>>

NotConnected ==
  /\ \/ /\ At("get_connection")
        /\ flow' = WithError(flow)
        /\ todo' = ErrorSteps("ResponseError") \o
             (IF todo[2] = "stream_request"
              THEN <<"abandon_request">> \o SubSeq(todo, 3, Len(todo)) ELSE << >>)
     \/ /\ At("open_connection")
        /\ flow' = [flow EXCEPT !.response = "plain"]
        /\ Then(<< >>)
  /\ UNCHANGED <<states, body, queue, sent, hooks, ends, peers>>

-----------------------------------------------------------------------------
\* The request.

Handle(e) ==
  todo = << >> /\ queue # << >> /\ Head(queue) = e /\ ~passthrough /\ queue' = Tail(queue)
Copies(e, n) == [i \in 1..n |-> e]
Trailers(e, side) == IF side \in flow.trailers THEN <<e>> ELSE << >>

\* state_wait_for_request_headers
RequestHeaders ==
  /\ Handle("RequestHeaders") /\ cstate = "wait"
  /\ UNCHANGED <<body, sstate, toServer, hooks, ends, peers>>
  /\ \/ /\ flow' = [flow EXCEPT !.live = TRUE, !.error = "other"]   \* check_invalid
        /\ todo' = <<"requestheaders", "error", "reject">>
        /\ UNCHANGED <<cstate, toClient>>
     \/ /\ Connects
        /\ flow' = [flow EXCEPT !.live = TRUE]
        /\ cstate' = "done"
        /\ todo' = <<"http_connect", "handle_connect">>
        /\ UNCHANGED toClient
     \/ /\ flow' = [flow EXCEPT !.live = TRUE]   \* no host header
        /\ toClient' = Append(toClient, "ResponseError")
        /\ cstate' = "errored"
        /\ UNCHANGED todo
     \/ \E verdict \in IF "request" \in bodyless THEN {"fine"} ELSE Verdicts :
          /\ flow' = [flow EXCEPT !.live = TRUE,
                                  !.stream = IF verdict = "stream" THEN {"request"} ELSE {}]
          /\ todo' = <<"requestheaders">> \o
               (IF verdict = "abort" THEN <<"request_too_large">> ELSE <<"begin_request">>)
          /\ UNCHANGED <<cstate, toClient>>

\* The 100 Continue response, which no state depends on, is left out.
BeginRequest ==
  /\ Proceed("begin_request")
  /\ IF "request" \in flow.stream \ bodyless
     THEN /\ Then(<<"get_connection", "stream_request", "expect_response">>)
          /\ UNCHANGED states
     ELSE Then(<< >>) /\ cstate' = "consume" /\ sstate' = "wait"
  /\ UNCHANGED <<flow, body, queue, sent, hooks, ends, peers>>

\* The end of start_request_stream, and what follows it in its two callers.
StreamRequest ==
  /\ At("stream_request")
  /\ toServer' = Append(toServer, "RequestHeaders")
  /\ cstate' = "stream"
  /\ Then(<< >>)
  /\ UNCHANGED <<sstate, flow, body, queue, toClient, hooks, ends, peers>>

AbandonRequest ==
  /\ At("abandon_request")
  /\ cstate' = "errored"
  /\ Then(<< >>)
  /\ UNCHANGED <<sstate, flow, body, queue, sent, hooks, ends, peers>>

\* Faulty variant: server_state is not set.
ExpectNothing ==
  /\ At("expect_response")
  /\ Then(<< >>)
  /\ UNCHANGED <<states, flow, body, queue, sent, hooks, ends, peers>>

ExpectResponse ==
  /\ At("expect_response")
  /\ sstate' = "wait"
  /\ Then(<< >>)
  /\ UNCHANGED <<cstate, flow, body, queue, sent, hooks, ends, peers>>

ReplayRequest ==
  /\ At("replay_request")
  /\ toServer' = IF cstate = "stream"
                 THEN toServer \o Copies("RequestData", body["request"]) ELSE toServer
  /\ body' = [body EXCEPT !["request"] = 0]
  /\ Then(<< >>)
  /\ UNCHANGED <<states, flow, queue, toClient, hooks, ends, peers>>

\* The abort of check_body_size(True) before and after the error hook.
RequestTooLarge ==
  /\ At("request_too_large")
  /\ flow' = [flow EXCEPT !.error = "other"]
  /\ todo' = <<"error", "refuse_request">>
  /\ UNCHANGED <<states, body, queue, sent, hooks, ends, peers>>

RefuseRequest ==
  /\ At("refuse_request")
  /\ toClient' = Append(toClient, "ResponseError")
  /\ cstate' = "errored"
  /\ flow' = [flow EXCEPT !.live = FALSE]
  /\ todo' = << >>
  /\ UNCHANGED <<sstate, body, queue, toServer, hooks, ends, peers>>

\* state_consume_request_body and state_stream_request_body.  Streaming and setting
\* a response at the same time is not implemented.
ConsumeRequestData ==
  /\ Handle("RequestData") /\ cstate = "consume"
  /\ body' = [body EXCEPT !["request"] = @ + 1]
  /\ \E verdict \in Verdicts :
       \/ verdict = "fine" /\ UNCHANGED <<flow, todo>>
       \/ /\ verdict = "stream" /\ flow.response = "none"
          /\ flow' = [flow EXCEPT !.stream = @ \cup {"request"}]
          /\ todo' = <<"get_connection", "stream_request", "replay_request">>
       \/ /\ verdict = "abort"
          /\ flow' = [flow EXCEPT !.error = "other"]
          /\ todo' = <<"error", "refuse_request">>
  /\ UNCHANGED <<states, sent, hooks, ends, peers>>

StreamRequestData ==
  /\ Handle("RequestData") /\ cstate = "stream"
  /\ toServer' = Append(toServer, "RequestData")
  /\ UNCHANGED <<states, flow, body, todo, toClient, hooks, ends, peers>>

RequestTrailers ==
  /\ Handle("RequestTrailers") /\ cstate \in {"consume", "stream"}
  /\ flow' = [flow EXCEPT !.trailers = @ \cup {"request"}]
  /\ UNCHANGED <<states, body, todo, sent, hooks, ends, peers>>

RequestEnd ==
  /\ Handle("RequestEnd") /\ cstate \in {"consume", "stream"}
  /\ cstate' = IF cstate = "consume" THEN "done" ELSE cstate
  /\ todo' = <<"request", IF cstate = "consume" THEN "route_request" ELSE "end_request">>
  /\ UNCHANGED <<sstate, flow, body, sent, hooks, ends, peers>>

RouteRequest ==
  /\ Proceed("route_request")
  /\ todo' = IF flow.response # "none" THEN <<"responseheaders", "inline_response">>
                                       ELSE <<"get_connection", "forward_request">>
  /\ UNCHANGED <<states, flow, body, queue, sent, hooks, ends, peers>>

ForwardRequest ==
  /\ At("forward_request")
  /\ toServer' = toServer \o <<"RequestHeaders">> \o Copies("RequestData", body["request"])
                   \o Trailers("RequestTrailers", "request") \o <<"RequestEnd">>
  /\ Then(<< >>)
  /\ UNCHANGED <<states, flow, body, queue, toClient, hooks, ends, peers>>

-----------------------------------------------------------------------------
\* The response.

\* flow_done, after what was sent before it.  A 101 response turns the stream over
\* to a WebSocket or TCP layer, or ends the connection if neither is enabled.
FlowDone(before) ==
  \/ /\ flow.response # "switching"
     /\ flow' = [flow EXCEPT !.live = FALSE]
     /\ dropped' = TRUE
     /\ toClient' = before \o <<"ResponseEnd">>
     /\ cstate' = "done" /\ sstate' = "done"
     /\ UNCHANGED <<passthrough, client>>
  \/ /\ flow.response = "switching"
     /\ \E websocket \in BOOLEAN : flow' = [flow EXCEPT !.live = @ /\ websocket]
     /\ passthrough' = TRUE
     /\ toClient' = before \o <<"ResponseEnd">>
     /\ cstate' = "done" /\ sstate' = "done"
     /\ UNCHANGED <<dropped, client>>
  \/ /\ flow.response = "switching"
     /\ flow' = [flow EXCEPT !.live = FALSE]
     /\ toClient' = before /\ client' = "gone"
     /\ cstate' = "errored" /\ sstate' = "errored"
     /\ UNCHANGED ends

\* The end of state_stream_request_body.
EndRequest ==
  /\ At("end_request")
  /\ toServer' = toServer \o Trailers("RequestTrailers", "request") \o <<"RequestEnd">>
  /\ IF sstate = "done"
     THEN FlowDone(toClient)
     ELSE cstate' = "done" /\ UNCHANGED <<sstate, flow, ends, toClient, client>>
  /\ Then(<< >>)
  /\ UNCHANGED <<body, queue, hooks, server, bodyless, chunks>>

\* state_wait_for_response_headers
ResponseHeaders ==
  /\ Handle("ResponseHeaders") /\ sstate = "wait"
  /\ \E response \in IF "response" \in bodyless THEN {"plain", "switching"} ELSE {"plain"},
        verdict \in IF "response" \in bodyless THEN {"fine"} ELSE Verdicts,
        valid \in BOOLEAN :
       LET seen == [flow EXCEPT !.response = response,
                      !.stream = IF verdict = "stream" THEN @ \cup {"response"} ELSE @]
       IN  \/ /\ verdict = "abort"
              /\ flow' = seen /\ todo' = <<"responseheaders", "response_too_large">>
              /\ UNCHANGED server
           \/ /\ verdict # "abort" /\ ~valid
              /\ flow' = [seen EXCEPT !.error = "other"] /\ todo' = <<"error", "reject">>
              /\ server' = "gone"
           \/ /\ verdict # "abort" /\ valid
              /\ flow' = seen /\ todo' = <<"responseheaders", "begin_response">>
              /\ UNCHANGED server
  /\ UNCHANGED <<states, body, sent, hooks, ends, client, bodyless, chunks>>

BeginResponse ==
  /\ Proceed("begin_response")
  /\ IF "response" \in flow.stream \ bodyless
     THEN toClient' = Append(toClient, "ResponseHeaders") /\ sstate' = "stream"
     ELSE sstate' = "consume" /\ UNCHANGED toClient
  /\ Then(<< >>)
  /\ UNCHANGED <<cstate, flow, body, queue, toServer, hooks, ends, peers>>

\* The abort of check_body_size(False) before and after the error hook.
ResponseTooLarge ==
  /\ At("response_too_large")
  /\ flow' = [flow EXCEPT !.error = "other"]
  /\ todo' = <<"error", "refuse_response">>
  /\ UNCHANGED <<states, body, queue, sent, hooks, ends, peers>>

RefuseResponse ==
  /\ At("refuse_response")
  /\ toClient' = Append(toClient, "ResponseError")
  /\ toServer' = Append(toServer, "RequestError")
  /\ cstate' = "errored" /\ sstate' = "errored" /\ server' = "gone"
  /\ flow' = [flow EXCEPT !.live = FALSE]
  /\ todo' = << >>
  /\ UNCHANGED <<body, queue, hooks, ends, client, bodyless, chunks>>

\* Faulty variant: what was buffered is not sent on.
ForgetBuffered == toClient \o <<"ResponseHeaders", "ResponseData">>

\* start_response_stream for data already received, and the last chunk of it.
FlushBuffered ==
  toClient \o <<"ResponseHeaders">> \o Copies("ResponseData", body["response"] + 1)

\* state_consume_response_body and state_stream_response_body
ConsumeResponseData ==
  /\ Handle("ResponseData") /\ sstate = "consume"
  /\ \E verdict \in Verdicts :
       \/ /\ verdict = "fine"
          /\ body' = [body EXCEPT !["response"] = @ + 1]
          /\ UNCHANGED <<sstate, flow, toClient, todo>>
       \/ /\ verdict = "stream"
          /\ flow' = [flow EXCEPT !.stream = @ \cup {"response"}]
          /\ toClient' = FlushBuffered
          /\ body' = [body EXCEPT !["response"] = 0]
          /\ sstate' = "stream"
          /\ UNCHANGED todo
       \/ /\ verdict = "abort"
          /\ body' = [body EXCEPT !["response"] = @ + 1]
          /\ flow' = [flow EXCEPT !.error = "other"]
          /\ todo' = <<"error", "refuse_response">>
          /\ UNCHANGED <<sstate, toClient>>
  /\ UNCHANGED <<cstate, toServer, hooks, ends, peers>>

StreamResponseData ==
  /\ Handle("ResponseData") /\ sstate = "stream"
  /\ toClient' = Append(toClient, "ResponseData")
  /\ UNCHANGED <<states, flow, body, todo, toServer, hooks, ends, peers>>

ResponseTrailers ==
  /\ Handle("ResponseTrailers") /\ sstate \in {"consume", "stream"}
  /\ flow' = [flow EXCEPT !.trailers = @ \cup {"response"}]
  /\ UNCHANGED <<states, body, todo, sent, hooks, ends, peers>>

\* The end of the response, and send_response up to the response hook.
ResponseEnd ==
  /\ Handle("ResponseEnd") /\ sstate \in {"consume", "stream"}
  /\ todo' = <<"response", "finish_response">>
  /\ UNCHANGED <<states, flow, body, sent, hooks, ends, peers>>

InlineResponse ==
  /\ Proceed("inline_response")
  /\ Then(<<"response", "finish_response">>)
  /\ UNCHANGED <<states, flow, body, queue, sent, hooks, ends, peers>>

BufferedResponse == <<"ResponseHeaders">> \o Copies("ResponseData", body["response"])
UnsentResponse == IF sstate = "stream" THEN << >> ELSE BufferedResponse

\* send_response after the response hook.
FinishResponse ==
  /\ Proceed("finish_response")
  /\ LET all == toClient \o UnsentResponse \o Trailers("ResponseTrailers", "response")
     IN  IF cstate = "done"
         THEN FlowDone(all)
         ELSE /\ sstate' = "done" /\ toClient' = all
              /\ UNCHANGED <<cstate, flow, ends, client>>
  /\ Then(<< >>)
  /\ UNCHANGED <<body, queue, toServer, hooks, server, bodyless, chunks>>

-----------------------------------------------------------------------------
\* CONNECT: handle_connect, then handle_connect_regular with the eager or the lazy
\* connection strategy (handle_connect_upstream is like the latter).
HandleConnect ==
  /\ Proceed("handle_connect")
  /\ \/ flow.response = "none" /\ todo' = <<"open_connection", "finish_connect">>
     \/ todo' = <<"finish_connect">>
  /\ UNCHANGED <<states, flow, body, queue, sent, hooks, ends, peers>>

\* The first part of handle_connect_finish.  A response that is set may be a 2xx
\* response only if an addon has set it.
FinishConnect ==
  /\ At("finish_connect")
  /\ \/ todo' = <<"http_connected", "tunnel">>
     \/ flow.response # "none" /\ todo' = <<"http_connect_error", "refuse_connect">>
  /\ UNCHANGED <<states, flow, body, queue, sent, hooks, ends, peers>>

ConnectResponse(content) ==
  toClient \o <<"ResponseHeaders">> \o content \o <<"ResponseEnd">>

Tunnel ==
  /\ At("tunnel")
  /\ passthrough' = TRUE
  /\ toClient' = ConnectResponse(<< >>)
  /\ flow' = [flow EXCEPT !.response = "plain"]
  /\ Then(<< >>)
  /\ UNCHANGED <<states, body, queue, toServer, hooks, dropped, peers>>

RefuseConnect ==
  /\ At("refuse_connect")
  /\ cstate' = "errored"
  /\ flow' = [flow EXCEPT !.live = FALSE]
  /\ \E content \in {<< >>, <<"ResponseData">>} : toClient' = ConnectResponse(content)
  /\ Then(<< >>)
  /\ UNCHANGED <<sstate, body, queue, toServer, hooks, ends, peers>>

\* state_errored consumes every event, passthrough hands them to the child layer.
Swallow ==
  /\ todo = << >> /\ queue # << >>
  /\ \/ passthrough
     \/ Head(queue) \in RequestEvents /\ cstate = "errored"
     \/ Head(queue) \in ResponseEvents /\ sstate = "errored"
  /\ queue' = Tail(queue)
  /\ UNCHANGED <<states, flow, body, todo, sent, hooks, ends, peers>>

-----------------------------------------------------------------------------
Request ==
  \/ RequestHeaders \/ BeginRequest \/ StreamRequest \/ AbandonRequest
  \/ ExpectResponse \/ ReplayRequest \/ RequestTooLarge \/ RefuseRequest
  \/ ConsumeRequestData \/ StreamRequestData \/ RequestTrailers \/ RequestEnd
  \/ RouteRequest \/ ForwardRequest \/ EndRequest
Response ==
  \/ ResponseHeaders \/ BeginResponse \/ ResponseTooLarge \/ RefuseResponse
  \/ ConsumeResponseData \/ StreamResponseData \/ ResponseTrailers
  \/ ResponseEnd \/ InlineResponse \/ FinishResponse
Connect == HandleConnect \/ FinishConnect \/ Tunnel \/ RefuseConnect
Failure ==
  \/ CheckKilled \/ Reject \/ Swallow
  \/ \E e \in Errors : HandleError(e) \/ CloseAfter(e)

Stream == Request \/ Response \/ Connect \/ Failure
Answers == HookEnds \/ Connected \/ NotConnected
Next == Stream \/ Answers \/ ClientSteps \/ ServerSteps \/ UserKills

\* The stream runs on by itself; hooks end, and connection attempts are decided.  Each
\* peer completes its message, unless its connection is lost (at the latest by the
\* timeout); a peer that has completed its message may stay for ever.
Fairness ==
  /\ WF_vars(Stream) /\ WF_vars(Answers)
  /\ WF_vars(client # "ended" /\ ClientSteps)
  /\ WF_vars(server # "early" /\ ServerSteps)

Spec == Init /\ [][Next]_vars
FairSpec == Spec /\ Fairness

-----------------------------------------------------------------------------
\* Times that e occurs in seq.
Count(seq, e) == Cardinality({i \in DOMAIN seq : seq[i] = e})
Before(seq, e, f) == \A i, j \in DOMAIN seq : seq[i] = e /\ seq[j] = f => i < j
Terminal == {"ResponseEnd", "ResponseError"}
Outcomes == Count(hooks, "error") + Count(hooks, "response")

(* Every flow will receive either an error or a response event, but not    *)
(* both (_hooks.py:62).                                                    *)
ErrorOrResponse == ~(Has(hooks, "error") /\ Has(hooks, "response"))

(* One outcome, once, with one exception: while the request hook of a      *)
(* streamed request runs, the client leaves and the server responds.  No   *)
(* step checks the queue after that hook, so the error hook runs and then  *)
(* the response is taken from the queue (state_stream_request_body).  When *)
(* the client left is not remembered: excepted is every streamed request   *)
(* whose request hook has run and whose client is gone.                    *)
Overtaken == client = "gone" /\ "request" \in flow.stream /\ Has(hooks, "request")
OneOutcome == Outcomes <= 1 \/ Overtaken

(* No hook but error runs twice for a flow, and those of a message run in  *)
(* order: headers, message, outcome; a flow has its requestheaders hook    *)
(* before all others (the order promised in _hooks.py).                    *)
HooksInOrder ==
  /\ \A h \in Hooks \ {"error"} : Count(hooks, h) <= 1
  /\ \A h \in {"request", "responseheaders", "response"} : Before(hooks, "requestheaders", h)
  /\ Before(hooks, "responseheaders", "response")
  /\ Has(hooks, "response") => Has(hooks, "responseheaders")

Follows(seq, e, f) == \E i, j \in DOMAIN seq : i < j /\ seq[i] = e /\ seq[j] = f

ResponseInOrder ==
  /\ \A e \in Range(toClient) \ {"ResponseError"} :
       ~Follows(toClient, "ResponseEnd", e) /\ ~Follows(toClient, "ResponseError", e)
  /\ Follows(toClient, "ResponseEnd", "ResponseError") => "gone" \in {client, server}
  /\ Count(toClient, "ResponseHeaders") <= 1
  /\ \A e \in {"ResponseData", "ResponseTrailers", "ResponseEnd"} :
       Has(toClient, e) => Follows(toClient, "ResponseHeaders", e)
  /\ ~Follows(toClient, "ResponseTrailers", "ResponseData")

RequestInOrder ==
  /\ \A e \in Range(toServer) \ {"RequestError"} :
       ~Follows(toServer, "RequestEnd", e) /\ ~Follows(toServer, "RequestError", e)
  /\ Count(toServer, "RequestHeaders") <= 1
  /\ toServer # << >> => toServer[1] = "RequestHeaders"
  /\ ~Follows(toServer, "RequestTrailers", "RequestData")

(* What the client is told is a response: headers, data, trailers, end,    *)
(* with an error in place of any rest.  After the end or the error there   *)
(* are at most errors, and after the end only if a peer was lost (which    *)
(* Http1Server.send does not expect: its assertion _http1.py:236 fails if  *)
(* it has moved on to the next request).  What the server is told is a     *)
(* request, or the beginning of one and an error, and at most errors after *)
(* that.                                                                   *)
MessagesInOrder == ResponseInOrder /\ RequestInOrder

(* No event meets a state that does not expect it (the @expect decorators  *)
(* of the state methods raise an AssertionError).                          *)
Expected(e) ==
  CASE e = "RequestHeaders" -> cstate = "wait"
    [] e \in RequestEvents \ {"RequestHeaders"} -> cstate \in {"consume", "stream", "errored"}
    [] e = "ResponseHeaders" -> sstate \in {"wait", "errored"}
    [] e \in ResponseEvents \ {"ResponseHeaders"} -> sstate \in {"consume", "stream", "errored"}
    [] OTHER -> TRUE
EventsExpected ==
  todo = << >> /\ queue # << >> /\ ~passthrough => Expected(Head(queue))

(* A message that is passed on to its end has all the chunks that came in, *)
(* whether buffered, streamed from the start or streamed at half way.      *)
BodiesWhole ==
  /\ Has(toServer, "RequestEnd") => Count(toServer, "RequestData") = chunks["request"]
  /\ Has(toClient, "ResponseEnd") /\ Has(hooks, "response") /\ server \in {"early", "ended"}
       => Count(toClient, "ResponseData") = chunks["response"]

(* When the exchange is over for the client, the flow is not live, except  *)
(* for a WebSocket or a tunnel, which goes on, and a request without a     *)
(* destination, which no hook has seen.                                    *)
OverIsNotLive ==
  Range(toClient) \cap Terminal # {} => ~flow.live \/ passthrough \/ hooks = << >>

(* The response to a killed flow is not completed, whenever it was killed  *)
(* before the end of its response hook (check_killed).  A CONNECT is       *)
(* checked only once, before the connection attempt.                       *)
KilledIsNotAnswered ==
  [][flow.error = "killed" /\ sstate # "done" /\ ~Has(hooks, "http_connect")
       => (Has(toClient', "ResponseEnd") => Has(toClient, "ResponseEnd"))]_vars

(* Every flow that addons have seen receives an error or a response event  *)
(* (_hooks.py:62).                                                         *)
EveryFlowReceives == Has(hooks, "requestheaders") ~> Outcomes > 0

(* Every client gets its response, an error, or is gone.                   *)
Answered ==
  client # "idle" ~> Range(toClient) \cap Terminal # {} \/ client = "gone"

(* A flow has one outcome, and its life ends with it.                      *)
OneOutcomeEndsLife == TypeOK /\ OneOutcome /\ OverIsNotLive

(* The hooks run in the promised order, and no state is met by an event it *)
(* does not expect.                                                        *)
HooksAndEventsInOrder == HooksInOrder /\ EventsExpected

(* Both sides are told whole messages, in order.                           *)
MessagesWhole == MessagesInOrder /\ BodiesWhole

(* Whatever was begun is concluded, for the addons and for the client.     *)
Concluded == EveryFlowReceives /\ Answered
=============================================================================
