-------------------------- MODULE FlowInterception --------------------------
(***************************************************************************)
(* Interception of one HTTP flow: Flow.intercept, resume, kill, backup and *)
(* revert (mitmproxy/flow.py), called by addons and by the user, against   *)
(* the hook task that waits in Flow.wait_for_resume and the HttpStream     *)
(* that waits for the hook.                                                *)
(*                                                                         *)
(* The stream runs hook after hook.  A hook task first runs the addons,    *)
(* which may be asynchronous, so that the user's commands can come at any  *)
(* time; then it waits if the flow is intercepted; then HookCompleted lets *)
(* the stream run to its next hook.  Bodies are not streamed, and the      *)
(* client stays connected.                                                 *)
(***************************************************************************)
EXTENDS Naturals

CONSTANT UserActions   \* what the user does at all

ASSUME UserActionsAssumption ==
  UserActions \subseteq {"resume", "kill", "edit", "revert"}

VARIABLES
  stage,        \* how far the HttpStream has come
  hook,         \* its hook task: addons, waiting, or none
  intercepted,  \* Flow.intercepted
  live,         \* Flow.live
  error,        \* Flow.error: none, killed or other
  response,     \* Flow.response is set
  scripted,     \* the response was set by an addon
  event,        \* Flow._resume_event: none, clear or set
  woken,        \* the event was set since the hook task waits for it
  backup,       \* Flow._backup: a set of at most one snapshot
  asked,        \* history: the user asked to resume since this hook started, and
                \* since the flow was last intercepted
  tampered      \* history: since the flow was last intercepted, a hook that waits
                \* was killed, or revert() set the flag

vars == <<stage, hook, intercepted, live, error, response, scripted, event,
          woken, backup, asked, tampered>>
flow == <<intercepted, live, error, response, scripted, event, backup>>

HookStages == {"request", "headers", "response", "killhook", "errorhook"}
FinalStages == {"replied", "killed", "failed", "crashed"}
Stages == HookStages \cup {"upstream", "body"} \cup FinalStages

Snapshot == [intercepted : BOOLEAN, error : {"none", "killed", "other"},
             response : BOOLEAN]

TypeOK ==
  /\ stage \in Stages
  /\ hook \in {"addons", "waiting", "none"}
  /\ intercepted \in BOOLEAN
  /\ live \in BOOLEAN
  /\ error \in {"none", "killed", "other"}
  /\ response \in BOOLEAN
  /\ scripted \in BOOLEAN
  /\ event \in {"none", "clear", "set"}
  /\ woken \in BOOLEAN
  /\ backup \in {{}} \cup {{b} : b \in Snapshot}
  /\ asked \in BOOLEAN
  /\ tampered \in BOOLEAN

\* The request is complete, and its hook starts.
Init ==
  /\ stage = "request"
  /\ hook = "addons"
  /\ intercepted = FALSE
  /\ live = TRUE
  /\ error = "none"
  /\ response = FALSE
  /\ scripted = FALSE
  /\ event = "none"
  /\ woken = FALSE
  /\ backup = {}
  /\ asked = FALSE
  /\ tampered = FALSE

-----------------------------------------------------------------------------
(* The stream.                                                             *)

\* Stage s begins; if it is a hook, the hook task runs the addons.
Enter(s) ==
  /\ stage' = s
  /\ hook' = IF s \in HookStages THEN "addons" ELSE "none"
  /\ woken' = FALSE
  /\ asked' = FALSE
  /\ UNCHANGED tampered

\* Faulty variant: check_killed that never finds anything.
CheckKilledNever == FALSE

\* HttpStream.check_killed.
CheckKilled == error = "killed"

\* What the stream does once the hook of its stage has completed.  It first
\* asks check_killed, then goes on to its next hook or wait.  A response that
\* is gone makes it raise, and server_event logs the crash.
HookCompleted ==
  CASE stage = "request" ->
         /\ Enter(IF CheckKilled THEN "killhook"
                  ELSE IF response THEN "headers" ELSE "upstream")
         /\ UNCHANGED flow
    [] stage = "headers" ->
         /\ Enter(IF CheckKilled THEN "killhook"
                  ELSE IF ~response THEN "crashed"
                  ELSE IF scripted THEN "response" ELSE "body")
         /\ UNCHANGED flow
    [] stage = "response" ->
         /\ Enter(IF CheckKilled THEN "killed"
                  ELSE IF ~response THEN "crashed" ELSE "replied")
         /\ live' = (live /\ ~CheckKilled /\ ~response)
         /\ UNCHANGED <<intercepted, error, response, scripted, event, backup>>
    [] stage = "killhook" ->
         /\ Enter("killed")
         /\ live' = FALSE
         /\ UNCHANGED <<intercepted, error, response, scripted, event, backup>>
    [] stage = "errorhook" ->
         /\ Enter(IF CheckKilled THEN "killed" ELSE "failed")
         /\ live' = FALSE
         /\ UNCHANGED <<intercepted, error, response, scripted, event, backup>>

\* The server's response headers arrive.
ResponseHeaders ==
  /\ stage = "upstream"
  /\ response' = TRUE
  /\ Enter("headers")
  /\ UNCHANGED <<intercepted, live, error, scripted, event, backup>>

\* The server's response is complete.
ResponseEndOfMessage ==
  /\ stage = "body"
  /\ Enter(IF response THEN "response" ELSE "crashed")
  /\ UNCHANGED flow

\* The connection to the server fails.
ResponseProtocolError ==
  /\ stage \in {"upstream", "body"}
  /\ error' = "other"
  /\ Enter("errorhook")
  /\ UNCHANGED <<intercepted, live, response, scripted, event, backup>>

-----------------------------------------------------------------------------
(* The hook task.                                                          *)

\* Faulty variant: intercept() does not clear an event set earlier.
InterceptNoClear ==
  /\ ~intercepted
  /\ intercepted' = TRUE
  /\ UNCHANGED <<live, error, response, scripted, event, backup>>

\* Flow.intercept().
Intercept ==
  /\ ~intercepted
  /\ intercepted' = TRUE
  /\ event' = IF event = "none" THEN "none" ELSE "clear"
  /\ UNCHANGED <<live, error, response, scripted, backup>>

\* Flow.kill(), for a killable flow.
Kill ==
  /\ live /\ error # "killed"
  /\ error' = "killed"
  /\ intercepted' = FALSE
  /\ live' = FALSE
  /\ UNCHANGED <<response, scripted, event, backup>>

\* The intercept addon takes an interest in the request or the response.
AddonIntercepts ==
  /\ hook = "addons"
  /\ stage \in {"request", "response"}
  /\ Intercept
  /\ asked' = FALSE
  /\ tampered' = FALSE
  /\ UNCHANGED <<stage, hook, woken>>

\* An addon kills the flow.
AddonKills ==
  /\ hook = "addons"
  /\ Kill
  /\ UNCHANGED <<stage, hook, woken, asked, tampered>>

\* An addon answers the request itself.
AddonResponds ==
  /\ hook = "addons"
  /\ stage = "request"
  /\ ~response
  /\ response' = TRUE
  /\ scripted' = TRUE
  /\ UNCHANGED <<stage, hook, intercepted, live, error, event, woken, backup,
                 asked, tampered>>

\* Faulty variant: wait_for_resume does not ask whether the flow is intercepted.
WaitAlways ==
  /\ hook = "addons"
  /\ event # "set"
  /\ event' = "clear"
  /\ hook' = "waiting"
  /\ UNCHANGED <<stage, intercepted, live, error, response, scripted, woken,
                 backup, asked, tampered>>

\* The addons are done and the flow is not held: the hook completes.
AddonsDone ==
  /\ hook = "addons"
  /\ ~intercepted \/ event = "set"
  /\ HookCompleted

\* The addons are done and wait_for_resume waits for the event.
Wait ==
  /\ hook = "addons"
  /\ intercepted
  /\ event # "set"
  /\ event' = "clear"
  /\ hook' = "waiting"
  /\ UNCHANGED <<stage, intercepted, live, error, response, scripted, woken,
                 backup, asked, tampered>>

\* The event was set: wait_for_resume returns and the hook completes.
Wake ==
  /\ hook = "waiting"
  /\ woken
  /\ HookCompleted

-----------------------------------------------------------------------------
(* The user, from the console or the web interface.                        *)

\* Faulty variant: resume() clears the flag only.
ResumeNoSet ==
  /\ "resume" \in UserActions
  /\ asked' = TRUE
  /\ intercepted' = FALSE
  /\ UNCHANGED <<stage, hook, live, error, response, scripted, event, woken,
                 backup, tampered>>

\* Flow.resume(): without effect unless the flow is marked as intercepted.
UserResumes ==
  /\ "resume" \in UserActions
  /\ asked' = TRUE
  /\ intercepted' = FALSE
  /\ event' = IF intercepted /\ event # "none" THEN "set" ELSE event
  /\ woken' = (woken \/ (intercepted /\ hook = "waiting"))
  /\ UNCHANGED <<stage, hook, live, error, response, scripted, backup,
                 tampered>>

\* Flow.kill(), wherever the user's command finds the flow.
UserKills ==
  /\ "kill" \in UserActions
  /\ Kill
  /\ tampered' = (tampered \/ hook = "waiting")
  /\ UNCHANGED <<stage, hook, woken, asked>>

\* Flow.backup(), called before anything is edited.
UserEdits ==
  /\ "edit" \in UserActions
  /\ stage \notin FinalStages
  /\ backup = {}
  /\ backup' = {[intercepted |-> intercepted, error |-> error, response |-> response]}
  /\ UNCHANGED <<stage, hook, intercepted, live, error, response, scripted,
                 event, woken, asked, tampered>>

\* Flow.revert(), for a flow with a backup: set_state leaves live and the
\* event alone.
UserReverts ==
  /\ "revert" \in UserActions
  /\ stage \notin FinalStages
  /\ \E b \in backup :
       /\ intercepted' = b.intercepted
       /\ error' = b.error
       /\ response' = b.response
  /\ backup' = {}
  /\ tampered' = TRUE
  /\ UNCHANGED <<stage, hook, live, scripted, event, woken, asked>>

HookTask == AddonsDone \/ Wait \/ Wake
Server == ResponseHeaders \/ ResponseEndOfMessage \/ ResponseProtocolError
Addons == AddonIntercepts \/ AddonKills \/ AddonResponds
User == UserResumes \/ UserKills \/ UserEdits \/ UserReverts

Next == HookTask \/ Server \/ Addons \/ User

(* The event loop runs every task that can run, and the server answers or  *)
(* the connection breaks.                                                  *)
Fairness == WF_vars(HookTask) /\ WF_vars(Server)

Spec == Init /\ [][Next]_vars
FairSpec == Spec /\ Fairness
\* A user who does not leave intercepted flows alone for ever.
AttentiveSpec == FairSpec /\ WF_vars(intercepted /\ hook # "none" /\ UserResumes)

-----------------------------------------------------------------------------
(* An intercepted flow is held: its hook does not complete, whatever the   *)
(* earlier hooks of the flow left in _resume_event (flow.py:244).  revert() *)
(* is an exception: it may mark a flow as intercepted that is not held.    *)
InterceptionHolds ==
  [][intercepted /\ ~tampered /\ hook = "addons"
       => hook' = "waiting" \/ stage' = stage]_vars

(* A hook that waits is woken when its flow is no longer intercepted, the  *)
(* user's resume() being before, while or after it began to wait           *)
(* (flow.py:265).  Only kill() and revert() can leave it behind.           *)
OnlyKilledIsLeftWaiting ==
  hook = "waiting" /\ ~intercepted => woken \/ tampered

(* "Processing will stop until resume is called" (flow.py:246): once the   *)
(* user has asked to resume, no hook is left waiting.                      *)
ResumeIsHeard == asked /\ hook = "waiting" /\ ~intercepted => woken

(* Neither the request nor the response of a killed flow goes on to its    *)
(* destination (flow.py:230, HttpStream.check_killed).                     *)
KilledIsNotForwarded ==
  [][error = "killed" /\ stage' # stage => stage' \notin {"upstream", "replied"}]_vars

(* A flow comes to its end if the user resumes it whenever it is           *)
(* intercepted, unless a kill or a revert leaves it waiting.               *)
FlowEnds ==
  <>(stage \in FinalStages
       \/ (tampered /\ hook = "waiting" /\ ~intercepted /\ ~woken))

(* The waiting hook and the flow's marks agree.                            *)
WaitsAreConsistent == TypeOK /\ OnlyKilledIsLeftWaiting
=============================================================================
