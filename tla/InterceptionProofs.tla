------------------------ MODULE InterceptionProofs ------------------------
(***************************************************************************)
(* Proofs about FlowInterception, for every set of user actions: a hook    *)
(* that waits for an intercepted flow is woken, an intercepted flow is     *)
(* held, and a killed one goes nowhere.                                    *)
(***************************************************************************)
EXTENDS FlowInterception, TLAPS

\* A hook task exists exactly in the stages that are hooks.
HookOfStage == hook # "none" <=> stage \in HookStages

\* An intercepted flow has to wait: the event that an earlier resume() set was
\* cleared when the flow was intercepted again.
InterceptedIsClear == intercepted /\ ~tampered => event # "set"

IInv == TypeOK /\ OnlyKilledIsLeftWaiting /\ HookOfStage /\ InterceptedIsClear

(* The invariant holds when the request hook starts. *)
LEMMA InitInv == Init => IInv
BY DEF Init, IInv, TypeOK, Stages, HookStages, OnlyKilledIsLeftWaiting,
   HookOfStage, InterceptedIsClear

(* When a hook completes, the stream enters a stage, and leaves everything *)
(* else alone but for Flow.live.                                           *)
LEMMA HookCompletedEnters ==
  ASSUME TypeOK, HookOfStage, hook # "none", HookCompleted
  PROVE  /\ \E s \in Stages : Enter(s)
         /\ live' \in BOOLEAN
         /\ UNCHANGED <<intercepted, error, response, scripted, event, backup>>
<1>1. stage \in HookStages
  BY DEF HookOfStage
<1>2. CASE stage = "request"
  BY <1>2 DEF HookCompleted, Stages, HookStages, flow, TypeOK
<1>3. CASE stage = "headers"
  BY <1>3 DEF HookCompleted, Stages, HookStages, FinalStages, flow, TypeOK
<1>4. CASE stage = "response"
  <2>1. \E s \in Stages : Enter(s)
    BY <1>4 DEF HookCompleted, Stages, FinalStages
  <2>2. QED BY <1>4, <2>1 DEF HookCompleted
<1>5. CASE stage = "killhook"
  BY <1>5 DEF HookCompleted, Stages, FinalStages
<1>6. CASE stage = "errorhook"
  BY <1>6 DEF HookCompleted, Stages, FinalStages
<1>7. QED BY <1>1, <1>2, <1>3, <1>4, <1>5, <1>6 DEF HookStages

(* The completion of a hook keeps the invariant. *)
LEMMA HookCompletedKeeps ==
  ASSUME IInv, hook # "none", HookCompleted
  PROVE  IInv'
<1>0. TypeOK /\ HookOfStage /\ InterceptedIsClear
  BY DEF IInv
<1>1. PICK s \in Stages : Enter(s)
  BY <1>0, HookCompletedEnters
<1>2. live' \in BOOLEAN /\ UNCHANGED <<intercepted, error, response, scripted, event, backup>>
  BY <1>0, HookCompletedEnters
<1>3. TypeOK'
  BY <1>0, <1>1, <1>2 DEF TypeOK, Enter
<1>4. OnlyKilledIsLeftWaiting' /\ HookOfStage'
  BY <1>1 DEF OnlyKilledIsLeftWaiting, HookOfStage, Enter
<1>5. InterceptedIsClear'
  BY <1>0, <1>1, <1>2 DEF InterceptedIsClear, Enter
<1>6. QED BY <1>3, <1>4, <1>5 DEF IInv

(* Every step keeps it. *)
LEMMA StepInv == IInv /\ [Next]_vars => IInv'
<1> SUFFICES ASSUME IInv, [Next]_vars PROVE IInv'
  OBVIOUS
<1>0. TypeOK /\ OnlyKilledIsLeftWaiting /\ HookOfStage /\ InterceptedIsClear
  BY DEF IInv
<1>1. CASE Wait
  <2>1. TypeOK'
    BY <1>0, <1>1 DEF TypeOK, Wait
  <2>2. OnlyKilledIsLeftWaiting'
    BY <1>1 DEF OnlyKilledIsLeftWaiting, Wait
  <2>3. HookOfStage'
    BY <1>0, <1>1 DEF HookOfStage, Wait
  <2>4. InterceptedIsClear'
    BY <1>1 DEF InterceptedIsClear, Wait
  <2>5. QED
    BY <2>1, <2>2, <2>3, <2>4 DEF IInv
<1>2. CASE ResponseHeaders
  <2>1. TypeOK'
    BY <1>0, <1>2 DEF TypeOK, Stages, HookStages, ResponseHeaders, Enter
  <2>2. OnlyKilledIsLeftWaiting'
    BY <1>2 DEF OnlyKilledIsLeftWaiting, ResponseHeaders, Enter
  <2>3. HookOfStage'
    BY <1>2 DEF HookOfStage, ResponseHeaders, Enter
  <2>4. InterceptedIsClear'
    BY <1>0, <1>2 DEF InterceptedIsClear, ResponseHeaders, Enter
  <2>5. QED
    BY <2>1, <2>2, <2>3, <2>4 DEF IInv
<1>3. CASE ResponseEndOfMessage
  <2>1. TypeOK'
    <3>1. UNCHANGED <<intercepted, live, error, response, scripted, event, backup>>
      BY <1>3 DEF ResponseEndOfMessage, flow
    <3>2. stage' \in Stages /\ hook' \in {"addons", "waiting", "none"}
      BY <1>3 DEF ResponseEndOfMessage, Enter, Stages, HookStages, FinalStages
    <3>3. QED BY <1>0, <1>3, <3>1, <3>2 DEF TypeOK, ResponseEndOfMessage, Enter
  <2>2. OnlyKilledIsLeftWaiting'
    BY <1>3 DEF OnlyKilledIsLeftWaiting, ResponseEndOfMessage, Enter
  <2>3. HookOfStage'
    BY <1>3 DEF HookOfStage, ResponseEndOfMessage, Enter
  <2>4. InterceptedIsClear'
    BY <1>0, <1>3 DEF InterceptedIsClear, ResponseEndOfMessage, Enter, flow
  <2>5. QED
    BY <2>1, <2>2, <2>3, <2>4 DEF IInv
<1>4. CASE ResponseProtocolError
  <2>1. TypeOK'
    BY <1>0, <1>4 DEF TypeOK, Stages, HookStages, ResponseProtocolError, Enter
  <2>2. OnlyKilledIsLeftWaiting'
    BY <1>4 DEF OnlyKilledIsLeftWaiting, ResponseProtocolError, Enter
  <2>3. HookOfStage'
    BY <1>4 DEF HookOfStage, ResponseProtocolError, Enter
  <2>4. InterceptedIsClear'
    BY <1>0, <1>4 DEF InterceptedIsClear, ResponseProtocolError, Enter
  <2>5. QED
    BY <2>1, <2>2, <2>3, <2>4 DEF IInv
<1>5. CASE AddonIntercepts
  <2>1. TypeOK'
    BY <1>0, <1>5 DEF TypeOK, AddonIntercepts, Intercept
  <2>2. OnlyKilledIsLeftWaiting'
    BY <1>5 DEF OnlyKilledIsLeftWaiting, AddonIntercepts
  <2>3. InterceptedIsClear'
    BY <1>5 DEF InterceptedIsClear, AddonIntercepts, Intercept
  <2>4. HookOfStage'
    BY <1>0, <1>5 DEF HookOfStage, AddonIntercepts
  <2>5. QED
    BY <2>1, <2>2, <2>3, <2>4 DEF IInv
<1>6. CASE AddonKills
  <2>1. TypeOK'
    BY <1>0, <1>6 DEF TypeOK, AddonKills, Kill
  <2>2. OnlyKilledIsLeftWaiting'
    BY <1>6 DEF OnlyKilledIsLeftWaiting, AddonKills
  <2>3. InterceptedIsClear'
    BY <1>6 DEF InterceptedIsClear, AddonKills, Kill
  <2>4. HookOfStage'
    BY <1>0, <1>6 DEF HookOfStage, AddonKills
  <2>5. QED
    BY <2>1, <2>2, <2>3, <2>4 DEF IInv
<1>7. CASE AddonResponds
  <2>1. TypeOK'
    BY <1>0, <1>7 DEF TypeOK, AddonResponds
  <2>2. OnlyKilledIsLeftWaiting' /\ HookOfStage' /\ InterceptedIsClear'
    BY <1>0, <1>7 DEF OnlyKilledIsLeftWaiting, HookOfStage, InterceptedIsClear,
       AddonResponds
  <2>3. QED
    BY <2>1, <2>2 DEF IInv
<1>8. CASE UserResumes
  <2>1. TypeOK'
    BY <1>0, <1>8 DEF TypeOK, UserResumes
  <2>2. OnlyKilledIsLeftWaiting'
    BY <1>0, <1>8 DEF OnlyKilledIsLeftWaiting, UserResumes
  <2>3. InterceptedIsClear'
    BY <1>8 DEF InterceptedIsClear, UserResumes
  <2>4. HookOfStage'
    BY <1>0, <1>8 DEF HookOfStage, UserResumes
  <2>5. QED
    BY <2>1, <2>2, <2>3, <2>4 DEF IInv
<1>9. CASE UserKills
  <2>1. TypeOK'
    BY <1>0, <1>9 DEF TypeOK, UserKills, Kill
  <2>2. OnlyKilledIsLeftWaiting'
    BY <1>9 DEF OnlyKilledIsLeftWaiting, UserKills
  <2>3. InterceptedIsClear'
    BY <1>9 DEF InterceptedIsClear, UserKills, Kill
  <2>4. HookOfStage'
    BY <1>0, <1>9 DEF HookOfStage, UserKills
  <2>5. QED
    BY <2>1, <2>2, <2>3, <2>4 DEF IInv
<1>10. CASE UserEdits
  <2>1. TypeOK'
    BY <1>0, <1>10 DEF TypeOK, Snapshot, UserEdits
  <2>2. OnlyKilledIsLeftWaiting' /\ HookOfStage' /\ InterceptedIsClear'
    BY <1>0, <1>10 DEF OnlyKilledIsLeftWaiting, HookOfStage, InterceptedIsClear,
       UserEdits
  <2>3. QED
    BY <2>1, <2>2 DEF IInv
<1>11. CASE UserReverts
  <2>1. TypeOK'
    BY <1>0, <1>11 DEF TypeOK, Snapshot, UserReverts
  <2>2. OnlyKilledIsLeftWaiting'
    BY <1>11 DEF OnlyKilledIsLeftWaiting, UserReverts
  <2>3. InterceptedIsClear'
    BY <1>11 DEF InterceptedIsClear, UserReverts
  <2>4. HookOfStage'
    BY <1>0, <1>11 DEF HookOfStage, UserReverts
  <2>5. QED
    BY <2>1, <2>2, <2>3, <2>4 DEF IInv
<1>12. CASE AddonsDone \/ Wake
  BY <1>12, HookCompletedKeeps DEF AddonsDone, Wake
<1>13. CASE UNCHANGED vars
  BY <1>13 DEF vars, IInv, TypeOK, OnlyKilledIsLeftWaiting, HookOfStage,
     InterceptedIsClear
<1>14. QED
  BY <1>1, <1>2, <1>3, <1>4, <1>5, <1>6, <1>7, <1>8, <1>9, <1>10, <1>11, <1>12,
     <1>13 DEF Next, HookTask, Server, Addons, User

(* The inductive invariant holds throughout. *)
THEOREM InterceptionInvariant == Spec => []IInv
<1>1. QED BY InitInv, StepInv, PTL DEF Spec

(* A hook that waits while its flow is not intercepted any more has been   *)
(* woken, unless kill() or revert() left it behind (Flow.wait_for_resume). *)
THEOREM WaitingIsWoken == Spec => []WaitsAreConsistent
<1>1. IInv => WaitsAreConsistent
  BY DEF IInv, WaitsAreConsistent
<1>2. QED BY <1>1, InterceptionInvariant, PTL

(* The hook of an intercepted flow does not complete before it has waited  *)
(* (flow.py:244), whatever earlier hooks left in _resume_event.            *)
THEOREM InterceptedIsHeld == Spec => InterceptionHolds
<1>1. ASSUME IInv, [Next]_vars, intercepted, ~tampered, hook = "addons"
      PROVE  hook' = "waiting" \/ stage' = stage
  <2>1. ~AddonsDone
    BY <1>1 DEF IInv, InterceptedIsClear, AddonsDone
  <2>2. ~Wake
    BY <1>1 DEF Wake
  <2>3. ~Server
    BY <1>1 DEF IInv, HookOfStage, HookStages, Server, ResponseHeaders,
       ResponseEndOfMessage, ResponseProtocolError
  <2>4. CASE Wait
    BY <2>4 DEF Wait
  <2>5. CASE Addons \/ User
    BY <2>5 DEF Addons, User, AddonIntercepts, AddonKills, AddonResponds,
       UserResumes, UserKills, UserEdits, UserReverts
  <2>6. CASE UNCHANGED vars
    BY <2>6 DEF vars
  <2>7. QED
    BY <1>1, <2>1, <2>2, <2>3, <2>4, <2>5, <2>6 DEF Next, HookTask
<1>2. IInv /\ [Next]_vars => [intercepted /\ ~tampered /\ hook = "addons"
        => hook' = "waiting" \/ stage' = stage]_vars
  BY <1>1
<1>3. QED BY <1>2, InterceptionInvariant, PTL DEF Spec, InterceptionHolds

(* No step of the stream forwards the request of a killed flow, or its     *)
(* response: check_killed follows every hook.                              *)
THEOREM KilledGoesNowhere == Spec => KilledIsNotForwarded
<1>1. ASSUME IInv, [Next]_vars, error = "killed", stage' # stage
      PROVE  stage' \notin {"upstream", "replied"}
  <2>1. CASE AddonsDone \/ Wake
    <3>1. HookCompleted
      BY <2>1 DEF AddonsDone, Wake
    <3>2. stage \in HookStages
      BY <1>1, <2>1 DEF IInv, HookOfStage, AddonsDone, Wake
    <3>3. QED BY <1>1, <3>1, <3>2 DEF HookStages, HookCompleted, CheckKilled,
                 Enter
  <2>2. CASE Server
    BY <2>2 DEF Server, ResponseHeaders, ResponseEndOfMessage,
       ResponseProtocolError, Enter
  <2>3. CASE Wait \/ Addons \/ User \/ UNCHANGED vars
    BY <1>1, <2>3 DEF Wait, Addons, User, AddonIntercepts, AddonKills,
       AddonResponds, UserResumes, UserKills, UserEdits, UserReverts, vars
  <2>4. QED
    BY <1>1, <2>1, <2>2, <2>3 DEF Next, HookTask
<1>2. IInv /\ [Next]_vars => [error = "killed" /\ stage' # stage
        => stage' \notin {"upstream", "replied"}]_vars
  BY <1>1
<1>3. QED BY <1>2, InterceptionInvariant, PTL DEF Spec, KilledIsNotForwarded
=============================================================================
