--------------------------- MODULE WatchdogProofs ---------------------------
(***************************************************************************)
(* Proofs about TimeoutWatchdog: an idle connection is timed out, and a    *)
(* connection with hooks that began in time is not, for every timeout and  *)
(* any number of hooks.                                                    *)
(***************************************************************************)
EXTENDS TimeoutWatchdog, TLAPS

\* The sleep ends with the timeout of some activity, and the watchdog is not
\* late by more than a unit.
SleepIsShort ==
  watch = "sleeping" => deadline <= last_activity + Timeout /\ now <= deadline + 1

\* Time stands still between the end of the last hook and the next sleep.
WokenAtOnce == watch = "woken" => last_activity = now

\* Without a hook to wait for, the watchdog does not wait.
WaitsForHooks == watch = "waiting" => blocker > 0

\* The watchdog ends with the connection.
EndsTogether ==
  /\ watch \in {"fired", "cancelled"} => phase = "gone"
  /\ phase = "gone" => watch \in {"fired", "cancelled", "crashed"}

\* The client_connected hook runs alone.
ConnectsAlone == phase = "connecting" => blocker = 1

\* Without a hook, the connection was last busy when it was last active.
BusyIsActive == blocker = 0 => busy = last_activity

\* While hooks run that all began in time, the watchdog will find that its sleep
\* was too short.
SleepIsTooShort ==
  phase = "connected" /\ blocker > 0 /\ ~raced =>
    /\ watch # "woken"
    /\ watch = "sleeping" => deadline < last_activity + Timeout

IInv ==
  /\ TypeOK
  /\ ArmedWithoutHooks
  /\ SleepIsShort
  /\ WokenAtOnce
  /\ WaitsForHooks
  /\ EndsTogether
  /\ ConnectsAlone
  /\ BusyIsActive
  /\ SleepIsTooShort

(* The invariant holds at first, whether or not tasks are eager. *)
LEMMA InitInv == Init => IInv
<1> SUFFICES ASSUME Init PROVE IInv
  OBVIOUS
<1>1. TypeOK
  <2>1. now \in 0..MaxTime /\ last_activity \in 0..now /\ busy \in last_activity..now
    BY BoundsAssumption DEF Init
  <2>2. deadline \in 0..(MaxTime + Timeout) /\ blocker \in 0..MaxHooks
    BY TimeoutAssumption, BoundsAssumption DEF Init
  <2>3. QED
    BY <2>1, <2>2 DEF Init, TypeOK
<1>2. QED
  BY <1>1, TimeoutAssumption DEF Init, IInv, ArmedWithoutHooks, SleepIsShort,
     WokenAtOnce, WaitsForHooks, EndsTogether, ConnectsAlone, BusyIsActive,
     SleepIsTooShort

(* Every step keeps it. *)
LEMMA StepInv == IInv /\ [Next]_vars => IInv'
<1> USE TimeoutAssumption, BoundsAssumption
<1> SUFFICES ASSUME IInv, [Next]_vars PROVE IInv'
  OBVIOUS
<1>0. /\ TypeOK /\ ArmedWithoutHooks /\ SleepIsShort /\ WokenAtOnce /\ WaitsForHooks
      /\ EndsTogether /\ ConnectsAlone /\ BusyIsActive /\ SleepIsTooShort
  BY DEF IInv
<1>1. CASE Tick
  <2>1. TypeOK'
    BY <1>0, <1>1 DEF TypeOK, Tick
  <2>2. ArmedWithoutHooks'
    BY <1>0, <1>1 DEF ArmedWithoutHooks, Tick
  <2>3. SleepIsShort'
    BY <1>0, <1>1 DEF TypeOK, SleepIsShort, Tick
  <2>4. WokenAtOnce'
    BY <1>1 DEF WokenAtOnce, Tick
  <2>5. WaitsForHooks'
    BY <1>0, <1>1 DEF WaitsForHooks, Tick
  <2>6. EndsTogether'
    BY <1>0, <1>1 DEF EndsTogether, Tick
  <2>7. ConnectsAlone'
    BY <1>0, <1>1 DEF ConnectsAlone, Tick
  <2>8. BusyIsActive'
    BY <1>0, <1>1 DEF BusyIsActive, Tick
  <2>9. SleepIsTooShort'
    BY <1>0, <1>1 DEF SleepIsTooShort, Tick
  <2>10. QED
    BY <2>1, <2>2, <2>3, <2>4, <2>5, <2>6, <2>7, <2>8, <2>9 DEF IInv
<1>2. CASE ServerEvent
  <2>1. TypeOK'
    BY <1>0, <1>2 DEF TypeOK, ServerEvent, RegisterActivity
  <2>2. ArmedWithoutHooks'
    BY <1>0, <1>2 DEF ArmedWithoutHooks, ServerEvent
  <2>3. SleepIsShort'
    BY <1>0, <1>2 DEF TypeOK, SleepIsShort, ServerEvent, RegisterActivity
  <2>4. WokenAtOnce'
    BY <1>2 DEF WokenAtOnce, ServerEvent, RegisterActivity
  <2>5. WaitsForHooks'
    BY <1>0, <1>2 DEF WaitsForHooks, ServerEvent
  <2>6. EndsTogether'
    BY <1>0, <1>2 DEF EndsTogether, ServerEvent
  <2>7. ConnectsAlone'
    BY <1>2 DEF ConnectsAlone, ServerEvent
  <2>8. BusyIsActive'
    BY <1>2 DEF BusyIsActive, ServerEvent, RegisterActivity
  <2>9. SleepIsTooShort'
    BY <1>0, <1>2 DEF TypeOK, SleepIsTooShort, ServerEvent, RegisterActivity
  <2>10. QED
    BY <2>1, <2>2, <2>3, <2>4, <2>5, <2>6, <2>7, <2>8, <2>9 DEF IInv
<1>3. CASE HookStarts
  <2>1. TypeOK'
    <3>1. raced' \in BOOLEAN /\ can_timeout' \in BOOLEAN
      BY <1>3 DEF HookStarts, Disarm
    <3>2. now' \in 0..MaxTime /\ last_activity' \in 0..now' /\ busy' \in last_activity'..now'
      BY <1>0, <1>3 DEF TypeOK, HookStarts, RegisterActivity
    <3>3. blocker' \in 0..MaxHooks
      BY <1>0, <1>3 DEF TypeOK, HookStarts, Disarm
    <3>4. QED
      BY <1>0, <1>3, <3>1, <3>2, <3>3 DEF TypeOK, HookStarts
  <2>2. ArmedWithoutHooks'
    BY <1>0, <1>3 DEF TypeOK, ArmedWithoutHooks, HookStarts, Disarm
  <2>3. SleepIsShort'
    BY <1>0, <1>3 DEF TypeOK, SleepIsShort, HookStarts, RegisterActivity
  <2>4. WokenAtOnce'
    BY <1>3 DEF WokenAtOnce, HookStarts, RegisterActivity
  <2>5. WaitsForHooks'
    BY <1>0, <1>3 DEF TypeOK, WaitsForHooks, HookStarts, Disarm
  <2>6. EndsTogether'
    BY <1>0, <1>3 DEF EndsTogether, HookStarts
  <2>7. ConnectsAlone'
    BY <1>3 DEF ConnectsAlone, HookStarts
  <2>8. BusyIsActive'
    BY <1>3 DEF BusyIsActive, HookStarts, RegisterActivity
  <2>9. SleepIsTooShort'
    BY <1>3 DEF SleepIsTooShort, HookStarts, InTime, RegisterActivity
  <2>10. QED
    BY <2>1, <2>2, <2>3, <2>4, <2>5, <2>6, <2>7, <2>8, <2>9 DEF IInv
<1>4. CASE OpenConnectionHook
  <2>1. TypeOK'
    <3>1. raced' \in BOOLEAN /\ can_timeout' \in BOOLEAN
      BY <1>4 DEF OpenConnectionHook, Disarm
    <3>2. blocker' \in 0..MaxHooks
      BY <1>0, <1>4 DEF TypeOK, OpenConnectionHook, Disarm
    <3>3. QED
      BY <1>0, <1>4, <3>1, <3>2 DEF TypeOK, OpenConnectionHook
  <2>2. ArmedWithoutHooks'
    BY <1>0, <1>4 DEF TypeOK, ArmedWithoutHooks, OpenConnectionHook, Disarm
  <2>3. SleepIsShort'
    BY <1>0, <1>4 DEF SleepIsShort, OpenConnectionHook
  <2>4. WokenAtOnce'
    BY <1>0, <1>4 DEF WokenAtOnce, OpenConnectionHook
  <2>5. WaitsForHooks'
    BY <1>0, <1>4 DEF TypeOK, WaitsForHooks, OpenConnectionHook, Disarm
  <2>6. EndsTogether'
    BY <1>0, <1>4 DEF EndsTogether, OpenConnectionHook
  <2>7. ConnectsAlone'
    BY <1>4 DEF ConnectsAlone, OpenConnectionHook
  <2>8. BusyIsActive'
    BY <1>0, <1>4 DEF TypeOK, BusyIsActive, OpenConnectionHook, Disarm
  <2>9. SleepIsTooShort'
    BY <1>4 DEF SleepIsTooShort, OpenConnectionHook
  <2>10. QED
    BY <2>1, <2>2, <2>3, <2>4, <2>5, <2>6, <2>7, <2>8, <2>9 DEF IInv
<1>5. CASE HookEnds
  <2>1. TypeOK'
    <3>1. now' \in 0..MaxTime /\ last_activity' \in 0..now' /\ busy' \in last_activity'..now'
      BY <1>0, <1>5 DEF TypeOK, HookEnds, RegisterActivity
    <3>2. QED
      BY <1>0, <1>5, <3>1 DEF TypeOK, HookEnds, Rearm
  <2>2. ArmedWithoutHooks'
    <3>1. can_timeout' <=> blocker = 1
      BY <1>5 DEF HookEnds, Rearm
    <3>2. blocker' = 0 <=> blocker = 1
      BY <1>5 DEF HookEnds, Rearm
    <3>3. QED
      BY <3>1, <3>2 DEF ArmedWithoutHooks
  <2>3. SleepIsShort'
    BY <1>0, <1>5 DEF TypeOK, SleepIsShort, HookEnds, Rearm, RegisterActivity
  <2>4. WokenAtOnce'
    BY <1>0, <1>5 DEF WokenAtOnce, HookEnds, Rearm, RegisterActivity
  <2>5. WaitsForHooks'
    BY <1>0, <1>5 DEF TypeOK, WaitsForHooks, HookEnds, Rearm
  <2>6. EndsTogether'
    BY <1>0, <1>5 DEF EndsTogether, HookEnds, Rearm
  <2>7. ConnectsAlone'
    BY <1>5 DEF ConnectsAlone, HookEnds
  <2>8. BusyIsActive'
    BY <1>0, <1>5 DEF TypeOK, BusyIsActive, HookEnds, Rearm, RegisterActivity
  <2>9. SleepIsTooShort'
    BY <1>0, <1>5 DEF TypeOK, ConnectsAlone, SleepIsTooShort, HookEnds, Rearm,
       RegisterActivity
  <2>10. QED
    BY <2>1, <2>2, <2>3, <2>4, <2>5, <2>6, <2>7, <2>8, <2>9 DEF IInv
<1>6. CASE WatchSleeps
  <2>1. TypeOK'
    BY <1>0, <1>6 DEF TypeOK, WatchSleeps, Sleep
  <2>2. ArmedWithoutHooks'
    BY <1>0, <1>6 DEF ArmedWithoutHooks, WatchSleeps
  <2>3. SleepIsShort'
    BY <1>0, <1>6 DEF TypeOK, SleepIsShort, WokenAtOnce, WatchSleeps, Sleep
  <2>4. WokenAtOnce'
    BY <1>0, <1>6 DEF WokenAtOnce, WatchSleeps
  <2>5. WaitsForHooks'
    BY <1>6 DEF WaitsForHooks, WatchSleeps, Sleep
  <2>6. EndsTogether'
    BY <1>0, <1>6 DEF EndsTogether, WatchSleeps, Sleep
  <2>7. ConnectsAlone'
    BY <1>0, <1>6 DEF ConnectsAlone, WatchSleeps
  <2>8. BusyIsActive'
    BY <1>0, <1>6 DEF BusyIsActive, WatchSleeps
  <2>9. SleepIsTooShort'
    BY <1>0, <1>6 DEF SleepIsTooShort, WatchSleeps
  <2>10. QED
    BY <2>1, <2>2, <2>3, <2>4, <2>5, <2>6, <2>7, <2>8, <2>9 DEF IInv
<1>7. CASE WatchExpires
  <2>1. TypeOK'
    BY <1>0, <1>7 DEF TypeOK, WatchExpires
  <2>2. ArmedWithoutHooks'
    BY <1>0, <1>7 DEF ArmedWithoutHooks, WatchExpires
  <2>3. SleepIsShort'
    BY <1>7 DEF SleepIsShort, WatchExpires
  <2>4. WokenAtOnce'
    BY <1>7 DEF WokenAtOnce, WatchExpires
  <2>5. WaitsForHooks'
    BY <1>7 DEF WaitsForHooks, WatchExpires
  <2>6. EndsTogether'
    BY <1>7 DEF EndsTogether, WatchExpires
  <2>7. ConnectsAlone'
    BY <1>0, <1>7 DEF ConnectsAlone, WatchExpires
  <2>8. BusyIsActive'
    BY <1>0, <1>7 DEF BusyIsActive, WatchExpires
  <2>9. SleepIsTooShort'
    BY <1>7 DEF SleepIsTooShort, WatchExpires
  <2>10. QED
    BY <2>1, <2>2, <2>3, <2>4, <2>5, <2>6, <2>7, <2>8, <2>9 DEF IInv
<1>8. CASE WatchContinues
  <2>1. TypeOK'
    BY <1>0, <1>8 DEF TypeOK, WatchContinues, Sleep
  <2>2. ArmedWithoutHooks'
    BY <1>0, <1>8 DEF ArmedWithoutHooks, WatchContinues
  <2>3. SleepIsShort'
    BY <1>0, <1>8 DEF TypeOK, SleepIsShort, WatchContinues, Sleep
  <2>4. WokenAtOnce'
    BY <1>8 DEF WokenAtOnce, WatchContinues, Sleep
  <2>5. WaitsForHooks'
    BY <1>0, <1>8 DEF TypeOK, ArmedWithoutHooks, WaitsForHooks, WatchContinues,
       Sleep
  <2>6. EndsTogether'
    BY <1>0, <1>8 DEF EndsTogether, WatchContinues, Sleep
  <2>7. ConnectsAlone'
    BY <1>0, <1>8 DEF ConnectsAlone, WatchContinues
  <2>8. BusyIsActive'
    BY <1>0, <1>8 DEF BusyIsActive, WatchContinues
  <2>9. SleepIsTooShort'
    BY <1>0, <1>8 DEF ArmedWithoutHooks, SleepIsTooShort, WatchContinues
  <2>10. QED
    BY <2>1, <2>2, <2>3, <2>4, <2>5, <2>6, <2>7, <2>8, <2>9 DEF IInv
<1>9. CASE Disconnect
  <2>1. TypeOK'
    BY <1>0, <1>9 DEF TypeOK, Disconnect
  <2>2. ArmedWithoutHooks'
    BY <1>0, <1>9 DEF ArmedWithoutHooks, Disconnect
  <2>3. SleepIsShort'
    BY <1>9 DEF SleepIsShort, Disconnect
  <2>4. WokenAtOnce'
    BY <1>9 DEF WokenAtOnce, Disconnect
  <2>5. WaitsForHooks'
    BY <1>9 DEF WaitsForHooks, Disconnect
  <2>6. EndsTogether'
    BY <1>9 DEF EndsTogether, Disconnect
  <2>7. ConnectsAlone'
    BY <1>9 DEF ConnectsAlone, Disconnect
  <2>8. BusyIsActive'
    BY <1>0, <1>9 DEF BusyIsActive, Disconnect
  <2>9. SleepIsTooShort'
    BY <1>9 DEF SleepIsTooShort, Disconnect
  <2>10. QED
    BY <2>1, <2>2, <2>3, <2>4, <2>5, <2>6, <2>7, <2>8, <2>9 DEF IInv
<1>10. CASE UNCHANGED vars
  BY <1>10 DEF vars, IInv, TypeOK, ArmedWithoutHooks, SleepIsShort, WokenAtOnce,
     WaitsForHooks, EndsTogether, ConnectsAlone, BusyIsActive, SleepIsTooShort
<1>11. QED
  BY <1>1, <1>2, <1>3, <1>4, <1>5, <1>6, <1>7, <1>8, <1>9, <1>10 DEF Next

(* The inductive invariant holds throughout. *)
THEOREM WatchdogInvariant == Spec => []IInv
<1>1. QED BY InitInv, StepInv, PTL DEF Spec

(* The watchdog is armed exactly when no hook runs, and then a connection   *)
(* that stays idle is closed in time (TimeoutWatchdog.watch, disarm).       *)
THEOREM WatchdogTimesOutIdle == Spec => []IdleIsTimedOut
<1>1. IInv => IdleIsTimedOut
  <2> SUFFICES ASSUME IInv PROVE IdleIsNoticed
    BY DEF IInv, IdleIsTimedOut
  <2>1. TypeOK /\ SleepIsShort /\ WokenAtOnce /\ WaitsForHooks /\ EndsTogether
    BY DEF IInv
  <2>2. QED
    BY <2>1, TimeoutAssumption DEF TypeOK, SleepIsShort, WokenAtOnce,
       WaitsForHooks, EndsTogether, IdleIsNoticed
<1>2. QED BY <1>1, WatchdogInvariant, PTL

(* A connection whose hooks all began in time is timed out only when it was *)
(* idle and no hook ran (on_timeout), though disarm does not wake a         *)
(* watchdog that sleeps already.                                            *)
THEOREM WatchdogSparesHooks == Spec => HooksInTimeAreSafe
<1>1. ASSUME IInv, [Next]_vars, watch' = "fired", watch # "fired"
      PROVE  raced \/ (blocker = 0 /\ now > busy + Timeout)
  <2>1. TypeOK /\ SleepIsShort /\ EndsTogether /\ BusyIsActive /\ SleepIsTooShort
    BY <1>1 DEF IInv
  <2>2. WatchExpires
    BY <1>1 DEF Next, vars, Tick, ServerEvent, HookStarts, OpenConnectionHook,
       HookEnds, Rearm, WatchSleeps, Sleep, WatchContinues, Disconnect
  <2>3. phase # "connecting" /\ last_activity + Timeout < now
    BY <1>1, <2>2 DEF WatchExpires, IdleTooLong
  <2>4. CASE blocker = 0
    BY <2>1, <2>3, <2>4 DEF BusyIsActive
  <2>5. CASE blocker > 0 /\ ~raced
    <3>1. phase = "connected"
      BY <2>1, <2>2, <2>3 DEF TypeOK, EndsTogether, WatchExpires
    <3>2. deadline < last_activity + Timeout /\ now <= deadline + 1
      BY <2>1, <2>2, <2>5, <3>1 DEF WatchExpires, SleepIsShort, SleepIsTooShort
    <3>3. QED BY <2>1, <2>3, <3>2, TimeoutAssumption DEF TypeOK
  <2>6. QED BY <2>1, <2>4, <2>5 DEF TypeOK
<1>2. IInv /\ [Next]_vars => [watch' = "fired" /\ watch # "fired"
        => raced \/ (blocker = 0 /\ now > busy + Timeout)]_vars
  BY <1>1
<1>3. QED BY <1>2, WatchdogInvariant, PTL DEF Spec, HooksInTimeAreSafe
=============================================================================
