-------------------------- MODULE TimeoutWatchdog --------------------------
(***************************************************************************)
(* The TimeoutWatchdog of a client connection (mitmproxy/proxy/server.py)  *)
(* with what drives it: handle_client, which starts it, server_event,      *)
(* which registers activity, and handle_hook (mode_servers.py), which      *)
(* disarms it for as long as a hook runs.  Time is counted in units; a     *)
(* task that is due runs before the clock has moved on by two.             *)
(*                                                                         *)
(* disarm() does not wake a watchdog that already sleeps: whether a hook   *)
(* is safe from the timeout depends on the activity registered before it.  *)
(***************************************************************************)
EXTENDS Integers

CONSTANTS
  Timeout,   \* TCP_TIMEOUT or UDP_TIMEOUT
  MaxTime,   \* bound on the clock
  MaxHooks,  \* bound on hooks that run at the same time
  Races      \* which of the timings below may happen

(* "slow_connect": the client_connected hook outlasts the timeout.          *)
(* "chained_hook": a hook starts in the instant of the activity for which   *)
(*                 the watchdog sleeps, as when the reply to a hook makes   *)
(*                 the layer start the next one.                            *)
(* "silent_hook":  a hook starts without server_event: server_connected or  *)
(*                 server_connect_error after a long attempt to connect.    *)
AllRaces == {"slow_connect", "chained_hook", "silent_hook"}

ASSUME TimeoutAssumption == Timeout \in Nat \ {0}
ASSUME BoundsAssumption ==
  MaxTime \in Nat /\ MaxHooks \in Nat \ {0} /\ Races \subseteq AllRaces

VARIABLES
  now,            \* time.time()
  last_activity,
  can_timeout,    \* the asyncio.Event of that name is set
  blocker,        \* number of hooks that disarmed the watchdog
  watch,          \* its task
  deadline,       \* end of its sleep
  phase,          \* of handle_client
  busy,           \* history: when the connection was last active or in a hook
  raced           \* history: one of the hooks that run began in such a race

vars == <<now, last_activity, can_timeout, blocker, watch, deadline, phase, busy,
          raced>>

TypeOK ==
  /\ now \in 0..MaxTime
  /\ last_activity \in 0..now
  /\ can_timeout \in BOOLEAN
  /\ blocker \in 0..MaxHooks
  /\ watch \in {"waiting", "woken", "sleeping", "fired", "crashed", "cancelled"}
  /\ deadline \in 0..(MaxTime + Timeout)
  /\ phase \in {"connecting", "connected", "gone"}
  /\ busy \in last_activity..now
  /\ raced \in BOOLEAN

\* The client_connected hook runs.  With eager tasks the watchdog fell asleep
\* before the hook disarmed it, otherwise it starts when the hook first awaits.
Init ==
  /\ now = 0
  /\ last_activity = 0
  /\ can_timeout = FALSE
  /\ blocker = 1
  /\ watch \in {"sleeping", "waiting"}
  /\ deadline = Timeout
  /\ phase = "connecting"
  /\ busy = 0
  /\ raced = FALSE

-----------------------------------------------------------------------------
\* Time passes, unless the watchdog is due for longer than a unit.
Tick ==
  /\ now < MaxTime
  /\ watch # "woken"
  /\ watch = "sleeping" => now <= deadline
  /\ phase = "connecting" => "slow_connect" \in Races \/ now + 1 < Timeout
  /\ now' = now + 1
  /\ busy' = IF blocker > 0 THEN now + 1 ELSE busy
  /\ UNCHANGED <<last_activity, can_timeout, blocker, watch, deadline, phase, raced>>

\* register_activity.
RegisterActivity ==
  /\ last_activity' = now
  /\ busy' = now

\* server_event handles data, a reply or a wakeup; no hook results.
ServerEvent ==
  /\ phase = "connected"
  /\ RegisterActivity
  /\ UNCHANGED <<now, can_timeout, blocker, watch, deadline, phase, raced>>

\* A hook starts: __enter__ of disarm.
Disarm ==
  /\ blocker < MaxHooks
  /\ can_timeout' = FALSE
  /\ blocker' = blocker + 1

\* The watchdog will not sleep for the activity of this very instant.
InTime == watch # "woken" /\ (watch = "sleeping" => now + Timeout > deadline)

\* server_event handles an event that makes a layer start a hook.
HookStarts ==
  /\ phase = "connected"
  /\ InTime \/ "chained_hook" \in Races
  /\ raced' = (raced \/ ~InTime)
  /\ RegisterActivity
  /\ Disarm
  /\ UNCHANGED <<now, watch, deadline, phase>>

\* open_connection starts a hook of its own when it is done connecting.
OpenConnectionHook ==
  /\ "silent_hook" \in Races
  /\ phase = "connected"
  /\ Disarm
  /\ raced' = TRUE
  /\ busy' = now
  /\ UNCHANGED <<now, last_activity, watch, deadline, phase>>

\* __exit__ of disarm: the last hook sets the event and so wakes the watchdog,
\* which will run later, whatever becomes of the event until then.
Rearm ==
  /\ blocker' = blocker - 1
  /\ can_timeout' = (blocker = 1)
  /\ watch' = IF blocker = 1 /\ watch = "waiting" THEN "woken" ELSE watch

\* A hook ends.  The last one registers activity, and so does server_event if
\* the hook is one that is waited for.  After the client_connected hook it is
\* given Start, and the client's handler is created.
HookEnds ==
  /\ blocker > 0
  /\ Rearm
  /\ RegisterActivity \/ (blocker > 1 /\ busy' = now /\ UNCHANGED last_activity)
  /\ raced' = (raced /\ blocker > 1)
  /\ phase' = IF phase = "connecting" THEN "connected" ELSE phase
  /\ UNCHANGED <<now, deadline>>

-----------------------------------------------------------------------------
(* TimeoutWatchdog.watch.                                                  *)

\* The sleep for the rest of the timeout.
Sleep ==
  /\ watch' = "sleeping"
  /\ deadline' = last_activity + Timeout

\* can_timeout.wait() returns.
WatchSleeps ==
  /\ watch = "woken"
  /\ Sleep
  /\ UNCHANGED <<now, last_activity, can_timeout, blocker, phase, busy, raced>>

\* Faulty variant: any sleep that ends is taken for a timeout.
IdleTooLongBlindly == TRUE

\* Nothing happened for longer than the timeout.
IdleTooLong == last_activity + Timeout < now

\* on_timeout cancels the client's handler, which does not exist yet while the
\* client_connected hook runs.
WatchExpires ==
  /\ watch = "sleeping"
  /\ now >= deadline
  /\ IdleTooLong
  /\ watch' = IF phase = "connecting" THEN "crashed" ELSE "fired"
  /\ phase' = IF phase = "connecting" THEN phase ELSE "gone"
  /\ UNCHANGED <<now, last_activity, can_timeout, blocker, deadline, busy, raced>>

\* Faulty variant: the watchdog gives up after a false alarm.
WatchGivesUp ==
  /\ watch = "sleeping"
  /\ now >= deadline
  /\ ~IdleTooLong
  /\ watch' = "cancelled"
  /\ UNCHANGED <<now, last_activity, can_timeout, blocker, deadline, phase, busy,
                 raced>>

\* There was activity since: start over, without a pause if the event is set.
WatchContinues ==
  /\ watch = "sleeping"
  /\ now >= deadline
  /\ ~IdleTooLong
  /\ IF can_timeout THEN Sleep ELSE watch' = "waiting" /\ UNCHANGED deadline
  /\ UNCHANGED <<now, last_activity, can_timeout, blocker, phase, busy, raced>>

\* The client's handler ends by itself, and handle_client cancels the watchdog.
Disconnect ==
  /\ phase = "connected"
  /\ phase' = "gone"
  /\ watch' = IF watch = "crashed" THEN watch ELSE "cancelled"
  /\ UNCHANGED <<now, last_activity, can_timeout, blocker, deadline, busy, raced>>

Next ==
  \/ Tick
  \/ ServerEvent
  \/ HookStarts
  \/ OpenConnectionHook
  \/ HookEnds
  \/ WatchSleeps
  \/ WatchExpires
  \/ WatchContinues
  \/ Disconnect

Spec == Init /\ [][Next]_vars

-----------------------------------------------------------------------------
(* Only a connection that was idle for longer than the timeout, with no    *)
(* hook running, is closed "due to inactivity" (on_timeout).               *)
OnlyIdleTimesOut ==
  [][watch' = "fired" /\ watch # "fired" => blocker = 0 /\ now > busy + Timeout]_vars

(* That much holds of hooks that began outside the races: they are safe    *)
(* because the event that led to them registered activity, although disarm *)
(* does not wake a watchdog that already sleeps.                           *)
HooksInTimeAreSafe ==
  [][watch' = "fired" /\ watch # "fired"
       => raced \/ (blocker = 0 /\ now > busy + Timeout)]_vars

(* A connection that is idle for longer than the timeout is closed as soon *)
(* as the event loop gets to it, also after any number of hooks and false  *)
(* alarms (watch).  A watchdog that met no handler in on_timeout, because   *)
(* the client_connected hook outlasted the timeout, died of its assertion. *)
IdleIsNoticed ==
  phase = "connected" /\ blocker = 0 /\ watch # "crashed"
    => now <= last_activity + Timeout + 1

(* The event of the watchdog is set exactly if no hook is running, however *)
(* the hooks overlap (disarm).                                             *)
ArmedWithoutHooks == can_timeout <=> blocker = 0

(* The watchdog is armed when it should be, and then it bites in time.     *)
IdleIsTimedOut == TypeOK /\ ArmedWithoutHooks /\ IdleIsNoticed
=============================================================================
