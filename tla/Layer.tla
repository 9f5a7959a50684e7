------------------------------- MODULE Layer -------------------------------
(***************************************************************************)
(* A stack of nested protocol layers (mitmproxy/proxy/layer.py) and the    *)
(* dispatcher that feeds it (ConnectionHandler.server_event).              *)
(*                                                                         *)
(* Layer 1 is the outermost one.  A layer handles an event by running a    *)
(* generator, which may hand the event to its child (the next layer) and   *)
(* may yield blocking commands.  A blocking command suspends the generator *)
(* of the layer that issued it, and only that one: its parents carry on,   *)
(* and events that reach the suspended layer wait in its                   *)
(* _paused_event_queue until the reply to that very command comes in.      *)
(*                                                                         *)
(* What a concrete handler does is left open: it may block any number of   *)
(* times before and after it hands its event on.  One action is one        *)
(* segment of a generator between two calls; the lock of server_event      *)
(* keeps other events out while a layer is running, which is the guard     *)
(* active = 0 of the two server_event actions.                             *)
(***************************************************************************)
EXTENDS Integers, Sequences

CONSTANTS
  Depth,        \* number of nested layers
  MaxEvents,    \* bound on events coming from sockets
  MaxCommands   \* bound on blocking commands

ASSUME DepthAssumption == Depth \in Nat \ {0}
ASSUME BoundsAssumption == MaxEvents \in Nat /\ MaxCommands \in Nat

Layers == 1..Depth

Event   == [kind : {"none", "io", "reply"}, id : Nat]
NoEvent == [kind |-> "none", id |-> 0]
Io(n)    == [kind |-> "io", id |-> n]
\* CommandCompleted for the command numbered c.
Reply(c) == [kind |-> "reply", id |-> c]

VARIABLES
  active,       \* layer whose code is running; 0: server_event is not running
  mode,         \* idle: no generator;  running;  paused: _paused is set
  current,      \* event of the layer's generator
  passed,       \* the generator has handed its event to the child
  replaying,    \* the generator runs below __continue
  cmd,          \* _paused.command, 0 if there is none
  queue,        \* _paused_event_queue
  arrived,      \* number of socket events so far
  issued,       \* number of blocking commands so far
  outstanding,  \* commands that were not answered yet
  received,     \* history: events given to handle_event, own replies excepted
  started       \* history: events whose handler was started

vars == <<active, mode, current, passed, replaying, cmd, queue, arrived,
          issued, outstanding, received, started>>

TypeOK ==
  /\ active \in 0..Depth
  /\ mode \in [Layers -> {"idle", "running", "paused"}]
  /\ current \in [Layers -> Event]
  /\ passed \in [Layers -> BOOLEAN]
  /\ replaying \in [Layers -> BOOLEAN]
  /\ cmd \in [Layers -> Nat]
  /\ queue \in [Layers -> Seq(Event)]
  /\ arrived \in Nat
  /\ issued \in Nat
  /\ outstanding \subseteq Nat
  /\ received \in [Layers -> Seq(Event)]
  /\ started \in [Layers -> Seq(Event)]

Init ==
  /\ active = 0
  /\ mode = [i \in Layers |-> "idle"]
  /\ current = [i \in Layers |-> NoEvent]
  /\ passed = [i \in Layers |-> FALSE]
  /\ replaying = [i \in Layers |-> FALSE]
  /\ cmd = [i \in Layers |-> 0]
  /\ queue = [i \in Layers |-> << >>]
  /\ arrived = 0
  /\ issued = 0
  /\ outstanding = {}
  /\ received = [i \in Layers |-> << >>]
  /\ started = [i \in Layers |-> << >>]

-----------------------------------------------------------------------------
(* Layer.handle_event(e) of layer i; to is the passed flag left behind in  *)
(* the caller.  The three cases are the branches of the method.            *)

\* The event starts a generator of its own.
StartHandler(i, e, to) ==
  /\ mode[i] # "paused"
  /\ mode' = [mode EXCEPT ![i] = "running"]
  /\ current' = [current EXCEPT ![i] = e]
  /\ passed' = [to EXCEPT ![i] = FALSE]
  /\ replaying' = [replaying EXCEPT ![i] = FALSE]
  /\ received' = [received EXCEPT ![i] = Append(@, e)]
  /\ started' = [started EXCEPT ![i] = Append(@, e)]
  /\ active' = i
  /\ UNCHANGED <<cmd, queue>>

\* Faulty variant: events wait in a stack.
PostponeLifo(i, e, to) ==
  /\ mode[i] = "paused"
  /\ e # Reply(cmd[i])
  /\ queue' = [queue EXCEPT ![i] = <<e>> \o @]
  /\ received' = [received EXCEPT ![i] = Append(@, e)]
  /\ passed' = to
  /\ active' = i - 1
  /\ UNCHANGED <<mode, current, replaying, cmd, started>>

\* The layer is paused and waits for something else: keep the event.
Postpone(i, e, to) ==
  /\ mode[i] = "paused"
  /\ e # Reply(cmd[i])
  /\ queue' = [queue EXCEPT ![i] = Append(@, e)]
  /\ received' = [received EXCEPT ![i] = Append(@, e)]
  /\ passed' = to
  /\ active' = i - 1
  /\ UNCHANGED <<mode, current, replaying, cmd, started>>

\* The reply the layer waited for: __continue resumes the generator.
Continue(i, e, to) ==
  /\ mode[i] = "paused"
  /\ e = Reply(cmd[i])
  /\ mode' = [mode EXCEPT ![i] = "running"]
  /\ cmd' = [cmd EXCEPT ![i] = 0]
  /\ replaying' = [replaying EXCEPT ![i] = TRUE]
  /\ passed' = to
  /\ active' = i
  /\ UNCHANGED <<current, queue, received, started>>

HandleEvent(i, e, to) ==
  \/ StartHandler(i, e, to)
  \/ Postpone(i, e, to)
  \/ Continue(i, e, to)

-----------------------------------------------------------------------------
\* Faulty variant: server_event without its lock.
ServerEventIoUnlocked ==
  /\ arrived < MaxEvents
  /\ arrived' = arrived + 1
  /\ HandleEvent(1, Io(arrived + 1), passed)
  /\ UNCHANGED <<issued, outstanding>>

\* A socket delivers data, or is closed.
ServerEventIo ==
  /\ active = 0
  /\ arrived < MaxEvents
  /\ arrived' = arrived + 1
  /\ HandleEvent(1, Io(arrived + 1), passed)
  /\ UNCHANGED <<issued, outstanding>>

\* A hook, or an attempt to connect, has completed.
ServerEventReply(c) ==
  /\ active = 0
  /\ c \in outstanding
  /\ outstanding' = outstanding \ {c}
  /\ HandleEvent(1, Reply(c), passed)
  /\ UNCHANGED <<arrived, issued>>

\* The generator of layer i hands its event to its child.
Forward(i) ==
  /\ active = i
  /\ i < Depth
  /\ ~passed[i]
  /\ HandleEvent(i + 1, current[i], [passed EXCEPT ![i] = TRUE])
  /\ UNCHANGED <<arrived, issued, outstanding>>

\* Faulty variant: the blocking flag is not rewritten, every layer on the call
\* stack suspends itself.
BlockAll(i) ==
  /\ active = i
  /\ issued < MaxCommands
  /\ issued' = issued + 1
  /\ outstanding' = outstanding \cup {issued + 1}
  /\ mode' = [j \in Layers |-> IF j <= i THEN "paused" ELSE mode[j]]
  /\ cmd' = [j \in Layers |-> IF j <= i THEN issued + 1 ELSE cmd[j]]
  /\ active' = 0
  /\ UNCHANGED <<current, passed, replaying, queue, arrived, received, started>>

\* The generator of layer i yields a command whose blocking flag is True.
Block(i) ==
  /\ active = i
  /\ issued < MaxCommands
  /\ issued' = issued + 1
  /\ outstanding' = outstanding \cup {issued + 1}
  /\ mode' = [mode EXCEPT ![i] = "paused"]
  /\ cmd' = [cmd EXCEPT ![i] = issued + 1]
  /\ active' = i - 1
  /\ UNCHANGED <<current, passed, replaying, queue, arrived, received, started>>

\* A generator may end once it has handed on a reply meant for a layer below.
MayEnd(i) == active = i /\ (current[i].kind = "reply" => passed[i])

\* Faulty variant: __continue without its loop.
ReturnEarly(i) ==
  /\ MayEnd(i)
  /\ mode' = [mode EXCEPT ![i] = "idle"]
  /\ active' = i - 1
  /\ UNCHANGED <<current, passed, replaying, cmd, queue, arrived, issued,
                 outstanding, received, started>>

\* Faulty variant: the caller is left, too.
ReturnTwice(i) ==
  /\ MayEnd(i)
  /\ replaying[i] => queue[i] = << >>
  /\ mode' = [mode EXCEPT ![i] = "idle"]
  /\ active' = i - 2
  /\ UNCHANGED <<current, passed, replaying, cmd, queue, arrived, issued,
                 outstanding, received, started>>

\* The generator of layer i ends, and handle_event with it.
Return(i) ==
  /\ MayEnd(i)
  /\ replaying[i] => queue[i] = << >>
  /\ mode' = [mode EXCEPT ![i] = "idle"]
  /\ active' = i - 1
  /\ UNCHANGED <<current, passed, replaying, cmd, queue, arrived, issued,
                 outstanding, received, started>>

\* The generator ends below __continue, which takes up the next queued event.
NextQueued(i) ==
  /\ MayEnd(i)
  /\ replaying[i]
  /\ queue[i] # << >>
  /\ current' = [current EXCEPT ![i] = Head(queue[i])]
  /\ started' = [started EXCEPT ![i] = Append(@, Head(queue[i]))]
  /\ queue' = [queue EXCEPT ![i] = Tail(@)]
  /\ passed' = [passed EXCEPT ![i] = FALSE]
  /\ UNCHANGED <<active, mode, replaying, cmd, arrived, issued, outstanding,
                 received>>

LayerStep(i) == Forward(i) \/ Block(i) \/ Return(i) \/ NextQueued(i)

Next ==
  \/ ServerEventIo
  \/ \E c \in outstanding : ServerEventReply(c)
  \/ \E i \in Layers : LayerStep(i)

(* Generators run on until they block or end, and whatever a command asks  *)
(* for completes one day: hook tasks and connection attempts report back   *)
(* on every path that is not cancelled.  Sockets owe nothing.              *)
Fairness ==
  /\ \A i \in Layers : WF_vars(LayerStep(i))
  /\ WF_vars(\E c \in outstanding : ServerEventReply(c))

Spec == Init /\ [][Next]_vars
FairSpec == Spec /\ Fairness

-----------------------------------------------------------------------------
(* Every layer starts the handlers of its events in the order in which the *)
(* events reached it, each exactly once, however its pauses and those of   *)
(* the layers around it overlap (handle_event and __continue).             *)
InOrder == \A i \in Layers : started[i] \o queue[i] = received[i]

(* The running generators are those on the call stack: no generator is     *)
(* entered or overtaken while another event is being handled (the lock of  *)
(* server_event).                                                          *)
CallStack == \A i \in Layers : mode[i] = "running" <=> i <= active

(* Only a suspended layer holds events back: the loop of __continue never  *)
(* leaves any behind.                                                      *)
NothingLeftBehind == \A i \in Layers : mode[i] = "idle" => queue[i] = << >>

(* A suspended layer's reply cannot get lost: it is still owed, or waits   *)
(* in the queue of a suspended parent, or a parent is about to hand it on  *)
(* (handle_event compares identities, and parents never swallow a reply).  *)
ReplyOnItsWay ==
  \A i \in Layers : mode[i] = "paused" =>
    \/ cmd[i] \in outstanding
    \/ \E j \in 1..(i - 1) :
         \/ \E k \in 1..Len(queue[j]) : queue[j][k] = Reply(cmd[i])
         \/ current[j] = Reply(cmd[i]) /\ ~passed[j] /\ mode[j] # "idle"

(* Refinement: every layer is a mailbox whose events are all taken out, in *)
(* order.                                                                  *)
Mailbox == INSTANCE Mailbox WITH
             Owners <- Layers,
             Event <- {Io(n) : n \in 1..MaxEvents}
                        \cup {Reply(c) : c \in 1..MaxCommands}
IsMailbox == Mailbox!Spec

(* Each layer is a mailbox, and no step loses the reply to a command that  *)
(* paused a layer: it is still due or on its way to the layer that yielded *)
(* the command.                                                            *)
ImplementsMailbox == IsMailbox /\ [][ReplyOnItsWay']_vars
=============================================================================
