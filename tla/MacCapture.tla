----------------------------- MODULE MacCapture -----------------------------
(***************************************************************************)
(* Capture on macOS.  The event tap runs in a thread of its own and sees   *)
(* every input event; a task of the runtime owns the requests.  They share *)
(* the state under a mutex, which the tap holds for the whole callback,    *)
(* and a channel of ProducerEvents that the tap and InputCapture both send *)
(* on.  The tap decides that a barrier was crossed, but only the task sets *)
(* current_pos, when it comes to the Grab in the channel.                  *)
(***************************************************************************)
EXTENDS CaptureStream

CONSTANTS
  Modifiers,         \* modifier keys
  MaxNotify          \* bound: producer events on the way

ASSUME MacAssumption == MaxNotify \in Nat

VARIABLES
  active_clients,
  current_pos,
  cooldown,          \* whether last_switch is less than EDGE_COOLDOWN ago
  modifier_state,
  notify,            \* the channel of ProducerEvents
  tap_running,
  task_running,
  hides,             \* external: how often the cursor is hidden
  held_modifiers     \* external: the flags of the next event

macVars == <<active_clients, current_pos, cooldown, modifier_state, notify,
             tap_running, task_running, hides, held_modifiers>>

MacInit ==
  /\ active_clients = {}
  /\ current_pos = None
  /\ cooldown = FALSE
  /\ modifier_state = {}
  /\ notify = <<>>
  /\ tap_running = TRUE
  /\ task_running = TRUE
  /\ hides = 0
  /\ held_modifiers = {}

------------------------------------------------------------------------------
RoomToNotify == Len(notify) < MaxNotify
Notify(e) == RoomToNotify /\ notify' = Append(notify, e)

\* create, destroy and release of the Capture trait: a task sends the request.
MacCall(e) ==
  /\ Notify(e)
  /\ QueueNothing
  /\ UNCHANGED <<active_clients, current_pos, cooldown, modifier_state, tap_running,
                 task_running, hides, held_modifiers>>

MacCreate(p) == FirstHandle(p) /\ MacCall([ev |-> "Create", pos |-> p])
MacDestroy(p) == LastHandle(p) /\ MacCall([ev |-> "Destroy", pos |-> p])
MacRelease == UNCHANGED created /\ MacCall([ev |-> "Release"])

------------------------------------------------------------------------------
\* Mutant: the cursor is not shown again.
ForgetPos == current_pos' = None /\ UNCHANGED hides

\* Show the cursor and let go of the input.
LetGo == current_pos' = None /\ hides' = hides - 1

HandleRelease ==
  /\ IF current_pos # None
     THEN LetGo /\ cooldown' = TRUE
     ELSE UNCHANGED <<current_pos, hides, cooldown>>
  /\ UNCHANGED active_clients

\* Whether the position is still watched is not asked.
HandleGrab(p) ==
  /\ IF current_pos = None
     THEN current_pos' = p /\ hides' = hides + 1
     ELSE UNCHANGED <<current_pos, hides>>
  /\ UNCHANGED <<active_clients, cooldown>>

HandleCreate(p) ==
  /\ active_clients' = active_clients \cup {p}
  /\ UNCHANGED <<current_pos, hides, cooldown>>

HandleDestroy(p) ==
  /\ IF current_pos = p THEN LetGo ELSE UNCHANGED <<current_pos, hides>>
  /\ active_clients' = active_clients \ {p}
  /\ UNCHANGED cooldown

\* An error is only logged: EventTapDisabled is one, and so is a cursor that can
\* not be hidden or shown, which leaves the rest undone.
HandleFails(e) ==
  /\ \/ e.ev = "EventTapDisabled"
     \/ e.ev = "Release" /\ current_pos # None
     \/ e.ev = "Grab" /\ current_pos = None
     \/ e.ev = "Destroy" /\ current_pos = e.pos
  /\ UNCHANGED <<active_clients, current_pos, hides, cooldown>>

\* handle_producer_event
HandleProducerEvent ==
  /\ task_running /\ notify # <<>>
  /\ LET e == Head(notify) IN
       \/ e.ev = "Release" /\ HandleRelease
       \/ e.ev = "Grab" /\ HandleGrab(e.pos)
       \/ e.ev = "Create" /\ HandleCreate(e.pos)
       \/ e.ev = "Destroy" /\ HandleDestroy(e.pos)
       \/ HandleFails(e)
  /\ notify' = Tail(notify)
  /\ QueueNothing
  /\ UNCHANGED <<created, modifier_state, tap_running, task_running, held_modifiers>>

------------------------------------------------------------------------------
\* crossed: the pointer is beyond the edge of a watched position.
CrossedBarrier(p) == ~cooldown /\ p \in active_clients

\* The tap sees the pointer cross a barrier: Begin goes to InputCapture and Grab
\* to the task.
Crossed(p) ==
  /\ tap_running /\ current_pos = None
  /\ CrossedBarrier(p)
  /\ RoomForEvent
  /\ cooldown' = TRUE
  /\ Notify([ev |-> "Grab", pos |-> p])
  /\ QueueBegin(p)
  /\ UNCHANGED <<created, active_clients, current_pos, modifier_state, tap_running,
                 task_running, hides, held_modifiers>>

\* get_events: keys, buttons, motion and scrolling.
GetEvents == QueueInput(current_pos)

\* The tap sees input while grabbed.
TapInput ==
  /\ tap_running /\ current_pos # None
  /\ RoomForEvent
  /\ GetEvents
  /\ UNCHANGED <<created, macVars>>

\* FlagsChanged: what is held is remembered while input is grabbed, and so falls behind
\* between captures.
FlagsChanged(m) ==
  LET flags == IF m \in held_modifiers THEN held_modifiers \ {m} ELSE held_modifiers \cup {m}
  IN /\ tap_running
     /\ RoomForEvent
     /\ held_modifiers' = flags
     /\ IF current_pos # None
        THEN modifier_state' = flags /\ QueueInput(current_pos)
        ELSE UNCHANGED modifier_state /\ QueueNothing
     /\ UNCHANGED <<created, active_clients, current_pos, cooldown, notify, tap_running,
                    task_running, hides>>

\* Nothing ties EDGE_COOLDOWN to the task: a Grab may still be on the way.
CooldownOver ==
  /\ cooldown
  /\ cooldown' = FALSE
  /\ QueueNothing
  /\ UNCHANGED <<created, active_clients, current_pos, modifier_state, notify, tap_running,
                 task_running, hides, held_modifiers>>

\* The system disables the tap (the permission was revoked): its run loop stops.
\* A tap disabled by a timeout is enabled again at once.
TapDisabled ==
  /\ tap_running
  /\ Notify([ev |-> "EventTapDisabled"])
  /\ tap_running' = FALSE
  /\ QueueNothing
  /\ UNCHANGED <<created, active_clients, current_pos, cooldown, modifier_state, task_running,
                 hides, held_modifiers>>

\* The last thing the task does is to show the cursor.
TapExited ==
  /\ task_running /\ ~tap_running
  /\ task_running' = FALSE /\ hides' = 0
  /\ QueueNothing
  /\ UNCHANGED <<created, active_clients, current_pos, cooldown, modifier_state, notify,
                 tap_running, held_modifiers>>

MacPoll ==
  /\ events # <<>>
  /\ events' = Tail(events)
  /\ UNCHANGED <<created, begun, macVars>>

MacNext ==
  \/ \E p \in Positions : MacCreate(p) \/ MacDestroy(p) \/ Crossed(p)
  \/ MacRelease
  \/ HandleProducerEvent
  \/ TapInput
  \/ \E m \in Modifiers : FlagsChanged(m)
  \/ CooldownOver
  \/ TapDisabled \/ TapExited
  \/ MacPoll

------------------------------------------------------------------------------
\* The cursor is hidden exactly while input is grabbed, whatever the order of
\* Grab, Release and Destroy and whichever of them fail, and it is visible once
\* the task has ended.
CursorHiddenIffGrabbed ==
  hides = IF task_running /\ current_pos # None THEN 1 ELSE 0
==============================================================================
