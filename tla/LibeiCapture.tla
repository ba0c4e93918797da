---------------------------- MODULE LibeiCapture ----------------------------
(***************************************************************************)
(* Capture through the input-capture portal.  A task (do_capture) keeps a  *)
(* portal session with barriers for the active clients and starts another  *)
(* when they change.  In a session two tasks run, joined with the one that *)
(* waits for a reason to end it (upd): one follows the portal's signals    *)
(* (cap), one the input that arrives over libei (ei).                      *)
(*                                                                         *)
(* The channel of events to InputCapture and that of requests have room    *)
(* for one; who finds them full waits in turn.  A Notify wakes whoever     *)
(* waits at that moment and is forgotten otherwise.  All of it runs on one *)
(* thread: what happens between two awaits is one action.                  *)
(*                                                                         *)
(* The portal (external) grabs the input when the pointer crosses a        *)
(* barrier of an enabled session, and may let go of it by itself.          *)
(***************************************************************************)
EXTENDS CaptureStream

CONSTANT
  PerEiEvent         \* input events one libei event can stand for

ASSUME LibeiAssumption == PerEiEvent \in Nat \ {0}

VARIABLES
  libei_clients,     \* active_clients
  phase,             \* of do_capture: "loop" at the head of its loop, "idle" without
                     \* clients, "starting" up to enable, "running", "ended" or
                     \* "erred" out of the session, "done" or "failed" after all
  session,           \* whether there is one it has not used
  upd,               \* handle_session_update_request: "waiting" or "done"
  occurred,          \* capture_event_occured
  cap,               \* capture_session_task: "none", in its "select", "sending" Begin,
                     \* "captured" till it is woken, "releasing", "ended" or "erred"
  ei,                \* ei_task: "reading", "sending" or "ended"
  ei_left,           \* input of the libei event that is still to be sent
  position,          \* current_pos
  ei_changed,        \* ei_devices_changed
  cancel_session, cancel_update, cancelled,
  woken,             \* notify_release has woken cap
  ei_woken,          \* release_session has woken cap
  waiting,           \* who waits for room in the channel of events, and with what
  notify_capture,    \* the channel of requests
  caller,            \* InputCapture: "polling", "calling", "terminating", "terminated"
  call,              \* the request it waits to send
  barriers,          \* external: of the session
  grabbed,           \* external: the position whose input is captured
  activated          \* external: the position of a signal on the way

sessionVars == <<cap, ei, ei_left, position, ei_changed, woken, ei_woken>>
cancelVars == <<cancel_session, cancel_update, cancelled>>
portalVars == <<barriers, grabbed, activated>>
callerVars == <<caller, call>>
taskVars == <<libei_clients, phase, session, upd, occurred>>
libeiVars == <<taskVars, sessionVars, cancelVars, waiting, notify_capture, callerVars, portalVars>>

\* LibeiInputCapture::new creates the first session before the task.
LibeiInit ==
  /\ libei_clients = {} /\ barriers = {}
  /\ phase = "loop"
  /\ session = TRUE
  /\ upd = "waiting"
  /\ occurred = None /\ call = None
  /\ cap = "none"
  /\ ei = "ended" /\ ei_left = 0
  /\ position = None /\ grabbed = None /\ activated = None
  /\ ei_changed = FALSE /\ woken = FALSE /\ ei_woken = FALSE
  /\ cancel_session = FALSE /\ cancel_update = FALSE /\ cancelled = FALSE
  /\ waiting = <<>>
  /\ notify_capture = <<>>
  /\ caller = "polling"

------------------------------------------------------------------------------
\* InputCapture's half.  create and destroy send a request and wait for room.
LibeiRequest(r) ==
  /\ caller = "polling"
  /\ IF notify_capture = <<>> /\ phase \notin {"done", "failed"}
     THEN notify_capture' = <<r>> /\ UNCHANGED <<caller, call>>
     ELSE caller' = "calling" /\ call' = r /\ UNCHANGED notify_capture
  /\ QueueNothing
  /\ UNCHANGED <<taskVars, sessionVars, cancelVars, waiting, portalVars>>

LibeiCreate(p) == FirstHandle(p) /\ LibeiRequest([op |-> "Create", pos |-> p])
LibeiDestroy(p) == LastHandle(p) /\ LibeiRequest([op |-> "Destroy", pos |-> p])

\* The request is sent, or the task is gone and the error ignored.
RequestSent ==
  /\ caller = "calling"
  /\ \/ phase \in {"done", "failed"} /\ UNCHANGED notify_capture
     \/ phase \notin {"done", "failed"} /\ notify_capture = <<>> /\ notify_capture' = <<call>>
  /\ caller' = "polling" /\ call' = None
  /\ QueueNothing
  /\ UNCHANGED <<created, taskVars, sessionVars, cancelVars, waiting, portalVars>>

\* release: heard only by who waits for it.
LibeiRelease ==
  /\ caller = "polling"
  /\ woken' = (woken \/ cap \in {"select", "captured"})
  /\ QueueNothing
  /\ UNCHANGED <<created, taskVars, cap, ei, ei_left, position, ei_changed, ei_woken, cancelVars,
                 waiting, notify_capture, callerVars, portalVars>>

\* poll_next asks for the end of the task first; InputCapture then terminates.
LibeiPoll ==
  /\ caller = "polling" /\ phase \notin {"done", "failed"}
  /\ events # <<>>
  /\ events' = Tail(events)
  /\ UNCHANGED <<created, begun, taskVars, sessionVars, cancelVars, waiting, notify_capture,
                 caller, call, portalVars>>

LibeiTerminate ==
  /\ caller = "polling"
  /\ cancelled' = TRUE
  /\ caller' = "terminating"
  /\ QueueNothing
  /\ UNCHANGED <<created, taskVars, sessionVars, cancel_session, cancel_update, waiting,
                 notify_capture, call, portalVars>>

\* terminate waits for the task.
TaskAwaited ==
  /\ \/ caller = "terminating" /\ phase \in {"done", "failed"}
     \/ caller = "polling" /\ phase = "failed"
  /\ caller' = "terminated"
  /\ QueueNothing
  /\ UNCHANGED <<created, taskVars, sessionVars, cancelVars, waiting, notify_capture, call,
                 portalVars>>

------------------------------------------------------------------------------
\* do_capture.  At the head of its loop it makes new tokens and, with clients,
\* uses the session it has or creates one, which may fail.
NewTokens ==
  /\ upd' = "waiting" /\ occurred' = None
  /\ cancel_session' = FALSE /\ cancel_update' = FALSE
  /\ UNCHANGED cancelled

BeginLoop ==
  /\ phase = "loop"
  /\ NewTokens
  /\ IF libei_clients = {} THEN phase' = "idle" /\ UNCHANGED session
     ELSE session' = FALSE /\ phase' \in IF session THEN {"starting"} ELSE {"starting", "failed"}
  /\ QueueNothing
  /\ UNCHANGED <<created, libei_clients, sessionVars, waiting, notify_capture, callerVars, portalVars>>

\* select_barriers: one along the edge of each region for every client.
SelectBarriers == libei_clients

\* do_capture_session: connect, set the barriers and enable, each of which may
\* fail.
StartSession ==
  /\ phase = "starting"
  /\ \/ /\ phase' = "running"
        /\ barriers' = SelectBarriers
        /\ cap' = "select" /\ ei' = "reading"
     \/ /\ phase' = "erred"
        /\ UNCHANGED <<barriers, cap, ei>>
  /\ QueueNothing
  /\ UNCHANGED <<created, libei_clients, session, upd, occurred, cancelVars, waiting,
                 notify_capture, callerVars, ei_left, position, ei_changed, woken, ei_woken,
                 grabbed, activated>>

\* handle_session_update_request: the first reason to end the session, a request
\* or one of the tokens and zones.
UpdateEnds ==
  /\ phase \in {"idle", "starting", "running", "ended", "erred"}
  /\ upd = "waiting"
  /\ upd' = "done"
  /\ cancel_session' = TRUE
  /\ QueueNothing
  /\ UNCHANGED <<created, libei_clients, phase, session, sessionVars, cancel_update, cancelled,
                 waiting, callerVars, portalVars>>

UpdateByRequest ==
  /\ notify_capture # <<>>
  /\ occurred' = Head(notify_capture)
  /\ notify_capture' = Tail(notify_capture)
  /\ UpdateEnds

UpdateByToken(zones_changed) ==
  /\ zones_changed \/ cancelled \/ cancel_update
  /\ UNCHANGED <<occurred, notify_capture>>
  /\ UpdateEnds

\* Both tasks have ended.
TasksJoined ==
  /\ phase = "running"
  /\ cap \in {"ended", "erred"} /\ ei = "ended"
  /\ phase' = IF cap = "erred" THEN "erred" ELSE "ended"
  /\ cancel_update' = TRUE
  /\ QueueNothing
  /\ UNCHANGED <<created, libei_clients, session, upd, occurred, sessionVars, cancel_session,
                 cancelled, waiting, notify_capture, callerVars, portalVars>>

\* Mutant: a request is forgotten that ended the session.
Forgotten == libei_clients

Applied == IF occurred = None THEN libei_clients
           ELSE IF occurred.op = "Create" THEN libei_clients \cup {occurred.pos}
           ELSE libei_clients \ {occurred.pos}

\* Mutant: the task goes on though it was cancelled.
LoopAgain == "loop"

NextPhase == IF cancelled THEN "done" ELSE "loop"

\* What a session keeps ends with it, and the portal forgets its barriers.
SessionGone ==
  /\ cap' = "none" /\ ei' = "ended" /\ ei_left' = 0
  /\ position' = None
  /\ ei_changed' = FALSE /\ woken' = FALSE /\ ei_woken' = FALSE
  /\ barriers' = {} /\ grabbed' = None /\ activated' = None

\* The session and the wait for a reason to end it are over: the session is
\* closed, its error returned, and the request applied.
EndLoop ==
  /\ phase \in {"idle", "ended", "erred"} /\ upd = "done"
  /\ IF phase = "erred" THEN phase' = "failed" /\ UNCHANGED libei_clients
     ELSE /\ libei_clients' = Applied
          /\ phase' = NextPhase
  /\ SessionGone
  /\ QueueNothing
  /\ UNCHANGED <<created, session, upd, occurred, cancelVars, waiting, notify_capture, callerVars>>

------------------------------------------------------------------------------
\* event_tx.send(..).await goes at once when there is room and nobody waits.
HasRoom == RoomForEvent /\ waiting = <<>>
Waiter(who, p) == [who |-> who, pos |-> p]

CapFrame == UNCHANGED <<created, taskVars, ei, ei_left, cancelVars, notify_capture, callerVars>>

\* Mutant: after Begin the task waits for the next signal.
SendBeginAndGoOn(p) ==
  IF HasRoom THEN QueueBegin(p) /\ cap' = "select" /\ UNCHANGED waiting
  ELSE waiting' = Append(waiting, Waiter("cap", p)) /\ cap' = "sending" /\ QueueNothing

SendBegin(p) ==
  IF HasRoom THEN QueueBegin(p) /\ cap' = "captured" /\ UNCHANGED waiting
  ELSE waiting' = Append(waiting, Waiter("cap", p)) /\ cap' = "sending" /\ QueueNothing

\* The portal's signal: the position of the barrier becomes current, Begin is
\* sent, and only then is anything else waited for.
TakeActivated ==
  /\ phase = "running" /\ cap = "select" /\ activated # None
  /\ position' = activated
  /\ activated' = None
  /\ SendBegin(activated)
  /\ woken' = FALSE /\ ei_woken' = FALSE
  /\ UNCHANGED <<ei_changed, barriers, grabbed>>
  /\ CapFrame

\* A wake-up in the outer select!: a release is ignored, changed devices end the
\* session.  In the inner one either starts the release.
CapWoken ==
  /\ phase = "running" /\ cap \in {"select", "captured"}
  /\ woken \/ ei_woken
  /\ \E released \in {b \in BOOLEAN : IF b THEN woken ELSE ei_woken} :
       /\ ei_changed' = (ei_changed \/ ~released)
       /\ cap' = IF cap = "captured" THEN "releasing" ELSE IF released THEN "select" ELSE "ended"
  /\ woken' = FALSE /\ ei_woken' = FALSE
  /\ QueueNothing
  /\ UNCHANGED <<position, waiting, portalVars>>
  /\ CapFrame

CapCancelled ==
  /\ phase = "running" /\ cap \in {"select", "captured"} /\ cancel_session
  /\ cap' = "ended"
  /\ QueueNothing
  /\ UNCHANGED <<position, ei_changed, woken, ei_woken, waiting, portalVars>>
  /\ CapFrame

\* release_capture: the portal lets go, or fails to, which ends this task but not
\* the other.
ReleaseCapture ==
  /\ phase = "running" /\ cap = "releasing"
  /\ \/ /\ cap' = IF ei_changed THEN "ended" ELSE "select"
        /\ grabbed' = None
     \/ cap' = "erred" /\ UNCHANGED grabbed
  /\ QueueNothing
  /\ UNCHANGED <<position, ei_changed, woken, ei_woken, waiting, barriers, activated>>
  /\ CapFrame

\* The stream of signals ends.
ActivationClosed ==
  /\ phase = "running" /\ cap = "select"
  /\ cap' = "erred"
  /\ QueueNothing
  /\ UNCHANGED <<position, ei_changed, woken, ei_woken, waiting, portalVars>>
  /\ CapFrame

------------------------------------------------------------------------------
EiFrame == UNCHANGED <<created, taskVars, cap, position, ei_changed, woken, cancel_update, cancelled,
                       notify_capture, callerVars, barriers, grabbed, activated>>

\* The input one libei event stands for (a scroll along both axes is two events) is
\* sent one by one, all of it at the position that was current when it came.
EiInput ==
  /\ position # None
  /\ \E n \in 1 .. PerEiEvent :
       IF HasRoom
       THEN /\ QueueInput(position)
            /\ ei_left' = n - 1
            /\ waiting' = IF n = 1 THEN waiting ELSE <<Waiter("ei", position)>>
       ELSE /\ QueueNothing
            /\ ei_left' = n
            /\ waiting' = Append(waiting, Waiter("ei", position))
  /\ ei' = IF ei_left' = 0 THEN "reading" ELSE "sending"
  /\ UNCHANGED <<cancel_session, ei_woken>>

\* handle_ei_event.  The server sends what it likes when it likes; its events have
\* no effect until they are read, and input none before a signal has given a position.
HandleEiEvent ==
  /\ phase = "running" /\ ei = "reading"
  /\ \/ EiInput
     \/ \* a device or the seat is removed
        /\ ei_woken' = (ei_woken \/ cap \in {"select", "captured"})
        /\ QueueNothing
        /\ UNCHANGED <<ei, ei_left, waiting, cancel_session>>
     \/ \* disconnected
        /\ ei' = "ended" /\ cancel_session' = TRUE
        /\ QueueNothing
        /\ UNCHANGED <<ei_left, waiting, ei_woken>>
  /\ EiFrame

\* The end of cap cancels what ei_task is doing: nobody waits for room any more.
EiCancelled ==
  /\ phase = "running" /\ cap = "ended" /\ ei # "ended"
  /\ ei' = "ended" /\ ei_left' = 0
  /\ waiting' = <<>>
  /\ QueueNothing
  /\ UNCHANGED <<cancel_session, ei_woken>>
  /\ EiFrame

\* Whoever waits longest gets the room InputCapture has made.
Admit ==
  /\ waiting # <<>> /\ RoomForEvent
  /\ LET w == Head(waiting) IN
       \/ /\ w.who = "cap"
          /\ QueueBegin(w.pos)
          /\ cap' = "captured"
          /\ waiting' = Tail(waiting)
          /\ UNCHANGED <<ei, ei_left>>
       \/ /\ w.who = "ei"
          /\ QueueInput(w.pos)
          /\ ei_left' = ei_left - 1
          /\ ei' = IF ei_left = 1 THEN "reading" ELSE "sending"
          /\ waiting' = IF ei_left = 1 THEN Tail(waiting) ELSE Append(Tail(waiting), w)
          /\ UNCHANGED cap
  /\ UNCHANGED <<created, taskVars, position, ei_changed, woken, ei_woken, cancelVars,
                 notify_capture, callerVars, portalVars>>

------------------------------------------------------------------------------
\* The portal (external).
PortalFrame ==
  /\ QueueNothing
  /\ UNCHANGED <<created, taskVars, sessionVars, cancelVars, waiting, notify_capture, callerVars,
                 barriers>>

PortalActivates(p) ==
  /\ phase = "running" /\ p \in barriers
  /\ grabbed = None /\ activated = None
  /\ grabbed' = p /\ activated' = p
  /\ PortalFrame

PortalLetsGo ==
  /\ grabbed # None
  /\ grabbed' = None
  /\ UNCHANGED activated
  /\ PortalFrame

CapStep == TakeActivated \/ CapWoken \/ CapCancelled \/ ReleaseCapture
LoopStep == BeginLoop \/ StartSession \/ TasksJoined \/ EndLoop

LibeiNext ==
  \/ \E p \in Positions : LibeiCreate(p) \/ LibeiDestroy(p) \/ PortalActivates(p)
  \/ RequestSent \/ LibeiRelease \/ LibeiPoll \/ LibeiTerminate \/ TaskAwaited
  \/ LoopStep
  \/ UpdateByRequest \/ UpdateByToken(TRUE)
  \/ CapStep \/ ActivationClosed
  \/ HandleEiEvent \/ EiCancelled
  \/ Admit
  \/ PortalLetsGo

------------------------------------------------------------------------------
\* A release is heard: once InputCapture has seen the Begin of the position that
\* is grabbed and nothing newer is on the way, the task waits for the release, is
\* at it, or ends the session.
ReleaseHeard ==
  (/\ grabbed # None /\ grabbed = begun /\ activated = None
   /\ phase = "running"
   /\ waiting = <<>> /\ events = <<>>)
    => cap \in {"captured", "releasing", "ended", "erred"}

\* The task waits for an answer of the portal, and for nothing else: creating the
\* session, starting it, letting go of the input, or disabling and closing the session.
WaitsForPortal ==
  \/ phase = "loop" /\ libei_clients # {} /\ ~session
  \/ phase = "starting"
  \/ cap = "releasing"
  \/ phase \in {"ended", "erred"} /\ upd = "done"

\* Terminating ends, unless Begin waits for room that nobody makes any more, the
\* portal's task has failed while libei goes on, or the portal does not answer.
TerminateEnds ==
  (caller = "terminating") ~>
    (caller = "terminated" \/ [](cap \in {"sending", "erred"}) \/ []WaitsForPortal)

\* InputCapture waits for the task to take its request, and the task, which was given
\* one and ends the session, for InputCapture to take an event.
WaitingOnEachOther ==
  /\ caller = "calling" /\ notify_capture # <<>>
  /\ upd = "done" /\ cap = "sending" /\ ~RoomForEvent

\* A position InputCapture creates is given a barrier, also when a session for others
\* runs already, unless the position is destroyed again, the capture is over or has
\* failed, InputCapture and the task wait on each other, or the portal does not answer.
CreateTakesEffect ==
  \A p \in Positions :
    (p \in created) ~>
      \/ p \in barriers \/ p \notin created
      \/ phase \in {"erred", "failed", "done"} \/ cap = "erred"
      \/ caller \in {"terminating", "terminated"} \/ WaitingOnEachOther
      \/ []WaitsForPortal
==============================================================================
