----------------------------- MODULE CaptureTask -----------------------------
(***************************************************************************)
(* The capture task and the InputCapture it owns: it watches a barrier per *)
(* registered device, decides which device is being controlled, and sends  *)
(* that device the input that the platform backend captures.               *)
(*                                                                         *)
(* The backend (external) is what its trait promises: a position is        *)
(* grabbed when the pointer crosses a barrier, from then on input arrives  *)
(* as events of that position, release() and destroy() end the grab, and   *)
(* events already queued are still delivered after it.  A send either is   *)
(* handed to the connection or fails (not connected, emulation disabled);  *)
(* acknowledgements of what was handed over arrive late or never.          *)
(*                                                                         *)
(* An event is handled to its end before another arm of the select! runs,  *)
(* so a handler is one action.  A panic is a phase of its own, and so is a *)
(* call of the backend that never returns: one that does has returned by   *)
(* the end of the step that made it.                                       *)
(***************************************************************************)
EXTENDS CaptureChannels

CONSTANTS
  None,              \* no handle, no position
  Keys,              \* scancodes
  ReleaseBind,       \* those that release the capture when all are pressed
  Coalesce,          \* whether the coalescing window is not zero
  MaxBackendEvents,  \* bound: events queued in the backend
  MaxUnacked         \* bound: acknowledgements a device still owes

ASSUME TaskAssumption ==
  /\ None \notin Handles /\ None \notin Positions
  /\ ReleaseBind \subseteq Keys
  /\ Coalesce \in BOOLEAN
  /\ MaxBackendEvents \in Nat
  /\ MaxUnacked \in Nat

VARIABLES
  phase,            \* where run() is, see Phases
  cancelled,        \* the cancellation token
  captures,         \* CaptureTask.captures
  active_client,
  state,
  acc,              \* handles whose motion the coalescer holds; {} iff no deadline
  id_map,           \* InputCapture.id_map, as a set of [handle, pos]
  position_map,     \* InputCapture.position_map
  pending,          \* InputCapture.pending
  pressed_keys,     \* InputCapture.pressed_keys
  parked,           \* the task polls the backend no more until another arm fires
  barriers,         \* external: positions the backend watches
  grabbed,          \* external: the position whose input is captured
  backend_events,   \* external: events the backend has queued
  unacked,          \* external: Enter and Leave not yet acknowledged, per client
  sent              \* history: what the last step handed to the connection

taskVars == <<phase, cancelled, captures, active_client, state, acc>>
inputCaptureVars == <<id_map, position_map, pending, pressed_keys, parked>>
backendVars == <<barriers, grabbed, backend_events>>
captureTaskVars == <<taskVars, inputCaptureVars, backendVars, unacked, sent>>

Phases == {"new",       \* InputCapture::new is pending
           "create",    \* create_captures
           "stalled",   \* in a create() of create_captures that never returns
           "session",   \* do_capture_session
           "hung",      \* in another call of the backend that never returns
           "idle",      \* waiting for Reenable
           "stopped", "panicked"}

\* InputCapture, and with it the backend, is there.
Alive == {"create", "stalled", "session", "hung"}

BeginEvent == [kind |-> "Begin"]
MotionEvent == [kind |-> "Motion"]
KeyEvent(k, down) == [kind |-> "Key", key |-> k, down |-> down]
InputEvents == {MotionEvent} \cup [kind: {"Key"}, key: Keys, down: BOOLEAN]
Events == {BeginEvent} \cup InputEvents

\* A message for a device: src are the handles whose input it carries, active is
\* the active client at the time it is sent.
Message(to, msg, src) ==
  [to |-> to, msg |-> msg, src |-> src, active |-> active_client]
Messages == [to: Handles, msg: {"Enter", "Leave", "Input"}, src: SUBSET Handles,
             active: Handles \cup {None}]

TaskTypeOK ==
  /\ phase \in Phases
  /\ cancelled \in BOOLEAN
  /\ captures \in SUBSET Captures
  /\ active_client \in Handles \cup {None}
  /\ state \in {"WaitingForAck", "Sending"}
  /\ acc \in SUBSET Handles
  /\ id_map \in SUBSET [handle: Handles, pos: Positions]
  /\ position_map \in [Positions -> Seq(Handles)]
  /\ pending \in Seq(Handles \X Events)
  /\ pressed_keys \in SUBSET Keys
  /\ parked \in BOOLEAN
  /\ barriers \in SUBSET Positions
  /\ grabbed \in Positions \cup {None}
  /\ backend_events \in Seq(Positions \X Events)
  /\ unacked \in [ClientHandles -> 0 .. MaxUnacked]
  /\ sent \in Seq(Messages)

TaskInit ==
  /\ phase = "new"
  /\ cancelled = FALSE
  /\ captures = {}
  /\ active_client = None
  /\ state = "WaitingForAck"
  /\ acc = {}
  /\ id_map = {}
  /\ position_map = [p \in Positions |-> <<>>]
  /\ pending = <<>>
  /\ pressed_keys = {}
  /\ parked = FALSE
  /\ barriers = {}
  /\ grabbed = None
  /\ backend_events = <<>>
  /\ unacked = [h \in ClientHandles |-> 0]
  /\ sent = <<>>

------------------------------------------------------------------------------
HandlesOf(S) == {c.handle : c \in S}

\* get_pos and get_type: the captures registered under a handle.  Looking up
\* a handle without one panics ("no such capture").
CapturesOf(h) == {c \in captures : c.handle = h}

\* is_default_capture_at
IsDefaultCaptureAt(p) == \E c \in captures : c.pos = p /\ c.type = "Default"

\* A device owes an acknowledgement for each Enter and Leave it is handed.
Owed(msgs) ==
  [h \in ClientHandles |->
     LET n == unacked[h] + Cardinality({i \in 1 .. Len(msgs) :
                msgs[i].to = h /\ msgs[i].msg \in {"Enter", "Leave"}})
     IN IF n > MaxUnacked THEN MaxUnacked ELSE n]

Hand(msgs) ==
  /\ sent' = msgs
  /\ unacked' = Owed(msgs)

SendNothing == sent' = <<>> /\ UNCHANGED unacked

\* flush_coalesced_motion: the accumulated motion goes to the active client,
\* if there is one and the deltas do not cancel out; whatever happens to it,
\* the coalescer is empty afterwards.  Used as \E motion \in Flushes : ...
Flushes ==
  IF acc # {} /\ active_client # None
  THEN {<<>>, <<Message(active_client, "Input", acc)>>}
  ELSE {<<>>}

\* Mutant: the backend is not told to let go.
KeepGrab == pressed_keys' = {} /\ UNCHANGED grabbed

\* The backend's half of InputCapture::release.
Ungrab == grabbed' = None /\ pressed_keys' = {}

\* release_capture: flush, tell the active client to leave, release.  A send
\* that fails is only logged.
ReleaseCapture ==
  /\ \E motion \in Flushes,
        leave \in IF active_client = None THEN {<<>>}
                  ELSE {<<>>, <<Message(active_client, "Leave", {})>>} :
       Hand(motion \o leave)
  /\ acc' = {}
  /\ active_client' = None
  /\ Ungrab
  /\ UNCHANGED state

------------------------------------------------------------------------------
\* do_capture ends, or unwinds: InputCapture is dropped with all it holds, and
\* its DropGuard reports CaptureDisabled after the events in news.
DropInputCapture(next, news) ==
  /\ capture_events' = (capture_events \o news) \o <<CaptureDisabled>>
  /\ phase' = next
  /\ id_map' = {}
  /\ position_map' = [p \in Positions |-> <<>>]
  /\ pending' = <<>>
  /\ pressed_keys' = {}
  /\ parked' = FALSE
  /\ barriers' = {}
  /\ grabbed' = None
  /\ backend_events' = <<>>
  /\ sent' = <<>>
  /\ UNCHANGED <<cancelled, captures, active_client, state, acc, requests, unacked>>

Panic(news) == DropInputCapture("panicked", news)

\* InputCapture::new succeeds, fails, or is abandoned on cancellation.
NewCapture ==
  /\ phase = "new"
  /\ \/ /\ EventRoomFor(1)
        /\ capture_events' = Append(capture_events, CaptureEnabled)
        /\ phase' = "create"
     \/ /\ phase' = "idle"
        /\ UNCHANGED capture_events
  /\ sent' = <<>>
  /\ UNCHANGED <<cancelled, captures, active_client, state, acc,
                 inputCaptureVars, backendVars, requests, unacked>>

\* InputCapture::create.
CreateBarrier(h, p) ==
  /\ id_map' = id_map \cup {[handle |-> h, pos |-> p]}
  /\ position_map' = [position_map EXCEPT ![p] = Append(@, h)]
  /\ barriers' = barriers \cup {p}

\* create_captures: one barrier per step, as each is awaited; then, or as
\* soon as the token is cancelled, even within a create(), the session begins.
CreateCaptures ==
  /\ \/ \E c \in captures :
          /\ phase = "create"
          /\ c.handle \notin HandlesOf(id_map)
          /\ CreateBarrier(c.handle, c.pos)
          /\ UNCHANGED phase
     \/ /\ \/ phase = "create" /\ HandlesOf(captures) \subseteq HandlesOf(id_map)
           \/ phase \in {"create", "stalled"} /\ cancelled
        /\ phase' = "session"
        /\ UNCHANGED <<id_map, position_map, barriers>>
  /\ sent' = <<>>
  /\ UNCHANGED <<cancelled, captures, active_client, state, acc, pending, pressed_keys,
                 parked, grabbed, backend_events, channelVars, unacked>>

\* The backend fails while barriers are created, or closes or fails later.
CaptureExits ==
  /\ phase \in {"create", "session"}
  /\ DropInputCapture("idle", <<>>)

\* A call of the backend never returns.  create() in create_captures is raced with
\* the token; terminate(), after an error there or after the session, and what the
\* arms of the session call are not.
BackendHangs ==
  /\ \/ phase = "create" /\ phase' \in {"stalled", "hung"}
     \/ phase = "session" /\ phase' = "hung"
  /\ sent' = <<>>
  /\ UNCHANGED <<cancelled, captures, active_client, state, acc, inputCaptureVars,
                 backendVars, channelVars, unacked>>

Cancel ==
  /\ ~cancelled
  /\ cancelled' = TRUE
  /\ UNCHANGED <<phase, captures, active_client, state, acc, inputCaptureVars,
                 backendVars, channelVars, unacked, sent>>

\* Mutant: run() does not watch the token while it waits for Reenable.
NoticeInSession ==
  /\ cancelled
  /\ phase = "session"
  /\ DropInputCapture("idle", <<>>)

\* The token is noticed: the session is left, terminate() returns, or run() does.
NoticeCancelled ==
  /\ cancelled
  /\ \/ phase = "session" /\ DropInputCapture("idle", <<>>)
     \/ /\ phase = "new" \/ phase = "idle"
        /\ phase' = IF phase = "new" THEN "idle" ELSE "stopped"
        /\ sent' = <<>>
        /\ UNCHANGED <<cancelled, captures, active_client, state, acc,
                       inputCaptureVars, backendVars, channelVars, unacked>>

------------------------------------------------------------------------------
\* run()'s inner loop, no InputCapture alive.
IdleRequest ==
  /\ phase = "idle"
  /\ requests # <<>>
  /\ requests' = Tail(requests)
  /\ LET r == Head(requests)
     IN /\ captures' = CASE r.op = "Create" -> captures \cup {Capture(r.handle, r.pos, r.type)}
                         [] r.op = "Destroy" -> captures \ CapturesOf(r.handle)
                         [] OTHER -> captures
        /\ phase' = IF r.op = "Reenable" THEN "new" ELSE phase
  /\ sent' = <<>>
  /\ UNCHANGED <<cancelled, active_client, state, acc, inputCaptureVars, backendVars,
                 capture_events, unacked>>

\* The arms of do_capture_session that are not the backend's wake the task up.
Awake == parked' = FALSE

\* Release.
SessionRelease ==
  /\ phase = "session"
  /\ requests # <<>> /\ Head(requests) = ReleaseRequest
  /\ requests' = Tail(requests)
  /\ ReleaseCapture
  /\ Awake
  /\ UNCHANGED <<phase, cancelled, captures, id_map, position_map, pending,
                 barriers, backend_events, capture_events>>

\* Reenable: already active.
SessionReenable ==
  /\ phase = "session"
  /\ requests # <<>> /\ Head(requests) = ReenableRequest
  /\ requests' = Tail(requests)
  /\ Awake
  /\ sent' = <<>>
  /\ UNCHANGED <<taskVars, id_map, position_map, pending, pressed_keys, backendVars,
                 capture_events, unacked>>

\* Create: InputCapture::create asserts that the handle is new.
SessionCreate ==
  /\ phase = "session"
  /\ requests # <<>>
  /\ LET r == Head(requests)
     IN /\ r.op = "Create"
        /\ IF r.handle \in HandlesOf(id_map)
           THEN Panic(<<>>)
           ELSE /\ requests' = Tail(requests)
                /\ captures' = captures \cup {Capture(r.handle, r.pos, r.type)}
                /\ CreateBarrier(r.handle, r.pos)
                /\ Awake
                /\ sent' = <<>>
                /\ UNCHANGED <<phase, cancelled, active_client, state, acc, pending,
                               pressed_keys, grabbed, backend_events, capture_events, unacked>>

\* Destroy: InputCapture::destroy expects the handle.  The barrier goes with
\* the last handle at its position.
SessionDestroy ==
  /\ phase = "session"
  /\ requests # <<>>
  /\ LET r == Head(requests)
     IN /\ r.op = "Destroy"
        /\ IF r.handle \notin HandlesOf(id_map)
           THEN Panic(<<>>)
           ELSE \E m \in id_map : \E i \in DOMAIN position_map[m.pos] :
                  /\ m.handle = r.handle
                  /\ position_map[m.pos][i] = r.handle
                  /\ requests' = Tail(requests)
                  /\ captures' = captures \ CapturesOf(r.handle)
                  /\ id_map' = id_map \ {m}
                  /\ position_map' = [position_map EXCEPT
                                        ![m.pos] = SubSeq(@, 1, i - 1) \o SubSeq(@, i + 1, Len(@))]
                  /\ IF position_map'[m.pos] = <<>>
                     THEN /\ barriers' = barriers \ {m.pos}
                          /\ grabbed' = IF grabbed = m.pos THEN None ELSE grabbed
                     ELSE UNCHANGED <<barriers, grabbed>>
                  /\ Awake
                  /\ sent' = <<>>
                  /\ UNCHANGED <<phase, cancelled, active_client, state, acc, pending,
                                 pressed_keys, backend_events, capture_events, unacked>>

\* The coalescing window has passed.
FlushTimer ==
  /\ phase = "session"
  /\ acc # {}
  /\ Awake
  /\ \/ /\ \E motion \in Flushes : Hand(motion)
        /\ acc' = {}
        /\ UNCHANGED <<active_client, state, grabbed, pressed_keys>>
     \/ \* the send failed: release_capture, with nothing left to flush
        /\ active_client # None
        /\ \E leave \in {<<>>, <<Message(active_client, "Leave", {})>>} : Hand(leave)
        /\ acc' = {}
        /\ active_client' = None
        /\ Ungrab
        /\ UNCHANGED state
  /\ UNCHANGED <<phase, cancelled, captures, id_map, position_map, pending,
                 barriers, backend_events, channelVars>>

\* conn.recv(): only what the active client says counts, or anyone if none is.
ReceiveAck(h) ==
  /\ phase = "session"
  /\ unacked[h] > 0
  /\ unacked' = [unacked EXCEPT ![h] = @ - 1]
  /\ state' = IF active_client \in {None, h} THEN "Sending" ELSE state
  /\ Awake
  /\ sent' = <<>>
  /\ UNCHANGED <<phase, cancelled, captures, active_client, acc, id_map, position_map,
                 pending, pressed_keys, backendVars, channelVars>>

ReceiveLeave(h) ==
  /\ phase = "session"
  /\ active_client \in {None, h}
  /\ ReleaseCapture
  /\ Awake
  /\ UNCHANGED <<phase, cancelled, captures, id_map, position_map, pending,
                 barriers, backend_events, channelVars>>

------------------------------------------------------------------------------
\* The backend: the pointer crosses a barrier, captured input arrives.
Cross(p) ==
  /\ phase \in Alive
  /\ p \in barriers /\ grabbed = None
  /\ Len(backend_events) < MaxBackendEvents
  /\ grabbed' = p
  /\ backend_events' = Append(backend_events, <<p, BeginEvent>>)
  /\ sent' = <<>>
  /\ UNCHANGED <<taskVars, inputCaptureVars, barriers, channelVars, unacked>>

UserInput(e) ==
  /\ phase \in Alive
  /\ grabbed # None
  /\ Len(backend_events) < MaxBackendEvents
  /\ backend_events' = Append(backend_events, <<grabbed, e>>)
  /\ sent' = <<>>
  /\ UNCHANGED <<taskVars, inputCaptureVars, barriers, grabbed, channelVars, unacked>>

\* What a send may come to: handed to the connection, or an error.
Outcomes(to, msg, src) ==
  {[msgs |-> <<Message(to, msg, src)>>, ok |-> TRUE], [msgs |-> <<>>, ok |-> FALSE]}

\* capture.release() if the send failed.  active_client and state stay.
UngrabUnless(ok, pressed) ==
  /\ grabbed' = IF ok THEN grabbed ELSE None
  /\ pressed_keys' = IF ok THEN pressed ELSE {}

\* Mutant: the grab is kept, although nobody is controlled.
IgnoreEnterOnly(p, pressed) ==
  /\ UngrabUnless(TRUE, pressed)
  /\ SendNothing
  /\ UNCHANGED <<active_client, state, acc>>

\* An event of an incoming device's barrier, which is at p.
HandleEnterOnly(p, pressed) ==
  /\ UngrabUnless(IsDefaultCaptureAt(p), pressed)
  /\ SendNothing
  /\ UNCHANGED <<active_client, state, acc>>

\* Mutants: a client that is active already stays so; and what is accumulated is
\* not flushed before the switch.
BeginBeside(h, pressed) ==
  \E enter \in Outcomes(h, "Enter", {}) :
    /\ Hand(enter.msgs)
    /\ active_client' = IF active_client = None THEN h ELSE active_client
    /\ state' = IF active_client = None THEN "WaitingForAck" ELSE state
    /\ UNCHANGED acc
    /\ UngrabUnless(enter.ok, pressed)

BeginUnflushed(h, pressed) ==
  \E enter \in Outcomes(h, "Enter", {}) :
    /\ Hand(enter.msgs)
    /\ state' = IF h # active_client THEN "WaitingForAck" ELSE state
    /\ active_client' = h
    /\ UNCHANGED acc
    /\ UngrabUnless(enter.ok, pressed)

\* Begin of a client: it becomes the active one, and is sent Enter.
HandleBegin(h, pressed) ==
  \E motion \in IF h # active_client THEN Flushes ELSE {<<>>},
     enter \in Outcomes(h, "Enter", {}) :
    /\ Hand(motion \o enter.msgs)
    /\ acc' = IF h # active_client THEN {} ELSE acc
    /\ state' = IF h # active_client THEN "WaitingForAck" ELSE state
    /\ active_client' = h
    /\ UngrabUnless(enter.ok, pressed)

\* Input before the acknowledgement: Enter again, the input is dropped.
HandleUnacked(h, pressed) ==
  /\ state = "WaitingForAck"
  /\ \E enter \in Outcomes(h, "Enter", {}) :
       Hand(enter.msgs) /\ UngrabUnless(enter.ok, pressed)
  /\ UNCHANGED <<active_client, state, acc>>

\* Input while sending: motion is accumulated, anything else flushes what is
\* accumulated and follows it.  If the flush fails, the event is lost.
HandleSending(h, e, pressed) ==
  /\ state = "Sending"
  /\ IF Coalesce /\ e = MotionEvent
     THEN /\ acc' = acc \cup {h}
          /\ SendNothing
          /\ UngrabUnless(TRUE, pressed)
     ELSE /\ acc' = {}
          /\ \E motion \in {[msgs |-> <<>>, ok |-> TRUE]}
                              \cup (IF acc = {} THEN {} ELSE Outcomes(h, "Input", acc)),
                input \in Outcomes(h, "Input", {h}) :
               /\ Hand(motion.msgs \o (IF motion.ok THEN input.msgs ELSE <<>>))
               /\ UngrabUnless(motion.ok /\ input.ok, pressed)
  /\ UNCHANGED <<active_client, state>>

\* handle_capture_event: the release bind comes first, then the lookup of the
\* handle, then it depends on the capture.
HandleKnown(h, e, pressed) ==
  \/ /\ ReleaseBind \subseteq pressed
     /\ ReleaseCapture
     /\ UNCHANGED capture_events
  \/ /\ ~(ReleaseBind \subseteq pressed)
     /\ EventRoomFor(2)
     /\ LET begin == e = BeginEvent
            news == IF begin THEN <<CaptureBegin(h)>> ELSE <<>>
            entered == IF begin /\ h # active_client THEN <<ClientEntered(h)>> ELSE <<>>
        IN \E c \in CapturesOf(h) :
             \/ /\ c.type = "EnterOnly"
                /\ HandleEnterOnly(c.pos, pressed)
                /\ capture_events' = capture_events \o news
             \/ /\ c.type = "Default"
                /\ \/ begin /\ HandleBegin(h, pressed)
                   \/ ~begin /\ HandleUnacked(h, pressed)
                   \/ ~begin /\ HandleSending(h, e, pressed)
                /\ capture_events' = capture_events \o news \o entered

\* InputCapture yields event e for handle h, pressed are then the keys that are
\* down, rest and queued what is left pending and in the backend.  A handle
\* that is not registered panics; CaptureBegin is out by then.
Deliver(h, e, pressed, rest, queued) ==
  IF CapturesOf(h) = {} /\ ~(ReleaseBind \subseteq pressed)
  THEN Panic(IF e = BeginEvent THEN <<CaptureBegin(h)>> ELSE <<>>)
  ELSE /\ HandleKnown(h, e, pressed)
       /\ pending' = rest
       /\ backend_events' = queued
       /\ UNCHANGED <<phase, cancelled, captures, id_map, position_map, parked,
                      barriers, requests>>

\* poll_next with an event left over for another handle of the position.
PollPending ==
  /\ phase = "session" /\ ~parked
  /\ pending # <<>>
  /\ LET p == Head(pending)
     IN Deliver(p[1], p[2], pressed_keys, Tail(pending), backend_events)

\* update_pressed_keys
Pressed(e) ==
  {k \in Keys : \/ e = KeyEvent(k, TRUE)
                \/ k \in pressed_keys /\ e # KeyEvent(k, FALSE)}

\* poll_next with an event of the backend, for all handles at its position.
\* Without any, the event is lost and Pending is returned although no waker
\* is registered: the task is parked.
PollBackend ==
  /\ phase = "session" /\ ~parked
  /\ pending = <<>>
  /\ backend_events # <<>>
  /\ LET e == Head(backend_events)[2]
         ids == position_map[Head(backend_events)[1]]
         pressed == Pressed(e)
     IN IF ids = <<>>
        THEN /\ backend_events' = Tail(backend_events)
             /\ parked' = TRUE
             /\ pressed_keys' = pressed
             /\ sent' = <<>>
             /\ UNCHANGED <<taskVars, id_map, position_map, pending, barriers, grabbed,
                            channelVars, unacked>>
        ELSE Deliver(ids[1], e, pressed,
                     [i \in 1 .. Len(ids) - 1 |-> <<ids[i + 1], e>>],
                     Tail(backend_events))

CaptureTaskNext ==
  \/ NewCapture \/ CreateCaptures \/ CaptureExits \/ BackendHangs
  \/ Cancel \/ NoticeCancelled
  \/ IdleRequest
  \/ SessionRelease \/ SessionReenable \/ SessionCreate \/ SessionDestroy
  \/ FlushTimer
  \/ \E h \in ClientHandles : ReceiveAck(h) \/ ReceiveLeave(h)
  \/ \E p \in Positions : Cross(p)
  \/ \E e \in InputEvents : UserInput(e)
  \/ PollPending \/ PollBackend
==============================================================================
