----------------------------- MODULE RoutingProofs -----------------------------
(***************************************************************************)
(* What the capture task captures goes to the device it was meant for.     *)
(*                                                                         *)
(* First, of every configuration: only clients are controlled.  The type    *)
(* of a capture follows from its handle, in the channel as in the task.    *)
(*                                                                         *)
(* Then, between two changes of the configuration: the input of one client *)
(* never goes to another.  The argument follows the events on their way:   *)
(* a grab queues Begin before any input, so whoever is active, or has      *)
(* motion in the coalescer, when an input is delivered stands where that    *)
(* input was captured, unless a Begin comes first or nobody there hears it. *)
(***************************************************************************)
EXTENDS AgreementProofs

USE DEF channelVars, registryVars, captureTaskVars, taskVars, inputCaptureVars, backendVars

------------------------------------------------------------------------------
\* The barrier of a client is a Default capture, that of an incoming device
\* an EnterOnly one.
ProperRequests == {r \in Requests : r.op = "Create" => (r.type = "Default" <=> r.handle \in ClientHandles)}
ProperCaptures == {c \in Captures : c.type = "Default" <=> c.handle \in ClientHandles}
ClientMessages == {m \in Messages : m.to \in ClientHandles}

Proper ==
  /\ requests \in Seq(ProperRequests)
  /\ captures \subseteq ProperCaptures
  /\ active_client \in ClientHandles \cup {None}
  /\ sent \in Seq(ClientMessages)

LEMMA ProperFields ==
  /\ \A h \in Handles : DestroyRequest(h) \in ProperRequests
  /\ \A h \in ClientHandles, p \in Positions : CreateRequest(h, p, "Default") \in ProperRequests
  /\ \A h \in EnterHandles, p \in Positions : CreateRequest(h, p, "EnterOnly") \in ProperRequests
  /\ ReleaseRequest \in ProperRequests /\ ReenableRequest \in ProperRequests
<1>1. \A h \in Handles : DestroyRequest(h) \in Requests /\ DestroyRequest(h).op = "Destroy"
  BY RequestFields
<1>2. \A h \in Handles, p \in Positions, t \in CaptureTypes :
        /\ CreateRequest(h, p, t) \in Requests
        /\ CreateRequest(h, p, t).handle = h /\ CreateRequest(h, p, t).type = t
  BY RequestFields
<1>3. /\ ReleaseRequest \in Requests /\ ReenableRequest \in Requests
      /\ ReleaseRequest.op # "Create" /\ ReenableRequest.op # "Create"
  BY DEF Requests, ReleaseRequest, ReenableRequest
<1>4. "Default" \in CaptureTypes /\ "EnterOnly" \in CaptureTypes /\ "Default" # "EnterOnly"
  BY DEF CaptureTypes
<1>5. ClientHandles \subseteq Handles /\ EnterHandles \subseteq Handles
  BY DEF Handles
<1> QED BY <1>1, <1>2, <1>3, <1>4, <1>5, HandlesApart DEF ProperRequests

\* What activating a client sends.
LEMMA ActivateProper ==
  ASSUME NEW h \in ClientHandles,
         NEW actives \in SUBSET ClientHandles,
         NEW where \in [ClientHandles -> Positions]
  PROVE  Activate(h, actives, where).sends \in Seq(ProperRequests)
<1> DEFINE evicted == ClientAt(where[h], actives, where) \ {h}
           evict == IF evicted = {} THEN <<>>
                    ELSE <<DestroyRequest(CHOOSE o \in evicted : TRUE)>>
           create == IF h \in actives THEN <<>>
                     ELSE <<CreateRequest(h, where[h], "Default")>>
<1>1. evicted \subseteq ClientHandles
  BY DEF ClientAt
<1>2. evict \in Seq(ProperRequests)
  <2>1. CASE evicted = {}
    BY <2>1
  <2>2. CASE evicted # {}
    <3>1. (CHOOSE o \in evicted : TRUE) \in Handles
      BY <1>1, <2>2 DEF Handles
    <3> QED BY <3>1, ProperFields, <2>2
  <2> QED BY <2>1, <2>2
<1>3. create \in Seq(ProperRequests)
  BY ProperFields
<1>4. Activate(h, actives, where).sends = evict \o create
  BY DEF Activate
<1>5. evict \o create \in Seq(ProperRequests)
  BY <1>2, <1>3
<1> QED BY <1>4, <1>5

LEMMA ServiceProper ==
  ASSUME TypeOK, requests \in Seq(ProperRequests), RegistryNext
  PROVE  requests' \in Seq(ProperRequests)
<1> DEFINE Goal == requests' \in Seq(ProperRequests)
<1>0. /\ active \in SUBSET ClientHandles /\ pos \in [ClientHandles -> Positions]
      /\ booting \in SUBSET ClientHandles /\ incoming_conn_info \in SUBSET Incoming
      /\ next_trigger_handle \in 0 .. MaxTriggers
  BY DEF TypeOK, RegistryTypeOK
<1>1. \A i \in incoming_conn_info : DestroyRequest(i.handle) \in ProperRequests
  BY <1>0, ProperFields DEF Incoming, Handles
<1>2. \A h \in ClientHandles : DestroyRequest(h) \in ProperRequests
  BY ProperFields DEF Handles
<1>3. ASSUME NEW a \in Addrs, NEW p \in Positions, NEW f \in Fingerprints,
             next_trigger_handle < MaxTriggers
      PROVE  BarrierFor(NewIncoming(a, p, f)) \in ProperRequests
  <2>1. EnterHandleBegin + next_trigger_handle \in EnterHandles
    BY <1>0, <1>3, ChannelAssumption DEF EnterHandles
  <2> QED BY <2>1, ProperFields DEF NewIncoming, BarrierFor
<1>4. ASSUME Boot PROVE Goal
  <2>1. PICK h \in booting : requests' = requests \o Activate(h, active, pos).sends
    BY <1>4 DEF Boot
  <2>2. Activate(h, active, pos).sends \in Seq(ProperRequests)
    BY <1>0, ActivateProper
  <2> QED BY <2>1, <2>2
<1>5. ASSUME NEW h \in ClientHandles, RemoveClient(h) \/ DeactivateClient(h) PROVE Goal
  <2>1. requests' = requests \/ requests' = Append(requests, DestroyRequest(h))
    BY <1>5 DEF RemoveClient, DeactivateClient
  <2> QED BY <1>2, <2>1
<1>6. ASSUME NEW h \in ClientHandles, ActivateClient(h) PROVE Goal
  <2>1. requests' = requests \o Activate(h, active, pos).sends
    BY <1>6 DEF ActivateClient
  <2>2. Activate(h, active, pos).sends \in Seq(ProperRequests)
    BY <1>0, ActivateProper
  <2> QED BY <2>1, <2>2
<1>7. ASSUME NEW h \in ClientHandles, NEW p \in Positions, UpdatePos(h, p) PROVE Goal
  <2>1. pos' \in [ClientHandles -> Positions]
    BY <1>0, <1>7 DEF UpdatePos
  <2>2. CASE h \in active
    <3> DEFINE r == Activate(h, active \ {h}, pos')
    <3>1. r.sends \in Seq(ProperRequests)
      BY <1>0, <2>1, ActivateProper
    <3>2. <<DestroyRequest(h)>> \in Seq(ProperRequests)
      BY <1>2
    <3>3. requests' = requests \o <<DestroyRequest(h)>> \o r.sends
      BY <1>7, <2>2 DEF UpdatePos
    <3> HIDE DEF r
    <3> QED BY <3>1, <3>2, <3>3
  <2>3. CASE h \notin active
    BY <1>7, <2>3 DEF UpdatePos
  <2> QED BY <2>2, <2>3
<1>8. ASSUME NEW a \in Addrs, NEW p \in Positions, NEW f \in Fingerprints, EnterNew(a, p, f)
      PROVE  Goal
  BY <1>3, <1>8 DEF EnterNew
<1>9. ASSUME NEW a \in Addrs, NEW p \in Positions, NEW f \in Fingerprints, EnterAgain(a, p, f)
      PROVE  Goal
  <2> DEFINE b == BarrierFor(NewIncoming(a, p, f))
  <2>1. PICK i \in incoming_conn_info : requests' = requests \o <<DestroyRequest(i.handle), b>>
    BY <1>9 DEF EnterAgain
  <2>2. b \in ProperRequests /\ DestroyRequest(i.handle) \in ProperRequests
    BY <1>1, <1>3, <1>9 DEF EnterAgain
  <2> HIDE DEF b
  <2> QED BY <2>1, <2>2
<1>10. ASSUME NEW a \in Addrs, Disconnected(a) PROVE Goal
  BY <1>1, <1>10 DEF Disconnected
<1>11. ASSUME ReleaseNotify \/ EnableCapture PROVE Goal
  BY <1>11, ProperFields DEF ReleaseNotify, EnableCapture, Notify
<1>12. AddClient \/ ServiceCaptureEvent \/ (\E a \in Addrs : TakeLeave(a)) => Goal
  BY DEF AddClient, ServiceCaptureEvent, TakeLeave
<1> QED BY <1>4, <1>5, <1>6, <1>7, <1>8, <1>9, <1>10, <1>11, <1>12 DEF RegistryNext

------------------------------------------------------------------------------
\* What a step of the capture task may send, S being the messages allowed: the
\* accumulated motion and Leave go to the active client; Enter and input go to
\* a Default capture, and input only when the poll yields input for it.
Yields(h, e) ==
  /\ phase = "session"
  /\ \/ pending # <<>> /\ Head(pending)[1] = h /\ Head(pending)[2] = e
     \/ /\ pending = <<>> /\ backend_events # <<>>
        /\ position_map[Head(backend_events)[1]] # <<>>
        /\ position_map[Head(backend_events)[1]][1] = h
        /\ Head(backend_events)[2] = e

MayRelease(S) ==
  active_client # None =>
    /\ acc # {} => Message(active_client, "Input", acc) \in S
    /\ Message(active_client, "Leave", {}) \in S

MayHandle(S, h, e) ==
  \A c \in CapturesOf(h) : c.type = "Default" =>
    /\ Message(h, "Enter", {}) \in S
    /\ e # BeginEvent => /\ acc # {} => Message(h, "Input", acc) \in S
                         /\ Message(h, "Input", {h}) \in S

LEMMA OutcomeIn ==
  ASSUME NEW S, NEW to, NEW msg, NEW src, Message(to, msg, src) \in S
  PROVE  \A o \in Outcomes(to, msg, src) : o.msgs \in Seq(S)
<1> TAKE o \in Outcomes(to, msg, src)
<1> DEFINE m == Message(to, msg, src)
<1>1. o = [msgs |-> <<m>>, ok |-> TRUE] \/ o = [msgs |-> <<>>, ok |-> FALSE]
  BY DEF Outcomes
<1> HIDE DEF m
<1>2. o.msgs = <<>> \/ o.msgs = <<m>>
  BY <1>1
<1>3. m \in S
  BY DEF m
<1> QED BY <1>2, <1>3, OneOrNone

LEMMA FlushIn ==
  ASSUME NEW S, MayRelease(S)
  PROVE  \A motion \in Flushes : motion \in Seq(S)
<1> TAKE motion \in Flushes
<1>1. CASE acc # {} /\ active_client # None
  <2>1. Message(active_client, "Input", acc) \in S
    BY <1>1 DEF MayRelease
  <2>2. motion = <<>> \/ motion = <<Message(active_client, "Input", acc)>>
    BY <1>1 DEF Flushes
  <2> QED BY <2>1, <2>2, OneOrNone
<1>2. CASE ~(acc # {} /\ active_client # None)
  <2>1. motion = <<>>
    BY <1>2 DEF Flushes
  <2> QED BY <2>1
<1> QED BY <1>1, <1>2

LEMMA LeaveIn ==
  ASSUME NEW S, MayRelease(S)
  PROVE  \A leave \in IF active_client = None THEN {<<>>}
                      ELSE {<<>>, <<Message(active_client, "Leave", {})>>} : leave \in Seq(S)
<1> TAKE leave \in IF active_client = None THEN {<<>>}
                   ELSE {<<>>, <<Message(active_client, "Leave", {})>>}
<1>1. CASE active_client = None
  <2>1. leave = <<>>
    BY <1>1
  <2> QED BY <2>1
<1>2. CASE active_client # None
  <2>1. Message(active_client, "Leave", {}) \in S
    BY <1>2 DEF MayRelease
  <2>2. leave = <<>> \/ leave = <<Message(active_client, "Leave", {})>>
    BY <1>2
  <2> QED BY <2>1, <2>2, OneOrNone
<1> QED BY <1>1, <1>2

LEMMA ReleaseSends ==
  ASSUME NEW S, MayRelease(S), ReleaseCapture
  PROVE  sent' \in Seq(S)
<1>1. PICK motion \in Flushes,
           leave \in IF active_client = None THEN {<<>>}
                    ELSE {<<>>, <<Message(active_client, "Leave", {})>>} :
        Hand(motion \o leave)
  BY DEF ReleaseCapture
<1>2. motion \in Seq(S) /\ leave \in Seq(S)
  BY FlushIn, LeaveIn
<1>3. sent' = motion \o leave
  BY <1>1 DEF Hand
<1> QED BY <1>2, <1>3

LEMMA HandleSends ==
  ASSUME NEW S, NEW h, NEW e, NEW pressed, MayRelease(S), MayHandle(S, h, e),
         HandleKnown(h, e, pressed)
  PROVE  sent' \in Seq(S)
<1> DEFINE Goal == sent' \in Seq(S)
<1>0. sent' = <<>> => Goal
  OBVIOUS
<1>1. CASE ReleaseCapture
  BY <1>1, ReleaseSends
<1>2. ASSUME NEW c \in CapturesOf(h), HandleEnterOnly(c.pos, pressed) PROVE Goal
  BY <1>0, <1>2 DEF HandleEnterOnly, SendNothing
<1>3. ASSUME NEW c \in CapturesOf(h), c.type = "Default", HandleBegin(h, pressed) PROVE Goal
  <2>1. PICK motion \in IF h # active_client THEN Flushes ELSE {<<>>},
             enter \in Outcomes(h, "Enter", {}) : Hand(motion \o enter.msgs)
    BY <1>3 DEF HandleBegin
  <2>2. motion \in Seq(S)
    <3>1. CASE h # active_client
      BY <2>1, <3>1, FlushIn
    <3>2. CASE h = active_client
      <4>1. motion = <<>>
        BY <2>1, <3>2
      <4> QED BY <4>1
    <3> QED BY <3>1, <3>2
  <2>3. Message(h, "Enter", {}) \in S
    BY <1>3 DEF MayHandle
  <2>4. enter.msgs \in Seq(S)
    BY <2>1, <2>3, OutcomeIn
  <2>5. sent' = motion \o enter.msgs
    BY <2>1 DEF Hand
  <2> QED BY <2>2, <2>4, <2>5
<1>4. ASSUME NEW c \in CapturesOf(h), c.type = "Default", HandleUnacked(h, pressed) PROVE Goal
  <2>1. PICK enter \in Outcomes(h, "Enter", {}) : Hand(enter.msgs)
    BY <1>4 DEF HandleUnacked
  <2>2. Message(h, "Enter", {}) \in S
    BY <1>4 DEF MayHandle
  <2>3. enter.msgs \in Seq(S)
    BY <2>1, <2>2, OutcomeIn
  <2> QED BY <2>1, <2>3 DEF Hand
<1>5. ASSUME NEW c \in CapturesOf(h), c.type = "Default", e # BeginEvent,
             HandleSending(h, e, pressed)
      PROVE  Goal
  <2>1. CASE Coalesce /\ e = MotionEvent
    BY <1>0, <1>5, <2>1 DEF HandleSending, SendNothing
  <2>2. CASE ~(Coalesce /\ e = MotionEvent)
    <3>1. PICK motion \in {[msgs |-> <<>>, ok |-> TRUE]}
                             \cup (IF acc = {} THEN {} ELSE Outcomes(h, "Input", acc)),
               input \in Outcomes(h, "Input", {h}) :
            Hand(motion.msgs \o (IF motion.ok THEN input.msgs ELSE <<>>))
      BY <1>5, <2>2 DEF HandleSending
    <3>2. motion.msgs \in Seq(S)
      <4>1. CASE motion = [msgs |-> <<>>, ok |-> TRUE]
        <5>1. motion.msgs = <<>>
          BY <4>1
        <5> QED BY <5>1
      <4>2. CASE acc # {} /\ motion \in Outcomes(h, "Input", acc)
        <5>1. Message(h, "Input", acc) \in S
          BY <1>5, <4>2 DEF MayHandle
        <5> QED BY <4>2, <5>1, OutcomeIn
      <4> QED BY <3>1, <4>1, <4>2
    <3>3. Message(h, "Input", {h}) \in S
      BY <1>5 DEF MayHandle
    <3>4. input.msgs \in Seq(S)
      BY <3>1, <3>3, OutcomeIn
    <3>5. (IF motion.ok THEN input.msgs ELSE <<>>) \in Seq(S)
      BY <3>4
    <3>6. sent' = motion.msgs \o (IF motion.ok THEN input.msgs ELSE <<>>)
      BY <3>1 DEF Hand
    <3> QED BY <3>2, <3>5, <3>6
  <2> QED BY <2>1, <2>2
<1> QED BY <1>1, <1>2, <1>3, <1>4, <1>5 DEF HandleKnown

LEMMA TaskSends ==
  ASSUME NEW S, TaskTypeOK, sent \in Seq(S), MayRelease(S),
         \A h \in Handles, e \in Events : Yields(h, e) => MayHandle(S, h, e),
         CaptureTaskNext
  PROVE  sent' \in Seq(S)
<1> DEFINE Goal == sent' \in Seq(S)
<1>0. sent' = <<>> => Goal
  OBVIOUS
<1>1. \A next, news : DropInputCapture(next, news) => Goal
  BY <1>0 DEF DropInputCapture
<1>2. NewCapture \/ CreateCaptures \/ IdleRequest \/ SessionReenable => Goal
  BY <1>0 DEF NewCapture, CreateCaptures, IdleRequest, SessionReenable
<1>3. BackendHangs \/ CaptureExits \/ NoticeCancelled \/ SessionCreate \/ SessionDestroy => Goal
  BY <1>0, <1>1 DEF BackendHangs, CaptureExits, NoticeCancelled, SessionCreate, SessionDestroy, Panic
<1>4. Cancel => Goal
  BY DEF Cancel
<1>5. ASSUME SessionRelease PROVE Goal
  BY <1>5, ReleaseSends DEF SessionRelease
<1>6. ASSUME FlushTimer PROVE Goal
  <2>1. CASE \E motion \in Flushes : Hand(motion)
    BY <2>1, FlushIn DEF Hand
  <2>2. CASE active_client # None /\ \E leave \in {<<>>, <<Message(active_client, "Leave", {})>>} : Hand(leave)
    BY <2>2, LeaveIn DEF Hand
  <2> QED BY <1>6, <2>1, <2>2 DEF FlushTimer
<1>7. ASSUME NEW h \in ClientHandles, ReceiveAck(h) \/ ReceiveLeave(h) PROVE Goal
  BY <1>0, <1>7, ReleaseSends DEF ReceiveAck, ReceiveLeave
<1>8. \A p \in Positions : Cross(p) => Goal
  BY <1>0 DEF Cross
<1>9. \A e \in InputEvents : UserInput(e) => Goal
  BY <1>0 DEF UserInput
<1>10. ASSUME NEW h \in Handles, NEW e \in Events, Yields(h, e),
              NEW pressed, NEW rest, NEW queued, Deliver(h, e, pressed, rest, queued)
       PROVE  Goal
  <2>1. MayHandle(S, h, e)
    BY <1>10
  <2> QED BY <1>1, <1>10, <2>1, HandleSends DEF Deliver, Panic
<1>11. ASSUME PollPending PROVE Goal
  <2>1. pending \in Seq(Handles \X Events)
    BY DEF TaskTypeOK
  <2>2. pending # <<>> /\ phase = "session"
    BY <1>11 DEF PollPending
  <2>3. Head(pending) \in Handles \X Events
    BY <2>1, <2>2
  <2> DEFINE h == Head(pending)[1]
             e == Head(pending)[2]
  <2>4. h \in Handles /\ e \in Events
    BY <2>3
  <2>5. Yields(h, e)
    BY <2>2 DEF Yields
  <2>6. Deliver(h, e, pressed_keys, Tail(pending), backend_events)
    BY <1>11 DEF PollPending
  <2> QED BY <1>10, <2>4, <2>5, <2>6
<1>12. ASSUME PollBackend PROVE Goal
  <2> DEFINE b == Head(backend_events)
             ids == position_map[b[1]]
  <2>1. backend_events \in Seq(Positions \X Events) /\ position_map \in [Positions -> Seq(Handles)]
    BY DEF TaskTypeOK
  <2>2. backend_events # <<>> /\ phase = "session" /\ pending = <<>>
    BY <1>12 DEF PollBackend
  <2>3. b \in Positions \X Events
    BY <2>1, <2>2
  <2>4. b[1] \in Positions /\ b[2] \in Events
    BY <2>3
  <2>5. ids \in Seq(Handles)
    BY <2>1, <2>4
  <2>6. CASE ids = <<>>
    BY <1>0, <1>12, <2>6 DEF PollBackend
  <2>7. CASE ids # <<>>
    <3>1. ids[1] \in Handles
      BY <2>5, <2>7
    <3>2. Yields(ids[1], b[2])
      BY <2>2, <2>7 DEF Yields
    <3>3. \E pressed, rest, queued : Deliver(ids[1], b[2], pressed, rest, queued)
      BY <1>12, <2>7 DEF PollBackend
    <3> HIDE DEF ids, b
    <3> QED BY <1>10, <2>4, <3>1, <3>2, <3>3
  <2> QED BY <2>6, <2>7
<1> QED BY <1>2, <1>3, <1>4, <1>5, <1>6, <1>7, <1>8, <1>9, <1>11, <1>12 DEF CaptureTaskNext

------------------------------------------------------------------------------
\* The captures follow the requests, and only a Default capture makes its
\* handle the active client.
LEMMA TaskProper ==
  ASSUME TypeOK, Proper, CaptureTaskNext
  PROVE  Proper'
<1> DEFINE Same == requests' = requests /\ captures' = captures
           Kept == requests' \in Seq(ProperRequests) /\ captures' \subseteq ProperCaptures
           ActiveKept == active_client' \in {active_client, None}
           r == Head(requests)
<1>0. /\ requests \in Seq(ProperRequests) /\ captures \subseteq ProperCaptures
      /\ active_client \in ClientHandles \cup {None} /\ TaskTypeOK
  BY DEF Proper, TypeOK
<1>1. \A h \in Handles : \A c \in CapturesOf(h) : c.type = "Default" => h \in ClientHandles
  BY <1>0 DEF CapturesOf, ProperCaptures
<1>2. sent' \in Seq(ClientMessages)
  <2>1. sent \in Seq(ClientMessages)
    BY DEF Proper
  <2>2. acc \in SUBSET Handles /\ ClientHandles \subseteq Handles
    BY <1>0 DEF TaskTypeOK, Handles
  <2>3. \A h \in ClientHandles, msg \in {"Enter", "Leave", "Input"}, src \in SUBSET Handles :
          Message(h, msg, src) \in ClientMessages
    BY <1>0, <2>2 DEF Message, ClientMessages, Messages
  <2>4. MayRelease(ClientMessages)
    BY <1>0, <2>2, <2>3 DEF MayRelease
  <2>5. \A h \in Handles, e \in Events : MayHandle(ClientMessages, h, e)
    BY <1>1, <2>2, <2>3 DEF MayHandle
  <2> QED BY <1>0, <2>1, <2>4, <2>5, TaskSends
<1>3. ASSUME requests # <<>>
      PROVE  /\ r \in ProperRequests /\ Tail(requests) \in Seq(ProperRequests)
             /\ r.op = "Create" => Capture(r.handle, r.pos, r.type) \in ProperCaptures
  <2>1. r \in ProperRequests /\ Tail(requests) \in Seq(ProperRequests)
    BY <1>0, <1>3
  <2>2. ASSUME r.op = "Create" PROVE Capture(r.handle, r.pos, r.type) \in ProperCaptures
    <3>1. r \in [op: {"Create"}, handle: Handles, pos: Positions, type: CaptureTypes]
      BY <2>1, <2>2 DEF ProperRequests, Requests, ReleaseRequest, ReenableRequest
    <3> QED BY <2>1, <2>2, <3>1 DEF ProperRequests, ProperCaptures, Capture, Captures
  <2> QED BY <2>1, <2>2
<1>4. Same => Kept
  BY <1>0
<1>5. \A next, news : DropInputCapture(next, news) => Same /\ ActiveKept
  BY DEF DropInputCapture
<1>6. ReleaseCapture => ActiveKept
  BY DEF ReleaseCapture
<1> DEFINE Goal == Kept /\ active_client' \in ClientHandles \cup {None}
<1>7. Kept /\ ActiveKept => Goal
  BY <1>0
<1> HIDE DEF Same, Kept, ActiveKept, Goal
<1>8. NewCapture \/ CreateCaptures \/ CaptureExits \/ BackendHangs \/ Cancel \/ NoticeCancelled => Same /\ ActiveKept
  BY <1>5 DEF NewCapture, CreateCaptures, CaptureExits, BackendHangs, Cancel, NoticeCancelled, Same,
                  ActiveKept
<1>9. IdleRequest => Kept /\ ActiveKept
  BY <1>0, <1>3 DEF IdleRequest, Kept, ActiveKept
<1>10. SessionRelease \/ SessionReenable => Kept /\ ActiveKept
  BY <1>0, <1>3, <1>6 DEF SessionRelease, SessionReenable, Kept, ActiveKept
<1>11. SessionCreate => Kept /\ ActiveKept
  BY <1>0, <1>3, <1>4, <1>5 DEF SessionCreate, Panic, Kept, ActiveKept
<1>12. SessionDestroy => Kept /\ ActiveKept
  BY <1>0, <1>3, <1>4, <1>5 DEF SessionDestroy, Panic, Kept, ActiveKept
<1>13. FlushTimer => Same /\ ActiveKept
  BY DEF FlushTimer, Same, ActiveKept
<1>14. \A h \in ClientHandles : ReceiveAck(h) \/ ReceiveLeave(h) => Same /\ ActiveKept
  BY <1>6 DEF ReceiveAck, ReceiveLeave, Same, ActiveKept
<1>15. \A p \in Positions : Cross(p) => Same /\ ActiveKept
  BY DEF Cross, Same, ActiveKept
<1>16. \A e \in InputEvents : UserInput(e) => Same /\ ActiveKept
  BY DEF UserInput, Same, ActiveKept
<1>17. ASSUME NEW h \in Handles, NEW e, NEW pressed, NEW rest, NEW queued,
              Deliver(h, e, pressed, rest, queued)
       PROVE  Goal
  <2>1. CASE Panic(IF e = BeginEvent THEN <<CaptureBegin(h)>> ELSE <<>>)
    BY <1>4, <1>5, <1>7, <2>1 DEF Panic
  <2>2. CASE HandleKnown(h, e, pressed) /\ UNCHANGED <<captures, requests>>
    <3>1. Kept
      BY <1>4, <2>2 DEF Same
    <3>2. CASE ReleaseCapture
      BY <1>6, <1>7, <3>1, <3>2
    <3>3. ASSUME NEW c \in CapturesOf(h), HandleEnterOnly(c.pos, pressed) PROVE Goal
      BY <1>7, <3>1, <3>3 DEF HandleEnterOnly, ActiveKept
    <3>4. ASSUME NEW c \in CapturesOf(h), c.type = "Default",
                 HandleBegin(h, pressed) \/ HandleUnacked(h, pressed) \/ HandleSending(h, e, pressed)
          PROVE  Goal
      <4>1. h \in ClientHandles
        BY <1>1, <3>4
      <4>2. active_client' \in {active_client, h}
        BY <3>4 DEF HandleBegin, HandleUnacked, HandleSending
      <4> QED BY <1>0, <3>1, <4>1, <4>2 DEF Goal
    <3> QED BY <2>2, <3>2, <3>3, <3>4 DEF HandleKnown
  <2> QED BY <1>17, <2>1, <2>2 DEF Deliver
<1>18. ASSUME PollPending PROVE Goal
  <2>1. pending \in Seq(Handles \X Events) /\ pending # <<>>
    BY <1>0, <1>18 DEF TaskTypeOK, PollPending
  <2>2. Head(pending) \in Handles \X Events
    BY <2>1
  <2> QED BY <1>17, <1>18, <2>2 DEF PollPending
<1>19. ASSUME PollBackend PROVE Goal
  <2> DEFINE b == Head(backend_events)
             ids == position_map[b[1]]
  <2>1. backend_events \in Seq(Positions \X Events) /\ position_map \in [Positions -> Seq(Handles)]
    BY <1>0 DEF TaskTypeOK
  <2>2. backend_events # <<>>
    BY <1>19 DEF PollBackend
  <2>3. b \in Positions \X Events
    BY <2>1, <2>2
  <2>4. ids \in Seq(Handles)
    BY <2>1, <2>3
  <2>5. CASE ids = <<>>
    BY <1>4, <1>7, <1>19, <2>5 DEF PollBackend, Same, ActiveKept
  <2>6. CASE ids # <<>>
    <3>1. ids[1] \in Handles
      BY <2>4, <2>6
    <3> QED BY <1>17, <1>19, <2>6, <3>1 DEF PollBackend
  <2> QED BY <2>5, <2>6
<1>20. Goal
  BY <1>4, <1>7, <1>8, <1>9, <1>10, <1>11, <1>12, <1>13, <1>14, <1>15, <1>16, <1>18, <1>19
     DEF CaptureTaskNext
<1> QED BY <1>2, <1>20 DEF Goal, Kept, Proper

LEMMA AlwaysProper == Spec => []Proper
<1>1. Init => Proper
  <2> SUFFICES ASSUME Init PROVE Proper
    OBVIOUS
  <2>1. requests = <<>> /\ captures = {} /\ active_client = None /\ sent = <<>>
    BY DEF Init, ChannelInit, TaskInit
  <2>2. requests \in Seq(ProperRequests) /\ sent \in Seq(ClientMessages)
    BY <2>1
  <2> QED BY <2>1, <2>2 DEF Proper
<1>2. TypeOK /\ Proper /\ [Next]_vars => Proper'
  <2> SUFFICES ASSUME TypeOK, Proper, [Next]_vars PROVE Proper'
    OBVIOUS
  <2>1. CASE ServiceStep
    BY <2>1, ServiceProper DEF ServiceStep, Proper
  <2>2. CASE TaskStep
    BY <2>2, TaskProper DEF TaskStep
  <2>3. CASE UNCHANGED vars
    BY <2>3 DEF vars, Proper
  <2> QED BY <2>1, <2>2, <2>3 DEF Next
<1> QED BY <1>1, <1>2, TypeCorrect, PTL DEF Spec

\* Whatever is configured, created, destroyed or entered meanwhile: the device
\* being controlled is a configured client, and no message ever goes to a handle
\* of an incoming device, whose barrier only releases.
THEOREM ControlsClientsOnly == Spec => []OnlyClientsControlled
<1>1. Proper => OnlyClientsControlled
  <2> SUFFICES ASSUME Proper PROVE OnlyClientsControlled
    OBVIOUS
  <2>1. \A i \in DOMAIN sent : sent[i] \in ClientMessages
    BY DEF Proper
  <2> QED BY <2>1 DEF Proper, OnlyClientsControlled, ClientMessages
<1> QED BY <1>1, AlwaysProper, PTL

------------------------------------------------------------------------------
\* From here on the clients, where they are and which of them are active stay
\* as they are once the device has started.
ForClient(r) == r.op \in {"Create", "Destroy"} /\ r.handle \in ClientHandles

\* The clients that are at a position: at most one.
Home(p) == {c \in clients : pos[c] = p}
Apart == \A c, d \in clients : pos[c] = pos[d] => c = d

\* The only requests about clients are those the device starts with, ahead of
\* all others, one for each.
BootRequests ==
  \A i \in 1 .. Len(requests) : ForClient(requests[i]) =>
    /\ requests[i].op = "Create"
    /\ requests[i].handle \in clients \ booting
    /\ requests[i].pos = pos[requests[i].handle]
    /\ requests[i].handle \notin HandlesOf(captures)
    /\ HandlesOf(captures) \subseteq clients
    /\ \A j \in 1 .. i - 1 : ForClient(requests[j]) /\ requests[j].handle # requests[i].handle

Booting ==
  ~Started => /\ \A i \in 1 .. Len(requests) : ForClient(requests[i])
              /\ captures = {} /\ phase = "new"

SettledCaptures ==
  \A c \in captures : c.handle \in ClientHandles => c.handle \in clients /\ c.pos = pos[c.handle]

\* Nothing is captured where a client's barrier is still to be created.
Fresh ==
  \A i \in 1 .. Len(requests) : ForClient(requests[i]) =>
    /\ requests[i].pos \notin barriers \cup {grabbed}
    /\ \A k \in 1 .. Len(backend_events) : backend_events[k][1] # requests[i].pos

\* The position whose input the backend delivers next, unless Begin is first.
Current ==
  {p \in Positions : IF backend_events = <<>> THEN grabbed = p
                     ELSE backend_events[1][1] = p /\ backend_events[1][2] # BeginEvent}

\* Pending events are delivered, or wait for a call of the backend to return.
Delivering == {"session", "hung"}

Quiet ==
  /\ phase \notin Alive => backend_events = <<>> /\ grabbed = None /\ barriers = {}
  /\ phase \notin Delivering => pending = <<>> /\ Current = {}

\* Begin comes before the input of another position.
Chain ==
  /\ \A i \in 1 .. Len(backend_events) - 1 :
       \/ backend_events[i + 1][2] = BeginEvent
       \/ backend_events[i + 1][1] = backend_events[i][1]
  /\ backend_events # <<>> /\ grabbed # None => backend_events[Len(backend_events)][1] = grabbed

\* The handles that are given a position's events.
Places == \A p \in Positions : position_map[p] \in Seq(EnterHandles \cup Home(p))

\* What is pending is one event, for at most one client.
OneEvent ==
  \A i, j \in 1 .. Len(pending) :
    /\ pending[i][2] = pending[j][2]
    /\ pending[i][1] \in EnterHandles \cup clients
    /\ pending[i][1] \in clients /\ pending[j][1] \in clients => pending[i][1] = pending[j][1]

\* Who is active or has motion accumulated; no client hears of position p; Begin
\* is pending for the client there.
Owners == acc \cup ({active_client} \ {None})
Deaf(p) ==
  /\ position_map[p] \in Seq(EnterHandles)
  /\ \A i \in 1 .. Len(requests) : ForClient(requests[i]) => requests[i].pos # p
Coming(p) == \E i \in 1 .. Len(pending) : pending[i][2] = BeginEvent /\ pending[i][1] \in Home(p)

OwnersTyped == (active_client # None => acc \subseteq {active_client}) /\ Owners \subseteq clients

\* The argument: input finds nobody but the client it was captured for.
Routes ==
  /\ OwnersTyped
  /\ \A i \in 1 .. Len(pending) :
       pending[i][1] \in clients /\ pending[i][2] # BeginEvent => Owners \subseteq {pending[i][1]}
  /\ \A p \in Current : Owners \subseteq Home(p) \/ Deaf(p) \/ Coming(p)
  /\ \A p \in Current : \A i \in 1 .. Len(pending) : pending[i][1] \in clients => pending[i][1] \in Home(p)

Inert == TypeOK /\ Proper /\ ActiveConfigured
Queued == Apart /\ BootRequests /\ Booting /\ SettledCaptures
Arriving == Fresh /\ Quiet /\ Chain /\ Places

\* What a message that carries input has to satisfy.
RoutedMessages ==
  {m \in Messages : m.msg = "Input" => m.active \in {None, m.to} /\ m.src \subseteq {m.to}}

RoutingInv ==
  /\ Inert /\ Queued /\ Arriving
  /\ OneEvent /\ Routes
  /\ sent \in Seq(RoutedMessages)

------------------------------------------------------------------------------
\* What the service sends: Create for the clients it starts with, then nothing
\* about clients.
OtherRequests == {r \in Requests : ~ForClient(r)}

Starts(h) ==
  /\ booting' = booting \ {h}
  /\ requests' \in {requests, Append(requests, CreateRequest(h, pos[h], "Default"))}

LEMMA SettledSends ==
  ASSUME Inert, Apart, SettledStep
  PROVE  \/ ~Started /\ \E h \in booting : Starts(h)
         \/ Started /\ booting' = booting
              /\ \E s \in Seq(OtherRequests) : requests' = requests \o s
         \/ UNCHANGED <<booting, requests>>
<1> DEFINE Goal == Started /\ booting' = booting
                     /\ \E s \in Seq(OtherRequests) : requests' = requests \o s
<1>0. /\ requests \in Seq(Requests) /\ active \in SUBSET ClientHandles
      /\ pos \in [ClientHandles -> Positions] /\ booting \subseteq clients /\ active \subseteq clients
      /\ clients \in SUBSET ClientHandles /\ incoming_conn_info \in SUBSET Incoming
      /\ next_trigger_handle \in 0 .. MaxTriggers
  BY DEF Inert, TypeOK, ChannelTypeOK, RegistryTypeOK, ActiveConfigured
<1>1. RegistryNext /\ UNCHANGED <<clients, pos>> /\ (Started => active' = active)
  BY DEF SettledStep, ServiceStep
<1>2. ASSUME NEW h \in clients
      PROVE  Activate(h, active, pos).sends
               = IF h \in active THEN <<>> ELSE <<CreateRequest(h, pos[h], "Default")>>
  <2>1. ClientAt(pos[h], active, pos) \ {h} = {}
    BY <1>0, <1>2 DEF ClientAt, Apart
  <2> DEFINE create == IF h \in active THEN <<>> ELSE <<CreateRequest(h, pos[h], "Default")>>
  <2>2. Activate(h, active, pos).sends = <<>> \o create
    BY <2>1 DEF Activate
  <2>3. CreateRequest(h, pos[h], "Default") \in Requests
    BY <1>0, RequestFields DEF Handles, CaptureTypes
  <2>4. create \in Seq(Requests)
    BY <2>3
  <2> HIDE DEF create
  <2>5. <<>> \o create = create
    BY <2>4
  <2> QED BY <2>2, <2>5 DEF create
<1>3. ASSUME Boot PROVE ~Started /\ \E h \in booting : Starts(h)
  <2>1. PICK h \in booting :
          requests' = requests \o Activate(h, active, pos).sends /\ booting' = booting \ {h}
    BY <1>3 DEF Boot
  <2>2. CASE h \in active
    <3>1. Activate(h, active, pos).sends = <<>>
      BY <1>0, <1>2, <2>2
    <3>2. requests' = requests
      BY <1>0, <2>1, <3>1
    <3> QED BY <2>1, <3>2 DEF Started, Starts
  <2>3. CASE h \notin active
    <3>1. requests' = requests \o <<CreateRequest(h, pos[h], "Default")>>
      BY <1>0, <1>2, <2>1, <2>3
    <3>2. CreateRequest(h, pos[h], "Default") \in Requests
      BY <1>0, RequestFields DEF Handles, CaptureTypes
    <3>3. requests' = Append(requests, CreateRequest(h, pos[h], "Default"))
      BY <1>0, <3>1, <3>2
    <3> QED BY <2>1, <3>3 DEF Started, Starts
  <2> QED BY <2>2, <2>3
<1>4. \A h \in EnterHandles, p \in Positions :
        DestroyRequest(h) \in OtherRequests /\ CreateRequest(h, p, "EnterOnly") \in OtherRequests
  BY RequestFields, HandlesApart DEF Handles, CaptureTypes, OtherRequests, ForClient
<1>5. ReleaseRequest \in OtherRequests /\ ReenableRequest \in OtherRequests
  BY DEF Requests, ReleaseRequest, ReenableRequest, OtherRequests, ForClient
<1>6. ASSUME NEW r \in OtherRequests, requests' = Append(requests, r), Started, booting' = booting
      PROVE  Goal
  <2>1. r \in Requests /\ <<r>> \in Seq(OtherRequests)
    BY <1>6 DEF OtherRequests
  <2>2. requests' = requests \o <<r>>
    BY <1>0, <1>6, <2>1
  <2> QED BY <1>6, <2>1, <2>2
<1>7. ASSUME requests' = requests, Started, booting' = booting PROVE Goal
  <2>1. requests = requests \o <<>> /\ <<>> \in Seq(OtherRequests)
    BY <1>0
  <2> QED BY <1>7, <2>1
<1>8. ASSUME NEW a \in Addrs, NEW p \in Positions, NEW f \in Fingerprints,
             next_trigger_handle < MaxTriggers
      PROVE  BarrierFor(NewIncoming(a, p, f)) \in OtherRequests
  <2>1. EnterHandleBegin + next_trigger_handle \in EnterHandles
    BY <1>0, <1>8, ChannelAssumption DEF EnterHandles
  <2> QED BY <2>1, <1>4 DEF NewIncoming, BarrierFor
<1>9. \A i \in incoming_conn_info : DestroyRequest(i.handle) \in OtherRequests
  BY <1>0, <1>4 DEF Incoming
<1>10. ASSUME NEW a \in Addrs, NEW p \in Positions, NEW f \in Fingerprints, EnterNew(a, p, f)
       PROVE  Goal
  BY <1>6, <1>8, <1>10 DEF EnterNew
<1>11. ASSUME NEW a \in Addrs, NEW p \in Positions, NEW f \in Fingerprints, EnterAgain(a, p, f)
       PROVE  Goal
  <2> DEFINE b == BarrierFor(NewIncoming(a, p, f))
  <2>1. PICK i \in incoming_conn_info : requests' = requests \o <<DestroyRequest(i.handle), b>>
    BY <1>11 DEF EnterAgain
  <2>2. b \in OtherRequests /\ DestroyRequest(i.handle) \in OtherRequests
    BY <1>8, <1>9, <1>11 DEF EnterAgain
  <2> HIDE DEF b
  <2>3. <<DestroyRequest(i.handle), b>> \in Seq(OtherRequests)
    BY <2>2
  <2> QED BY <1>11, <2>1, <2>3 DEF EnterAgain
<1>12. ASSUME NEW a \in Addrs, Disconnected(a) PROVE Goal
  BY <1>6, <1>9, <1>12 DEF Disconnected
<1>13. ReleaseNotify \/ EnableCapture => Goal
  BY <1>5, <1>6 DEF ReleaseNotify, EnableCapture, Notify
<1>14. ServiceCaptureEvent => Goal
  BY <1>7 DEF ServiceCaptureEvent
<1>15. \A a \in Addrs : TakeLeave(a) => UNCHANGED <<booting, requests>>
  BY DEF TakeLeave
<1>16. ASSUME NEW h \in ClientHandles, ActivateClient(h) PROVE Goal
  <2>1. Started /\ h \in clients /\ booting' = booting
        /\ requests' = requests \o Activate(h, active, pos).sends
        /\ active' = Activate(h, active, pos).active
    BY <1>16 DEF ActivateClient
  <2>2. h \in active
    BY <1>1, <2>1 DEF Activate
  <2>3. Activate(h, active, pos).sends = <<>>
    BY <1>2, <2>1, <2>2
  <2>4. requests' = requests
    BY <1>0, <2>1, <2>3
  <2> QED BY <1>7, <2>1, <2>4
<1>17. \A h \in ClientHandles : ~RemoveClient(h) /\ ~DeactivateClient(h)
  BY <1>0, <1>1 DEF RemoveClient, DeactivateClient
<1>18. ~AddClient
  BY <1>0, <1>1 DEF AddClient
<1>19. \A h \in ClientHandles, p \in Positions : ~UpdatePos(h, p)
  BY <1>0, <1>1 DEF UpdatePos
<1> HIDE DEF Goal
<1>20. Boot \/ Goal \/ UNCHANGED <<booting, requests>>
  BY <1>1, <1>10, <1>11, <1>12, <1>13, <1>14, <1>15, <1>16, <1>17, <1>18, <1>19 DEF RegistryNext
<1> QED BY <1>3, <1>20 DEF Goal

LEMMA SettledService ==
  ASSUME RoutingInv, SettledStep
  PROVE  (Queued /\ Arriving /\ OneEvent /\ Routes)' /\ sent' \in Seq(RoutedMessages)
<1>0. /\ requests \in Seq(Requests) /\ pos \in [ClientHandles -> Positions]
      /\ clients \in SUBSET ClientHandles /\ booting \subseteq clients
      /\ Inert /\ Apart /\ BootRequests /\ Booting /\ SettledCaptures
      /\ Fresh /\ Quiet /\ Chain /\ Places /\ OneEvent /\ Routes
  BY DEF RoutingInv, Inert, Queued, Arriving, TypeOK, ChannelTypeOK, RegistryTypeOK, ActiveConfigured
<1>1. UNCHANGED <<clients, pos, captureTaskVars>>
  BY DEF SettledStep, ServiceStep
<1>2. /\ \A p : Home(p)' = Home(p) /\ Coming(p)' = Coming(p)
      /\ Apart' /\ SettledCaptures' /\ Chain' /\ Places' /\ OneEvent'
      /\ Current' = Current /\ Owners' = Owners /\ Quiet'
      /\ HandlesOf(captures)' = HandlesOf(captures)
  <2>1. /\ \A p : Home(p)' = Home(p) /\ Coming(p)' = Coming(p)
        /\ Current' = Current /\ Owners' = Owners
    BY <1>1 DEF Home, Coming, Current, Owners
  <2>2. Apart' /\ SettledCaptures' /\ Chain' /\ HandlesOf(captures)' = HandlesOf(captures)
    BY <1>0, <1>1 DEF Apart, SettledCaptures, Chain, HandlesOf
  <2>3. Places'
    BY <1>0, <1>1, <2>1 DEF Places
  <2>4. OneEvent'
    BY <1>0, <1>1 DEF OneEvent
  <2>5. Quiet'
    BY <1>0, <1>1, <2>1 DEF Quiet
  <2> QED BY <2>1, <2>2, <2>3, <2>4, <2>5
<1> DEFINE Goal == BootRequests' /\ Booting' /\ Fresh' /\ \A p \in Current : Deaf(p) => Deaf(p)'
<1>3. ASSUME UNCHANGED <<booting, requests>> PROVE Goal
  <2>1. BootRequests'
    BY <1>0, <1>1, <1>2, <1>3 DEF BootRequests, ForClient
  <2>2. Booting'
    BY <1>0, <1>1, <1>3 DEF Booting, ForClient, Started
  <2>3. Fresh'
    BY <1>0, <1>1, <1>3 DEF Fresh, ForClient
  <2>4. \A p \in Current : Deaf(p) => Deaf(p)'
    BY <1>1, <1>3 DEF Deaf, ForClient
  <2> QED BY <2>1, <2>2, <2>3, <2>4
<1>4. ASSUME Started, booting' = booting,
             NEW s \in Seq(OtherRequests), requests' = requests \o s
      PROVE  Goal
  <2>1. /\ Len(requests') = Len(requests) + Len(s) /\ Len(requests) \in Nat /\ Len(s) \in Nat
        /\ \A i \in 1 .. Len(requests) : requests'[i] = requests[i]
        /\ \A i \in Len(requests) + 1 .. Len(requests) + Len(s) :
             requests'[i] = s[i - Len(requests)] /\ requests'[i] \in OtherRequests
    <3>1. s \in Seq(Requests)
      BY DEF OtherRequests
    <3>2. \A i \in 1 .. Len(s) : s[i] \in OtherRequests
      OBVIOUS
    <3>3. /\ Len(requests \o s) = Len(requests) + Len(s) /\ Len(requests) \in Nat /\ Len(s) \in Nat
          /\ \A i \in 1 .. Len(requests) + Len(s) :
               (requests \o s)[i] = IF i <= Len(requests) THEN requests[i] ELSE s[i - Len(requests)]
      BY <1>0, <3>1, ConcatProperties
    <3> QED BY <1>4, <3>2, <3>3
  <2>2. \A i \in 1 .. Len(requests') :
          ForClient(requests'[i]) => i \in 1 .. Len(requests) /\ requests'[i] = requests[i]
                                     /\ ForClient(requests[i])
    <3> TAKE i \in 1 .. Len(requests')
    <3> HAVE ForClient(requests'[i])
    <3>1. requests'[i] \notin OtherRequests
      BY DEF OtherRequests
    <3> QED BY <2>1, <3>1
  <2>3. BootRequests'
    <3> SUFFICES ASSUME NEW i \in 1 .. Len(requests'), ForClient(requests'[i])
                 PROVE  /\ requests'[i].op = "Create"
                        /\ requests'[i].handle \in clients \ booting
                        /\ requests'[i].pos = pos[requests'[i].handle]
                        /\ requests'[i].handle \notin HandlesOf(captures)
                        /\ HandlesOf(captures) \subseteq clients
                        /\ \A j \in 1 .. i - 1 :
                             ForClient(requests'[j]) /\ requests'[j].handle # requests'[i].handle
      BY <1>1, <1>2, <1>4 DEF BootRequests, ForClient
    <3>1. i \in 1 .. Len(requests) /\ requests'[i] = requests[i] /\ ForClient(requests[i])
      BY <2>2
    <3>2. \A j \in 1 .. i - 1 : requests'[j] = requests[j]
      BY <2>1, <3>1
    <3> QED BY <1>0, <3>1, <3>2 DEF BootRequests
  <2>4. Booting'
    BY <1>4 DEF Booting, Started
  <2>5. Fresh'
    BY <1>0, <1>1, <2>2 DEF Fresh, ForClient
  <2>6. \A p \in Current : Deaf(p) => Deaf(p)'
    BY <1>1, <2>2 DEF Deaf, ForClient
  <2> QED BY <2>3, <2>4, <2>5, <2>6
<1>5. ASSUME ~Started, NEW h \in booting, Starts(h) PROVE Goal
  <2> DEFINE r == CreateRequest(h, pos[h], "Default")
  <2>1. /\ phase = "new" /\ captures = {} /\ barriers = {} /\ grabbed = None /\ backend_events = <<>>
        /\ Current = {} /\ HandlesOf(captures) = {}
        /\ \A i \in 1 .. Len(requests) : ForClient(requests[i])
    BY <1>0, <1>5 DEF Booting, Quiet, HandlesOf, Alive, Delivering
  <2>2. h \in clients /\ h \in ClientHandles /\ pos[h] \in Positions
    BY <1>0
  <2>3. /\ r \in Requests /\ ForClient(r) /\ r.op = "Create" /\ r.handle = h /\ r.pos = pos[h]
    BY <2>2, RequestFields DEF Handles, CaptureTypes, ForClient
  <2>4. booting' = booting \ {h}
    BY <1>5 DEF Starts
  <2>5. CASE requests' = requests
    <3>1. BootRequests'
      BY <1>0, <1>1, <1>2, <2>4, <2>5 DEF BootRequests, ForClient
    <3>2. Booting'
      BY <1>1, <2>1, <2>5 DEF Booting, ForClient
    <3>3. Fresh'
      BY <1>0, <1>1, <2>5 DEF Fresh, ForClient
    <3> QED BY <2>1, <3>1, <3>2, <3>3
  <2>6. CASE requests' = Append(requests, r)
    <3>1. /\ Len(requests) \in Nat /\ Len(requests') = Len(requests) + 1
          /\ \A i \in 1 .. Len(requests) : requests'[i] = requests[i]
          /\ requests'[Len(requests) + 1] = r
      BY <1>0, <2>3, <2>6, AppendAt
    <3> HIDE DEF r
    <3>2. \A i \in 1 .. Len(requests') : ForClient(requests'[i])
      BY <2>1, <2>3, <3>1
    <3>3. \A i \in 1 .. Len(requests') : requests'[i].pos \in Positions
      BY <1>0, <2>1, <2>2, <2>3, <3>1 DEF BootRequests
    <3>4. BootRequests'
      <4> SUFFICES ASSUME NEW i \in 1 .. Len(requests')
                   PROVE  /\ requests'[i].op = "Create"
                          /\ requests'[i].handle \in clients \ booting'
                          /\ requests'[i].pos = pos[requests'[i].handle]
                          /\ \A j \in 1 .. i - 1 : requests'[j].handle # requests'[i].handle
        BY <1>1, <1>2, <2>1, <3>1, <3>2 DEF BootRequests, ForClient
      <4>1. CASE i \in 1 .. Len(requests)
        <5>1. /\ requests[i].op = "Create" /\ requests[i].handle \in clients \ booting
              /\ requests[i].pos = pos[requests[i].handle]
              /\ \A j \in 1 .. i - 1 : requests[j].handle # requests[i].handle
          BY <1>0, <2>1, <4>1 DEF BootRequests
        <5>2. requests'[i] = requests[i] /\ \A j \in 1 .. i - 1 : requests'[j] = requests[j]
          BY <3>1, <4>1
        <5> QED BY <2>4, <5>1, <5>2
      <4>2. CASE i = Len(requests) + 1
        <5>1. requests'[i].op = "Create" /\ requests'[i].handle = h /\ requests'[i].pos = pos[h]
          BY <2>3, <3>1, <4>2
        <5>2. \A j \in 1 .. i - 1 : requests'[j] = requests[j] /\ requests[j].handle \notin booting
          BY <1>0, <2>1, <3>1, <4>2 DEF BootRequests
        <5> QED BY <1>5, <2>2, <2>4, <5>1, <5>2
      <4> QED BY <3>1, <4>1, <4>2
    <3>5. Booting'
      BY <1>1, <2>1, <3>2 DEF Booting, ForClient
    <3>6. Fresh'
      BY <1>1, <2>1, <3>3, TaskAssumption DEF Fresh, ForClient
    <3> QED BY <2>1, <3>4, <3>5, <3>6
  <2> QED BY <1>5, <2>5, <2>6 DEF Starts
<1> HIDE DEF Goal
<1>6. Goal
  BY <1>0, <1>3, <1>4, <1>5, SettledSends
<1>7. Routes'
  BY <1>0, <1>1, <1>2, <1>6 DEF Goal, Routes, OwnersTyped
<1>8. sent' \in Seq(RoutedMessages)
  <2>1. RoutedMessages' = RoutedMessages
    OBVIOUS
  <2> QED BY <1>1 DEF RoutingInv
<1> QED BY <1>2, <1>6, <1>7, <1>8 DEF Goal, Queued, Arriving

------------------------------------------------------------------------------
\* The capture task takes a request: the requests about clients stay ahead.
FewerRequests ==
  \A i \in 1 .. Len(requests') : ForClient(requests'[i]) =>
    \E j \in 1 .. Len(requests) : requests[j] = requests'[i] /\ ForClient(requests[j])

LEMMA Taking ==
  ASSUME Inert, Apart, BootRequests, SettledCaptures, UNCHANGED registryVars,
         requests # <<>>, requests' = Tail(requests),
         captures' = IF Head(requests).op = "Create"
                     THEN captures \cup {Capture(Head(requests).handle, Head(requests).pos, Head(requests).type)}
                     ELSE IF Head(requests).op = "Destroy" THEN captures \ CapturesOf(Head(requests).handle)
                     ELSE captures
  PROVE  /\ BootRequests' /\ SettledCaptures' /\ FewerRequests
         /\ ~ForClient(Head(requests)) => \A i \in 1 .. Len(requests) : ~ForClient(requests[i])
         /\ ForClient(Head(requests)) =>
              /\ Head(requests).op = "Create" /\ Head(requests).handle \in clients
              /\ Head(requests).pos = pos[Head(requests).handle]
              /\ \A i \in 1 .. Len(requests') :
                   ForClient(requests'[i]) => requests'[i].pos # Head(requests).pos
<1> DEFINE r == Head(requests)
<1>0. requests \in Seq(Requests) /\ pos \in [ClientHandles -> Positions] /\ clients \in SUBSET ClientHandles
  BY DEF Inert, TypeOK, ChannelTypeOK, RegistryTypeOK
<1>1. /\ Len(requests) \in Nat /\ Len(requests) >= 1 /\ Len(requests') = Len(requests) - 1
      /\ \A i \in 1 .. Len(requests') : i + 1 \in 1 .. Len(requests) /\ requests'[i] = requests[i + 1]
      /\ r = requests[1] /\ 1 \in 1 .. Len(requests)
  <2>1. /\ Len(requests) \in Nat /\ Len(requests) >= 1 /\ Len(Tail(requests)) = Len(requests) - 1
        /\ \A i \in 1 .. Len(requests) - 1 : Tail(requests)[i] = requests[i + 1]
        /\ Head(requests) = requests[1]
    BY <1>0, TailAt
  <2> QED BY <2>1
<1> HIDE DEF r
<1>2. FewerRequests
  BY <1>1 DEF FewerRequests, ForClient
<1>3. \A i \in 1 .. Len(requests) : ForClient(requests[i]) => ForClient(r)
  <2> TAKE i \in 1 .. Len(requests)
  <2>1. CASE i = 1
    BY <1>1, <2>1
  <2>2. CASE i # 1
    <3>1. 1 \in 1 .. i - 1
      BY <2>2
    <3> QED BY <1>1, <3>1 DEF BootRequests
  <2> QED BY <2>1, <2>2
<1>4. ASSUME ForClient(r)
      PROVE  /\ r.op = "Create" /\ r.handle \in clients /\ r.pos = pos[r.handle]
             /\ captures' = captures \cup {Capture(r.handle, r.pos, r.type)}
  BY <1>1, <1>4 DEF BootRequests, r
<1>5. ASSUME NEW i \in 1 .. Len(requests'), ForClient(requests'[i])
      PROVE  /\ requests'[i].op = "Create"
             /\ requests'[i].handle \in clients \ booting
             /\ requests'[i].pos = pos[requests'[i].handle]
             /\ requests'[i].handle \notin HandlesOf(captures)
             /\ HandlesOf(captures) \subseteq clients
             /\ requests'[i].handle # r.handle
             /\ \A j \in 1 .. i - 1 : ForClient(requests'[j]) /\ requests'[j].handle # requests'[i].handle
             /\ ForClient(r)
  <2>1. i + 1 \in 1 .. Len(requests) /\ requests'[i] = requests[i + 1] /\ ForClient(requests[i + 1])
    BY <1>1, <1>5 DEF ForClient
  <2>2. /\ requests[i + 1].op = "Create"
        /\ requests[i + 1].handle \in clients \ booting
        /\ requests[i + 1].pos = pos[requests[i + 1].handle]
        /\ requests[i + 1].handle \notin HandlesOf(captures)
        /\ HandlesOf(captures) \subseteq clients
        /\ \A j \in 1 .. i : ForClient(requests[j]) /\ requests[j].handle # requests[i + 1].handle
    BY <1>0, <2>1 DEF BootRequests
  <2>3. 1 \in 1 .. i /\ \A j \in 1 .. i - 1 : requests'[j] = requests[j + 1] /\ j + 1 \in 1 .. i
    BY <1>1
  <2> QED BY <1>1, <2>1, <2>2, <2>3
<1>6. BootRequests'
  <2> SUFFICES ASSUME NEW i \in 1 .. Len(requests'), ForClient(requests'[i])
               PROVE  /\ requests'[i].op = "Create"
                      /\ requests'[i].handle \in clients \ booting
                      /\ requests'[i].pos = pos[requests'[i].handle]
                      /\ requests'[i].handle \notin HandlesOf(captures')
                      /\ HandlesOf(captures') \subseteq clients
                      /\ \A j \in 1 .. i - 1 :
                           ForClient(requests'[j]) /\ requests'[j].handle # requests'[i].handle
    BY DEF BootRequests, ForClient, HandlesOf
  <2>1. HandlesOf(captures') = HandlesOf(captures) \cup {r.handle}
    <3> DEFINE c == Capture(r.handle, r.pos, r.type)
    <3>1. ForClient(r)
      BY <1>5
    <3>2. captures' = captures \cup {c} /\ c.handle = r.handle
      BY <1>4, <3>1 DEF Capture
    <3> HIDE DEF c
    <3> QED BY <3>2 DEF HandlesOf
  <2> QED BY <1>4, <1>5, <2>1
<1>7. SettledCaptures'
  <2>1. CASE ForClient(r)
    BY <1>4, <2>1 DEF SettledCaptures, Capture
  <2>2. CASE ~ForClient(r)
    <3>1. \A c \in captures' : c \in captures \/ c.handle \notin ClientHandles
      BY <2>2 DEF ForClient, Capture, r
    <3> QED BY <3>1 DEF SettledCaptures
  <2> QED BY <2>1, <2>2
<1>8. ASSUME ForClient(r), NEW i \in 1 .. Len(requests'), ForClient(requests'[i])
      PROVE  requests'[i].pos # r.pos
  <2>1. /\ requests'[i].handle \in clients /\ requests'[i].pos = pos[requests'[i].handle]
        /\ requests'[i].handle # r.handle
    BY <1>5, <1>8
  <2>2. r.handle \in clients /\ r.pos = pos[r.handle]
    BY <1>4, <1>8
  <2> QED BY <2>1, <2>2 DEF Apart
<1> QED BY <1>2, <1>3, <1>4, <1>6, <1>7, <1>8 DEF r

------------------------------------------------------------------------------
\* Steps that leave what is pending alone and make nobody own more.
LEMMA CalmRoutes ==
  ASSUME RoutingInv, UNCHANGED registryVars, pending' = pending,
         Owners' \subseteq Owners, active_client' # None => acc' \subseteq {active_client'},
         \A p \in Current' : p \in Current /\ (Deaf(p) => Deaf(p)')
  PROVE  OneEvent' /\ Routes'
<1>1. OneEvent /\ Routes /\ \A p : Home(p)' = Home(p) /\ Coming(p)' = Coming(p)
  BY DEF RoutingInv, Home, Coming
<1>2. OneEvent'
  BY <1>1 DEF OneEvent
<1>3. OwnersTyped'
  BY <1>1 DEF Routes, OwnersTyped
<1>4. /\ \A i \in 1 .. Len(pending') :
           pending'[i][1] \in clients' /\ pending'[i][2] # BeginEvent => Owners' \subseteq {pending'[i][1]}
      /\ \A p \in Current' : \A i \in 1 .. Len(pending') :
           pending'[i][1] \in clients' => pending'[i][1] \in Home(p)'
      /\ \A p \in Current' : Owners' \subseteq Home(p)' \/ Deaf(p)' \/ Coming(p)'
  BY <1>1 DEF Routes
<1> QED BY <1>2, <1>3, <1>4 DEF Routes

\* Requests about clients are about positions.
LEMMA FreshPositions ==
  ASSUME Inert, BootRequests, NEW i \in 1 .. Len(requests), ForClient(requests[i])
  PROVE  requests[i].pos \in Positions /\ requests[i].pos # None /\ requests[i].handle \in clients
<1>1. pos \in [ClientHandles -> Positions] /\ clients \in SUBSET ClientHandles
  BY DEF Inert, TypeOK, RegistryTypeOK
<1>2. requests[i].handle \in clients /\ requests[i].pos = pos[requests[i].handle]
  BY DEF BootRequests
<1> QED BY <1>1, <1>2, TaskAssumption

\* Nothing is captured anywhere new, and no request about a client is added.
LEMMA FreshKept ==
  ASSUME Inert, BootRequests, Fresh, FewerRequests,
         UNCHANGED registryVars, barriers' \subseteq barriers,
         grabbed' \in barriers \cup {grabbed, None},
         \A k \in 1 .. Len(backend_events') :
           \/ backend_events'[k][1] \in barriers \cup {grabbed}
           \/ \E i \in 1 .. Len(backend_events) : backend_events'[k][1] = backend_events[i][1]
  PROVE  Fresh'
<1> SUFFICES ASSUME NEW i \in 1 .. Len(requests'), ForClient(requests'[i])
             PROVE  /\ requests'[i].pos \notin barriers' \cup {grabbed'}
                    /\ \A k \in 1 .. Len(backend_events') : backend_events'[k][1] # requests'[i].pos
  BY DEF Fresh, ForClient
<1>1. PICK j \in 1 .. Len(requests) : requests[j] = requests'[i] /\ ForClient(requests[j])
  BY DEF FewerRequests
<1>2. /\ requests[j].pos \notin barriers \cup {grabbed}
      /\ \A k \in 1 .. Len(backend_events) : backend_events[k][1] # requests[j].pos
  BY <1>1 DEF Fresh
<1>3. requests[j].pos # None
  BY <1>1, FreshPositions
<1> QED BY <1>1, <1>2, <1>3

LEMMA SameRequests ==
  ASSUME BootRequests, SettledCaptures, UNCHANGED <<registryVars, requests, captures>>
  PROVE  BootRequests' /\ SettledCaptures' /\ FewerRequests
<1>1. HandlesOf(captures)' = HandlesOf(captures)
  BY DEF HandlesOf
<1>2. BootRequests'
  BY <1>1 DEF BootRequests, ForClient
<1>3. SettledCaptures'
  BY DEF SettledCaptures
<1>4. FewerRequests
  BY DEF FewerRequests, ForClient
<1> QED BY <1>2, <1>3, <1>4

\* InputCapture is dropped: nothing is captured, nothing is pending.
LEMMA DropRoutes ==
  ASSUME RoutingInv, UNCHANGED registryVars,
         NEW next, NEW news, DropInputCapture(next, news)
  PROVE  (BootRequests /\ SettledCaptures /\ Arriving /\ OneEvent /\ Routes)'
<1>0. Inert /\ BootRequests /\ SettledCaptures /\ Fresh /\ Routes
  BY DEF RoutingInv, Queued, Arriving
<1>1. /\ UNCHANGED <<requests, captures, acc, active_client>> /\ phase' = next
      /\ position_map' = [p \in Positions |-> <<>>]
      /\ pending' = <<>> /\ barriers' = {} /\ grabbed' = None /\ backend_events' = <<>>
  BY DEF DropInputCapture
<1>2. BootRequests' /\ SettledCaptures' /\ FewerRequests
  BY <1>0, <1>1, SameRequests
<1>3. Current' = {}
  BY <1>1, TaskAssumption DEF Current
<1>4. Fresh'
  <2>1. 1 .. Len(backend_events') = {}
    BY <1>1
  <2> QED BY <1>0, <1>1, <1>2, <2>1, FreshKept
<1>5. Quiet'
  BY <1>1, <1>3 DEF Quiet
<1>6. Chain'
  BY <1>1 DEF Chain
<1>7. Places'
  <2>1. \A p \in Positions : position_map'[p] = <<>>
    BY <1>1
  <2>2. \A S : <<>> \in Seq(S)
    OBVIOUS
  <2> QED BY <2>1, <2>2 DEF Places
<1>8. 1 .. Len(pending') = {}
  BY <1>1
<1>9. OneEvent'
  BY <1>8 DEF OneEvent
<1>10. Routes'
  <2>1. OwnersTyped'
    BY <1>0, <1>1 DEF Routes, OwnersTyped, Owners
  <2> QED BY <1>3, <1>8, <2>1 DEF Routes
<1> QED BY <1>2, <1>4, <1>5, <1>6, <1>7, <1>9, <1>10 DEF Arriving

\* Steps that neither deliver nor queue an event, nor create a barrier.
LEMMA CalmStep ==
  ASSUME RoutingInv, UNCHANGED <<registryVars, backend_events, pending>>, FewerRequests,
         grabbed' \in {grabbed, None}, barriers' \subseteq barriers,
         phase' \in Alive \/ phase \notin Alive,
         phase' \in Delivering \/ phase \notin Delivering,
         \A p \in Positions : \A S : position_map[p] \in Seq(S) => position_map'[p] \in Seq(S),
         acc' \subseteq acc, active_client' \in {active_client, None}
  PROVE  (Arriving /\ OneEvent /\ Routes)'
<1>0. Inert /\ BootRequests /\ Fresh /\ Quiet /\ Chain /\ Places /\ OneEvent /\ Routes
  BY DEF RoutingInv, Queued, Arriving
<1>1. Current' \subseteq Current
  BY TaskAssumption DEF Current
<1>2. Fresh'
  BY <1>0, FreshKept
<1>3. Quiet'
  <2>1. phase' \notin Alive => backend_events' = <<>> /\ grabbed' = None /\ barriers' = {}
    BY <1>0 DEF Quiet
  <2>2. phase' \notin Delivering => pending' = <<>> /\ Current' = {}
    BY <1>0, <1>1 DEF Quiet
  <2> QED BY <2>1, <2>2 DEF Quiet
<1>4. Chain'
  BY <1>0 DEF Chain
<1>5. Places'
  BY <1>0 DEF Places, Home
<1>6. \A p \in Current' : Deaf(p) => Deaf(p)'
  <2> TAKE p \in Current'
  <2> HAVE Deaf(p)
  <2>1. p \in Positions
    BY DEF Current
  <2>2. position_map'[p] \in Seq(EnterHandles)
    BY <2>1 DEF Deaf
  <2>3. \A i \in 1 .. Len(requests') : ForClient(requests'[i]) => requests'[i].pos # p
    BY DEF Deaf, FewerRequests
  <2> QED BY <2>2, <2>3 DEF Deaf, ForClient
<1>7. Owners' \subseteq Owners /\ (active_client' # None => acc' \subseteq {active_client'})
  BY <1>0 DEF Routes, OwnersTyped, Owners
<1>8. OneEvent' /\ Routes'
  BY <1>1, <1>6, <1>7, CalmRoutes
<1> QED BY <1>2, <1>3, <1>4, <1>5, <1>8 DEF Arriving

\* A barrier is created where no other client waits for one, and not under a
\* grab whose input no client hears.
LEMMA BarrierStep ==
  ASSUME RoutingInv,
         UNCHANGED <<registryVars, backend_events, pending, grabbed, phase, acc, active_client>>,
         FewerRequests, NEW p \in Positions, NEW h \in EnterHandles \cup Home(p), CreateBarrier(h, p),
         \A i \in 1 .. Len(requests') : ForClient(requests'[i]) => requests'[i].pos # p,
         phase = "create" \/ (phase = "session" /\ (h \in EnterHandles \/ ~Deaf(p)))
  PROVE  (Arriving /\ OneEvent /\ Routes)'
<1>0. /\ Inert /\ BootRequests /\ Fresh /\ Quiet /\ Chain /\ Places /\ OneEvent /\ Routes
      /\ position_map \in [Positions -> Seq(Handles)]
  BY DEF RoutingInv, Queued, Arriving, Inert, TypeOK, TaskTypeOK
<1>1. Current' = Current /\ Owners' = Owners
  BY DEF Current, Owners
<1>2. /\ barriers' = barriers \cup {p}
      /\ \A q \in Positions \ {p} : position_map'[q] = position_map[q]
      /\ position_map'[p] = Append(position_map[p], h)
  BY <1>0 DEF CreateBarrier
<1>3. Fresh'
  <2> SUFFICES ASSUME NEW i \in 1 .. Len(requests'), ForClient(requests'[i])
               PROVE  /\ requests'[i].pos \notin barriers' \cup {grabbed'}
                      /\ \A k \in 1 .. Len(backend_events') : backend_events'[k][1] # requests'[i].pos
    BY DEF Fresh, ForClient
  <2>1. PICK j \in 1 .. Len(requests) : requests[j] = requests'[i] /\ ForClient(requests[j])
    BY DEF FewerRequests
  <2>2. /\ requests[j].pos \notin barriers \cup {grabbed}
        /\ \A k \in 1 .. Len(backend_events) : backend_events[k][1] # requests[j].pos
    BY <1>0, <2>1 DEF Fresh
  <2> QED BY <1>2, <2>1, <2>2
<1>4. Quiet'
  BY <1>0, <1>1 DEF Quiet, Alive
<1>5. Chain'
  BY <1>0 DEF Chain
<1>6. Places'
  <2>1. \A q \in Positions : Home(q)' = Home(q)
    BY DEF Home
  <2>2. \A q \in Positions : position_map[q] \in Seq(EnterHandles \cup Home(q))
    BY <1>0 DEF Places
  <2>3. Append(position_map[p], h) \in Seq(EnterHandles \cup Home(p))
    BY <2>2
  <2> QED BY <1>2, <2>1, <2>2, <2>3 DEF Places
<1>7. \A q \in Current : Deaf(q) => Deaf(q)'
  <2> TAKE q \in Current
  <2> HAVE Deaf(q)
  <2>1. q \in Positions /\ phase = "session"
    BY <1>0 DEF Current, Quiet, Delivering
  <2>2. position_map'[q] \in Seq(EnterHandles)
    <3>1. CASE q = p
      <4>1. h \in EnterHandles /\ position_map[p] \in Seq(EnterHandles)
        BY <2>1, <3>1 DEF Deaf
      <4>2. Append(position_map[p], h) \in Seq(EnterHandles)
        BY <4>1
      <4> QED BY <1>2, <3>1, <4>2
    <3>2. CASE q # p
      BY <1>2, <2>1, <3>2 DEF Deaf
    <3> QED BY <3>1, <3>2
  <2>3. \A i \in 1 .. Len(requests') : ForClient(requests'[i]) => requests'[i].pos # q
    BY DEF Deaf, FewerRequests
  <2> QED BY <2>2, <2>3 DEF Deaf, ForClient
<1>8. OneEvent' /\ Routes'
  <2>1. active_client' # None => acc' \subseteq {active_client'}
    BY <1>0 DEF Routes, OwnersTyped
  <2> QED BY <1>1, <1>7, <2>1, CalmRoutes
<1> QED BY <1>3, <1>4, <1>5, <1>6, <1>8 DEF Arriving

LEMMA CrossStep ==
  ASSUME RoutingInv, UNCHANGED registryVars, NEW p \in Positions, Cross(p)
  PROVE  (BootRequests /\ SettledCaptures /\ Arriving /\ OneEvent /\ Routes)'
<1>0. /\ Inert /\ BootRequests /\ SettledCaptures
      /\ Fresh /\ Quiet /\ Chain /\ Places /\ OneEvent /\ Routes
      /\ backend_events \in Seq(Positions \X Events)
  BY DEF RoutingInv, Queued, Arriving, Inert, TypeOK, TaskTypeOK
<1>1. /\ grabbed = None /\ p \in barriers /\ grabbed' = p /\ phase \in Alive
      /\ backend_events' = Append(backend_events, <<p, BeginEvent>>)
      /\ UNCHANGED <<requests, captures, barriers, position_map, pending, phase, acc, active_client>>
  BY DEF Cross
<1>2. BootRequests' /\ SettledCaptures' /\ FewerRequests
  BY <1>0, <1>1, SameRequests
<1> DEFINE n == Len(backend_events)
           b == <<p, BeginEvent>>
<1>3. /\ n \in Nat /\ Len(backend_events') = n + 1 /\ backend_events'[n + 1] = b
      /\ \A i \in 1 .. n : backend_events'[i] = backend_events[i]
      /\ backend_events' # <<>>
  BY <1>0, <1>1
<1>4. b[1] = p /\ b[2] = BeginEvent
  OBVIOUS
<1> HIDE DEF b
<1>5. Current' \subseteq Current
  <2>1. CASE backend_events = <<>>
    <3>1. backend_events'[1] = b
      BY <1>3, <2>1
    <3> QED BY <1>3, <1>4, <3>1 DEF Current
  <2>2. CASE backend_events # <<>>
    <3>1. backend_events'[1] = backend_events[1]
      BY <1>0, <1>3, <2>2
    <3> QED BY <1>3, <2>2, <3>1 DEF Current
  <2> QED BY <2>1, <2>2
<1>6. Fresh'
  <2>1. \A k \in 1 .. Len(backend_events') :
          \/ backend_events'[k][1] \in barriers \cup {grabbed}
          \/ \E i \in 1 .. Len(backend_events) : backend_events'[k][1] = backend_events[i][1]
    BY <1>1, <1>3, <1>4
  <2> QED BY <1>0, <1>1, <1>2, <2>1, FreshKept
<1>7. Quiet'
  BY <1>0, <1>1, <1>5 DEF Quiet
<1>8. Chain'
  <2>1. \A i \in 1 .. n : \/ backend_events'[i + 1][2] = BeginEvent
                          \/ backend_events'[i + 1][1] = backend_events'[i][1]
    BY <1>0, <1>3, <1>4 DEF Chain
  <2>2. backend_events'[Len(backend_events')][1] = grabbed'
    BY <1>1, <1>3, <1>4
  <2> QED BY <1>3, <2>1, <2>2 DEF Chain
<1>9. Places'
  BY <1>0, <1>1 DEF Places, Home
<1>10. OneEvent' /\ Routes'
  <2>1. \A q : Deaf(q)' = Deaf(q)
    BY <1>1 DEF Deaf, ForClient
  <2>2. Owners' = Owners /\ (active_client' # None => acc' \subseteq {active_client'})
    BY <1>0, <1>1 DEF Routes, OwnersTyped, Owners
  <2> QED BY <1>1, <1>5, <2>1, <2>2, CalmRoutes
<1> QED BY <1>2, <1>6, <1>7, <1>8, <1>9, <1>10 DEF Arriving

LEMMA UserInputStep ==
  ASSUME RoutingInv, UNCHANGED registryVars, NEW e \in InputEvents, UserInput(e)
  PROVE  (BootRequests /\ SettledCaptures /\ Arriving /\ OneEvent /\ Routes)'
<1>0. /\ Inert /\ BootRequests /\ SettledCaptures
      /\ Fresh /\ Quiet /\ Chain /\ Places /\ OneEvent /\ Routes
      /\ backend_events \in Seq(Positions \X Events)
  BY DEF RoutingInv, Queued, Arriving, Inert, TypeOK, TaskTypeOK
<1>1. /\ grabbed # None /\ grabbed' = grabbed /\ phase \in Alive
      /\ backend_events' = Append(backend_events, <<grabbed, e>>)
      /\ UNCHANGED <<requests, captures, barriers, position_map, pending, phase, acc, active_client>>
  BY DEF UserInput
<1>2. BootRequests' /\ SettledCaptures' /\ FewerRequests
  BY <1>0, <1>1, SameRequests
<1> DEFINE n == Len(backend_events)
           b == <<grabbed, e>>
<1>3. grabbed \in Positions /\ e \in Events
  BY <1>0, <1>1 DEF Inert, TypeOK, TaskTypeOK, Events
<1>4. /\ n \in Nat /\ Len(backend_events') = n + 1 /\ backend_events'[n + 1] = b
      /\ \A i \in 1 .. n : backend_events'[i] = backend_events[i]
      /\ backend_events' # <<>>
  BY <1>0, <1>1, <1>3
<1>5. b[1] = grabbed /\ b[2] = e
  OBVIOUS
<1> HIDE DEF b
<1>6. Current' \subseteq Current
  <2>1. CASE backend_events = <<>>
    <3>1. backend_events'[1] = b
      BY <1>4, <2>1
    <3> QED BY <1>4, <1>5, <2>1, <3>1 DEF Current
  <2>2. CASE backend_events # <<>>
    <3>1. backend_events'[1] = backend_events[1]
      BY <1>0, <1>4, <2>2
    <3> QED BY <1>4, <2>2, <3>1 DEF Current
  <2> QED BY <2>1, <2>2
<1>7. Fresh'
  <2>1. \A k \in 1 .. Len(backend_events') :
          \/ backend_events'[k][1] \in barriers \cup {grabbed}
          \/ \E i \in 1 .. Len(backend_events) : backend_events'[k][1] = backend_events[i][1]
    BY <1>4, <1>5
  <2> QED BY <1>0, <1>1, <1>2, <2>1, FreshKept
<1>8. Quiet'
  BY <1>0, <1>1, <1>6 DEF Quiet
<1>9. Chain'
  <2>1. \A i \in 1 .. n - 1 : \/ backend_events'[i + 1][2] = BeginEvent
                              \/ backend_events'[i + 1][1] = backend_events'[i][1]
    BY <1>0, <1>4 DEF Chain
  <2>2. n # 0 => backend_events'[n + 1][1] = backend_events'[n][1]
    BY <1>0, <1>1, <1>4, <1>5 DEF Chain
  <2>3. backend_events'[Len(backend_events')][1] = grabbed'
    BY <1>1, <1>4, <1>5
  <2>4. ASSUME NEW i \in 1 .. n
        PROVE  \/ backend_events'[i + 1][2] = BeginEvent
               \/ backend_events'[i + 1][1] = backend_events'[i][1]
    <3>1. CASE i = n
      BY <1>4, <2>2, <3>1
    <3>2. CASE i # n
      BY <1>4, <2>1, <3>2
    <3> QED BY <3>1, <3>2
  <2> QED BY <1>4, <2>3, <2>4 DEF Chain
<1>10. Places'
  BY <1>0, <1>1 DEF Places, Home
<1>11. OneEvent' /\ Routes'
  <2>1. \A q : Deaf(q)' = Deaf(q)
    BY <1>1 DEF Deaf, ForClient
  <2>2. Owners' = Owners /\ (active_client' # None => acc' \subseteq {active_client'})
    BY <1>0, <1>1 DEF Routes, OwnersTyped, Owners
  <2> QED BY <1>1, <1>6, <2>1, <2>2, CalmRoutes
<1> QED BY <1>2, <1>7, <1>8, <1>9, <1>10, <1>11 DEF Arriving

------------------------------------------------------------------------------
\* An event is delivered.  For an incoming device nobody owns more; Begin of a
\* client, or input of one that is the only owner, leaves it the only owner.
OnlyOwner(h) == Owners' \subseteq {h} /\ (active_client' # None => acc' \subseteq {active_client'})

LEMMA DeliverOwners ==
  ASSUME Inert, OwnersTyped, NEW h \in Handles, NEW e, NEW pressed, HandleKnown(h, e, pressed)
  PROVE  /\ grabbed' \in {grabbed, None}
         /\ h \in EnterHandles => acc' \subseteq acc /\ active_client' \in {active_client, None}
         /\ h \in ClientHandles /\ (e = BeginEvent \/ Owners \subseteq {h}) => OnlyOwner(h)
<1>0. /\ \A c \in CapturesOf(h) : c.type = "Default" <=> h \in ClientHandles
      /\ h \in EnterHandles => h \notin ClientHandles
      /\ active_client # None => acc \subseteq {active_client}
      /\ \A c \in CapturesOf(h) : c.type \in {"Default", "EnterOnly"}
  BY HandlesApart DEF Inert, Proper, CapturesOf, ProperCaptures, OwnersTyped, Captures, CaptureTypes
<1>1. CASE ReleaseCapture
  BY <1>1 DEF ReleaseCapture, Ungrab, OnlyOwner, Owners
<1>2. ASSUME NEW c \in CapturesOf(h), c.type = "EnterOnly", HandleEnterOnly(c.pos, pressed)
      PROVE  /\ grabbed' \in {grabbed, None} /\ UNCHANGED <<acc, active_client>>
             /\ h \notin ClientHandles
  <2>1. h \notin ClientHandles
    BY <1>0, <1>2
  <2> QED BY <1>2, <2>1 DEF HandleEnterOnly, UngrabUnless
<1>3. ASSUME NEW c \in CapturesOf(h), c.type = "Default", e = BeginEvent, HandleBegin(h, pressed)
      PROVE  h \in ClientHandles /\ grabbed' \in {grabbed, None} /\ OnlyOwner(h)
  <2>1. h \in ClientHandles
    BY <1>0, <1>3
  <2>2. /\ acc' = IF h # active_client THEN {} ELSE acc
        /\ active_client' = h /\ grabbed' \in {grabbed, None}
    BY <1>3 DEF HandleBegin, UngrabUnless
  <2>3. h # None
    BY TaskAssumption
  <2>4. acc' \subseteq {h}
    BY <1>0, <2>2, <2>3
  <2> QED BY <2>1, <2>2, <2>4 DEF OnlyOwner, Owners
<1>4. ASSUME NEW c \in CapturesOf(h), c.type = "Default",
             HandleUnacked(h, pressed) \/ HandleSending(h, e, pressed)
      PROVE  /\ h \in ClientHandles /\ grabbed' \in {grabbed, None}
             /\ Owners \subseteq {h} => OnlyOwner(h)
  <2>1. h \in ClientHandles
    BY <1>0, <1>4
  <2>2. grabbed' \in {grabbed, None} /\ active_client' = active_client /\ acc' \subseteq acc \cup {h}
    BY <1>4 DEF HandleUnacked, HandleSending, UngrabUnless
  <2>3. ASSUME Owners \subseteq {h} PROVE OnlyOwner(h)
    <3>1. acc \subseteq {h} /\ active_client \in {h, None}
      BY <2>3 DEF Owners
    <3> QED BY <2>2, <3>1 DEF OnlyOwner, Owners
  <2> QED BY <2>1, <2>2, <2>3
<1>5. \/ ReleaseCapture
      \/ \E c \in CapturesOf(h) :
           \/ c.type = "EnterOnly" /\ HandleEnterOnly(c.pos, pressed)
           \/ c.type = "Default" /\ e = BeginEvent /\ HandleBegin(h, pressed)
           \/ c.type = "Default" /\ e # BeginEvent
                /\ (HandleUnacked(h, pressed) \/ HandleSending(h, e, pressed))
  BY DEF HandleKnown
<1>6. CASE \E c \in CapturesOf(h) : c.type = "EnterOnly" /\ HandleEnterOnly(c.pos, pressed)
  BY <1>2, <1>6
<1>7. CASE \E c \in CapturesOf(h) : c.type = "Default" /\ e = BeginEvent /\ HandleBegin(h, pressed)
  BY <1>0, <1>3, <1>7
<1>8. CASE \E c \in CapturesOf(h) : c.type = "Default" /\ e # BeginEvent
             /\ (HandleUnacked(h, pressed) \/ HandleSending(h, e, pressed))
  BY <1>0, <1>4, <1>8
<1> QED BY <1>1, <1>5, <1>6, <1>7, <1>8

\* What the poll finds: the handle is an incoming device's or a client that is
\* there, and the client that is given input is the only owner.
LEMMA PolledHandle ==
  ASSUME RoutingInv, NEW h \in Handles, NEW e, Yields(h, e)
  PROVE  /\ h \in EnterHandles \cup clients
         /\ e # BeginEvent /\ h \in clients => Owners \subseteq {h}
<1>0. /\ Quiet /\ Places /\ OneEvent /\ Routes /\ Apart
      /\ pending \in Seq(Handles \X Events) /\ backend_events \in Seq(Positions \X Events)
      /\ clients \in SUBSET ClientHandles
  BY DEF RoutingInv, Queued, Arriving, Inert, TypeOK, TaskTypeOK, RegistryTypeOK
<1>1. ASSUME pending # <<>>, Head(pending)[1] = h, Head(pending)[2] = e
      PROVE  /\ h \in EnterHandles \cup clients
             /\ e # BeginEvent /\ h \in clients => Owners \subseteq {h}
  <2>1. 1 \in 1 .. Len(pending) /\ pending[1][1] = h /\ pending[1][2] = e
    BY <1>0, <1>1
  <2> QED BY <1>0, <2>1 DEF OneEvent, Routes
<1>2. ASSUME pending = <<>>, backend_events # <<>>,
             position_map[Head(backend_events)[1]] # <<>>,
             position_map[Head(backend_events)[1]][1] = h, Head(backend_events)[2] = e
      PROVE  /\ h \in EnterHandles \cup clients
             /\ e # BeginEvent /\ h \in clients => Owners \subseteq {h}
  <2> DEFINE q == backend_events[1][1]
  <2>1. /\ q \in Positions /\ backend_events[1][2] = e
        /\ position_map[q] # <<>> /\ position_map[q][1] = h
    BY <1>0, <1>2
  <2> HIDE DEF q
  <2>2. position_map[q] \in Seq(EnterHandles \cup Home(q))
    BY <1>0, <2>1 DEF Places
  <2>3. 1 \in 1 .. Len(position_map[q]) /\ h \in EnterHandles \cup Home(q)
    BY <2>1, <2>2
  <2>4. ASSUME e # BeginEvent, h \in clients PROVE Owners \subseteq {h}
    <3>1. q \in Current
      BY <1>2, <2>1, <2>4 DEF Current, q
    <3>2. 1 .. Len(pending) = {}
      BY <1>2
    <3>3. ~Coming(q)
      BY <3>2 DEF Coming
    <3>4. h \notin EnterHandles
      BY <1>0, <2>4, HandlesApart
    <3>5. ~Deaf(q)
      BY <2>1, <2>3, <3>4 DEF Deaf
    <3>6. Owners \subseteq Home(q)
      BY <1>0, <3>1, <3>3, <3>5 DEF Routes
    <3> QED BY <1>0, <2>3, <3>4, <3>6 DEF Home, Apart
  <2> QED BY <2>3, <2>4 DEF Home
<1> QED BY <1>1, <1>2 DEF Yields

\* So what is sent is routed.
LEMMA TaskRouted ==
  ASSUME RoutingInv, CaptureTaskNext
  PROVE  sent' \in Seq(RoutedMessages)
<1>0. /\ TaskTypeOK /\ sent \in Seq(RoutedMessages) /\ OwnersTyped /\ Proper
  BY DEF RoutingInv, Inert, TypeOK, Routes
<1>1. \A to \in Handles, msg \in {"Enter", "Leave"}, src \in SUBSET Handles :
        Message(to, msg, src) \in RoutedMessages
  BY <1>0 DEF TaskTypeOK, Message, Messages, RoutedMessages
<1>2. ASSUME NEW to \in Handles, NEW src \in SUBSET {to}, active_client \in {None, to}
      PROVE  Message(to, "Input", src) \in RoutedMessages
  BY <1>0, <1>2 DEF TaskTypeOK, Message, Messages, RoutedMessages
<1>3. MayRelease(RoutedMessages)
  <2>1. {} \in SUBSET Handles
    OBVIOUS
  <2> QED BY <1>0, <1>1, <1>2, <2>1 DEF TaskTypeOK, MayRelease, OwnersTyped
<1>4. ASSUME NEW h \in Handles, NEW e \in Events, Yields(h, e)
      PROVE  MayHandle(RoutedMessages, h, e)
  <2> SUFFICES ASSUME NEW c \in CapturesOf(h), c.type = "Default"
               PROVE  /\ Message(h, "Enter", {}) \in RoutedMessages
                      /\ e # BeginEvent => /\ Message(h, "Input", acc) \in RoutedMessages
                                           /\ Message(h, "Input", {h}) \in RoutedMessages
    BY DEF MayHandle
  <2>1. {} \in SUBSET Handles /\ Message(h, "Enter", {}) \in RoutedMessages
    BY <1>1
  <2>2. h \in ClientHandles
    BY <1>0 DEF Proper, CapturesOf, ProperCaptures
  <2>3. h \in clients
    BY <1>4, <2>2, PolledHandle, HandlesApart
  <2>4. ASSUME e # BeginEvent
        PROVE  acc \in SUBSET {h} /\ active_client \in {None, h}
    <3>1. Owners \subseteq {h}
      BY <1>4, <2>3, <2>4, PolledHandle
    <3> QED BY <3>1 DEF Owners
  <2>5. {h} \in SUBSET {h}
    OBVIOUS
  <2> QED BY <1>2, <2>1, <2>4, <2>5
<1> QED BY <1>0, <1>3, <1>4, TaskSends

LEMMA PendingStep ==
  ASSUME RoutingInv, UNCHANGED registryVars, PollPending
  PROVE  (BootRequests /\ SettledCaptures /\ Arriving /\ OneEvent /\ Routes)'
<1> DEFINE h == Head(pending)[1]
           e == Head(pending)[2]
<1>0. /\ Inert /\ BootRequests /\ SettledCaptures
      /\ Fresh /\ Quiet /\ Chain /\ Places /\ OneEvent /\ Routes
      /\ pending \in Seq(Handles \X Events) /\ pending # <<>> /\ phase = "session"
      /\ clients \in SUBSET ClientHandles
  BY DEF RoutingInv, Queued, Arriving, Inert, TypeOK, TaskTypeOK, RegistryTypeOK, PollPending
<1>1. /\ pending[1] = Head(pending) /\ Len(pending) \in Nat /\ Len(pending) >= 1
      /\ Len(Tail(pending)) = Len(pending) - 1
      /\ \A i \in 1 .. Len(pending) - 1 : Tail(pending)[i] = pending[i + 1]
  BY <1>0
<1>2. h \in Handles /\ Yields(h, e)
  <2>1. Head(pending) \in Handles \X Events
    BY <1>0
  <2> QED BY <1>0, <2>1 DEF Yields
<1>3. Deliver(h, e, pressed_keys, Tail(pending), backend_events)
  BY DEF PollPending
<1>4. pending[1][1] = h /\ pending[1][2] = e
  BY <1>1
<1> HIDE DEF h, e
<1>5. CASE Panic(IF e = BeginEvent THEN <<CaptureBegin(h)>> ELSE <<>>)
  BY <1>5, DropRoutes DEF Panic
<1>6. ASSUME HandleKnown(h, e, pressed_keys), pending' = Tail(pending),
             UNCHANGED <<backend_events, phase, captures, position_map, barriers, requests>>
      PROVE  (BootRequests /\ SettledCaptures /\ Arriving /\ OneEvent /\ Routes)'
  <2>1. h \in EnterHandles \cup clients /\ (e # BeginEvent /\ h \in clients => Owners \subseteq {h})
    BY <1>2, PolledHandle
  <2>2. /\ grabbed' \in {grabbed, None}
        /\ h \in EnterHandles => acc' \subseteq acc /\ active_client' \in {active_client, None}
        /\ h \in clients => OnlyOwner(h)
    BY <1>0, <1>2, <1>6, <2>1, DeliverOwners DEF Routes
  <2>3. /\ OwnersTyped'
        /\ h \in EnterHandles => Owners' \subseteq Owners
        /\ h \in clients => Owners' \subseteq {h}
    BY <1>0, <2>1, <2>2 DEF OnlyOwner, OwnersTyped, Owners, Routes
  <2>4. BootRequests' /\ SettledCaptures' /\ FewerRequests
    BY <1>0, <1>6, SameRequests
  <2>5. Current' \subseteq Current
    BY <1>6, <2>2, TaskAssumption DEF Current
  <2>6. Fresh'
    BY <1>0, <1>6, <2>2, <2>4, FreshKept
  <2>7. Quiet' /\ Chain' /\ Places'
    BY <1>0, <1>6, <2>2 DEF Quiet, Chain, Places, Home
  <2>8. \A q : Home(q)' = Home(q) /\ Deaf(q)' = Deaf(q)
    BY <1>6 DEF Home, Deaf, ForClient
  <2>9. \A i \in 1 .. Len(pending') : i + 1 \in 1 .. Len(pending) /\ pending'[i] = pending[i + 1]
    BY <1>1, <1>6
  <2>10. OneEvent'
    <3> SUFFICES ASSUME NEW i \in 1 .. Len(pending'), NEW j \in 1 .. Len(pending')
                 PROVE  /\ pending'[i][2] = pending'[j][2]
                        /\ pending'[i][1] \in EnterHandles \cup clients
                        /\ pending'[i][1] \in clients /\ pending'[j][1] \in clients
                             => pending'[i][1] = pending'[j][1]
      BY DEF OneEvent
    <3>1. /\ i + 1 \in 1 .. Len(pending) /\ pending'[i] = pending[i + 1]
          /\ j + 1 \in 1 .. Len(pending) /\ pending'[j] = pending[j + 1]
      BY <2>9
    <3> QED BY <1>0, <3>1 DEF OneEvent
  <2>11. ASSUME NEW i \in 1 .. Len(pending')
         PROVE  /\ pending'[i][1] \in clients /\ h \in clients => pending'[i][1] = h
                /\ pending'[i][2] = e
                /\ pending'[i][1] \in clients /\ pending'[i][2] # BeginEvent
                     => Owners' \subseteq {pending'[i][1]}
    <3>1. i + 1 \in 1 .. Len(pending) /\ pending'[i] = pending[i + 1] /\ 1 \in 1 .. Len(pending)
      BY <1>1, <2>9
    <3>2. /\ pending[i + 1][1] \in clients /\ h \in clients => pending[i + 1][1] = h
          /\ pending[i + 1][2] = e
      BY <1>0, <1>4, <3>1 DEF OneEvent
    <3>3. pending[i + 1][1] \in clients /\ e # BeginEvent => Owners \subseteq {pending[i + 1][1]}
      BY <1>0, <3>1, <3>2 DEF Routes
    <3> QED BY <2>1, <2>3, <3>1, <3>2, <3>3
  <2>12. ASSUME NEW p \in Current'
         PROVE  Owners' \subseteq Home(p) \/ Deaf(p)' \/ Coming(p)'
    <3>1. p \in Current /\ 1 \in 1 .. Len(pending) /\ (h \in clients => h \in Home(p))
      BY <1>0, <1>1, <1>4, <2>5 DEF Routes
    <3>2. CASE h \in clients
      BY <2>3, <3>1, <3>2
    <3>3. CASE h \notin clients
      <4>1. Owners' \subseteq Owners
        BY <2>1, <2>3, <3>3
      <4>2. CASE Coming(p)
        <5>1. PICK i \in 1 .. Len(pending) : pending[i][2] = BeginEvent /\ pending[i][1] \in Home(p)
          BY <4>2 DEF Coming
        <5>2. i # 1
          BY <1>4, <3>3, <5>1 DEF Home
        <5>3. i - 1 \in 1 .. Len(pending') /\ pending'[i - 1] = pending[i]
          BY <1>1, <1>6, <5>2
        <5> QED BY <2>8, <5>1, <5>3 DEF Coming
      <4>3. CASE Owners \subseteq Home(p) \/ Deaf(p)
        BY <2>8, <4>1, <4>3
      <4> QED BY <1>0, <3>1, <4>2, <4>3 DEF Routes
    <3> QED BY <3>2, <3>3
  <2>13. ASSUME NEW p \in Current', NEW i \in 1 .. Len(pending'), pending'[i][1] \in clients
         PROVE  pending'[i][1] \in Home(p)
    BY <1>0, <2>5, <2>9, <2>13 DEF Routes
  <2>14. Routes'
    BY <2>3, <2>8, <2>11, <2>12, <2>13 DEF Routes
  <2> QED BY <2>4, <2>6, <2>7, <2>10, <2>14 DEF Arriving
<1> QED BY <1>3, <1>5, <1>6 DEF Deliver

\* A sequence whose members are in another set.
LEMMA SeqIn ==
  ASSUME NEW S, NEW T, NEW s \in Seq(S), \A k \in 1 .. Len(s) : s[k] \in T
  PROVE  s \in Seq(T)
<1>1. Len(s) \in Nat /\ s = [k \in 1 .. Len(s) |-> s[k]]
  OBVIOUS
<1>2. s \in [1 .. Len(s) -> T]
  BY <1>1
<1> QED BY <1>1, <1>2

LEMMA BackendStepAt ==
  ASSUME RoutingInv, UNCHANGED registryVars, PollBackend, NEW q, q = Head(backend_events)[1]
  PROVE  (BootRequests /\ SettledCaptures /\ Arriving /\ OneEvent /\ Routes)'
<1> DEFINE e == Head(backend_events)[2]
           ids == position_map[q]
           n == Len(backend_events)
           rest == [i \in 1 .. Len(ids) - 1 |-> <<ids[i + 1], e>>]
           Goal == (BootRequests /\ SettledCaptures /\ Arriving /\ OneEvent /\ Routes)'
<1>0. /\ Inert /\ BootRequests /\ SettledCaptures /\ Apart
      /\ Fresh /\ Quiet /\ Chain /\ Places /\ OneEvent /\ Routes
      /\ backend_events \in Seq(Positions \X Events) /\ backend_events # <<>>
      /\ pending = <<>> /\ phase = "session"
      /\ clients \in SUBSET ClientHandles
  BY DEF RoutingInv, Queued, Arriving, Inert, TypeOK, TaskTypeOK, RegistryTypeOK, PollBackend
<1>1. /\ n \in Nat /\ n >= 1 /\ q \in Positions
      /\ backend_events[1][1] = q /\ backend_events[1][2] = e
      /\ Len(Tail(backend_events)) = n - 1
      /\ \A i \in 1 .. n - 1 : Tail(backend_events)[i] = backend_events[i + 1]
      /\ Tail(backend_events) = <<>> <=> n = 1
  <2>1. backend_events[1] = Head(backend_events) /\ Head(backend_events) \in Positions \X Events
    BY <1>0
  <2>2. /\ n \in Nat /\ n >= 1 /\ Len(Tail(backend_events)) = n - 1
        /\ \A i \in 1 .. n - 1 : Tail(backend_events)[i] = backend_events[i + 1]
    BY <1>0
  <2>3. Tail(backend_events) \in Seq(Positions \X Events)
    <3>1. backend_events \in Seq(Positions \X Events) /\ backend_events # <<>>
      BY <1>0
    <3> QED BY ONLY <3>1
  <2>4. Tail(backend_events) = <<>> <=> Len(Tail(backend_events)) = 0
    BY <2>3, EmptySeq
  <2>5. Tail(backend_events) = <<>> <=> n = 1
    BY <2>2, <2>4
  <2> HIDE DEF n
  <2> QED BY <2>1, <2>2, <2>5
<1>2. /\ ids \in Seq(EnterHandles \cup Home(q)) /\ ids \in Seq(Handles) /\ Len(ids) \in Nat
      /\ \A k \in 1 .. Len(ids) : ids[k] \in EnterHandles \cup Home(q)
  <2>1. ids \in Seq(EnterHandles \cup Home(q))
    BY <1>0, <1>1 DEF Places
  <2>2. EnterHandles \cup Home(q) \subseteq Handles
    BY <1>0 DEF Home, Handles
  <2> QED BY <2>1, <2>2
<1>3. /\ ids = <<>> =>
           /\ backend_events' = Tail(backend_events)
           /\ UNCHANGED <<taskVars, position_map, pending, barriers, grabbed, requests>>
      /\ ids # <<>> =>
           Deliver(ids[1], e, Pressed(e), rest, Tail(backend_events))
  BY DEF PollBackend
<1> HIDE DEF e, ids, n
\* What follows is of the same position, unless it is Begin.
<1>4. ASSUME backend_events' = Tail(backend_events), grabbed' \in {grabbed, None},
             UNCHANGED <<phase, captures, position_map, barriers, requests>>
      PROVE  /\ BootRequests' /\ SettledCaptures' /\ Fresh' /\ Chain' /\ Places'
             /\ pending' = <<>> \/ phase' = "session" => Quiet'
             /\ \A p \in Current' : p = q
             /\ \A p : Home(p)' = Home(p) /\ Deaf(p)' = Deaf(p)
             /\ (\A k \in 1 .. Len(ids) : ids[k] \notin clients) => Deaf(q)
  <2>1. BootRequests' /\ SettledCaptures' /\ FewerRequests
    BY <1>0, <1>4, SameRequests
  <2>2. \A i \in 1 .. Len(backend_events') :
          i + 1 \in 1 .. n /\ backend_events'[i] = backend_events[i + 1]
    BY <1>1, <1>4
  <2>3. Fresh'
    <3>1. \A k \in 1 .. Len(backend_events') :
            \E i \in 1 .. Len(backend_events) : backend_events'[k][1] = backend_events[i][1]
      BY <2>2 DEF n
    <3> QED BY <1>0, <1>4, <2>1, <3>1, FreshKept
  <2>4. Chain'
    <3>1. Len(backend_events') = n - 1
      BY <1>1, <1>4
    <3>2. \A i \in 1 .. Len(backend_events') - 1 :
            \/ backend_events'[i + 1][2] = BeginEvent
            \/ backend_events'[i + 1][1] = backend_events'[i][1]
      <4> TAKE i \in 1 .. Len(backend_events') - 1
      <4>1. i + 1 \in 1 .. n - 1 /\ backend_events'[i] = backend_events[i + 1]
            /\ backend_events'[i + 1] = backend_events[(i + 1) + 1]
        BY <1>1, <2>2, <3>1
      <4> QED BY <1>0, <4>1 DEF Chain, n
    <3>3. backend_events' # <<>> /\ grabbed' # None
            => backend_events'[Len(backend_events')][1] = grabbed'
      <4> SUFFICES ASSUME backend_events' # <<>>, grabbed' # None
                   PROVE  backend_events'[Len(backend_events')][1] = grabbed'
        OBVIOUS
      <4>1. n # 1
        BY <1>1, <1>4
      <4>2. backend_events'[n - 1] = backend_events[n]
        BY <1>1, <2>2, <3>1, <4>1
      <4> QED BY <1>0, <1>4, <3>1, <4>2 DEF Chain, n
    <3> QED BY <3>2, <3>3 DEF Chain
  <2>5. Places'
    BY <1>0, <1>4 DEF Places, Home
  <2>6. phase' = "session"
    BY <1>0, <1>4
  <2>7. ASSUME NEW p \in Current' PROVE p = q
    <3>1. CASE n = 1
      <4>1. backend_events' = <<>> /\ grabbed' = p /\ p # None
        BY <1>1, <1>4, <2>7, <3>1, TaskAssumption DEF Current
      <4>2. grabbed = p
        BY <1>4, <4>1
      <4> QED BY <1>0, <1>1, <3>1, <4>1, <4>2 DEF Chain, n
    <3>2. CASE n # 1
      <4>1. backend_events' # <<>> /\ backend_events'[1] = backend_events[2] /\ 1 \in 1 .. n - 1
        BY <1>1, <1>4, <3>2
      <4>2. backend_events[2][1] = p /\ backend_events[2][2] # BeginEvent
        BY <2>7, <4>1 DEF Current
      <4>3. backend_events[1 + 1][1] = backend_events[1][1] \/ backend_events[1 + 1][2] = BeginEvent
        BY <1>0, <4>1 DEF Chain, n
      <4> QED BY <1>1, <4>2, <4>3
    <3> QED BY <3>1, <3>2
  <2>8. \A p : Home(p)' = Home(p) /\ Deaf(p)' = Deaf(p)
    BY <1>4 DEF Home, Deaf, ForClient
  <2>9. ASSUME \A k \in 1 .. Len(ids) : ids[k] \notin clients PROVE Deaf(q)
    <3>1. \A k \in 1 .. Len(ids) : ids[k] \in EnterHandles
      BY <1>2, <2>9 DEF Home
    <3>2. ids \in Seq(EnterHandles)
      BY <1>2, <3>1, SeqIn
    <3>3. \A i \in 1 .. Len(requests) : ForClient(requests[i]) => requests[i].pos # q
      BY <1>0, <1>1 DEF Fresh, n
    <3> QED BY <3>2, <3>3 DEF Deaf, ids
  <2> QED BY <2>1, <2>3, <2>4, <2>5, <2>6, <2>7, <2>8, <2>9 DEF Quiet, Alive, Delivering
<1>5. CASE ids = <<>>
  <2>1. /\ backend_events' = Tail(backend_events) /\ pending' = <<>>
        /\ UNCHANGED <<phase, captures, position_map, barriers, requests, grabbed, acc, active_client>>
    BY <1>0, <1>3, <1>5
  <2>2. /\ BootRequests' /\ SettledCaptures' /\ Fresh' /\ Chain' /\ Places' /\ Quiet'
        /\ \A p \in Current' : p = q
        /\ \A p : Home(p)' = Home(p) /\ Deaf(p)' = Deaf(p)
        /\ (\A k \in 1 .. Len(ids) : ids[k] \notin clients) => Deaf(q)
    BY <1>4, <2>1
  <2>3. Deaf(q) /\ 1 .. Len(pending') = {}
    BY <1>5, <2>1, <2>2
  <2>4. OneEvent'
    BY <2>3 DEF OneEvent
  <2>5. Routes'
    <3>1. OwnersTyped'
      BY <1>0, <2>1 DEF Routes, OwnersTyped, Owners
    <3> QED BY <2>2, <2>3, <3>1 DEF Routes
  <2> QED BY <2>2, <2>4, <2>5 DEF Arriving
<1>6. CASE ids # <<>>
  <2> DEFINE h == ids[1]
  <2>1. h \in Handles /\ Len(ids) >= 1 /\ 1 \in 1 .. Len(ids)
    BY <1>2, <1>6
  <2>2. Yields(h, e)
    BY <1>0, <1>6 DEF Yields, ids, e
  <2>3. h \in EnterHandles \cup clients /\ (e # BeginEvent /\ h \in clients => Owners \subseteq {h})
    BY <2>1, <2>2, PolledHandle
  <2> HIDE DEF h
  <2>4. CASE Panic(IF e = BeginEvent THEN <<CaptureBegin(h)>> ELSE <<>>)
    BY <2>4, DropRoutes DEF Panic
  <2>5. ASSUME HandleKnown(h, e, Pressed(e)), pending' = rest, backend_events' = Tail(backend_events),
               UNCHANGED <<phase, captures, position_map, barriers, requests>>
        PROVE  Goal
    <3>1. /\ grabbed' \in {grabbed, None}
          /\ h \in EnterHandles => acc' \subseteq acc /\ active_client' \in {active_client, None}
          /\ h \in clients => OnlyOwner(h)
      BY <1>0, <2>1, <2>3, <2>5, DeliverOwners DEF Routes
    <3>2. /\ OwnersTyped'
          /\ h \in EnterHandles => Owners' \subseteq Owners
          /\ h \in clients => Owners' \subseteq {h}
      BY <1>0, <2>3, <2>5, <3>1 DEF OnlyOwner, OwnersTyped, Owners, Routes
    <3>3. /\ BootRequests' /\ SettledCaptures' /\ Fresh' /\ Chain' /\ Places' /\ Quiet'
          /\ \A p \in Current' : p = q
          /\ \A p : Home(p)' = Home(p) /\ Deaf(p)' = Deaf(p)
          /\ (\A k \in 1 .. Len(ids) : ids[k] \notin clients) => Deaf(q)
      BY <1>0, <1>4, <2>5, <3>1
    <3>4. /\ Len(pending') = Len(ids) - 1
          /\ \A i \in 1 .. Len(pending') :
               /\ i + 1 \in 1 .. Len(ids)
               /\ pending'[i][1] = ids[i + 1] /\ pending'[i][2] = e
               /\ ids[i + 1] \in EnterHandles \cup Home(q)
      BY <1>2, <2>1, <2>5
    <3>5. \A i \in 1 .. Len(pending') : pending'[i][1] \in clients => pending'[i][1] \in Home(q)
      BY <1>0, <3>4, HandlesApart
    <3>6. h \in clients => h \in Home(q)
      BY <1>0, <1>2, <2>1, HandlesApart DEF h
    <3>7. \A c, d \in Home(q) : c = d
      BY <1>0 DEF Home, Apart
    <3>8. OneEvent'
      <4> SUFFICES ASSUME NEW i \in 1 .. Len(pending'), NEW j \in 1 .. Len(pending')
                   PROVE  /\ pending'[i][2] = pending'[j][2]
                          /\ pending'[i][1] \in EnterHandles \cup clients
                          /\ pending'[i][1] \in clients /\ pending'[j][1] \in clients
                               => pending'[i][1] = pending'[j][1]
        BY DEF OneEvent
      <4>1. \A c \in Home(q) : c \in clients
        BY DEF Home
      <4> QED BY <3>4, <3>5, <3>7, <4>1
    \* Input: whoever owns anything is at q, or no client hears of q.
    <3>9. ASSUME e # BeginEvent
          PROVE  Deaf(q) \/ Owners \subseteq Home(q)
      <4>1. q \in Current
        BY <1>0, <1>1, <3>9 DEF Current
      <4>2. ~Coming(q)
        <5>1. 1 .. Len(pending) = {}
          BY <1>0
        <5> QED BY <5>1 DEF Coming
      <4> QED BY <1>0, <4>1, <4>2 DEF Routes
    <3>10. ASSUME Deaf(q) PROVE \A k \in 1 .. Len(ids) : ids[k] \notin clients
      <4>1. \A k \in 1 .. Len(ids) : ids[k] \in EnterHandles
        BY <3>10 DEF Deaf, ids
      <4> QED BY <1>0, <4>1, HandlesApart
    <3>11. ASSUME NEW i \in 1 .. Len(pending'), pending'[i][1] \in clients, pending'[i][2] # BeginEvent
           PROVE  Owners' \subseteq {pending'[i][1]}
      <4>1. e # BeginEvent /\ ids[i + 1] \in clients /\ pending'[i][1] = ids[i + 1]
            /\ pending'[i][1] \in Home(q)
        BY <3>4, <3>5, <3>11
      <4>2. ~Deaf(q)
        BY <3>4, <3>10, <4>1
      <4>3. Owners \subseteq {pending'[i][1]}
        BY <3>7, <3>9, <4>1, <4>2
      <4> QED BY <2>3, <3>2, <3>6, <3>7, <4>1, <4>3
    <3>12. Owners' \subseteq Home(q) \/ Deaf(q) \/ Coming(q)'
      <4>1. CASE h \in clients
        BY <3>2, <3>6, <4>1
      <4>2. CASE h \notin clients /\ e # BeginEvent
        BY <2>3, <3>2, <3>9, <4>2
      <4>3. CASE h \notin clients /\ e = BeginEvent
        <5>1. CASE \A k \in 1 .. Len(ids) : ids[k] \notin clients
          BY <3>3, <5>1
        <5>2. ASSUME NEW k \in 1 .. Len(ids), ids[k] \in clients PROVE Coming(q)'
          <6>1. k # 1
            BY <4>3, <5>2 DEF h
          <6>2. k - 1 \in 1 .. Len(pending') /\ (k - 1) + 1 = k
            BY <1>2, <3>4, <6>1
          <6>3. pending'[k - 1][1] = ids[k] /\ pending'[k - 1][2] = e
            BY <3>4, <6>2
          <6>4. ids[k] \in Home(q)' /\ e = BeginEvent
            BY <3>3, <3>5, <4>3, <5>2, <6>2, <6>3
          <6>5. pending'[k - 1][2] = BeginEvent /\ pending'[k - 1][1] \in Home(q)'
            BY <6>3, <6>4
          <6>6. \E i \in 1 .. Len(pending') : pending'[i][2] = BeginEvent /\ pending'[i][1] \in Home(q)'
            BY <6>2, <6>5
          <6> QED BY <6>6 DEF Coming, BeginEvent
        <5> QED BY <5>1, <5>2
      <4> QED BY <4>1, <4>2, <4>3
    <3>13. Routes'
      <4>1. clients' = clients
        OBVIOUS
      <4>2. \A i \in 1 .. Len(pending') :
              pending'[i][1] \in clients' /\ pending'[i][2] # BeginEvent => Owners' \subseteq {pending'[i][1]}
        BY <3>11, <4>1
      <4>3. \A p \in Current' : Owners' \subseteq Home(p)' \/ Deaf(p)' \/ Coming(p)'
        <5> TAKE p \in Current'
        <5>1. p = q
          BY <3>3
        <5>2. Home(q)' = Home(q) /\ Deaf(q)' = Deaf(q)
          BY <3>3
        <5> QED BY <3>12, <5>1, <5>2
      <4>4. \A p \in Current' : \A i \in 1 .. Len(pending') :
              pending'[i][1] \in clients' => pending'[i][1] \in Home(p)'
        <5> TAKE p \in Current'
        <5>1. p = q
          BY <3>3
        <5>2. Home(q)' = Home(q)
          BY <3>3
        <5> QED BY <3>5, <4>1, <5>1, <5>2
      <4> QED BY <3>2, <4>2, <4>3, <4>4 DEF Routes
    <3> QED BY <3>3, <3>8, <3>13 DEF Arriving
  <2>6. Deliver(h, e, Pressed(e), rest, Tail(backend_events))
    BY <1>3, <1>6 DEF h
  <2> HIDE DEF rest
  <2> QED BY <2>4, <2>5, <2>6 DEF Deliver
<1> QED BY <1>5, <1>6

LEMMA BackendStep ==
  ASSUME RoutingInv, UNCHANGED registryVars, PollBackend
  PROVE  (BootRequests /\ SettledCaptures /\ Arriving /\ OneEvent /\ Routes)'
BY BackendStepAt

------------------------------------------------------------------------------
LEMMA RemoveAt ==
  ASSUME NEW S, NEW s \in Seq(S), NEW i \in DOMAIN s
  PROVE  SubSeq(s, 1, i - 1) \o SubSeq(s, i + 1, Len(s)) \in Seq(S)
<1>1. i \in 1 .. Len(s) /\ Len(s) \in Nat
  OBVIOUS
<1>2. SubSeq(s, 1, i - 1) \in Seq(S) /\ SubSeq(s, i + 1, Len(s)) \in Seq(S)
  BY <1>1, SubSeqProperties
<1> QED BY <1>2

\* Every step of the capture task.
LEMMA SettledTask ==
  ASSUME RoutingInv, TaskStep
  PROVE  (Queued /\ Arriving /\ OneEvent /\ Routes)' /\ sent' \in Seq(RoutedMessages)
<1> DEFINE Goal == (BootRequests /\ SettledCaptures /\ Arriving /\ OneEvent /\ Routes)'
           r == Head(requests)
<1>0. /\ Inert /\ Apart /\ BootRequests /\ SettledCaptures
      /\ Fresh /\ Quiet /\ Places /\ TaskTypeOK /\ requests \in Seq(Requests)
      /\ clients \in SUBSET ClientHandles
  BY DEF RoutingInv, Queued, Arriving, Inert, TypeOK, ChannelTypeOK, RegistryTypeOK
<1>1. UNCHANGED registryVars /\ CaptureTaskNext /\ Started
  BY DEF TaskStep
<1>2. \A next, news : next \in {"idle", "panicked"} /\ DropInputCapture(next, news) => Goal
  BY <1>1, DropRoutes
<1> HIDE DEF Goal
\* Steps that change neither the channel nor the captures, nor any barrier.
<1>3. ASSUME UNCHANGED <<requests, captures, backend_events, pending, position_map>>,
             barriers' = barriers, grabbed' \in {grabbed, None},
             phase' \in Alive \/ phase \notin Alive,
             phase' \in Delivering \/ phase \notin Delivering,
             acc' \subseteq acc, active_client' \in {active_client, None}
      PROVE  Goal
  <2>1. BootRequests' /\ SettledCaptures' /\ FewerRequests
    BY <1>0, <1>1, <1>3, SameRequests
  <2>2. barriers' \subseteq barriers
    BY <1>3
  <2>3. (Arriving /\ OneEvent /\ Routes)'
    BY <1>1, <1>3, <2>1, <2>2, CalmStep
  <2> QED BY <2>1, <2>3 DEF Goal
<1>4. NewCapture \/ BackendHangs => Goal
  BY <1>3 DEF NewCapture, BackendHangs, Alive, Delivering
<1>5. ASSUME CreateCaptures PROVE Goal
  <2>1. CASE phase' = "session"
    BY <1>3, <1>5, <2>1 DEF CreateCaptures, Alive, Delivering
  <2>2. CASE phase' # "session"
    <3>1. PICK c \in captures : CreateBarrier(c.handle, c.pos) /\ phase = "create" /\ phase' = phase
      BY <1>5, <2>2 DEF CreateCaptures
    <3>2. UNCHANGED <<requests, captures, backend_events, pending, grabbed, acc, active_client>>
      BY <1>5 DEF CreateCaptures
    <3>3. BootRequests' /\ SettledCaptures' /\ FewerRequests
      BY <1>0, <1>1, <3>2, SameRequests
    <3>4. c \in Captures /\ c.pos \in Positions /\ c.handle \in Handles
      BY <1>0 DEF TaskTypeOK, Captures
    <3>5. c.handle \in EnterHandles \cup Home(c.pos)
      BY <1>0, <3>4 DEF Handles, SettledCaptures, Home
    <3>6. ASSUME NEW i \in 1 .. Len(requests'), ForClient(requests'[i])
          PROVE  requests'[i].pos # c.pos
      <4>1. /\ requests[i].handle \in clients /\ requests[i].pos = pos[requests[i].handle]
            /\ requests[i].handle \notin HandlesOf(captures) /\ HandlesOf(captures) \subseteq clients
            /\ requests'[i] = requests[i]
        BY <1>0, <3>2, <3>6 DEF BootRequests, ForClient
      <4>2. c.handle \in HandlesOf(captures)
        BY DEF HandlesOf
      <4>3. c.handle \in clients /\ c.pos = pos[c.handle]
        BY <1>0, <4>1, <4>2 DEF SettledCaptures
      <4> QED BY <1>0, <4>1, <4>2, <4>3 DEF Apart
    <3>7. PICK p \in Positions, h \in Handles :
            /\ h \in EnterHandles \cup Home(p) /\ CreateBarrier(h, p)
            /\ \A i \in 1 .. Len(requests') : ForClient(requests'[i]) => requests'[i].pos # p
      BY <3>1, <3>4, <3>5, <3>6
    <3>8. (Arriving /\ OneEvent /\ Routes)'
      <4>1. phase = "create" /\ UNCHANGED <<backend_events, pending, grabbed, phase, acc, active_client>>
        BY <3>1, <3>2
      <4>2. RoutingInv
        OBVIOUS
      <4>3. UNCHANGED <<registryVars, backend_events, pending, grabbed, phase, acc, active_client>>
        BY <1>1, <4>1
      <4>4. FewerRequests
        BY <3>3
      <4>5. h \in EnterHandles \cup Home(p) /\ CreateBarrier(h, p)
        BY <3>7
      <4>6. \A i \in 1 .. Len(requests') : ForClient(requests'[i]) => requests'[i].pos # p
        BY <3>7
      <4>7. phase = "create"
        BY <3>1
      <4>8. phase = "create" \/ (phase = "session" /\ (h \in EnterHandles \/ ~Deaf(p)))
        BY ONLY <4>7, Zenon
      <4> QED BY ONLY <4>2, <4>3, <4>4, <4>5, <4>6, <4>8, BarrierStep
    <3> QED BY <3>3, <3>8 DEF Goal
  <2> QED BY <2>1, <2>2
<1>6. CaptureExits => Goal
  BY <1>2 DEF CaptureExits
<1>7. Cancel => Goal
  BY <1>3 DEF Cancel
<1>8. NoticeCancelled => Goal
  BY <1>2, <1>3 DEF NoticeCancelled, Alive, Delivering
\* A request is taken.
<1>9. ASSUME requests # <<>>, requests' = Tail(requests),
             captures' = IF r.op = "Create" THEN captures \cup {Capture(r.handle, r.pos, r.type)}
                         ELSE IF r.op = "Destroy" THEN captures \ CapturesOf(r.handle)
                         ELSE captures
      PROVE  /\ BootRequests' /\ SettledCaptures' /\ FewerRequests
             /\ ~ForClient(r) => \A i \in 1 .. Len(requests) : ~ForClient(requests[i])
             /\ ForClient(r) =>
                  /\ r.op = "Create" /\ r.handle \in clients /\ r.pos = pos[r.handle]
                  /\ \A i \in 1 .. Len(requests') : ForClient(requests'[i]) => requests'[i].pos # r.pos
  BY <1>0, <1>1, <1>9, Taking
<1>10. ASSUME IdleRequest PROVE Goal
  <2>1. requests # <<>> /\ requests' = Tail(requests)
    BY <1>10 DEF IdleRequest
  <2>2. captures' = IF r.op = "Create" THEN captures \cup {Capture(r.handle, r.pos, r.type)}
                    ELSE IF r.op = "Destroy" THEN captures \ CapturesOf(r.handle)
                    ELSE captures
    BY <1>10 DEF IdleRequest
  <2>3. BootRequests' /\ SettledCaptures' /\ FewerRequests
    BY <1>9, <2>1, <2>2
  <2>4. phase = "idle" /\ UNCHANGED <<active_client, acc, inputCaptureVars, backendVars>>
    BY <1>10 DEF IdleRequest
  <2>5. (Arriving /\ OneEvent /\ Routes)'
    BY <1>1, <2>3, <2>4, CalmStep DEF Alive, Delivering
  <2> QED BY <2>3, <2>5 DEF Goal
<1>11. ASSUME SessionRelease \/ SessionReenable PROVE Goal
  <2>1. /\ requests # <<>> /\ requests' = Tail(requests) /\ captures' = captures
        /\ r \in {ReleaseRequest, ReenableRequest}
    BY <1>11 DEF SessionRelease, SessionReenable
  <2>2. BootRequests' /\ SettledCaptures' /\ FewerRequests
    <3>1. r.op # "Create" /\ r.op # "Destroy"
      BY <2>1 DEF ReleaseRequest, ReenableRequest
    <3> QED BY <1>9, <2>1, <3>1
  <2>3. /\ phase' = phase /\ phase = "session" /\ acc' \subseteq acc
        /\ active_client' \in {active_client, None} /\ grabbed' \in {grabbed, None}
        /\ UNCHANGED <<position_map, pending, barriers, backend_events>>
    BY <1>11 DEF SessionRelease, SessionReenable, ReleaseCapture, Ungrab
  <2>4. (Arriving /\ OneEvent /\ Routes)'
    BY <1>1, <2>2, <2>3, CalmStep
  <2> QED BY <2>2, <2>4 DEF Goal
<1>12. ASSUME SessionCreate PROVE Goal
  <2>1. phase = "session" /\ requests # <<>> /\ r.op = "Create"
    BY <1>12 DEF SessionCreate
  <2>2. CASE Panic(<<>>)
    BY <1>2, <2>2 DEF Panic
  <2>3. CASE ~Panic(<<>>)
    <3>1. /\ requests' = Tail(requests)
          /\ captures' = captures \cup {Capture(r.handle, r.pos, r.type)}
          /\ CreateBarrier(r.handle, r.pos)
          /\ UNCHANGED <<phase, active_client, acc, pending, grabbed, backend_events>>
      BY <1>12, <2>3 DEF SessionCreate
    <3>2. /\ BootRequests' /\ SettledCaptures' /\ FewerRequests
          /\ ~ForClient(r) => \A i \in 1 .. Len(requests) : ~ForClient(requests[i])
          /\ ForClient(r) =>
               /\ r.handle \in clients /\ r.pos = pos[r.handle]
               /\ \A i \in 1 .. Len(requests') : ForClient(requests'[i]) => requests'[i].pos # r.pos
      BY <1>9, <2>1, <3>1
    <3>3. r \in Requests /\ r = requests[1] /\ 1 \in 1 .. Len(requests)
      BY <1>0, <2>1
    <3>4. r.pos \in Positions /\ r.handle \in Handles
      BY <2>1, <3>3 DEF Requests, ReleaseRequest, ReenableRequest
    <3>5. r.handle \in EnterHandles \/ (ForClient(r) /\ r.handle \in Home(r.pos))
      BY <2>1, <3>2, <3>4 DEF ForClient, Handles, Home
    <3>6. ASSUME ForClient(r) PROVE ~Deaf(r.pos)
      BY <3>3, <3>6 DEF Deaf
    <3>7. \A i \in 1 .. Len(requests') : ForClient(requests'[i]) => requests'[i].pos # r.pos
      BY <3>2 DEF FewerRequests
    <3> HIDE DEF r
    <3>8. (Arriving /\ OneEvent /\ Routes)'
      BY <1>1, <2>1, <3>1, <3>2, <3>4, <3>5, <3>6, <3>7, BarrierStep
    <3> QED BY <3>2, <3>8 DEF Goal
  <2> QED BY <2>2, <2>3
<1>13. ASSUME SessionDestroy PROVE Goal
  <2>1. phase = "session" /\ requests # <<>> /\ r.op = "Destroy"
    BY <1>13 DEF SessionDestroy
  <2>2. CASE Panic(<<>>)
    BY <1>2, <2>2 DEF Panic
  <2>3. CASE ~Panic(<<>>)
    <3>1. PICK m \in id_map : \E i \in DOMAIN position_map[m.pos] :
            /\ requests' = Tail(requests)
            /\ captures' = captures \ CapturesOf(r.handle)
            /\ position_map' = [position_map EXCEPT
                                  ![m.pos] = SubSeq(@, 1, i - 1) \o SubSeq(@, i + 1, Len(@))]
            /\ barriers' \subseteq barriers /\ grabbed' \in {grabbed, None}
            /\ UNCHANGED <<phase, active_client, acc, pending, backend_events>>
      BY <1>13, <2>3 DEF SessionDestroy
    <3>2. PICK i \in DOMAIN position_map[m.pos] :
            position_map' = [position_map EXCEPT
                              ![m.pos] = SubSeq(@, 1, i - 1) \o SubSeq(@, i + 1, Len(@))]
      BY <3>1
    <3>3. \A p \in Positions : \A S : position_map[p] \in Seq(S) => position_map'[p] \in Seq(S)
      <4> TAKE p \in Positions
      <4> TAKE S
      <4> HAVE position_map[p] \in Seq(S)
      <4>1. CASE p = m.pos
        <5> DEFINE s == position_map[p]
                   t == SubSeq(s, 1, i - 1) \o SubSeq(s, i + 1, Len(s))
        <5>1. s \in Seq(S) /\ i \in DOMAIN s
          BY <4>1
        <5>2. t \in Seq(S)
          BY ONLY <5>1, RemoveAt
        <5>3. position_map'[p] = t
          BY <1>0, <3>2, <4>1 DEF TaskTypeOK
        <5> QED BY <5>2, <5>3
      <4>2. CASE p # m.pos
        <5>1. position_map'[p] = position_map[p]
          BY <1>0, <3>2, <4>2 DEF TaskTypeOK
        <5> QED BY <5>1
      <4> QED BY <4>1, <4>2
    <3>4. BootRequests' /\ SettledCaptures' /\ FewerRequests
      BY <1>9, <2>1, <3>1
    <3>5. (Arriving /\ OneEvent /\ Routes)'
      BY <1>1, <2>1, <3>1, <3>3, <3>4, CalmStep
    <3> QED BY <3>4, <3>5 DEF Goal
  <2> QED BY <2>2, <2>3
<1>14. ASSUME FlushTimer PROVE Goal
  BY <1>3, <1>14 DEF FlushTimer, Ungrab
<1>15. ASSUME NEW h \in ClientHandles, ReceiveAck(h) \/ ReceiveLeave(h) PROVE Goal
  BY <1>3, <1>15 DEF ReceiveAck, ReceiveLeave, ReleaseCapture, Ungrab
<1>16. \A p \in Positions : Cross(p) => Goal
  BY <1>1, CrossStep DEF Goal
<1>17. \A e \in InputEvents : UserInput(e) => Goal
  BY <1>1, UserInputStep DEF Goal
<1>18. PollPending \/ PollBackend => Goal
  BY <1>1, PendingStep, BackendStep DEF Goal
<1>19. Goal
  BY <1>1, <1>4, <1>5, <1>6, <1>7, <1>8, <1>10, <1>11, <1>12, <1>13, <1>14, <1>15, <1>16, <1>17, <1>18
     DEF CaptureTaskNext
<1>20. Apart' /\ Booting'
  BY <1>0, <1>1 DEF Apart, Booting, Started
<1>21. sent' \in Seq(RoutedMessages)
  BY <1>1, TaskRouted
<1> QED BY <1>19, <1>20, <1>21 DEF Goal, Queued

\* Between two changes of the configuration everything sent is a routed message.
LEMMA InputIsRouted == SettledSpec => [](InputFollowsActive /\ MotionStaysWithClient)
<1> DEFINE Settled == Queued /\ Arriving /\ OneEvent /\ Routes /\ sent \in Seq(RoutedMessages)
<1>1. SettledInit => Settled
  <2> SUFFICES ASSUME SettledInit PROVE Settled
    OBVIOUS
  <2>1. /\ requests = <<>> /\ captures = {} /\ phase = "new" /\ barriers = {} /\ grabbed = None
        /\ backend_events = <<>> /\ pending = <<>> /\ acc = {} /\ active_client = None /\ sent = <<>>
        /\ position_map = [p \in Positions |-> <<>>]
        /\ booting = clients /\ \A c, d \in booting : pos[c] = pos[d] => c = d
    BY DEF SettledInit, Init, ChannelInit, TaskInit
  <2>2. 1 .. Len(requests) = {} /\ 1 .. Len(pending) = {} /\ 1 .. Len(backend_events) - 1 = {}
    BY <2>1
  <2>3. Current = {} /\ Owners = {}
    BY <2>1, TaskAssumption DEF Current, Owners
  <2>4. Queued
    BY <2>1, <2>2 DEF Queued, Apart, BootRequests, Booting, SettledCaptures
  <2>5. Fresh /\ Quiet /\ Chain
    BY <2>1, <2>2, <2>3 DEF Fresh, Quiet, Chain
  <2>6. Places
    <3>1. \A p \in Positions : position_map[p] = <<>>
      BY <2>1
    <3>2. \A S : <<>> \in Seq(S)
      OBVIOUS
    <3> QED BY <3>1, <3>2 DEF Places
  <2>7. OneEvent /\ Routes
    BY <2>1, <2>2, <2>3 DEF OneEvent, Routes, OwnersTyped
  <2>8. sent \in Seq(RoutedMessages)
    BY <2>1
  <2> QED BY <2>4, <2>5, <2>6, <2>7, <2>8 DEF Arriving
<1>2. Inert /\ Settled /\ [SettledStep \/ TaskStep]_vars => Settled'
  <2> SUFFICES ASSUME Inert, Settled, [SettledStep \/ TaskStep]_vars PROVE Settled'
    OBVIOUS
  <2>0. RoutingInv
    BY DEF RoutingInv
  <2>1. CASE SettledStep
    BY <2>0, <2>1, SettledService
  <2>2. CASE TaskStep
    BY <2>0, <2>2, SettledTask
  <2>3. CASE UNCHANGED vars
    <3>1. UNCHANGED <<registryVars, requests, captures>>
      BY <2>3 DEF vars
    <3>2. BootRequests' /\ SettledCaptures' /\ FewerRequests
      BY <3>1, SameRequests DEF Queued
    <3>3. (Arriving /\ OneEvent /\ Routes)'
      BY <2>0, <2>3, <3>2, CalmStep DEF vars
    <3>4. Apart' /\ Booting'
      BY <2>3 DEF vars, Queued, Apart, Booting, Started, ForClient
    <3>5. sent' = sent
      BY <2>3 DEF vars
    <3>6. sent' \in Seq(RoutedMessages)
      BY <3>5
    <3> QED BY <3>2, <3>3, <3>4, <3>6 DEF Queued
  <2> QED BY <2>1, <2>2, <2>3
<1>3. Settled => InputFollowsActive /\ MotionStaysWithClient
  <2> SUFFICES ASSUME sent \in Seq(RoutedMessages) PROVE InputFollowsActive /\ MotionStaysWithClient
    OBVIOUS
  <2>1. \A i \in DOMAIN sent : sent[i] \in RoutedMessages
    OBVIOUS
  <2> QED BY <2>1 DEF InputFollowsActive, MotionStaysWithClient, RoutedMessages
<1>4. SettledInit => Init
  BY DEF SettledInit
<1>5. [SettledStep \/ TaskStep]_vars => [Next]_vars
  BY DEF SettledStep, Next
<1>6. Spec => []Inert
  <2>1. Init => ActiveConfigured /\ OneActivePerPosition
    BY DEF Init, RegistryInit, ActiveConfigured, OneActivePerPosition
  <2>2. TypeOK /\ (ActiveConfigured /\ OneActivePerPosition) /\ [Next]_vars
          => (ActiveConfigured /\ OneActivePerPosition)'
    BY PositionStep DEF PositionInv
  <2>3. TypeOK /\ Proper /\ (ActiveConfigured /\ OneActivePerPosition) => Inert
    BY DEF Inert
  <2> QED BY <2>1, <2>2, <2>3, TypeCorrect, AlwaysProper, PTL DEF Spec
<1> HIDE DEF Settled
<1> QED BY <1>1, <1>2, <1>3, <1>4, <1>5, <1>6, PTL DEF SettledSpec, Spec

\* Between two changes of the configuration, input is never sent to a client while
\* another one is active.
THEOREM InputGoesToActive == SettledSpec => []InputFollowsActive
BY InputIsRouted, PTL

\* Nor does a client get motion that was accumulated for another one before the
\* switch.
THEOREM MotionStays == SettledSpec => []MotionStaysWithClient
BY InputIsRouted, PTL
==============================================================================
