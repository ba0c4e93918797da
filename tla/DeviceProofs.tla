----------------------------- MODULE DeviceProofs -----------------------------
(***************************************************************************)
(* Theorems about Device, for every set of positions, of client handles    *)
(* and of peers, and every bound.                                          *)
(***************************************************************************)
EXTENDS Device, SequenceTheorems, FiniteSetTheorems, TLAPS

USE DEF channelVars, registryVars, captureTaskVars, taskVars, inputCaptureVars, backendVars

------------------------------------------------------------------------------
\* What activating a client does when no two of the others share a position.
LEMMA ActivateLemma ==
  ASSUME NEW h \in ClientHandles,
         NEW actives \in SUBSET ClientHandles,
         NEW where \in [ClientHandles -> Positions],
         \A c, d \in actives : where[c] = where[d] => c = d
  PROVE  LET r == Activate(h, actives, where)
         IN /\ r.active = {c \in actives : where[c] # where[h]} \cup {h}
            /\ \A c, d \in r.active : where[c] = where[d] => c = d
<1> DEFINE at == {c \in actives : where[c] = where[h]}
<1> DEFINE r == Activate(h, actives, where)
<1>1. ClientAt(where[h], actives, where) = at
  <2>1. ClientHandles \subseteq Nat
    BY ChannelAssumption
  <2>2. \A c \in at : \A d \in at : c <= d
    BY <2>1
  <2> QED BY <2>2 DEF ClientAt
<1>2. r.active = (actives \ (at \ {h})) \cup {h}
  BY <1>1 DEF Activate
<1>3. r.active = {c \in actives : where[c] # where[h]} \cup {h}
  BY <1>2
<1>4. \A c, d \in r.active : where[c] = where[d] => c = d
  BY <1>3
<1> QED BY <1>3, <1>4

\* The requests that are sent are requests, and at most two.
LEMMA ActivateType ==
  ASSUME NEW h \in ClientHandles,
         NEW actives \in SUBSET ClientHandles,
         NEW where \in [ClientHandles -> Positions]
  PROVE  LET r == Activate(h, actives, where)
         IN /\ r.sends \in Seq(Requests)
            /\ r.active \in SUBSET ClientHandles
<1> DEFINE evicted == ClientAt(where[h], actives, where) \ {h}
           evict == IF evicted = {} THEN <<>>
                    ELSE <<DestroyRequest(CHOOSE o \in evicted : TRUE)>>
           create == IF h \in actives THEN <<>>
                     ELSE <<CreateRequest(h, where[h], "Default")>>
<1>1. evicted \subseteq ClientHandles
  BY DEF ClientAt
<1>2. \A o \in ClientHandles : DestroyRequest(o) \in Requests
  BY DEF DestroyRequest, Requests, Handles
<1>3. CreateRequest(h, where[h], "Default") \in Requests
  BY DEF CreateRequest, Requests, Handles, CaptureTypes
<1>4. evict \in Seq(Requests)
  <2>1. CASE evicted = {}
    BY <2>1
  <2>2. CASE evicted # {}
    <3>1. (CHOOSE o \in evicted : TRUE) \in ClientHandles
      BY <1>1, <2>2
    <3> QED BY <3>1, <1>2, <2>2
  <2> QED BY <2>1, <2>2
<1>5. create \in Seq(Requests)
  BY <1>3
<1>6. Activate(h, actives, where).sends = evict \o create
  BY DEF Activate
<1>7. Activate(h, actives, where).active = (actives \ evicted) \cup {h}
  BY DEF Activate
<1>8. evict \o create \in Seq(Requests)
  BY <1>4, <1>5
<1> QED BY <1>6, <1>7, <1>8

------------------------------------------------------------------------------
\* The part of the type invariant that is the service's, preserved by every arm
\* of its loop.
LEMMA RegistryTypeStep ==
  ASSUME ChannelTypeOK, RegistryTypeOK, RegistryNext
  PROVE  ChannelTypeOK' /\ RegistryTypeOK'
<1> USE DEF ChannelTypeOK, RegistryTypeOK
<1>1. CASE Boot
  <2>1. PICK h \in booting :
          /\ requests' = requests \o Activate(h, active, pos).sends
          /\ active' = Activate(h, active, pos).active
          /\ booting' = booting \ {h}
    BY <1>1 DEF Boot
  <2> DEFINE r == Activate(h, active, pos)
  <2>2. r.sends \in Seq(Requests) /\ r.active \in SUBSET ClientHandles
    BY ActivateType
  <2>3. requests' \in Seq(Requests) /\ active' \in SUBSET ClientHandles
    BY <2>1, <2>2
  <2> QED BY <1>1, <2>1, <2>3 DEF Boot, RegistryUnchangedIncoming
<1>2. CASE AddClient
  BY <1>2, RegistryAssumption DEF AddClient, RegistryUnchangedIncoming
<1>3. ASSUME NEW h \in ClientHandles, RemoveClient(h)
      PROVE  ChannelTypeOK' /\ RegistryTypeOK'
  <2>1. requests' \in Seq(Requests)
    <3>1. DestroyRequest(h) \in Requests
      BY DEF DestroyRequest, Requests, Handles
    <3>2. requests' = requests \/ requests' = Append(requests, DestroyRequest(h))
      BY <1>3 DEF RemoveClient
    <3> QED BY <3>1, <3>2
  <2>2. clients' \in SUBSET ClientHandles /\ active' \in SUBSET ClientHandles
    BY <1>3 DEF RemoveClient
  <2>3. pos' \in [ClientHandles -> Positions]
    BY <1>3, RegistryAssumption DEF RemoveClient
  <2> QED BY <1>3, <2>1, <2>2, <2>3 DEF RemoveClient, RegistryUnchangedIncoming
<1>4. ASSUME NEW h \in ClientHandles, ActivateClient(h)
      PROVE  ChannelTypeOK' /\ RegistryTypeOK'
  <2> DEFINE r == Activate(h, active, pos)
  <2>1. r.sends \in Seq(Requests) /\ r.active \in SUBSET ClientHandles
    BY ActivateType
  <2>2. requests' = requests \o r.sends /\ active' = r.active
    BY <1>4 DEF ActivateClient
  <2>3. requests' \in Seq(Requests)
    BY <2>1, <2>2
  <2> QED BY <1>4, <2>1, <2>2, <2>3 DEF ActivateClient, RegistryUnchangedIncoming
<1>5. ASSUME NEW h \in ClientHandles, DeactivateClient(h)
      PROVE  ChannelTypeOK' /\ RegistryTypeOK'
  BY <1>5 DEF DeactivateClient, RegistryUnchangedIncoming, DestroyRequest, Requests, Handles
<1>6. ASSUME NEW h \in ClientHandles, NEW p \in Positions, UpdatePos(h, p)
      PROVE  ChannelTypeOK' /\ RegistryTypeOK'
  <2>1. pos' \in [ClientHandles -> Positions]
    BY <1>6 DEF UpdatePos
  <2>2. CASE h \in active
    <3> DEFINE r == Activate(h, active \ {h}, pos')
    <3>1. r.sends \in Seq(Requests) /\ r.active \in SUBSET ClientHandles
      BY <2>1, ActivateType
    <3>2. <<DestroyRequest(h)>> \in Seq(Requests)
      BY DEF DestroyRequest, Requests, Handles
    <3>3. requests' = requests \o <<DestroyRequest(h)>> \o r.sends /\ active' = r.active
      BY <1>6, <2>2 DEF UpdatePos
    <3>4. requests' \in Seq(Requests)
      BY <3>1, <3>2, <3>3
    <3> QED BY <1>6, <2>1, <3>1, <3>3, <3>4 DEF UpdatePos, RegistryUnchangedIncoming
  <2> QED BY <1>6, <2>1, <2>2 DEF UpdatePos, RegistryUnchangedIncoming
<1>7. ASSUME NEW a \in Addrs, NEW p \in Positions, NEW f \in Fingerprints,
             next_trigger_handle < MaxTriggers
      PROVE  /\ NewIncoming(a, p, f) \in Incoming
             /\ BarrierFor(NewIncoming(a, p, f)) \in Requests
             /\ next_trigger_handle + 1 \in 0 .. MaxTriggers
  <2>1. EnterHandleBegin + next_trigger_handle \in EnterHandles
    BY <1>7, ChannelAssumption DEF EnterHandles
  <2>2. next_trigger_handle + 1 \in 0 .. MaxTriggers
    BY <1>7, ChannelAssumption
  <2> QED BY <2>1, <2>2 DEF NewIncoming, Incoming, BarrierFor, CreateRequest, Requests,
                           Handles, CaptureTypes
<1>8. \A i \in Incoming : DestroyRequest(i.handle) \in Requests
  BY DEF Incoming, DestroyRequest, Requests, Handles
<1>9. ASSUME NEW a \in Addrs, NEW p \in Positions, NEW f \in Fingerprints, EnterNew(a, p, f)
      PROVE  ChannelTypeOK' /\ RegistryTypeOK'
  <2>1. BarrierFor(NewIncoming(a, p, f)) \in Requests /\ NewIncoming(a, p, f) \in Incoming
    BY <1>7, <1>9 DEF EnterNew
  <2> QED BY <1>7, <1>9, <2>1 DEF EnterNew
<1>10. ASSUME NEW a \in Addrs, NEW p \in Positions, NEW f \in Fingerprints, EnterAgain(a, p, f)
       PROVE  ChannelTypeOK' /\ RegistryTypeOK'
  <2> DEFINE j == NewIncoming(a, p, f)
  <2>1. PICK i \in incoming_conn_info :
          /\ requests' = requests \o <<DestroyRequest(i.handle), BarrierFor(j)>>
          /\ incoming_conn_info' = (incoming_conn_info \ {i}) \cup {j}
    BY <1>10 DEF EnterAgain
  <2>2. BarrierFor(j) \in Requests /\ j \in Incoming /\ DestroyRequest(i.handle) \in Requests
    BY <1>7, <1>8, <1>10 DEF EnterAgain
  <2>3. requests' \in Seq(Requests)
    BY <2>1, <2>2
  <2> QED BY <1>7, <1>10, <2>1, <2>2, <2>3 DEF EnterAgain
<1>11. ASSUME NEW a \in Addrs, Disconnected(a)
       PROVE  ChannelTypeOK' /\ RegistryTypeOK'
  BY <1>8, <1>11 DEF Disconnected
<1>12. ASSUME NEW a \in Addrs, TakeLeave(a)
       PROVE  ChannelTypeOK' /\ RegistryTypeOK'
  BY <1>12 DEF TakeLeave
<1>13. CASE ReleaseNotify \/ EnableCapture
  <2>1. ReleaseRequest \in Requests /\ ReenableRequest \in Requests
    BY DEF Requests
  <2> QED BY <1>13, <2>1 DEF ReleaseNotify, EnableCapture, Notify
<1>14. CASE ServiceCaptureEvent
  <2>1. capture_events' \in Seq(CaptureEvents)
    BY <1>14 DEF ServiceCaptureEvent
  <2>2. leaves' \in SUBSET Addrs
    BY <1>14 DEF ServiceCaptureEvent, Incoming
  <2>3. capture_status' \in {"Enabled", "Disabled"}
    BY <1>14 DEF ServiceCaptureEvent
  <2> QED BY <1>14, <2>1, <2>2, <2>3 DEF ServiceCaptureEvent, RegistryUnchangedIncoming
<1> QED BY <1>1, <1>2, <1>3, <1>4, <1>5, <1>6, <1>9, <1>10, <1>11, <1>12, <1>13, <1>14
        DEF RegistryNext

------------------------------------------------------------------------------
LEMMA OneOrNone ==
  ASSUME NEW S, NEW m \in S, NEW s, s = <<>> \/ s = <<m>>
  PROVE  s \in Seq(S)
<1>1. <<>> \in Seq(S) /\ <<m>> \in Seq(S)
  OBVIOUS
<1>2. CASE s = <<>>
  BY <1>1, <1>2, Zenon
<1>3. CASE s = <<m>>
  BY <1>1, <1>3, Zenon
<1> QED BY <1>2, <1>3

\* What is handed to the connection, and what is then owed.
LEMMA MessageType ==
  ASSUME active_client \in Handles \cup {None}
  PROVE  /\ \A to \in Handles, msg \in {"Enter", "Leave", "Input"}, src \in SUBSET Handles :
              Message(to, msg, src) \in Messages
         /\ \A to \in Handles, msg \in {"Enter", "Leave", "Input"}, src \in SUBSET Handles :
              \A o \in Outcomes(to, msg, src) : o.msgs \in Seq(Messages)
         /\ acc \in SUBSET Handles => \A motion \in Flushes : motion \in Seq(Messages)
<1>1. ASSUME NEW to \in Handles, NEW msg \in {"Enter", "Leave", "Input"}, NEW src \in SUBSET Handles
      PROVE  Message(to, msg, src) \in Messages
  BY <1>1 DEF Message, Messages
<1>2. ASSUME NEW to \in Handles, NEW msg \in {"Enter", "Leave", "Input"}, NEW src \in SUBSET Handles,
             NEW o \in Outcomes(to, msg, src)
      PROVE  o.msgs \in Seq(Messages)
  <2> DEFINE m == Message(to, msg, src)
  <2>1. m \in Messages
    BY <1>1
  <2>2. <<m>> \in Seq(Messages) /\ <<>> \in Seq(Messages)
    BY <2>1
  <2>3. o = [msgs |-> <<m>>, ok |-> TRUE] \/ o = [msgs |-> <<>>, ok |-> FALSE]
    BY <1>2 DEF Outcomes
  <2> HIDE DEF m
  <2>4. CASE o = [msgs |-> <<m>>, ok |-> TRUE]
    <3>1. o.msgs = <<m>>
      BY <2>4
    <3> QED BY <2>2, <3>1
  <2>5. CASE o = [msgs |-> <<>>, ok |-> FALSE]
    <3>1. o.msgs = <<>>
      BY <2>5
    <3> QED BY <2>2, <3>1
  <2> QED BY <2>3, <2>4, <2>5
<1>3. ASSUME acc \in SUBSET Handles, NEW motion \in Flushes
      PROVE  motion \in Seq(Messages)
  <2>1. CASE acc # {} /\ active_client # None
    <3>1. Message(active_client, "Input", acc) \in Messages
      BY <1>1, <1>3, <2>1
    <3>2. motion = <<>> \/ motion = <<Message(active_client, "Input", acc)>>
      BY <1>3, <2>1 DEF Flushes
    <3> QED BY <3>1, <3>2, OneOrNone
  <2>2. CASE ~(acc # {} /\ active_client # None)
    <3>1. motion = <<>>
      BY <1>3, <2>2 DEF Flushes
    <3> QED BY <3>1
  <2> QED BY <2>1, <2>2
<1> QED BY <1>1, <1>2, <1>3

LEMMA HandType ==
  ASSUME TaskTypeOK, NEW msgs \in Seq(Messages), Hand(msgs)
  PROVE  sent' \in Seq(Messages) /\ unacked' \in [ClientHandles -> 0 .. MaxUnacked]
<1> DEFINE mine(h) == {i \in 1 .. Len(msgs) : msgs[i].to = h /\ msgs[i].msg \in {"Enter", "Leave"}}
           n(h) == unacked[h] + Cardinality(mine(h))
<1>1. \A h \in ClientHandles : Cardinality(mine(h)) \in Nat
  <2> TAKE h \in ClientHandles
  <2>1. IsFiniteSet(1 .. Len(msgs))
    BY FS_Interval
  <2>2. IsFiniteSet(mine(h))
    BY <2>1, FS_Subset
  <2> QED BY <2>2, FS_CardinalityType
<1>2. \A h \in ClientHandles : (IF n(h) > MaxUnacked THEN MaxUnacked ELSE n(h)) \in 0 .. MaxUnacked
  <2> TAKE h \in ClientHandles
  <2>1. unacked[h] \in Nat /\ MaxUnacked \in Nat
    BY TaskAssumption DEF TaskTypeOK
  <2> DEFINE m == n(h)
  <2>2. m \in Nat
    BY <1>1, <2>1
  <2> HIDE DEF m
  <2>3. (IF m > MaxUnacked THEN MaxUnacked ELSE m) \in 0 .. MaxUnacked
    BY <2>1, <2>2
  <2> QED BY <2>3 DEF m
<1>3. unacked' = [h \in ClientHandles |-> IF n(h) > MaxUnacked THEN MaxUnacked ELSE n(h)]
  BY DEF Hand, Owed
<1> HIDE DEF n
<1> QED BY <1>2, <1>3 DEF Hand

LEMMA ReleaseCaptureType ==
  ASSUME TaskTypeOK, ReleaseCapture
  PROVE  /\ sent' \in Seq(Messages) /\ unacked' \in [ClientHandles -> 0 .. MaxUnacked]
         /\ acc' \in SUBSET Handles /\ active_client' \in Handles \cup {None}
         /\ grabbed' \in Positions \cup {None} /\ pressed_keys' \in SUBSET Keys
         /\ state' \in {"WaitingForAck", "Sending"}
<1>1. PICK motion \in Flushes,
           leave \in IF active_client = None THEN {<<>>}
                    ELSE {<<>>, <<Message(active_client, "Leave", {})>>} :
        Hand(motion \o leave)
  BY DEF ReleaseCapture
<1>2. motion \in Seq(Messages)
  BY MessageType DEF TaskTypeOK
<1>3. leave \in Seq(Messages)
  <2>1. CASE active_client = None
    BY <2>1, <1>1
  <2>2. CASE active_client # None
    <3>1. Message(active_client, "Leave", {}) \in Messages
      BY <2>2, MessageType DEF TaskTypeOK
    <3>2. leave = <<>> \/ leave = <<Message(active_client, "Leave", {})>>
      BY <1>1, <2>2
    <3> QED BY <3>1, <3>2, OneOrNone
  <2> QED BY <2>1, <2>2
<1>4. motion \o leave \in Seq(Messages)
  BY <1>2, <1>3
<1>5. sent' \in Seq(Messages) /\ unacked' \in [ClientHandles -> 0 .. MaxUnacked]
  BY <1>1, <1>4, HandType
<1> QED BY <1>5 DEF ReleaseCapture, Ungrab, TaskTypeOK

LEMMA DropType ==
  ASSUME ChannelTypeOK, TaskTypeOK,
         NEW next \in Phases, NEW news \in Seq(CaptureEvents), DropInputCapture(next, news)
  PROVE  ChannelTypeOK' /\ TaskTypeOK'
<1>1. CaptureDisabled \in CaptureEvents
  BY DEF CaptureEvents
<1>2. capture_events' \in Seq(CaptureEvents)
  BY <1>1 DEF DropInputCapture, ChannelTypeOK
<1>3. position_map' \in [Positions -> Seq(Handles)]
  BY DEF DropInputCapture
<1>4. /\ pending' = <<>> /\ backend_events' = <<>> /\ sent' = <<>>
      /\ phase' \in Phases /\ id_map' = {} /\ pressed_keys' = {} /\ parked' = FALSE
      /\ barriers' = {} /\ grabbed' = None
      /\ UNCHANGED <<cancelled, captures, active_client, state, acc, requests, unacked>>
  BY DEF DropInputCapture
<1>5. /\ <<>> \in Seq(Handles \X Events) /\ <<>> \in Seq(Positions \X Events)
      /\ <<>> \in Seq(Messages)
  OBVIOUS
<1>6. ChannelTypeOK'
  BY <1>2, <1>4 DEF ChannelTypeOK
<1>7. /\ pending' \in Seq(Handles \X Events) /\ backend_events' \in Seq(Positions \X Events)
      /\ sent' \in Seq(Messages)
  BY <1>4, <1>5
<1>8. TaskTypeOK'
  BY <1>3, <1>4, <1>7 DEF TaskTypeOK
<1> QED BY <1>6, <1>8

LEMMA UngrabType ==
  ASSUME TaskTypeOK, NEW ok, NEW pressed \in SUBSET Keys, UngrabUnless(ok, pressed)
  PROVE  grabbed' \in Positions \cup {None} /\ pressed_keys' \in SUBSET Keys
<1>1. CASE ok
  BY <1>1 DEF UngrabUnless, TaskTypeOK
<1>2. CASE ~ok
  BY <1>2 DEF UngrabUnless
<1> QED BY <1>1, <1>2

LEMMA HandleKnownType ==
  ASSUME ChannelTypeOK, TaskTypeOK, NEW h \in Handles, NEW e \in Events,
         NEW pressed \in SUBSET Keys, HandleKnown(h, e, pressed)
  PROVE  /\ sent' \in Seq(Messages) /\ unacked' \in [ClientHandles -> 0 .. MaxUnacked]
         /\ acc' \in SUBSET Handles /\ active_client' \in Handles \cup {None}
         /\ grabbed' \in Positions \cup {None} /\ pressed_keys' \in SUBSET Keys
         /\ state' \in {"WaitingForAck", "Sending"}
         /\ capture_events' \in Seq(CaptureEvents)
<1> DEFINE Typed ==
      /\ sent' \in Seq(Messages) /\ unacked' \in [ClientHandles -> 0 .. MaxUnacked]
      /\ acc' \in SUBSET Handles /\ active_client' \in Handles \cup {None}
      /\ grabbed' \in Positions \cup {None} /\ pressed_keys' \in SUBSET Keys
      /\ state' \in {"WaitingForAck", "Sending"}
<1>0. /\ sent \in Seq(Messages) /\ unacked \in [ClientHandles -> 0 .. MaxUnacked]
      /\ acc \in SUBSET Handles /\ active_client \in Handles \cup {None}
      /\ state \in {"WaitingForAck", "Sending"}
  BY DEF TaskTypeOK
<1>1. CASE ReleaseCapture /\ UNCHANGED capture_events
  BY <1>1, ReleaseCaptureType DEF ChannelTypeOK
<1>2. ASSUME NEW p \in Positions, HandleEnterOnly(p, pressed)
      PROVE  Typed
  BY <1>0, <1>2, UngrabType DEF HandleEnterOnly, SendNothing
<1>3. ASSUME HandleBegin(h, pressed) PROVE Typed
  <2>1. PICK motion \in IF h # active_client THEN Flushes ELSE {<<>>},
             enter \in Outcomes(h, "Enter", {}) :
          Hand(motion \o enter.msgs) /\ UngrabUnless(enter.ok, pressed)
    BY <1>3 DEF HandleBegin
  <2>2. motion \in Seq(Messages)
    <3>1. CASE h # active_client
      BY <1>0, <2>1, <3>1, MessageType
    <3>2. CASE h = active_client
      <4>1. motion = <<>>
        BY <2>1, <3>2
      <4> QED BY <4>1
    <3> QED BY <3>1, <3>2
  <2>3. enter.msgs \in Seq(Messages)
    BY <1>0, <2>1, MessageType
  <2>4. motion \o enter.msgs \in Seq(Messages)
    BY <2>2, <2>3
  <2>5. sent' \in Seq(Messages) /\ unacked' \in [ClientHandles -> 0 .. MaxUnacked]
    BY <2>1, <2>4, HandType
  <2> QED BY <1>0, <1>3, <2>1, <2>5, UngrabType DEF HandleBegin
<1>4. ASSUME HandleUnacked(h, pressed) PROVE Typed
  <2>1. PICK enter \in Outcomes(h, "Enter", {}) :
          Hand(enter.msgs) /\ UngrabUnless(enter.ok, pressed)
    BY <1>4 DEF HandleUnacked
  <2>2. enter.msgs \in Seq(Messages)
    BY <1>0, <2>1, MessageType
  <2>3. sent' \in Seq(Messages) /\ unacked' \in [ClientHandles -> 0 .. MaxUnacked]
    BY <2>1, <2>2, HandType
  <2> QED BY <1>0, <1>4, <2>1, <2>3, UngrabType DEF HandleUnacked
<1>5. ASSUME HandleSending(h, e, pressed) PROVE Typed
  <2>1. CASE Coalesce /\ e = MotionEvent
    <3>1. /\ acc' = acc \cup {h} /\ sent' = <<>> /\ UngrabUnless(TRUE, pressed)
          /\ UNCHANGED <<unacked, active_client, state>>
      BY <1>5, <2>1 DEF HandleSending, SendNothing
    <3>2. sent' \in Seq(Messages)
      BY <3>1
    <3> QED BY <1>0, <3>1, <3>2, UngrabType
  <2>2. CASE ~(Coalesce /\ e = MotionEvent)
    <3>1. PICK motion \in {[msgs |-> <<>>, ok |-> TRUE]}
                             \cup (IF acc = {} THEN {} ELSE Outcomes(h, "Input", acc)),
               input \in Outcomes(h, "Input", {h}) :
            /\ Hand(motion.msgs \o (IF motion.ok THEN input.msgs ELSE <<>>))
            /\ UngrabUnless(motion.ok /\ input.ok, pressed)
      BY <1>5, <2>2 DEF HandleSending
    <3>2. motion.msgs \in Seq(Messages)
      <4>1. motion = [msgs |-> <<>>, ok |-> TRUE] \/ motion \in Outcomes(h, "Input", acc)
        BY <3>1
      <4>2. CASE motion = [msgs |-> <<>>, ok |-> TRUE]
        <5>1. motion.msgs = <<>>
          BY <4>2
        <5> QED BY <5>1
      <4> QED BY <1>0, <4>1, <4>2, MessageType
    <3>3. input.msgs \in Seq(Messages)
      BY <1>0, <3>1, MessageType
    <3>4. (IF motion.ok THEN input.msgs ELSE <<>>) \in Seq(Messages)
      BY <3>3
    <3>5. motion.msgs \o (IF motion.ok THEN input.msgs ELSE <<>>) \in Seq(Messages)
      BY <3>2, <3>4
    <3>6. sent' \in Seq(Messages) /\ unacked' \in [ClientHandles -> 0 .. MaxUnacked]
      BY <3>1, <3>5, HandType
    <3> QED BY <1>0, <1>5, <2>2, <3>1, <3>6, UngrabType DEF HandleSending
  <2> QED BY <2>1, <2>2
<1>6. ASSUME NEW news, news = <<>> \/ news = <<CaptureBegin(h)>>,
             NEW entered, entered = <<>> \/ entered = <<ClientEntered(h)>>
      PROVE  /\ capture_events \o news \in Seq(CaptureEvents)
             /\ capture_events \o news \o entered \in Seq(CaptureEvents)
  <2>1. CaptureBegin(h) \in CaptureEvents /\ ClientEntered(h) \in CaptureEvents
    BY DEF CaptureBegin, ClientEntered, CaptureEvents
  <2>2. news \in Seq(CaptureEvents) /\ entered \in Seq(CaptureEvents)
    BY <1>6, <2>1, OneOrNone
  <2> QED BY <2>2 DEF ChannelTypeOK
<1> DEFINE begin == e = BeginEvent
           news == IF begin THEN <<CaptureBegin(h)>> ELSE <<>>
           entered == IF begin /\ h # active_client THEN <<ClientEntered(h)>> ELSE <<>>
<1>7. news = <<>> \/ news = <<CaptureBegin(h)>>
  OBVIOUS
<1>8. entered = <<>> \/ entered = <<ClientEntered(h)>>
  OBVIOUS
<1>9. /\ capture_events \o news \in Seq(CaptureEvents)
      /\ capture_events \o news \o entered \in Seq(CaptureEvents)
  <2> HIDE DEF news, entered
  <2> QED BY <1>6, <1>7, <1>8
<1>10. CASE \E c \in CapturesOf(h) : c.type = "EnterOnly" /\ HandleEnterOnly(c.pos, pressed)
                                  /\ capture_events' = capture_events \o news
  <2>1. \A c \in CapturesOf(h) : c.pos \in Positions
    BY DEF CapturesOf, Captures, TaskTypeOK
  <2> QED BY <1>2, <1>9, <1>10, <2>1
<1>11. \/ ReleaseCapture /\ UNCHANGED capture_events
       \/ \E c \in CapturesOf(h) : c.type = "EnterOnly" /\ HandleEnterOnly(c.pos, pressed)
                                  /\ capture_events' = capture_events \o news
       \/ /\ HandleBegin(h, pressed) \/ HandleUnacked(h, pressed) \/ HandleSending(h, e, pressed)
          /\ capture_events' = capture_events \o news \o entered
  BY DEF HandleKnown
<1> QED
  <2> HIDE DEF news, entered
  <2> QED BY <1>1, <1>3, <1>4, <1>5, <1>9, <1>10, <1>11

\* What InputCapture yields has a handle of the position map and a captured
\* event.
LEMMA DeliverType ==
  ASSUME ChannelTypeOK, TaskTypeOK, NEW h \in Handles, NEW e \in Events,
         NEW pressed \in SUBSET Keys,
         NEW rest \in Seq(Handles \X Events), NEW queued \in Seq(Positions \X Events),
         Deliver(h, e, pressed, rest, queued)
  PROVE  ChannelTypeOK' /\ TaskTypeOK'
<1>1. CASE CapturesOf(h) = {} /\ ~(ReleaseBind \subseteq pressed)
  <2> DEFINE news == IF e = BeginEvent THEN <<CaptureBegin(h)>> ELSE <<>>
  <2>1. CaptureBegin(h) \in CaptureEvents
    BY DEF CaptureBegin, CaptureEvents
  <2>2. news = <<>> \/ news = <<CaptureBegin(h)>>
    OBVIOUS
  <2>3. DropInputCapture("panicked", news)
    BY <1>1 DEF Deliver, Panic
  <2>4. "panicked" \in Phases
    BY DEF Phases
  <2> HIDE DEF news
  <2>5. news \in Seq(CaptureEvents)
    BY <2>1, <2>2, OneOrNone
  <2> QED BY <2>3, <2>4, <2>5, DropType
<1>2. CASE ~(CapturesOf(h) = {} /\ ~(ReleaseBind \subseteq pressed))
  <2>1. /\ HandleKnown(h, e, pressed) /\ pending' = rest /\ backend_events' = queued
        /\ UNCHANGED <<phase, cancelled, captures, id_map, position_map, parked,
                       barriers, requests>>
    BY <1>2 DEF Deliver
  <2> QED BY <2>1, HandleKnownType DEF ChannelTypeOK, TaskTypeOK
<1> QED BY <1>1, <1>2

\* Every arm of the capture task keeps the type invariant.
LEMMA TaskTypeStep ==
  ASSUME ChannelTypeOK, TaskTypeOK, CaptureTaskNext
  PROVE  ChannelTypeOK' /\ TaskTypeOK'
<1> DEFINE Typed == ChannelTypeOK' /\ TaskTypeOK'
<1>0. "panicked" \in Phases /\ "idle" \in Phases /\ <<>> \in Seq(CaptureEvents)
      /\ <<>> \in Seq(Messages)
  BY DEF Phases
<1>1. ASSUME NewCapture PROVE Typed
  <2>1. CaptureEnabled \in CaptureEvents
    BY DEF CaptureEvents
  <2>2. capture_events' \in Seq(CaptureEvents) /\ phase' \in Phases
    BY <1>1, <2>1 DEF NewCapture, ChannelTypeOK, Phases
  <2>3. /\ UNCHANGED <<cancelled, captures, active_client, state, acc,
                       inputCaptureVars, backendVars, requests, unacked>>
        /\ sent' = <<>>
    BY <1>1 DEF NewCapture
  <2> QED BY <1>0, <2>2, <2>3 DEF ChannelTypeOK, TaskTypeOK
<1>2. ASSUME NEW h \in Handles, NEW p \in Positions, CreateBarrier(h, p), TaskTypeOK
      PROVE  /\ id_map' \in SUBSET [handle: Handles, pos: Positions]
             /\ position_map' \in [Positions -> Seq(Handles)]
             /\ barriers' \in SUBSET Positions
  BY <1>2 DEF CreateBarrier, TaskTypeOK
<1>3. ASSUME CreateCaptures PROVE Typed
  <2>1. \A c \in captures : c.handle \in Handles /\ c.pos \in Positions
    BY DEF TaskTypeOK, Captures
  <2>2. /\ id_map' \in SUBSET [handle: Handles, pos: Positions]
        /\ position_map' \in [Positions -> Seq(Handles)]
        /\ barriers' \in SUBSET Positions
        /\ phase' \in Phases
    BY <1>2, <1>3, <2>1 DEF CreateCaptures, TaskTypeOK, Phases
  <2> QED BY <1>0, <1>3, <2>2 DEF CreateCaptures, ChannelTypeOK, TaskTypeOK
<1>4. ASSUME CaptureExits PROVE Typed
  BY <1>0, <1>4, DropType DEF CaptureExits
<1>5. ASSUME Cancel \/ BackendHangs PROVE Typed
  BY <1>0, <1>5 DEF Cancel, BackendHangs, Phases, ChannelTypeOK, TaskTypeOK
<1>6. ASSUME NoticeCancelled PROVE Typed
  <2>1. CASE DropInputCapture("idle", <<>>)
    BY <1>0, <2>1, DropType
  <2>2. CASE ~DropInputCapture("idle", <<>>)
    BY <1>0, <1>6, <2>2 DEF NoticeCancelled, ChannelTypeOK, TaskTypeOK, Phases
  <2> QED BY <2>1, <2>2
<1>7. ASSUME requests # <<>>, NEW r, r = Head(requests)
      PROVE  r \in Requests /\ Tail(requests) \in Seq(Requests)
  BY <1>7 DEF ChannelTypeOK
<1>8. ASSUME NEW r \in Requests
      PROVE  /\ r.op = "Create" => r.handle \in Handles /\ r.pos \in Positions
                                     /\ Capture(r.handle, r.pos, r.type) \in Captures
             /\ r.op = "Destroy" => r.handle \in Handles
  BY <1>8 DEF Requests, Capture, Captures, ReleaseRequest, ReenableRequest
<1>9. ASSUME IdleRequest PROVE Typed
  <2> DEFINE r == Head(requests)
  <2>1. requests # <<>> /\ requests' = Tail(requests) /\ sent' = <<>>
        /\ UNCHANGED <<cancelled, active_client, state, acc, inputCaptureVars, backendVars,
                       capture_events, unacked>>
    BY <1>9 DEF IdleRequest
  <2>2. r \in Requests /\ requests' \in Seq(Requests)
    BY <1>7, <2>1
  <2>3. captures' \in SUBSET Captures
    <3>1. CASE r.op = "Create"
      BY <1>8, <1>9, <2>2, <3>1 DEF IdleRequest, TaskTypeOK
    <3>2. CASE r.op = "Destroy"
      BY <1>9, <3>2 DEF IdleRequest, TaskTypeOK
    <3>3. CASE r.op # "Create" /\ r.op # "Destroy"
      BY <1>9, <3>3 DEF IdleRequest, TaskTypeOK
    <3> QED BY <3>1, <3>2, <3>3
  <2>4. phase' \in Phases
    BY <1>9 DEF IdleRequest, TaskTypeOK, Phases
  <2> QED BY <1>0, <2>1, <2>2, <2>3, <2>4 DEF ChannelTypeOK, TaskTypeOK
<1>10. ASSUME SessionRelease \/ SessionReenable PROVE Typed
  <2>1. requests' \in Seq(Requests)
    BY <1>7, <1>10 DEF SessionRelease, SessionReenable
  <2>2. CASE SessionRelease
    BY <2>1, <2>2, ReleaseCaptureType DEF SessionRelease, Awake, ChannelTypeOK, TaskTypeOK
  <2>3. CASE SessionReenable
    BY <1>0, <2>1, <2>3 DEF SessionReenable, Awake, ChannelTypeOK, TaskTypeOK
  <2> QED BY <1>10, <2>2, <2>3
<1>11. ASSUME SessionCreate PROVE Typed
  <2> DEFINE r == Head(requests)
  <2>1. r \in Requests /\ Tail(requests) \in Seq(Requests) /\ r.op = "Create"
    BY <1>7, <1>11 DEF SessionCreate
  <2>2. CASE r.handle \in HandlesOf(id_map)
    BY <1>0, <1>11, <2>2, DropType DEF SessionCreate, Panic
  <2>3. CASE r.handle \notin HandlesOf(id_map)
    <3>1. /\ requests' = Tail(requests)
          /\ captures' = captures \cup {Capture(r.handle, r.pos, r.type)}
          /\ CreateBarrier(r.handle, r.pos)
          /\ parked' = FALSE /\ sent' = <<>>
          /\ UNCHANGED <<phase, cancelled, active_client, state, acc, pending,
                         pressed_keys, grabbed, backend_events, capture_events, unacked>>
      BY <1>11, <2>3 DEF SessionCreate, Awake
    <3>2. captures' \in SUBSET Captures
      BY <1>8, <2>1, <3>1 DEF TaskTypeOK
    <3>3. /\ id_map' \in SUBSET [handle: Handles, pos: Positions]
          /\ position_map' \in [Positions -> Seq(Handles)]
          /\ barriers' \in SUBSET Positions
      BY <1>2, <1>8, <2>1, <3>1
    <3> QED BY <1>0, <2>1, <3>1, <3>2, <3>3 DEF ChannelTypeOK, TaskTypeOK
  <2> QED BY <2>2, <2>3
<1>12. ASSUME SessionDestroy PROVE Typed
  <2> DEFINE r == Head(requests)
  <2>1. r \in Requests /\ Tail(requests) \in Seq(Requests) /\ r.op = "Destroy"
    BY <1>7, <1>12 DEF SessionDestroy
  <2>2. CASE r.handle \notin HandlesOf(id_map)
    BY <1>0, <1>12, <2>2, DropType DEF SessionDestroy, Panic
  <2>3. CASE r.handle \in HandlesOf(id_map)
    <3>1. PICK m \in id_map : \E i \in DOMAIN position_map[m.pos] :
            /\ requests' = Tail(requests)
            /\ captures' = captures \ CapturesOf(r.handle)
            /\ id_map' = id_map \ {m}
            /\ position_map' = [position_map EXCEPT
                                  ![m.pos] = SubSeq(@, 1, i - 1) \o SubSeq(@, i + 1, Len(@))]
            /\ IF position_map'[m.pos] = <<>>
               THEN /\ barriers' = barriers \ {m.pos}
                    /\ grabbed' = IF grabbed = m.pos THEN None ELSE grabbed
               ELSE UNCHANGED <<barriers, grabbed>>
            /\ parked' = FALSE /\ sent' = <<>>
            /\ UNCHANGED <<phase, cancelled, active_client, state, acc, pending,
                           pressed_keys, backend_events, capture_events, unacked>>
      BY <1>12, <2>3 DEF SessionDestroy, Awake
    <3>2. PICK i \in DOMAIN position_map[m.pos] :
            position_map' = [position_map EXCEPT
                              ![m.pos] = SubSeq(@, 1, i - 1) \o SubSeq(@, i + 1, Len(@))]
      BY <3>1
    <3>3. position_map' \in [Positions -> Seq(Handles)]
      <4>1. m.pos \in Positions
        BY DEF TaskTypeOK
      <4> DEFINE s == position_map[m.pos]
      <4>2. s \in Seq(Handles) /\ i \in 1 .. Len(s)
        BY <4>1 DEF TaskTypeOK
      <4>3. SubSeq(s, 1, i - 1) \in Seq(Handles) /\ SubSeq(s, i + 1, Len(s)) \in Seq(Handles)
        BY <4>2, SubSeqProperties
      <4>4. SubSeq(s, 1, i - 1) \o SubSeq(s, i + 1, Len(s)) \in Seq(Handles)
        BY <4>3
      <4> QED BY <3>2, <4>1, <4>4 DEF TaskTypeOK
    <3>4. barriers' \in SUBSET Positions /\ grabbed' \in Positions \cup {None}
      BY <3>1 DEF TaskTypeOK
    <3>5. id_map' \in SUBSET [handle: Handles, pos: Positions] /\ captures' \in SUBSET Captures
      BY <3>1 DEF TaskTypeOK
    <3>6. requests' \in Seq(Requests) /\ parked' \in BOOLEAN /\ sent' \in Seq(Messages)
      BY <1>0, <2>1, <3>1
    <3>7. UNCHANGED <<phase, cancelled, active_client, state, acc, pending,
                      pressed_keys, backend_events, capture_events, unacked>>
      BY <3>1
    <3> QED BY <3>3, <3>4, <3>5, <3>6, <3>7 DEF ChannelTypeOK, TaskTypeOK
  <2> QED BY <2>2, <2>3
<1>13. active_client # None =>
         \A leave : leave \in {<<>>, <<Message(active_client, "Leave", {})>>} => leave \in Seq(Messages)
  <2>1. active_client # None => Message(active_client, "Leave", {}) \in Messages
    BY MessageType DEF TaskTypeOK
  <2> QED BY <2>1, OneOrNone
<1>14. ASSUME FlushTimer PROVE Typed
  <2>1. \E msgs \in Seq(Messages) : Hand(msgs)
    <3>1. \A motion \in Flushes : motion \in Seq(Messages)
      BY MessageType DEF TaskTypeOK
    <3> QED BY <1>13, <1>14, <3>1 DEF FlushTimer
  <2>2. sent' \in Seq(Messages) /\ unacked' \in [ClientHandles -> 0 .. MaxUnacked]
    BY <2>1, HandType
  <2> QED BY <1>14, <2>2 DEF FlushTimer, Awake, Ungrab, ChannelTypeOK, TaskTypeOK
<1>15. ASSUME NEW h \in ClientHandles, ReceiveAck(h) PROVE Typed
  <2>1. unacked' \in [ClientHandles -> 0 .. MaxUnacked]
    BY <1>15, TaskAssumption DEF ReceiveAck, TaskTypeOK
  <2>2. state' \in {"WaitingForAck", "Sending"}
    BY <1>15 DEF ReceiveAck, TaskTypeOK
  <2> QED BY <1>0, <1>15, <2>1, <2>2 DEF ReceiveAck, Awake, ChannelTypeOK, TaskTypeOK
<1>16. ASSUME NEW h \in ClientHandles, ReceiveLeave(h) PROVE Typed
  BY <1>16, ReleaseCaptureType DEF ReceiveLeave, Awake, ChannelTypeOK, TaskTypeOK
<1>17. ASSUME NEW p \in Positions, Cross(p) PROVE Typed
  <2>1. BeginEvent \in Events
    BY DEF Events
  <2>2. backend_events' \in Seq(Positions \X Events)
    BY <1>17, <2>1 DEF Cross, TaskTypeOK
  <2> QED BY <1>0, <1>17, <2>2 DEF Cross, ChannelTypeOK, TaskTypeOK
<1>18. ASSUME NEW e \in InputEvents, UserInput(e) PROVE Typed
  <2>1. e \in Events /\ grabbed \in Positions
    BY <1>18 DEF Events, UserInput, TaskTypeOK
  <2>2. backend_events' \in Seq(Positions \X Events)
    BY <1>18, <2>1 DEF UserInput, TaskTypeOK
  <2> QED BY <1>0, <1>18, <2>2 DEF UserInput, ChannelTypeOK, TaskTypeOK
<1>19. ASSUME PollPending PROVE Typed
  <2> DEFINE p == Head(pending)
  <2>0. pending \in Seq(Handles \X Events) /\ pending # <<>>
    <3>1. pending \in Seq(Handles \X Events)
      BY DEF TaskTypeOK
    <3>2. pending # <<>>
      BY <1>19 DEF PollPending
    <3> QED BY <3>1, <3>2
  <2>1. p \in Handles \X Events /\ Tail(pending) \in Seq(Handles \X Events)
    BY ONLY <2>0
  <2>2. Deliver(p[1], p[2], pressed_keys, Tail(pending), backend_events)
    BY <1>19 DEF PollPending
  <2>3. p[1] \in Handles /\ p[2] \in Events
    BY <2>1
  <2>4. pressed_keys \in SUBSET Keys /\ backend_events \in Seq(Positions \X Events)
    BY DEF TaskTypeOK
  <2> QED BY <2>1, <2>2, <2>3, <2>4, DeliverType
<1>20. ASSUME PollBackend PROVE Typed
  <2> DEFINE b == Head(backend_events)
             ids == position_map[b[1]]
             pressed == Pressed(b[2])
             rest == [i \in 1 .. Len(ids) - 1 |-> <<ids[i + 1], b[2]>>]
  <2>0. backend_events \in Seq(Positions \X Events) /\ backend_events # <<>>
    <3>1. backend_events \in Seq(Positions \X Events)
      BY DEF TaskTypeOK
    <3>2. backend_events # <<>>
      BY <1>20 DEF PollBackend
    <3> QED BY <3>1, <3>2
  <2>1. b \in Positions \X Events /\ Tail(backend_events) \in Seq(Positions \X Events)
    BY ONLY <2>0
  <2>2. b[1] \in Positions /\ b[2] \in Events
    BY <2>1
  <2>3. ids \in Seq(Handles)
    BY <2>2 DEF TaskTypeOK
  <2>4. pressed \in SUBSET Keys
    BY DEF Pressed
  <2>5. CASE ids = <<>>
    <3>1. /\ backend_events' = Tail(backend_events) /\ parked' = TRUE
          /\ pressed_keys' = pressed /\ sent' = <<>>
          /\ UNCHANGED <<taskVars, id_map, position_map, pending, barriers, grabbed,
                         channelVars, unacked>>
      BY <1>20, <2>5 DEF PollBackend
    <3> HIDE DEF pressed
    <3> QED BY <1>0, <2>1, <2>4, <3>1 DEF ChannelTypeOK, TaskTypeOK
  <2>6. CASE ids # <<>>
    <3>1. Deliver(ids[1], b[2], pressed, rest, Tail(backend_events))
      BY <1>20, <2>6 DEF PollBackend
    <3>2. Len(ids) \in Nat /\ Len(ids) > 0 /\ \A i \in 1 .. Len(ids) : ids[i] \in Handles
      BY <2>3, <2>6
    <3>3. \A i \in 1 .. Len(ids) - 1 : <<ids[i + 1], b[2]>> \in Handles \X Events
      BY <2>2, <3>2
    <3>4. rest \in Seq(Handles \X Events)
      BY <3>2, <3>3, IsASeq
    <3>5. ids[1] \in Handles
      BY <3>2
    <3> HIDE DEF pressed, rest, ids, b
    <3> QED BY <2>1, <2>2, <2>4, <3>1, <3>4, <3>5, DeliverType
  <2> QED BY <2>5, <2>6
<1> QED BY <1>1, <1>3, <1>4, <1>5, <1>6, <1>9, <1>10, <1>11, <1>12, <1>14, <1>15, <1>16,
           <1>17, <1>18, <1>19, <1>20 DEF CaptureTaskNext

------------------------------------------------------------------------------
\* Every variable stays in its type: what the channels carry, what the service
\* and the capture task keep, and what is handed to the connection.
THEOREM TypeCorrect == Spec => []TypeOK
<1>1. Init => TypeOK
  <2>1. ASSUME Init PROVE ChannelTypeOK
    BY <2>1 DEF Init, ChannelInit, ChannelTypeOK
  <2>2. ASSUME Init PROVE RegistryTypeOK
    BY <2>2, ChannelAssumption DEF Init, RegistryInit, RegistryTypeOK
  <2>3. ASSUME Init PROVE TaskTypeOK
    <3>1. position_map \in [Positions -> Seq(Handles)]
      BY <2>3 DEF Init, TaskInit
    <3>2. unacked \in [ClientHandles -> 0 .. MaxUnacked]
      BY <2>3, TaskAssumption DEF Init, TaskInit
    <3>3. /\ <<>> \in Seq(Handles \X Events) /\ <<>> \in Seq(Positions \X Events)
          /\ <<>> \in Seq(Messages)
      OBVIOUS
    <3> QED BY <2>3, <3>1, <3>2, <3>3 DEF Init, TaskInit, TaskTypeOK, Phases
  <2> QED BY <2>1, <2>2, <2>3 DEF TypeOK
<1>2. TypeOK /\ [Next]_vars => TypeOK'
  <2> SUFFICES ASSUME TypeOK, [Next]_vars PROVE TypeOK'
    OBVIOUS
  <2>1. CASE ServiceStep
    BY <2>1, RegistryTypeStep DEF ServiceStep, TypeOK, TaskTypeOK
  <2>2. CASE TaskStep
    BY <2>2, TaskTypeStep DEF TaskStep, TypeOK, RegistryTypeOK
  <2>3. CASE UNCHANGED vars
    BY <2>3 DEF vars, TypeOK, ChannelTypeOK, RegistryTypeOK, TaskTypeOK
  <2> QED BY <2>1, <2>2, <2>3 DEF Next
<1> QED BY <1>1, <1>2, PTL DEF Spec

------------------------------------------------------------------------------
\* Only configured clients are active, or waiting to be: a slot that the slab
\* hands out again cannot be active already.
ActiveConfigured == active \subseteq clients /\ booting \subseteq clients

PositionInv == TypeOK /\ ActiveConfigured /\ OneActivePerPosition

LEMMA PositionStep == PositionInv /\ [Next]_vars => (ActiveConfigured /\ OneActivePerPosition)'
<1> SUFFICES ASSUME PositionInv, [Next]_vars
             PROVE  (ActiveConfigured /\ OneActivePerPosition)'
  OBVIOUS
<1> DEFINE Goal == (ActiveConfigured /\ OneActivePerPosition)'
<1>0. /\ active \in SUBSET ClientHandles /\ pos \in [ClientHandles -> Positions]
      /\ clients \in SUBSET ClientHandles /\ booting \in SUBSET ClientHandles
      /\ active \subseteq clients /\ booting \subseteq clients
      /\ \A c, d \in active : pos[c] = pos[d] => c = d
  BY DEF PositionInv, TypeOK, RegistryTypeOK, ActiveConfigured, OneActivePerPosition
<1> USE DEF ActiveConfigured, OneActivePerPosition
<1>1. ASSUME UNCHANGED <<booting, clients, active, pos>> PROVE Goal
  BY <1>0, <1>1
<1>2. ASSUME NEW h \in clients, NEW actives \in SUBSET active,
             pos' \in [ClientHandles -> Positions],
             \A c \in actives : pos'[c] = pos[c],
             active' = Activate(h, actives, pos').active,
             clients' = clients, booting' \subseteq booting
      PROVE  Goal
  <2>1. \A c, d \in actives : pos'[c] = pos'[d] => c = d
    BY <1>0, <1>2
  <2>2. /\ active' \subseteq actives \cup {h}
        /\ \A c, d \in active' : pos'[c] = pos'[d] => c = d
    BY <1>0, <1>2, <2>1, ActivateLemma
  <2> QED BY <1>0, <1>2, <2>2
<1>3. ASSUME Boot PROVE Goal
  BY <1>0, <1>2, <1>3 DEF Boot
<1>4. ASSUME AddClient PROVE Goal
  BY <1>0, <1>4 DEF AddClient
<1>5. ASSUME NEW h \in ClientHandles, RemoveClient(h) PROVE Goal
  <2>1. booting = {}
    BY <1>5 DEF RemoveClient, Started
  <2> QED BY <1>0, <1>5, <2>1 DEF RemoveClient
<1>6. ASSUME NEW h \in ClientHandles, ActivateClient(h) PROVE Goal
  BY <1>0, <1>2, <1>6 DEF ActivateClient
<1>7. ASSUME NEW h \in ClientHandles, DeactivateClient(h) PROVE Goal
  BY <1>0, <1>7 DEF DeactivateClient
<1>8. ASSUME NEW h \in ClientHandles, NEW p \in Positions, UpdatePos(h, p) PROVE Goal
  <2>1. pos' = [pos EXCEPT ![h] = p] /\ clients' = clients /\ booting' = booting /\ h \in clients
    BY <1>8 DEF UpdatePos
  <2>2. pos' \in [ClientHandles -> Positions] /\ \A c \in ClientHandles \ {h} : pos'[c] = pos[c]
    BY <1>0, <2>1
  <2>3. CASE h \in active
    <3>1. active' = Activate(h, active \ {h}, pos').active
      BY <1>8, <2>3 DEF UpdatePos
    <3> DEFINE others == active \ {h}
    <3>2. others \in SUBSET active /\ \A c \in others : pos'[c] = pos[c]
      BY <1>0, <2>2
    <3>3. active' = Activate(h, others, pos').active
      BY <3>1
    <3> HIDE DEF others
    <3> QED BY <1>2, <2>1, <2>2, <3>2, <3>3
  <2>4. CASE h \notin active
    <3>1. active' = active
      BY <1>8, <2>4 DEF UpdatePos
    <3> QED BY <1>0, <2>1, <2>2, <2>4, <3>1
  <2> QED BY <2>3, <2>4
<1>9. ASSUME RegistryNext PROVE Goal
  <2>1. \A a \in Addrs : \A p \in Positions, f \in Fingerprints :
          EnterNew(a, p, f) \/ EnterAgain(a, p, f) => Goal
    BY <1>1 DEF EnterNew, EnterAgain
  <2>2. \A a \in Addrs : Disconnected(a) \/ TakeLeave(a) => Goal
    BY <1>1 DEF Disconnected, TakeLeave
  <2>3. ReleaseNotify \/ EnableCapture \/ ServiceCaptureEvent => Goal
    BY <1>1 DEF ReleaseNotify, EnableCapture, Notify, ServiceCaptureEvent
  <2> QED BY <1>3, <1>4, <1>5, <1>6, <1>7, <1>8, <1>9, <2>1, <2>2, <2>3 DEF RegistryNext
<1> QED BY <1>1, <1>9 DEF Next, ServiceStep, TaskStep, vars

\* No two active clients share a position, whatever is activated, moved,
\* deleted or created: a crossing always leads to one device.
THEOREM OneActive == Spec => []OneActivePerPosition
<1>1. Init => ActiveConfigured /\ OneActivePerPosition
  BY DEF Init, RegistryInit, ActiveConfigured, OneActivePerPosition
<1>2. TypeOK /\ (ActiveConfigured /\ OneActivePerPosition) /\ [Next]_vars
        => (ActiveConfigured /\ OneActivePerPosition)'
  BY PositionStep DEF PositionInv
<1>3. ActiveConfigured /\ OneActivePerPosition => OneActivePerPosition
  OBVIOUS
<1> QED BY <1>1, <1>2, <1>3, TypeCorrect, PTL DEF Spec

\* incoming_conns and incoming_conn_info stay in step, so update_incoming
\* finds exactly one device for a registered address.
THEOREM IncomingConsistent == Spec => []IncomingAgree
<1>1. Init => IncomingAgree
  BY DEF Init, RegistryInit, IncomingAgree
<1>2. TypeOK /\ IncomingAgree /\ [Next]_vars => IncomingAgree'
  <2> SUFFICES ASSUME TypeOK, IncomingAgree, [Next]_vars PROVE IncomingAgree'
    OBVIOUS
  <2> USE DEF IncomingAgree
  <2>1. ASSUME UNCHANGED <<incoming_conns, incoming_conn_info>> PROVE IncomingAgree'
    BY <2>1
  <2>2. ASSUME NEW a \in Addrs, NEW p \in Positions, NEW f \in Fingerprints, EnterNew(a, p, f)
        PROVE  IncomingAgree'
    <3>1. NewIncoming(a, p, f).addr = a
      BY DEF NewIncoming
    <3> QED BY <2>2, <3>1 DEF EnterNew
  <2>3. ASSUME NEW a \in Addrs, NEW p \in Positions, NEW f \in Fingerprints, EnterAgain(a, p, f)
        PROVE  IncomingAgree'
    <3>1. NewIncoming(a, p, f).addr = a
      BY DEF NewIncoming
    <3> QED BY <2>3, <3>1 DEF EnterAgain
  <2>4. ASSUME NEW a \in Addrs, Disconnected(a) PROVE IncomingAgree'
    BY <2>4 DEF Disconnected
  <2>5. ASSUME RegistryNext PROVE IncomingAgree'
    BY <2>1, <2>2, <2>3, <2>4, <2>5
       DEF RegistryNext, RegistryUnchangedIncoming, Boot, AddClient, RemoveClient, ActivateClient,
           DeactivateClient, UpdatePos, TakeLeave, ReleaseNotify, EnableCapture, Notify,
           ServiceCaptureEvent
  <2> QED BY <2>1, <2>5 DEF Next, ServiceStep, TaskStep, vars
<1> QED BY <1>1, <1>2, TypeCorrect, PTL DEF Spec
==============================================================================
