--------------------------- MODULE EmulationProofs ---------------------------
(***************************************************************************)
(* Proofs about the receiving half of a device, for any number of devices,  *)
(* keys and configurations, and any bounds.                                 *)
(***************************************************************************)
EXTENDS Emulation, FiniteSetTheorems, SequenceTheorems, TLAPS

USE DEF proxyVars, etaskVars, inputVars, emulationVars, listenVars, vars

------------------------------------------------------------------------------
\* What a configuration maps a key to is a key.
LEMMA MapType ==
  ASSUME NEW c \in Configs, NEW k \in DOMAIN ScancodeMap(c)
  PROVE  ScancodeMap(c)[k] \in Keys
<1>1. /\ DOMAIN c.modifier_remap \subseteq Modifiers
      /\ \A m \in DOMAIN c.modifier_remap : c.modifier_remap[m] \in Modifiers
      /\ DOMAIN c.key_remap \subseteq Keys
      /\ \A m \in DOMAIN c.key_remap : c.key_remap[m] \in Keys
      /\ Modifiers \subseteq Keys
  BY RemapAssumption
<1> QED BY <1>1 DEF ScancodeMap

\* Engines stay engines, and what they make of a key is a key.
LEMMA NewEngineType == \A c \in Configs : NewEngine(c) \in Engines
<1> TAKE c \in Configs
<1>1. NonePressed \in [{} -> Keys]
  BY DEF NonePressed
<1>2. {} \in SUBSET Modifiers
  OBVIOUS
<1>3. NonePressed \in UNION {[D -> Keys] : D \in SUBSET Modifiers}
  BY <1>1, <1>2
<1> QED BY <1>3 DEF NewEngine, Engine, Engines

LEMMA ResetType ==
  ASSUME NEW e \in Engines
  PROVE  Reset(e) \in Engines
<1>1. NonePressed \in [{} -> Keys]
  BY DEF NonePressed
<1>2. {} \in SUBSET Modifiers
  OBVIOUS
<1>3. NonePressed \in UNION {[D -> Keys] : D \in SUBSET Modifiers}
  BY <1>1, <1>2
<1> QED BY <1>3 DEF Reset, Engine, Engines

LEMMA RemapType ==
  ASSUME NEW e \in Engines, NEW k \in Keys, NEW d \in BOOLEAN
  PROVE  /\ RemapKey(e, k, d).key \in Keys
         /\ RemapKey(e, k, d).engine \in Engines
<1>1. PICK D \in SUBSET Modifiers : e.pressed \in [D -> Keys]
  BY DEF Engines
<1>2. PICK c \in Configs : e.map = ScancodeMap(c)
  BY DEF Engines
<1>3. Pressed(e) = D /\ \A m \in D : e.pressed[m] \in Keys
  BY <1>1 DEF Pressed
<1>4. Mapped(e.map, k) \in Keys
  BY <1>2, MapType DEF Mapped
<1>5. CASE d
  <2> DEFINE now == [m \in D \cup ({k} \cap Modifiers) |->
                       IF m = k THEN Mapped(e.map, k) ELSE e.pressed[m]]
  <2>1. RemapKey(e, k, d) = [key |-> Mapped(e.map, k), engine |-> Engine(e.map, now)]
    BY <1>5, <1>3 DEF RemapKey, RemapPress
  <2>2. now \in [D \cup ({k} \cap Modifiers) -> Keys]
    BY <1>3, <1>4
  <2>3. D \cup ({k} \cap Modifiers) \in SUBSET Modifiers
    BY <1>1
  <2>4. now \in UNION {[E -> Keys] : E \in SUBSET Modifiers}
    BY <2>2, <2>3
  <2> HIDE DEF now
  <2>5. Engine(e.map, now) \in Engines
    BY <2>4, <1>2 DEF Engine, Engines
  <2> QED BY <2>1, <2>5, <1>4
<1>6. CASE ~d
  <2> DEFINE now == [m \in D \ {k} |-> e.pressed[m]]
             to == IF k \in D THEN e.pressed[k] ELSE Mapped(e.map, k)
  <2>1. RemapKey(e, k, d) = [key |-> to, engine |-> Engine(e.map, now)]
    BY <1>6, <1>3 DEF RemapKey, RemapRelease
  <2>2. now \in [D \ {k} -> Keys]
    BY <1>3
  <2>3. D \ {k} \in SUBSET Modifiers
    BY <1>1
  <2>4. now \in UNION {[E -> Keys] : E \in SUBSET Modifiers}
    BY <2>2, <2>3
  <2>5. to \in Keys
    BY <1>3, <1>4
  <2> HIDE DEF now, to
  <2>6. Engine(e.map, now) \in Engines
    BY <2>4, <1>2 DEF Engine, Engines
  <2> QED BY <2>1, <2>5, <2>6
<1> QED BY <1>5, <1>6

------------------------------------------------------------------------------
\* The channel: taking a request out, putting one in.
LEMMA TakeType ==
  ASSUME TypeOK, NEW op, Take(op)
  PROVE  /\ proxy_requests' \in Seq(ProxyRequests)
         /\ Head(proxy_requests) \in ProxyRequests
         /\ Head(proxy_requests).op = op
         /\ \A i \in DOMAIN proxy_requests' :
              \E j \in DOMAIN proxy_requests : proxy_requests'[i] = proxy_requests[j]
<1>1. proxy_requests \in Seq(ProxyRequests) /\ proxy_requests # <<>>
  BY DEF TypeOK, EmulationTypeOK, Take
<1>2. /\ Head(proxy_requests) \in ProxyRequests
      /\ proxy_requests' \in Seq(ProxyRequests)
      /\ Len(proxy_requests') = Len(proxy_requests) - 1
      /\ \A i \in 1 .. Len(proxy_requests') : proxy_requests'[i] = proxy_requests[i + 1]
  BY <1>1 DEF Take
<1>3. /\ DOMAIN proxy_requests' = 1 .. Len(proxy_requests')
      /\ DOMAIN proxy_requests = 1 .. Len(proxy_requests)
      /\ Len(proxy_requests) \in Nat
  BY <1>1, <1>2
<1>4. \A i \in 1 .. Len(proxy_requests') : i + 1 \in 1 .. Len(proxy_requests)
  BY <1>2, <1>3
<1> QED BY <1>2, <1>3, <1>4 DEF Take

LEMMA RequestFields ==
  ASSUME NEW r \in ProxyRequests
  PROVE  /\ r.op = "Input" => r.addr \in Addrs /\ r.event \in Inputs
         /\ r.op = "Remove" => r.addr \in Addrs
         /\ r.op = "UpdateKeyRemap" => r.config \in Configs
BY DEF ProxyRequests, TerminateRequest, ReenableRequest

LEMMA InputFields ==
  ASSUME NEW e \in Inputs, e # OtherInput
  PROVE  e.key \in Keys /\ e.down \in BOOLEAN
BY DEF Inputs

LEMMA RequestsAreRequests ==
  /\ \A e \in Inputs, a \in Addrs : InputRequest(e, a) \in ProxyRequests
  /\ \A a \in Addrs : RemoveRequest(a) \in ProxyRequests
  /\ \A c \in Configs : UpdateRequest(c) \in ProxyRequests
  /\ TerminateRequest \in ProxyRequests
  /\ ReenableRequest \in ProxyRequests
BY DEF ProxyRequests, InputRequest, RemoveRequest, UpdateRequest, TerminateRequest, ReenableRequest

LEMMA SendType ==
  ASSUME TypeOK, NEW r \in ProxyRequests, proxy_requests' = Append(proxy_requests, r)
  PROVE  /\ proxy_requests' \in Seq(ProxyRequests)
         /\ \A i \in DOMAIN proxy_requests' :
              \/ proxy_requests'[i] = r
              \/ \E j \in DOMAIN proxy_requests : proxy_requests'[i] = proxy_requests[j]
<1>1. proxy_requests \in Seq(ProxyRequests)
  BY DEF TypeOK, EmulationTypeOK
<1>2. /\ proxy_requests' \in Seq(ProxyRequests)
      /\ Len(proxy_requests') = Len(proxy_requests) + 1
      /\ \A i \in 1 .. Len(proxy_requests) : proxy_requests'[i] = proxy_requests[i]
      /\ proxy_requests'[Len(proxy_requests) + 1] = r
  BY <1>1
<1>3. /\ DOMAIN proxy_requests' = 1 .. Len(proxy_requests')
      /\ DOMAIN proxy_requests = 1 .. Len(proxy_requests)
      /\ Len(proxy_requests) \in Nat
  BY <1>1, <1>2
<1> QED BY <1>2, <1>3

\* The removals that the timer puts into the channel.
LEMMA TickType ==
  ASSUME TypeOK, NEW S \in SUBSET last_response, Tick(S)
  PROVE  /\ proxy_requests' \in Seq(ProxyRequests)
         /\ \A i \in DOMAIN proxy_requests' :
              \/ \E a \in Addrs : proxy_requests'[i] = RemoveRequest(a)
              \/ \E j \in DOMAIN proxy_requests : proxy_requests'[i] = proxy_requests[j]
<1>1. proxy_requests \in Seq(ProxyRequests) /\ S \subseteq Addrs
  BY DEF TypeOK, EmulationTypeOK
<1>2. PICK order \in SetToSeqs(S) :
        proxy_requests' = proxy_requests \o [i \in DOMAIN order |-> RemoveRequest(order[i])]
  BY DEF Tick
<1> DEFINE n == Cardinality(S)
           removes == [i \in DOMAIN order |-> RemoveRequest(order[i])]
<1>3. n \in Nat
  BY <1>1, EmulationAssumption, FS_Subset, FS_CardinalityType
<1>4. order \in [1 .. n -> S]
  BY <1>2 DEF SetToSeqs
<1> HIDE DEF n
<1>5. /\ removes \in [1 .. n -> ProxyRequests]
      /\ \A i \in 1 .. n : \E a \in Addrs : removes[i] = RemoveRequest(a)
  BY <1>1, <1>4, RequestsAreRequests
<1> HIDE DEF removes
<1>6. removes \in Seq(ProxyRequests) /\ Len(removes) = n
  BY <1>3, <1>5, SeqDef, LenProperties
<1>7. proxy_requests' = proxy_requests \o removes
  BY <1>2 DEF removes
<1>8. /\ proxy_requests' \in Seq(ProxyRequests)
      /\ Len(proxy_requests') = Len(proxy_requests) + n
      /\ \A i \in 1 .. Len(proxy_requests') :
           proxy_requests'[i] = IF i <= Len(proxy_requests) THEN proxy_requests[i]
                                ELSE removes[i - Len(proxy_requests)]
  <2> DEFINE all == proxy_requests \o removes
  <2>1. /\ all \in Seq(ProxyRequests)
        /\ Len(all) = Len(proxy_requests) + Len(removes)
        /\ \A i \in 1 .. Len(proxy_requests) + Len(removes) :
             all[i] = IF i <= Len(proxy_requests) THEN proxy_requests[i]
                      ELSE removes[i - Len(proxy_requests)]
    BY <1>1, <1>6, ConcatProperties
  <2>2. proxy_requests' = all
    BY <1>7
  <2> HIDE DEF all
  <2> QED BY <2>1, <2>2, <1>6
<1>9. /\ DOMAIN proxy_requests' = 1 .. Len(proxy_requests')
      /\ DOMAIN proxy_requests = 1 .. Len(proxy_requests)
      /\ Len(proxy_requests) \in Nat
  BY <1>1, <1>8
<1>10. ASSUME NEW i \in DOMAIN proxy_requests'
       PROVE  \/ \E a \in Addrs : proxy_requests'[i] = RemoveRequest(a)
              \/ \E j \in DOMAIN proxy_requests : proxy_requests'[i] = proxy_requests[j]
  <2>1. CASE i <= Len(proxy_requests)
    BY <2>1, <1>8, <1>9
  <2>2. CASE ~(i <= Len(proxy_requests))
    <3>1. i - Len(proxy_requests) \in 1 .. n
      BY <2>2, <1>3, <1>8, <1>9
    <3> QED BY <3>1, <2>2, <1>5, <1>8, <1>9
  <2> QED BY <2>1, <2>2
<1> QED BY <1>8, <1>10

------------------------------------------------------------------------------
\* A request to terminate is in the channel only when exit_requested is set.
ExitKnown ==
  \A i \in DOMAIN proxy_requests : proxy_requests[i].op = "Terminate" => exit_requested

\* Where the handles stand in each phase.
HandlesMade ==
  /\ created \cup uncreated \subseteq InUse
  /\ ephase = "create" => created \cup uncreated = InUse
  /\ ephase # "create" => uncreated = {}
  /\ ephase \notin {"create", "session"} => created = {}
  /\ ephase = "session" /\ ~exit_requested => created = InUse

HandlesDistinct ==
  /\ \A a, b \in Addrs : handles[a] = handles[b] /\ handles[a] # None => a = b
  /\ \A h \in InUse : h < next_id

\* Keys are down for handles of a session only, and are known to InputEmulation.
KeysKnown ==
  /\ \A h \in Ids : pressed_keys[h] # {} => ephase = "session" /\ h \in created
  /\ ~broken => down = pressed_keys

IInv == TypeOK /\ ExitKnown /\ HandlesMade /\ HandlesDistinct /\ KeysKnown

\* What the listening side does to the emulation task: a request more, a report less.
ListenFrame ==
  /\ UNCHANGED <<etaskVars, inputVars>>
  /\ exit_requested => exit_requested'
  /\ TypeOK'
  /\ ExitKnown'

LEMMA ListenKeeps ==
  ASSUME TypeOK, ExitKnown, ListenNext, carried' = carried
  PROVE  ListenFrame
<1> USE DEF EmulationTypeOK, TypeOK
<1>1. ASSUME NEW r \in ProxyRequests, proxy_requests' = Append(proxy_requests, r),
             exit_requested' \in BOOLEAN, exit_requested => exit_requested',
             r.op = "Terminate" => exit_requested'
      PROVE  proxy_requests' \in Seq(ProxyRequests) /\ ExitKnown'
  <2>1. /\ proxy_requests' \in Seq(ProxyRequests)
        /\ \A i \in DOMAIN proxy_requests' :
             \/ proxy_requests'[i] = r
             \/ \E j \in DOMAIN proxy_requests : proxy_requests'[i] = proxy_requests[j]
    BY <1>1, SendType
  <2> QED BY <2>1, <1>1 DEF ExitKnown
<1>2. ASSUME UNCHANGED <<proxy_requests, exit_requested>>
      PROVE  proxy_requests' \in Seq(ProxyRequests) /\ ExitKnown'
  BY <1>2 DEF ExitKnown
<1>3. ASSUME NEW a \in Addrs, HearEnter(a) PROVE ListenFrame
  BY <1>2, <1>3 DEF HearEnter, Heard, ListenFrame
<1>4. ASSUME NEW a \in Addrs, HearLeave(a) PROVE ListenFrame
  <2>1. RemoveRequest(a) \in ProxyRequests /\ RemoveRequest(a).op # "Terminate"
    BY RequestsAreRequests DEF RemoveRequest
  <2>2. proxy_requests' = Append(proxy_requests, RemoveRequest(a)) /\ exit_requested' = exit_requested
    BY <1>4 DEF HearLeave, Heard, Send
  <2>3. proxy_requests' \in Seq(ProxyRequests) /\ ExitKnown'
    BY <2>1, <2>2, <1>1
  <2> QED BY <1>4, <2>3 DEF HearLeave, Heard, ListenFrame
<1>5. ASSUME NEW e \in Inputs, NEW a \in Addrs, Consume(e, a), exit_requested' = exit_requested
      PROVE  proxy_requests' \in Seq(ProxyRequests) /\ ExitKnown'
  <2>1. InputRequest(e, a) \in ProxyRequests /\ InputRequest(e, a).op # "Terminate"
    BY RequestsAreRequests DEF InputRequest
  <2> QED BY <2>1, <1>1, <1>2, <1>5 DEF Consume, Send
<1>6. ASSUME NEW a \in Addrs, HearOther(a) PROVE ListenFrame
  <2>1. OtherInput \in Inputs
    BY DEF Inputs
  <2>2. proxy_requests' \in Seq(ProxyRequests) /\ ExitKnown'
    BY <2>1, <1>5, <1>6 DEF HearOther, Heard
  <2> QED BY <1>6, <2>2 DEF HearOther, Heard, ListenFrame
<1>7. ASSUME NEW a \in Addrs, HearPing(a) PROVE ListenFrame
  BY <1>2, <1>7 DEF HearPing, Heard, ListenFrame
<1>8. ASSUME NEW a \in Addrs, NEW k \in RemoteKeys, NEW d \in BOOLEAN, HearKey(a, k, d)
      PROVE  ListenFrame
  <2>1. KeyInput(k, d) \in Inputs
    BY ListenAssumption DEF KeyInput, Inputs
  <2>2. proxy_requests' \in Seq(ProxyRequests) /\ ExitKnown'
    BY <2>1, <1>5, <1>8 DEF HearKey, Heard
  <2>3. held' \in [Addrs -> SUBSET RemoteKeys]
    BY <1>8 DEF HearKey
  <2> QED BY <1>8, <2>2, <2>3 DEF HearKey, Heard, ListenFrame
<1>9. ASSUME NEW a \in Addrs, FallSilent(a) PROVE ListenFrame
  BY <1>2, <1>9 DEF FallSilent, ListenFrame
<1>10. ASSUME NEW S \in SUBSET last_response, Tick(S) PROVE ListenFrame
  <2>1. /\ proxy_requests' \in Seq(ProxyRequests)
        /\ \A i \in DOMAIN proxy_requests' :
             \/ \E a \in Addrs : proxy_requests'[i] = RemoveRequest(a)
             \/ \E j \in DOMAIN proxy_requests : proxy_requests'[i] = proxy_requests[j]
    BY <1>10, TickType
  <2>2. ExitKnown'
    BY <1>10, <2>1 DEF ExitKnown, Tick, RemoveRequest
  <2> QED BY <1>10, <2>1, <2>2 DEF Tick, ListenFrame
<1>11. ASSUME RequestReenable PROVE ListenFrame
  <2>1. ReenableRequest \in ProxyRequests /\ ReenableRequest.op # "Terminate"
    BY RequestsAreRequests DEF ReenableRequest
  <2>2. proxy_requests' \in Seq(ProxyRequests) /\ ExitKnown'
    BY <2>1, <1>1, <1>11 DEF RequestReenable, Send
  <2> QED BY <1>11, <2>2 DEF RequestReenable, ListenFrame
<1>12. ASSUME RequestTerminate PROVE ListenFrame
  <2>1. proxy_requests' \in Seq(ProxyRequests) /\ ExitKnown'
    BY RequestsAreRequests, <1>1, <1>12 DEF RequestTerminate, ProxyTerminate
  <2> QED BY <1>12, <2>1 DEF RequestTerminate, ProxyTerminate, ListenFrame
<1>13. ASSUME NEW c \in Configs, RequestUpdate(c) PROVE ListenFrame
  <2>1. UpdateRequest(c) \in ProxyRequests /\ UpdateRequest(c).op # "Terminate"
    BY RequestsAreRequests DEF UpdateRequest
  <2>2. proxy_requests' \in Seq(ProxyRequests) /\ ExitKnown'
    BY <2>1, <1>1, <1>13 DEF RequestUpdate, Send
  <2>3. updates' \in 0 .. MaxUpdates
    BY <1>13, ListenAssumption DEF RequestUpdate
  <2> QED BY <1>13, <2>2, <2>3 DEF RequestUpdate, ListenFrame
<1>14. ASSUME Report PROVE ListenFrame
  <2>1. proxy_events' \in Seq({"Enabled", "Disabled"})
    BY <1>14 DEF Report, ProxyEvent
  <2> QED BY <1>2, <1>14, <2>1 DEF Report, ProxyEvent, ListenFrame
<1> QED
  BY <1>3, <1>4, <1>6, <1>7, <1>8, <1>9, <1>10, <1>11, <1>12, <1>13, <1>14 DEF ListenNext

------------------------------------------------------------------------------
\* What is left down when the keys of the handles in H have been released.
LEMMA ReleaseKeysEffect ==
  ASSUME NEW H \in SUBSET Ids, NEW pressed \in [Ids -> SUBSET Keys],
         NEW given \in [Ids -> SUBSET Keys], NEW failed \in BOOLEAN,
         ReleaseKeys(H, pressed, given, failed)
  PROVE  /\ down' \in [Ids -> SUBSET Keys]
         /\ broken' \in BOOLEAN
         /\ ~broken' => ~failed
         /\ ~broken' => \A h \in Ids :
              down'[h] = IF h \in H THEN given[h] \ pressed[h] ELSE given[h]
<1>1. PICK left \in [H -> SUBSET Keys] :
        /\ \A h \in H : left[h] \subseteq pressed[h]
        /\ down' = [h \in Ids |-> IF h \in H THEN given[h] \ (pressed[h] \ left[h])
                                  ELSE given[h]]
        /\ broken' = (failed \/ \E h \in H : left[h] # {})
  BY DEF ReleaseKeys
<1>2. down' \in [Ids -> SUBSET Keys]
  BY <1>1
<1>3. broken' \in BOOLEAN /\ (~broken' => ~failed /\ \A h \in H : left[h] = {})
  BY <1>1
<1>4. ASSUME \A h \in H : left[h] = {}, NEW h \in Ids
      PROVE  down'[h] = IF h \in H THEN given[h] \ pressed[h] ELSE given[h]
  BY <1>1, <1>4
<1> QED BY <1>2, <1>3, <1>4

\* The end of a session leaves no handle, and nothing down unless the backend fails.
LEMMA EndSessionEffect ==
  ASSUME TypeOK,
         NEW made \in SUBSET Ids, NEW pressed \in [Ids -> SUBSET Keys],
         NEW given \in [Ids -> SUBSET Keys], NEW failed \in BOOLEAN,
         ~failed => \A h \in Ids : /\ given[h] \subseteq pressed[h]
                                   /\ h \notin made => given[h] = {},
         EndSession(made, pressed, given, failed)
  PROVE  /\ down' \in [Ids -> SUBSET Keys] /\ broken' \in BOOLEAN
         /\ pressed_keys' = [h \in Ids |-> {}]
         /\ created' = {}
         /\ ephase' \in {"stopped", "idle"}
         /\ proxy_events' \in Seq({"Enabled", "Disabled"})
         /\ ~broken' => down' = pressed_keys'
<1>1. /\ down' \in [Ids -> SUBSET Keys]
      /\ broken' \in BOOLEAN
      /\ ~broken' => ~failed
      /\ ~broken' => \A h \in Ids :
           down'[h] = IF h \in made THEN given[h] \ pressed[h] ELSE given[h]
  <2>1. ReleaseKeys(made, pressed, given, failed)
    BY DEF EndSession
  <2> QED BY <2>1, ReleaseKeysEffect
<1>2. pressed_keys' = [h \in Ids |-> {}] /\ created' = {} /\ ephase' \in {"stopped", "idle"}
  BY DEF EndSession, Returned
<1>3. proxy_events' \in Seq({"Enabled", "Disabled"})
  BY DEF EndSession, TypeOK, EmulationTypeOK
<1>4. ASSUME ~broken' PROVE down' = pressed_keys'
  <2>1. \A h \in Ids : down'[h] = {}
    BY <1>1, <1>4
  <2> QED BY <1>1, <1>2, <2>1
<1> QED BY <1>1, <1>2, <1>3, <1>4

------------------------------------------------------------------------------
\* The requests that are left when the task has taken one, or none.
LEMMA TakeKeeps ==
  ASSUME TypeOK, ExitKnown, NEW op, Take(op)
  PROVE  /\ proxy_requests' \in Seq(ProxyRequests)
         /\ emulation_active' = emulation_active /\ exit_requested' = exit_requested
         /\ ExitKnown'
         /\ op = "Terminate" => exit_requested
         /\ op = "UpdateKeyRemap" => Head(proxy_requests).config \in Configs
         /\ op = "Remove" => Head(proxy_requests).addr \in Addrs
         /\ op = "Input" => /\ Head(proxy_requests).addr \in Addrs
                            /\ Head(proxy_requests).event \in Inputs
<1>1. /\ proxy_requests' \in Seq(ProxyRequests)
      /\ Head(proxy_requests) \in ProxyRequests
      /\ Head(proxy_requests).op = op
      /\ \A i \in DOMAIN proxy_requests' :
           \E j \in DOMAIN proxy_requests : proxy_requests'[i] = proxy_requests[j]
  BY TakeType
<1>2. emulation_active' = emulation_active /\ exit_requested' = exit_requested
  BY DEF Take
<1>3. ExitKnown'
  BY <1>1, <1>2 DEF ExitKnown
<1>4. op = "Terminate" => exit_requested
  <2>1. proxy_requests \in Seq(ProxyRequests) /\ proxy_requests # <<>>
    BY DEF TypeOK, EmulationTypeOK, Take
  <2>2. 1 \in DOMAIN proxy_requests /\ Head(proxy_requests) = proxy_requests[1]
    BY <2>1
  <2> QED BY <2>2, <1>1 DEF ExitKnown
<1> QED BY <1>1, <1>2, <1>3, <1>4, RequestFields

\* Steps of the task that make or lose no handle.
LEMMA BetweenSessions ==
  ASSUME IInv, NewEmulation \/ CreateClients \/ WaitForTermination \/ IdleRequest
                 \/ SessionReenable,
         UNCHANGED listenVars, carried' \in SUBSET Ids
  PROVE  IInv'
<1> USE DEF IInv, TypeOK, EmulationTypeOK
<1>0. InUse \subseteq Ids
  BY DEF InUse
<1>1. ASSUME NewEmulation PROVE IInv'
  <2>1. ephase' \in {"create", "stopped", "idle"}
    BY <1>1 DEF NewEmulation, Returned
  <2>2. engine' \in Engines
    BY <1>1, NewEngineType DEF NewEmulation
  <2>3. proxy_events' \in Seq({"Enabled", "Disabled"})
    <3>1. proxy_events \in Seq({"Enabled", "Disabled"})
      OBVIOUS
    <3>2. proxy_events' \in {proxy_events, Append(proxy_events, "Enabled")}
      BY <1>1 DEF NewEmulation
    <3> QED BY ONLY <3>1, <3>2
  <2>4. TypeOK'
    BY <1>0, <1>1, <2>1, <2>2, <2>3 DEF NewEmulation, EPhases
  <2>5. ExitKnown' /\ HandlesDistinct'
    BY <1>1 DEF NewEmulation, ExitKnown, HandlesDistinct, InUse
  <2>6. HandlesMade'
    <3>1. InUse' = InUse /\ created' = created /\ created = {} /\ uncreated = {}
      BY <1>1 DEF NewEmulation, HandlesMade, InUse
    <3>2. \/ ephase' = "create" /\ uncreated' = InUse
          \/ ephase' \in {"stopped", "idle"} /\ uncreated' = {}
      BY <1>1, <3>1 DEF NewEmulation, Returned
    <3> QED BY <3>1, <3>2 DEF HandlesMade
  <2>7. KeysKnown'
    BY <1>1 DEF NewEmulation, KeysKnown
  <2> QED BY <2>4, <2>5, <2>6, <2>7
<1>2. ASSUME CreateClients PROVE IInv'
  <2>1. TypeOK'
    BY <1>2 DEF CreateClients, Created, EPhases
  <2>2. ExitKnown' /\ HandlesDistinct'
    BY <1>2 DEF CreateClients, ExitKnown, HandlesDistinct, InUse
  <2>3. HandlesMade'
    BY <1>2 DEF CreateClients, Created, HandlesMade, InUse
  <2>4. KeysKnown'
    BY <1>2 DEF CreateClients, Created, KeysKnown
  <2> QED BY <2>1, <2>2, <2>3, <2>4
<1>3. ASSUME WaitForTermination PROVE IInv'
  <2>1. PICK op : Take(op) /\ op \in {"Terminate", "UpdateKeyRemap", "Input", "Remove", "Reenable"}
    BY <1>3 DEF WaitForTermination
  <2>2. /\ proxy_requests' \in Seq(ProxyRequests)
        /\ emulation_active' = emulation_active /\ exit_requested' = exit_requested
        /\ ExitKnown'
    BY <2>1, TakeKeeps
  <2>3. Take("Terminate") => exit_requested
    BY TakeKeeps
  <2>4. Take("UpdateKeyRemap") => Head(proxy_requests).config \in Configs
    BY TakeKeeps
  <2>5. TypeOK'
    BY <1>3, <2>2, <2>4 DEF WaitForTermination, Created, EPhases, Returned
  <2>6. HandlesDistinct'
    BY <1>3 DEF WaitForTermination, HandlesDistinct, InUse
  <2>7. HandlesMade'
    BY <1>3, <2>2, <2>3 DEF WaitForTermination, Created, HandlesMade, InUse, Returned
  <2>8. KeysKnown'
    BY <1>3 DEF WaitForTermination, KeysKnown
  <2> QED BY <2>2, <2>5, <2>6, <2>7, <2>8
<1>4. ASSUME IdleRequest PROVE IInv'
  <2>1. PICK op : Take(op)
    BY <1>4 DEF IdleRequest
  <2>2. /\ proxy_requests' \in Seq(ProxyRequests)
        /\ emulation_active' = emulation_active /\ exit_requested' = exit_requested
        /\ ExitKnown'
    BY <2>1, TakeKeeps
  <2>3. Take("UpdateKeyRemap") => Head(proxy_requests).config \in Configs
    BY TakeKeeps
  <2>4. TypeOK'
    BY <1>4, <2>2, <2>3 DEF IdleRequest, EPhases
  <2>5. HandlesDistinct'
    BY <1>4 DEF IdleRequest, HandlesDistinct, InUse
  <2>6. HandlesMade'
    BY <1>4, <2>2 DEF IdleRequest, HandlesMade, InUse
  <2>7. KeysKnown'
    BY <1>4 DEF IdleRequest, KeysKnown
  <2> QED BY <2>2, <2>4, <2>5, <2>6, <2>7
<1>5. ASSUME SessionReenable PROVE IInv'
  <2>1. /\ proxy_requests' \in Seq(ProxyRequests)
        /\ emulation_active' = emulation_active /\ exit_requested' = exit_requested
        /\ ExitKnown'
    BY <1>5, TakeKeeps DEF SessionReenable
  <2>2. TypeOK'
    BY <1>5, <2>1 DEF SessionReenable
  <2>3. HandlesDistinct' /\ HandlesMade' /\ KeysKnown'
    BY <1>5, <2>1 DEF SessionReenable, HandlesDistinct, HandlesMade, KeysKnown, InUse
  <2> QED BY <2>1, <2>2, <2>3
<1> QED BY <1>1, <1>2, <1>3, <1>4, <1>5

------------------------------------------------------------------------------
\* What becomes of the handles and keys when InputEmulation consumes an event.
Consumed(made) ==
  /\ created' \in SUBSET Ids
  /\ pressed_keys' \in [Ids -> SUBSET Keys]
  /\ down' \in [Ids -> SUBSET Keys]
  /\ broken' \in BOOLEAN
  /\ proxy_events' \in Seq({"Enabled", "Disabled"})
  /\ KeysKnown'
  /\ \/ ephase' = "session" /\ created' = made
     \/ ephase' \in {"stopped", "idle"} /\ created' = {}

LEMMA EndSessionKeeps ==
  ASSUME TypeOK,
         NEW made \in SUBSET Ids, NEW pressed \in [Ids -> SUBSET Keys],
         NEW given \in [Ids -> SUBSET Keys], NEW failed \in BOOLEAN,
         ~failed => \A h \in Ids : /\ given[h] \subseteq pressed[h]
                                   /\ h \notin made => given[h] = {},
         EndSession(made, pressed, given, failed)
  PROVE  Consumed(made)
<1>1. /\ down' \in [Ids -> SUBSET Keys] /\ broken' \in BOOLEAN
      /\ pressed_keys' = [h \in Ids |-> {}]
      /\ created' = {}
      /\ ephase' \in {"stopped", "idle"}
      /\ proxy_events' \in Seq({"Enabled", "Disabled"})
      /\ ~broken' => down' = pressed_keys'
  BY EndSessionEffect
<1> QED BY <1>1 DEF Consumed, KeysKnown

LEMMA ConsumeOtherKeeps ==
  ASSUME TypeOK, KeysKnown, ephase = "session",
         NEW made \in SUBSET Ids, created \subseteq made,
         ConsumeOther(made)
  PROVE  Consumed(made)
<1> USE DEF TypeOK, EmulationTypeOK
<1>1. CASE created' = made /\ UNCHANGED <<ephase, proxy_events, pressed_keys, down, broken>>
  BY <1>1 DEF KeysKnown, Consumed
<1>2. CASE EndSession(made, pressed_keys, down, broken)
  <2>1. ASSUME ~broken, NEW x \in Ids
        PROVE  down[x] \subseteq pressed_keys[x] /\ (x \notin made => down[x] = {})
    BY <2>1 DEF KeysKnown
  <2>2. ~broken => \A x \in Ids : /\ down[x] \subseteq pressed_keys[x]
                                  /\ x \notin made => down[x] = {}
    BY <2>1
  <2>3. /\ TypeOK /\ made \in SUBSET Ids
        /\ broken \in BOOLEAN
        /\ down \in [Ids -> SUBSET Keys] /\ pressed_keys \in [Ids -> SUBSET Keys]
    OBVIOUS
  <2> HIDE DEF TypeOK
  <2> QED BY ONLY <1>2, <2>2, <2>3, EndSessionKeeps, Zenon
<1> QED BY <1>1, <1>2 DEF ConsumeOther

LEMMA ConsumeKeyKeeps ==
  ASSUME TypeOK, KeysKnown, ephase = "session",
         NEW made \in SUBSET Ids, created \subseteq made,
         NEW h \in Ids, NEW k \in Keys, NEW d \in BOOLEAN,
         ConsumeKey(made, h, k, d)
  PROVE  Consumed(made)
<1> USE DEF TypeOK, EmulationTypeOK
<1>1. CASE created' = made /\ UNCHANGED <<ephase, proxy_events, pressed_keys, down, broken>>
  BY <1>1 DEF KeysKnown, Consumed
<1>2. Updated(h, k, d) \in [Ids -> SUBSET Keys] /\ Given(h, k, d) \in [Ids -> SUBSET Keys]
  BY DEF Updated, Given
<1>3. CASE /\ h \in made
           /\ created' = made
           /\ pressed_keys' = Updated(h, k, d)
           /\ down' = Given(h, k, d)
           /\ UNCHANGED <<ephase, proxy_events, broken>>
  <2>1. ~broken => Given(h, k, d) = Updated(h, k, d)
    BY DEF KeysKnown, Given, Updated
  <2>2. \A x \in Ids : Updated(h, k, d)[x] # {} => x \in made
    BY <1>3 DEF KeysKnown, Updated
  <2> QED BY <1>2, <1>3, <2>1, <2>2 DEF KeysKnown, Consumed
<1>4. CASE h \in made /\ EndSession(made, Updated(h, k, d), down, broken \/ ~d)
  <2>1. ASSUME ~(broken \/ ~d), NEW x \in Ids
        PROVE  down[x] \subseteq Updated(h, k, d)[x] /\ (x \notin made => down[x] = {})
    BY <2>1 DEF KeysKnown, Updated
  <2>2. (broken \/ ~d) \in BOOLEAN
    OBVIOUS
  <2> QED BY <1>2, <1>4, <2>1, <2>2, EndSessionKeeps
<1> QED BY <1>1, <1>3, <1>4 DEF ConsumeKey, Toggles

LEMMA InputKeeps ==
  ASSUME IInv, SessionInput, UNCHANGED listenVars, carried' \in SUBSET Ids
  PROVE  IInv'
<1> USE DEF IInv, TypeOK, EmulationTypeOK
<1> DEFINE r == Head(proxy_requests)
           known == handles[r.addr] # None
           h == IF known THEN handles[r.addr] ELSE next_id
           made == IF known THEN created ELSE created \cup {h}
<1>1. Take("Input") /\ ephase = "session"
  BY DEF SessionInput
<1>2. /\ proxy_requests' \in Seq(ProxyRequests)
      /\ emulation_active' = emulation_active /\ exit_requested' = exit_requested
      /\ ExitKnown'
      /\ r.addr \in Addrs /\ r.event \in Inputs
  BY <1>1, TakeKeeps
<1>3. uncreated' = uncreated /\ key_remap' = key_remap /\ uncreated = {}
  BY <1>1 DEF SessionInput, HandlesMade
<1>4. CASE h \notin Ids
  <2>1. UNCHANGED <<proxy_events, ephase, handles, next_id, engine, inputVars>>
    BY <1>4 DEF SessionInput
  <2>2. HandlesMade' /\ HandlesDistinct' /\ KeysKnown'
    BY <1>2, <1>3, <2>1 DEF HandlesMade, HandlesDistinct, KeysKnown, InUse
  <2> QED BY <1>2, <1>3, <2>1, <2>2
<1>5. CASE h \in Ids
  <2>1. /\ handles' = [handles EXCEPT ![r.addr] = h]
        /\ next_id' = IF known THEN next_id ELSE next_id + 1
        /\ \/ r.event = OtherInput /\ ConsumeOther(made) /\ UNCHANGED engine
           \/ /\ r.event # OtherInput
              /\ engine' = RemapKey(engine, r.event.key, r.event.down).engine
              /\ ConsumeKey(made, h, RemapKey(engine, r.event.key, r.event.down).key,
                            r.event.down)
    BY <1>5 DEF SessionInput
  <2>2. next_id \in Nat /\ Ids = 0 .. MaxIds - 1 /\ MaxIds \in Nat /\ None \notin Ids /\ h # None
    BY <1>5, EmulationAssumption DEF Ids
  <2>3. next_id' \in 0 .. MaxIds
    BY <1>5, <2>1, <2>2
  <2>4. handles' \in [Addrs -> Ids \cup {None}]
    BY <1>2, <1>5, <2>1
  <2>5. /\ known => h \in InUse /\ InUse' = InUse
        /\ ~known => InUse' = InUse \cup {h} /\ h \notin InUse
    <3>1. known => h \in InUse
      BY <1>2, <1>5, <2>2 DEF InUse
    <3>2. known => handles' = handles
      BY <1>2, <2>1
    <3>3. known => InUse' = InUse
      BY <3>2 DEF InUse
    <3>4. ~known => h \notin InUse
      BY <2>2 DEF HandlesDistinct
    <3>5. ASSUME ~known PROVE InUse' = InUse \cup {h}
      <4>1. \A a \in Addrs : handles'[a] = IF a = r.addr THEN h ELSE handles[a]
        BY <1>2, <2>1
      <4>2. handles[r.addr] = None
        BY <3>5
      <4>3. h \in InUse'
        BY <1>2, <2>2, <4>1 DEF InUse
      <4>4. ASSUME NEW x \in InUse PROVE x \in InUse'
        <5>1. PICK a \in Addrs : x = handles[a] /\ x # None
          BY <4>4 DEF InUse
        <5>2. x = handles'[a]
          BY <5>1, <4>1, <4>2
        <5> QED BY <5>1, <5>2 DEF InUse
      <4>5. ASSUME NEW x \in InUse' PROVE x \in InUse \cup {h}
        <5>1. PICK a \in Addrs : x = handles'[a] /\ x # None
          BY <4>5 DEF InUse
        <5> QED BY <5>1, <4>1 DEF InUse
      <4> QED BY <4>3, <4>4, <4>5
    <3> QED BY <3>1, <3>3, <3>4, <3>5
  <2>6. made \in SUBSET Ids /\ created \subseteq made
    BY <1>5
  <2>7. Consumed(made)
    <3> HIDE DEF made
    <3>1. CASE ConsumeOther(made)
      BY <1>1, <2>6, <3>1, ConsumeOtherKeeps
    <3>2. ASSUME r.event # OtherInput,
                 ConsumeKey(made, h, RemapKey(engine, r.event.key, r.event.down).key,
                            r.event.down)
          PROVE  Consumed(made)
      <4>1. r.event.key \in Keys /\ r.event.down \in BOOLEAN
        BY <1>2, <3>2, InputFields
      <4>2. RemapKey(engine, r.event.key, r.event.down).key \in Keys
        BY <4>1, RemapType
      <4> QED BY <1>1, <1>5, <2>6, <3>2, <4>1, <4>2, ConsumeKeyKeeps
    <3> QED BY <2>1, <3>1, <3>2
  <2>8. engine' \in Engines
    <3>1. r.event # OtherInput => r.event.key \in Keys /\ r.event.down \in BOOLEAN
      BY <1>2, InputFields
    <3> QED BY <2>1, <3>1, RemapType
  <2>9. TypeOK'
    BY <1>2, <1>3, <2>3, <2>4, <2>7, <2>8 DEF Consumed, EPhases
  <2>10. HandlesDistinct'
    <3>1. ASSUME NEW x \in InUse' PROVE x < next_id'
      <4>1. InUse \subseteq Ids /\ \A y \in InUse : y < next_id
        BY DEF InUse, HandlesDistinct
      <4>2. CASE known
        BY <2>1, <2>5, <4>1, <4>2
      <4>3. CASE ~known
        <5>1. x = next_id \/ x \in InUse
          BY <2>5, <4>3
        <5>2. next_id' = next_id + 1
          BY <2>1, <4>3
        <5>3. next_id \in Int /\ Ids \subseteq Int
          BY ONLY <2>2
        <5>4. x \in InUse => x \in Int /\ x < next_id
          BY ONLY <4>1, <5>3
        <5> QED BY ONLY <5>1, <5>2, <5>3, <5>4
      <4> QED BY <4>2, <4>3
    <3>2. ASSUME NEW a \in Addrs, NEW b \in Addrs, handles'[a] = handles'[b], handles'[a] # None
          PROVE  a = b
      <4>1. \A x \in Addrs : handles'[x] = IF x = r.addr THEN h ELSE handles[x]
        BY <1>2, <2>1
      <4>2. \A x \in Addrs : x # r.addr => handles[x] # h
        BY <1>2, <2>2, <2>5 DEF HandlesDistinct, InUse
      <4> QED BY <3>2, <4>1, <4>2 DEF HandlesDistinct
    <3> QED BY <3>1, <3>2 DEF HandlesDistinct
  <2>11. HandlesMade'
    <3>1. created \subseteq InUse /\ (~exit_requested => created = InUse)
      BY <1>1 DEF HandlesMade
    <3>2. made \subseteq InUse' /\ (~exit_requested => made = InUse')
      BY <2>5, <3>1
    <3> QED BY <1>2, <1>3, <2>7, <3>2 DEF HandlesMade, Consumed
  <2> QED BY <1>2, <2>7, <2>9, <2>10, <2>11 DEF Consumed
<1> QED BY <1>4, <1>5

LEMMA RemoveKeeps ==
  ASSUME IInv, SessionRemove, UNCHANGED listenVars, carried' \in SUBSET Ids
  PROVE  IInv'
<1> USE DEF IInv, TypeOK, EmulationTypeOK
<1> DEFINE a == Head(proxy_requests).addr
           h == handles[a]
<1>1. Take("Remove") /\ ephase = "session"
  BY DEF SessionRemove
<1>2. /\ proxy_requests' \in Seq(ProxyRequests)
      /\ emulation_active' = emulation_active /\ exit_requested' = exit_requested
      /\ ExitKnown'
      /\ a \in Addrs
  BY <1>1, TakeKeeps
<1>3. UNCHANGED <<proxy_events, ephase, uncreated, next_id, key_remap>> /\ uncreated = {}
  BY <1>1 DEF SessionRemove, HandlesMade
<1>4. CASE h = None
  <2>1. UNCHANGED <<handles, engine, inputVars>>
    BY <1>4 DEF SessionRemove
  <2>2. HandlesMade' /\ HandlesDistinct' /\ KeysKnown'
    BY <1>2, <1>3, <2>1 DEF HandlesMade, HandlesDistinct, KeysKnown, InUse
  <2> QED BY <1>2, <1>3, <2>1, <2>2
<1>5. CASE h # None
  <2>1. /\ handles' = [handles EXCEPT ![a] = None]
        /\ engine' = Reset(engine)
        /\ ReleaseKeys({h} \cap created, pressed_keys, down, broken)
        /\ created' = created \ {h}
        /\ pressed_keys' = [pressed_keys EXCEPT ![h] = {}]
    BY <1>5 DEF SessionRemove
  <2>2. h \in Ids
    BY <1>2, <1>5
  <2>3. \A x \in Addrs : handles'[x] = IF x = a THEN None ELSE handles[x]
    BY <1>2, <2>1
  <2>4. InUse' = InUse \ {h}
    <3>1. ASSUME NEW x \in InUse' PROVE x \in InUse \ {h}
      <4>1. PICK b \in Addrs : x = handles'[b] /\ x # None
        BY <3>1 DEF InUse
      <4>2. b # a /\ x = handles[b]
        BY <2>3, <4>1
      <4>3. x # h
        BY <1>2, <4>1, <4>2 DEF HandlesDistinct
      <4> QED BY <4>1, <4>2, <4>3 DEF InUse
    <3>2. ASSUME NEW x \in InUse \ {h} PROVE x \in InUse'
      <4>1. PICK b \in Addrs : x = handles[b] /\ x # None
        BY <3>2 DEF InUse
      <4>2. b # a
        BY <3>2, <4>1
      <4> QED BY <2>3, <4>1, <4>2 DEF InUse
    <3> QED BY <3>1, <3>2
  <2>5. /\ down' \in [Ids -> SUBSET Keys]
        /\ broken' \in BOOLEAN
        /\ ~broken' => ~broken
        /\ ~broken' => \A x \in Ids :
             down'[x] = IF x \in {h} \cap created THEN down[x] \ pressed_keys[x] ELSE down[x]
    <3> DEFINE H == {h} \cap created
    <3>1. /\ H \in SUBSET Ids
          /\ pressed_keys \in [Ids -> SUBSET Keys] /\ down \in [Ids -> SUBSET Keys]
          /\ broken \in BOOLEAN
          /\ ReleaseKeys(H, pressed_keys, down, broken)
      BY <2>1
    <3> HIDE DEF H
    <3>2. /\ down' \in [Ids -> SUBSET Keys]
          /\ broken' \in BOOLEAN
          /\ ~broken' => ~broken
          /\ ~broken' => \A x \in Ids :
               down'[x] = IF x \in H THEN down[x] \ pressed_keys[x] ELSE down[x]
      <4>1. PICK left \in [H -> SUBSET Keys] :
              /\ \A x \in H : left[x] \subseteq pressed_keys[x]
              /\ down' = [x \in Ids |-> IF x \in H THEN down[x] \ (pressed_keys[x] \ left[x])
                                        ELSE down[x]]
              /\ broken' = (broken \/ \E x \in H : left[x] # {})
        BY <3>1 DEF ReleaseKeys
      <4>2. broken' \in BOOLEAN /\ (~broken' => ~broken /\ \A x \in H : left[x] = {})
        BY <4>1
      <4>3. down' \in [Ids -> SUBSET Keys]
        BY <3>1, <4>1
      <4> QED BY <4>1, <4>2, <4>3
    <3> QED BY <3>2 DEF H
  <2>6. TypeOK'
    BY <1>2, <1>3, <2>1, <2>2, <2>5, ResetType
  <2>7. HandlesDistinct'
    BY <1>3, <2>3, <2>4 DEF HandlesDistinct
  <2>8. HandlesMade'
    BY <1>1, <1>2, <1>3, <2>1, <2>4 DEF HandlesMade
  <2>9. KeysKnown'
    <3>1. \A x \in Ids : pressed_keys'[x] = IF x = h THEN {} ELSE pressed_keys[x]
      BY <2>1
    <3>2. \A x \in Ids : pressed_keys'[x] # {} => ephase' = "session" /\ x \in created'
      BY <1>1, <1>3, <2>1, <3>1 DEF KeysKnown
    <3>3. ASSUME ~broken' PROVE down' = pressed_keys'
      <4>1. ASSUME NEW x \in Ids PROVE down'[x] = pressed_keys'[x]
        <5>1. down[x] = pressed_keys[x] /\ (x \notin created => pressed_keys[x] = {})
          BY <2>5, <3>3 DEF KeysKnown
        <5>2. down'[x] = IF x \in {h} \cap created THEN down[x] \ pressed_keys[x] ELSE down[x]
          BY <2>5, <3>3
        <5> HIDE DEF h
        <5> QED BY <3>1, <5>1, <5>2
      <4>2. down' \in [Ids -> SUBSET Keys] /\ pressed_keys' \in [Ids -> SUBSET Keys]
        BY <2>1, <2>5
      <4> QED BY ONLY <4>1, <4>2
    <3> QED BY <3>2, <3>3 DEF KeysKnown
  <2> QED BY <1>2, <2>6, <2>7, <2>8, <2>9
<1> QED BY <1>4, <1>5

LEMMA UpdateKeeps ==
  ASSUME IInv, SessionUpdate, UNCHANGED listenVars, carried' \in SUBSET Ids
  PROVE  IInv'
<1> USE DEF IInv, TypeOK, EmulationTypeOK
<1>1. Take("UpdateKeyRemap") /\ ephase = "session"
  BY DEF SessionUpdate
<1>2. /\ proxy_requests' \in Seq(ProxyRequests)
      /\ emulation_active' = emulation_active /\ exit_requested' = exit_requested
      /\ ExitKnown'
      /\ Head(proxy_requests).config \in Configs
  BY <1>1, TakeKeeps
<1>3. /\ UNCHANGED <<proxy_events, ephase, uncreated, handles, next_id, created>>
      /\ key_remap' \in Configs /\ engine' \in Engines
  BY <1>2, NewEngineType DEF SessionUpdate
<1>4. /\ pressed_keys' \in [Ids -> SUBSET Keys] /\ down' \in [Ids -> SUBSET Keys]
      /\ broken' \in BOOLEAN
      /\ KeysKnown'
  <2>1. CASE InUse = {}
    BY <1>3, <2>1 DEF SessionUpdate, KeysKnown
  <2>2. CASE InUse # {}
    <3> DEFINE Stuck(x) == IF x \in created THEN Drained(engine) \cap pressed_keys[x] ELSE {}
    <3>0. PICK h \in InUse :
            /\ pressed_keys' = [pressed_keys EXCEPT ![h] = @ \ Stuck(h)]
            /\ \E lost \in SUBSET Stuck(h) :
                 /\ down' = [down EXCEPT ![h] = @ \ (Stuck(h) \ lost)]
                 /\ broken' = (broken \/ lost # {})
      BY <2>2 DEF SessionUpdate
    <3> DEFINE stuck == Stuck(h)
    <3> HIDE DEF stuck
    <3>1. /\ pressed_keys' = [pressed_keys EXCEPT ![h] = @ \ stuck]
          /\ \E lost \in SUBSET stuck :
               /\ down' = [down EXCEPT ![h] = @ \ (stuck \ lost)]
               /\ broken' = (broken \/ lost # {})
      BY <3>0 DEF stuck
    <3>2. PICK lost \in SUBSET stuck :
            /\ down' = [down EXCEPT ![h] = @ \ (stuck \ lost)]
            /\ broken' = (broken \/ lost # {})
      BY <3>1
    <3>3. h \in Ids
      BY DEF InUse
    <3>4. /\ pressed_keys' \in [Ids -> SUBSET Keys] /\ down' \in [Ids -> SUBSET Keys]
          /\ broken' \in BOOLEAN
      BY <3>1, <3>2, <3>3
    <3>5. \A x \in Ids : pressed_keys'[x] # {} => pressed_keys[x] # {}
      BY <3>1, <3>3
    <3>6. ASSUME ~broken' PROVE down' = pressed_keys'
      <4>1. lost = {} /\ down = pressed_keys
        BY <3>2, <3>6 DEF KeysKnown
      <4> QED BY <3>1, <3>2, <4>1
    <3> QED BY <1>3, <3>4, <3>5, <3>6 DEF KeysKnown
  <2> QED BY <2>1, <2>2
<1>5. HandlesMade' /\ HandlesDistinct'
  BY <1>2, <1>3 DEF HandlesMade, HandlesDistinct, InUse
<1> QED BY <1>2, <1>3, <1>4, <1>5

LEMMA TerminateKeeps ==
  ASSUME IInv, SessionTerminate, UNCHANGED listenVars, carried' \in SUBSET Ids
  PROVE  IInv'
<1> USE DEF IInv, TypeOK, EmulationTypeOK
<1>1. Take("Terminate") /\ ephase = "session"
  BY DEF SessionTerminate
<1>2. /\ proxy_requests' \in Seq(ProxyRequests)
      /\ emulation_active' = emulation_active /\ exit_requested' = exit_requested
      /\ ExitKnown'
  BY <1>1, TakeKeeps
<1>3. Consumed(created)
  <2>1. ConsumeOther(created)
    BY DEF SessionTerminate, ConsumeOther
  <2>2. created \in SUBSET Ids /\ created \subseteq created
    OBVIOUS
  <2> QED BY <1>1, <2>1, <2>2, ConsumeOtherKeeps
<1>4. UNCHANGED <<uncreated, handles, next_id, key_remap, engine>>
  BY DEF SessionTerminate
<1>5. TypeOK'
  BY <1>2, <1>3, <1>4 DEF Consumed, EPhases
<1>6. HandlesDistinct'
  BY <1>4 DEF HandlesDistinct, InUse
<1>7. HandlesMade'
  BY <1>1, <1>2, <1>3, <1>4 DEF HandlesMade, Consumed, InUse
<1> QED BY <1>2, <1>3, <1>5, <1>6, <1>7 DEF Consumed

------------------------------------------------------------------------------
LEMMA InitHolds == Init => IInv
<1> SUFFICES ASSUME Init PROVE IInv
  OBVIOUS
<1> USE DEF Init, EmulationInit
<1>1. engine \in Engines
  BY NewEngineType
<1>2. 0 \in 0 .. MaxIds /\ 0 \in 0 .. MaxUpdates
  BY EmulationAssumption, ListenAssumption
<1>3. TypeOK
  <2>1. <<>> \in Seq(ProxyRequests) /\ <<>> \in Seq({"Enabled", "Disabled"})
    OBVIOUS
  <2>2. EmulationTypeOK
    BY <1>1, <1>2, <2>1 DEF EmulationTypeOK, EPhases
  <2> QED BY <1>2, <2>2 DEF TypeOK
<1>4. InUse = {}
  BY DEF InUse
<1>5. ExitKnown /\ HandlesMade /\ HandlesDistinct /\ KeysKnown
  BY <1>4 DEF ExitKnown, HandlesMade, HandlesDistinct, KeysKnown
<1> QED BY <1>3, <1>5 DEF IInv

\* A step of the listening side leaves the handles and keys as they are.
LEMMA ListenStepKeeps ==
  ASSUME IInv, ListenNext, carried' = carried
  PROVE  IInv'
<1>1. ListenFrame
  BY ListenKeeps DEF IInv
<1>2. TypeOK' /\ ExitKnown'
  BY <1>1 DEF ListenFrame
<1>3. HandlesMade' /\ HandlesDistinct' /\ KeysKnown'
  <2>1. exit_requested \in BOOLEAN /\ exit_requested' \in BOOLEAN
    BY <1>2 DEF IInv, TypeOK, EmulationTypeOK
  <2> QED BY <1>1, <2>1 DEF ListenFrame, IInv, HandlesMade, HandlesDistinct, KeysKnown, InUse
<1> QED BY <1>2, <1>3 DEF IInv

LEMMA StepKeeps == IInv /\ [Next]_vars => IInv'
<1> SUFFICES ASSUME IInv, [Next]_vars PROVE IInv'
  OBVIOUS
<1>1. CASE ListenNext /\ UNCHANGED carried
  BY <1>1, ListenStepKeeps
<1>2. CASE Task
  <2>1. carried' \in SUBSET Ids
    BY <1>2 DEF Task, Carry
  <2> QED BY <1>2, <2>1, BetweenSessions, InputKeeps, RemoveKeeps, UpdateKeeps, TerminateKeeps
     DEF Task, EmulationTaskNext
<1>3. CASE UNCHANGED vars
  BY <1>3 DEF IInv, TypeOK, EmulationTypeOK, ExitKnown, HandlesMade, HandlesDistinct,
              KeysKnown, InUse
<1> QED BY <1>1, <1>2, <1>3 DEF Next

LEMMA InvariantHolds == Spec => []IInv
BY InitHolds, StepKeeps, PTL DEF Spec

\* Every variable of the receiving half keeps its type, whatever messages come in
\* and however the backend fails.
THEOREM EmulationTypeCorrect == Spec => []TypeOK
<1>1. IInv => TypeOK
  BY DEF IInv
<1> QED BY <1>1, InvariantHolds, PTL

\* In a session that is not to be ended the backend has exactly the handles that
\* EmulationTask.handles maps addresses to, each address its own.
THEOREM HandlesCorrect == Spec => []HandlesAgree
<1>1. IInv => HandlesAgree
  BY DEF IInv, HandlesMade, HandlesDistinct, HandlesAgree
<1> QED BY <1>1, InvariantHolds, PTL

\* As long as the backend does what it is asked, nothing is down outside a session,
\* nor for a handle that was destroyed, and InputEmulation knows all that is down.
THEOREM NoKeyStuck == Spec => []NoStuckKeys
<1>1. IInv => NoStuckKeys
  BY DEF IInv, HandlesMade, KeysKnown, NoStuckKeys
<1> QED BY <1>1, InvariantHolds, PTL
------------------------------------------------------------------------------
\* What the proxy takes the emulation for once it has seen every report.
LastReport ==
  IF proxy_events # <<>> THEN proxy_events[Len(proxy_events)]
  ELSE IF emulation_active THEN "Enabled" ELSE "Disabled"

\* The same as EmulationStatusAgrees, when nobody listens any more, too.
StatusKnown == LastReport = "Enabled" <=> ephase \in {"create", "session"}

LEMMA ReportAppended ==
  ASSUME TypeOK, NEW e \in {"Enabled", "Disabled"}, proxy_events' = Append(proxy_events, e)
  PROVE  LastReport' = e
<1>1. proxy_events \in Seq({"Enabled", "Disabled"})
  BY DEF TypeOK, EmulationTypeOK
<1>2. /\ proxy_events' # <<>>
      /\ proxy_events'[Len(proxy_events')] = e
  BY <1>1
<1> QED BY <1>2 DEF LastReport

\* The proxy reads the oldest report: what it will have read in the end is the same.
LEMMA ReportRead ==
  ASSUME TypeOK, ProxyEvent
  PROVE  LastReport' = LastReport
<1> DEFINE q == proxy_events
<1>1. q \in Seq({"Enabled", "Disabled"}) /\ q # <<>> /\ q' = Tail(q)
  BY DEF TypeOK, EmulationTypeOK, ProxyEvent
<1>2. emulation_active' = (Head(q) = "Enabled")
  BY DEF ProxyEvent
<1>3. CASE Len(q) = 1
  <2>1. q' = <<>> /\ Head(q) = q[Len(q)] /\ Head(q) \in {"Enabled", "Disabled"}
    BY <1>1, <1>3
  <2>2. LastReport' = IF emulation_active' THEN "Enabled" ELSE "Disabled"
    BY <2>1 DEF LastReport
  <2> QED BY <1>1, <1>2, <2>1, <2>2 DEF LastReport
<1>4. CASE Len(q) # 1
  <2> DEFINE t == Tail(q)
  <2>1. Len(q) \in Nat /\ Len(q) > 1
    <3>1. Len(q) \in Nat /\ Len(q) # 0
      BY <1>1, EmptySeq
    <3> QED BY ONLY <1>4, <3>1
  <2>2. /\ Len(t) = Len(q) - 1
        /\ \A i \in 1 .. Len(q) - 1 : t[i] = q[i + 1]
    BY <1>1, <2>1, HeadTailProperties
  <2> HIDE DEF t
  <2>3. t # <<>> /\ t[Len(t)] = q[Len(q)]
    BY <2>1, <2>2
  <2>4. q' = t
    BY <1>1 DEF t
  <2> QED BY <1>1, <2>3, <2>4 DEF LastReport
<1> QED BY <1>3, <1>4

\* The task reports every change of where it is, and nothing else.
LEMMA TaskReports ==
  ASSUME TypeOK, EmulationTaskNext
  PROVE  \/ /\ UNCHANGED <<proxy_events, emulation_active>>
            /\ ephase' \in {"create", "session"} <=> ephase \in {"create", "session"}
         \/ proxy_events' = Append(proxy_events, "Enabled") /\ ephase' = "create"
         \/ /\ proxy_events' = Append(proxy_events, "Disabled")
            /\ ephase' \in {"idle", "stopped"}
<1> DEFINE Same == /\ UNCHANGED <<proxy_events, emulation_active>>
                   /\ ephase' \in {"create", "session"} <=> ephase \in {"create", "session"}
           Ended == /\ proxy_events' = Append(proxy_events, "Disabled")
                    /\ ephase' \in {"idle", "stopped"}
<1>1. ASSUME NEW made, NEW pressed, NEW given, NEW failed,
             EndSession(made, pressed, given, failed)
      PROVE  Ended
  BY <1>1 DEF EndSession, Returned
<1>2. CASE NewEmulation
  BY <1>2 DEF NewEmulation, Returned
<1>3. CASE CreateClients
  BY <1>3 DEF CreateClients
<1>4. CASE WaitForTermination
  BY <1>4 DEF WaitForTermination, Take, Returned
<1>5. CASE IdleRequest
  BY <1>5 DEF IdleRequest, Take
<1>6. CASE SessionInput
  <2>1. emulation_active' = emulation_active /\ ephase = "session"
    BY <1>6 DEF SessionInput, Take
  <2>2. ASSUME NEW made, ConsumeOther(made) PROVE Same \/ Ended
    BY <1>1, <2>1, <2>2 DEF ConsumeOther
  <2>3. ASSUME NEW made, NEW h, NEW k, NEW d, ConsumeKey(made, h, k, d) PROVE Same \/ Ended
    BY <1>1, <2>1, <2>3 DEF ConsumeKey
  <2> QED BY <1>6, <2>1, <2>2, <2>3 DEF SessionInput
<1>7. CASE SessionRemove \/ SessionUpdate \/ SessionReenable
  BY <1>7 DEF SessionRemove, SessionUpdate, SessionReenable, Take
<1>8. CASE SessionTerminate
  BY <1>1, <1>8 DEF SessionTerminate
<1> QED
  BY <1>2, <1>3, <1>4, <1>5, <1>6, <1>7, <1>8 DEF EmulationTaskNext

LEMMA StatusKept == IInv /\ StatusKnown /\ [Next]_vars => StatusKnown'
<1> SUFFICES ASSUME IInv, StatusKnown, [Next]_vars PROVE StatusKnown'
  OBVIOUS
<1>1. TypeOK
  BY DEF IInv
<1>2. CASE UNCHANGED <<proxy_events, emulation_active, ephase>>
  BY <1>2 DEF StatusKnown, LastReport
<1>3. CASE ListenNext
  <2>1. CASE Report
    <3>1. LastReport' = LastReport /\ ephase' = ephase
      BY <1>1, <2>1, ReportRead DEF Report, ProxyEvent
    <3> QED BY <3>1 DEF StatusKnown
  <2>2. CASE ~Report
    <3>1. UNCHANGED <<proxy_events, emulation_active, ephase>>
      BY <1>3, <2>2 DEF ListenNext, HearEnter, HearLeave, HearOther, HearPing, HearKey,
                        FallSilent, Tick, RequestReenable, RequestTerminate, RequestUpdate,
                        Heard, ProxyTerminate
    <3> QED BY <1>2, <3>1
  <2> QED BY <2>1, <2>2
<1>4. CASE Task
  BY <1>1, <1>4, TaskReports, ReportAppended, "Enabled" # "Disabled" DEF Task, StatusKnown, LastReport
<1>5. CASE UNCHANGED vars
  BY <1>2, <1>5
<1> QED BY <1>3, <1>4, <1>5 DEF Next

LEMMA StatusInit == Init => StatusKnown
BY DEF Init, EmulationInit, StatusKnown, LastReport

\* As long as somebody listens, EmulationProxy will hold the emulation for active, once
\* it has read the reports it was sent, exactly when there is a session or one in the making.
THEOREM StatusCorrect == Spec => []EmulationStatusAgrees
<1>1. StatusKnown => EmulationStatusAgrees
  BY DEF StatusKnown, LastReport, EmulationStatusAgrees
<1> QED BY <1>1, StatusInit, StatusKept, InvariantHolds, PTL DEF Spec
------------------------------------------------------------------------------
\* Where in the channel the input and the removals of an address are, and whether
\* keys are down for it.
InputsOf(a) ==
  {i \in DOMAIN proxy_requests : proxy_requests[i].op = "Input" /\ proxy_requests[i].addr = a}
RemovesOf(a) == {i \in DOMAIN proxy_requests : proxy_requests[i] = RemoveRequest(a)}
KeysHeldFor(a) == handles[a] # None /\ pressed_keys[handles[a]] # {}
RemovedBehind(a) == \E r \in RemovesOf(a) : \A i \in InputsOf(a) : i < r

\* The same as InputWatched, when nobody listens any more, too.
Watched ==
  /\ registered \subseteq last_response
  /\ \A a \in Addrs :
       (InputsOf(a) # {} \/ KeysHeldFor(a)) /\ a \notin last_response => RemovedBehind(a)

\* One request is put into the channel: what is behind the input of an address stays
\* there, unless this is more of its input.
LEMMA AppendBehind ==
  ASSUME TypeOK, NEW r \in ProxyRequests, proxy_requests' = Append(proxy_requests, r),
         NEW a \in Addrs, ~(r.op = "Input" /\ r.addr = a)
  PROVE  /\ InputsOf(a)' = InputsOf(a)
         /\ RemovedBehind(a) => RemovedBehind(a)'
<1> DEFINE n == Len(proxy_requests)
<1>1. /\ proxy_requests' \in Seq(ProxyRequests)
      /\ n \in Nat
      /\ DOMAIN proxy_requests' = 1 .. n + 1 /\ DOMAIN proxy_requests = 1 .. n
      /\ \A i \in 1 .. n : proxy_requests'[i] = proxy_requests[i]
      /\ proxy_requests'[n + 1] = r
  BY DEF TypeOK, EmulationTypeOK
<1> HIDE DEF n
<1>2. InputsOf(a)' = InputsOf(a)
  <2>1. ASSUME NEW i \in InputsOf(a)' PROVE i \in InputsOf(a)
    <3>1. i \in 1 .. n \/ i = n + 1
      BY <1>1 DEF InputsOf
    <3> QED BY <1>1, <3>1 DEF InputsOf
  <2>2. ASSUME NEW i \in InputsOf(a) PROVE i \in InputsOf(a)'
    BY <1>1 DEF InputsOf
  <2> QED BY <2>1, <2>2
<1>3. RemovesOf(a) \subseteq RemovesOf(a)'
  BY <1>1 DEF RemovesOf, RemoveRequest
<1> QED BY <1>2, <1>3 DEF RemovedBehind

\* One request is taken out.
LEMMA TakeShifts ==
  ASSUME TypeOK, NEW op, Take(op)
  PROVE  /\ DOMAIN proxy_requests \subseteq Nat
         /\ 1 \in DOMAIN proxy_requests /\ proxy_requests[1] = Head(proxy_requests)
         /\ \A i \in DOMAIN proxy_requests' : /\ i + 1 \in DOMAIN proxy_requests
                                              /\ i \in Nat \ {0}
                                              /\ proxy_requests'[i] = proxy_requests[i + 1]
         /\ \A i \in DOMAIN proxy_requests : /\ i >= 1
                                             /\ i # 1 => /\ i - 1 \in DOMAIN proxy_requests'
                                                         /\ proxy_requests'[i - 1] = proxy_requests[i]
<1>1. proxy_requests \in Seq(ProxyRequests) /\ proxy_requests # <<>>
  BY DEF TypeOK, EmulationTypeOK, Take
<1>2. /\ proxy_requests' = Tail(proxy_requests)
      /\ proxy_requests' \in Seq(ProxyRequests)
      /\ Len(proxy_requests') = Len(proxy_requests) - 1
      /\ \A i \in 1 .. Len(proxy_requests') : proxy_requests'[i] = proxy_requests[i + 1]
  BY <1>1 DEF Take
<1>3. Len(proxy_requests) \in Nat \ {0} /\ Head(proxy_requests) = proxy_requests[1]
  BY <1>1, EmptySeq
<1>4. /\ DOMAIN proxy_requests' = 1 .. Len(proxy_requests) - 1
      /\ DOMAIN proxy_requests = 1 .. Len(proxy_requests)
  BY <1>1, <1>2
<1> QED BY <1>2, <1>3, <1>4

LEMMA TakeBehind ==
  ASSUME TypeOK, NEW op, Take(op), NEW a \in Addrs
  PROVE  /\ InputsOf(a)' # {} => InputsOf(a) # {}
         /\ Head(proxy_requests).op = "Input" /\ Head(proxy_requests).addr = a
              => InputsOf(a) # {}
         /\ RemovedBehind(a) /\ (InputsOf(a)' # {} \/ Head(proxy_requests) # RemoveRequest(a))
              => RemovedBehind(a)'
<1>1. /\ DOMAIN proxy_requests \subseteq Nat
      /\ 1 \in DOMAIN proxy_requests /\ proxy_requests[1] = Head(proxy_requests)
      /\ \A i \in DOMAIN proxy_requests' : /\ i + 1 \in DOMAIN proxy_requests
                                           /\ i \in Nat \ {0}
                                           /\ proxy_requests'[i] = proxy_requests[i + 1]
      /\ \A i \in DOMAIN proxy_requests : /\ i >= 1
                                          /\ i # 1 => /\ i - 1 \in DOMAIN proxy_requests'
                                                      /\ proxy_requests'[i - 1] = proxy_requests[i]
  BY TakeShifts
<1>2. \A i \in InputsOf(a)' : i + 1 \in InputsOf(a) /\ i \in Nat \ {0}
  BY <1>1 DEF InputsOf
<1>3. ASSUME RemovedBehind(a), InputsOf(a)' # {} \/ Head(proxy_requests) # RemoveRequest(a)
      PROVE  RemovedBehind(a)'
  <2>1. PICK r \in RemovesOf(a) : \A i \in InputsOf(a) : i < r
    BY <1>3 DEF RemovedBehind
  <2>2. r \in DOMAIN proxy_requests /\ proxy_requests[r] = RemoveRequest(a) /\ r \in Nat
    BY <1>1, <2>1 DEF RemovesOf
  <2>3. r # 1
    <3>1. CASE InputsOf(a)' # {}
      <4>1. PICK i \in InputsOf(a)' : TRUE
        BY <3>1
      <4>2. i + 1 < r /\ i \in Nat \ {0}
        BY <1>2, <2>1, <4>1
      <4> QED BY <4>2
    <3>2. CASE Head(proxy_requests) # RemoveRequest(a)
      BY <1>1, <2>2, <3>2
    <3> QED BY <1>3, <3>1, <3>2
  <2>4. r - 1 \in RemovesOf(a)'
    BY <1>1, <2>2, <2>3 DEF RemovesOf, RemoveRequest
  <2>5. \A i \in InputsOf(a)' : i < r - 1
    <3> TAKE i \in InputsOf(a)'
    <3>1. i + 1 < r /\ i \in Nat
      BY <1>2, <2>1
    <3> QED BY <2>2, <3>1
  <2> QED BY <2>4, <2>5 DEF RemovedBehind
<1>4. Head(proxy_requests).op = "Input" /\ Head(proxy_requests).addr = a => 1 \in InputsOf(a)
  BY <1>1 DEF InputsOf
<1>5. InputsOf(a)' # {} => InputsOf(a) # {}
  BY <1>2
<1> QED BY <1>3, <1>4, <1>5

\* A list of all elements of a finite set has each of them.
LEMMA ListHasAll ==
  ASSUME NEW S, IsFiniteSet(S), NEW order \in SetToSeqs(S), NEW a \in S
  PROVE  \E i \in DOMAIN order : order[i] = a
<1> DEFINE n == Cardinality(S)
<1>1. n \in Nat
  BY FS_CardinalityType
<1>2. /\ order \in [1 .. n -> S]
      /\ \A i, j \in 1 .. n : i # j => order[i] # order[j]
  BY DEF SetToSeqs
<1>3. order \in Injection(1 .. n, S)
  <2>1. DOMAIN order = 1 .. n
    BY <1>2
  <2>2. IsInjective(order)
    BY <1>2, <2>1, Zenon DEF IsInjective
  <2> QED BY <1>2, <2>2 DEF Injection
<1>4. IsFiniteSet(1 .. n) /\ Cardinality(1 .. n) = n
  BY <1>1, FS_Interval
<1>5. order \in Surjection(1 .. n, S)
  BY <1>3, <1>4, FS_Injection
<1> QED BY <1>2, <1>5 DEF Surjection

\* What the timer puts into the channel, behind everything there is.
LEMMA TickAppends ==
  ASSUME TypeOK, NEW S \in SUBSET last_response, Tick(S)
  PROVE  \E l, n \in Nat : \E order \in [1 .. n -> S] :
           /\ DOMAIN proxy_requests = 1 .. l /\ DOMAIN proxy_requests' = 1 .. l + n
           /\ \A i \in 1 .. l : proxy_requests'[i] = proxy_requests[i]
           /\ \A i \in 1 .. n : /\ l + i \in 1 .. l + n
                                /\ proxy_requests'[l + i] = RemoveRequest(order[i])
           /\ \A i \in 1 .. l + n : i \in 1 .. l \/ \E j \in 1 .. n : i = l + j
           /\ \A a \in S : \E i \in 1 .. n : order[i] = a
<1>1. proxy_requests \in Seq(ProxyRequests) /\ S \subseteq Addrs
  BY DEF TypeOK, EmulationTypeOK
<1>2. PICK order \in SetToSeqs(S) :
        proxy_requests' = proxy_requests \o [i \in DOMAIN order |-> RemoveRequest(order[i])]
  BY DEF Tick
<1> DEFINE n == Cardinality(S)
           l == Len(proxy_requests)
           removes == [i \in DOMAIN order |-> RemoveRequest(order[i])]
<1>3. IsFiniteSet(S) /\ n \in Nat
  BY <1>1, EmulationAssumption, FS_Subset, FS_CardinalityType
<1>4. order \in [1 .. n -> S]
  BY <1>2 DEF SetToSeqs
<1>5. \A a \in S : \E i \in 1 .. n : order[i] = a
  BY <1>2, <1>3, <1>4, ListHasAll
<1> HIDE DEF n
<1>6. /\ removes \in [1 .. n -> ProxyRequests]
      /\ \A i \in 1 .. n : removes[i] = RemoveRequest(order[i])
  BY <1>1, <1>4, RequestsAreRequests
<1> HIDE DEF removes
<1>7. removes \in Seq(ProxyRequests) /\ Len(removes) = n
  BY <1>3, <1>6, SeqDef, LenProperties
<1>8. proxy_requests' = proxy_requests \o removes
  BY <1>2 DEF removes
<1>9. /\ DOMAIN proxy_requests' = 1 .. l + n /\ DOMAIN proxy_requests = 1 .. l
      /\ l \in Nat
      /\ \A i \in 1 .. l : proxy_requests'[i] = proxy_requests[i]
      /\ \A i \in 1 .. n : proxy_requests'[l + i] = removes[i]
      /\ \A i \in 1 .. l + n : i \in 1 .. l \/ \E j \in 1 .. n : i = l + j
  <2> DEFINE all == proxy_requests \o removes
  <2>1. /\ all \in Seq(ProxyRequests)
        /\ Len(all) = Len(proxy_requests) + Len(removes)
        /\ \A i \in 1 .. Len(proxy_requests) + Len(removes) :
             all[i] = IF i <= Len(proxy_requests) THEN proxy_requests[i]
                      ELSE removes[i - Len(proxy_requests)]
    BY <1>1, <1>7, ConcatProperties
  <2>2. proxy_requests' = all
    BY <1>8
  <2>3. l \in Nat /\ DOMAIN proxy_requests = 1 .. l /\ DOMAIN all = 1 .. l + n
    BY <1>1, <1>7, <2>1
  <2> HIDE DEF all, l
  <2>4. /\ \A i \in 1 .. l + n : all[i] = IF i <= l THEN proxy_requests[i] ELSE removes[i - l]
    BY <1>7, <2>1 DEF l
  <2>5. \A i \in 1 .. l : all[i] = proxy_requests[i]
    BY <1>3, <2>3, <2>4
  <2>6. \A i \in 1 .. n : all[l + i] = removes[i]
    BY <1>3, <2>3, <2>4
  <2>7. \A i \in 1 .. l + n : i \in 1 .. l \/ \E j \in 1 .. n : i = l + j
    <3> TAKE i \in 1 .. l + n
    <3>1. CASE i <= l
      BY <3>1, <2>3
    <3>2. CASE ~(i <= l)
      <4>1. i - l \in 1 .. n /\ i = l + (i - l)
        BY <3>2, <1>3, <2>3
      <4> QED BY <4>1
    <3> QED BY <3>1, <3>2
  <2> QED BY <2>2, <2>3, <2>5, <2>6, <2>7
<1> HIDE DEF l
<1>10. \A i \in 1 .. n : l + i \in 1 .. l + n /\ proxy_requests'[l + i] = RemoveRequest(order[i])
  BY <1>3, <1>6, <1>9
<1> QED BY <1>3, <1>4, <1>5, <1>9, <1>10

LEMMA TickBehind ==
  ASSUME TypeOK, NEW S \in SUBSET last_response, Tick(S), NEW a \in Addrs
  PROVE  /\ InputsOf(a)' = InputsOf(a)
         /\ a \in S \/ RemovedBehind(a) => RemovedBehind(a)'
<1>0. PICK l \in Nat, n \in Nat : \E order \in [1 .. n -> S] :
        /\ DOMAIN proxy_requests = 1 .. l /\ DOMAIN proxy_requests' = 1 .. l + n
        /\ \A i \in 1 .. l : proxy_requests'[i] = proxy_requests[i]
        /\ \A i \in 1 .. n : /\ l + i \in 1 .. l + n
                             /\ proxy_requests'[l + i] = RemoveRequest(order[i])
        /\ \A i \in 1 .. l + n : i \in 1 .. l \/ \E j \in 1 .. n : i = l + j
        /\ \A b \in S : \E i \in 1 .. n : order[i] = b
  BY TickAppends
<1>1. PICK order \in [1 .. n -> S] :
        /\ DOMAIN proxy_requests = 1 .. l /\ DOMAIN proxy_requests' = 1 .. l + n
        /\ \A i \in 1 .. l : proxy_requests'[i] = proxy_requests[i]
        /\ \A i \in 1 .. n : /\ l + i \in 1 .. l + n
                             /\ proxy_requests'[l + i] = RemoveRequest(order[i])
        /\ \A i \in 1 .. l + n : i \in 1 .. l \/ \E j \in 1 .. n : i = l + j
        /\ \A b \in S : \E i \in 1 .. n : order[i] = b
  BY <1>0
<1>2. InputsOf(a)' = InputsOf(a)
  <2>1. ASSUME NEW i \in InputsOf(a)' PROVE i \in InputsOf(a)
    <3>1. i \in 1 .. l + n /\ proxy_requests'[i].op = "Input"
      BY <1>1 DEF InputsOf
    <3>2. i \in 1 .. l
      <4>1. \A r : RemoveRequest(r).op # "Input"
        BY DEF RemoveRequest
      <4> QED BY <1>1, <3>1, <4>1
    <3> QED BY <1>1, <3>2 DEF InputsOf
  <2>2. 1 .. l \subseteq 1 .. l + n
    OBVIOUS
  <2>3. ASSUME NEW i \in InputsOf(a) PROVE i \in InputsOf(a)'
    BY <1>1, <2>2 DEF InputsOf
  <2> QED BY <2>1, <2>3
<1>3. RemovesOf(a) \subseteq RemovesOf(a)'
  <2>1. 1 .. l \subseteq 1 .. l + n
    OBVIOUS
  <2> QED BY <1>1, <2>1 DEF RemovesOf, RemoveRequest
<1>4. ASSUME a \in S PROVE RemovedBehind(a)'
  <2>1. PICK i \in 1 .. n : order[i] = a
    BY <1>1, <1>4
  <2>2. l + i \in RemovesOf(a)'
    BY <1>1, <2>1 DEF RemovesOf, RemoveRequest
  <2>3. \A j \in InputsOf(a) : j < l + i
    BY <1>1 DEF InputsOf
  <2> QED BY <1>2, <2>2, <2>3 DEF RemovedBehind
<1> QED BY <1>2, <1>3, <1>4 DEF RemovedBehind

\* The task takes a request: only input of an address puts keys down for it, and its
\* removal puts them up.
LEMMA TakeKeepsWatched ==
  ASSUME TypeOK, Watched, NEW op, Take(op), UNCHANGED <<last_response, registered>>,
         \A a \in Addrs : KeysHeldFor(a)' =>
           /\ \/ KeysHeldFor(a)
              \/ Head(proxy_requests).op = "Input" /\ Head(proxy_requests).addr = a
           /\ Head(proxy_requests) # RemoveRequest(a)
  PROVE  Watched'
<1>1. ASSUME NEW a \in Addrs, InputsOf(a)' # {} \/ KeysHeldFor(a)', a \notin last_response
      PROVE  RemovedBehind(a)'
  <2>1. InputsOf(a) # {} \/ KeysHeldFor(a)
    BY <1>1, TakeBehind
  <2>2. RemovedBehind(a)
    BY <1>1, <2>1 DEF Watched
  <2> QED BY <1>1, <2>2, TakeBehind
<1>2. (registered \subseteq last_response)'
  BY DEF Watched
<1> QED BY <1>1, <1>2 DEF Watched

\* A step of the task that leaves the channel alone puts no key down.
LEMMA IdleKeepsWatched ==
  ASSUME Watched, UNCHANGED <<proxy_requests, handles, pressed_keys, last_response, registered>>
  PROVE  Watched'
BY DEF Watched, InputsOf, KeysHeldFor, RemovedBehind, RemovesOf

\* The listening side puts a request into the channel, or none.
LEMMA SendKeepsWatched ==
  ASSUME TypeOK, Watched, UNCHANGED <<handles, pressed_keys>>,
         last_response \subseteq last_response', registered' \subseteq last_response',
         \/ UNCHANGED proxy_requests
         \/ \E r \in ProxyRequests :
              /\ proxy_requests' = Append(proxy_requests, r)
              /\ r.op = "Input" => r.addr \in last_response'
  PROVE  Watched'
<1>1. \A a \in Addrs : KeysHeldFor(a)' <=> KeysHeldFor(a)
  BY DEF KeysHeldFor
<1>2. ASSUME NEW a \in Addrs, InputsOf(a)' # {} \/ KeysHeldFor(a), a \notin last_response'
      PROVE  RemovedBehind(a)'
  <2>1. /\ InputsOf(a)' = InputsOf(a)
        /\ RemovedBehind(a) => RemovedBehind(a)'
    <3>1. CASE UNCHANGED proxy_requests
      BY <3>1 DEF InputsOf, RemovedBehind, RemovesOf
    <3>2. CASE ~UNCHANGED proxy_requests
      <4>1. PICK r \in ProxyRequests : /\ proxy_requests' = Append(proxy_requests, r)
                                       /\ r.op = "Input" => r.addr \in last_response'
        BY <3>2
      <4>2. ~(r.op = "Input" /\ r.addr = a)
        BY <1>2, <4>1
      <4> QED BY <4>1, <4>2, AppendBehind
    <3> QED BY <3>1, <3>2
  <2> QED BY <1>2, <2>1 DEF Watched
<1> QED BY <1>1, <1>2 DEF Watched

LEMMA ListenKeepsWatched ==
  ASSUME TypeOK, Watched, ListenNext
  PROVE  Watched'
<1> DEFINE Sent(r) == /\ proxy_requests' = Append(proxy_requests, r)
                      /\ r.op = "Input" => r.addr \in last_response'
           Kept == /\ UNCHANGED <<handles, pressed_keys>>
                   /\ last_response \subseteq last_response'
                   /\ registered' \subseteq last_response'
<1>1. registered \subseteq last_response
  BY DEF Watched
<1>2. ASSUME NEW e \in Inputs, NEW a \in Addrs, Consume(e, a), a \in last_response'
      PROVE  UNCHANGED proxy_requests \/ \E r \in ProxyRequests : Sent(r)
  <2>1. InputRequest(e, a) \in ProxyRequests /\ InputRequest(e, a).addr = a
    BY RequestsAreRequests DEF InputRequest
  <2> QED BY <1>2, <2>1 DEF Consume, Send
<1>3. ASSUME NEW a \in Addrs, HearEnter(a) PROVE Watched'
  <2>1. Kept /\ UNCHANGED proxy_requests
    BY <1>1, <1>3 DEF HearEnter, Heard
  <2> QED BY <2>1, SendKeepsWatched
<1>4. ASSUME NEW a \in Addrs, HearLeave(a) PROVE Watched'
  <2>1. RemoveRequest(a) \in ProxyRequests /\ RemoveRequest(a).op # "Input"
    BY RequestsAreRequests DEF RemoveRequest
  <2>2. Kept /\ Sent(RemoveRequest(a))
    BY <1>1, <1>4, <2>1 DEF HearLeave, Heard, Send
  <2> QED BY <2>1, <2>2, SendKeepsWatched
<1>5. ASSUME NEW a \in Addrs, NEW e \in Inputs, Heard(a), Consume(e, a),
             registered' = registered
      PROVE  Watched'
  <2>1. Kept /\ a \in last_response'
    BY <1>1, <1>5 DEF Heard
  <2> QED BY <1>2, <1>5, <2>1, SendKeepsWatched
<1>6. ASSUME NEW a \in Addrs, HearOther(a) PROVE Watched'
  <2>1. OtherInput \in Inputs
    BY DEF Inputs
  <2> QED BY <1>5, <1>6, <2>1 DEF HearOther
<1>7. ASSUME NEW a \in Addrs, HearPing(a) PROVE Watched'
  <2>1. Kept /\ UNCHANGED proxy_requests
    BY <1>1, <1>7 DEF HearPing, Heard
  <2> QED BY <2>1, SendKeepsWatched
<1>8. ASSUME NEW a \in Addrs, NEW k \in RemoteKeys, NEW d \in BOOLEAN, HearKey(a, k, d)
      PROVE  Watched'
  <2>1. KeyInput(k, d) \in Inputs
    BY ListenAssumption DEF KeyInput, Inputs
  <2> QED BY <1>5, <1>8, <2>1 DEF HearKey
<1>9. ASSUME NEW a \in Addrs, FallSilent(a) PROVE Watched'
  BY <1>9, IdleKeepsWatched DEF FallSilent
<1>10. ASSUME NEW S \in SUBSET last_response, Tick(S) PROVE Watched'
  <2>1. /\ UNCHANGED <<handles, pressed_keys>>
        /\ last_response' = last_response \ S /\ registered' = registered \ S
    BY <1>10 DEF Tick
  <2>2. ASSUME NEW a \in Addrs, InputsOf(a)' # {} \/ KeysHeldFor(a)', a \notin last_response'
        PROVE  RemovedBehind(a)'
    <3>1. KeysHeldFor(a)' => KeysHeldFor(a)
      BY <2>1 DEF KeysHeldFor
    <3>2. /\ InputsOf(a)' = InputsOf(a)
          /\ a \in S \/ RemovedBehind(a) => RemovedBehind(a)'
      BY <1>10, TickBehind
    <3> QED BY <2>1, <2>2, <3>1, <3>2 DEF Watched
  <2> QED BY <1>1, <2>1, <2>2 DEF Watched
<1>11. CASE RequestReenable
  <2>1. ReenableRequest \in ProxyRequests /\ ReenableRequest.op # "Input"
    BY RequestsAreRequests DEF ReenableRequest
  <2>2. Kept /\ Sent(ReenableRequest)
    BY <1>1, <1>11, <2>1 DEF RequestReenable, Send
  <2> QED BY <2>1, <2>2, SendKeepsWatched
<1>12. CASE RequestTerminate
  <2>1. TerminateRequest \in ProxyRequests /\ TerminateRequest.op # "Input"
    BY RequestsAreRequests DEF TerminateRequest
  <2>2. Kept /\ Sent(TerminateRequest)
    BY <1>1, <1>12, <2>1 DEF RequestTerminate, ProxyTerminate
  <2> QED BY <2>1, <2>2, SendKeepsWatched
<1>13. ASSUME NEW c \in Configs, RequestUpdate(c) PROVE Watched'
  <2>1. UpdateRequest(c) \in ProxyRequests /\ UpdateRequest(c).op # "Input"
    BY RequestsAreRequests DEF UpdateRequest
  <2>2. Kept /\ Sent(UpdateRequest(c))
    BY <1>1, <1>13, <2>1 DEF RequestUpdate, Send
  <2> QED BY <2>1, <2>2, SendKeepsWatched
<1>14. CASE Report
  BY <1>14, IdleKeepsWatched DEF Report, ProxyEvent
<1> QED
  BY <1>3, <1>4, <1>6, <1>7, <1>8, <1>9, <1>10, <1>11, <1>12, <1>13, <1>14 DEF ListenNext

LEMMA TaskKeepsWatched ==
  ASSUME IInv, HandlesDistinct', Watched, Task
  PROVE  Watched'
<1> USE DEF IInv, TypeOK, EmulationTypeOK
<1>1. UNCHANGED <<last_response, registered>>
  BY DEF Task
<1>2. \A a \in Addrs : KeysHeldFor(a) => ephase = "session"
  BY DEF KeysHeldFor, KeysKnown
<1>3. CASE NewEmulation \/ CreateClients
  <2>1. UNCHANGED <<proxy_requests, handles, pressed_keys>>
    BY <1>3 DEF NewEmulation, CreateClients
  <2> QED BY <1>1, <2>1, IdleKeepsWatched
<1>4. CASE WaitForTermination \/ IdleRequest
  <2>1. UNCHANGED <<handles, pressed_keys>> /\ ephase # "session"
    BY <1>4 DEF WaitForTermination, IdleRequest
  <2>2. PICK op \in {"Terminate", "UpdateKeyRemap", "Input", "Remove", "Reenable"} : Take(op)
    BY <1>4 DEF WaitForTermination, IdleRequest
  <2>3. \A a \in Addrs : ~KeysHeldFor(a)'
    BY <1>2, <2>1 DEF KeysHeldFor
  <2> QED BY <1>1, <2>2, <2>3, TakeKeepsWatched
<1>5. CASE SessionInput
  <2> DEFINE r == Head(proxy_requests)
             known == handles[r.addr] # None
             h == IF known THEN handles[r.addr] ELSE next_id
             made == IF known THEN created ELSE created \cup {h}
  <2>1. Take("Input") /\ r.op = "Input" /\ r.addr \in Addrs /\ r.event \in Inputs
    BY <1>5, TakeKeeps DEF SessionInput, Take
  <2>2. ASSUME NEW a \in Addrs, KeysHeldFor(a)' PROVE KeysHeldFor(a) \/ r.addr = a
    <3>1. CASE UNCHANGED <<handles, pressed_keys>>
      BY <2>2, <3>1 DEF KeysHeldFor
    <3>2. CASE ~UNCHANGED <<handles, pressed_keys>>
      <4>1. /\ h \in Ids
            /\ handles' = [handles EXCEPT ![r.addr] = h]
            /\ \/ ConsumeOther(made)
               \/ r.event # OtherInput
                    /\ ConsumeKey(made, h, RemapKey(engine, r.event.key, r.event.down).key,
                                  r.event.down)
        BY <1>5, <3>2 DEF SessionInput
      <4>2. SUFFICES ASSUME a # r.addr PROVE KeysHeldFor(a)
        OBVIOUS
      <4>3. handles'[a] = handles[a] /\ handles'[r.addr] = h /\ h # None
        BY <2>1, <4>1, <4>2, EmulationAssumption DEF Ids
      <4>4. handles[a] # h /\ handles[a] \in Ids
        BY <2>1, <2>2, <4>2, <4>3 DEF HandlesDistinct, KeysHeldFor
      <4>5. ASSUME NEW k, NEW d, pressed_keys' = Updated(h, k, d)
            PROVE  pressed_keys'[handles[a]] = pressed_keys[handles[a]]
        BY <4>4, <4>5 DEF Updated
      <4>6. pressed_keys' = [x \in Ids |-> {}] => pressed_keys'[handles[a]] = {}
        BY <4>4
      <4>7. pressed_keys'[handles[a]] \in {pressed_keys[handles[a]], {}}
        <5> HIDE DEF h, made, r
        <5> QED BY <4>1, <4>5, <4>6 DEF ConsumeOther, ConsumeKey, EndSession
      <4> QED BY <2>2, <4>3, <4>7 DEF KeysHeldFor
    <3> QED BY <3>1, <3>2
  <2>3. \A a \in Addrs : r # RemoveRequest(a)
    BY <2>1 DEF RemoveRequest
  <2> QED BY <1>1, <2>1, <2>2, <2>3, TakeKeepsWatched
<1>6. CASE SessionRemove
  <2> DEFINE b == Head(proxy_requests).addr
  <2>1. Take("Remove") /\ b \in Addrs /\ Head(proxy_requests).op = "Remove"
    BY <1>6, TakeKeeps DEF SessionRemove, Take
  <2>2. \A a \in Addrs : Head(proxy_requests) = RemoveRequest(a) => a = b
    BY DEF RemoveRequest
  <2>3. ASSUME NEW a \in Addrs, KeysHeldFor(a)' PROVE KeysHeldFor(a) /\ a # b
    <3>1. CASE handles[b] = None
      <4>1. UNCHANGED <<handles, pressed_keys>>
        BY <1>6, <3>1 DEF SessionRemove
      <4> QED BY <2>3, <3>1, <4>1 DEF KeysHeldFor
    <3>2. CASE handles[b] # None
      <4>1. /\ handles' = [handles EXCEPT ![b] = None]
            /\ pressed_keys' = [pressed_keys EXCEPT ![handles[b]] = {}]
        BY <1>6, <3>2 DEF SessionRemove
      <4>2. a # b /\ handles'[a] = handles[a]
        BY <2>1, <2>3, <4>1 DEF KeysHeldFor
      <4>3. handles[a] # None /\ handles[a] \in Ids
        BY <2>3, <4>2 DEF KeysHeldFor
      <4>4. pressed_keys'[handles[a]] # {} => pressed_keys[handles[a]] # {}
        BY <4>1, <4>3
      <4> QED BY <2>3, <4>2, <4>3, <4>4 DEF KeysHeldFor
    <3> QED BY <3>1, <3>2
  <2> QED BY <1>1, <2>1, <2>2, <2>3, TakeKeepsWatched
<1>7. CASE SessionUpdate
  <2>1. Take("UpdateKeyRemap") /\ Head(proxy_requests).op = "UpdateKeyRemap"
        /\ handles' = handles
    BY <1>7 DEF SessionUpdate, Take
  <2>2. \A a \in Addrs : Head(proxy_requests) # RemoveRequest(a)
    BY <2>1 DEF RemoveRequest
  <2>3. \A x \in Ids : pressed_keys'[x] \subseteq pressed_keys[x]
    <3>1. CASE InUse = {}
      BY <1>7, <3>1 DEF SessionUpdate
    <3>2. CASE InUse # {}
      <4>1. PICK h \in InUse, stuck \in SUBSET Drained(engine) :
              pressed_keys' = [pressed_keys EXCEPT ![h] = @ \ stuck]
        <5> DEFINE Stuck(x) == IF x \in created THEN Drained(engine) \cap pressed_keys[x] ELSE {}
        <5>1. PICK h \in InUse : pressed_keys' = [pressed_keys EXCEPT ![h] = @ \ Stuck(h)]
          BY <1>7, <3>2 DEF SessionUpdate
        <5>2. Stuck(h) \in SUBSET Drained(engine)
          OBVIOUS
        <5> HIDE DEF Stuck
        <5> QED BY <5>1, <5>2
      <4> QED BY <4>1
    <3> QED BY <3>1, <3>2
  <2>4. \A a \in Addrs : KeysHeldFor(a)' => KeysHeldFor(a)
    BY <2>1, <2>3 DEF KeysHeldFor
  <2> QED BY <1>1, <2>1, <2>2, <2>4, TakeKeepsWatched
<1>8. CASE SessionTerminate
  <2>1. Take("Terminate") /\ Head(proxy_requests).op = "Terminate"
        /\ handles' = handles /\ pressed_keys' = [x \in Ids |-> {}]
    BY <1>8 DEF SessionTerminate, EndSession, Take
  <2>2. \A a \in Addrs : ~KeysHeldFor(a)'
    BY <2>1 DEF KeysHeldFor
  <2> QED BY <1>1, <2>1, <2>2, TakeKeepsWatched
<1>9. CASE SessionReenable
  <2>1. Take("Reenable") /\ Head(proxy_requests).op = "Reenable"
        /\ UNCHANGED <<handles, pressed_keys>>
    BY <1>9 DEF SessionReenable, Take
  <2>2. \A a \in Addrs : Head(proxy_requests) # RemoveRequest(a) /\ (KeysHeldFor(a)' => KeysHeldFor(a))
    BY <2>1 DEF RemoveRequest, KeysHeldFor
  <2> QED BY <1>1, <2>1, <2>2, TakeKeepsWatched
<1> QED
  BY <1>3, <1>4, <1>5, <1>6, <1>7, <1>8, <1>9 DEF Task, EmulationTaskNext

LEMMA WatchedKept == IInv /\ IInv' /\ Watched /\ [Next]_vars => Watched'
<1> SUFFICES ASSUME IInv, IInv', Watched, [Next]_vars PROVE Watched'
  OBVIOUS
<1>1. TypeOK /\ HandlesDistinct'
  BY DEF IInv
<1>2. CASE UNCHANGED vars
  BY <1>2, IdleKeepsWatched
<1> QED BY <1>1, <1>2, ListenKeepsWatched, TaskKeepsWatched DEF Next

LEMMA WatchedInit == Init => Watched
BY DEF Init, EmulationInit, Watched, InputsOf, KeysHeldFor

\* As long as there is a listener, every device that the service is told of, that keys
\* are down for or whose input is under way is watched by the timer, or its removal
\* follows that input.
THEOREM InputIsWatched == Spec => []InputWatched
<1>1. Watched => InputWatched
  BY DEF Watched, InputWatched, InputsOf, RemovesOf, KeysHeldFor, RemovedBehind
<1> QED BY <1>1, WatchedInit, WatchedKept, InvariantHolds, PTL DEF Spec
------------------------------------------------------------------------------
\* Key k of address a is still held, or its release is in the channel behind i.
KeyRelease(a, k) == InputRequest(KeyInput(k, FALSE), a)
KeyPress(a, k) == InputRequest(KeyInput(k, TRUE), a)
StillHeld(a, k, i) ==
  k \in held[a] \/ \E j \in DOMAIN proxy_requests : i < j /\ proxy_requests[j] = KeyRelease(a, k)

\* A modifier that is down was mapped by the configuration that is applied.
EngineSteady == \A m \in Pressed(engine) : engine.pressed[m] = Mapped(engine.map, m)

\* A press under way, and a key that is down and was not overlooked, comes from a key
\* that the device still holds or whose release is under way behind it.
PressesExplained ==
  \A i \in DOMAIN proxy_requests, a \in Addrs, k \in Keys :
    proxy_requests[i] = KeyPress(a, k) => StillHeld(a, k, i)
KeysExplained ==
  \A a \in Addrs : handles[a] # None /\ handles[a] \notin carried =>
    \A to \in pressed_keys[handles[a]] :
      \E k \in Keys : Mapped(engine.map, k) = to /\ StillHeld(a, k, 0)

Explained == EngineSteady /\ PressesExplained /\ KeysExplained

\* An engine that has mapped all by one map does so with the next key.
LEMMA RemapSteady ==
  ASSUME NEW e \in Engines, NEW k \in Keys, NEW d \in BOOLEAN,
         \A m \in Pressed(e) : e.pressed[m] = Mapped(e.map, m)
  PROVE  /\ RemapKey(e, k, d).key = Mapped(e.map, k)
         /\ RemapKey(e, k, d).engine.map = e.map
         /\ \A m \in Pressed(RemapKey(e, k, d).engine) :
              RemapKey(e, k, d).engine.pressed[m] = Mapped(e.map, m)
<1>1. CASE d
  <2> DEFINE now == [m \in Pressed(e) \cup ({k} \cap Modifiers) |->
                       IF m = k THEN Mapped(e.map, k) ELSE e.pressed[m]]
  <2>1. RemapKey(e, k, d) = [key |-> Mapped(e.map, k), engine |-> Engine(e.map, now)]
    BY <1>1 DEF RemapKey, RemapPress
  <2>2. \A m \in DOMAIN now : now[m] = Mapped(e.map, m)
    OBVIOUS
  <2> HIDE DEF now
  <2> QED BY <2>1, <2>2 DEF Engine, Pressed
<1>2. CASE ~d
  <2> DEFINE now == [m \in Pressed(e) \ {k} |-> e.pressed[m]]
             to == IF k \in Pressed(e) THEN e.pressed[k] ELSE Mapped(e.map, k)
  <2>1. RemapKey(e, k, d) = [key |-> to, engine |-> Engine(e.map, now)]
    BY <1>2 DEF RemapKey, RemapRelease
  <2>2. to = Mapped(e.map, k) /\ \A m \in DOMAIN now : now[m] = Mapped(e.map, m)
    OBVIOUS
  <2> HIDE DEF now, to
  <2> QED BY <2>1, <2>2 DEF Engine, Pressed
<1> QED BY <1>1, <1>2

LEMMA FreshSteady ==
  ASSUME NEW m
  PROVE  /\ Engine(m, NonePressed).map = m
         /\ \A k \in Pressed(Engine(m, NonePressed)) : FALSE
BY DEF Engine, NonePressed, Pressed

\* The task takes a request: everything else is one step nearer.
LEMMA TakeStillHeld ==
  ASSUME TypeOK, NEW op, Take(op), held' = held, NEW a \in Addrs, NEW k
  PROVE  /\ \A i \in Nat : StillHeld(a, k, i + 1) => StillHeld(a, k, i)'
         /\ StillHeld(a, k, 0) /\ Head(proxy_requests) # KeyRelease(a, k) => StillHeld(a, k, 0)'
<1>1. ASSUME NEW i \in Nat, NEW j \in DOMAIN proxy_requests, j # 1, i + 1 < j,
             proxy_requests[j] = KeyRelease(a, k)
      PROVE  StillHeld(a, k, i)'
  <2>1. j - 1 \in DOMAIN proxy_requests' /\ proxy_requests'[j - 1] = KeyRelease(a, k) /\ j \in Nat
    BY <1>1, TakeShifts
  <2>2. i < j - 1
    BY <1>1, <2>1
  <2>3. KeyRelease(a, k)' = KeyRelease(a, k)
    BY DEF KeyRelease
  <2> QED BY <2>1, <2>2, <2>3 DEF StillHeld
<1>2. k \in held[a] => \A i \in Nat : StillHeld(a, k, i)'
  BY DEF StillHeld
<1>3. DOMAIN proxy_requests \subseteq Nat /\ proxy_requests[1] = Head(proxy_requests)
      /\ \A i \in DOMAIN proxy_requests : i >= 1
  BY TakeShifts
<1>4. ASSUME NEW i \in Nat, StillHeld(a, k, i + 1) PROVE StillHeld(a, k, i)'
  <2>1. SUFFICES ASSUME k \notin held[a] PROVE StillHeld(a, k, i)'
    BY <1>2
  <2>2. PICK j \in DOMAIN proxy_requests : i + 1 < j /\ proxy_requests[j] = KeyRelease(a, k)
    BY <1>4, <2>1 DEF StillHeld
  <2>3. j # 1
    BY <1>3, <2>2
  <2> QED BY <1>1, <2>2, <2>3
<1>5. ASSUME StillHeld(a, k, 0), Head(proxy_requests) # KeyRelease(a, k)
      PROVE  StillHeld(a, k, 0)'
  <2>1. SUFFICES ASSUME k \notin held[a] PROVE StillHeld(a, k, 0)'
    BY <1>2
  <2>2. PICK j \in DOMAIN proxy_requests : 0 < j /\ proxy_requests[j] = KeyRelease(a, k)
    BY <1>5, <2>1 DEF StillHeld
  <2>3. j # 1 /\ j \in Nat
    BY <1>3, <1>5, <2>2
  <2>4. 0 + 1 < j
    BY <2>2, <2>3
  <2> QED BY <1>1, <2>2, <2>3, <2>4
<1> QED BY <1>4, <1>5

\* It has an effect on the keys of the address that it is from only, and leaves none
\* down that a release is for.
LEMMA TakeKeepsExplained ==
  ASSUME TypeOK, PressesExplained, KeysExplained,
         NEW op, Take(op), held' = held,
         \A a \in Addrs : handles'[a] # None /\ handles'[a] \notin carried' =>
           \A to \in pressed_keys'[handles'[a]] :
             \/ \E k \in Keys : /\ Head(proxy_requests) = KeyPress(a, k)
                                /\ Mapped(engine'.map, k) = to
             \/ /\ engine'.map = engine.map
                /\ handles[a] # None /\ handles[a] \notin carried /\ to \in pressed_keys[handles[a]]
                /\ \A k \in Keys : Head(proxy_requests) = KeyRelease(a, k)
                                     => Mapped(engine.map, k) # to
  PROVE  PressesExplained' /\ KeysExplained'
<1>1. /\ 1 \in DOMAIN proxy_requests /\ proxy_requests[1] = Head(proxy_requests)
      /\ \A i \in DOMAIN proxy_requests' : /\ i + 1 \in DOMAIN proxy_requests
                                           /\ i \in Nat \ {0}
                                           /\ proxy_requests'[i] = proxy_requests[i + 1]
  BY TakeShifts
<1>3. ASSUME NEW i \in DOMAIN proxy_requests', NEW a \in Addrs, NEW k \in Keys,
             proxy_requests'[i] = KeyPress(a, k)
      PROVE  StillHeld(a, k, i)'
  <2>1. StillHeld(a, k, i + 1) /\ i \in Nat
    BY <1>1, <1>3 DEF PressesExplained
  <2> QED BY <2>1, TakeStillHeld
<1>4. ASSUME NEW a \in Addrs, handles'[a] # None, handles'[a] \notin carried',
             NEW to \in pressed_keys'[handles'[a]]
      PROVE  \E k \in Keys : Mapped(engine'.map, k) = to /\ StillHeld(a, k, 0)'
  <2>1. CASE \E k \in Keys : Head(proxy_requests) = KeyPress(a, k) /\ Mapped(engine'.map, k) = to
    <3>1. PICK k \in Keys : Head(proxy_requests) = KeyPress(a, k) /\ Mapped(engine'.map, k) = to
      BY <2>1
    <3>2. StillHeld(a, k, 0 + 1)
      BY <1>1, <3>1 DEF PressesExplained
    <3> QED BY <3>1, <3>2, TakeStillHeld
  <2>2. CASE /\ engine'.map = engine.map
             /\ handles[a] # None /\ handles[a] \notin carried /\ to \in pressed_keys[handles[a]]
             /\ \A k \in Keys : Head(proxy_requests) = KeyRelease(a, k)
                                  => Mapped(engine.map, k) # to
    <3>1. PICK k \in Keys : Mapped(engine.map, k) = to /\ StillHeld(a, k, 0)
      BY <2>2 DEF KeysExplained
    <3> QED BY <2>2, <3>1, TakeStillHeld
  <2> QED BY <1>4, <2>1, <2>2
<1>5. PressesExplained'
  BY <1>3 DEF PressesExplained, KeyPress
<1>6. KeysExplained'
  BY <1>4 DEF KeysExplained
<1> QED BY <1>5, <1>6

\* The channel grows by presses of keys held, and by what lets go of keys that are no
\* longer held.
LEMMA GrowKeepsExplained ==
  ASSUME TypeOK, Explained,
         UNCHANGED <<handles, pressed_keys, engine, carried>>,
         NEW l \in Nat, NEW n \in Nat,
         DOMAIN proxy_requests = 1 .. l, DOMAIN proxy_requests' = 1 .. l + n,
         \A i \in 1 .. l : proxy_requests'[i] = proxy_requests[i],
         \A i \in 1 .. l + n : i > l =>
           \A a \in Addrs, k \in Keys : proxy_requests'[i] = KeyPress(a, k) => k \in held'[a],
         \A a \in Addrs, k \in Keys :
           k \in held[a] => \/ k \in held'[a]
                            \/ \E i \in 1 .. l + n : i > l /\ proxy_requests'[i] = KeyRelease(a, k)
  PROVE  Explained'
<1>0. EngineSteady /\ PressesExplained /\ KeysExplained
  BY DEF Explained
<1>1. 1 .. l \subseteq 1 .. l + n
  OBVIOUS
<1>2. ASSUME NEW a \in Addrs, NEW k \in Keys, NEW i \in 0 .. l, StillHeld(a, k, i)
      PROVE  StillHeld(a, k, i)'
  <2>1. CASE k \in held'[a]
    BY <2>1 DEF StillHeld
  <2>2. CASE k \notin held'[a] /\ k \in held[a]
    <3>1. PICK j \in 1 .. l + n : j > l /\ proxy_requests'[j] = KeyRelease(a, k)
      BY <2>2
    <3>2. i < j
      BY <3>1
    <3> QED BY <3>1, <3>2 DEF StillHeld, KeyRelease
  <2>3. CASE k \notin held[a]
    <3>1. PICK j \in 1 .. l : i < j /\ proxy_requests[j] = KeyRelease(a, k)
      BY <1>2, <2>3 DEF StillHeld
    <3>2. j \in 1 .. l + n /\ proxy_requests'[j] = KeyRelease(a, k)
      BY <1>1, <3>1
    <3> QED BY <3>1, <3>2 DEF StillHeld, KeyRelease
  <2> QED BY <2>1, <2>2, <2>3
<1>3. EngineSteady'
  BY <1>0 DEF EngineSteady, Pressed
<1>4. ASSUME NEW i \in 1 .. l + n, NEW a \in Addrs, NEW k \in Keys,
             proxy_requests'[i] = KeyPress(a, k)
      PROVE  StillHeld(a, k, i)'
  <2>1. CASE i \in 1 .. l
    <3>1. StillHeld(a, k, i) /\ i \in 0 .. l
      BY <1>0, <1>4, <2>1 DEF PressesExplained
    <3> QED BY <1>2, <3>1
  <2>2. CASE i > l
    BY <1>4, <2>2 DEF StillHeld
  <2> QED BY <2>1, <2>2
<1>5. PressesExplained'
  BY <1>4 DEF PressesExplained, KeyPress
<1>6. KeysExplained'
  <2>1. 0 \in 0 .. l
    OBVIOUS
  <2> QED BY <1>0, <1>2, <2>1 DEF KeysExplained
<1> QED BY <1>3, <1>5, <1>6 DEF Explained

LEMMA ListenKeepsExplained ==
  ASSUME TypeOK, Explained, ListenNext, UNCHANGED carried
  PROVE  Explained'
<1> DEFINE Sent(r) == /\ proxy_requests' = Append(proxy_requests, r)
                      /\ \A a \in Addrs, k \in Keys :
                           /\ k \in held[a] => k \in held'[a] \/ r = KeyRelease(a, k)
                           /\ r = KeyPress(a, k) => k \in held'[a]
           Frame == UNCHANGED <<handles, pressed_keys, engine, carried>>
           Goal == Explained'
<1>1. EngineSteady /\ PressesExplained /\ KeysExplained
  BY DEF Explained
<1>2. ASSUME NEW r \in ProxyRequests, Sent(r), Frame PROVE Goal
  <2>1. PICK l \in Nat, n \in Nat :
          /\ n = 1
          /\ DOMAIN proxy_requests = 1 .. l /\ DOMAIN proxy_requests' = 1 .. l + n
          /\ \A i \in 1 .. l : proxy_requests'[i] = proxy_requests[i]
          /\ proxy_requests'[l + 1] = r
    <3>1. proxy_requests \in Seq(ProxyRequests)
      BY DEF TypeOK, EmulationTypeOK
    <3> DEFINE l == Len(proxy_requests)
    <3>2. /\ l \in Nat
          /\ DOMAIN proxy_requests = 1 .. l /\ DOMAIN proxy_requests' = 1 .. l + 1
          /\ \A i \in 1 .. l : proxy_requests'[i] = proxy_requests[i]
          /\ proxy_requests'[l + 1] = r
      BY <1>2, <3>1
    <3> QED BY <3>2
  <2>2. \A i \in 1 .. l + n : i > l => i = l + 1
    BY <2>1
  <2>3. l + 1 \in 1 .. l + n /\ l + 1 > l
    BY <2>1
  <2>4. /\ \A i \in 1 .. l + n : i > l =>
             \A a \in Addrs, k \in Keys : proxy_requests'[i] = KeyPress(a, k) => k \in held'[a]
        /\ \A a \in Addrs, k \in Keys :
             k \in held[a] => \/ k \in held'[a]
                              \/ \E i \in 1 .. l + n : i > l /\ proxy_requests'[i] = KeyRelease(a, k)
    BY <1>2, <2>1, <2>2, <2>3
  <2>5. UNCHANGED <<handles, pressed_keys, engine, carried>> /\ Explained
    BY <1>2
  <2>6. /\ DOMAIN proxy_requests = 1 .. l /\ DOMAIN proxy_requests' = 1 .. l + n
        /\ \A i \in 1 .. l : proxy_requests'[i] = proxy_requests[i]
    BY ONLY <2>1
  <2> QED BY ONLY TypeOK, <2>4, <2>5, <2>6, l \in Nat, n \in Nat, GrowKeepsExplained
<1>3. ASSUME UNCHANGED <<proxy_requests, held>>, Frame PROVE Goal
  <2>1. \A a, k, i : /\ StillHeld(a, k, i)' = StillHeld(a, k, i)
                     /\ KeyPress(a, k)' = KeyPress(a, k)
    BY <1>3 DEF StillHeld, KeyPress, KeyRelease
  <2>2. EngineSteady'
    BY <1>1, <1>3 DEF EngineSteady, Pressed
  <2>3. PressesExplained'
    BY <1>1, <1>3, <2>1 DEF PressesExplained
  <2>4. KeysExplained'
    BY <1>1, <1>3, <2>1 DEF KeysExplained
  <2> QED BY <2>2, <2>3, <2>4 DEF Explained
<1>4. ASSUME NEW r \in ProxyRequests, proxy_requests' = Append(proxy_requests, r),
             r.op # "Input", held' = held
      PROVE  Sent(r)
  <2>1. \A a, k : KeyPress(a, k).op = "Input"
    BY DEF KeyPress, InputRequest
  <2> QED BY <1>4, <2>1
<1> HIDE DEF Goal
<1>5. ASSUME NEW a \in Addrs, HearEnter(a) \/ HearPing(a) \/ FallSilent(a) PROVE Goal
  BY <1>3, <1>5 DEF HearEnter, HearPing, Heard, FallSilent
<1>6. ASSUME NEW a \in Addrs, HearLeave(a) PROVE Goal
  <2>1. RemoveRequest(a) \in ProxyRequests /\ RemoveRequest(a).op = "Remove"
    BY RequestsAreRequests DEF RemoveRequest
  <2>2. Sent(RemoveRequest(a)) /\ Frame
    BY <1>4, <1>6, <2>1 DEF HearLeave, Heard, Send
  <2> QED BY <1>2, <2>1, <2>2
<1>7. ASSUME NEW a \in Addrs, HearOther(a) PROVE Goal
  <2>1. OtherInput \in Inputs /\ Frame /\ held' = held
    BY <1>7 DEF Inputs, HearOther, Heard
  <2>2. CASE emulation_active
    <3> DEFINE r == InputRequest(OtherInput, a)
    <3>1. r \in ProxyRequests /\ r.op = "Input" /\ proxy_requests' = Append(proxy_requests, r)
      BY <1>7, <2>1, <2>2, RequestsAreRequests DEF HearOther, Consume, Send, InputRequest
    <3>2. \A b \in Addrs, k \in Keys : r # KeyPress(b, k)
      BY DEF KeyPress, InputRequest, KeyInput, OtherInput
    <3> QED BY <1>2, <2>1, <3>1, <3>2
  <2>3. CASE ~emulation_active
    BY <1>3, <1>7, <2>1, <2>3 DEF HearOther, Consume
  <2> QED BY <2>2, <2>3
<1>8. ASSUME NEW a \in Addrs, NEW k \in RemoteKeys, NEW d \in BOOLEAN, HearKey(a, k, d)
      PROVE  Goal
  <2>1. KeyInput(k, d) \in Inputs /\ Frame /\ k \in Keys
    BY <1>8, ListenAssumption DEF KeyInput, Inputs, HearKey, Heard
  <2>2. CASE emulation_active
    <3> DEFINE r == InputRequest(KeyInput(k, d), a)
    <3>1. /\ r \in ProxyRequests /\ r.op = "Input"
          /\ proxy_requests' = Append(proxy_requests, r)
          /\ held' = [held EXCEPT ![a] = IF d THEN @ \cup {k} ELSE @ \ {k}]
      BY <1>8, <2>1, <2>2, RequestsAreRequests DEF HearKey, Consume, Send, InputRequest
    <3>2. held \in [Addrs -> SUBSET RemoteKeys]
      BY DEF TypeOK
    <3>3. ASSUME NEW b \in Addrs, NEW x \in Keys, x \in held[b]
          PROVE  x \in held'[b] \/ r = KeyRelease(b, x)
      <4>1. CASE a = b /\ ~d /\ x = k
        BY <4>1 DEF KeyRelease
      <4>2. CASE ~(a = b /\ ~d /\ x = k)
        BY <3>1, <3>2, <3>3, <4>2
      <4> QED BY <4>1, <4>2
    <3>4. ASSUME NEW b \in Addrs, NEW x \in Keys, r = KeyPress(b, x) PROVE x \in held'[b]
      <4>1. b = a /\ x = k /\ d
        BY <3>4 DEF KeyPress, InputRequest, KeyInput
      <4> QED BY <3>1, <3>2, <4>1
    <3>5. Sent(r)
      <4> HIDE DEF r
      <4> QED BY <3>1, <3>3, <3>4
    <3> HIDE DEF r, Sent
    <3> QED BY <1>2, <2>1, <3>1, <3>5
  <2>3. CASE ~emulation_active
    BY <1>3, <1>8, <2>1, <2>3 DEF HearKey, Consume
  <2> QED BY <2>2, <2>3
<1>9. ASSUME RequestReenable PROVE Goal
  <2>1. ReenableRequest \in ProxyRequests /\ ReenableRequest.op = "Reenable"
    BY RequestsAreRequests DEF ReenableRequest
  <2>2. Sent(ReenableRequest) /\ Frame
    BY <1>4, <1>9, <2>1 DEF RequestReenable, Send
  <2> QED BY <1>2, <2>1, <2>2
<1>10. ASSUME RequestTerminate PROVE Goal
  <2>1. TerminateRequest \in ProxyRequests /\ TerminateRequest.op = "Terminate"
    BY RequestsAreRequests DEF TerminateRequest
  <2>2. Sent(TerminateRequest) /\ Frame
    BY <1>4, <1>10, <2>1 DEF RequestTerminate, ProxyTerminate
  <2> QED BY <1>2, <2>1, <2>2
<1>11. ASSUME NEW c \in Configs, RequestUpdate(c) PROVE Goal
  <2>1. UpdateRequest(c) \in ProxyRequests /\ UpdateRequest(c).op = "UpdateKeyRemap"
    BY RequestsAreRequests DEF UpdateRequest
  <2>2. Sent(UpdateRequest(c)) /\ Frame
    BY <1>4, <1>11, <2>1 DEF RequestUpdate, Send
  <2> QED BY <1>2, <2>1, <2>2
<1>12. ASSUME Report PROVE Goal
  BY <1>3, <1>12 DEF Report, ProxyEvent
<1>13. ASSUME NEW S \in SUBSET last_response, Tick(S) PROVE Goal
  <2>1. Frame /\ held' = held
    BY <1>13 DEF Tick
  <2>2. PICK l \in Nat, n \in Nat : \E order \in [1 .. n -> S] :
          /\ DOMAIN proxy_requests = 1 .. l /\ DOMAIN proxy_requests' = 1 .. l + n
          /\ \A i \in 1 .. l : proxy_requests'[i] = proxy_requests[i]
          /\ \A i \in 1 .. n : /\ l + i \in 1 .. l + n
                               /\ proxy_requests'[l + i] = RemoveRequest(order[i])
          /\ \A i \in 1 .. l + n : i \in 1 .. l \/ \E j \in 1 .. n : i = l + j
          /\ \A b \in S : \E i \in 1 .. n : order[i] = b
    BY <1>13, TickAppends
  <2>3. ASSUME NEW i \in 1 .. l + n, i > l
        PROVE  \A a \in Addrs, k \in Keys : proxy_requests'[i] # KeyPress(a, k)
    <3>1. i \notin 1 .. l
      BY <2>3
    <3>2. PICK j \in 1 .. n : i = l + j
      BY <2>2, <3>1
    <3>3. PICK a : proxy_requests'[i] = RemoveRequest(a)
      BY <2>2, <3>2
    <3>4. proxy_requests'[i].op = "Remove" /\ \A b, k : KeyPress(b, k).op = "Input"
      BY <3>3 DEF RemoveRequest, KeyPress, InputRequest
    <3> QED BY <3>4
  <2>4. /\ UNCHANGED <<handles, pressed_keys, engine, carried>> /\ Explained
        /\ \A a \in Addrs, k \in Keys : k \in held[a] => k \in held'[a]
    BY <2>1
  <2>5. /\ DOMAIN proxy_requests = 1 .. l /\ DOMAIN proxy_requests' = 1 .. l + n
        /\ \A i \in 1 .. l : proxy_requests'[i] = proxy_requests[i]
    BY <2>2
  <2>6. /\ \A i \in 1 .. l + n : i > l =>
             \A a \in Addrs, k \in Keys : proxy_requests'[i] = KeyPress(a, k) => k \in held'[a]
        /\ \A a \in Addrs, k \in Keys :
             k \in held[a] => \/ k \in held'[a]
                              \/ \E i \in 1 .. l + n : i > l /\ proxy_requests'[i] = KeyRelease(a, k)
    BY ONLY <2>3, <2>4
  <2>7. Goal
    BY ONLY TypeOK, <2>4, <2>5, <2>6, l \in Nat, n \in Nat, GrowKeepsExplained DEF Goal
  <2> QED BY <2>7
<1> QED
  BY <1>5, <1>6, <1>7, <1>8, <1>9, <1>10, <1>11, <1>12, <1>13 DEF ListenNext, Goal

\* What a key event of the session does to the keys of its handle.
LEMMA ConsumedKeys ==
  ASSUME TypeOK, NEW made, NEW h \in Ids, NEW k \in Keys, NEW d \in BOOLEAN,
         ConsumeKey(made, h, k, d), pressed_keys[h] # {} => h \in made
  PROVE  /\ \A x \in Ids \ {h} : pressed_keys'[x] \subseteq pressed_keys[x]
         /\ d => pressed_keys'[h] \subseteq pressed_keys[h] \cup {k}
         /\ ~d => pressed_keys'[h] \subseteq pressed_keys[h] \ {k}
<1>1. pressed_keys \in [Ids -> SUBSET Keys]
  BY DEF TypeOK, EmulationTypeOK
<1>2. CASE pressed_keys' = [x \in Ids |-> {}]
  BY <1>2
<1>3. CASE pressed_keys' = Updated(h, k, d)
  BY <1>1, <1>3 DEF Updated
<1>4. CASE pressed_keys' = pressed_keys /\ ~Toggles(made, h, k, d)
  <2>1. ~d => k \notin pressed_keys[h]
    BY <1>4 DEF Toggles
  <2> QED BY <1>4, <2>1
<1> QED BY <1>2, <1>3, <1>4 DEF ConsumeKey, EndSession

LEMMA TaskKeepsExplained ==
  ASSUME IInv, HandlesDistinct', Explained, Task
  PROVE  Explained'
<1> USE DEF IInv, TypeOK, EmulationTypeOK
<1>0. /\ held' = held /\ Carry /\ EmulationTaskNext
      /\ EngineSteady /\ PressesExplained /\ KeysExplained
  BY DEF Task, Explained
\* A handle with keys down that were not overlooked had none overlooked before.
<1>00. ASSUME NEW x \in Ids, pressed_keys'[x] # {}, x \notin carried' PROVE x \notin carried
  BY <1>0, <1>00 DEF Carry
<1> DEFINE r == Head(proxy_requests)
           Effect == \A a \in Addrs : handles'[a] # None /\ handles'[a] \notin carried' =>
                       \A to \in pressed_keys'[handles'[a]] :
                         \/ \E k \in Keys : r = KeyPress(a, k) /\ Mapped(engine'.map, k) = to
                         \/ /\ engine'.map = engine.map
                            /\ handles[a] # None /\ handles[a] \notin carried
                            /\ to \in pressed_keys[handles[a]]
                            /\ \A k \in Keys : r = KeyRelease(a, k) => Mapped(engine.map, k) # to
           Goal == Explained'
           SameMap == /\ engine'.map = engine.map
                      /\ \A m \in Pressed(engine') : engine'.pressed[m] = Mapped(engine.map, m)
\* Three ways in which a step of the task can be harmless.
<1>1. ASSUME UNCHANGED <<proxy_requests, handles, pressed_keys>>, EngineSteady',
             engine'.map = engine.map \/ \A x \in Ids : pressed_keys[x] = {}
      PROVE  Goal
  <2>1. \A a, k, i : StillHeld(a, k, i)' = StillHeld(a, k, i) /\ KeyPress(a, k)' = KeyPress(a, k)
    BY <1>0, <1>1 DEF StillHeld, KeyPress, KeyRelease
  <2>2. PressesExplained'
    BY <1>0, <1>1, <2>1 DEF PressesExplained
  <2>3. KeysExplained'
    <3> SUFFICES ASSUME NEW a \in Addrs, handles[a] # None, handles[a] \notin carried',
                        NEW to \in pressed_keys[handles[a]]
                 PROVE  \E k \in Keys : Mapped(engine'.map, k) = to /\ StillHeld(a, k, 0)
      BY <1>1, <2>1 DEF KeysExplained
    <3>1. handles[a] \in Ids /\ handles[a] \notin carried /\ engine'.map = engine.map
      BY <1>00, <1>1
    <3> QED BY <1>0, <3>1 DEF KeysExplained
  <2> QED BY <1>1, <2>2, <2>3 DEF Explained
<1>2. ASSUME NEW op, Take(op), EngineSteady', Effect PROVE Goal
  <2>1. PressesExplained' /\ KeysExplained'
    BY <1>0, <1>2, TakeKeepsExplained
  <2> QED BY <1>2, <2>1 DEF Explained
<1>3. /\ engine' = engine => SameMap
      /\ SameMap => EngineSteady'
  BY <1>0 DEF EngineSteady
<1>4. \A op : Take(op) => r.op = op
  <2> TAKE op
  <2>1. Take(op) => 1 \in DOMAIN proxy_requests /\ proxy_requests[1] = r /\ r.op = op
    BY TakeShifts DEF Take
  <2> QED BY <2>1
<1>5. \A a, k : KeyPress(a, k).op = "Input" /\ KeyRelease(a, k).op = "Input"
  BY DEF KeyPress, KeyRelease, InputRequest
<1> HIDE DEF Goal
<1> HIDE DEF SameMap
<1>60. SameMap => engine'.map = engine.map
  BY DEF SameMap
<1>6. ASSUME SameMap, \A x \in Ids : pressed_keys'[x] \subseteq pressed_keys[x], r.op # "Input",
             \A a \in Addrs : handles'[a] # None => handles'[a] = handles[a]
      PROVE  Effect
  <2> SUFFICES ASSUME NEW a \in Addrs, handles'[a] # None, handles'[a] \notin carried',
                      NEW to \in pressed_keys'[handles'[a]]
               PROVE  /\ engine'.map = engine.map
                      /\ handles[a] # None /\ handles[a] \notin carried
                      /\ to \in pressed_keys[handles[a]]
                      /\ \A k \in Keys : r # KeyRelease(a, k)
    OBVIOUS
  <2>1. handles'[a] = handles[a] /\ handles[a] \in Ids
    BY <1>6
  <2> QED BY <1>00, <1>5, <1>6, <1>60, <2>1
<1>7. ASSUME \A x \in Ids : pressed_keys'[x] = {}, handles' \in [Addrs -> Ids \cup {None}]
      PROVE  Effect
  BY <1>7
<1>8. ASSUME NewEmulation \/ CreateClients PROVE Goal
  <2>1. UNCHANGED <<proxy_requests, handles, pressed_keys>> /\ ephase # "session"
    BY <1>8 DEF NewEmulation, CreateClients
  <2>2. \A x \in Ids : pressed_keys[x] = {}
    BY <2>1 DEF KeysKnown
  <2>3. engine' = engine \/ engine' = NewEngine(key_remap)
    BY <1>8 DEF NewEmulation, CreateClients
  <2>4. EngineSteady'
    BY <1>0, <2>3, FreshSteady DEF EngineSteady, NewEngine
  <2> QED BY <1>1, <2>1, <2>2, <2>4
<1>9. ASSUME WaitForTermination \/ IdleRequest PROVE Goal
  <2>1. UNCHANGED <<handles, pressed_keys, engine>> /\ ephase # "session"
    BY <1>9 DEF WaitForTermination, IdleRequest
  <2>2. PICK op : Take(op)
    BY <1>9 DEF WaitForTermination, IdleRequest
  <2>3. \A x \in Ids : pressed_keys'[x] = {}
    BY <2>1 DEF KeysKnown
  <2>4. Effect
    BY <1>7, <2>1, <2>3
  <2> QED BY <1>2, <1>3, <2>1, <2>2, <2>4
<1>10. ASSUME SessionReenable PROVE Goal
  <2>1. UNCHANGED <<handles, pressed_keys, engine>> /\ Take("Reenable")
    BY <1>10 DEF SessionReenable
  <2>2. Effect
    BY <1>3, <1>4, <1>6, <2>1
  <2> QED BY <1>2, <1>3, <2>1, <2>2
<1>11. ASSUME SessionTerminate PROVE Goal
  <2>1. /\ UNCHANGED <<handles, engine>> /\ Take("Terminate")
        /\ pressed_keys' = [x \in Ids |-> {}]
    BY <1>11 DEF SessionTerminate, EndSession
  <2>2. Effect
    BY <1>7, <2>1
  <2> QED BY <1>2, <1>3, <2>1, <2>2
<1>12. ASSUME SessionUpdate PROVE Goal
  <2>1. /\ Take("UpdateKeyRemap") /\ handles' = handles /\ engine' = NewEngine(key_remap')
        /\ \/ InUse = {} /\ pressed_keys' = pressed_keys
           \/ \E h \in InUse :
                LET stuck == IF h \in created THEN Drained(engine) \cap pressed_keys[h] ELSE {}
                IN pressed_keys' = [pressed_keys EXCEPT ![h] = @ \ stuck]
    BY <1>12 DEF SessionUpdate
  <2>2. EngineSteady'
    BY <2>1, FreshSteady DEF EngineSteady, NewEngine
  \* A handle that is not overlooked is the only one, and all its keys are drained.
  <2>3. ASSUME NEW x \in Ids, x \in InUse, x \notin carried' PROVE pressed_keys'[x] = {}
    <3> SUFFICES ASSUME pressed_keys'[x] # {} PROVE FALSE
      OBVIOUS
    <3>1. ~Overlooked(x)
      BY <1>0, <2>1, <2>3 DEF Carry
    <3>2. InUse = {x} /\ \A to \in pressed_keys[x] : \E m \in Pressed(engine) : engine.pressed[m] = to
      BY <3>1 DEF Overlooked
    <3>3. pressed_keys[x] \subseteq Drained(engine)
      BY <3>2 DEF Drained
    <3>4. pressed_keys' = [pressed_keys EXCEPT
            ![x] = @ \ (IF x \in created THEN Drained(engine) \cap pressed_keys[x] ELSE {})]
      BY <2>1, <3>2
    <3>5. pressed_keys[x] # {} => x \in created
      BY DEF KeysKnown
    <3> QED BY <3>3, <3>4, <3>5
  <2>4. Effect
    <3> SUFFICES ASSUME NEW a \in Addrs, handles'[a] # None, handles'[a] \notin carried'
                 PROVE  pressed_keys'[handles'[a]] = {}
      OBVIOUS
    <3>1. handles'[a] \in Ids /\ handles'[a] \in InUse
      BY <2>1 DEF InUse
    <3> QED BY <2>3, <3>1
  <2> QED BY <1>2, <2>1, <2>2, <2>4
<1>13. ASSUME SessionRemove PROVE Goal
  <2>1. Take("Remove") /\ r.addr \in Addrs
    BY <1>13, TakeKeeps DEF SessionRemove
  <2>2. CASE handles[r.addr] = None
    <3>1. UNCHANGED <<handles, engine, pressed_keys>>
      BY <1>13, <2>2 DEF SessionRemove
    <3>2. Effect
      BY <1>3, <1>4, <1>6, <2>1, <3>1
    <3> QED BY <1>2, <1>3, <2>1, <3>1, <3>2
  <2>3. CASE handles[r.addr] # None
    <3>1. /\ handles' = [handles EXCEPT ![r.addr] = None]
          /\ engine' = Reset(engine)
          /\ pressed_keys' = [pressed_keys EXCEPT ![handles[r.addr]] = {}]
      BY <1>13, <2>3 DEF SessionRemove
    <3>2. SameMap
      BY <3>1, FreshSteady DEF Reset, SameMap
    <3>3. \A x \in Ids : pressed_keys'[x] \subseteq pressed_keys[x]
      BY <3>1
    <3>4. \A a \in Addrs : handles'[a] # None => handles'[a] = handles[a]
      BY <2>1, <3>1
    <3>5. Effect
      BY <1>4, <1>6, <2>1, <3>2, <3>3, <3>4
    <3> QED BY <1>2, <1>3, <2>1, <3>2, <3>5
  <2> QED BY <2>2, <2>3
<1>14. ASSUME SessionInput PROVE Goal
  <2> DEFINE known == handles[r.addr] # None
             h == IF known THEN handles[r.addr] ELSE next_id
             made == IF known THEN created ELSE created \cup {h}
             key == Mapped(engine.map, r.event.key)
  <2>1. /\ Take("Input") /\ r.op = "Input"
        /\ r.addr \in Addrs /\ r.event \in Inputs
    BY <1>14, TakeKeeps DEF SessionInput, Take
  <2>2. \A a, k : /\ r = KeyPress(a, k) => r.addr = a /\ r.event = KeyInput(k, TRUE)
                  /\ r = KeyRelease(a, k) => r.addr = a /\ r.event = KeyInput(k, FALSE)
    <3> TAKE a, k
    <3>1. /\ KeyPress(a, k).addr = a /\ KeyPress(a, k).event = KeyInput(k, TRUE)
          /\ KeyRelease(a, k).addr = a /\ KeyRelease(a, k).event = KeyInput(k, FALSE)
      BY DEF KeyPress, KeyRelease, InputRequest
    <3> QED BY <3>1
  <2>3. /\ next_id \in Nat /\ None \notin Ids
        /\ known => h \in Ids
        /\ ~known /\ h \in Ids => pressed_keys[h] = {}
    <3>1. \A x \in created : x < next_id
      BY DEF HandlesMade, HandlesDistinct
    <3>2. next_id \in Nat /\ ~(next_id < next_id) /\ None \notin Ids
      BY EmulationAssumption DEF Ids
    <3> QED BY <2>1, <3>1, <3>2 DEF KeysKnown
  <2>4. CASE h \notin Ids
    <3>1. UNCHANGED <<handles, engine, pressed_keys>>
      BY <1>14, <2>4 DEF SessionInput
    <3>2. Effect
      <4> SUFFICES ASSUME NEW a \in Addrs, handles[a] # None, NEW k \in Keys, r = KeyRelease(a, k)
                   PROVE  FALSE
        BY <1>00, <1>3, <1>60, <2>3, <2>4, <3>1
      <4> QED BY <2>2, <2>3, <2>4
    <3> QED BY <1>2, <1>3, <2>1, <3>1, <3>2
  <2>5. CASE h \in Ids
    <3>1. /\ handles' = [handles EXCEPT ![r.addr] = h]
          /\ \/ r.event = OtherInput /\ ConsumeOther(made) /\ UNCHANGED engine
             \/ /\ r.event # OtherInput
                /\ engine' = RemapKey(engine, r.event.key, r.event.down).engine
                /\ ConsumeKey(made, h, RemapKey(engine, r.event.key, r.event.down).key,
                              r.event.down)
      BY <1>14, <2>5 DEF SessionInput
    <3>2. /\ handles'[r.addr] = h
          /\ \A a \in Addrs : a # r.addr => handles'[a] = handles[a] /\ handles[a] # h
      BY <2>1, <2>3, <2>5, <3>1 DEF HandlesDistinct
    <3>3. pressed_keys[h] # {} => h \in made /\ known
      BY <2>3, <2>5 DEF KeysKnown
    <3>4. CASE r.event = OtherInput
      <4>1. SameMap
        BY <1>3, <3>1, <3>4
      <4>2. \A x \in Ids : pressed_keys'[x] \subseteq pressed_keys[x]
        <5>1. pressed_keys' \in {pressed_keys, [x \in Ids |-> {}]}
          BY <3>1, <3>4 DEF ConsumeOther, EndSession
        <5> QED BY <5>1
      <4>3. \A a, k : r # KeyPress(a, k) /\ r # KeyRelease(a, k)
        <5>1. \A k, d : KeyInput(k, d) # OtherInput
          BY DEF KeyInput, OtherInput
        <5> QED BY <2>2, <3>4, <5>1
      <4>4. Effect
        <5> SUFFICES ASSUME NEW a \in Addrs, handles'[a] # None, handles'[a] \notin carried',
                            NEW to \in pressed_keys'[handles'[a]]
                     PROVE  /\ handles[a] # None /\ handles[a] \notin carried
                            /\ to \in pressed_keys[handles[a]]
          BY <1>60, <4>1, <4>3
        <5>1. CASE a # r.addr
          <6>1. handles'[a] = handles[a] /\ handles[a] \in Ids
            BY <3>2, <5>1
          <6> QED BY <1>00, <4>2, <6>1
        <5>2. CASE a = r.addr
          <6>1. to \in pressed_keys[h] /\ h \notin carried
            BY <1>00, <2>5, <3>2, <4>2, <5>2
          <6> QED BY <3>3, <5>2, <6>1
        <5> QED BY <5>1, <5>2
      <4> QED BY <1>2, <1>3, <2>1, <4>1, <4>4
    <3>5. CASE r.event # OtherInput
      <4>1. r.event.key \in Keys /\ r.event.down \in BOOLEAN /\ engine \in Engines
        <5>1. r.event \in Inputs
          BY ONLY <2>1
        <5>2. engine \in Engines
          BY ONLY IInv
        <5> QED BY ONLY <3>5, <5>1, <5>2, InputFields
      <4>2. /\ RemapKey(engine, r.event.key, r.event.down).key = key
            /\ SameMap
        <5>1. \A m \in Pressed(engine) : engine.pressed[m] = Mapped(engine.map, m)
          BY <1>0 DEF EngineSteady
        <5>2. /\ RemapKey(engine, r.event.key, r.event.down).key = key
              /\ RemapKey(engine, r.event.key, r.event.down).engine.map = engine.map
              /\ \A m \in Pressed(RemapKey(engine, r.event.key, r.event.down).engine) :
                   RemapKey(engine, r.event.key, r.event.down).engine.pressed[m]
                     = Mapped(engine.map, m)
          BY ONLY <4>1, <5>1, RemapSteady
        <5> QED BY <3>1, <3>5, <5>2 DEF SameMap
      <4>3. key \in Keys
        BY <4>1, <4>2, RemapType
      <4>4. /\ \A x \in Ids \ {h} : pressed_keys'[x] \subseteq pressed_keys[x]
            /\ r.event.down => pressed_keys'[h] \subseteq pressed_keys[h] \cup {key}
            /\ ~r.event.down => pressed_keys'[h] \subseteq pressed_keys[h] \ {key}
        <5>1. ConsumeKey(made, h, key, r.event.down)
          BY <3>1, <3>5, <4>2
        <5>2. TypeOK /\ (pressed_keys[h] # {} => h \in made)
          BY <3>3
        <5> HIDE DEF made, h, key
        <5> QED BY ONLY <2>5, <4>1, <4>3, <5>1, <5>2, ConsumedKeys
      <4>5. /\ r.event.down => r = KeyPress(r.addr, r.event.key)
            /\ \A a, k : r = KeyRelease(a, k) => ~r.event.down /\ k = r.event.key
        <5>1. r \in ProxyRequests
          BY <2>1, TakeType
        <5>2. r.event.down => r.event = KeyInput(r.event.key, TRUE)
          BY <2>1, <3>5, <4>1 DEF Inputs, KeyInput
        <5>3. \A e \in ProxyRequests : e.op = "Input" => e = InputRequest(e.event, e.addr)
          BY DEF ProxyRequests, InputRequest, TerminateRequest, ReenableRequest
        <5>4. \A k : KeyInput(k, FALSE).key = k /\ KeyInput(k, FALSE).down = FALSE
          BY DEF KeyInput
        <5>5. r.event.down => r = KeyPress(r.addr, r.event.key)
          <6>1. r = InputRequest(r.event, r.addr)
            BY <2>1, <5>1, <5>3
          <6> HIDE DEF r
          <6> QED BY <5>2, <6>1 DEF KeyPress
        <5>6. ASSUME NEW a, NEW k, r = KeyRelease(a, k) PROVE ~r.event.down /\ k = r.event.key
          <6>1. r.event = KeyInput(k, FALSE)
            BY <2>2, <5>6
          <6> QED BY <5>4, <6>1
        <5> QED BY <5>5, <5>6
      <4>6. Effect
        <5> SUFFICES ASSUME NEW a \in Addrs, handles'[a] # None, handles'[a] \notin carried',
                            NEW to \in pressed_keys'[handles'[a]]
                     PROVE  \/ \E k \in Keys : r = KeyPress(a, k) /\ Mapped(engine.map, k) = to
                            \/ /\ handles[a] # None /\ handles[a] \notin carried
                               /\ to \in pressed_keys[handles[a]]
                               /\ \A k \in Keys : r = KeyRelease(a, k) => Mapped(engine.map, k) # to
          BY <1>60, <4>2
        <5>1. CASE a # r.addr
          <6>1. handles'[a] = handles[a] /\ handles[a] \in Ids \ {h}
            BY <3>2, <5>1
          <6>2. \A k : r # KeyRelease(a, k)
            BY <2>2, <5>1
          <6> QED BY <1>00, <4>4, <6>1, <6>2
        <5>2. CASE a = r.addr /\ r.event.down
          <6>1. to \in pressed_keys[h] \cup {key}
            BY <3>2, <4>4, <5>2
          <6>2. CASE to = key
            BY <4>1, <4>5, <5>2, <6>2
          <6>3. CASE to \in pressed_keys[h]
            <7>1. handles[a] # None /\ handles[a] = h /\ h \notin carried
              BY <1>00, <2>5, <3>2, <3>3, <5>2, <6>3
            <7> QED BY <4>5, <5>2, <6>3, <7>1
          <6> QED BY <6>1, <6>2, <6>3
        <5>3. CASE a = r.addr /\ ~r.event.down
          <6>1. to \in pressed_keys[h] \ {key}
            BY <3>2, <4>4, <5>3
          <6>2. handles[a] # None /\ handles[a] = h /\ h \notin carried
            BY <1>00, <2>5, <3>2, <3>3, <5>3, <6>1
          <6> QED BY <4>5, <6>1, <6>2
        <5> QED BY <4>1, <5>1, <5>2, <5>3
      <4> QED BY <1>2, <1>3, <2>1, <4>2, <4>6
    <3> QED BY <3>4, <3>5
  <2> QED BY <2>4, <2>5
<1> QED
  BY <1>0, <1>8, <1>9, <1>10, <1>11, <1>12, <1>13, <1>14 DEF EmulationTaskNext, Goal

LEMMA ExplainedKept == IInv /\ IInv' /\ Explained /\ [Next]_vars => Explained'
<1> SUFFICES ASSUME IInv, IInv', Explained, [Next]_vars PROVE Explained'
  OBVIOUS
<1>1. TypeOK /\ HandlesDistinct'
  BY DEF IInv
<1>2. ASSUME UNCHANGED vars PROVE Explained'
  <2>1. \A a, k, i : StillHeld(a, k, i)' = StillHeld(a, k, i) /\ KeyPress(a, k)' = KeyPress(a, k)
    BY <1>2 DEF StillHeld, KeyPress, KeyRelease
  <2>2. EngineSteady' = EngineSteady
    BY <1>2 DEF EngineSteady, Pressed
  <2>3. PressesExplained' = PressesExplained
    BY <1>2, <2>1 DEF PressesExplained
  <2>4. KeysExplained' = KeysExplained
    BY <1>2, <2>1 DEF KeysExplained
  <2> QED BY <1>2, <2>2, <2>3, <2>4 DEF Explained
<1> QED BY <1>1, <1>2, ListenKeepsExplained, TaskKeepsExplained DEF Next

LEMMA ExplainedInit == Init => Explained
<1> SUFFICES ASSUME Init PROVE EngineSteady /\ PressesExplained /\ KeysExplained
  BY DEF Explained
<1> USE DEF Init, EmulationInit
<1>1. EngineSteady
  BY FreshSteady DEF EngineSteady, NewEngine
<1>2. PressesExplained /\ KeysExplained
  BY DEF PressesExplained, KeysExplained
<1> QED BY <1>1, <1>2

\* A device that has let go of all its keys has none down once its input has been taken,
\* whatever other devices do, however often emulation is lost and set up again in between,
\* whatever the keys are mapped to and however often that changes; but for the keys that
\* a change of the configuration overlooks.
THEOREM ReleasedKeysAreUp == Spec => []ReleasedKeysUp
<1>1. IInv /\ Explained => ReleasedKeysUp
  <2> SUFFICES ASSUME IInv, Explained,
                      NEW a \in Addrs,
                      held[a] = {}, handles[a] # None, handles[a] \notin carried, ~broken,
                      \A i \in DOMAIN proxy_requests : proxy_requests[i].op # "Input"
               PROVE  down[handles[a]] = {}
    BY DEF ReleasedKeysUp
  <2>1. \A k : ~StillHeld(a, k, 0)
    <3>1. \A k : KeyRelease(a, k).op = "Input"
      BY DEF KeyRelease, InputRequest
    <3> QED BY <3>1 DEF StillHeld
  <2>2. pressed_keys[handles[a]] = {}
    BY <2>1 DEF Explained, KeysExplained
  <2>3. down = pressed_keys
    BY DEF IInv, KeysKnown
  <2> QED BY <2>2, <2>3
<1> QED BY <1>1, ExplainedInit, ExplainedKept, InvariantHolds, PTL DEF Spec
==============================================================================
