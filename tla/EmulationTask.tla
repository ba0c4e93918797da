---------------------------- MODULE EmulationTask ----------------------------
(***************************************************************************)
(* The emulation task behind EmulationProxy, and the InputEmulation it      *)
(* owns: input of remote devices is remapped and given to the backend, one  *)
(* emulation handle per address, and whatever a device leaves pressed is    *)
(* released when it goes.                                                   *)
(*                                                                         *)
(* The backend (external) either takes an event or fails.  A key that it    *)
(* was given a press of, and no release, is down.  Everything but key       *)
(* events is one kind of input here.                                        *)
(***************************************************************************)
EXTENDS KeyRemap

CONSTANTS
  None,
  Addrs,              \* socket addresses of remote devices
  MaxIds,             \* bound: emulation handles given out
  MaxProxyRequests,   \* bound: requests waiting for the task
  MaxProxyEvents      \* bound: events waiting for the proxy

ASSUME EmulationAssumption ==
  /\ IsFiniteSet(Addrs)
  /\ MaxIds \in Nat /\ None \notin Nat
  /\ MaxProxyRequests \in Nat /\ MaxProxyEvents \in Nat
  /\ Configs # {}

VARIABLES
  proxy_requests,     \* ProxyRequest: proxy -> task
  proxy_events,       \* EmulationEnabled, EmulationDisabled: task -> proxy
  emulation_active,   \* EmulationProxy.emulation_active
  exit_requested,     \* shared by both
  ephase,             \* where run() is, see EPhases
  uncreated,          \* handles create_clients has yet to create
  handles,            \* EmulationTask.handles
  next_id,
  key_remap,          \* EmulationTask.key_remap, the configuration
  engine,             \* the session's KeyRemapEngine
  created,            \* InputEmulation.handles
  pressed_keys,       \* InputEmulation.pressed_keys
  down,               \* external: keys the backend holds down
  broken              \* external: the backend has failed to release a key

proxyVars == <<proxy_requests, proxy_events, emulation_active, exit_requested>>
etaskVars == <<ephase, uncreated, handles, next_id, key_remap, engine>>
inputVars == <<created, pressed_keys, down, broken>>
emulationVars == <<proxyVars, etaskVars, inputVars>>

EPhases == {"new",       \* InputEmulation::new is pending
            "create",    \* create_clients
            "session",   \* do_emulation_session
            "idle",      \* waiting for Reenable
            "stopped"}

Ids == 0 .. MaxIds - 1

KeyInput(k, d) == [kind |-> "Key", key |-> k, down |-> d]
OtherInput == [kind |-> "Other"]
Inputs == [kind: {"Key"}, key: Keys, down: BOOLEAN] \cup {OtherInput}

InputRequest(e, a) == [op |-> "Input", event |-> e, addr |-> a]
RemoveRequest(a) == [op |-> "Remove", addr |-> a]
UpdateRequest(c) == [op |-> "UpdateKeyRemap", config |-> c]
TerminateRequest == [op |-> "Terminate"]
ReenableRequest == [op |-> "Reenable"]

ProxyRequests ==
  [op: {"Input"}, event: Inputs, addr: Addrs] \cup [op: {"Remove"}, addr: Addrs]
    \cup [op: {"UpdateKeyRemap"}, config: Configs] \cup {TerminateRequest, ReenableRequest}

Engines == [map: {ScancodeMap(c) : c \in Configs},
            pressed: UNION {[D -> Keys] : D \in SUBSET Modifiers}]

EmulationTypeOK ==
  /\ proxy_requests \in Seq(ProxyRequests)
  /\ proxy_events \in Seq({"Enabled", "Disabled"})
  /\ emulation_active \in BOOLEAN /\ exit_requested \in BOOLEAN
  /\ ephase \in EPhases
  /\ uncreated \in SUBSET Ids
  /\ handles \in [Addrs -> Ids \cup {None}]
  /\ next_id \in 0 .. MaxIds
  /\ key_remap \in Configs
  /\ engine \in Engines
  /\ created \in SUBSET Ids
  /\ pressed_keys \in [Ids -> SUBSET Keys]
  /\ down \in [Ids -> SUBSET Keys]
  /\ broken \in BOOLEAN

EmulationInit ==
  /\ proxy_requests = <<>> /\ proxy_events = <<>>
  /\ emulation_active = FALSE /\ exit_requested = FALSE
  /\ ephase = "new"
  /\ uncreated = {}
  /\ handles = [a \in Addrs |-> None]
  /\ next_id = 0
  /\ key_remap \in Configs
  /\ engine = NewEngine(key_remap)
  /\ created = {}
  /\ pressed_keys = [h \in Ids |-> {}]
  /\ down = [h \in Ids |-> {}]
  /\ broken = FALSE

InUse == {handles[a] : a \in Addrs} \ {None}

------------------------------------------------------------------------------
\* EmulationProxy: input is discarded while emulation is not known to be active.
Send(r) ==
  /\ Len(proxy_requests) < MaxProxyRequests
  /\ proxy_requests' = Append(proxy_requests, r)

Consume(e, a) ==
  IF emulation_active THEN Send(InputRequest(e, a)) ELSE UNCHANGED proxy_requests

\* EmulationProxy::terminate, up to the await of the task.
ProxyTerminate ==
  /\ exit_requested' = TRUE
  /\ proxy_requests' = Append(proxy_requests, TerminateRequest)

\* Mutant: EmulationDisabled is passed on, and that is all.
ProxyStaysActive ==
  /\ proxy_events # <<>>
  /\ proxy_events' = Tail(proxy_events)
  /\ emulation_active' = (emulation_active \/ Head(proxy_events) = "Enabled")
  /\ UNCHANGED <<proxy_requests, exit_requested, etaskVars, inputVars>>

\* EmulationProxy::event
ProxyEvent ==
  /\ proxy_events # <<>>
  /\ proxy_events' = Tail(proxy_events)
  /\ emulation_active' = (Head(proxy_events) = "Enabled")
  /\ UNCHANGED <<proxy_requests, exit_requested, etaskVars, inputVars>>

------------------------------------------------------------------------------
\* What the task gets out of its channel.
Take(op) ==
  /\ proxy_requests # <<>>
  /\ Head(proxy_requests).op = op
  /\ proxy_requests' = Tail(proxy_requests)
  /\ UNCHANGED <<emulation_active, exit_requested>>

\* Mutant: exit_requested is not looked at.
ReturnedIdle == "idle"

\* do_emulation has returned.
Returned == IF exit_requested THEN "stopped" ELSE "idle"

\* InputEmulation::new succeeds, and a session is set up, or it fails.
NewEmulation ==
  /\ ephase = "new"
  /\ \/ /\ Len(proxy_events) + 2 <= MaxProxyEvents   \* both that the guard sends
        /\ ephase' = "create"
        /\ uncreated' = InUse
        /\ engine' = NewEngine(key_remap)
        /\ proxy_events' = Append(proxy_events, "Enabled")
     \/ /\ ephase' = Returned
        /\ UNCHANGED <<uncreated, engine, proxy_events>>
  /\ UNCHANGED <<proxy_requests, emulation_active, exit_requested,
                 handles, next_id, key_remap, inputVars>>

\* Mutant: there is one handle, the last one created.
CreatedOnly(h) == created' = {h}

\* InputEmulation::create
Created(h) == created' = created \cup {h}

\* create_clients
CreateClients ==
  /\ ephase = "create"
  /\ \/ \E h \in uncreated :
          /\ uncreated' = uncreated \ {h}
          /\ Created(h)
          /\ UNCHANGED ephase
     \/ /\ uncreated = {}
        /\ ephase' = "session"
        /\ UNCHANGED <<uncreated, created>>
  /\ UNCHANGED <<proxyVars, handles, next_id, key_remap, engine,
                 pressed_keys, down, broken>>

\* wait_for_termination, while InputEmulation::new or create is pending: the
\* requests it takes are gone.  Terminate ends do_emulation, but only ends
\* create_clients, after which the session begins: the handle whose create is
\* abandoned may have been entered already.
WaitForTermination ==
  /\ \/ ephase = "new"
     \/ ephase = "create" /\ uncreated # {}
  /\ \/ /\ Take("Terminate")
        /\ ephase' = IF ephase = "new" THEN Returned ELSE "session"
        /\ uncreated' = {}
        /\ UNCHANGED created \/ \E h \in uncreated : Created(h)
        /\ UNCHANGED key_remap
     \/ /\ Take("UpdateKeyRemap")
        /\ key_remap' = Head(proxy_requests).config
        /\ UNCHANGED <<ephase, uncreated, created>>
     \/ \E op \in {"Input", "Remove", "Reenable"} :
          /\ Take(op)
          /\ UNCHANGED <<ephase, uncreated, created, key_remap>>
  /\ UNCHANGED <<proxy_events, handles, next_id, engine, pressed_keys, down, broken>>

\* run()'s inner loop.
IdleRequest ==
  /\ ephase = "idle"
  /\ \/ /\ Take("Reenable")
        /\ ephase' = "new"
        /\ UNCHANGED key_remap
     \/ /\ Take("Terminate")
        /\ ephase' = "stopped"
        /\ UNCHANGED key_remap
     \/ /\ Take("UpdateKeyRemap")
        /\ key_remap' = Head(proxy_requests).config
        /\ UNCHANGED ephase
     \/ \E op \in {"Input", "Remove"} :
          /\ Take(op)
          /\ UNCHANGED <<ephase, key_remap>>
  /\ UNCHANGED <<proxy_events, uncreated, handles, next_id, engine, inputVars>>

------------------------------------------------------------------------------
\* Mutant: destroy forgets the keys without releasing them.
ForgetKeys(H, pressed, held, failed) ==
  /\ down' = held
  /\ broken' = failed

\* release_keys of the handles in H: the keys are drained before the backend is
\* asked, and the first error leaves the rest of them, left, down.
ReleaseKeys(H, pressed, held, failed) ==
  \E left \in [H -> SUBSET Keys] :
    /\ \A h \in H : left[h] \subseteq pressed[h]
    /\ down' = [h \in Ids |-> IF h \in H THEN held[h] \ (pressed[h] \ left[h]) ELSE held[h]]
    /\ broken' = (failed \/ \E h \in H : left[h] # {})

\* The session is over: InputEmulation::terminate destroys every handle, the
\* guard reports EmulationDisabled.  pressed, held and failed are as the last
\* event left them.
EndSession(made, pressed, held, failed) ==
  /\ ReleaseKeys(made, pressed, held, failed)
  /\ created' = {}
  /\ pressed_keys' = [h \in Ids |-> {}]
  /\ ephase' = Returned
  /\ proxy_events' = Append(proxy_events, "Disabled")

\* update_pressed_keys: the keys of a handle after an event, if it has any effect.
Toggles(made, h, k, d) == h \in made /\ (k \notin pressed_keys[h] <=> d)
Updated(h, k, d) ==
  [pressed_keys EXCEPT ![h] = IF d THEN @ \cup {k} ELSE @ \ {k}]
Given(h, k, d) == [down EXCEPT ![h] = IF d THEN @ \cup {k} ELSE @ \ {k}]

\* InputEmulation::consume of key k: an event without effect is dropped, the
\* backend takes it, or fails, which ends the session.
ConsumeKey(made, h, k, d) ==
  \/ /\ ~Toggles(made, h, k, d)
     /\ created' = made
     /\ UNCHANGED <<ephase, proxy_events, pressed_keys, down, broken>>
  \/ /\ Toggles(made, h, k, d)
     /\ created' = made
     /\ pressed_keys' = Updated(h, k, d)
     /\ down' = Given(h, k, d)
     /\ UNCHANGED <<ephase, proxy_events, broken>>
  \/ /\ Toggles(made, h, k, d)
     /\ EndSession(made, Updated(h, k, d), down, broken \/ ~d)

ConsumeOther(made) ==
  \/ /\ created' = made
     /\ UNCHANGED <<ephase, proxy_events, pressed_keys, down, broken>>
  \/ EndSession(made, pressed_keys, down, broken)

\* Input of an address, which gets a handle with its first one.  When there are
\* no more of them, which is the bound MaxIds, the input is dropped.
SessionInput ==
  /\ ephase = "session"
  /\ Take("Input")
  /\ LET r == Head(proxy_requests)
         known == handles[r.addr] # None
         h == IF known THEN handles[r.addr] ELSE next_id
         made == IF known THEN created ELSE created \cup {h}
     IN \/ /\ h \in Ids
           /\ handles' = [handles EXCEPT ![r.addr] = h]
           /\ next_id' = IF known THEN next_id ELSE next_id + 1
           /\ \/ /\ r.event = OtherInput
                 /\ ConsumeOther(made)
                 /\ UNCHANGED engine
              \/ /\ r.event # OtherInput
                 /\ LET m == RemapKey(engine, r.event.key, r.event.down)
                    IN /\ engine' = m.engine
                       /\ ConsumeKey(made, h, m.key, r.event.down)
        \/ /\ h \notin Ids
           /\ UNCHANGED <<proxy_events, ephase, handles, next_id, engine, inputVars>>
  /\ UNCHANGED <<uncreated, key_remap>>

\* Remove: the engine forgets all modifiers, the handle is destroyed.
SessionRemove ==
  /\ ephase = "session"
  /\ Take("Remove")
  /\ LET a == Head(proxy_requests).addr
     IN IF handles[a] = None
        THEN UNCHANGED <<handles, engine, inputVars>>
        ELSE /\ handles' = [handles EXCEPT ![a] = None]
             /\ engine' = Reset(engine)
             /\ ReleaseKeys({handles[a]} \cap created, pressed_keys, down, broken)
             /\ created' = created \ {handles[a]}
             /\ pressed_keys' = [pressed_keys EXCEPT ![handles[a]] = {}]
  /\ UNCHANGED <<proxy_events, ephase, uncreated, next_id, key_remap>>

\* UpdateKeyRemap: the modifiers that are down are released on the handle of
\* some address, errors are ignored, then the engine is built anew.
SessionUpdate ==
  /\ ephase = "session"
  /\ Take("UpdateKeyRemap")
  /\ key_remap' = Head(proxy_requests).config
  /\ engine' = NewEngine(key_remap')
  /\ IF InUse = {}
     THEN UNCHANGED <<pressed_keys, down, broken>>
     ELSE \E h \in InUse :
            LET stuck == IF h \in created THEN Drained(engine) \cap pressed_keys[h] ELSE {}
            IN /\ pressed_keys' = [pressed_keys EXCEPT ![h] = @ \ stuck]
               /\ \E lost \in SUBSET stuck :
                    /\ down' = [down EXCEPT ![h] = @ \ (stuck \ lost)]
                    /\ broken' = (broken \/ lost # {})
  /\ UNCHANGED <<proxy_events, ephase, uncreated, handles, next_id, created>>

SessionTerminate ==
  /\ ephase = "session"
  /\ Take("Terminate")
  /\ EndSession(created, pressed_keys, down, broken)
  /\ UNCHANGED <<uncreated, handles, next_id, key_remap, engine>>

SessionReenable ==
  /\ ephase = "session"
  /\ Take("Reenable")
  /\ UNCHANGED <<proxy_events, etaskVars, inputVars>>

EmulationTaskNext ==
  \/ NewEmulation \/ CreateClients \/ WaitForTermination \/ IdleRequest
  \/ SessionInput \/ SessionRemove \/ SessionUpdate
  \/ SessionTerminate \/ SessionReenable
==============================================================================
