------------------------------ MODULE Emulation ------------------------------
(***************************************************************************)
(* The receiving half of one device: ListenTask, which takes messages from  *)
(* the listener, requests from the service and a 5 s timer, and passes on   *)
(* to the emulation task what concerns it.                                  *)
(*                                                                         *)
(* The listener and the network (external) deliver any message of a known   *)
(* address at any time, in any order: what was lost or delayed is never     *)
(* told.  A device may fall silent for good.  Time is not modelled: when    *)
(* the timer fires, any devices may have been silent for more than 1 s.     *)
(* Messages that the task hands to the listener or the service and that no  *)
(* state here depends on (Ack, Pong, Leave; port and connection reports)    *)
(* are left out.                                                            *)
(***************************************************************************)
EXTENDS EmulationTask, SequencesExt

CONSTANTS
  RemoteKeys,    \* keys the remote keyboards have
  MaySilent,     \* bound: devices that may fall silent for good
  MaxUpdates     \* bound: changes of the remap configuration

ASSUME ListenAssumption ==
  /\ RemoteKeys \subseteq Keys
  /\ MaySilent \subseteq Addrs
  /\ MaxUpdates \in Nat

VARIABLES
  listening,      \* ListenTask::run is in its loop
  last_response,  \* addresses the timer watches
  registered,     \* addresses the service has been told Entered, not Disconnected
  silent,         \* external: devices that send nothing any more
  held,           \* history: keys pressed and not released by the input passed on
  updates,        \* changes of the remap configuration so far
  carried         \* history: handles with keys down that such a change overlooked

listenVars == <<listening, last_response, registered, silent, held, updates>>
vars == <<emulationVars, listenVars, carried>>

TypeOK ==
  /\ EmulationTypeOK
  /\ listening \in BOOLEAN
  /\ last_response \in SUBSET Addrs
  /\ registered \in SUBSET Addrs
  /\ silent \in SUBSET MaySilent
  /\ held \in [Addrs -> SUBSET RemoteKeys]
  /\ updates \in 0 .. MaxUpdates
  /\ carried \in SUBSET Ids

Init ==
  /\ EmulationInit
  /\ listening = TRUE
  /\ last_response = {} /\ registered = {} /\ silent = {}
  /\ held = [a \in Addrs |-> {}]
  /\ updates = 0
  /\ carried = {}

------------------------------------------------------------------------------
\* A message of address a has come in.
Heard(a) ==
  /\ listening
  /\ a \notin silent
  /\ last_response' = last_response \cup {a}
  /\ UNCHANGED <<proxy_events, emulation_active, exit_requested, etaskVars, inputVars,
                 listening, silent, updates>>

\* Enter: the service is told, unless the connection is gone by now.
HearEnter(a) ==
  /\ Heard(a)
  /\ registered' \in {registered, registered \cup {a}}
  /\ UNCHANGED <<proxy_requests, held>>

HearLeave(a) ==
  /\ Heard(a)
  /\ Send(RemoveRequest(a))
  /\ UNCHANGED <<registered, held>>

HearKey(a, k, d) ==
  /\ Heard(a)
  /\ Consume(KeyInput(k, d), a)
  /\ held' = IF ~emulation_active THEN held
             ELSE [held EXCEPT ![a] = IF d THEN @ \cup {k} ELSE @ \ {k}]
  /\ UNCHANGED registered

HearOther(a) ==
  /\ Heard(a)
  /\ Consume(OtherInput, a)
  /\ UNCHANGED <<registered, held>>

\* Ping, and what is ignored.
HearPing(a) ==
  /\ Heard(a)
  /\ UNCHANGED <<proxy_requests, registered, held>>

\* Mutants: the timer does not remove the device from the proxy; and it does not
\* tell the service.
TickUnreleased(S) ==
  /\ listening
  /\ S # {} /\ S \subseteq last_response
  /\ last_response' = last_response \ S
  /\ registered' = registered \ S
  /\ UNCHANGED <<emulationVars, listening, silent, held, updates>>

\* The timer: addresses that have not been heard for a while are removed.
Tick(S) ==
  /\ listening
  /\ S # {} /\ S \subseteq last_response
  /\ Len(proxy_requests) + Cardinality(S) <= MaxProxyRequests
  /\ \E order \in SetToSeqs(S) :
       proxy_requests' = proxy_requests \o [i \in DOMAIN order |-> RemoveRequest(order[i])]
  /\ last_response' = last_response \ S
  /\ registered' = registered \ S
  /\ UNCHANGED <<proxy_events, emulation_active, exit_requested, etaskVars, inputVars,
                 listening, silent, held, updates>>

\* Requests of the service.
RequestReenable ==
  /\ listening
  /\ Send(ReenableRequest)
  /\ UNCHANGED <<proxy_events, emulation_active, exit_requested, etaskVars, inputVars, listenVars>>

RequestUpdate(c) ==
  /\ listening
  /\ updates < MaxUpdates
  /\ updates' = updates + 1
  /\ Send(UpdateRequest(c))
  /\ UNCHANGED <<proxy_events, emulation_active, exit_requested, etaskVars, inputVars,
                 listening, last_response, registered, silent, held>>

\* Terminate: the loop ends, the connections are closed, the proxy terminates.
RequestTerminate ==
  /\ listening
  /\ listening' = FALSE
  /\ ProxyTerminate
  /\ UNCHANGED <<proxy_events, emulation_active, etaskVars, inputVars,
                 last_response, registered, silent, held, updates>>

\* EmulationProxy::event is polled in the loop only.
Report == listening /\ ProxyEvent /\ UNCHANGED listenVars

\* External: a device falls silent.
FallSilent(a) ==
  /\ a \in MaySilent \ silent
  /\ silent' = silent \cup {a}
  /\ UNCHANGED <<emulationVars, listening, last_response, registered, held, updates>>

ListenNext ==
  \/ \E a \in Addrs :
       \/ HearEnter(a) \/ HearLeave(a) \/ HearOther(a) \/ HearPing(a)
       \/ \E k \in RemoteKeys, d \in BOOLEAN : HearKey(a, k, d)
       \/ FallSilent(a)
  \/ \E S \in SUBSET last_response : Tick(S)
  \/ RequestReenable \/ RequestTerminate
  \/ \E c \in Configs : RequestUpdate(c)
  \/ Report

\* When the configuration is changed, the code lets go of the modifiers that the
\* engine knows to be down, on the handle of one address.  That may leave keys of h
\* down if there are several, if a key of h is no modifier, or if the engine was
\* reset as another device was removed.
Overlooked(h) ==
  \/ InUse # {h}
  \/ \E to \in pressed_keys[h] : \A m \in Pressed(engine) : engine.pressed[m] # to

\* History: handles that were overlooked, until they have no key down.
Carry ==
  carried' = {h \in Ids :
                /\ pressed_keys'[h] # {}
                /\ h \in carried \/ (Take("UpdateKeyRemap") /\ Overlooked(h))}

Task == EmulationTaskNext /\ Carry /\ UNCHANGED listenVars

Next == (ListenNext /\ UNCHANGED carried) \/ Task

Spec == Init /\ [][Next]_vars

\* The runtime polls the arms of a select! in random order, so each task gets on
\* with what it can do; InputEmulation::new and create return; the timer goes on,
\* and by then a silent device has been silent for long enough.  Fairness of the
\* timer is strong for the sake of MaxProxyRequests, which the code does not have:
\* a channel that is full in the model would put it off again and again.
TickSilent == \E S \in SUBSET last_response : silent \cap last_response \subseteq S /\ Tick(S)

Fairness ==
  /\ WF_vars(Task)
  /\ WF_vars(Report /\ UNCHANGED carried)
  /\ SF_vars(TickSilent /\ UNCHANGED carried)

FairSpec == Spec /\ Fairness
------------------------------------------------------------------------------
\* The emulation task was told to terminate while it created handles: it took
\* the request and began a session that nothing will end.
Swallowed ==
  /\ ephase = "session" /\ exit_requested
  /\ \A i \in DOMAIN proxy_requests : proxy_requests[i].op # "Terminate"

\* In a session the backend has exactly the handles that addresses use, each
\* address its own, and no handle is given out twice.
HandlesAgree ==
  /\ ephase = "session" /\ ~exit_requested => created = InUse
  /\ \A a, b \in Addrs : handles[a] = handles[b] /\ handles[a] # None => a = b
  /\ \A h \in InUse : h < next_id

\* What the backend holds down is what InputEmulation will release when the
\* handle is destroyed or the session ends: outside a session nothing is down.
NoStuckKeys ==
  ~broken => \A h \in Ids :
    /\ down[h] = pressed_keys[h]
    /\ down[h] # {} => ephase = "session" /\ h \in created /\ h \in InUse

\* A device that keys are down for, whose input is still to be emulated or that the
\* service has a barrier for is watched by the timer, unless its removal is on the
\* way behind that input.
InputWatched ==
  listening =>
    /\ registered \subseteq last_response
    /\ \A a \in Addrs :
         LET inputs == {i \in DOMAIN proxy_requests :
                          proxy_requests[i].op = "Input" /\ proxy_requests[i].addr = a}
             removes == {i \in DOMAIN proxy_requests : proxy_requests[i] = RemoveRequest(a)}
             pending == inputs # {} \/ (handles[a] # None /\ pressed_keys[handles[a]] # {})
         IN pending /\ a \notin last_response => \E r \in removes : \A i \in inputs : i < r

\* Once a device has let go of all its keys, and the task has caught up, none is
\* down on its behalf, whatever other devices do (the engine is one for all of
\* them, and is reset when one is removed), wherever the task was when it was told,
\* and however often the remap configuration was changed.  What the code does not
\* keep up is excepted: keys that a change of the configuration overlooks.
ReleasedKeysUp ==
  \A a \in Addrs :
    /\ held[a] = {} /\ handles[a] # None /\ ~broken
    /\ handles[a] \notin carried
    /\ \A i \in DOMAIN proxy_requests : proxy_requests[i].op # "Input"
    => down[handles[a]] = {}

\* The proxy's idea of whether emulation is active is the task's, once it has
\* seen the task's events.
EmulationStatusAgrees ==
  LET last == IF proxy_events # <<>> THEN proxy_events[Len(proxy_events)]
              ELSE IF emulation_active THEN "Enabled" ELSE "Disabled"
  IN listening => (last = "Enabled" <=> ephase \in {"create", "session"})

\* "releasing keys: not responding!": a device that falls silent is forgotten,
\* and no key stays down for it.
SilentReleased ==
  \A a \in Addrs :
    /\ (a \in silent /\ handles[a] # None /\ down[handles[a]] # {})
         ~> (handles[a] = None \/ down[handles[a]] = {} \/ broken \/ Swallowed)
    /\ (a \in silent /\ a \in registered) ~> (a \notin registered \/ ~listening)

\* After terminate the emulation task ends.
TerminateEnds == exit_requested ~> ephase = "stopped"

\* The same, but for a request that create_clients takes.
TerminateEndsUnlessSwallowed == exit_requested ~> (ephase = "stopped" \/ Swallowed)
==============================================================================
