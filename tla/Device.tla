-------------------------------- MODULE Device --------------------------------
(***************************************************************************)
(* The sending half of one device: the service's client registry and the   *)
(* capture task, joined by their two channels.                             *)
(*                                                                         *)
(* The service leaves its loop on Ctrl-C and cancels the capture task, so   *)
(* it takes no step once the token is cancelled; nor does it once the      *)
(* capture task has panicked and closed its channel.                       *)
(***************************************************************************)
EXTENDS ClientRegistry, CaptureTask

vars == <<channelVars, registryVars, captureTaskVars>>

TypeOK == ChannelTypeOK /\ RegistryTypeOK /\ TaskTypeOK

Init == ChannelInit /\ RegistryInit /\ TaskInit

ServiceStep ==
  /\ ~cancelled
  /\ phase # "panicked"
  /\ RegistryNext
  /\ UNCHANGED captureTaskVars

\* The tasks are spawned before the service runs, but none is polled before
\* the service first awaits.
TaskStep ==
  /\ Started
  /\ CaptureTaskNext
  /\ UNCHANGED registryVars

Next == ServiceStep \/ TaskStep

Spec == Init /\ [][Next]_vars

\* The same between two changes of the clients' configuration: whatever is
\* active after the start stays active, where it is, and the configuration the
\* device starts with has no two active clients at one position.  A client that is
\* not active takes no part, so there is none.
SettledInit ==
  /\ Init
  /\ booting = clients
  /\ \A c, d \in booting : pos[c] = pos[d] => c = d

SettledStep == ServiceStep /\ UNCHANGED <<clients, pos>> /\ (Started => UNCHANGED active)
SettledSpec == SettledInit /\ [][SettledStep \/ TaskStep]_vars

\* What the runtime guarantees: an arm of a select! that stays ready is taken in
\* the end (tokio polls the arms in random order), and so is the service's.  Of
\* the user, the network and the backend nothing is assumed: a call of the
\* backend may never return, see BackendHangs.
Fairness ==
  /\ WF_vars(Started /\ (PollPending \/ PollBackend) /\ UNCHANGED registryVars)
  /\ WF_vars(Started /\ CreateCaptures /\ UNCHANGED registryVars)
  /\ WF_vars(Started /\ NoticeCancelled /\ UNCHANGED registryVars)
  /\ WF_vars(~cancelled /\ ServiceCaptureEvent /\ UNCHANGED captureTaskVars)

FairSpec == Spec /\ Fairness
------------------------------------------------------------------------------
\* Two active clients never share a position: activate_client evicts the one
\* that is there, update_pos re-activates at the new position.
OneActivePerPosition ==
  \A c, d \in active : pos[c] = pos[d] => c = d

\* An address has one registered incoming device, and exactly the addresses in
\* incoming_conns have one: the lookup in update_incoming cannot fail.
IncomingAgree ==
  /\ incoming_conns = {i.addr : i \in incoming_conn_info}
  /\ \A i, j \in incoming_conn_info : i.addr = j.addr => i = j

\* Request i creates or destroys the barrier of handle h; it is the first or the
\* last one in the channel that does; i and j are two such in a row.
About(h, i) == requests[i].op \in {"Create", "Destroy"} /\ requests[i].handle = h
FirstAbout(h, i) == About(h, i) /\ \A k \in 1 .. i - 1 : ~About(h, k)
LastAbout(h, i) == About(h, i) /\ \A k \in i + 1 .. Len(requests) : ~About(h, k)
InARow(h, i, j) ==
  /\ About(h, i) /\ About(h, j)
  /\ \A k \in i + 1 .. j - 1 : ~About(h, k)

WantedFor(h) == {c \in Wanted : c.handle = h}

\* Once the capture task has caught up with its channel, it watches exactly the
\* barriers the service wants, whatever was activated, moved, deleted, entered
\* or lost in the meantime: the last request about a handle says what the
\* service wants for it, and without one the task has it already.
CaughtUpAgrees ==
  \A h \in Handles :
    /\ (\A i \in 1 .. Len(requests) : ~About(h, i)) => CapturesOf(h) = WantedFor(h)
    /\ \A i \in 1 .. Len(requests) :
         LastAbout(h, i) =>
           WantedFor(h) = IF requests[i].op = "Destroy" THEN {}
                          ELSE {Capture(h, requests[i].pos, requests[i].type)}

\* Every Create the capture task will receive finds its handle free, and every
\* Destroy finds it registered: what assert! and expect() in InputCapture ask.
RequestsLegal ==
  \A h \in Handles : \A i \in 1 .. Len(requests) :
    /\ FirstAbout(h, i) => (requests[i].op = "Create" <=> CapturesOf(h) = {})
    /\ \A j \in i + 1 .. Len(requests) :
         InARow(h, i, j) => requests[i].op # requests[j].op

\* Barriers of incoming devices only ever release: the device being controlled
\* is a configured client, and nothing is sent to any other handle.
OnlyClientsControlled ==
  /\ active_client \in ClientHandles \cup {None}
  /\ \A i \in DOMAIN sent : sent[i].to \in ClientHandles

\* Input is sent to the active client, or after a release (events the backend
\* had queued), but never to one client while another one is active.
InputFollowsActive ==
  \A i \in DOMAIN sent :
    sent[i].msg = "Input" => sent[i].active \in {None, sent[i].to}

\* Input that InputCapture yields for the barrier of one client, accumulated or not,
\* is never sent to another.
MotionStaysWithClient ==
  \A i \in DOMAIN sent : sent[i].msg = "Input" => sent[i].src \subseteq {sent[i].to}

\* expect("no such capture"): while the service runs, the capture task is only
\* ever given events of handles it has registered.
NoSuchCaptureNever == ~cancelled => phase # "panicked"

\* The key that completes the release bind is among the captured events.
BindQueued(p) ==
  \E i \in DOMAIN backend_events : \E k \in ReleaseBind :
    /\ backend_events[i] = <<p, KeyEvent(k, TRUE)>>
    /\ ReleaseBind \ {k} \subseteq pressed_keys
    /\ \A j \in 1 .. i - 1 : backend_events[j][2] \notin [kind: {"Key"}, key: ReleaseBind, down: {FALSE}]

\* The task waits for a call of the backend that never returns.
InBackend == phase \in {"stalled", "hung"}

\* "Release bind (return control to host)": once it is pressed the grab ends,
\* whatever is registered, pending or being sent, unless the task is parked or a
\* call of the backend does not return.
ReleaseBindFrees ==
  \A p \in Positions :
    (grabbed = p /\ BindQueued(p)) ~> (grabbed # p \/ parked \/ InBackend)

\* The same without the exception for a parked task.
ReleaseBindAlwaysFrees ==
  \A p \in Positions :
    (grabbed = p /\ BindQueued(p)) ~> (grabbed # p \/ InBackend)

\* A grab that no client stands behind, because only a device that came in is
\* at its position, ends with the first event that is captured.
OrphanFreed ==
  \A p \in Positions :
    (grabbed = p /\ ~IsDefaultCaptureAt(p) /\ \E i \in DOMAIN backend_events : backend_events[i][1] = p)
      ~> (grabbed # p \/ IsDefaultCaptureAt(p) \/ parked \/ InBackend)

\* After cancellation the capture task ends: InputCapture is dropped, with it
\* any grab, wherever the task was waiting, in a create() that never returns
\* included; only a call that is not raced with the token (release, create and
\* destroy of a session, terminate) can keep it.
ShutdownCompletes == cancelled ~> phase \in {"stopped", "panicked", "hung"}
==============================================================================
