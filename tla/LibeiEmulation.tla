---------------------------- MODULE LibeiEmulation ----------------------------
(***************************************************************************)
(* Emulation through libei: the server (external) announces, resumes,      *)
(* pauses and removes devices, or closes the connection; a task of its own *)
(* takes these events and keeps the device that was announced last.        *)
(* Input counts for the server if it is sent to a device that exists and   *)
(* has been started since it was resumed.  A device that is paused or      *)
(* removed lets go of its keys.                                            *)
(*                                                                         *)
(* Every device here has a keyboard, a pointer, buttons and scrolling: one *)
(* that lacks some of them replaces the one before only in those it has.   *)
(***************************************************************************)
EXTENDS EmulationSink

CONSTANTS
  MaxEiDevices,      \* bound: devices announced
  MaxEiServerEvents  \* bound: events of the server that wait for the task

ASSUME LibeiSinkAssumption == MaxEiDevices \in Nat /\ MaxEiServerEvents \in Nat

VARIABLES
  server_devices,    \* external: "paused", "resumed" or "started" for each there is
  announced,         \* external: devices so far
  connected,         \* external
  ei_events,         \* from the server to the task
  ei_device,         \* of devices, 0 if none
  libei_error,
  ei_error           \* error is Some

libeiSinkVars == <<server_devices, announced, connected, ei_events, ei_device, libei_error,
                   ei_error>>

LibeiSinkInit ==
  /\ server_devices = <<>> /\ announced = 0
  /\ connected = TRUE
  /\ ei_events = <<>>
  /\ ei_device = 0
  /\ libei_error = FALSE /\ ei_error = FALSE

EiTell(op, k) ==
  /\ connected
  /\ Len(ei_events) < MaxEiServerEvents
  /\ ei_events' = Append(ei_events, [op |-> op, device |-> k])
  /\ UNCHANGED <<frontVars, posted, dropped, ei_device, libei_error, ei_error>>

LetGo(D) == keys_down' = {kk \in keys_down : kk[1] \notin D}

\* External.
ServerAdds ==
  /\ announced < MaxEiDevices
  /\ server_devices' = server_devices @@ (announced + 1 :> "paused")
  /\ announced' = announced + 1
  /\ EiTell("Added", announced + 1)
  /\ UNCHANGED <<keys_down, connected>>

ServerResumes ==
  \E k \in DOMAIN server_devices :
    /\ server_devices[k] = "paused"
    /\ server_devices' = [server_devices EXCEPT ![k] = "resumed"]
    /\ EiTell("Resumed", k)
    /\ UNCHANGED <<keys_down, announced, connected>>

ServerPauses ==
  \E k \in DOMAIN server_devices :
    /\ server_devices[k] # "paused"
    /\ server_devices' = [server_devices EXCEPT ![k] = "paused"]
    /\ LetGo({k})
    /\ EiTell("Paused", k)
    /\ UNCHANGED <<announced, connected>>

ServerRemoves ==
  \E k \in DOMAIN server_devices :
    /\ server_devices' = Restrict(server_devices, DOMAIN server_devices \ {k})
    /\ LetGo({k})
    /\ EiTell("Removed", k)
    /\ UNCHANGED <<announced, connected>>

ServerDisconnects ==
  /\ EiTell("Disconnected", 0)
  /\ connected' = FALSE
  /\ server_devices' = <<>>
  /\ keys_down' = {}
  /\ UNCHANGED announced

\* ei_event_handler: a device that is announced replaces the one before, one that is
\* resumed is started, and one that is paused or removed stays.  The flush behind every
\* event fails when the connection is gone.  After an error ei_task takes no more events.
EiTask ==
  /\ ei_events # <<>> /\ ~libei_error
  /\ ei_events' = Tail(ei_events)
  /\ LET e == Head(ei_events)
         lost == e.op = "Disconnected"
     IN /\ ei_device' = IF e.op = "Added" THEN e.device ELSE ei_device
        /\ server_devices' =
             [k \in DOMAIN server_devices |->
                IF e = [op |-> "Resumed", device |-> k] /\ server_devices[k] = "resumed"
                THEN "started" ELSE server_devices[k]]
        /\ \/ lost /\ libei_error' = TRUE /\ ei_error' = TRUE
           \/ ~lost /\ UNCHANGED <<libei_error, ei_error>>
           \/ ~lost /\ ~connected /\ libei_error' = TRUE /\ ei_error' = TRUE
  /\ UNCHANGED <<sinkVars, announced, connected>>

EiInput == \E op \in {"key", "modifiers"} \cup PointerOps : InCall(op)

\* consume: the error of the task, once.
EiTakeError ==
  /\ EiInput /\ ei_error
  /\ ei_error' = FALSE
  /\ Fail /\ PostNothing
  /\ UNCHANGED <<server_devices, announced, connected, ei_events, ei_device, libei_error>>

\* What it is sent to counts if it exists and has been started.
EiCounts == ei_device \in DOMAIN server_devices /\ server_devices[ei_device] = "started"

EiPosts ==
  \/ InCall("button") /\ PostButton(Head(calls).button)
  \/ InCall("motion") /\ PostMotion(AskedMotion)
  \/ InCall("axis") /\ PostAxis(AskedAxis)
  \/ InCall("scroll") /\ PostScroll(AskedScroll)

\* Otherwise the event is sent, modifiers excepted, and flushed,
EiConsume ==
  /\ EiInput /\ ~ei_error /\ connected
  /\ IF InCall("key") /\ EiCounts THEN PostKey(ei_device, Head(calls).key, Head(calls).down)
     ELSE UNCHANGED keys_down
  /\ IF Head(calls).op \in PointerOps /\ EiCounts THEN EiPosts ELSE UNCHANGED posted
  /\ Return
  /\ UNCHANGED libeiSinkVars

\* which fails when there is no connection.
EiFlushFails ==
  /\ EiInput /\ ~ei_error /\ ~connected
  /\ Fail /\ PostNothing
  /\ UNCHANGED libeiSinkVars

EiNoOp ==
  /\ InCall("create") \/ InCall("destroy")
  /\ Return /\ PostNothing
  /\ UNCHANGED libeiSinkVars

\* terminate: the session is closed, by a call to the portal, which ends the
\* connection; then the task is aborted.
EiTerminate ==
  /\ InCall("terminate")
  /\ connected' = FALSE
  /\ server_devices' = <<>>
  /\ ei_events' = <<>>
  /\ keys_down' = {}
  /\ Return
  /\ UNCHANGED <<posted, announced, ei_device, libei_error, ei_error>>

EiServer == ServerAdds \/ ServerResumes \/ ServerPauses \/ ServerRemoves \/ ServerDisconnects

\* The socket does not block.
EiSinkConsume == EiTakeError \/ EiConsume \/ EiFlushFails \/ EiNoOp

LibeiEmulationNext == EiServer \/ EiTask \/ EiSinkConsume \/ EiTerminate

------------------------------------------------------------------------------
\* Keys are down on a device that another one has replaced: what is sent to release
\* them goes to that one.
KeyboardReplaced == \E kk \in keys_down : kk[1] # ei_device
==============================================================================
