---------------------------- MODULE ClientRegistry ----------------------------
(***************************************************************************)
(* The service's bookkeeping of devices: the clients configured here (the  *)
(* slab of ClientManager), which of them are active, and the devices that  *)
(* entered this one (incoming).  Every change that needs a barrier, or no  *)
(* longer needs one, is sent to the capture task as a request.             *)
(*                                                                         *)
(* Each action is one arm of Service::run; none of them awaits, so each is *)
(* atomic.  Host names, addresses, ports and hooks of a client are not     *)
(* part of this module.                                                    *)
(***************************************************************************)
EXTENDS CaptureChannels

CONSTANTS
  Addrs,             \* socket addresses of devices that connect to this one
  Fingerprints,      \* certificate fingerprints they present
  DefaultPos         \* ClientConfig::default().pos

ASSUME RegistryAssumption == DefaultPos \in Positions

VARIABLES
  booting,             \* configured-active clients run() still has to activate
  clients,             \* occupied slots of the slab
  pos,                 \* their ClientConfig.pos
  active,              \* those with ClientState.active
  incoming_conns,      \* addresses with a registered incoming device
  incoming_conn_info,  \* the registered incoming devices
  next_trigger_handle,
  capture_status,      \* what the frontends are told about capture
  leaves               \* addresses that send_leave_event was called for

registryVars == <<booting, clients, pos, active, incoming_conns,
                  incoming_conn_info, next_trigger_handle, capture_status, leaves>>

Incoming == [handle: EnterHandles, addr: Addrs, pos: Positions, fp: Fingerprints]

RegistryTypeOK ==
  /\ booting \in SUBSET ClientHandles
  /\ clients \in SUBSET ClientHandles
  /\ pos \in [ClientHandles -> Positions]
  /\ active \in SUBSET ClientHandles
  /\ incoming_conns \in SUBSET Addrs
  /\ incoming_conn_info \in SUBSET Incoming
  /\ next_trigger_handle \in 0 .. MaxTriggers
  /\ capture_status \in {"Enabled", "Disabled"}
  /\ leaves \in SUBSET Addrs

\* Service::new reads the clients from the configuration, which gives them the
\* first slots; run() marks the active ones inactive again before it activates
\* them one by one.
RegistryInit ==
  /\ clients \in SUBSET ClientHandles
  /\ \A c \in clients : \A h \in ClientHandles : h < c => h \in clients
  /\ pos \in [ClientHandles -> Positions]
  /\ \A h \in ClientHandles \ clients : pos[h] = DefaultPos  \* a free slot
  /\ booting \in SUBSET clients
  /\ active = {}
  /\ incoming_conns = {}
  /\ incoming_conn_info = {}
  /\ next_trigger_handle = 0
  /\ capture_status = "Disabled"
  /\ leaves = {}

------------------------------------------------------------------------------
\* client_at: the first active client at a position, in slab order, as a set.
ClientAt(p, actives, where) ==
  LET at == {c \in actives : where[c] = p}
  IN {c \in at : \A d \in at : c <= d}

\* Mutant: the client that is at the position already is not evicted.
ActivateBeside(h, actives, where) ==
  [sends |-> IF h \in actives THEN <<>> ELSE <<CreateRequest(h, where[h], "Default")>>,
   active |-> actives \cup {h}]

\* The requests that activate_client(h) sends, the clients in actives being
\* active and where giving their positions, and the clients active after it.
Activate(h, actives, where) ==
  LET evicted == ClientAt(where[h], actives, where) \ {h}
      evict == IF evicted = {} THEN <<>>
               ELSE <<DestroyRequest(CHOOSE o \in evicted : TRUE)>>
      create == IF h \in actives THEN <<>>
                ELSE <<CreateRequest(h, where[h], "Default")>>
  IN [sends |-> evict \o create,
      active |-> (actives \ evicted) \cup {h}]

RegistryUnchangedIncoming ==
  UNCHANGED <<incoming_conns, incoming_conn_info, next_trigger_handle>>

Started == booting = {}

\* run(): activate the configured clients, in slab order.  The bound on the
\* channel is for what follows.
Boot ==
  \E h \in booting :
    /\ \A g \in booting : h <= g
    /\ LET r == Activate(h, active, pos)
       IN /\ requests' = requests \o r.sends
          /\ active' = r.active
    /\ booting' = booting \ {h}
    /\ UNCHANGED <<clients, pos, capture_events, capture_status, leaves>>
    /\ RegistryUnchangedIncoming

\* FrontendRequest::Create: a slot that is free gets the default config.
AddClient ==
  \E h \in ClientHandles \ clients :
    /\ Started
    /\ clients' = clients \cup {h}
    /\ pos' = [pos EXCEPT ![h] = DefaultPos]
    /\ UNCHANGED <<booting, active, channelVars, capture_status, leaves>>
    /\ RegistryUnchangedIncoming

\* FrontendRequest::Delete.  A free slot has no position; it is given the default here.
RemoveClient(h) ==
  /\ Started
  /\ h \in clients
  /\ clients' = clients \ {h}
  /\ pos' = [pos EXCEPT ![h] = DefaultPos]
  /\ active' = active \ {h}
  /\ IF h \in active
     THEN RoomFor(1) /\ requests' = Append(requests, DestroyRequest(h))
     ELSE UNCHANGED requests
  /\ UNCHANGED <<booting, capture_events, capture_status, leaves>>
  /\ RegistryUnchangedIncoming

\* FrontendRequest::Activate(h, true).  A handle that names no client changes
\* nothing.
ActivateClient(h) ==
  /\ Started
  /\ h \in clients
  /\ LET r == Activate(h, active, pos)
     IN /\ RoomFor(Len(r.sends))
        /\ requests' = requests \o r.sends
        /\ active' = r.active
  /\ UNCHANGED <<booting, clients, pos, capture_events, capture_status, leaves>>
  /\ RegistryUnchangedIncoming

\* FrontendRequest::Activate(h, false).
DeactivateClient(h) ==
  /\ Started
  /\ h \in active
  /\ RoomFor(1)
  /\ active' = active \ {h}
  /\ requests' = Append(requests, DestroyRequest(h))
  /\ UNCHANGED <<booting, clients, pos, capture_events, capture_status, leaves>>
  /\ RegistryUnchangedIncoming

\* FrontendRequest::UpdatePosition: set_pos, and for an active client a
\* deactivation and an activation at the new position.
UpdatePos(h, p) ==
  /\ Started
  /\ h \in clients
  /\ pos[h] # p
  /\ pos' = [pos EXCEPT ![h] = p]
  /\ IF h \in active
     THEN LET r == Activate(h, active \ {h}, pos')
          IN /\ RoomFor(1 + Len(r.sends))
             /\ requests' = requests \o <<DestroyRequest(h)>> \o r.sends
             /\ active' = r.active
     ELSE UNCHANGED <<requests, active>>
  /\ UNCHANGED <<booting, clients, capture_events, capture_status, leaves>>
  /\ RegistryUnchangedIncoming

------------------------------------------------------------------------------
\* Mutant: handles of incoming devices start at 0.
LowIncoming(addr, p, fp) ==
  [handle |-> next_trigger_handle, addr |-> addr, pos |-> p, fp |-> fp]

\* add_incoming: a fresh handle and an EnterOnly barrier.
NewIncoming(addr, p, fp) ==
  [handle |-> EnterHandleBegin + next_trigger_handle,
   addr |-> addr, pos |-> p, fp |-> fp]

\* Mutants: every incoming device is watched for at the default position; and
\* the barrier is that of a client.
BarrierAtDefault(i) == CreateRequest(i.handle, DefaultPos, "EnterOnly")
BarrierOfClient(i) == CreateRequest(i.handle, i.pos, "Default")

BarrierFor(i) == CreateRequest(i.handle, i.pos, "EnterOnly")

\* EmulationEvent::Entered of an address that is not registered.
EnterNew(addr, p, fp) ==
  /\ Started
  /\ addr \notin incoming_conns
  /\ next_trigger_handle < MaxTriggers
  /\ RoomFor(1)
  /\ LET i == NewIncoming(addr, p, fp)
     IN /\ requests' = Append(requests, BarrierFor(i))
        /\ incoming_conn_info' = incoming_conn_info \cup {i}
  /\ incoming_conns' = incoming_conns \cup {addr}
  /\ next_trigger_handle' = next_trigger_handle + 1
  /\ UNCHANGED <<booting, clients, pos, active, capture_events, capture_status, leaves>>

\* EmulationEvent::Entered of a registered address: update_incoming replaces
\* the barrier when the position or the fingerprint is another one.
EnterAgain(addr, p, fp) ==
  /\ Started
  /\ addr \in incoming_conns
  /\ \E i \in incoming_conn_info :
       /\ i.addr = addr
       /\ <<i.pos, i.fp>> # <<p, fp>>
       /\ next_trigger_handle < MaxTriggers
       /\ RoomFor(2)
       /\ LET j == NewIncoming(addr, p, fp)
          IN /\ requests' = requests \o <<DestroyRequest(i.handle), BarrierFor(j)>>
             /\ incoming_conn_info' = (incoming_conn_info \ {i}) \cup {j}
  /\ next_trigger_handle' = next_trigger_handle + 1
  /\ UNCHANGED <<booting, clients, pos, active, incoming_conns,
                 capture_events, capture_status, leaves>>

\* Mutant: the address is not forgotten.
ForgetDevice(addr) ==
  /\ Started
  /\ RoomFor(1)
  /\ \E i \in incoming_conn_info :
       /\ i.addr = addr
       /\ requests' = Append(requests, DestroyRequest(i.handle))
       /\ incoming_conn_info' = incoming_conn_info \ {i}
  /\ UNCHANGED <<booting, clients, pos, active, incoming_conns, next_trigger_handle,
                 capture_events, capture_status, leaves>>

\* EmulationEvent::Disconnected: remove_incoming.
Disconnected(addr) ==
  /\ Started
  /\ RoomFor(1)
  /\ \E i \in incoming_conn_info :
       /\ i.addr = addr
       /\ requests' = Append(requests, DestroyRequest(i.handle))
       /\ incoming_conn_info' = incoming_conn_info \ {i}
  /\ incoming_conns' = incoming_conns \ {addr}
  /\ UNCHANGED <<booting, clients, pos, active, next_trigger_handle,
                 capture_events, capture_status, leaves>>

\* EmulationEvent::ReleaseNotify, and FrontendRequest::EnableCapture.
Notify(request) ==
  /\ Started
  /\ RoomFor(1)
  /\ requests' = Append(requests, request)
  /\ UNCHANGED <<registryVars, capture_events>>

ReleaseNotify == Notify(ReleaseRequest)
EnableCapture == Notify(ReenableRequest)

\* The emulation task takes a Release(addr) request and tells the peer to leave.
TakeLeave(addr) ==
  /\ addr \in leaves
  /\ leaves' = leaves \ {addr}
  /\ UNCHANGED <<booting, clients, pos, active, incoming_conns, incoming_conn_info,
                 next_trigger_handle, capture_status, channelVars>>

\* handle_capture_event: CaptureBegin of an incoming device's barrier makes
\* the emulation side tell that device to leave.
ServiceCaptureEvent ==
  /\ Started
  /\ capture_events # <<>>
  /\ capture_events' = Tail(capture_events)
  /\ LET e == Head(capture_events)
     IN /\ leaves' = IF e.ev = "CaptureBegin"
                     THEN leaves \cup {i.addr : i \in {j \in incoming_conn_info :
                                                         j.handle = e.handle}}
                     ELSE leaves
        /\ capture_status' = CASE e = CaptureEnabled -> "Enabled"
                               [] e = CaptureDisabled -> "Disabled"
                               [] OTHER -> capture_status
  /\ UNCHANGED <<booting, clients, pos, active, requests>>
  /\ RegistryUnchangedIncoming

RegistryNext ==
  \/ Boot
  \/ AddClient
  \/ \E h \in ClientHandles :
       \/ RemoveClient(h)
       \/ ActivateClient(h)
       \/ DeactivateClient(h)
       \/ \E p \in Positions : UpdatePos(h, p)
  \/ \E a \in Addrs :
       \/ \E p \in Positions, f \in Fingerprints : EnterNew(a, p, f) \/ EnterAgain(a, p, f)
       \/ Disconnected(a)
       \/ TakeLeave(a)
  \/ ReleaseNotify
  \/ EnableCapture
  \/ ServiceCaptureEvent

------------------------------------------------------------------------------
\* The barriers the service believes the capture task watches.
Wanted ==
  {Capture(h, pos[h], "Default") : h \in active}
    \cup {Capture(i.handle, i.pos, "EnterOnly") : i \in incoming_conn_info}
==============================================================================
