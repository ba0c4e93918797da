---------------------------- MODULE VhidEmulation ----------------------------
(***************************************************************************)
(* Emulation on macOS through Karabiner's virtual keyboard (external): key *)
(* events go to its sink once that has been seen ready, which is not asked *)
(* again; the pointer goes through Quartz.  The daemon behind the sink may *)
(* come and go, and takes the keys it holds down with it.                  *)
(***************************************************************************)
EXTENDS QuartzPointer

VARIABLES
  vhid_ready,
  sink_ready         \* external: kdk::is_sink_ready

vhidVars == <<vhid_ready, sink_ready>>

VhidInit ==
  /\ sink_ready \in BOOLEAN
  /\ vhid_ready = sink_ready

\* ensure_vhid_ready
EnsureReady == vhid_ready' = (vhid_ready \/ sink_ready)

\* send_key fails when there is no sink, which is logged.
SendKey(k, d) ==
  IF vhid_ready' /\ sink_ready THEN PostKey(None, k, d) ELSE UNCHANGED keys_down

Screenshot == {125, 42, 4}   \* the keys of Cmd+Shift+3
VhidSpecialKeys == {99, 139}

\* A key, of whatever usage page.
VhidKey ==
  /\ InCall("key") /\ Head(calls).key \notin VhidSpecialKeys
  /\ EnsureReady
  /\ SendKey(Head(calls).key, Head(calls).down)
  /\ Return
  /\ UNCHANGED <<posted, sink_ready, cursor>>

\* PrintScreen is a chord, typed and let go, the menu key a click.
VhidSpecialKey ==
  /\ InCall("key") /\ Head(calls).key \in VhidSpecialKeys
  /\ LET screenshot == Head(calls).key = 99 /\ Head(calls).down
     IN /\ IF screenshot THEN EnsureReady ELSE UNCHANGED vhid_ready
        /\ keys_down' = IF screenshot /\ vhid_ready' /\ sink_ready
                        THEN {kk \in keys_down : kk[2] \notin Screenshot} ELSE keys_down
  /\ Return
  /\ UNCHANGED <<posted, sink_ready, cursor>>

VhidMotion == Motion /\ UNCHANGED vhidVars
VhidButton == Button /\ UNCHANGED vhidVars
VhidScroll == (Axis \/ Scroll) /\ UNCHANGED vhidVars

\* Modifiers are left to the keyboard; create and destroy do nothing.
VhidNoOp ==
  /\ \E op \in {"modifiers", "create", "destroy"} : InCall(op)
  /\ Return /\ PostNothing
  /\ UNCHANGED <<cursor, vhidVars>>

\* terminate: kdk::release lets go of the device, and of its keys.
VhidTerminate ==
  /\ InCall("terminate")
  /\ keys_down' = {}
  /\ Return
  /\ UNCHANGED <<posted, cursor, vhidVars>>

VhidConsume ==
  VhidKey \/ VhidSpecialKey \/ VhidMotion \/ VhidButton \/ VhidScroll \/ VhidNoOp \/ VhidTerminate

\* External: the daemon is started or stopped.
SinkChanges ==
  /\ sink_ready' = ~sink_ready
  /\ keys_down' = {}
  /\ UNCHANGED <<frontVars, posted, dropped, vhid_ready, cursor>>

VhidEmulationNext == VhidConsume \/ SinkChanges
==============================================================================
