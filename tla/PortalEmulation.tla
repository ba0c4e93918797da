--------------------------- MODULE PortalEmulation ---------------------------
(***************************************************************************)
(* Emulation through the RemoteDesktop portal: a call on the bus for every *)
(* event, which fails once the session has been closed from outside.  The  *)
(* portal (external) lets go of all keys when a session is closed.         *)
(***************************************************************************)
EXTENDS EmulationSink

VARIABLES
  portal_open,       \* external: the session
  awaits_closed      \* terminate waits for the Closed signal

portalVars == <<portal_open, awaits_closed>>

PortalInit == portal_open = TRUE /\ awaits_closed = FALSE

PortalKey ==
  /\ InCall("key") /\ portal_open
  /\ PostKey(None, Head(calls).key, Head(calls).down)
  /\ Return
  /\ UNCHANGED <<posted, portalVars>>

\* Of the pointer: discrete scrolling is in whole steps of the wheel.
PortalPointer ==
  /\ portal_open
  /\ \/ InCall("button") /\ PostButton(Head(calls).button)
     \/ InCall("motion") /\ PostMotion(AskedMotion)
     \/ InCall("axis") /\ PostAxis(AskedAxis)
     \/ InCall("scroll") /\ PostScroll(Quotient(AskedScroll, 120))
  /\ Return
  /\ UNCHANGED <<keys_down, portalVars>>

\* Any of them, when the session is closed.
PortalFails ==
  /\ \E op \in {"key"} \cup PointerOps : InCall(op)
  /\ ~portal_open
  /\ Fail /\ PostNothing
  /\ UNCHANGED portalVars

PortalIgnores ==
  /\ \E op \in {"modifiers", "create", "destroy"} : InCall(op)
  /\ Return /\ PostNothing
  /\ UNCHANGED portalVars

\* terminate: the session is closed,
PortalClose ==
  /\ InCall("terminate") /\ ~awaits_closed
  /\ portal_open' = FALSE
  /\ awaits_closed' = TRUE
  /\ keys_down' = {}
  /\ UNCHANGED <<frontVars, posted, dropped>>

\* then receive_closed waits for a signal that says so, or fails.
PortalClosed ==
  /\ awaits_closed
  /\ awaits_closed' = FALSE
  /\ Return /\ PostNothing
  /\ UNCHANGED portal_open

\* External: the user ends the session.
PortalRevoked ==
  /\ portal_open
  /\ portal_open' = FALSE
  /\ keys_down' = {}
  /\ UNCHANGED <<frontVars, posted, dropped, awaits_closed>>

PortalConsume ==
  PortalKey \/ PortalPointer \/ PortalFails \/ PortalIgnores \/ PortalClose

PortalEmulationNext == PortalConsume \/ PortalClosed \/ PortalRevoked

\* A call that waits for the portal.
AwaitsAnswer == \E op \in {"key", "terminate"} \cup PointerOps : InCall(op)
==============================================================================
