--------------------------- MODULE EmulationBackend ---------------------------
(***************************************************************************)
(* The promise of an emulation backend to InputEmulation, which the        *)
(* backends of the platforms implement: a key goes down on the desktop     *)
(* only while a device holds it, whatever repeats, waits or fails, and     *)
(* once the backend has been terminated no key is down for it and none     *)
(* goes down.  Nothing is promised about when a key comes up before that.  *)
(***************************************************************************)
CONSTANT Keys

VARIABLES
  held,              \* keys that devices hold
  down,              \* keys the desktop takes to be down
  ended

vars == <<held, down, ended>>

Init == held = {} /\ down = {} /\ ended = FALSE

\* Devices press and release keys.
Hold ==
  /\ ~ended
  /\ held' \in SUBSET Keys
  /\ UNCHANGED <<down, ended>>

\* Keys of those held go down, any others come up.
Type ==
  /\ ~ended
  /\ down' \in SUBSET (down \cup held)
  /\ UNCHANGED <<held, ended>>

\* Termination leaves nothing down.
End ==
  /\ ~ended
  /\ held = {}
  /\ ended' = TRUE
  /\ down' = {}
  /\ UNCHANGED held

Next == Hold \/ Type \/ End

Spec == Init /\ [][Next]_vars
==============================================================================
