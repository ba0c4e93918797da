----------------------------- MODULE X11Emulation -----------------------------
(***************************************************************************)
(* Emulation on X11: XTest events, whoever sent the input.  A scroll event *)
(* is one click of a scroll button whatever its amount, and a button the   *)
(* backend does not know is taken for the left one.                        *)
(***************************************************************************)
EXTENDS EmulationSink

X11Key ==
  /\ InCall("key")
  /\ PostKey(None, Head(calls).key, Head(calls).down)
  /\ Return
  /\ UNCHANGED posted

\* emulate_mouse_button
X11Button ==
  /\ InCall("button")
  /\ LET b == Head(calls).button
     IN PostButton(IF b \in KnownButtons THEN b ELSE "left")
  /\ Return
  /\ UNCHANGED keys_down

\* emulate_scroll: zero is down, or right.
X11Scroll ==
  /\ \/ InCall("axis") /\ PostAxis(IF AskedAxis < 0 THEN -1 ELSE 1)
     \/ InCall("scroll") /\ PostScroll(IF AskedScroll < 0 THEN -1 ELSE 1)
  /\ Return
  /\ UNCHANGED keys_down

\* relative_motion
X11Motion ==
  /\ InCall("motion")
  /\ PostMotion(WholeMotion)
  /\ Return
  /\ UNCHANGED keys_down

\* The modifiers, create, destroy and terminate change nothing here.
X11NoOp ==
  /\ \E op \in {"modifiers", "create", "destroy", "terminate"} : InCall(op)
  /\ Return /\ PostNothing

X11EmulationNext == X11Key \/ X11Button \/ X11Scroll \/ X11Motion \/ X11NoOp
==============================================================================
