--------------------------- MODULE WindowsEmulation ---------------------------
(***************************************************************************)
(* Emulation on Windows: SendInput for every event, tried again until it   *)
(* is taken, which it is not while another desktop, such as that of a UAC  *)
(* prompt, has the input (external).  The key pressed last repeats in a    *)
(* task of its own, which is aborted by any press or release.              *)
(***************************************************************************)
EXTENDS EmulationSink

VARIABLES
  repeating,         \* key of repeat_task, None if there is none
  input_blocked      \* external: SendInput has no effect

winVars == <<repeating, input_blocked>>

WinInit == repeating = None /\ input_blocked = FALSE

\* linux_keycode_to_windows_scancode has no code for some keys.
WinUnmapped == {464}

\* Mutant: the task is kept.
KeepRepeatTask == repeating
KillRepeatTask == None

\* The repeat task is killed by a release; a press kills it, too, and spawns
\* another.  Then the key is sent.  All is one step: SendInput that is refused is
\* tried again at once, and nothing else runs meanwhile.
WinKey ==
  /\ InCall("key") /\ ~input_blocked
  /\ LET c == Head(calls)
     IN /\ repeating' = IF c.down THEN c.key ELSE KillRepeatTask
        /\ IF c.key \in WinUnmapped THEN UNCHANGED keys_down ELSE PostKey(None, c.key, c.down)
  /\ Return
  /\ UNCHANGED <<posted, input_blocked>>

\* The task types its key again, if it has a scancode.
WinRepeat ==
  /\ repeating # None /\ ~input_blocked
  /\ IF repeating \in WinUnmapped THEN UNCHANGED keys_down ELSE PostKey(None, repeating, TRUE)
  /\ UNCHANGED <<frontVars, posted, dropped, winVars>>

\* rel_mouse, in whole pixels.
WinMotion ==
  /\ InCall("motion") /\ ~input_blocked
  /\ PostMotion(WholeMotion)
  /\ Return
  /\ UNCHANGED <<keys_down, winVars>>

\* mouse_button ignores what has no name.
WinButton ==
  /\ InCall("button") /\ ~input_blocked
  /\ IF Head(calls).button \in KnownButtons THEN PostButton(Head(calls).button)
     ELSE UNCHANGED posted
  /\ Return
  /\ UNCHANGED <<keys_down, winVars>>

\* scroll: up is positive for Windows; the amount here is its negative.
WinScroll ==
  /\ ~input_blocked
  /\ \/ InCall("axis") /\ PostAxis(WholeAxis)
     \/ InCall("scroll") /\ PostScroll(AskedScroll)
  /\ Return
  /\ UNCHANGED <<keys_down, winVars>>

WinNoOp ==
  /\ \E op \in {"modifiers", "create", "destroy", "terminate"} : InCall(op)
  /\ Return /\ PostNothing
  /\ UNCHANGED winVars

WinConsume == WinKey \/ WinMotion \/ WinButton \/ WinScroll \/ WinNoOp

\* External.
InputDesktopChanges ==
  /\ input_blocked' = ~input_blocked
  /\ UNCHANGED <<sinkVars, repeating>>

WindowsEmulationNext == WinConsume \/ WinRepeat \/ InputDesktopChanges
==============================================================================
