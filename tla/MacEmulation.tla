----------------------------- MODULE MacEmulation -----------------------------
(***************************************************************************)
(* Emulation on macOS: events are posted to the HID event tap with the     *)
(* modifiers the backend has kept count of.  The key pressed last repeats  *)
(* in a task of its own, which is what posts its release: any press or any *)
(* release notifies the task and waits for its end.                        *)
(*                                                                         *)
(* Notify::notify_waiters wakes whoever waits and is not kept for those    *)
(* who come later: a task that has not been polled yet misses it, and so   *)
(* does one whose timer is over at the same time.                          *)
(***************************************************************************)
EXTENDS QuartzPointer

VARIABLES
  modifier_state,
  repeat_task,       \* [key, state]; state is "new" until the task is first polled,
                     \* "waiting", "notified", "deaf" if it missed that, or "done"
  cancelling         \* consume awaits the task

macVars == <<modifier_state, repeat_task, cancelling>>

NoTask == [key |-> None, state |-> "done"]

MacInit ==
  /\ modifier_state = {}
  /\ repeat_task = NoTask
  /\ cancelling = FALSE

\* The keycode crate: the virtual key codes of macOS for evdev codes, of all the
\* modifiers, of A and of backslash.
MacKeys ==
  [k \in {29, 30, 42, 43, 54, 56, 58, 97, 100, 125, 126} |->
     CASE k = 42 -> 56 [] k = 54 -> 60 [] k = 29 -> 59 [] k = 97 -> 62
       [] k = 56 -> 58 [] k = 100 -> 61 [] k = 125 -> 55 [] k = 126 -> 54
       [] k = 58 -> 57 [] k = 30 -> 0 [] k = 43 -> 42]

\* Mutant: a release leaves the modifier.
UpdatedOnPress(ms, k, d) == IF d THEN ms \cup MaskOf(k) ELSE ms
UpdateModifiers(ms, k, d) == IF d THEN ms \cup MaskOf(k) ELSE ms \ MaskOf(k)

\* try_special_key: what has no key code.  Volume and media keys are posted as
\* they come, the screenshot and menu keys stand for a chord and a click.
MediaKeys == {113, 114, 115, 163, 164, 165, 166, 224, 225}
SpecialKeys == MediaKeys \cup {99, 139}

SpecialKey ==
  /\ InCall("key") /\ Head(calls).key \in SpecialKeys
  /\ IF Head(calls).key \in MediaKeys THEN PostKey(None, Head(calls).key, Head(calls).down)
     ELSE UNCHANGED keys_down
  /\ Return
  /\ UNCHANGED <<posted, cursor, macVars>>

\* Mutant: the task is awaited without having been told.
NotNotified(t) == t

\* notify_waiters
Notified(t) == [t EXCEPT !.state = IF @ = "new" THEN "deaf" ELSE "notified"]

\* A key that is mapped: the modifiers are updated, and the repeating key, if there
\* is one, is cancelled first.
MappedKey ==
  /\ InCall("key") /\ ~cancelling
  /\ Head(calls).key \in DOMAIN MacKeys
  /\ modifier_state' = UpdateModifiers(modifier_state, Head(calls).key, Head(calls).down)
  /\ IF repeat_task # NoTask
     THEN /\ repeat_task' = Notified(repeat_task)
          /\ cancelling' = TRUE
          /\ UNCHANGED <<frontVars, desktopVars>>
     ELSE /\ IF Head(calls).down
             THEN /\ PostKey(None, Head(calls).key, TRUE)
                  /\ repeat_task' = [key |-> Head(calls).key, state |-> "new"]
             ELSE UNCHANGED <<keys_down, repeat_task>>
          /\ Return
          /\ UNCHANGED <<posted, cancelling>>
  /\ UNCHANGED cursor

UnmappedKey ==
  /\ InCall("key") /\ Head(calls).key \notin SpecialKeys \cup DOMAIN MacKeys
  /\ Return /\ PostNothing
  /\ UNCHANGED <<cursor, macVars>>

\* The task has ended: cancel_repeat_task returns.
Cancelled ==
  /\ cancelling /\ repeat_task.state = "done"
  /\ cancelling' = FALSE
  /\ IF Head(calls).down
     THEN /\ PostKey(None, Head(calls).key, TRUE)
          /\ repeat_task' = [key |-> Head(calls).key, state |-> "new"]
     ELSE repeat_task' = NoTask /\ UNCHANGED keys_down
  /\ Return
  /\ UNCHANGED <<posted, modifier_state, cursor>>

\* The repeat task: polled for the first time,
PollTask ==
  /\ repeat_task.state = "new"
  /\ repeat_task' = [repeat_task EXCEPT !.state = "waiting"]
  /\ UNCHANGED <<sinkVars, cursor, modifier_state, cancelling>>

\* whenever its timer is over,
Repeat ==
  /\ repeat_task.state \in {"waiting", "deaf"}
  /\ PostKey(None, repeat_task.key, TRUE)
  /\ UNCHANGED <<frontVars, posted, dropped, cursor, macVars>>

\* its timer is over and it has been notified: select! takes either, and drops the
\* notification with the branch it does not take,
RepeatMissingNotification ==
  /\ repeat_task.state = "notified"
  /\ PostKey(None, repeat_task.key, TRUE)
  /\ repeat_task' = [repeat_task EXCEPT !.state = "deaf"]
  /\ UNCHANGED <<frontVars, posted, dropped, cursor, modifier_state, cancelling>>

\* Mutant: the key is left to whoever cancelled the task.
EndWithoutRelease ==
  /\ repeat_task.state = "notified"
  /\ repeat_task' = [repeat_task EXCEPT !.state = "done"]
  /\ UNCHANGED <<sinkVars, cursor, modifier_state, cancelling>>

\* and when it has been notified.  update_modifiers is given the code that macOS
\* has for the key, and takes it for an evdev code.
EndTask ==
  /\ repeat_task.state = "notified"
  /\ modifier_state' = UpdateModifiers(modifier_state, MacKeys[repeat_task.key], FALSE)
  /\ PostKey(None, repeat_task.key, FALSE)
  /\ repeat_task' = [repeat_task EXCEPT !.state = "done"]
  /\ UNCHANGED <<frontVars, posted, dropped, cursor, cancelling>>

SetModifiers ==
  /\ InCall("modifiers")
  /\ modifier_state' = Head(calls).depressed
  /\ Return /\ PostNothing
  /\ UNCHANGED <<cursor, repeat_task, cancelling>>

\* create, destroy and terminate do nothing.
MacNoOp ==
  /\ \E op \in {"create", "destroy", "terminate"} : InCall(op)
  /\ Return /\ PostNothing
  /\ UNCHANGED <<cursor, macVars>>

MacConsume ==
  \/ SpecialKey \/ MappedKey \/ UnmappedKey \/ SetModifiers \/ MacNoOp
  \/ (Motion \/ Button \/ Axis \/ Scroll) /\ UNCHANGED macVars

MacTask == PollTask \/ EndTask

MacEmulationNext == MacConsume \/ Cancelled \/ MacTask \/ Repeat
                    \/ RepeatMissingNotification

------------------------------------------------------------------------------
\* The task has missed its notification, and consume waits for it for ever.
CancelLost == cancelling /\ repeat_task.state = "deaf"
==============================================================================
