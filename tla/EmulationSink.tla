---------------------------- MODULE EmulationSink ----------------------------
(***************************************************************************)
(* InputEmulation and the desktop it types on, as its backend sees them:   *)
(* calls into the backend, one at a time, each of which it takes or fails, *)
(* and the keys the desktop holds down for it (external).                  *)
(*                                                                         *)
(* A handle stands for one device; an id that has been destroyed stands    *)
(* for the next one from then on.  Keys are evdev codes.                   *)
(***************************************************************************)
EXTENDS Integers, Sequences, FiniteSets, SequencesExt

CONSTANTS
  None,
  EmHandles,         \* devices that send input
  EmKeys,            \* evdev codes they send
  EmButtons,         \* mouse buttons they send
  EmReports,         \* modifiers that devices report depressed
  PerUnit,           \* motion and continuous scrolling come in fractions of that size
  EmMoves,           \* motion: <<dx, dy>>, in fractions of a pixel
  Rolls,             \* continuous scroll values, in the same fractions
  Wheels,            \* discrete scroll values, 120 for one step of the wheel
  MouseConfigs       \* the factors speed and scroll_speed, and natural_scrolling

Masks == {"Shift", "Ctrl", "Alt", "Meta", "Lock"}

ASSUME SinkAssumption ==
  /\ EmKeys \subseteq Nat /\ None \notin Nat
  /\ IsFiniteSet(EmHandles) /\ IsFiniteSet(EmKeys)
  /\ EmReports \subseteq SUBSET Masks
  /\ PerUnit \in Nat \ {0}
  /\ EmMoves \subseteq Int \X Int /\ Rolls \subseteq Int /\ Wheels \subseteq Int
  /\ MouseConfigs \subseteq [speed_num : Int, speed_den : Nat \ {0}, scroll_num : Int,
                            scroll_den : Nat \ {0}, natural_scrolling : BOOLEAN]

VARIABLES
  em_handles,        \* InputEmulation.handles
  pressed_keys,      \* InputEmulation.pressed_keys
  mouse_config,
  calls,             \* into the backend: the one it is in, and what follows from it
  session,           \* "on", "failed", "ending", "ended"
  keys_down,         \* external: <<keyboard, key>> the desktop takes to be down
  posted,            \* external: what has been posted for the last event, if it was one of
                     \* the pointer, and what that event had asked for
  reported,          \* history: per handle, what its last Modifiers event said
  dropped            \* history: the backend has not taken some release

frontVars == <<em_handles, pressed_keys, mouse_config, calls, session, reported>>
desktopVars == <<keys_down, posted, dropped>>
sinkVars == <<frontVars, desktopVars>>

Call(op, h, r) == [op |-> op, handle |-> h, release |-> r]
KeyCall(h, k, d, r) == [op |-> "key", handle |-> h, release |-> r, key |-> k, down |-> d]
ModifiersCall(h, ms, r) == [op |-> "modifiers", handle |-> h, release |-> r, depressed |-> ms]
ButtonCall(h, b, d) == [op |-> "button", handle |-> h, release |-> FALSE, button |-> b, down |-> d]
MotionCall(h, v) == [op |-> "motion", handle |-> h, release |-> FALSE, by |-> v]
AxisCall(h, v) == [op |-> "axis", handle |-> h, release |-> FALSE, value |-> v]
ScrollCall(h, v) == [op |-> "scroll", handle |-> h, release |-> FALSE, value |-> v]

PointerOps == {"button", "motion", "axis", "scroll"}
NoPost == [op |-> "none"]

SinkInit ==
  /\ em_handles = {}
  /\ pressed_keys = [h \in EmHandles |-> {}]
  /\ mouse_config \in MouseConfigs
  /\ calls = <<>> /\ session = "on"
  /\ keys_down = {} /\ posted = NoPost
  /\ reported = [h \in EmHandles |-> {}]
  /\ dropped = FALSE

\* The modifier a key stands for, if it is one.
MaskOf(k) ==
  CASE k \in {42, 54} -> {"Shift"}
    [] k \in {29, 97} -> {"Ctrl"}
    [] k \in {56, 100} -> {"Alt"}
    [] k \in {125, 126} -> {"Meta"}
    [] k = 58 -> {"Lock"}
    [] OTHER -> {}

MasksOf(K) == UNION {MaskOf(k) : k \in K}
Held == UNION {pressed_keys[h] : h \in EmHandles}

------------------------------------------------------------------------------
\* apply_mouse_config.  Factors are fractions here, floats there, so that products are
\* exact: motion in parts of which Pixel make a pixel, scrolling of which Unit make one.
Pixel == PerUnit * mouse_config.speed_den
Unit == PerUnit * mouse_config.scroll_den

Moved(v) == <<v[1] * mouse_config.speed_num, v[2] * mouse_config.speed_num>>

Sign(v) == IF v > 0 THEN 1 ELSE IF v < 0 THEN -1 ELSE 0
Magnitude(v) == IF v < 0 THEN -v ELSE v

\* Mutant: small values are rounded like others.
ScaledDown(v) ==
  LET num == v * mouse_config.scroll_num
      den == mouse_config.scroll_den
  IN Sign(num) * ((2 * Magnitude(num) + den) \div (2 * den))

\* A discrete scroll value: rounded to the nearest, but never to zero.
Scaled(v) ==
  LET num == v * mouse_config.scroll_num
      den == mouse_config.scroll_den
  IN IF 0 < Magnitude(num) /\ Magnitude(num) < den THEN Sign(num)
     ELSE Sign(num) * ((2 * Magnitude(num) + den) \div (2 * den))

Directed(v) == IF mouse_config.natural_scrolling THEN -v ELSE v

\* A continuous scroll value.
Rolled(v) == Directed(v * mouse_config.scroll_num)

\* Rust's division of integers, and its cast of a float to an integer: what is left of
\* v parts if only whole ones of n parts are.
Quotient(v, n) == Sign(v) * (Magnitude(v) \div n)
Truncated(v, n) == Quotient(v, n) * n

------------------------------------------------------------------------------
\* do_emulation_session: an event of handle h, which is created with its first.
\* Until the backend has returned nothing else is done.
Event(h, c) ==
  /\ session = "on" /\ calls = <<>>
  /\ em_handles' = em_handles \cup {h}
  /\ calls' = (IF h \in em_handles THEN <<>> ELSE <<Call("create", h, FALSE)>>) \o <<c>>
  /\ posted' = NoPost
  /\ UNCHANGED <<mouse_config, session, keys_down, dropped>>

\* update_pressed_keys lets a key through that is pressed or released by it.
ConsumeKey(h, k, d) ==
  /\ (k \in pressed_keys[h]) # d
  /\ pressed_keys' = [pressed_keys EXCEPT ![h] = IF d THEN @ \cup {k} ELSE @ \ {k}]
  /\ reported' = [reported EXCEPT ![h] = @ \ MaskOf(k)]
  /\ Event(h, KeyCall(h, k, d, FALSE))

ConsumeModifiers(h, ms) ==
  /\ reported' = [reported EXCEPT ![h] = ms]
  /\ Event(h, ModifiersCall(h, ms, FALSE))
  /\ UNCHANGED pressed_keys

ConsumePointer(h) ==
  /\ \/ \E b \in EmButtons, d \in BOOLEAN : Event(h, ButtonCall(h, b, d))
     \/ \E v \in EmMoves : Event(h, MotionCall(h, v))
     \/ \E v \in Rolls : Event(h, AxisCall(h, v))
     \/ \E v \in Wheels : Event(h, ScrollCall(h, v))
  /\ UNCHANGED <<pressed_keys, reported>>

\* destroy: release_keys in no particular order, then the backend's destroy.
Destroy(h) ==
  /\ calls = <<>>
  /\ h \in em_handles
  /\ em_handles' = em_handles \ {h}
  /\ pressed_keys' = [pressed_keys EXCEPT ![h] = {}]
  /\ reported' = [reported EXCEPT ![h] = {}]
  /\ \E order \in SetToSeqs(pressed_keys[h]) :
       calls' = [i \in DOMAIN order |-> KeyCall(h, order[i], FALSE, TRUE)]
                  \o <<ModifiersCall(h, {}, TRUE), Call("destroy", h, FALSE)>>
  /\ posted' = NoPost
  /\ UNCHANGED <<mouse_config, session, keys_down, dropped>>

RemoveHandle(h) == session = "on" /\ Destroy(h)

\* The session ends: with Terminate, or with the first event that fails.
EndSession ==
  /\ session \in {"on", "failed"} /\ calls = <<>>
  /\ session' = "ending"
  /\ UNCHANGED <<em_handles, pressed_keys, mouse_config, calls, reported, desktopVars>>

\* InputEmulation::terminate
Terminate ==
  /\ session = "ending" /\ calls = <<>>
  /\ \/ \E h \in em_handles : Destroy(h)
     \/ /\ em_handles = {}
        /\ calls' = <<Call("terminate", None, FALSE)>>
        /\ UNCHANGED <<em_handles, pressed_keys, mouse_config, session, reported, desktopVars>>

Ending == EndSession \/ Terminate

\* What devices H do, on keyboards with keys K.
Input(H, K) ==
  \E h \in H :
    \/ \E k \in K, d \in BOOLEAN : ConsumeKey(h, k, d)
    \/ \E ms \in EmReports : ConsumeModifiers(h, ms)
    \/ ConsumePointer(h)
    \/ RemoveHandle(h)

------------------------------------------------------------------------------
\* What a backend does with the call it is in.
InCall(op) == calls # <<>> /\ Head(calls).op = op

\* It returns,
Return ==
  /\ calls' = Tail(calls)
  /\ UNCHANGED dropped
  /\ session' = IF Head(calls).op = "terminate" THEN "ended" ELSE session
  /\ UNCHANGED <<em_handles, pressed_keys, mouse_config, reported>>

\* or it fails: consume's error ends the session, release_keys' ends the release, of
\* which only the call of destroy is left.
Release(c) == c.op = "modifiers" \/ (c.op = "key" /\ ~c.down)

Fail ==
  /\ calls' = IF Head(calls).release THEN <<Last(calls)>> ELSE <<>>
  /\ dropped' = (dropped \/ \E i \in DOMAIN calls : Release(calls[i]))
  /\ session' = IF Head(calls).release THEN session ELSE "failed"
  /\ UNCHANGED <<em_handles, pressed_keys, mouse_config, reported>>

PostKey(keyboard, k, d) ==
  keys_down' = IF d THEN keys_down \cup {<<keyboard, k>>} ELSE keys_down \ {<<keyboard, k>>}
PostNothing == UNCHANGED <<keys_down, posted>>

\* Of the pointer: the button, and how far, in the parts that are posted.
PostButton(b) == posted' = [op |-> "button", button |-> Head(calls).button, got |-> b]
PostMotion(m) == posted' = [op |-> "motion", by |-> Head(calls).by, moved |-> m]
PostAxis(n) == posted' = [op |-> "axis", value |-> Head(calls).value, amount |-> n]
PostScroll(n) == posted' = [op |-> "scroll", value |-> Head(calls).value, amount |-> n]

\* What is asked for in the call, after apply_mouse_config.
AskedMotion == Moved(Head(calls).by)
AskedAxis == Rolled(Head(calls).value)
AskedScroll == Directed(Scaled(Head(calls).value))

\* The same cut to whole pixels, or units.
WholeMotion == <<Truncated(AskedMotion[1], Pixel), Truncated(AskedMotion[2], Pixel)>>
WholeAxis == Truncated(AskedAxis, Unit)

\* The buttons that have a name.
KnownButtons == {"left", "right", "middle", "back", "forward"}

DesktopKeys == {kk[2] : kk \in keys_down}
==============================================================================
