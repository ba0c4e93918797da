---------------------------- MODULE QuartzPointer ----------------------------
(***************************************************************************)
(* Pointer events on macOS, the same in both of its backends: the cursor   *)
(* is put where the motion would take it, but on a display.  What counts   *)
(* double clicks, and the buttons that tell a drag, are left out.          *)
(***************************************************************************)
EXTENDS EmulationSink

CONSTANTS
  EmDisplays,        \* [x0, y0, x1, y1], x1 and y1 beyond the last point
  CursorStart        \* in pixels

\* Whether a point is on a display; a pixel has n parts.
OnDisplay(p, d, n) ==
  /\ d.x0 * n <= p[1] /\ p[1] < d.x1 * n
  /\ d.y0 * n <= p[2] /\ p[2] < d.y1 * n

\* get_display_at_point: the first of the displays at a point, in any order.
DisplaysAt(p) == {d \in EmDisplays : OnDisplay(p, d, Pixel)}

\* The system has the cursor on a display to begin with.
ASSUME QuartzAssumption ==
  /\ EmDisplays \subseteq [x0 : Int, y0 : Int, x1 : Int, y1 : Int]
  /\ \A d \in EmDisplays : d.x0 < d.x1 /\ d.y0 < d.y1
  /\ CursorStart \in Int \X Int /\ \E d \in EmDisplays : OnDisplay(CursorStart, d, 1)

VARIABLE cursor          \* external: where it is, in parts of a pixel

QuartzInit == cursor = <<CursorStart[1] * Pixel, CursorStart[2] * Pixel>>

Clamp(v, lo, hi) == IF v < lo THEN lo ELSE IF v > hi THEN hi ELSE v

\* Mutant: the far edge is taken to be on the display.
ClampToEdge(p, d) ==
  <<Clamp(p[1], d.x0 * Pixel, d.x1 * Pixel), Clamp(p[2], d.y0 * Pixel, d.y1 * Pixel)>>
ClampToDisplay(p, d) ==
  <<Clamp(p[1], d.x0 * Pixel, (d.x1 - 1) * Pixel), Clamp(p[2], d.y0 * Pixel, (d.y1 - 1) * Pixel)>>

\* clamp_to_screen_space: to the display the motion ends on, or to the one it
\* started from.
ClampedToScreenSpace(p, by) ==
  LET new == <<p[1] + by[1], p[2] + by[2]>>
      final == IF DisplaysAt(new) # {} THEN DisplaysAt(new) ELSE DisplaysAt(p)
  IN IF DisplaysAt(p) = {} THEN {p} ELSE {ClampToDisplay(new, d) : d \in final}

\* Without a location, motion and buttons are ignored; the fields of an event that say
\* how far it goes are whole pixels.
Motion ==
  /\ InCall("motion")
  /\ \/ cursor' \in ClampedToScreenSpace(cursor, AskedMotion) /\ PostMotion(WholeMotion)
     \/ UNCHANGED <<cursor, posted>>
  /\ Return
  /\ UNCHANGED keys_down

\* A button without a name is ignored, too.
Button ==
  /\ InCall("button")
  /\ \/ Head(calls).button \in KnownButtons /\ PostButton(Head(calls).button)
     \/ UNCHANGED posted
  /\ Return
  /\ UNCHANGED <<keys_down, cursor>>

\* Three lines for a step of the wheel, in whole lines.
LinesPerStep == 3

Scroll ==
  /\ InCall("scroll")
  /\ PostScroll(Quotient(AskedScroll, 120 \div LinesPerStep))
  /\ Return
  /\ UNCHANGED <<keys_down, cursor>>

\* Continuous scrolling is in whole pixels.
Axis ==
  /\ InCall("axis")
  /\ PostAxis(WholeAxis)
  /\ Return
  /\ UNCHANGED <<keys_down, cursor>>
==============================================================================
