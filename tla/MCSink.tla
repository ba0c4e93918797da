-------------------------------- MODULE MCSink --------------------------------
(***************************************************************************)
(* The emulation backends on small instances: one or two devices; shift    *)
(* and backslash, whose key code on macOS is the evdev code of shift, the  *)
(* screenshot key, and one that some backends have no code for; displays   *)
(* of different height beside each other.                                  *)
(***************************************************************************)
EXTENDS EmulationBackends

Scenario(b, H, K) == [backend |-> b, handles |-> H, keys |-> K]
SmallScenarios == {
  Scenario("macos", {1, 2}, {42, 43}),   Scenario("macos", {1}, {42, 99, 464}),
  Scenario("macos_vhid", {1}, {42, 99}), Scenario("macos_vhid", {1, 2}, {42}),
  Scenario("windows", {1, 2}, {42, 43}), Scenario("windows", {1}, {43, 464}),
  Scenario("x11", {1, 2}, {43}),         Scenario("wlroots", {1, 2}, {42}),
  Scenario("libei", {1}, {42, 43}),      Scenario("xdp", {1, 2}, {43})}

Display(x0, x1, y1) == [x0 |-> x0, y0 |-> 0, x1 |-> x1, y1 |-> y1]
TwoDisplays == {Display(0, 1, 2), Display(1, 2, 1)}
Corner == <<0, 0>>

\* In halves of a pixel: at half the speed, one pixel there and half of one back.  At a
\* quarter, three are less than a pixel, nine are more.
ThereAndBack == {<<4, 0>>, <<-2, 0>>, <<0, 4>>, <<0, -2>>}
LittleAndMore == {3, -9}

\* A fraction of a quarter step, and four steps, which scale to one.
TinyAndFour == {1, -480}

\* Half the speed, a quarter of the scrolling, the other way round.
SlowNatural == {[speed_num |-> 1, speed_den |-> 2, scroll_num |-> 1, scroll_den |-> 4,
                 natural_scrolling |-> TRUE]}

SinksFairSpec == SinksSpec /\ SinksFairness
==============================================================================
