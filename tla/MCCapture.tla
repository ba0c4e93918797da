------------------------------ MODULE MCCapture ------------------------------
(***************************************************************************)
(* The capture backends on small instances: screens of one or two places   *)
(* beside each other, and one or two positions.                            *)
(***************************************************************************)
EXTENDS CaptureBackends

\* Wayland outputs: the second can mirror the first or lie to its right.
Here == [x |-> 0, y |-> 0, w |-> 1, h |-> 1]
Beside == [x |-> 1, y |-> 0, w |-> 1, h |-> 1]
TwoPlaces == {Here, Beside}
SecondMoves == [o \in 1 .. 2 |-> IF o = 1 THEN {Here} ELSE {Here, Beside}]
OneOutput == [o \in {1} |-> {Here}]

\* Windows displays, and where the mouse is: on them or one step beyond.
Rect(l, r) == [left |-> l, right |-> r, top |-> 0, bottom |-> 1]
OneDisplay == {{Rect(0, 1)}}
OneOrTwo == {{Rect(0, 1)}, {Rect(0, 1), Rect(1, 2)}}
Line == {[x |-> x, y |-> 0] : x \in {-1, 0, 1, 2}}

FairSpec == BackendsSpec /\ BackendsFairness
==============================================================================
