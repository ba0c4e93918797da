--------------------------- MODULE CaptureBackend ---------------------------
(***************************************************************************)
(* The promise of a capture backend to InputCapture, which the backends of *)
(* the platforms implement: a capture begins only at a position that is    *)
(* being watched, and input carries the position of a capture that has     *)
(* begun and is still open.  A backend that has only the capture that      *)
(* began last open never mistakes where its input belongs; one that leaves *)
(* an earlier capture open may still deliver input of it.  Once closed, a  *)
(* capture is opened again by another Begin only.  Nothing is promised     *)
(* about when a request takes effect, and input may be lost.               *)
(***************************************************************************)
EXTENDS Integers, Sequences

CONSTANT Positions

VARIABLES
  watched,           \* positions a capture can begin at
  events,            \* queued for InputCapture
  open               \* positions of the captures whose input may come

vars == <<watched, events, open>>

Event(p, kind) == [pos |-> p, kind |-> kind]

Init ==
  /\ watched = {}
  /\ events = <<>>
  /\ open = {}

\* Captures may be closed at any time.
SomeClosed == open' \subseteq open

\* create and destroy have taken effect, or the positions a lost session watched
\* are gone.
Watch ==
  /\ watched' \in SUBSET Positions
  /\ SomeClosed
  /\ UNCHANGED events

Begin(p) ==
  /\ p \in watched
  /\ events' = Append(events, Event(p, "Begin"))
  /\ open' \subseteq open \cup {p}
  /\ UNCHANGED watched

Input(p) ==
  /\ p \in open
  /\ events' = Append(events, Event(p, "Input"))
  /\ SomeClosed
  /\ UNCHANGED watched

Poll ==
  /\ events # <<>>
  /\ events' = Tail(events)
  /\ SomeClosed
  /\ UNCHANGED watched

\* The backend is dropped with what is still queued.
Drop ==
  /\ events' = <<>>
  /\ SomeClosed
  /\ UNCHANGED watched

Next ==
  \/ Watch \/ Poll \/ Drop
  \/ \E p \in Positions : Begin(p)
  \/ \E p \in open : Input(p)

Spec == Init /\ [][Next]_vars
==============================================================================
