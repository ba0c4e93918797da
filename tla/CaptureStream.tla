---------------------------- MODULE CaptureStream ----------------------------
(***************************************************************************)
(* What every capture backend shares: the positions InputCapture has asked *)
(* it to watch, and the queue of events it hands to InputCapture.  A       *)
(* backend makes no distinction between key, button and motion that        *)
(* InputCapture could observe here: what matters is the position an event  *)
(* carries, and that Begin comes before the input of a capture.            *)
(***************************************************************************)
EXTENDS Integers, Sequences, FiniteSets

CONSTANTS
  Positions,         \* edges of the screen
  None,
  MaxEvents          \* bound: events queued for InputCapture

ASSUME StreamAssumption ==
  /\ None \notin Positions
  /\ MaxEvents \in Nat

VARIABLES
  created,           \* positions InputCapture has at least one handle for
  events,            \* queued for InputCapture, oldest first
  begun              \* history: the position of the last Begin queued

streamVars == <<created, events, begun>>

CaptureEventAt(p, kind) == [pos |-> p, kind |-> kind]

StreamInit ==
  /\ created = {}
  /\ events = <<>>
  /\ begun = None

RoomForEvent == Len(events) < MaxEvents

\* An event is queued.
QueueBegin(p) ==
  /\ events' = Append(events, CaptureEventAt(p, "Begin"))
  /\ begun' = p

QueueInput(p) ==
  /\ events' = Append(events, CaptureEventAt(p, "Input"))
  /\ UNCHANGED begun

QueueNothing == UNCHANGED <<events, begun>>

\* InputCapture::create and destroy call the backend for the first and the last
\* handle of a position.
FirstHandle(p) == p \notin created /\ created' = created \cup {p}
LastHandle(p) == p \in created /\ created' = created \ {p}
==============================================================================
