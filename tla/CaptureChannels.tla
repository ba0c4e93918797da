--------------------------- MODULE CaptureChannels ---------------------------
(***************************************************************************)
(* The two unbounded channels between the service and the capture task:    *)
(* CaptureRequest values travel one way, ICaptureEvent values the other.   *)
(* Both ends run on one thread, but only a FIFO connects them, so the task *)
(* works on a view of the clients that is as old as the queue is long.     *)
(***************************************************************************)
EXTENDS Integers, Sequences, FiniteSets

CONSTANTS
  Positions,         \* the edges of the screen a barrier can be created at
  ClientHandles,     \* slab keys the client manager can hand out
  EnterHandleBegin,  \* ENTER_HANDLE_BEGIN: first handle of incoming devices
  MaxTriggers,       \* bound: incoming devices registered in one behaviour
  MaxRequests,       \* bound: requests waiting for the capture task
  MaxCaptureEvents   \* bound: events waiting for the service

ASSUME ChannelAssumption ==
  /\ EnterHandleBegin \in Nat
  /\ MaxTriggers \in Nat
  /\ MaxRequests \in Nat
  /\ MaxCaptureEvents \in Nat
  /\ ClientHandles \subseteq 0 .. EnterHandleBegin - 1

VARIABLES
  requests,          \* CaptureRequest: service -> capture task
  capture_events     \* ICaptureEvent: capture task -> service

channelVars == <<requests, capture_events>>

EnterHandles == EnterHandleBegin .. EnterHandleBegin + MaxTriggers - 1
Handles == ClientHandles \cup EnterHandles
CaptureTypes == {"Default", "EnterOnly"}

\* One barrier the capture task is asked to watch.
Capture(h, p, t) == [handle |-> h, pos |-> p, type |-> t]
Captures == [handle: Handles, pos: Positions, type: CaptureTypes]

CreateRequest(h, p, t) == [op |-> "Create", handle |-> h, pos |-> p, type |-> t]
DestroyRequest(h) == [op |-> "Destroy", handle |-> h]
ReleaseRequest == [op |-> "Release"]
ReenableRequest == [op |-> "Reenable"]

Requests ==
  [op: {"Create"}, handle: Handles, pos: Positions, type: CaptureTypes]
    \cup [op: {"Destroy"}, handle: Handles]
    \cup {ReleaseRequest, ReenableRequest}

CaptureBegin(h) == [ev |-> "CaptureBegin", handle |-> h]
ClientEntered(h) == [ev |-> "ClientEntered", handle |-> h]
CaptureEnabled == [ev |-> "CaptureEnabled"]
CaptureDisabled == [ev |-> "CaptureDisabled"]

CaptureEvents ==
  [ev: {"CaptureBegin", "ClientEntered"}, handle: Handles]
    \cup {CaptureEnabled, CaptureDisabled}

\* The bounds on the two channels, as guards of what sends on them.
RoomFor(n) == Len(requests) + n <= MaxRequests
EventRoomFor(n) == Len(capture_events) + n <= MaxCaptureEvents

ChannelTypeOK ==
  /\ requests \in Seq(Requests)
  /\ capture_events \in Seq(CaptureEvents)

ChannelInit ==
  /\ requests = <<>>
  /\ capture_events = <<>>
==============================================================================
