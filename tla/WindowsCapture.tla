--------------------------- MODULE WindowsCapture ---------------------------
(***************************************************************************)
(* Capture on Windows.  A thread runs the message loop and, while it waits *)
(* for messages, the hooks that see the input.  InputCapture posts it a    *)
(* message per request; clients to create and to destroy travel in a       *)
(* buffer, which one message empties.  The hooks hand Begin to a bounded   *)
(* channel and wait for room, but drop input when there is none.           *)
(*                                                                         *)
(* Dropping WindowsInputCapture drops the receiver, then posts Exit and    *)
(* waits for the thread.  A hook that sends Begin after the receiver is    *)
(* gone unwraps the error, in a function that must not unwind.             *)
(***************************************************************************)
EXTENDS CaptureStream

CONSTANTS
  MaxMessages,       \* bound: messages posted to the thread, Exit aside
  Points,            \* where the mouse can be, on the displays or beyond
  Screens            \* what the displays can be: sets of rectangles

ASSUME WindowsAssumption ==
  /\ MaxMessages \in Nat
  /\ None \notin Points

VARIABLES
  CLIENTS,
  ACTIVE_CLIENT,
  request_buffer,    \* client updates not drained yet
  messages,          \* the thread's message queue
  PREV_POS,
  DISPLAYS,          \* the displays as they were enumerated last
  outdated,          \* whether DISPLAY_RESOLUTION_GENERATION has gone up since
  screen,            \* external: the displays
  thread,            \* "running", "blocked" in a send, "exited", "aborted" by a send whose
                     \* receiver is gone, or by "no_display" to clamp to
  owner              \* "live", "dropping" (receiver gone), "joining" or "gone"

windowsVars == <<CLIENTS, ACTIVE_CLIENT, request_buffer, messages, PREV_POS,
                DISPLAYS, outdated, screen, thread, owner>>
displayVars == <<PREV_POS, DISPLAYS, outdated, screen>>

\* WindowsInputCapture::new returns when the thread has given its id.
WindowsInit ==
  /\ CLIENTS = {}
  /\ ACTIVE_CLIENT = None
  /\ request_buffer = <<>>
  /\ messages = <<>>
  /\ PREV_POS = None
  /\ DISPLAYS = {}
  /\ outdated = TRUE
  /\ screen \in Screens
  /\ thread = "running"
  /\ owner = "live"

------------------------------------------------------------------------------
Signal(m) == Len(messages) < MaxMessages /\ messages' = Append(messages, m)

\* client_update: the buffer first, then the message.
ClientUpdate(op, p) ==
  /\ owner = "live"
  /\ request_buffer' = Append(request_buffer, [op |-> op, pos |-> p])
  /\ Signal("ClientUpdate")
  /\ QueueNothing
  /\ UNCHANGED <<CLIENTS, ACTIVE_CLIENT, displayVars, thread, owner>>

WinCreate(p) == FirstHandle(p) /\ ClientUpdate("Create", p)
WinDestroy(p) == LastHandle(p) /\ ClientUpdate("Destroy", p)

\* release_capture
WinRelease ==
  /\ owner = "live"
  /\ Signal("Release")
  /\ QueueNothing
  /\ UNCHANGED <<created, CLIENTS, ACTIVE_CLIENT, request_buffer, displayVars, thread, owner>>

\* Mutant: the receiver outlives the thread.
KeepReceiver == UNCHANGED <<events, thread>>

\* The receiver is dropped: who waits for room in the channel gets an error.
DropReceiver ==
  /\ events' = <<>>
  /\ thread' = IF thread = "blocked" THEN "aborted" ELSE thread

DropOwner ==
  /\ owner = "live"
  /\ owner' = "dropping"
  /\ DropReceiver
  /\ UNCHANGED <<created, begun, CLIENTS, ACTIVE_CLIENT, request_buffer, messages, displayVars>>

\* Drop for EventThread.
DropEventThread ==
  /\ owner = "dropping"
  /\ messages' = Append(messages, "Exit")
  /\ owner' = "joining"
  /\ QueueNothing
  /\ UNCHANGED <<created, CLIENTS, ACTIVE_CLIENT, request_buffer, displayVars, thread>>

Join ==
  /\ owner = "joining" /\ thread = "exited"
  /\ owner' = "gone"
  /\ QueueNothing
  /\ UNCHANGED <<created, CLIENTS, ACTIVE_CLIENT, request_buffer, messages, displayVars, thread>>

------------------------------------------------------------------------------
\* update_clients, for each of the updates in the buffer.
LastUpdate(p) ==
  LET is == {i \in 1 .. Len(request_buffer) : request_buffer[i].pos = p}
  IN IF is = {} THEN "none"
     ELSE request_buffer[CHOOSE i \in is : \A j \in is : j <= i].op

Destroyed == {p \in Positions :
                \E i \in 1 .. Len(request_buffer) : request_buffer[i] = [op |-> "Destroy", pos |-> p]}

\* Mutant: the positions to destroy are removed after all others were added.
UpdateInBulk ==
  /\ CLIENTS' = (CLIENTS \cup {request_buffer[i].pos : i \in 1 .. Len(request_buffer)}) \ Destroyed
  /\ ACTIVE_CLIENT' = IF ACTIVE_CLIENT \in Destroyed THEN None ELSE ACTIVE_CLIENT
  /\ request_buffer' = <<>>

UpdateClients ==
  /\ CLIENTS' = {p \in Positions : LastUpdate(p) = "Create" \/ (LastUpdate(p) = "none" /\ p \in CLIENTS)}
  /\ ACTIVE_CLIENT' = IF ACTIVE_CLIENT \in Destroyed THEN None ELSE ACTIVE_CLIENT
  /\ request_buffer' = <<>>

\* The message loop, and window_proc for a change of the displays.
HandleMessage ==
  /\ thread = "running" /\ messages # <<>>
  /\ messages' = Tail(messages)
  /\ \/ /\ Head(messages) = "Exit"
        /\ thread' = "exited"
        /\ UNCHANGED <<CLIENTS, ACTIVE_CLIENT, request_buffer, outdated>>
     \/ /\ Head(messages) = "Release"
        /\ ACTIVE_CLIENT' = None
        /\ UNCHANGED <<CLIENTS, request_buffer, outdated, thread>>
     \/ /\ Head(messages) = "ClientUpdate"
        /\ UpdateClients
        /\ UNCHANGED <<outdated, thread>>
     \/ /\ Head(messages) = "DisplayChange"
        /\ outdated' = TRUE
        /\ UNCHANGED <<CLIENTS, ACTIVE_CLIENT, request_buffer, thread>>
  /\ QueueNothing
  /\ UNCHANGED <<created, PREV_POS, DISPLAYS, screen, owner>>

\* The displays change (external); Windows tells the window.
ScreenChanges ==
  /\ thread \in {"running", "blocked"}
  /\ screen' \in Screens \ {screen}
  /\ Signal("DisplayChange")
  /\ QueueNothing
  /\ UNCHANGED <<created, CLIENTS, ACTIVE_CLIENT, request_buffer, PREV_POS, DISPLAYS, outdated,
                 thread, owner>>

------------------------------------------------------------------------------
\* display_util: is_within_dp_boundary and what is made of it.
WithinBoundary(pt, d, p) ==
  CASE p = "left" -> d.left <= pt.x
    [] p = "right" -> d.right > pt.x
    [] p = "top" -> d.top <= pt.y
    [] p = "bottom" -> d.bottom > pt.y

AllEdges == <<"left", "right", "top", "bottom">>
Within(pt, d) == \A i \in 1 .. 4 : WithinBoundary(pt, d, AllEdges[i])
InDisplayRegion(pt, ds) == \E d \in ds : Within(pt, d)
InBounds(pt, ds, p) == \E d \in ds : WithinBoundary(pt, d, p)

MovedAcross(prev, curr, ds, p) == InDisplayRegion(prev, ds) /\ ~InBounds(curr, ds, p)

EnteredBarrier(prev, curr, ds) ==
  LET is == {i \in 1 .. 4 : MovedAcross(prev, curr, ds, AllEdges[i])}
  IN IF is = {} THEN None ELSE AllEdges[CHOOSE i \in is : \A j \in is : i <= j]

\* Mutant: Begin is dropped when there is no room for it.
TrySendBegin(p) ==
  IF RoomForEvent THEN QueueBegin(p) /\ UNCHANGED thread ELSE QueueNothing /\ UNCHANGED thread

\* blocking_send_event
BlockingSendBegin(p) ==
  IF RoomForEvent THEN QueueBegin(p) /\ UNCHANGED thread ELSE QueueNothing /\ thread' = "blocked"

\* clamp_to_display_bounds looks the previous position up in the displays that
\* the barrier was found with.
ClampDisplays(ds) == ds

\* A client is activated: the entry point is clamped to the display the mouse
\* comes from, and InputCapture is told.
Activate(p, prev, ds) ==
  /\ ACTIVE_CLIENT' = p
  /\ IF ~InDisplayRegion(prev, ClampDisplays(ds)) THEN thread' = "no_display" /\ QueueNothing
     ELSE IF owner # "live" THEN thread' = "aborted" /\ QueueNothing
     ELSE BlockingSendBegin(p)

\* The mouse hook sees the mouse move while no client is active:
\* check_client_activation.  The displays are enumerated if they have changed.
MouseMoves(curr) ==
  LET prev == IF PREV_POS = None THEN curr ELSE PREV_POS
      ds == IF outdated THEN screen ELSE DISPLAYS
      p == EnteredBarrier(prev, curr, ds)
  IN /\ thread = "running" /\ ACTIVE_CLIENT = None
     /\ PREV_POS' = curr
     /\ DISPLAYS' = ds /\ outdated' = FALSE
     /\ IF p \in CLIENTS THEN Activate(p, prev, ds)
        ELSE UNCHANGED <<ACTIVE_CLIENT, thread>> /\ QueueNothing
     /\ UNCHANGED <<created, CLIENTS, request_buffer, messages, screen, owner>>

\* There is room for the Begin the hook waits with.
SendBlocked ==
  /\ thread = "blocked" /\ RoomForEvent
  /\ QueueBegin(ACTIVE_CLIENT)
  /\ thread' = "running"
  /\ UNCHANGED <<created, CLIENTS, ACTIVE_CLIENT, request_buffer, messages, displayVars, owner>>

\* A hook sees input while a client is active: it is queued or, without room or
\* receiver, dropped.  A move is remembered either way.
HookInput ==
  /\ thread = "running" /\ ACTIVE_CLIENT # None
  /\ PREV_POS' \in Points
  /\ IF owner = "live" /\ RoomForEvent THEN QueueInput(ACTIVE_CLIENT) ELSE QueueNothing
  /\ UNCHANGED <<created, CLIENTS, ACTIVE_CLIENT, request_buffer, messages, DISPLAYS, outdated,
                 screen, thread, owner>>

WinPoll ==
  /\ owner = "live"
  /\ events # <<>>
  /\ events' = Tail(events)
  /\ UNCHANGED <<created, begun, windowsVars>>

WindowsNext ==
  /\ thread \notin {"aborted", "no_display"}
  /\ \/ \E p \in Positions : WinCreate(p) \/ WinDestroy(p)
     \/ \E pt \in Points : MouseMoves(pt)
     \/ ScreenChanges
     \/ WinRelease
     \/ DropOwner \/ DropEventThread \/ Join
     \/ HandleMessage \/ SendBlocked \/ HookInput
     \/ WinPoll

------------------------------------------------------------------------------
UpdatesArrive ==
  /\ request_buffer # <<>> => \E i \in 1 .. Len(messages) : messages[i] = "ClientUpdate"
  /\ created = {p \in Positions : LastUpdate(p) = "Create" \/ (LastUpdate(p) = "none" /\ p \in CLIENTS)}

\* Dropping the backend never waits for a thread that waits for the receiver.
DropEnds == (owner = "dropping") ~> (owner = "gone" \/ thread = "aborted")
==============================================================================
