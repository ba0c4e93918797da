----------------------------- MODULE LayerShell -----------------------------
(***************************************************************************)
(* Capture on Wayland compositors with layer-shell: one pixel wide windows *)
(* along the outer edges of the outputs are the barriers.  When the        *)
(* pointer enters one it is locked to it and the input that the compositor *)
(* then sends is queued for the window's position.                         *)
(*                                                                         *)
(* A Window lives as long as an Arc to it does: in active_windows, or in   *)
(* focused, which may hold on to a window that active_windows no longer    *)
(* has.  The compositor is external: it knows the surfaces, which of them  *)
(* the pointer is in, and sends wl_events in order.                        *)
(***************************************************************************)
EXTENDS CaptureStream

CONSTANTS
  OutputNames,       \* registry names of wl_output globals
  Geometries,        \* [x, y, w, h] of outputs
  GeometriesOf,      \* those an output can have
  MaxWlEvents,       \* bound: events on the way from the compositor
  MaxKeyboards       \* bound: wl_keyboard objects bound

VARIABLES
  active_positions,
  outputs,           \* [name -> [info, pending, has_xdg_info]] of those bound
  active_windows,
  focused,
  pointer_lock,      \* whether the lock, relative pointer and inhibitor exist
  keyboards,         \* wl_keyboard objects that receive events
  removed,           \* history: an output went since the windows were last updated
  ls_panicked,
  pointer_in,        \* external: the surface the pointer is in
  wl_events          \* external: events the compositor has sent

layerShellVars == <<active_positions, outputs, active_windows, focused,
                    pointer_lock, keyboards, removed, ls_panicked, pointer_in,
                    wl_events>>

\* OutputInfo::default().
NoGeometry == [x |-> 0, y |-> 0, w |-> 0, h |-> 0]
NewOutput == [info |-> None, pending |-> NoGeometry, has_xdg_info |-> FALSE]

\* A window; old once active_windows was rebuilt without it.
LSWindow(p, o) == [pos |-> p, output |-> o, old |-> FALSE]
LSWindows == [pos: Positions, output: OutputNames, old: BOOLEAN]

\* LayerShellInputCapture::new: the globals the registry already lists are bound,
\* their events arrive later.
LayerShellInit ==
  /\ active_positions = {}
  /\ outputs = [o \in OutputNames |-> NewOutput]
  /\ active_windows = {}
  /\ focused = None
  /\ pointer_lock = FALSE
  /\ keyboards = 0
  /\ removed = FALSE
  /\ ls_panicked = FALSE
  /\ pointer_in = None
  /\ wl_events = <<>>

------------------------------------------------------------------------------
Opposite == [left |-> "right", right |-> "left", top |-> "bottom", bottom |-> "top"]

\* get_edges: where the edge of an output is.
Edge(g, p) ==
  CASE p = "left" -> g.x
    [] p = "right" -> g.x + g.w
    [] p = "top" -> g.y
    [] p = "bottom" -> g.y + g.h

Known(outs) == {o \in DOMAIN outs : outs[o].info # None}

\* get_output_configuration: the outputs whose edge is not where the opposite
\* edge of an output is.
OuterOutputs(outs, p) ==
  {o \in Known(outs) :
     \A o2 \in Known(outs) : Edge(outs[o2].info, Opposite[p]) # Edge(outs[o].info, p)}

\* Surfaces that exist: those of the windows some Arc still refers to.
Alive(ws, f) == ws \cup ({f} \ {None})

\* Window::new, for each output that has an edge at one of the positions.
NewWindows(ps, outs) ==
  {LSWindow(v[1], v[2]) : v \in {u \in ps \X DOMAIN outs : u[2] \in OuterOutputs(outs, u[1])}}

\* The compositor forgets surfaces that were destroyed: the pointer is in none
\* of them.  It may or may not say so.
Compositor(ws, f) ==
  /\ IF pointer_in \in Alive(ws, f) \cup {None}
     THEN UNCHANGED <<pointer_in, wl_events>>
     ELSE /\ pointer_in' = None
          /\ \/ UNCHANGED wl_events
             \/ /\ Len(wl_events) < MaxWlEvents
                /\ wl_events' = Append(wl_events, [ev |-> "Leave"])

\* add_client
AddClient(p) ==
  /\ active_positions' = active_positions \cup {p}
  /\ active_windows' = active_windows \cup NewWindows({p}, outputs)
  /\ UNCHANGED <<focused, pointer_lock, pointer_in, wl_events>>

\* delete_client: with a window of the position, whatever window has the focus
\* is forgotten.
DeleteClient(p) ==
  LET ws == {w \in active_windows : w.pos # p}
      f == IF ws # active_windows THEN None ELSE focused
  IN /\ active_positions' = active_positions \ {p}
     /\ active_windows' = ws
     /\ focused' = f
     /\ Compositor(ws, f)
     /\ UNCHANGED pointer_lock

\* update_windows: new windows take the place of the old, which only focused can
\* keep.
Outdated(w) == IF w = None THEN None ELSE [w EXCEPT !.old = TRUE]

UpdateWindows(outs) ==
  /\ active_windows' = NewWindows(active_positions, outs)
  /\ removed' = FALSE
  /\ focused' = Outdated(focused)
  /\ LET sent == [i \in DOMAIN wl_events |->
                   IF wl_events[i].ev = "Enter"
                   THEN [wl_events[i] EXCEPT !.window = Outdated(@)] ELSE wl_events[i]]
     IN IF pointer_in \in {focused, None}
        THEN pointer_in' = Outdated(pointer_in) /\ wl_events' = sent
        ELSE /\ pointer_in' = None
             /\ \/ wl_events' = sent
                \/ Len(sent) < MaxWlEvents /\ wl_events' = Append(sent, [ev |-> "Leave"])

\* ungrab: without a focused window nothing is undone.
UngrabPointer == pointer_lock' = (pointer_lock /\ focused = None)

\* grab: only the objects that are not there yet are requested.
GrabPointer == pointer_lock' = TRUE

------------------------------------------------------------------------------
\* InputCapture's calls.
LSCreate(p) ==
  /\ FirstHandle(p)
  /\ AddClient(p)
  /\ QueueNothing
  /\ UNCHANGED <<outputs, keyboards, removed, ls_panicked>>

LSDestroy(p) ==
  /\ LastHandle(p)
  /\ DeleteClient(p)
  /\ QueueNothing
  /\ UNCHANGED <<outputs, keyboards, removed, ls_panicked>>

LSRelease ==
  /\ UngrabPointer
  /\ QueueNothing
  /\ UNCHANGED <<created, active_positions, outputs, active_windows, focused, keyboards,
                 removed, ls_panicked, pointer_in, wl_events>>

------------------------------------------------------------------------------
\* Events poll_next dispatches.  wl_output globals: register_global and
\* deregister_global; the windows on an output that went stay.
OutputAdded(o) ==
  /\ o \notin DOMAIN outputs
  /\ outputs' = [n \in DOMAIN outputs \cup {o} |-> IF n = o THEN NewOutput ELSE outputs[n]]
  /\ QueueNothing
  /\ UNCHANGED <<created, active_positions, active_windows, focused, pointer_lock,
                 keyboards, removed, ls_panicked, pointer_in, wl_events>>

OutputRemoved(o) ==
  /\ o \in DOMAIN outputs
  /\ outputs' = [n \in DOMAIN outputs \ {o} |-> outputs[n]]
  /\ removed' = TRUE
  /\ QueueNothing
  /\ UNCHANGED <<created, active_positions, active_windows, focused, pointer_lock,
                 keyboards, ls_panicked, pointer_in, wl_events>>

\* zxdg_output_v1 events.
XdgOutputInfo(o, g) ==
  /\ o \in DOMAIN outputs
  /\ outputs' = [outputs EXCEPT ![o].pending = g, ![o].has_xdg_info = TRUE]
  /\ QueueNothing
  /\ UNCHANGED <<created, active_positions, active_windows, focused, pointer_lock,
                 keyboards, removed, ls_panicked, pointer_in, wl_events>>

\* Mutant: the new geometry is taken, the windows are left as they are.
UpdateInfoOnly(o) ==
  /\ outputs' = [outputs EXCEPT ![o].info = outputs[o].pending]
  /\ UNCHANGED <<active_windows, removed, focused, pointer_in, wl_events>>

\* update_output_info
UpdateOutputInfo(o) ==
  LET outs == [outputs EXCEPT ![o].info = outputs[o].pending]
  IN outputs' = outs /\ UpdateWindows(outs)

\* wl_output's done, and the deprecated one of xdg-output.
OutputDone(o) ==
  /\ o \in DOMAIN outputs
  /\ outputs[o].has_xdg_info
  /\ UpdateOutputInfo(o)
  /\ QueueNothing
  /\ UNCHANGED <<created, active_positions, pointer_lock, keyboards, ls_panicked>>

\* wl_seat capabilities: the pointer is replaced, the keyboard is bound once more
\* (state.keyboard is never set, so there is never one to release).
Capabilities ==
  /\ keyboards < MaxKeyboards
  /\ keyboards' = keyboards + 1
  /\ QueueNothing
  /\ UNCHANGED <<created, active_positions, outputs, active_windows, focused, pointer_lock,
                 removed, ls_panicked, pointer_in, wl_events>>

\* wl_pointer Enter: the surface of a window that active_windows no longer has is
\* ignored.
PointerEnter(e) ==
  IF e.window \in active_windows
  THEN /\ focused' = e.window
       /\ GrabPointer
       /\ QueueBegin(e.window.pos)
       /\ UNCHANGED ls_panicked
  ELSE UNCHANGED <<focused, pointer_lock, ls_panicked>> /\ QueueNothing

PointerLeave ==
  /\ UngrabPointer
  /\ QueueNothing
  /\ UNCHANGED <<focused, ls_panicked>>

\* Button and axis events unwrap the focused window.
PointerInput ==
  /\ IF focused # None
     THEN QueueInput(focused.pos) /\ UNCHANGED ls_panicked
     ELSE QueueNothing /\ ls_panicked' = TRUE
  /\ UNCHANGED <<focused, pointer_lock>>

\* Without one, events of the keyboard are dropped, and so is relative motion.
KeyboardInput ==
  /\ IF focused # None THEN QueueInput(focused.pos) ELSE QueueNothing
  /\ UNCHANGED <<focused, pointer_lock, ls_panicked>>

RelativeMotion ==
  /\ IF focused # None THEN QueueInput(focused.pos) ELSE QueueNothing
  /\ UNCHANGED <<focused, pointer_lock, ls_panicked>>

\* poll_next dispatches the next event of the compositor.
LSDispatch ==
  /\ wl_events # <<>>
  /\ RoomForEvent
  /\ LET e == Head(wl_events) IN
       CASE e.ev = "Enter" -> PointerEnter(e)
         [] e.ev = "Leave" -> PointerLeave
         [] e.ev = "Button" -> PointerInput
         [] e.ev = "Key" -> KeyboardInput
         [] e.ev = "Motion" -> RelativeMotion
  /\ wl_events' = Tail(wl_events)
  /\ pointer_in' = IF pointer_in \in Alive(active_windows, focused') THEN pointer_in ELSE None
  /\ UNCHANGED <<created, active_positions, outputs, active_windows, keyboards, removed>>

\* poll_next returns what is queued before it reads on.
LSPoll ==
  /\ events # <<>>
  /\ events' = Tail(events)
  /\ UNCHANGED <<created, begun, layerShellVars>>

------------------------------------------------------------------------------
\* The compositor (external).  The pointer enters a surface, and leaves it when
\* it is not locked to it or when the compositor breaks the lock.
Send(e) ==
  /\ Len(wl_events) < MaxWlEvents
  /\ wl_events' = Append(wl_events, e)
  /\ QueueNothing
  /\ UNCHANGED <<created, active_positions, outputs, active_windows, focused, pointer_lock,
                 keyboards, removed, ls_panicked>>

UserEnters(w) ==
  /\ w \in Alive(active_windows, focused)
  /\ pointer_in = None
  /\ pointer_in' = w
  /\ Send([ev |-> "Enter", window |-> w])

UserLeaves ==
  /\ pointer_in # None
  /\ pointer_in' = None
  /\ Send([ev |-> "Leave"])

UserClicks ==
  /\ pointer_in # None
  /\ UNCHANGED pointer_in
  /\ Send([ev |-> "Button"])

\* One event for each keyboard object.
UserTypes ==
  /\ keyboards > 0 /\ pointer_in # None
  /\ Len(wl_events) + keyboards <= MaxWlEvents
  /\ wl_events' = wl_events \o [i \in 1 .. keyboards |-> [ev |-> "Key"]]
  /\ QueueNothing
  /\ UNCHANGED <<created, active_positions, outputs, active_windows, focused, pointer_lock,
                 keyboards, removed, ls_panicked, pointer_in>>

UserMoves ==
  /\ pointer_lock
  /\ UNCHANGED pointer_in
  /\ Send([ev |-> "Motion"])

LayerShellNext ==
  /\ ~ls_panicked
  /\ \/ \E p \in Positions : LSCreate(p) \/ LSDestroy(p)
     \/ LSRelease
     \/ \E o \in OutputNames : OutputAdded(o) \/ OutputRemoved(o) \/ OutputDone(o)
     \/ \E o \in OutputNames : \E g \in GeometriesOf[o] : XdgOutputInfo(o, g)
     \/ Capabilities
     \/ \E w \in LSWindows : UserEnters(w)
     \/ LSDispatch
     \/ LSPoll
     \/ UserLeaves \/ UserClicks \/ UserTypes \/ UserMoves

------------------------------------------------------------------------------
\* Unless an output has just gone, the barriers are exactly where a watched
\* position meets the outer edge of an output whose geometry is known, however
\* create, destroy and the outputs' events are interleaved.
BarriersOnOuterEdges ==
  removed \/ {<<w.pos, w.output>> : w \in active_windows}
               = {v \in active_positions \X DOMAIN outputs : v[2] \in OuterOutputs(outputs, v[1])}
==============================================================================
