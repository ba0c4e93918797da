--------------------------- MODULE CaptureBackends ---------------------------
(***************************************************************************)
(* The capture backends side by side: InputCapture::new takes the first    *)
(* that can be created, and is left with it.  Whichever it is, it keeps    *)
(* the promise CaptureBackend states, as strictly as its threads allow.    *)
(***************************************************************************)
EXTENDS LayerShell, MacCapture, WindowsCapture, LibeiCapture

CONSTANT Backends    \* the backends that can be created here

ASSUME BackendsAssumption == Backends \subseteq {"layer_shell", "macos", "windows", "portal"}

VARIABLE backend

backendsVars == <<backend, streamVars, layerShellVars, macVars, windowsVars, libeiVars>>

\* create
BackendsInit ==
  /\ backend \in Backends
  /\ StreamInit
  /\ LayerShellInit /\ MacInit /\ WindowsInit /\ LibeiInit
  /\ backend = "windows" \/ screen = CHOOSE s \in Screens : TRUE

BackendsNext ==
  /\ UNCHANGED backend
  /\ \/ /\ backend = "layer_shell" /\ LayerShellNext
        /\ UNCHANGED <<macVars, windowsVars, libeiVars>>
     \/ /\ backend = "macos" /\ MacNext
        /\ UNCHANGED <<layerShellVars, windowsVars, libeiVars>>
     \/ /\ backend = "windows" /\ WindowsNext
        /\ UNCHANGED <<layerShellVars, macVars, libeiVars>>
     \/ /\ backend = "portal" /\ LibeiNext
        /\ UNCHANGED <<layerShellVars, macVars, windowsVars>>

BackendsSpec == BackendsInit /\ [][BackendsNext]_backendsVars

\* On Windows the owner goes on dropping; the thread handles its messages and its
\* sends complete when there is room.  Every task of the portal backend is polled
\* again once what it waits for is there, a select! takes any arm that is ready in
\* the end, and InputCapture polls unless it waits itself.  Nothing is assumed of the
\* portal and the libei server: a call to the portal may never return.
OwnerDrops == DropEventThread \/ Join
ThreadGoesOn == HandleMessage \/ SendBlocked
CallerGoesOn == LibeiPoll \/ RequestSent \/ TaskAwaited

BackendsFairness ==
  /\ WF_<<streamVars, windowsVars>>(backend = "windows" /\ OwnerDrops)
  /\ WF_<<streamVars, windowsVars>>(backend = "windows" /\ ThreadGoesOn)
  /\ WF_<<streamVars, libeiVars>>(backend = "portal" /\ LoopStep /\ ~WaitsForPortal)
  /\ WF_<<streamVars, libeiVars>>(backend = "portal" /\ UpdateByToken(FALSE))
  /\ SF_<<streamVars, libeiVars>>(backend = "portal" /\ UpdateByRequest)
  /\ WF_<<streamVars, libeiVars>>(backend = "portal" /\ CapStep /\ ~WaitsForPortal)
  /\ SF_<<streamVars, libeiVars>>(backend = "portal" /\ CapCancelled)
  /\ WF_<<streamVars, libeiVars>>(backend = "portal" /\ EiCancelled)
  /\ WF_<<streamVars, libeiVars>>(backend = "portal" /\ Admit)
  /\ WF_<<streamVars, libeiVars>>(backend = "portal" /\ CallerGoesOn)

\* What the backend watches now.
watched ==
  CASE backend = "layer_shell" -> active_positions
    [] backend = "macos" -> active_clients
    [] backend = "windows" -> CLIENTS
    [] backend = "portal" -> libei_clients

\* The captures whose input may still come.  On Wayland and on Windows there is only
\* the one that began last.  On macOS a capture stays open that began while a Grab
\* was on its way to the task: when the task comes to it after EDGE_COOLDOWN only,
\* another may have begun since.  Through the portal it is that of a libei event
\* which is still being sent, and whose position is the one that was current when it came.
LatestOnly == {begun} \ {None}

Grabs(es) == {es[i].pos : i \in {j \in 1 .. Len(es) : es[j].ev = "Grab"}}
MacOpen == (LatestOnly \cup Grabs(notify) \cup {current_pos}) \ {None}

\* Input that waits behind the Begin of its own capture is not late.
BeginAhead(ws, i) == \E j \in 1 .. i : ws[j] = Waiter("cap", ws[i].pos)
BeingSent(ws) ==
  {ws[i].pos : i \in {j \in 1 .. Len(ws) : ws[j].who = "ei" /\ ~BeginAhead(ws, j)}}
PortalOpen == LatestOnly \cup BeingSent(waiting)

open ==
  CASE backend = "layer_shell" -> LatestOnly
    [] backend = "macos" -> MacOpen
    [] backend = "windows" -> LatestOnly
    [] backend = "portal" -> PortalOpen

\* Every backend implements what InputCapture takes for granted, through every race
\* of requests, channels and threads: a capture begins at a position that is watched,
\* and input carries the position of a capture that is open: on Wayland and on Windows
\* the one that began last.
Promise == INSTANCE CaptureBackend
KeepsPromise == Promise!Spec

\* UpdatesArrive is about the requests to the Windows backend.
WindowsUpdatesArrive == backend = "windows" => UpdatesArrive

\* CreateTakesEffect is about the portal's.
PortalCreateTakesEffect == backend = "portal" => CreateTakesEffect
==============================================================================
