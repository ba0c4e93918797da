-------------------------- MODULE EmulationBackends --------------------------
(***************************************************************************)
(* The emulation backends side by side: InputEmulation::new takes the      *)
(* first that can be created.  Whichever it is, it keeps the promise that  *)
(* EmulationBackend states.                                                *)
(***************************************************************************)
EXTENDS MacEmulation, VhidEmulation, WindowsEmulation, X11Emulation,
        WlrootsEmulation, LibeiEmulation, PortalEmulation

CONSTANT Scenarios     \* a backend, the devices that send to it, and their keys

ASSUME ScenariosAssumption ==
  \A s \in Scenarios : s.handles \subseteq EmHandles /\ s.keys \subseteq EmKeys

VARIABLE scenario      \* which of them this is: it never changes

backend == scenario.backend

sinksVars == <<sinkVars, scenario, cursor, macVars, vhidVars, winVars, wlrVars,
               libeiSinkVars, portalVars>>

\* with_backend
SinksInit ==
  /\ scenario \in Scenarios
  /\ SinkInit /\ QuartzInit
  /\ MacInit /\ VhidInit /\ WinInit /\ WlrootsInit /\ LibeiSinkInit /\ PortalInit
  /\ backend = "macos_vhid" \/ sink_ready = FALSE

Quartz == {"macos", "macos_vhid"}

\* The variables of all backends but b.
OthersIdle(b) ==
  /\ b \in Quartz \/ UNCHANGED cursor
  /\ b = "macos" \/ UNCHANGED macVars
  /\ b = "macos_vhid" \/ UNCHANGED vhidVars
  /\ b = "windows" \/ UNCHANGED winVars
  /\ b = "wlroots" \/ UNCHANGED wlrVars
  /\ b = "libei" \/ UNCHANGED libeiSinkVars
  /\ b = "xdp" \/ UNCHANGED portalVars

FrontStep(A) == A /\ UNCHANGED <<scenario, cursor, macVars, vhidVars, winVars, wlrVars,
                             libeiSinkVars, portalVars>>

\* A step A of backend b.
Of(b, A) ==
  /\ backend = b
  /\ A
  /\ UNCHANGED scenario
  /\ OthersIdle(b)

SinksNext ==
  \/ FrontStep(Input(scenario.handles, scenario.keys)) \/ FrontStep(Ending)
  \/ Of("macos", MacEmulationNext)
  \/ Of("macos_vhid", VhidEmulationNext)
  \/ Of("windows", WindowsEmulationNext)
  \/ Of("x11", X11EmulationNext)
  \/ Of("wlroots", WlrootsEmulationNext)
  \/ Of("libei", LibeiEmulationNext)
  \/ Of("xdp", PortalEmulationNext)

SinksSpec == SinksInit /\ [][SinksNext]_sinksVars

\* The runtime goes on with the emulation task whose call can go on, and polls the
\* repeat task.  SendInput is tried again without a pause, so it finds an input
\* desktop that comes back time and again.  Nothing is assumed of calls that wait for
\* the portal to answer.
SinksFairness ==
  /\ WF_sinksVars(FrontStep(Terminate))
  /\ WF_sinksVars(Of("macos", MacConsume)) /\ WF_sinksVars(Of("macos", Cancelled))
  /\ WF_sinksVars(Of("macos", MacTask))
  /\ WF_sinksVars(Of("macos_vhid", VhidConsume))
  /\ SF_sinksVars(Of("windows", WinConsume))
  /\ WF_sinksVars(Of("x11", X11EmulationNext))
  /\ WF_sinksVars(Of("wlroots", WlrootsEmulationNext))
  /\ WF_sinksVars(Of("libei", EiSinkConsume))
  /\ WF_sinksVars(Of("xdp", PortalIgnores))

------------------------------------------------------------------------------
\* Every backend implements what InputEmulation relies on to leave no key behind:
\* whatever repeats, fails or is replaced, keys go down only while a device holds
\* them, and none is down once the backend has been terminated.
held == Held
down == DesktopKeys
ended == session = "ended"

Promise == INSTANCE EmulationBackend WITH Keys <- EmKeys
SinkKeepsPromise == Promise!Spec

\* Between calls a modifier is applied, or told to the compositor, only for a key
\* that is held or a report that says so: the count of modifiers that the backends
\* keep beside the keys leaves none stuck.
AppliedModifiers ==
  CASE backend = "macos" -> modifier_state
    [] backend = "wlroots" -> UNION {told[h].depressed : h \in DOMAIN told}
    [] OTHER -> {}

ModifiersExplained ==
  calls = <<>> /\ ~dropped =>
    AppliedModifiers \subseteq MasksOf(Held) \cup UNION {reported[h] : h \in EmHandles}

\* The cursor stays on a display, whatever gap or corner the motion points at.
CursorOnDisplay == backend \in Quartz => DisplaysAt(cursor) # {}

\* What comes of a distance, in parts of which n make a pixel or a unit: it is cut by
\* less than one of them, and never turned round.
Kept(asked, got, n) ==
  /\ Magnitude(asked - got) < n
  /\ got # 0 => Sign(got) = Sign(asked)

\* A button is posted as the one asked for, or not at all, except that x11 takes one
\* without a name for the left one.
ButtonKept ==
  posted.op = "button" =>
    \/ posted.got = posted.button
    \/ backend = "x11" /\ posted.button \notin KnownButtons /\ posted.got = "left"

\* Motion goes where it was asked to, but for less than a pixel of every event: what is
\* cut is not made up for by the next one.
MotionKept ==
  posted.op = "motion" =>
    \A i \in {1, 2} :
      /\ Kept(Moved(posted.by)[i], posted.moved[i], Pixel)
      /\ mouse_config.speed_num > 0 /\ posted.moved[i] # 0 =>
           Sign(posted.moved[i]) = Sign(posted.by[i])

\* So does continuous scrolling, of which x11 makes a click whatever its amount.
AxisKept ==
  posted.op = "axis" =>
    LET wanted == Rolled(posted.value)
    IN /\ backend # "x11" => Kept(wanted, posted.amount, Unit)
       /\ wanted # 0 /\ posted.amount # 0 => Sign(posted.amount) = Sign(wanted)
       /\ mouse_config.scroll_num > 0 /\ posted.value # 0 /\ posted.amount # 0 =>
            Sign(posted.amount) = Sign(Directed(posted.value))

\* A discrete scroll is not lost if it is a whole step, after scaling, and goes the way
\* that was asked for, unless the factor is zero or turns it round; scaling alone loses
\* nothing.
ScrollKept ==
  posted.op = "scroll" =>
    LET wanted == Directed(Scaled(posted.value))
    IN /\ Magnitude(wanted) >= 120 => posted.amount # 0
       /\ mouse_config.scroll_num > 0 /\ posted.value # 0 =>
            /\ wanted # 0
            /\ posted.amount # 0 => Sign(posted.amount) = Sign(Directed(posted.value))

\* What the desktop is told of the pointer is what was asked for, up to the units it is
\* told in.
PointerKept == ButtonKept /\ MotionKept /\ AxisKept /\ ScrollKept

\* The call into the backend waits for the portal.
WaitsForPortal ==
  \/ backend = "xdp" /\ AwaitsAnswer
  \/ backend = "libei" /\ InCall("terminate")

\* Windows has its input desktop back, and the portal answers, time and again.
Answered == []<>~input_blocked /\ []<>~WaitsForPortal

\* When keys are down that no device holds any more, they come up, or are pressed
\* again, unless the backend dropped a release, consume waits for a repeat task that
\* has missed its notification, or libei's server has replaced their keyboard.
LetGoComesUp ==
  Answered =>
    ((~(DesktopKeys \subseteq Held)) ~>
       \/ DesktopKeys \subseteq Held
       \/ dropped
       \/ CancelLost
       \/ backend = "libei" /\ KeyboardReplaced)

\* No call into a backend holds up the emulation task for ever, but for the lost
\* notification on macOS, an input desktop that does not come back, and a portal that
\* does not answer or never says Closed.
CallsReturn == Answered => ((calls # <<>>) ~> (calls = <<>> \/ CancelLost))
==============================================================================
