------------------------ MODULE CaptureBackendsProofs ------------------------
(***************************************************************************)
(* Proofs about the capture backends, for any number of positions, outputs *)
(* and displays and any bounds.  A backend that is not the one in use      *)
(* stays as it began, so an invariant of a backend is one of the whole.    *)
(***************************************************************************)
EXTENDS CaptureBackends, SequenceTheorems, TLAPS

\* The head and the tail of a sequence that is not empty.
LEMMA TailFacts ==
  ASSUME NEW S, NEW q \in Seq(S), q # <<>>
  PROVE  /\ Head(q) \in S /\ Tail(q) \in Seq(S)
         /\ Len(q) \in Nat \ {0} /\ Len(Tail(q)) = Len(q) - 1
         /\ Head(q) = q[1]
         /\ \A i \in 1 .. Len(Tail(q)) : Tail(q)[i] = q[i + 1]
BY HeadTailProperties

LEMMA AppendFacts ==
  ASSUME NEW S, NEW q \in Seq(S), NEW e \in S
  PROVE  /\ Append(q, e) \in Seq(S)
         /\ Len(q) \in Nat /\ Len(Append(q, e)) = Len(q) + 1
         /\ \A i \in 1 .. Len(q) : Append(q, e)[i] = q[i]
         /\ Append(q, e)[Len(q) + 1] = e
BY AppendProperties

LEMMA ShortSequences ==
  ASSUME NEW x, NEW y
  PROVE  /\ \A S : x \in S => <<x>> \in Seq(S)
         /\ Append(<<x>>, y) = <<x, y>>
<1>1. \A S : x \in S => <<x>> \in Seq(S)
  OBVIOUS
<1>2. <<x>> \in Seq({x, y}) /\ Len(<<x>>) = 1 /\ <<x>>[1] = x
  OBVIOUS
<1>3. /\ Append(<<x>>, y) \in Seq({x, y}) /\ Len(Append(<<x>>, y)) = 2
      /\ Append(<<x>>, y)[1] = x /\ Append(<<x>>, y)[2] = y
  BY <1>2, AppendFacts
<1>4. <<x, y>> \in Seq({x, y}) /\ Len(<<x, y>>) = 2 /\ <<x, y>>[1] = x /\ <<x, y>>[2] = y
  OBVIOUS
<1>5. \A i \in 1 .. 2 : i = 1 \/ i = 2
  OBVIOUS
<1> QED BY <1>1, <1>3, <1>4, <1>5, SeqEqual

\* What a backend may do to what it watches, w, to the captures that are open, o, and to
\* the events it has queued.
Keeps(w, w1, o, o1) ==
  \/ w1 \in SUBSET Positions /\ o1 \subseteq o /\ QueueNothing
  \/ w1 = w /\ \E p \in Positions : p \in w /\ o1 \subseteq o \cup {p} /\ QueueBegin(p)
  \/ w1 = w /\ o1 \subseteq o /\ \E p \in o : QueueInput(p)
  \/ w1 = w /\ o1 \subseteq o /\ events # <<>> /\ events' = Tail(events)
  \/ w1 = w /\ o1 \subseteq o /\ events' = <<>>

LEMMA KeepsIsPromise ==
  ASSUME Keeps(watched, watched', open, open')
  PROVE  [Promise!Next]_(Promise!vars)
BY DEF Keeps, QueueNothing, QueueBegin, QueueInput, CaptureEventAt, Promise!Next, Promise!vars,
       Promise!Watch, Promise!Begin, Promise!Input, Promise!Poll, Promise!Drop, Promise!SomeClosed,
       Promise!Event

\* A backend that has only the capture open that began last.
KeepsLatest(w, w1) ==
  \/ w1 \in SUBSET Positions /\ QueueNothing
  \/ w1 = w /\ \E p \in Positions : p \in w /\ QueueBegin(p)
  \/ w1 = w /\ begun # None /\ QueueInput(begun)
  \/ w1 = w /\ events # <<>> /\ events' = Tail(events) /\ UNCHANGED begun
  \/ w1 = w /\ events' = <<>> /\ UNCHANGED begun

LEMMA LatestKeeps ==
  ASSUME NEW w, NEW w1, KeepsLatest(w, w1)
  PROVE  Keeps(w, w1, LatestOnly, LatestOnly')
BY DEF Keeps, KeepsLatest, LatestOnly, QueueNothing, QueueBegin, QueueInput

------------------------------------------------------------------------------
\* macOS.  What is on the way to the task.
ProducerEvents ==
  [ev: {"Create", "Destroy", "Grab"}, pos: Positions] \cup [ev: {"Release", "EventTapDisabled"}]

MacTyped ==
  /\ notify \in Seq(ProducerEvents)
  /\ active_clients \in SUBSET Positions
  /\ current_pos \in Positions \cup {None}

\* The cursor is hidden while current_pos is set.
MacCursor == MacTyped /\ CursorHiddenIffGrabbed

LEMMA MacInitially ==
  ASSUME MacInit
  PROVE  MacCursor
BY StreamAssumption DEF MacInit, MacCursor, MacTyped, CursorHiddenIffGrabbed

\* The step of the task that handles an event.
LEMMA MacHandles ==
  ASSUME MacCursor, HandleProducerEvent
  PROVE  MacCursor'
<1> DEFINE e == Head(notify)
<1>1. e \in ProducerEvents /\ notify' \in Seq(ProducerEvents)
  BY TailFacts DEF MacCursor, MacTyped, HandleProducerEvent
<1>2. e.ev \in {"Create", "Destroy", "Grab"} => e.pos \in Positions
  BY <1>1 DEF ProducerEvents
<1> HIDE DEF e
<1>3. \/ HandleRelease
      \/ e.ev = "Grab" /\ HandleGrab(e.pos)
      \/ e.ev = "Create" /\ HandleCreate(e.pos)
      \/ e.ev = "Destroy" /\ HandleDestroy(e.pos)
      \/ HandleFails(e)
  BY DEF HandleProducerEvent, e
<1>4. task_running /\ task_running' = task_running
  BY DEF HandleProducerEvent
<1>5. CASE HandleRelease
  BY <1>1, <1>4, <1>5 DEF HandleRelease, LetGo, MacCursor, MacTyped, CursorHiddenIffGrabbed
<1>6. CASE e.ev = "Grab" /\ HandleGrab(e.pos)
  BY <1>1, <1>2, <1>4, <1>6, StreamAssumption
     DEF HandleGrab, MacCursor, MacTyped, CursorHiddenIffGrabbed
<1>7. CASE e.ev = "Create" /\ HandleCreate(e.pos)
  BY <1>1, <1>2, <1>4, <1>7 DEF HandleCreate, MacCursor, MacTyped, CursorHiddenIffGrabbed
<1>8. CASE e.ev = "Destroy" /\ HandleDestroy(e.pos)
  BY <1>1, <1>2, <1>4, <1>8, StreamAssumption
     DEF HandleDestroy, LetGo, MacCursor, MacTyped, CursorHiddenIffGrabbed
<1>9. CASE HandleFails(e)
  BY <1>1, <1>4, <1>9 DEF HandleFails, MacCursor, MacTyped, CursorHiddenIffGrabbed
<1> QED BY <1>3, <1>5, <1>6, <1>7, <1>8, <1>9

LEMMA MacCalls ==
  ASSUME NEW e \in ProducerEvents, MacTyped, Notify(e)
  PROVE  /\ notify' \in Seq(ProducerEvents)
         /\ Len(notify') = Len(notify) + 1 /\ Len(notify) \in Nat
         /\ notify'[Len(notify) + 1] = e
         /\ \A i \in 1 .. Len(notify) : notify'[i] = notify[i]
BY AppendFacts DEF MacTyped, Notify

\* Nothing but the task's steps sets current_pos or hides the cursor.
LEMMA MacCursorStep ==
  ASSUME MacCursor, MacNext
  PROVE  MacCursor'
<1> DEFINE Same == UNCHANGED <<active_clients, current_pos, task_running, hides>>
<1>1. ASSUME NEW p \in Positions, MacCreate(p) PROVE Same /\ notify' \in Seq(ProducerEvents)
  <2>1. [ev |-> "Create", pos |-> p] \in ProducerEvents
    BY DEF ProducerEvents
  <2> QED BY <1>1, <2>1, MacCalls DEF MacCreate, MacCall, MacCursor
<1>2. ASSUME NEW p \in Positions, MacDestroy(p) PROVE Same /\ notify' \in Seq(ProducerEvents)
  <2>1. [ev |-> "Destroy", pos |-> p] \in ProducerEvents
    BY DEF ProducerEvents
  <2> QED BY <1>2, <2>1, MacCalls DEF MacDestroy, MacCall, MacCursor
<1>3. ASSUME NEW p \in Positions, Crossed(p) PROVE Same /\ notify' \in Seq(ProducerEvents)
  <2>1. [ev |-> "Grab", pos |-> p] \in ProducerEvents
    BY DEF ProducerEvents
  <2> QED BY <1>3, <2>1, MacCalls DEF Crossed, MacCursor
<1>4. ASSUME MacRelease PROVE Same /\ notify' \in Seq(ProducerEvents)
  <2>1. [ev |-> "Release"] \in ProducerEvents
    BY DEF ProducerEvents
  <2> QED BY <1>4, <2>1, MacCalls DEF MacRelease, MacCall, MacCursor
<1>5. ASSUME TapDisabled PROVE Same /\ notify' \in Seq(ProducerEvents)
  <2>1. [ev |-> "EventTapDisabled"] \in ProducerEvents
    BY DEF ProducerEvents
  <2> QED BY <1>5, <2>1, MacCalls DEF TapDisabled, MacCursor
<1>6. CASE TapExited
  BY <1>6 DEF TapExited, MacCursor, MacTyped, CursorHiddenIffGrabbed
<1>7. ASSUME TapInput \/ (\E m \in Modifiers : FlagsChanged(m)) \/ CooldownOver \/ MacPoll
      PROVE  Same /\ UNCHANGED notify
  BY <1>7 DEF TapInput, FlagsChanged, CooldownOver, MacPoll, macVars
<1>8. ASSUME Same, notify' \in Seq(ProducerEvents) PROVE MacCursor'
  BY <1>8 DEF MacCursor, MacTyped, CursorHiddenIffGrabbed
<1>9. ASSUME Same, UNCHANGED notify PROVE MacCursor'
  BY <1>9 DEF MacCursor, MacTyped, CursorHiddenIffGrabbed
<1>10. CASE HandleProducerEvent
  BY <1>10, MacHandles
<1> HIDE DEF Same
<1> QED BY <1>1, <1>2, <1>3, <1>4, <1>5, <1>6, <1>7, <1>8, <1>9, <1>10 DEF MacNext

\* The cursor is hidden exactly while input is grabbed, whatever the order of Grab,
\* Release and Destroy, whichever of them fail and however late the task comes to
\* them, and it is visible once the task has ended.
THEOREM CursorFollowsGrab == BackendsSpec => []CursorHiddenIffGrabbed
<1>1. BackendsInit => MacCursor
  BY MacInitially DEF BackendsInit
<1>2. MacCursor /\ [BackendsNext]_backendsVars => MacCursor'
  <2> SUFFICES ASSUME MacCursor, [BackendsNext]_backendsVars PROVE MacCursor'
    OBVIOUS
  <2>1. CASE MacNext
    BY <2>1, MacCursorStep
  <2>2. CASE UNCHANGED macVars
    BY <2>2 DEF macVars, MacCursor, MacTyped, CursorHiddenIffGrabbed
  <2> QED BY <2>1, <2>2 DEF BackendsNext, backendsVars
<1>3. MacCursor => CursorHiddenIffGrabbed
  BY DEF MacCursor
<1> QED BY <1>1, <1>2, <1>3, PTL DEF BackendsSpec

------------------------------------------------------------------------------
\* The task takes the oldest event, which may be a Grab of any capture that has begun.
LEMMA GrabTaken ==
  ASSUME MacTyped, notify # <<>>
  PROVE  /\ Grabs(Tail(notify)) \subseteq Grabs(notify)
         /\ Head(notify).ev = "Grab" => Head(notify).pos \in Grabs(notify)
<1>1. /\ Len(notify) \in Nat \ {0} /\ Len(Tail(notify)) = Len(notify) - 1
      /\ Head(notify) = notify[1]
      /\ \A i \in 1 .. Len(Tail(notify)) : Tail(notify)[i] = notify[i + 1]
  BY TailFacts DEF MacTyped
<1>2. ASSUME NEW i \in 1 .. Len(Tail(notify)), Tail(notify)[i].ev = "Grab"
      PROVE  Tail(notify)[i].pos \in Grabs(notify)
  <2>1. i + 1 \in 1 .. Len(notify) /\ Tail(notify)[i] = notify[i + 1]
    BY <1>1
  <2> QED BY <1>2, <2>1 DEF Grabs
<1>3. 1 \in 1 .. Len(notify)
  BY <1>1
<1> QED BY <1>1, <1>2, <1>3 DEF Grabs

LEMMA GrabSent ==
  ASSUME MacTyped, NEW e \in ProducerEvents, Notify(e)
  PROVE  /\ e.ev # "Grab" => Grabs(notify') \subseteq Grabs(notify)
         /\ e.ev = "Grab" => Grabs(notify') \subseteq Grabs(notify) \cup {e.pos}
<1>1. /\ Len(notify') = Len(notify) + 1 /\ Len(notify) \in Nat /\ notify'[Len(notify) + 1] = e
      /\ \A i \in 1 .. Len(notify) : notify'[i] = notify[i]
  BY MacCalls
<1>2. ASSUME NEW i \in 1 .. Len(notify'), notify'[i].ev = "Grab"
      PROVE  (e.ev = "Grab" /\ notify'[i].pos = e.pos) \/ notify'[i].pos \in Grabs(notify)
  <2>1. CASE i = Len(notify) + 1
    BY <1>1, <1>2, <2>1
  <2>2. CASE i \in 1 .. Len(notify)
    BY <1>1, <1>2, <2>2 DEF Grabs
  <2> QED BY <1>1, <2>1, <2>2
<1> QED BY <1>2 DEF Grabs

\* A capture is opened by its Begin only, however late its Grab is handled.
LEMMA MacKeeps ==
  ASSUME MacCursor, MacNext
  PROVE  Keeps(active_clients, active_clients', MacOpen, MacOpen')
<1>1. MacTyped
  BY DEF MacCursor
<1>2. ASSUME active_clients' \in SUBSET Positions, QueueNothing,
             Grabs(notify') \subseteq Grabs(notify),
             current_pos' \in Grabs(notify) \cup {current_pos, None}
      PROVE  Keeps(active_clients, active_clients', MacOpen, MacOpen')
  <2>1. MacOpen' \subseteq MacOpen
    BY <1>2 DEF MacOpen, LatestOnly, QueueNothing
  <2> QED BY <1>2, <2>1 DEF Keeps
<1>3. ASSUME NEW e \in ProducerEvents, e.ev # "Grab", Notify(e), QueueNothing,
             UNCHANGED <<active_clients, current_pos>>
      PROVE  Keeps(active_clients, active_clients', MacOpen, MacOpen')
  <2>1. Grabs(notify') \subseteq Grabs(notify)
    BY <1>1, <1>3, GrabSent
  <2> QED BY <1>1, <1>2, <1>3, <2>1 DEF MacTyped
<1>4. ASSUME NEW p \in Positions, MacCreate(p)
      PROVE  Keeps(active_clients, active_clients', MacOpen, MacOpen')
  <2>1. [ev |-> "Create", pos |-> p] \in ProducerEvents /\ [ev |-> "Create", pos |-> p].ev # "Grab"
    BY DEF ProducerEvents
  <2>2. UNCHANGED <<active_clients, current_pos>> /\ QueueNothing /\ Notify([ev |-> "Create", pos |-> p])
    BY <1>4 DEF MacCreate, MacCall
  <2> QED BY <1>3, <2>1, <2>2
<1>5. ASSUME NEW p \in Positions, MacDestroy(p)
      PROVE  Keeps(active_clients, active_clients', MacOpen, MacOpen')
  <2>1. [ev |-> "Destroy", pos |-> p] \in ProducerEvents /\ [ev |-> "Destroy", pos |-> p].ev # "Grab"
    BY DEF ProducerEvents
  <2>2. UNCHANGED <<active_clients, current_pos>> /\ QueueNothing /\ Notify([ev |-> "Destroy", pos |-> p])
    BY <1>5 DEF MacDestroy, MacCall
  <2> QED BY <1>3, <2>1, <2>2
<1>6. ASSUME MacRelease PROVE Keeps(active_clients, active_clients', MacOpen, MacOpen')
  <2>1. [ev |-> "Release"] \in ProducerEvents /\ [ev |-> "Release"].ev # "Grab"
    BY DEF ProducerEvents
  <2>2. UNCHANGED <<active_clients, current_pos>> /\ QueueNothing /\ Notify([ev |-> "Release"])
    BY <1>6 DEF MacRelease, MacCall
  <2> QED BY <1>3, <2>1, <2>2
<1>7. ASSUME TapDisabled PROVE Keeps(active_clients, active_clients', MacOpen, MacOpen')
  <2>1. [ev |-> "EventTapDisabled"] \in ProducerEvents /\ [ev |-> "EventTapDisabled"].ev # "Grab"
    BY DEF ProducerEvents
  <2>2. UNCHANGED <<active_clients, current_pos>> /\ QueueNothing /\ Notify([ev |-> "EventTapDisabled"])
    BY <1>7 DEF TapDisabled
  <2> QED BY <1>3, <2>1, <2>2
<1>8. ASSUME TapExited \/ CooldownOver
      PROVE  Keeps(active_clients, active_clients', MacOpen, MacOpen')
  <2>1. UNCHANGED <<notify, active_clients, current_pos>> /\ QueueNothing
    BY <1>8 DEF TapExited, CooldownOver
  <2> QED BY <1>1, <1>2, <2>1 DEF MacTyped
<1>9. ASSUME MacPoll \/ TapInput \/ (\E m \in Modifiers : FlagsChanged(m))
      PROVE  Keeps(active_clients, active_clients', MacOpen, MacOpen')
  <2>1. UNCHANGED <<notify, begun, current_pos, active_clients>>
    BY <1>9 DEF MacPoll, TapInput, GetEvents, FlagsChanged, QueueInput, QueueNothing, macVars
  <2>2. MacOpen' = MacOpen
    BY <2>1 DEF MacOpen, LatestOnly
  <2>3. current_pos # None => current_pos \in MacOpen
    BY DEF MacOpen
  <2>4. \/ QueueNothing
        \/ current_pos # None /\ QueueInput(current_pos)
        \/ events # <<>> /\ events' = Tail(events)
    BY <1>9 DEF MacPoll, TapInput, GetEvents, FlagsChanged
  <2> QED BY <1>1, <2>1, <2>2, <2>3, <2>4 DEF Keeps, MacTyped
<1>10. ASSUME HandleProducerEvent
       PROVE  Keeps(active_clients, active_clients', MacOpen, MacOpen')
  <2> DEFINE e == Head(notify)
  <2>1. /\ e.ev = "Grab" => e.pos \in Grabs(notify)
        /\ Grabs(notify') \subseteq Grabs(notify)
    BY <1>1, <1>10, GrabTaken DEF HandleProducerEvent
  <2>2. active_clients' \in SUBSET Positions
    BY <1>10, MacHandles DEF MacCursor, MacTyped
  <2>3. /\ QueueNothing
        /\ \/ HandleRelease
           \/ e.ev = "Grab" /\ HandleGrab(e.pos)
           \/ e.ev = "Create" /\ HandleCreate(e.pos)
           \/ e.ev = "Destroy" /\ HandleDestroy(e.pos)
           \/ HandleFails(e)
    BY <1>10 DEF HandleProducerEvent
  <2> HIDE DEF e
  <2>4. current_pos' \in Grabs(notify) \cup {current_pos, None}
    BY <2>1, <2>3 DEF HandleRelease, HandleGrab, HandleCreate, HandleDestroy, HandleFails, LetGo
  <2> QED BY <1>2, <2>1, <2>2, <2>3, <2>4
<1>11. ASSUME NEW p \in Positions, Crossed(p)
       PROVE  Keeps(active_clients, active_clients', MacOpen, MacOpen')
  <2> DEFINE g == [ev |-> "Grab", pos |-> p]
  <2>1. g \in ProducerEvents /\ g.ev = "Grab" /\ g.pos = p /\ Notify(g)
    BY <1>11 DEF ProducerEvents, Crossed
  <2> HIDE DEF g
  <2>2. Grabs(notify') \subseteq Grabs(notify) \cup {p}
    BY <1>1, <2>1, GrabSent
  <2>3. /\ p \in active_clients /\ QueueBegin(p) /\ begun' = p
        /\ UNCHANGED <<active_clients, current_pos>>
    BY <1>11 DEF Crossed, CrossedBarrier, QueueBegin
  <2>4. MacOpen' \subseteq MacOpen \cup {p}
    BY <2>2, <2>3 DEF MacOpen, LatestOnly
  <2> QED BY <2>3, <2>4 DEF Keeps
<1> QED BY <1>4, <1>5, <1>6, <1>7, <1>8, <1>9, <1>10, <1>11 DEF MacNext

------------------------------------------------------------------------------
\* layer-shell.  What an output's info and pending can be.
Sizes == {None, NoGeometry} \cup UNION {GeometriesOf[o] : o \in OutputNames}
OutputRecords == [info: Sizes, pending: Sizes, has_xdg_info: BOOLEAN]

\* Windows are of positions that are watched, and on outputs that were there.
WindowsTyped ==
  /\ active_positions \in SUBSET Positions
  /\ active_windows \in SUBSET LSWindows
  /\ \A w \in active_windows : w.pos \in active_positions
  /\ DOMAIN outputs \in SUBSET OutputNames
  /\ \A o \in DOMAIN outputs : outputs[o] \in OutputRecords

\* BarriersOnOuterEdges for each position and output.
BarrierAt(p, o) == \E w \in active_windows : w.pos = p /\ w.output = o
BarriersFit ==
  removed \/ \A p \in Positions, o \in OutputNames :
               BarrierAt(p, o) <=> p \in active_positions /\ o \in OuterOutputs(outputs, p)

Windows == WindowsTyped /\ BarriersFit

LEMMA BarriersPointwise ==
  ASSUME WindowsTyped, BarriersFit
  PROVE  BarriersOnOuterEdges
<1> SUFFICES ASSUME ~removed PROVE BarriersOnOuterEdges
  BY DEF BarriersOnOuterEdges
<1> DEFINE B == {<<w.pos, w.output>> : w \in active_windows}
           E == {v \in active_positions \X DOMAIN outputs : v[2] \in OuterOutputs(outputs, v[1])}
<1>1. \A w \in active_windows : w.pos \in Positions /\ w.output \in OutputNames
  BY DEF WindowsTyped, LSWindows
<1>2. \A p : OuterOutputs(outputs, p) \subseteq DOMAIN outputs
  BY DEF OuterOutputs, Known
<1>3. ASSUME NEW v \in B PROVE v \in E
  <2>1. PICK w \in active_windows : v = <<w.pos, w.output>>
    BY <1>3
  <2>2. BarrierAt(w.pos, w.output)
    BY DEF BarrierAt
  <2>3. w.pos \in active_positions /\ w.output \in OuterOutputs(outputs, w.pos)
    BY <1>1, <2>2 DEF BarriersFit
  <2>4. v \in active_positions \X DOMAIN outputs /\ v[1] = w.pos /\ v[2] = w.output
    BY <1>2, <2>1, <2>3
  <2> QED BY <2>3, <2>4
<1>4. ASSUME NEW v \in E PROVE v \in B
  <2>1. v \in active_positions \X DOMAIN outputs /\ v[2] \in OuterOutputs(outputs, v[1])
    OBVIOUS
  <2>2. /\ v[1] \in active_positions /\ v[2] \in DOMAIN outputs
        /\ v = <<v[1], v[2]>>
    BY <2>1
  <2>3. BarrierAt(v[1], v[2])
    BY <2>1, <2>2 DEF BarriersFit, WindowsTyped
  <2> QED BY <2>2, <2>3 DEF BarrierAt
<1>5. B = E
  BY <1>3, <1>4
<1> QED BY <1>5 DEF BarriersOnOuterEdges

\* The windows Window::new makes.
LEMMA NewWindowsFacts ==
  ASSUME NEW ps \in SUBSET Positions, NEW outs, DOMAIN outs \in SUBSET OutputNames
  PROVE  /\ NewWindows(ps, outs) \in SUBSET LSWindows
         /\ \A w \in NewWindows(ps, outs) : w.pos \in ps /\ w.output \in OuterOutputs(outs, w.pos)
         /\ \A p \in ps : \A o \in OuterOutputs(outs, p) :
              \E w \in NewWindows(ps, outs) : w.pos = p /\ w.output = o
<1>1. ASSUME NEW w \in NewWindows(ps, outs)
      PROVE  w \in LSWindows /\ w.pos \in ps /\ w.output \in OuterOutputs(outs, w.pos)
  <2>1. PICK v \in ps \X DOMAIN outs : v[2] \in OuterOutputs(outs, v[1]) /\ w = LSWindow(v[1], v[2])
    BY <1>1 DEF NewWindows
  <2>2. v[1] \in ps /\ v[2] \in DOMAIN outs
    OBVIOUS
  <2> QED BY <2>1, <2>2 DEF LSWindow, LSWindows
<1>2. ASSUME NEW p \in ps, NEW o \in OuterOutputs(outs, p)
      PROVE  \E w \in NewWindows(ps, outs) : w.pos = p /\ w.output = o
  <2>1. o \in DOMAIN outs
    BY DEF OuterOutputs, Known
  <2> DEFINE v == <<p, o>>
  <2>2. v \in ps \X DOMAIN outs /\ v[1] = p /\ v[2] = o
    BY <2>1
  <2> HIDE DEF v
  <2>3. LSWindow(v[1], v[2]) \in NewWindows(ps, outs)
    BY <2>2 DEF NewWindows
  <2> QED BY <2>2, <2>3 DEF LSWindow
<1> QED BY <1>1, <1>2

\* Where the outer edges are depends on what is known of the outputs, and on nothing else.
LEMMA SameOuterOutputs ==
  ASSUME NEW a, NEW b, Known(a) = Known(b), \A o \in Known(a) : a[o].info = b[o].info, NEW p
  PROVE  OuterOutputs(a, p) = OuterOutputs(b, p)
BY DEF OuterOutputs

LEMMA LSInitially ==
  ASSUME LayerShellInit
  PROVE  Windows
<1>1. DOMAIN outputs = OutputNames /\ \A o \in OutputNames : outputs[o] = NewOutput
  BY DEF LayerShellInit
<1>2. NewOutput \in OutputRecords
  BY DEF NewOutput, OutputRecords, Sizes
<1> QED BY <1>1, <1>2 DEF LayerShellInit, Windows, WindowsTyped, BarriersFit, BarrierAt

LEMMA LSCreates ==
  ASSUME Windows, NEW p \in Positions, LSCreate(p)
  PROVE  Windows'
<1> DEFINE new == NewWindows({p}, outputs)
<1>1. /\ active_positions' = active_positions \cup {p}
      /\ active_windows' = active_windows \cup new
      /\ outputs' = outputs /\ removed' = removed
  BY DEF LSCreate, AddClient
<1>2. /\ new \in SUBSET LSWindows
      /\ \A w \in new : w.pos = p /\ w.output \in OuterOutputs(outputs, p)
      /\ \A o \in OuterOutputs(outputs, p) : \E w \in new : w.pos = p /\ w.output = o
  BY NewWindowsFacts DEF Windows, WindowsTyped
<1> HIDE DEF new
<1>3. WindowsTyped'
  BY <1>1, <1>2 DEF Windows, WindowsTyped
<1>4. ASSUME ~removed, NEW q \in Positions, NEW o \in OutputNames
      PROVE  BarrierAt(q, o)' <=> q \in active_positions' /\ o \in OuterOutputs(outputs', q)
  <2>1. BarrierAt(q, o) <=> q \in active_positions /\ o \in OuterOutputs(outputs, q)
    BY <1>4 DEF Windows, BarriersFit
  <2>2. BarrierAt(q, o)' <=> BarrierAt(q, o) \/ \E w \in new : w.pos = q /\ w.output = o
    BY <1>1 DEF BarrierAt
  <2> QED BY <1>1, <1>2, <2>1, <2>2
<1> QED BY <1>1, <1>3, <1>4 DEF Windows, BarriersFit

LEMMA LSDestroys ==
  ASSUME Windows, NEW p \in Positions, LSDestroy(p)
  PROVE  Windows'
<1>1. /\ active_positions' = active_positions \ {p}
      /\ active_windows' = {w \in active_windows : w.pos # p}
      /\ outputs' = outputs /\ removed' = removed
  BY DEF LSDestroy, DeleteClient
<1>2. WindowsTyped'
  BY <1>1 DEF Windows, WindowsTyped
<1>3. ASSUME ~removed, NEW q \in Positions, NEW o \in OutputNames
      PROVE  BarrierAt(q, o)' <=> q \in active_positions' /\ o \in OuterOutputs(outputs', q)
  <2>1. BarrierAt(q, o) <=> q \in active_positions /\ o \in OuterOutputs(outputs, q)
    BY <1>3 DEF Windows, BarriersFit
  <2>2. BarrierAt(q, o)' <=> BarrierAt(q, o) /\ q # p
    BY <1>1 DEF BarrierAt
  <2> QED BY <1>1, <2>1, <2>2
<1> QED BY <1>1, <1>2, <1>3 DEF Windows, BarriersFit

\* An output that was just added, or has told its geometry without being done, is not
\* known yet: the outer edges are where they were.
LEMMA LSOutputs ==
  ASSUME Windows, NEW o \in OutputNames,
         \/ OutputAdded(o)
         \/ \E g \in GeometriesOf[o] : XdgOutputInfo(o, g)
  PROVE  Windows'
<1>1. UNCHANGED <<active_positions, active_windows, removed>>
  BY DEF OutputAdded, XdgOutputInfo
<1>2. /\ DOMAIN outputs' \in SUBSET OutputNames
      /\ \A n \in DOMAIN outputs' : outputs'[n] \in OutputRecords
      /\ Known(outputs') = Known(outputs)
      /\ \A n \in Known(outputs) : outputs'[n].info = outputs[n].info
  <2>1. CASE OutputAdded(o)
    <3>1. NewOutput \in OutputRecords /\ NewOutput.info = None
      BY DEF NewOutput, OutputRecords, Sizes
    <3>2. /\ DOMAIN outputs' = DOMAIN outputs \cup {o} /\ o \notin DOMAIN outputs
          /\ outputs'[o] = NewOutput /\ \A n \in DOMAIN outputs : outputs'[n] = outputs[n]
      BY <2>1 DEF OutputAdded
    <3> QED BY <3>1, <3>2 DEF Windows, WindowsTyped, Known
  <2>2. ASSUME NEW g \in GeometriesOf[o], XdgOutputInfo(o, g)
        PROVE  /\ DOMAIN outputs' \in SUBSET OutputNames
               /\ \A n \in DOMAIN outputs' : outputs'[n] \in OutputRecords
               /\ Known(outputs') = Known(outputs)
               /\ \A n \in Known(outputs) : outputs'[n].info = outputs[n].info
    <3>1. g \in Sizes
      BY DEF Sizes
    <3>2. /\ DOMAIN outputs' = DOMAIN outputs /\ o \in DOMAIN outputs
          /\ outputs'[o] = [outputs[o] EXCEPT !.pending = g, !.has_xdg_info = TRUE]
          /\ \A n \in DOMAIN outputs \ {o} : outputs'[n] = outputs[n]
      BY <2>2 DEF XdgOutputInfo
    <3>3. outputs'[o] \in OutputRecords /\ outputs'[o].info = outputs[o].info
      BY <3>1, <3>2 DEF Windows, WindowsTyped, OutputRecords
    <3> QED BY <3>2, <3>3 DEF Windows, WindowsTyped, Known
  <2> QED BY <2>1, <2>2
<1>3. WindowsTyped'
  BY <1>1, <1>2 DEF Windows, WindowsTyped
<1>4. \A p \in Positions : OuterOutputs(outputs', p) = OuterOutputs(outputs, p)
  BY <1>2, SameOuterOutputs
<1>5. ASSUME NEW p \in Positions, NEW n \in OutputNames PROVE BarrierAt(p, n)' <=> BarrierAt(p, n)
  BY <1>1 DEF BarrierAt
<1> QED BY <1>1, <1>3, <1>4, <1>5 DEF Windows, BarriersFit

\* Once an output is done, all windows are made anew.
LEMMA LSDone ==
  ASSUME Windows, NEW o \in OutputNames, OutputDone(o)
  PROVE  Windows'
<1>1. /\ active_positions' = active_positions
      /\ outputs' = [outputs EXCEPT ![o].info = outputs[o].pending]
      /\ active_windows' = NewWindows(active_positions, outputs')
      /\ o \in DOMAIN outputs
  BY DEF OutputDone, UpdateOutputInfo, UpdateWindows
<1>2. /\ DOMAIN outputs' \in SUBSET OutputNames
      /\ \A n \in DOMAIN outputs' : outputs'[n] \in OutputRecords
  <2>1. DOMAIN outputs' = DOMAIN outputs
    BY <1>1
  <2>2. outputs'[o] = [outputs[o] EXCEPT !.info = outputs[o].pending]
    BY <1>1
  <2>3. outputs'[o] \in OutputRecords
    BY <1>1, <2>2 DEF Windows, WindowsTyped, OutputRecords
  <2>4. \A n \in DOMAIN outputs \ {o} : outputs'[n] = outputs[n]
    BY <1>1
  <2> QED BY <2>1, <2>3, <2>4 DEF Windows, WindowsTyped
<1> DEFINE new == NewWindows(active_positions, outputs')
<1>3. /\ new \in SUBSET LSWindows
      /\ \A w \in new : w.pos \in active_positions /\ w.output \in OuterOutputs(outputs', w.pos)
      /\ \A p \in active_positions : \A n \in OuterOutputs(outputs', p) :
           \E w \in new : w.pos = p /\ w.output = n
  BY <1>2, NewWindowsFacts DEF Windows, WindowsTyped
<1>4. active_windows' = new
  BY <1>1
<1> HIDE DEF new
<1>5. WindowsTyped'
  BY <1>1, <1>2, <1>3, <1>4 DEF Windows, WindowsTyped
<1>6. ASSUME NEW p \in Positions, NEW n \in OutputNames
      PROVE  BarrierAt(p, n)' <=> p \in active_positions' /\ n \in OuterOutputs(outputs', p)
  <2>1. BarrierAt(p, n)' <=> \E w \in new : w.pos = p /\ w.output = n
    BY <1>4 DEF BarrierAt
  <2>2. (\E w \in new : w.pos = p /\ w.output = n)
          => p \in active_positions /\ n \in OuterOutputs(outputs', p)
    BY <1>3
  <2>3. p \in active_positions /\ n \in OuterOutputs(outputs', p)
          => \E w \in new : w.pos = p /\ w.output = n
    BY <1>3
  <2> QED BY <1>1, <2>1, <2>2, <2>3
<1> QED BY <1>5, <1>6 DEF Windows, BarriersFit

LEMMA LSRemoves ==
  ASSUME Windows, NEW o \in OutputNames, OutputRemoved(o)
  PROVE  Windows'
BY DEF OutputRemoved, Windows, WindowsTyped, BarriersFit

LEMMA WindowsStep ==
  ASSUME Windows, LayerShellNext
  PROVE  Windows'
<1> DEFINE Same == UNCHANGED <<active_positions, outputs, active_windows, removed>>
<1>1. ASSUME LSRelease \/ Capabilities \/ LSDispatch \/ LSPoll PROVE Same
  BY <1>1 DEF LSRelease, Capabilities, LSDispatch, LSPoll, layerShellVars
<1>2. ASSUME (\E w \in LSWindows : UserEnters(w)) \/ UserLeaves \/ UserClicks \/ UserTypes \/ UserMoves
      PROVE  Same
  BY <1>2 DEF UserEnters, UserLeaves, UserClicks, UserTypes, UserMoves, Send
<1>3. ASSUME Same PROVE Windows'
  BY <1>3 DEF Windows, WindowsTyped, BarriersFit, BarrierAt
<1> HIDE DEF Same
<1> QED BY <1>1, <1>2, <1>3, LSCreates, LSDestroys, LSOutputs, LSDone, LSRemoves DEF LayerShellNext

\* Unless an output has just gone, the barriers are exactly where a watched position
\* meets an outer edge of the outputs that are known, for any outputs and geometries.
THEOREM BarriersFollowOutputs == BackendsSpec => []BarriersOnOuterEdges
<1>1. BackendsInit => Windows
  BY LSInitially DEF BackendsInit
<1>2. Windows /\ [BackendsNext]_backendsVars => Windows'
  <2> SUFFICES ASSUME Windows, [BackendsNext]_backendsVars PROVE Windows'
    OBVIOUS
  <2>1. CASE LayerShellNext
    BY <2>1, WindowsStep
  <2>2. CASE UNCHANGED layerShellVars
    BY <2>2 DEF layerShellVars, Windows, WindowsTyped, BarriersFit, BarrierAt
  <2> QED BY <2>1, <2>2 DEF BackendsNext, backendsVars
<1>3. Windows => BarriersOnOuterEdges
  BY BarriersPointwise DEF Windows
<1> QED BY <1>1, <1>2, <1>3, PTL DEF BackendsSpec

------------------------------------------------------------------------------
\* What the compositor sends, and the window that has the focus: that of the last Begin.
WlEvents == [ev: {"Leave", "Button", "Key", "Motion"}] \cup [ev: {"Enter"}, window: LSWindows \cup {None}]

FocusIsLatest ==
  /\ wl_events \in Seq(WlEvents)
  /\ keyboards \in Nat
  /\ focused \in LSWindows \cup {None}
  /\ focused # None => focused.pos = begun

LEMMA OutdatedFacts ==
  ASSUME NEW w \in LSWindows \cup {None}
  PROVE  /\ Outdated(w) \in LSWindows \cup {None}
         /\ Outdated(w) # None => w # None /\ Outdated(w).pos = w.pos
BY DEF Outdated, LSWindows

\* A Leave that the compositor may send is no more than that.
LEMMA CompositorSends ==
  ASSUME wl_events \in Seq(WlEvents), NEW ws, NEW f, Compositor(ws, f)
  PROVE  wl_events' \in Seq(WlEvents)
<1>1. [ev |-> "Leave"] \in WlEvents
  BY DEF WlEvents
<1> QED BY <1>1, AppendFacts DEF Compositor

LEMMA UpdateSends ==
  ASSUME wl_events \in Seq(WlEvents), NEW outs, UpdateWindows(outs)
  PROVE  wl_events' \in Seq(WlEvents)
<1> DEFINE new(i) == IF wl_events[i].ev = "Enter"
                     THEN [wl_events[i] EXCEPT !.window = Outdated(@)] ELSE wl_events[i]
           sent == [i \in DOMAIN wl_events |-> new(i)]
<1>1. DOMAIN wl_events = 1 .. Len(wl_events) /\ Len(wl_events) \in Nat
  OBVIOUS
<1>2. ASSUME NEW i \in 1 .. Len(wl_events) PROVE new(i) \in WlEvents
  <2>1. wl_events[i] \in WlEvents
    BY <1>1
  <2>2. CASE wl_events[i].ev = "Enter"
    <3>1. wl_events[i] \in [ev: {"Enter"}, window: LSWindows \cup {None}]
      BY <2>1, <2>2 DEF WlEvents
    <3>2. Outdated(wl_events[i].window) \in LSWindows \cup {None}
      BY <3>1, OutdatedFacts
    <3>3. [wl_events[i] EXCEPT !.window = Outdated(@)] \in [ev: {"Enter"}, window: LSWindows \cup {None}]
      BY <3>1, <3>2
    <3> QED BY <2>2, <3>3 DEF WlEvents
  <2>3. CASE wl_events[i].ev # "Enter"
    BY <2>1, <2>3
  <2> QED BY <2>2, <2>3
<1> HIDE DEF new
<1>3. sent \in Seq(WlEvents)
  BY <1>1, <1>2
<1>4. [ev |-> "Leave"] \in WlEvents
  BY DEF WlEvents
<1>5. wl_events' = sent \/ wl_events' = Append(sent, [ev |-> "Leave"])
  BY DEF UpdateWindows, new
<1> HIDE DEF sent
<1> QED BY <1>3, <1>4, <1>5, AppendFacts

\* The next event of the compositor: Begin is queued for a window that is there, and
\* input for the window that has the focus.
LEMMA LSDispatches ==
  ASSUME WindowsTyped, FocusIsLatest, LSDispatch
  PROVE  FocusIsLatest' /\ KeepsLatest(active_positions, active_positions')
<1> DEFINE e == Head(wl_events)
<1>1. e \in WlEvents /\ wl_events' \in Seq(WlEvents)
  BY TailFacts DEF FocusIsLatest, LSDispatch
<1>2. /\ CASE e.ev = "Enter" -> PointerEnter(e)
           [] e.ev = "Leave" -> PointerLeave
           [] e.ev = "Button" -> PointerInput
           [] e.ev = "Key" -> KeyboardInput
           [] e.ev = "Motion" -> RelativeMotion
      /\ active_positions' = active_positions /\ keyboards' = keyboards
  BY DEF LSDispatch
<1> HIDE DEF e
<1>3. e.ev \in {"Enter", "Leave", "Button", "Key", "Motion"}
  BY <1>1 DEF WlEvents
<1>4. \/ e.ev = "Enter" /\ PointerEnter(e)
      \/ PointerLeave \/ PointerInput \/ KeyboardInput \/ RelativeMotion
  BY <1>2, <1>3
<1>5. active_positions \in SUBSET Positions
  BY DEF WindowsTyped
<1>6. CASE e.window \in active_windows /\ PointerEnter(e)
  <2>1. e.window \in LSWindows /\ e.window.pos \in active_positions
    BY <1>6 DEF WindowsTyped
  <2>2. focused' = e.window /\ QueueBegin(e.window.pos)
    BY <1>6 DEF PointerEnter
  <2>3. KeepsLatest(active_positions, active_positions')
    BY <1>2, <1>5, <2>1, <2>2 DEF KeepsLatest
  <2>4. begun' = e.window.pos
    BY <2>2 DEF QueueBegin
  <2> QED BY <1>1, <1>2, <2>1, <2>2, <2>3, <2>4 DEF FocusIsLatest
<1>7. ASSUME UNCHANGED focused, QueueNothing \/ (focused # None /\ QueueInput(focused.pos))
      PROVE  FocusIsLatest' /\ KeepsLatest(active_positions, active_positions')
  <2>1. begun' = begun
    BY <1>7 DEF QueueNothing, QueueInput
  <2>2. ASSUME focused # None, QueueInput(focused.pos) PROVE begun # None /\ QueueInput(begun)
    <3>1. focused.pos = begun /\ focused \in LSWindows
      BY <2>2 DEF FocusIsLatest
    <3>2. focused.pos \in Positions
      BY <3>1 DEF LSWindows
    <3> QED BY <2>2, <3>1, <3>2, StreamAssumption
  <2>3. KeepsLatest(active_positions, active_positions')
    BY <1>2, <1>5, <1>7, <2>2 DEF KeepsLatest
  <2> QED BY <1>1, <1>2, <1>7, <2>1, <2>3 DEF FocusIsLatest
<1>8. CASE (e.window \notin active_windows /\ PointerEnter(e)) \/ PointerLeave
  BY <1>7, <1>8 DEF PointerEnter, PointerLeave
<1>9. CASE PointerInput \/ KeyboardInput \/ RelativeMotion
  BY <1>7, <1>9 DEF PointerInput, KeyboardInput, RelativeMotion
<1> QED BY <1>4, <1>6, <1>8, <1>9

LEMMA LSKeeps ==
  ASSUME Windows, FocusIsLatest, LayerShellNext
  PROVE  FocusIsLatest' /\ KeepsLatest(active_positions, active_positions')
<1>0. /\ wl_events \in Seq(WlEvents) /\ keyboards \in Nat
      /\ focused \in LSWindows \cup {None}
      /\ WindowsTyped
  BY DEF FocusIsLatest, Windows
<1> DEFINE Quiet ==
      /\ QueueNothing /\ UNCHANGED keyboards
      /\ focused' = focused \/ focused' = None \/ focused' = Outdated(focused)
<1>1. ASSUME Quiet, wl_events' \in Seq(WlEvents), active_positions' \in SUBSET Positions
      PROVE  FocusIsLatest' /\ KeepsLatest(active_positions, active_positions')
  <2>1. focused' \in LSWindows \cup {None} /\ (focused' # None => focused'.pos = focused.pos /\ focused # None)
    BY <1>0, <1>1, OutdatedFacts
  <2>2. begun' = begun
    BY <1>1 DEF QueueNothing
  <2> QED BY <1>0, <1>1, <2>1, <2>2 DEF FocusIsLatest, KeepsLatest
<1>2. active_positions' \in SUBSET Positions
  BY WindowsStep DEF Windows, WindowsTyped
<1>3. ASSUME NEW p \in Positions, LSCreate(p) PROVE Quiet /\ wl_events' = wl_events
  BY <1>3 DEF LSCreate, AddClient
<1>4. ASSUME NEW p \in Positions, LSDestroy(p) PROVE Quiet /\ wl_events' \in Seq(WlEvents)
  BY <1>0, <1>4, CompositorSends DEF LSDestroy, DeleteClient
<1>5. ASSUME LSRelease PROVE Quiet /\ wl_events' = wl_events
  BY <1>5 DEF LSRelease
<1>6. ASSUME NEW o \in OutputNames, OutputAdded(o) \/ OutputRemoved(o) PROVE Quiet /\ wl_events' = wl_events
  BY <1>6 DEF OutputAdded, OutputRemoved
<1>7. ASSUME NEW o \in OutputNames, NEW g \in GeometriesOf[o], XdgOutputInfo(o, g)
      PROVE  Quiet /\ wl_events' = wl_events
  BY <1>7 DEF XdgOutputInfo
<1>8. ASSUME NEW o \in OutputNames, OutputDone(o) PROVE Quiet /\ wl_events' \in Seq(WlEvents)
  <2>1. UpdateWindows([outputs EXCEPT ![o].info = outputs[o].pending])
    BY <1>8 DEF OutputDone, UpdateOutputInfo
  <2>2. focused' = Outdated(focused)
    BY <2>1 DEF UpdateWindows
  <2> QED BY <1>0, <1>8, <2>1, <2>2, UpdateSends DEF OutputDone
<1>9. ASSUME NEW e \in WlEvents, Send(e) PROVE Quiet /\ wl_events' \in Seq(WlEvents)
  BY <1>0, <1>9, AppendFacts DEF Send
<1>10. ASSUME (\E w \in LSWindows : UserEnters(w)) \/ UserLeaves \/ UserClicks \/ UserMoves
       PROVE  Quiet /\ wl_events' \in Seq(WlEvents)
  <2>1. /\ \A w \in LSWindows : [ev |-> "Enter", window |-> w] \in WlEvents
        /\ [ev |-> "Leave"] \in WlEvents /\ [ev |-> "Button"] \in WlEvents /\ [ev |-> "Motion"] \in WlEvents
    BY DEF WlEvents
  <2> HIDE DEF Quiet
  <2> QED BY <1>9, <1>10, <2>1 DEF UserEnters, UserLeaves, UserClicks, UserMoves
<1>11. ASSUME UserTypes PROVE Quiet /\ wl_events' \in Seq(WlEvents)
  <2> DEFINE keys == [i \in 1 .. keyboards |-> [ev |-> "Key"]]
  <2>1. [ev |-> "Key"] \in WlEvents
    BY DEF WlEvents
  <2>2. keys \in Seq(WlEvents)
    BY <1>0, <2>1
  <2>3. wl_events' = wl_events \o keys
    BY <1>11 DEF UserTypes
  <2> HIDE DEF keys
  <2>4. wl_events' \in Seq(WlEvents)
    BY <1>0, <2>2, <2>3
  <2> QED BY <1>11, <2>4 DEF UserTypes
<1>12. CASE Capabilities
  <2>1. /\ UNCHANGED <<wl_events, focused, active_positions>> /\ QueueNothing
        /\ keyboards' = keyboards + 1
    BY <1>12 DEF Capabilities
  <2>2. begun' = begun
    BY <2>1 DEF QueueNothing
  <2> QED BY <1>0, <1>2, <2>1, <2>2 DEF FocusIsLatest, KeepsLatest
<1>13. CASE LSPoll
  BY <1>2, <1>13 DEF LSPoll, layerShellVars, FocusIsLatest, KeepsLatest
<1>14. CASE LSDispatch
  BY <1>0, <1>14, LSDispatches
<1> HIDE DEF Quiet
<1> QED BY <1>0, <1>1, <1>2, <1>3, <1>4, <1>5, <1>6, <1>7, <1>8, <1>10, <1>11, <1>12, <1>13, <1>14
        DEF LayerShellNext

------------------------------------------------------------------------------
\* Windows.  What the buffer and the thread's queue hold.
Updates == [op: {"Create", "Destroy"}, pos: Positions]
Messages == {"ClientUpdate", "Release", "Exit", "DisplayChange"}

\* LastUpdate for any buffer.  The provers cannot find the last of a set of numbers by
\* themselves, so that there is one is part of the invariant.
LastIn(q, p) ==
  LET is == {i \in 1 .. Len(q) : q[i].pos = p}
  IN IF is = {} THEN "none" ELSE q[CHOOSE i \in is : \A j \in is : j <= i].op

HasLast(q, p) ==
  \/ \A i \in 1 .. Len(q) : q[i].pos # p
  \/ \E i \in 1 .. Len(q) : q[i].pos = p /\ \A j \in 1 .. Len(q) : q[j].pos = p => j <= i

\* The positions watched once every update in q has been made.
Watching(q) == {p \in Positions : LastIn(q, p) = "Create" \/ (LastIn(q, p) = "none" /\ p \in CLIENTS)}

Buffered ==
  /\ request_buffer \in Seq(Updates)
  /\ messages \in Seq(Messages)
  /\ CLIENTS \in SUBSET Positions
  /\ created \in SUBSET Positions
  /\ \A p \in Positions : HasLast(request_buffer, p)
  /\ request_buffer # <<>> => \E i \in 1 .. Len(messages) : messages[i] = "ClientUpdate"
  /\ created = Watching(request_buffer)

LEMMA BufferedUpdates ==
  ASSUME Buffered
  PROVE  UpdatesArrive
<1>1. \A p \in Positions : LastUpdate(p) = LastIn(request_buffer, p)
  BY DEF LastUpdate, LastIn
<1> QED BY <1>1 DEF Buffered, UpdatesArrive, Watching

\* An update that joins the buffer is the last of its position.
LEMMA LastAppended ==
  ASSUME NEW q \in Seq(Updates), NEW u \in Updates, NEW p \in Positions, HasLast(q, p)
  PROVE  /\ LastIn(Append(q, u), p) = IF p = u.pos THEN u.op ELSE LastIn(q, p)
         /\ HasLast(Append(q, u), p)
<1> DEFINE r == Append(q, u)
           n == Len(q)
<1>1. /\ n \in Nat /\ Len(r) = n + 1 /\ r[n + 1] = u
      /\ \A i \in 1 .. n : r[i] = q[i]
  BY AppendFacts
<1> HIDE DEF r, n
<1>2. CASE p = u.pos
  <2>1. n + 1 \in 1 .. Len(r) /\ r[n + 1].pos = p /\ \A j \in 1 .. Len(r) : r[j].pos = p => j <= n + 1
    BY <1>1, <1>2
  <2> DEFINE is == {i \in 1 .. Len(r) : r[i].pos = p}
  <2>2. n + 1 \in is /\ \A j \in is : j <= n + 1 /\ j \in Int
    BY <1>1, <2>1
  <2>3. (CHOOSE i \in is : \A j \in is : j <= i) = n + 1
    <3>1. ASSUME NEW i \in is, \A j \in is : j <= i PROVE i = n + 1
      BY <1>1, <2>2, <3>1
    <3> QED BY <2>2, <3>1
  <2>4. LastIn(r, p) = r[n + 1].op
    BY <2>2, <2>3 DEF LastIn
  <2>5. HasLast(r, p)
    BY <2>1 DEF HasLast
  <2> QED BY <1>1, <1>2, <2>4, <2>5 DEF r
<1>3. CASE p # u.pos
  <2> DEFINE is == {i \in 1 .. Len(q) : q[i].pos = p}
             js == {i \in 1 .. Len(r) : r[i].pos = p}
  <2>1. is = js
    BY <1>1, <1>3 DEF n
  <2>2. HasLast(r, p)
    <3>1. CASE \A i \in 1 .. Len(q) : q[i].pos # p
      BY <1>1, <1>3, <3>1 DEF HasLast, n
    <3>2. ASSUME NEW i \in 1 .. Len(q), q[i].pos = p, \A j \in 1 .. Len(q) : q[j].pos = p => j <= i
          PROVE  HasLast(r, p)
      <4>1. i \in 1 .. Len(r) /\ r[i].pos = p
        BY <1>1, <3>2 DEF n
      <4>2. \A j \in 1 .. Len(r) : r[j].pos = p => j <= i
        BY <1>1, <1>3, <3>2 DEF n
      <4> QED BY <4>1, <4>2 DEF HasLast
    <3> QED BY <3>1, <3>2 DEF HasLast
  <2> DEFINE last(s) == CHOOSE i \in s : \A j \in s : j <= i
  <2>3. /\ LastIn(q, p) = IF is = {} THEN "none" ELSE q[last(is)].op
        /\ LastIn(r, p) = IF js = {} THEN "none" ELSE r[last(js)].op
    BY DEF LastIn
  <2>4. ASSUME is # {} PROVE r[last(is)] = q[last(is)]
    <3>1. \E i \in is : \A j \in is : j <= i
      BY <2>4 DEF HasLast
    <3>2. last(is) \in is
      BY <3>1
    <3> QED BY <1>1, <3>2 DEF n
  <2> HIDE DEF is, js, last
  <2>5. LastIn(r, p) = LastIn(q, p)
    BY <2>1, <2>3, <2>4
  <2> QED BY <1>3, <2>2, <2>5 DEF r
<1> QED BY <1>2, <1>3

LEMMA WindowsInitially ==
  ASSUME StreamInit, WindowsInit
  PROVE  Buffered
<1>1. \A p \in Positions : LastIn(<<>>, p) = "none" /\ HasLast(<<>>, p)
  BY DEF LastIn, HasLast
<1> QED BY <1>1 DEF StreamInit, WindowsInit, Buffered, Watching

\* A request: the buffer first, then the message.
LEMMA WindowsRequests ==
  ASSUME Buffered, NEW p \in Positions, NEW op \in {"Create", "Destroy"}, ClientUpdate(op, p),
         created' = IF op = "Create" THEN created \cup {p} ELSE created \ {p}
  PROVE  Buffered'
<1> DEFINE u == [op |-> op, pos |-> p]
<1>1. u \in Updates /\ u.pos = p /\ u.op = op
  BY DEF Updates
<1>2. /\ request_buffer' = Append(request_buffer, u) /\ CLIENTS' = CLIENTS
      /\ messages' = Append(messages, "ClientUpdate")
  BY DEF ClientUpdate, Signal
<1> HIDE DEF u
<1>3. request_buffer' \in Seq(Updates)
  BY <1>1, <1>2, AppendFacts DEF Buffered
<1>4. "ClientUpdate" \in Messages
  BY DEF Messages
<1>5. /\ messages' \in Seq(Messages)
      /\ Len(messages) + 1 \in 1 .. Len(messages') /\ messages'[Len(messages) + 1] = "ClientUpdate"
  BY <1>2, <1>4, AppendFacts DEF Buffered
<1>6. ASSUME NEW x \in Positions
      PROVE  /\ HasLast(request_buffer', x)
             /\ LastIn(request_buffer', x) = IF x = p THEN op ELSE LastIn(request_buffer, x)
  BY <1>1, <1>2, LastAppended DEF Buffered
<1>7. created' = Watching(request_buffer)'
  BY <1>2, <1>6 DEF Buffered, Watching
<1> QED BY <1>2, <1>3, <1>5, <1>6, <1>7 DEF Buffered

\* The thread takes a message: ClientUpdate empties the buffer, any other leaves one in
\* the queue that will.
LEMMA WindowsHandles ==
  ASSUME Buffered, HandleMessage
  PROVE  Buffered'
<1>1. /\ messages' = Tail(messages) /\ messages # <<>> /\ created' = created
      /\ messages' \in Seq(Messages)
      /\ Len(messages') = Len(messages) - 1 /\ Len(messages) \in Nat \ {0}
      /\ Head(messages) = messages[1]
      /\ \A i \in 1 .. Len(messages') : messages'[i] = messages[i + 1]
  BY TailFacts DEF HandleMessage, Buffered
<1>2. CASE UpdateClients
  <2>1. /\ request_buffer' = <<>>
        /\ CLIENTS' = created
    BY <1>2, BufferedUpdates DEF UpdateClients, UpdatesArrive
  <2>2. \A p \in Positions : LastIn(<<>>, p) = "none" /\ HasLast(<<>>, p)
    BY DEF LastIn, HasLast
  <2> QED BY <1>1, <2>1, <2>2 DEF Buffered, Watching
<1>3. CASE UNCHANGED <<CLIENTS, request_buffer>> /\ Head(messages) # "ClientUpdate"
  <2>1. ASSUME request_buffer # <<>> PROVE \E i \in 1 .. Len(messages') : messages'[i] = "ClientUpdate"
    <3>1. PICK i \in 1 .. Len(messages) : messages[i] = "ClientUpdate"
      BY <2>1 DEF Buffered
    <3>2. i - 1 \in 1 .. Len(messages') /\ messages'[i - 1] = messages[i]
      BY <1>1, <1>3, <3>1
    <3> QED BY <3>1, <3>2
  <2> QED BY <1>1, <1>3, <2>1 DEF Buffered, Watching
<1> QED BY <1>2, <1>3 DEF HandleMessage

LEMMA WindowsStepBuffered ==
  ASSUME Buffered, WindowsNext
  PROVE  Buffered'
<1> DEFINE Same == UNCHANGED <<created, CLIENTS, request_buffer>>
<1>1. ASSUME NEW m \in Messages, Same, messages' = Append(messages, m) PROVE Buffered'
  <2>1. /\ messages' \in Seq(Messages) /\ Len(messages') = Len(messages) + 1 /\ Len(messages) \in Nat
        /\ \A i \in 1 .. Len(messages) : messages'[i] = messages[i]
    BY <1>1, AppendFacts DEF Buffered
  <2>2. ASSUME NEW i \in 1 .. Len(messages), messages[i] = "ClientUpdate"
        PROVE  \E k \in 1 .. Len(messages') : messages'[k] = "ClientUpdate"
    BY <2>1, <2>2
  <2> QED BY <1>1, <2>1, <2>2 DEF Buffered, Watching
<1>2. ASSUME Same, UNCHANGED messages PROVE Buffered'
  BY <1>2 DEF Buffered, Watching
<1>3. ASSUME NEW p \in Positions, WinCreate(p) \/ WinDestroy(p) PROVE Buffered'
  <2>1. CASE WinCreate(p)
    BY <2>1, WindowsRequests DEF WinCreate, FirstHandle
  <2>2. CASE WinDestroy(p)
    BY <2>2, WindowsRequests DEF WinDestroy, LastHandle
  <2> QED BY <1>3, <2>1, <2>2
<1>4. ASSUME NEW pt \in Points, MouseMoves(pt) PROVE Same /\ UNCHANGED messages
  BY <1>4 DEF MouseMoves
<1>5. ASSUME ScreenChanges \/ WinRelease \/ DropEventThread
      PROVE  Same /\ \E m \in Messages : messages' = Append(messages, m)
  BY <1>5 DEF ScreenChanges, WinRelease, DropEventThread, Signal, Messages
<1>6. ASSUME DropOwner \/ Join \/ SendBlocked \/ HookInput \/ WinPoll PROVE Same /\ UNCHANGED messages
  BY <1>6 DEF DropOwner, Join, SendBlocked, HookInput, WinPoll, windowsVars
<1>7. CASE HandleMessage
  BY <1>7, WindowsHandles
<1> HIDE DEF Same
<1> QED BY <1>1, <1>2, <1>3, <1>4, <1>5, <1>6, <1>7 DEF WindowsNext

\* As long as an update is in the buffer a message is on the way that makes it, and once
\* all are made, the positions watched are those InputCapture has handles for.
THEOREM WindowsUpdates == BackendsSpec => []WindowsUpdatesArrive
<1> DEFINE IInv == backend = "windows" => Buffered
<1>1. BackendsInit => IInv
  BY WindowsInitially DEF BackendsInit
<1>2. IInv /\ [BackendsNext]_backendsVars => IInv'
  <2> SUFFICES ASSUME IInv, [BackendsNext]_backendsVars, backend' = "windows" PROVE Buffered'
    OBVIOUS
  <2>1. Buffered
    BY DEF BackendsNext, backendsVars
  <2>2. CASE WindowsNext
    BY <2>1, <2>2, WindowsStepBuffered
  <2>3. CASE UNCHANGED <<streamVars, windowsVars>>
    BY <2>1, <2>3 DEF streamVars, windowsVars, Buffered, Watching
  <2> QED BY <2>2, <2>3 DEF BackendsNext, backendsVars
<1>3. IInv => WindowsUpdatesArrive
  BY BufferedUpdates DEF WindowsUpdatesArrive
<1> QED BY <1>1, <1>2, <1>3, PTL DEF BackendsSpec

\* The client that is active is that of the last Begin, but for the time its Begin waits
\* for room.
ActiveIsLatest ==
  /\ ACTIVE_CLIENT \in Positions \cup {None}
  /\ thread = "running" /\ ACTIVE_CLIENT # None => ACTIVE_CLIENT = begun
  /\ thread = "blocked" => ACTIVE_CLIENT \in CLIENTS

LEMMA WindowsKeeps ==
  ASSUME Buffered, ActiveIsLatest, WindowsNext
  PROVE  ActiveIsLatest' /\ KeepsLatest(CLIENTS, CLIENTS')
<1>1. CLIENTS \in SUBSET Positions /\ CLIENTS' \in SUBSET Positions
  BY WindowsStepBuffered DEF Buffered
<1> DEFINE Same == UNCHANGED <<CLIENTS, ACTIVE_CLIENT, thread>>
<1>2. ASSUME Same, QueueNothing PROVE ActiveIsLatest' /\ KeepsLatest(CLIENTS, CLIENTS')
  BY <1>1, <1>2 DEF QueueNothing, ActiveIsLatest, KeepsLatest
<1>3. ASSUME NEW p \in Positions, WinCreate(p) \/ WinDestroy(p) PROVE Same /\ QueueNothing
  BY <1>3 DEF WinCreate, WinDestroy, ClientUpdate
<1>4. ASSUME ScreenChanges \/ WinRelease \/ DropEventThread \/ Join PROVE Same /\ QueueNothing
  BY <1>4 DEF ScreenChanges, WinRelease, DropEventThread, Join
<1>5. ASSUME NEW pt \in Points, MouseMoves(pt)
      PROVE  ActiveIsLatest' /\ KeepsLatest(CLIENTS, CLIENTS')
  <2> DEFINE prev == IF PREV_POS = None THEN pt ELSE PREV_POS
             ds == IF outdated THEN screen ELSE DISPLAYS
             p == EnteredBarrier(prev, pt, ds)
  <2>1. /\ thread = "running" /\ ACTIVE_CLIENT = None
        /\ CLIENTS' = CLIENTS
        /\ IF p \in CLIENTS THEN Activate(p, prev, ds)
           ELSE UNCHANGED <<ACTIVE_CLIENT, thread>> /\ QueueNothing
    BY <1>5 DEF MouseMoves
  <2> HIDE DEF p, ds, prev
  <2>2. CASE p \notin CLIENTS
    BY <1>2, <2>1, <2>2
  <2>3. CASE p \in CLIENTS /\ QueueBegin(p) /\ thread' = thread /\ ACTIVE_CLIENT' = p
    BY <1>1, <2>1, <2>3 DEF QueueBegin, ActiveIsLatest, KeepsLatest
  <2>4. CASE /\ p \in CLIENTS /\ QueueNothing /\ ACTIVE_CLIENT' = p
             /\ thread' \in {"no_display", "aborted", "blocked"}
    BY <1>1, <2>1, <2>4 DEF QueueNothing, ActiveIsLatest, KeepsLatest
  <2> QED BY <2>1, <2>2, <2>3, <2>4 DEF Activate, BlockingSendBegin
<1>6. CASE DropOwner
  BY <1>6 DEF DropOwner, DropReceiver, ActiveIsLatest, KeepsLatest
<1>7. CASE HandleMessage
  <2>1. /\ thread = "running" /\ thread' \in {"running", "exited"}
        /\ ACTIVE_CLIENT' \in {ACTIVE_CLIENT, None} /\ QueueNothing
    BY <1>7 DEF HandleMessage, UpdateClients
  <2> QED BY <1>1, <2>1 DEF QueueNothing, ActiveIsLatest, KeepsLatest
<1>8. CASE SendBlocked
  BY <1>1, <1>8 DEF SendBlocked, QueueBegin, ActiveIsLatest, KeepsLatest
<1>9. CASE HookInput
  <2>1. Same /\ begun' = begun /\ (QueueNothing \/ QueueInput(begun)) /\ begun # None
    BY <1>9 DEF HookInput, QueueInput, QueueNothing, ActiveIsLatest
  <2> QED BY <1>1, <2>1 DEF ActiveIsLatest, KeepsLatest
<1>10. CASE WinPoll
  BY <1>1, <1>10 DEF WinPoll, windowsVars, ActiveIsLatest, KeepsLatest
<1> HIDE DEF Same
<1> QED BY <1>2, <1>3, <1>4, <1>5, <1>6, <1>7, <1>8, <1>9, <1>10 DEF WindowsNext

------------------------------------------------------------------------------
\* The portal.  The requests, and who waits for room in the channel of events.
PortalRequests == [op: {"Create", "Destroy"}, pos: Positions]

InSession == phase \in {"running", "ended", "erred"}

\* A session has barriers for active clients only, and nothing is grabbed without one.
\* In its select! the task has the signal of a capture still to come, and while it sends
\* it is among those who wait.
SessionTyped ==
  /\ libei_clients \in SUBSET Positions
  /\ notify_capture \in Seq(PortalRequests)
  /\ caller = "calling" => call \in PortalRequests
  /\ occurred \in PortalRequests \cup {None}
  /\ position \in Positions \cup {None}
  /\ barriers \subseteq libei_clients
  /\ activated \in barriers \cup {None}
  /\ ~InSession => grabbed = None /\ activated = None

\* Each of the two tasks waits at most once, and only while it sends.
TaskWaits ==
  \/ cap # "sending" /\ ei # "sending" /\ waiting = <<>>
  \/ cap # "sending" /\ ei = "sending" /\ \E q \in Positions : waiting = <<Waiter("ei", q)>>
  \/ cap = "sending" /\ ei # "sending" /\ \E p \in Positions : waiting = <<Waiter("cap", p)>>
  \/ cap = "sending" /\ ei = "sending" /\ \E p, q \in Positions :
       waiting \in {<<Waiter("cap", p), Waiter("ei", q)>>, <<Waiter("ei", q), Waiter("cap", p)>>}

CapKnown ==
  /\ cap \in {"none", "select", "sending", "captured", "releasing", "ended", "erred"}
  /\ phase = "running" => cap # "none"
  /\ phase # "running" => cap # "sending" /\ ei # "sending"
  /\ cap = "select" /\ grabbed # None => activated # None
  /\ TaskWaits

Portal == SessionTyped /\ CapKnown

USE DEF taskVars, sessionVars, cancelVars, portalVars, callerVars, libeiVars

LEMMA LibeiInitially ==
  ASSUME LibeiInit
  PROVE  Portal
BY DEF LibeiInit, Portal, SessionTyped, CapKnown, TaskWaits, InSession

\* InputCapture's half leaves the session alone.
LEMMA PortalCaller ==
  ASSUME Portal,
         \/ \E p \in Positions : LibeiCreate(p) \/ LibeiDestroy(p)
         \/ RequestSent \/ LibeiRelease \/ LibeiPoll \/ LibeiTerminate \/ TaskAwaited
  PROVE  Portal'
<1>1. UNCHANGED <<taskVars, cap, ei, position, waiting, portalVars>>
  BY DEF LibeiCreate, LibeiDestroy, LibeiRequest, RequestSent, LibeiRelease, LibeiPoll,
         LibeiTerminate, TaskAwaited
<1>2. notify_capture' \in Seq(PortalRequests) /\ (caller' = "calling" => call' \in PortalRequests)
  <2>1. ASSUME NEW r \in PortalRequests, LibeiRequest(r) PROVE notify_capture' \in Seq(PortalRequests) /\ (caller' = "calling" => call' \in PortalRequests)
    BY <2>1, ShortSequences DEF LibeiRequest, Portal, SessionTyped
  <2>2. ASSUME NEW p \in Positions, LibeiCreate(p) \/ LibeiDestroy(p) PROVE notify_capture' \in Seq(PortalRequests) /\ (caller' = "calling" => call' \in PortalRequests)
    <3>1. /\ [op |-> "Create", pos |-> p] \in PortalRequests
          /\ [op |-> "Destroy", pos |-> p] \in PortalRequests
      BY DEF PortalRequests
    <3> QED BY <2>1, <2>2, <3>1 DEF LibeiCreate, LibeiDestroy
  <2>3. ASSUME RequestSent PROVE notify_capture' \in Seq(PortalRequests) /\ (caller' = "calling" => call' \in PortalRequests)
    BY <2>3, ShortSequences DEF RequestSent, Portal, SessionTyped
  <2>4. ASSUME LibeiRelease \/ LibeiPoll \/ LibeiTerminate \/ TaskAwaited PROVE notify_capture' \in Seq(PortalRequests) /\ (caller' = "calling" => call' \in PortalRequests)
    BY <2>4 DEF LibeiRelease, LibeiPoll, LibeiTerminate, TaskAwaited, Portal, SessionTyped
  <2> QED BY <2>2, <2>3, <2>4
<1> QED BY <1>1, <1>2 DEF Portal, SessionTyped, CapKnown, TaskWaits, InSession

\* do_capture and the wait for a reason to end the session.
LEMMA PortalLoop ==
  ASSUME Portal, LoopStep \/ UpdateByRequest \/ (\E z \in BOOLEAN : UpdateByToken(z))
  PROVE  Portal'
<1>1. CASE BeginLoop
  BY <1>1 DEF BeginLoop, NewTokens, Portal, SessionTyped, CapKnown, TaskWaits, InSession
<1>2. CASE StartSession
  <2>1. grabbed = None /\ activated = None
    BY <1>2 DEF StartSession, Portal, SessionTyped, InSession
  <2>2. SessionTyped'
    BY <1>2, <2>1 DEF StartSession, SelectBarriers, Portal, SessionTyped, InSession
  <2>3. CapKnown'
    BY <1>2, <2>1 DEF StartSession, Portal, CapKnown, TaskWaits
  <2> QED BY <2>2, <2>3 DEF Portal
<1>3. CASE TasksJoined
  <2>1. cap \in {"ended", "erred"} /\ ei = "ended" /\ phase' \in {"ended", "erred"} /\ phase = "running"
    BY <1>3 DEF TasksJoined
  <2>2. SessionTyped'
    BY <1>3, <2>1 DEF TasksJoined, Portal, SessionTyped, InSession
  <2>3. CapKnown'
    BY <1>3, <2>1 DEF TasksJoined, Portal, CapKnown, TaskWaits
  <2> QED BY <2>2, <2>3 DEF Portal
<1>4. CASE EndLoop
  <2>1. /\ libei_clients' \in {libei_clients, Applied}
        /\ phase' \in {"failed", "done", "loop"} /\ phase # "running"
        /\ UNCHANGED <<occurred, waiting, notify_capture, callerVars>>
        /\ SessionGone
    BY <1>4 DEF EndLoop, NextPhase
  <2>2. Applied \in SUBSET Positions
    BY DEF Applied, Portal, SessionTyped, PortalRequests
  <2>3. SessionTyped'
    BY <2>1, <2>2 DEF SessionGone, Portal, SessionTyped, InSession
  <2>4. CapKnown'
    BY <2>1 DEF SessionGone, Portal, CapKnown, TaskWaits
  <2> QED BY <2>3, <2>4 DEF Portal
<1>5. ASSUME UpdateEnds, occurred' \in PortalRequests \cup {None}, notify_capture' \in Seq(PortalRequests)
      PROVE  Portal'
  BY <1>5 DEF UpdateEnds, Portal, SessionTyped, CapKnown, TaskWaits, InSession
<1>6. CASE UpdateByRequest
  <2>1. occurred' \in PortalRequests /\ notify_capture' \in Seq(PortalRequests) /\ UpdateEnds
    BY <1>6, TailFacts DEF UpdateByRequest, Portal, SessionTyped
  <2> QED BY <1>5, <2>1
<1>7. ASSUME NEW z \in BOOLEAN, UpdateByToken(z) PROVE Portal'
  BY <1>5, <1>7 DEF UpdateByToken, Portal, SessionTyped
<1> QED BY <1>1, <1>2, <1>3, <1>4, <1>6, <1>7 DEF LoopStep

\* capture_session_task.
LEMMA PortalCap ==
  ASSUME Portal, CapStep \/ ActivationClosed
  PROVE  Portal'
<1>1. CASE TakeActivated
  <2>1. activated \in barriers /\ activated \in Positions
    BY <1>1 DEF TakeActivated, Portal, SessionTyped
  <2>2. SessionTyped'
    BY <1>1, <2>1 DEF TakeActivated, CapFrame, Portal, SessionTyped, InSession
  <2>3. /\ UNCHANGED <<phase, ei, grabbed>> /\ phase = "running" /\ cap = "select"
        /\ \/ cap' = "captured" /\ UNCHANGED waiting
           \/ cap' = "sending" /\ waiting' = Append(waiting, Waiter("cap", activated))
    BY <1>1 DEF TakeActivated, SendBegin, CapFrame
  <2>4. TaskWaits'
    <3>1. CASE cap' = "captured" /\ UNCHANGED waiting
      BY <2>3, <3>1 DEF Portal, CapKnown, TaskWaits
    <3>2. CASE cap' = "sending" /\ waiting' = Append(waiting, Waiter("cap", activated))
      <4>1. CASE ei # "sending" /\ waiting = <<>>
        <5>1. waiting' = <<Waiter("cap", activated)>>
          BY <3>2, <4>1
        <5> QED BY <2>1, <2>3, <3>2, <4>1, <5>1 DEF TaskWaits
      <4>2. ASSUME ei = "sending", NEW q \in Positions, waiting = <<Waiter("ei", q)>> PROVE TaskWaits'
        <5>1. waiting' = <<Waiter("ei", q), Waiter("cap", activated)>>
          BY <3>2, <4>2, ShortSequences
        <5> QED BY <2>1, <2>3, <3>2, <4>2, <5>1 DEF TaskWaits
      <4> QED BY <2>3, <4>1, <4>2 DEF Portal, CapKnown, TaskWaits
    <3> QED BY <2>3, <3>1, <3>2
  <2> QED BY <2>2, <2>3, <2>4 DEF Portal, CapKnown
<1>2. CASE CapWoken
  <2>1. cap \in {"select", "captured"} /\ cap' \in {"releasing", "select", "ended"}
        /\ (cap' = "select" => cap = "select")
        /\ UNCHANGED <<taskVars, ei, position, waiting, portalVars, notify_capture, callerVars>>
    BY <1>2 DEF CapWoken, CapFrame
  <2>2. SessionTyped'
    BY <2>1 DEF Portal, SessionTyped, InSession
  <2>3. TaskWaits'
    BY <2>1 DEF Portal, CapKnown, TaskWaits
  <2> QED BY <2>1, <2>2, <2>3 DEF Portal, CapKnown
<1>3. CASE CapCancelled
  BY <1>3 DEF CapCancelled, CapFrame, Portal, SessionTyped, CapKnown, TaskWaits, InSession
<1>4. CASE ReleaseCapture
  <2>1. /\ phase = "running" /\ cap = "releasing"
        /\ cap' = "ended" \/ (cap' = "select" /\ grabbed' = None) \/ cap' = "erred"
        /\ UNCHANGED <<taskVars, ei, position, waiting, barriers, activated, notify_capture, callerVars>>
    BY <1>4 DEF ReleaseCapture, CapFrame
  <2> QED BY <2>1 DEF Portal, SessionTyped, CapKnown, TaskWaits, InSession
<1>5. CASE ActivationClosed
  BY <1>5 DEF ActivationClosed, CapFrame, Portal, SessionTyped, CapKnown, TaskWaits, InSession
<1> QED BY <1>1, <1>2, <1>3, <1>4, <1>5 DEF CapStep

\* ei_task.
LEMMA PortalEi ==
  ASSUME Portal, HandleEiEvent \/ EiCancelled
  PROVE  Portal'
<1>1. /\ UNCHANGED <<taskVars, cap, position, notify_capture, callerVars, barriers, grabbed, activated>>
      /\ phase = "running"
  BY DEF HandleEiEvent, EiCancelled, EiFrame
<1>2. SessionTyped'
  BY <1>1 DEF Portal, SessionTyped, InSession
<1>3. TaskWaits'
  <2>1. CASE EiCancelled
    BY <1>1, <2>1 DEF EiCancelled, TaskWaits
  <2>2. CASE HandleEiEvent /\ ei' # "sending" /\ UNCHANGED waiting
    BY <1>1, <2>2 DEF HandleEiEvent, Portal, CapKnown, TaskWaits
  <2>3. CASE HandleEiEvent /\ EiInput
    <3> DEFINE w == Waiter("ei", position)
    <3>1. /\ ei = "reading" /\ position \in Positions
          /\ \/ ei' = "reading" /\ UNCHANGED waiting
             \/ ei' = "sending" /\ waiting = <<>> /\ waiting' = <<w>>
             \/ ei' = "sending" /\ waiting' = Append(waiting, w)
      BY <2>3, LibeiAssumption DEF HandleEiEvent, EiInput, HasRoom, Portal, SessionTyped
    <3>2. CASE cap # "sending" /\ waiting = <<>>
      <4>1. UNCHANGED waiting \/ waiting' = <<w>>
        BY <3>1, <3>2
      <4> QED BY <1>1, <3>1, <3>2, <4>1 DEF TaskWaits
    <3>3. ASSUME cap = "sending", NEW p \in Positions, waiting = <<Waiter("cap", p)>> PROVE TaskWaits'
      <4>1. waiting # <<>> /\ Append(waiting, w) = <<Waiter("cap", p), w>>
        BY <3>3, ShortSequences
      <4> QED BY <1>1, <3>1, <3>3, <4>1 DEF TaskWaits
    <3> QED BY <3>1, <3>2, <3>3 DEF Portal, CapKnown, TaskWaits
  <2> QED BY <2>1, <2>2, <2>3 DEF HandleEiEvent
<1> QED BY <1>1, <1>2, <1>3 DEF Portal, CapKnown

\* Room for whoever waits longest.
LEMMA PortalAdmits ==
  ASSUME Portal, Admit
  PROVE  Portal'
<1>1. /\ UNCHANGED <<taskVars, position, notify_capture, callerVars, portalVars>>
      /\ waiting # <<>>
      /\ \/ /\ Head(waiting).who = "cap" /\ cap' = "captured" /\ ei' = ei
            /\ waiting' = Tail(waiting)
         \/ /\ Head(waiting).who = "ei" /\ cap' = cap
            /\ \/ ei' = "reading" /\ waiting' = Tail(waiting)
               \/ ei' = "sending" /\ waiting' = Append(Tail(waiting), Head(waiting))
  BY DEF Admit
<1>2. SessionTyped'
  BY <1>1 DEF Portal, SessionTyped, InSession
<1>3. Waiter("cap", 0).who # "ei" /\ \A p : Waiter("cap", p).who = "cap" /\ Waiter("ei", p).who = "ei"
  BY DEF Waiter
<1>4. phase = "running" /\ TaskWaits'
  <2>1. ASSUME cap # "sending", ei = "sending", NEW q \in Positions, waiting = <<Waiter("ei", q)>>
        PROVE  TaskWaits'
    <3>1. Head(waiting) = Waiter("ei", q) /\ Tail(waiting) = <<>> /\ Append(<<>>, Waiter("ei", q)) = waiting
      BY <2>1
    <3> QED BY <1>1, <1>3, <2>1, <3>1 DEF TaskWaits
  <2>2. ASSUME cap = "sending", ei # "sending", NEW p \in Positions, waiting = <<Waiter("cap", p)>>
        PROVE  TaskWaits'
    <3>1. Head(waiting) = Waiter("cap", p) /\ Tail(waiting) = <<>>
      BY <2>2
    <3> QED BY <1>1, <1>3, <2>2, <3>1 DEF TaskWaits
  <2>3. ASSUME cap = "sending", ei = "sending", NEW p \in Positions, NEW q \in Positions,
               waiting = <<Waiter("cap", p), Waiter("ei", q)>>
        PROVE  TaskWaits'
    <3>1. Head(waiting) = Waiter("cap", p) /\ Tail(waiting) = <<Waiter("ei", q)>>
      BY <2>3
    <3> QED BY <1>1, <1>3, <2>3, <3>1 DEF TaskWaits
  <2>4. ASSUME cap = "sending", ei = "sending", NEW p \in Positions, NEW q \in Positions,
               waiting = <<Waiter("ei", q), Waiter("cap", p)>>
        PROVE  TaskWaits'
    <3>1. /\ Head(waiting) = Waiter("ei", q) /\ Tail(waiting) = <<Waiter("cap", p)>>
          /\ Append(<<Waiter("cap", p)>>, Waiter("ei", q)) = <<Waiter("cap", p), Waiter("ei", q)>>
      BY <2>4, ShortSequences
    <3> QED BY <1>1, <1>3, <2>4, <3>1 DEF TaskWaits
  <2> QED BY <1>1, <2>1, <2>2, <2>3, <2>4 DEF Portal, CapKnown, TaskWaits
<1> QED BY <1>1, <1>2, <1>4 DEF Portal, CapKnown

\* The portal and libei.
LEMMA PortalGrabs ==
  ASSUME Portal,
         \/ \E p \in Positions : PortalActivates(p)
         \/ PortalLetsGo
  PROVE  Portal'
<1>1. UNCHANGED <<taskVars, sessionVars, waiting, notify_capture, callerVars, barriers>>
  BY DEF PortalActivates, PortalLetsGo, PortalFrame
<1>2. /\ activated' \in barriers \cup {None}
      /\ ~InSession => grabbed' = None /\ activated' = None
      /\ cap = "select" /\ grabbed' # None => activated' # None
  BY DEF PortalActivates, PortalLetsGo, Portal, SessionTyped, CapKnown, InSession
<1> QED BY <1>1, <1>2 DEF Portal, SessionTyped, CapKnown, TaskWaits, InSession

LEMMA PortalStep ==
  ASSUME Portal, LibeiNext
  PROVE  Portal'
<1>1. TRUE \in BOOLEAN
  OBVIOUS
<1> QED BY <1>1, PortalCaller, PortalLoop, PortalCap, PortalEi, PortalAdmits, PortalGrabs DEF LibeiNext

\* A release is heard: once InputCapture has seen the Begin of the position that is
\* grabbed and nothing newer is on the way, the task waits for the release, is at it, or
\* ends the session.
THEOREM ReleasesAreHeard == BackendsSpec => []ReleaseHeard
<1>1. BackendsInit => Portal
  BY LibeiInitially DEF BackendsInit
<1>2. Portal /\ [BackendsNext]_backendsVars => Portal'
  <2> SUFFICES ASSUME Portal, [BackendsNext]_backendsVars PROVE Portal'
    OBVIOUS
  <2>1. CASE LibeiNext
    BY <2>1, PortalStep
  <2>2. CASE UNCHANGED libeiVars
    BY <2>2 DEF Portal, SessionTyped, CapKnown, TaskWaits, InSession
  <2> QED BY <2>1, <2>2 DEF BackendsNext, backendsVars
<1>3. Portal => ReleaseHeard
  BY DEF Portal, CapKnown, TaskWaits, ReleaseHeard
<1> QED BY <1>1, <1>2, <1>3, PTL DEF BackendsSpec

------------------------------------------------------------------------------
\* While the task sends Begin it is that of the position which is current, and otherwise
\* the current position is the one that began last.  Input that waits may be older.
WaitsInOrder ==
  \/ cap # "sending" /\ ei # "sending" /\ waiting = <<>>
  \/ cap # "sending" /\ ei = "sending" /\ \E q \in Positions : waiting = <<Waiter("ei", q)>>
  \/ cap = "sending" /\ ei # "sending" /\ waiting = <<Waiter("cap", position)>>
  \/ cap = "sending" /\ ei = "sending" /\ \E q \in Positions :
       waiting \in {<<Waiter("cap", position), Waiter("ei", q)>>,
                    <<Waiter("ei", q), Waiter("cap", position)>>}

PositionIsLatest ==
  /\ WaitsInOrder
  /\ cap = "sending" => position \in barriers
  /\ cap # "sending" /\ position # None => position = begun

LEMMA PortalInitially ==
  ASSUME LibeiInit
  PROVE  PositionIsLatest
BY DEF LibeiInit, PositionIsLatest, WaitsInOrder

\* What is late among those who wait.
LEMMA SentFacts ==
  ASSUME NEW p, NEW q
  PROVE  /\ BeingSent(<<>>) = {}
         /\ BeingSent(<<Waiter("cap", p)>>) = {}
         /\ BeingSent(<<Waiter("ei", q)>>) = {q}
         /\ BeingSent(<<Waiter("ei", q), Waiter("cap", p)>>) = {q}
         /\ BeingSent(<<Waiter("cap", p), Waiter("ei", q)>>) = {q} \ {p}
<1>1. \A x : /\ Waiter("cap", x).who = "cap" /\ Waiter("cap", x).pos = x
             /\ Waiter("ei", x).who = "ei" /\ Waiter("ei", x).pos = x
  BY DEF Waiter
<1>2. \A x, y : Waiter("cap", x) = Waiter("cap", y) => x = y
  BY <1>1
<1>3. \A x, y : Waiter("ei", x) # Waiter("cap", y)
  BY <1>1
<1> DEFINE c == Waiter("cap", p)
           e == Waiter("ei", q)
<1>4. c.who = "cap" /\ e.who = "ei" /\ e.pos = q /\ (c = Waiter("cap", q) <=> p = q)
  BY <1>1, <1>2
<1>5. \A x : e # Waiter("cap", x)
  BY <1>3
<1> HIDE DEF c, e
<1>6. BeingSent(<<>>) = {}
  BY DEF BeingSent
<1>7. BeingSent(<<c>>) = {}
  <2>1. Len(<<c>>) = 1 /\ <<c>>[1] = c /\ 1 .. 1 = {1}
    OBVIOUS
  <2> QED BY <1>4, <2>1 DEF BeingSent
<1>8. BeingSent(<<e>>) = {q}
  <2>1. Len(<<e>>) = 1 /\ <<e>>[1] = e /\ 1 .. 1 = {1}
    OBVIOUS
  <2>2. ~BeginAhead(<<e>>, 1)
    BY <1>5, <2>1 DEF BeginAhead
  <2> QED BY <1>4, <2>1, <2>2 DEF BeingSent
<1>9. BeingSent(<<e, c>>) = {q}
  <2>1. Len(<<e, c>>) = 2 /\ <<e, c>>[1] = e /\ <<e, c>>[2] = c /\ 1 .. 2 = {1, 2} /\ 1 .. 1 = {1}
    OBVIOUS
  <2>2. ~BeginAhead(<<e, c>>, 1)
    BY <1>5, <2>1 DEF BeginAhead
  <2> QED BY <1>4, <2>1, <2>2 DEF BeingSent
<1>10. BeingSent(<<c, e>>) = {q} \ {p}
  <2>1. Len(<<c, e>>) = 2 /\ <<c, e>>[1] = c /\ <<c, e>>[2] = e /\ 1 .. 2 = {1, 2}
    OBVIOUS
  <2>2. BeginAhead(<<c, e>>, 2) <=> p = q
    BY <1>4, <1>5, <2>1 DEF BeginAhead
  <2> QED BY <1>4, <2>1, <2>2 DEF BeingSent
<1> QED BY <1>6, <1>7, <1>8, <1>9, <1>10 DEF c, e

LEMMA NoneSent == BeingSent(<<>>) = {}
BY SentFacts DEF BeingSent

\* A step that starts no send and ends none.
LEMMA PortalQuiet ==
  ASSUME PositionIsLatest, UNCHANGED <<waiting, begun>>,
         cap' = "sending" <=> cap = "sending",
         ei' = "sending" <=> ei = "sending",
         cap = "sending" => UNCHANGED <<position, barriers>>,
         position' \in {position, None}
  PROVE  PositionIsLatest' /\ PortalOpen' = PortalOpen
<1>1. WaitsInOrder'
  BY DEF PositionIsLatest, WaitsInOrder
<1> QED BY <1>1 DEF PositionIsLatest, PortalOpen, LatestOnly

LEMMA PortalTakes ==
  ASSUME Portal, PositionIsLatest, TakeActivated
  PROVE  PositionIsLatest' /\ Keeps(libei_clients, libei_clients', PortalOpen, PortalOpen')
<1>1. /\ activated \in barriers /\ activated \in libei_clients /\ activated \in Positions
      /\ position' = activated /\ cap = "select"
      /\ UNCHANGED <<libei_clients, ei, barriers>>
  BY DEF TakeActivated, CapFrame, Portal, SessionTyped
<1>2. CASE HasRoom /\ QueueBegin(activated) /\ cap' = "captured" /\ UNCHANGED waiting
  <2>1. ei # "sending" /\ waiting = <<>> /\ begun' = activated
    <3>1. waiting = <<>> /\ begun' = activated
      BY <1>2 DEF HasRoom, QueueBegin
    <3>2. \A p, q : <<p>> # <<>> /\ <<p, q>> # <<>>
      OBVIOUS
    <3> QED BY <1>1, <3>1, <3>2 DEF PositionIsLatest, WaitsInOrder
  <2>2. WaitsInOrder'
    BY <1>1, <1>2, <2>1 DEF WaitsInOrder
  <2>3. PortalOpen' \subseteq PortalOpen \cup {activated}
    BY <1>2, <2>1 DEF PortalOpen, LatestOnly
  <2>4. Keeps(libei_clients, libei_clients', PortalOpen, PortalOpen')
    BY <1>1, <1>2, <2>3 DEF Keeps
  <2> QED BY <1>1, <1>2, <2>1, <2>2, <2>4 DEF PositionIsLatest
<1>3. CASE /\ waiting' = Append(waiting, Waiter("cap", activated)) /\ cap' = "sending"
           /\ QueueNothing
  <2>1. WaitsInOrder' /\ BeingSent(waiting') = BeingSent(waiting)
    <3>1. CASE ei # "sending" /\ waiting = <<>>
      <4>1. waiting' = <<Waiter("cap", activated)>>
        BY <1>3, <3>1
      <4> QED BY <1>1, <1>3, <3>1, <4>1, SentFacts DEF WaitsInOrder
    <3>2. ASSUME ei = "sending", NEW q \in Positions, waiting = <<Waiter("ei", q)>>
          PROVE  WaitsInOrder' /\ BeingSent(waiting') = BeingSent(waiting)
      <4>1. waiting' = <<Waiter("ei", q), Waiter("cap", activated)>>
        BY <1>3, <3>2, ShortSequences
      <4>2. WaitsInOrder'
        BY <1>1, <1>3, <3>2, <4>1 DEF WaitsInOrder
      <4>3. BeingSent(waiting') = {q} /\ BeingSent(waiting) = {q}
        BY <3>2, <4>1, SentFacts
      <4> QED BY <4>2, <4>3
    <3> QED BY <1>1, <3>1, <3>2 DEF PositionIsLatest, WaitsInOrder
  <2>2. PortalOpen' = PortalOpen
    BY <1>3, <2>1 DEF PortalOpen, LatestOnly, QueueNothing
  <2>3. Keeps(libei_clients, libei_clients', PortalOpen, PortalOpen')
    BY <1>1, <1>3, <2>2 DEF Keeps, Portal, SessionTyped
  <2> QED BY <1>1, <1>3, <2>1, <2>3 DEF PositionIsLatest
<1> QED BY <1>2, <1>3 DEF TakeActivated, SendBegin

LEMMA PortalInput ==
  ASSUME Portal, PositionIsLatest, HandleEiEvent, EiInput
  PROVE  PositionIsLatest' /\ Keeps(libei_clients, libei_clients', PortalOpen, PortalOpen')
<1> DEFINE w == Waiter("ei", position)
<1>1. /\ ei = "reading" /\ position \in Positions /\ position # None
      /\ UNCHANGED <<libei_clients, cap, position, barriers>>
  BY DEF HandleEiEvent, EiInput, EiFrame, Portal, SessionTyped
<1>2. \/ HasRoom /\ QueueInput(position) /\ UNCHANGED waiting /\ ei' = "reading"
      \/ HasRoom /\ QueueInput(position) /\ waiting' = <<w>> /\ ei' = "sending"
      \/ QueueNothing /\ waiting' = Append(waiting, w) /\ ei' = "sending"
  BY LibeiAssumption DEF EiInput
<1> HIDE DEF w
<1>3. CASE cap # "sending" /\ waiting = <<>>
  <2>1. position = begun /\ position \in LatestOnly /\ Append(waiting, w) = <<w>>
    BY <1>1, <1>3 DEF PositionIsLatest, LatestOnly, w
  <2>2. begun' = begun
    BY <1>2 DEF QueueInput, QueueNothing
  <2>3. \/ waiting' = <<>> /\ ei' = "reading"
        \/ waiting' = <<w>> /\ ei' = "sending"
    BY <1>2, <1>3, <2>1
  <2>4. WaitsInOrder'
    BY <1>1, <1>3, <2>3 DEF WaitsInOrder, w
  <2>5. PortalOpen' \subseteq PortalOpen
    <3>1. BeingSent(<<w>>) = {position} /\ BeingSent(<<>>) = {}
      BY SentFacts DEF w
    <3>2. BeingSent(waiting') \subseteq {position} /\ LatestOnly' = LatestOnly
      BY <2>2, <2>3, <3>1 DEF LatestOnly
    <3> QED BY <2>1, <3>2 DEF PortalOpen
  <2>6. QueueNothing \/ \E p \in PortalOpen : QueueInput(p)
    BY <1>2, <2>1 DEF PortalOpen
  <2>7. Keeps(libei_clients, libei_clients', PortalOpen, PortalOpen')
    BY <1>1, <2>5, <2>6 DEF Keeps, Portal, SessionTyped
  <2> QED BY <1>1, <1>3, <2>1, <2>2, <2>4, <2>7 DEF PositionIsLatest
<1>4. CASE cap = "sending" /\ waiting = <<Waiter("cap", position)>>
  <2>1. waiting # <<>> /\ Append(waiting, w) = <<Waiter("cap", position), w>>
    BY <1>4, ShortSequences DEF w
  <2>2. /\ QueueNothing /\ waiting' = <<Waiter("cap", position), w>> /\ ei' = "sending"
        /\ begun' = begun
    BY <1>2, <2>1 DEF HasRoom, QueueNothing
  <2>3. WaitsInOrder'
    BY <1>1, <1>4, <2>2 DEF WaitsInOrder, w
  <2>4. PortalOpen' \subseteq PortalOpen
    <3>1. BeingSent(<<Waiter("cap", position), w>>) = {position} \ {position}
      BY SentFacts DEF w
    <3>2. BeingSent(waiting') = {}
      BY <2>2, <3>1
    <3> QED BY <2>2, <3>2 DEF PortalOpen, LatestOnly
  <2>5. Keeps(libei_clients, libei_clients', PortalOpen, PortalOpen')
    BY <1>1, <2>2, <2>4 DEF Keeps, Portal, SessionTyped
  <2> QED BY <1>1, <1>4, <2>2, <2>3, <2>5 DEF PositionIsLatest
<1> QED BY <1>1, <1>3, <1>4 DEF PositionIsLatest, WaitsInOrder

LEMMA PortalMakesRoom ==
  ASSUME Portal, PositionIsLatest, Admit
  PROVE  PositionIsLatest' /\ Keeps(libei_clients, libei_clients', PortalOpen, PortalOpen')
<1>1. /\ UNCHANGED <<libei_clients, position, barriers>> /\ waiting # <<>>
      /\ \/ /\ Head(waiting).who = "cap" /\ QueueBegin(Head(waiting).pos) /\ cap' = "captured"
            /\ waiting' = Tail(waiting) /\ UNCHANGED ei
         \/ /\ Head(waiting).who = "ei" /\ QueueInput(Head(waiting).pos) /\ UNCHANGED cap
            /\ \/ ei' = "reading" /\ waiting' = Tail(waiting)
               \/ ei' = "sending" /\ waiting' = Append(Tail(waiting), Head(waiting))
  BY DEF Admit
<1>2. \A p : /\ Waiter("cap", p).who = "cap" /\ Waiter("cap", p).pos = p
             /\ Waiter("ei", p).who = "ei" /\ Waiter("ei", p).pos = p
  BY DEF Waiter
<1>3. cap = "sending" => position \in libei_clients /\ position \in Positions
  BY DEF PositionIsLatest, Portal, SessionTyped
\* Begin goes out: what waits behind it with its position is not late.
<1>4. ASSUME cap = "sending", QueueBegin(position), cap' = "captured", UNCHANGED ei, WaitsInOrder',
             BeingSent(waiting') \subseteq BeingSent(waiting) \cup {position}
      PROVE  PositionIsLatest' /\ Keeps(libei_clients, libei_clients', PortalOpen, PortalOpen')
  <2>1. begun' = position
    BY <1>4 DEF QueueBegin
  <2>2. PortalOpen' \subseteq PortalOpen \cup {position}
    BY <1>4, <2>1 DEF PortalOpen, LatestOnly
  <2> QED BY <1>1, <1>3, <1>4, <2>1, <2>2 DEF PositionIsLatest, Keeps
\* One of the input events goes out.
<1>5. ASSUME NEW q \in BeingSent(waiting), QueueInput(q), UNCHANGED cap, WaitsInOrder',
             BeingSent(waiting') \subseteq BeingSent(waiting)
      PROVE  PositionIsLatest' /\ Keeps(libei_clients, libei_clients', PortalOpen, PortalOpen')
  <2>1. begun' = begun
    BY <1>5 DEF QueueInput
  <2>2. PortalOpen' \subseteq PortalOpen /\ q \in PortalOpen
    BY <1>5, <2>1 DEF PortalOpen, LatestOnly
  <2> QED BY <1>1, <1>5, <2>1, <2>2 DEF PositionIsLatest, Keeps
<1> DEFINE Done == PositionIsLatest' /\ Keeps(libei_clients, libei_clients', PortalOpen, PortalOpen')
<1> HIDE DEF Done
<1>6. ASSUME cap # "sending", ei = "sending", NEW q \in Positions, waiting = <<Waiter("ei", q)>>
      PROVE  Done
  <2>1. /\ Head(waiting) = Waiter("ei", q) /\ Tail(waiting) = <<>>
        /\ Append(<<>>, Waiter("ei", q)) = <<Waiter("ei", q)>>
    BY <1>6
  <2>2. /\ QueueInput(q) /\ cap' = cap
        /\ \/ ei' = "reading" /\ waiting' = <<>>
           \/ ei' = "sending" /\ waiting' = <<Waiter("ei", q)>>
    <3>1. Head(waiting).who = "ei" /\ Head(waiting).who # "cap" /\ Head(waiting).pos = q
      BY <1>2, <2>1
    <3>2. Append(Tail(waiting), Head(waiting)) = <<Waiter("ei", q)>>
      BY ONLY <2>1
    <3> QED BY <1>1, <2>1, <3>1, <3>2
  <2>3. WaitsInOrder'
    BY <1>6, <2>2 DEF WaitsInOrder
  <2>4. q \in BeingSent(waiting) /\ BeingSent(waiting') \subseteq BeingSent(waiting)
    BY <1>6, <2>2, SentFacts
  <2> QED BY <1>5, <2>2, <2>3, <2>4 DEF Done
<1>7. ASSUME cap = "sending", ei # "sending", waiting = <<Waiter("cap", position)>> PROVE Done
  <2>1. Head(waiting) = Waiter("cap", position) /\ Tail(waiting) = <<>>
    BY <1>7
  <2>2. QueueBegin(position) /\ cap' = "captured" /\ waiting' = <<>> /\ ei' = ei
    BY <1>1, <1>2, <2>1
  <2>3. WaitsInOrder'
    BY <1>7, <2>2 DEF WaitsInOrder
  <2>4. BeingSent(waiting') \subseteq BeingSent(waiting) \cup {position}
    BY <2>2, SentFacts
  <2> QED BY <1>4, <1>7, <2>2, <2>3, <2>4 DEF Done
<1>8. ASSUME cap = "sending", ei = "sending", NEW q \in Positions,
             waiting = <<Waiter("cap", position), Waiter("ei", q)>>
      PROVE  Done
  <2>1. Head(waiting) = Waiter("cap", position) /\ Tail(waiting) = <<Waiter("ei", q)>>
    BY <1>8
  <2>2. QueueBegin(position) /\ cap' = "captured" /\ waiting' = <<Waiter("ei", q)>> /\ ei' = ei
    <3>1. Head(waiting).who = "cap" /\ Head(waiting).who # "ei" /\ Head(waiting).pos = position
      BY <1>2, <2>1
    <3> QED BY <1>1, <2>1, <3>1
  <2>3. WaitsInOrder'
    BY <1>8, <2>2 DEF WaitsInOrder
  <2>4. BeingSent(waiting') \subseteq BeingSent(waiting) \cup {position}
    <3>1. BeingSent(waiting') = {q} /\ BeingSent(waiting) = {q} \ {position}
      BY <1>8, <2>2, SentFacts
    <3> QED BY ONLY <3>1
  <2> QED BY <1>4, <1>8, <2>2, <2>3, <2>4 DEF Done
<1>9. ASSUME cap = "sending", ei = "sending", NEW q \in Positions,
             waiting = <<Waiter("ei", q), Waiter("cap", position)>>
      PROVE  Done
  <2>1. /\ Head(waiting) = Waiter("ei", q) /\ Tail(waiting) = <<Waiter("cap", position)>>
        /\ Append(<<Waiter("cap", position)>>, Waiter("ei", q))
             = <<Waiter("cap", position), Waiter("ei", q)>>
    BY <1>9, ShortSequences
  <2>2. /\ QueueInput(q) /\ cap' = cap /\ position' = position
        /\ \/ ei' = "reading" /\ waiting' = <<Waiter("cap", position)>>
           \/ ei' = "sending" /\ waiting' = <<Waiter("cap", position), Waiter("ei", q)>>
    <3>1. Head(waiting).who = "ei" /\ Head(waiting).who # "cap" /\ Head(waiting).pos = q
      BY <1>2, <2>1
    <3>2. Append(Tail(waiting), Head(waiting)) = <<Waiter("cap", position), Waiter("ei", q)>>
      BY ONLY <2>1
    <3> QED BY <1>1, <2>1, <3>1, <3>2
  <2>3. WaitsInOrder'
    BY <1>9, <2>2 DEF WaitsInOrder
  <2>4. q \in BeingSent(waiting) /\ BeingSent(waiting') \subseteq BeingSent(waiting)
    <3>1. BeingSent(waiting) = {q}
      BY <1>9, SentFacts
    <3>2. CASE waiting' = <<Waiter("cap", position)>>
      BY <3>1, <3>2, SentFacts
    <3>3. CASE waiting' = <<Waiter("cap", position), Waiter("ei", q)>>
      <4>1. BeingSent(waiting') = {q} \ {position}
        BY <3>3, SentFacts
      <4> QED BY ONLY <3>1, <4>1
    <3> QED BY <2>2, <3>2, <3>3
  <2> QED BY <1>5, <2>2, <2>3, <2>4 DEF Done
<1>10. waiting # <<>>
  BY <1>1
<1> QED BY <1>6, <1>7, <1>8, <1>9, <1>10 DEF PositionIsLatest, WaitsInOrder, Done

LEMMA PortalKeeps ==
  ASSUME Portal, PositionIsLatest, LibeiNext
  PROVE  PositionIsLatest' /\ Keeps(libei_clients, libei_clients', PortalOpen, PortalOpen')
<1> DEFINE Done == PositionIsLatest' /\ Keeps(libei_clients, libei_clients', PortalOpen, PortalOpen')
<1>1. libei_clients' \in SUBSET Positions /\ libei_clients \in SUBSET Positions
  BY PortalStep DEF Portal, SessionTyped
<1>2. ASSUME QueueNothing,
             UNCHANGED waiting,
             cap' = "sending" <=> cap = "sending",
             ei' = "sending" <=> ei = "sending",
             cap = "sending" => UNCHANGED <<position, barriers>>,
             position' \in {position, None}
      PROVE  Done
  <2>1. begun' = begun
    BY <1>2 DEF QueueNothing
  <2>2. PositionIsLatest' /\ PortalOpen' = PortalOpen
    BY <1>2, <2>1, PortalQuiet
  <2> QED BY <1>1, <1>2, <2>2 DEF Keeps
<1>3. ASSUME \/ \E p \in Positions : LibeiCreate(p) \/ LibeiDestroy(p) \/ PortalActivates(p)
             \/ RequestSent \/ LibeiRelease \/ LibeiTerminate \/ TaskAwaited
             \/ PortalLetsGo
      PROVE  Done
  <2>1. QueueNothing /\ UNCHANGED <<waiting, cap, ei, position, barriers>>
    BY <1>3 DEF LibeiCreate, LibeiDestroy, LibeiRequest, PortalActivates, RequestSent, LibeiRelease,
                LibeiTerminate, TaskAwaited, PortalLetsGo, PortalFrame
  <2> HIDE DEF Done
  <2> QED BY <1>2, <2>1
<1>4. ASSUME LibeiPoll PROVE Done
  <2>1. /\ UNCHANGED <<waiting, cap, ei, position, barriers, begun, libei_clients>>
        /\ events # <<>> /\ events' = Tail(events)
    BY <1>4 DEF LibeiPoll
  <2>2. PositionIsLatest' /\ PortalOpen' = PortalOpen
    BY <2>1, PortalQuiet
  <2> QED BY <2>1, <2>2 DEF Keeps
<1>5. ASSUME LoopStep \/ UpdateByRequest \/ UpdateByToken(TRUE) PROVE Done
  <2>1. CASE BeginLoop \/ TasksJoined \/ UpdateByRequest \/ UpdateByToken(TRUE)
    <3>1. QueueNothing /\ UNCHANGED <<waiting, cap, ei, position, barriers>>
      BY <2>1 DEF BeginLoop, TasksJoined, UpdateByRequest, UpdateByToken, UpdateEnds
    <3> HIDE DEF Done
    <3> QED BY <1>2, <3>1
  <2>2. CASE StartSession
    <3>1. /\ QueueNothing /\ UNCHANGED <<waiting, position>>
          /\ cap' \in {cap, "select"} /\ ei' \in {ei, "reading"}
          /\ phase = "starting"
      BY <2>2 DEF StartSession
    <3>2. cap # "sending" /\ ei # "sending"
      BY <3>1 DEF Portal, CapKnown
    <3> HIDE DEF Done
    <3> QED BY <1>2, <3>1, <3>2
  <2>3. CASE EndLoop
    <3>1. /\ QueueNothing /\ UNCHANGED waiting
          /\ cap' = "none" /\ ei' = "ended" /\ position' = None
          /\ phase \in {"idle", "ended", "erred"}
      BY <2>3 DEF EndLoop, SessionGone
    <3>2. cap # "sending" /\ ei # "sending"
      BY <3>1 DEF Portal, CapKnown
    <3> HIDE DEF Done
    <3> QED BY <1>2, <3>1, <3>2
  <2> QED BY <1>5, <2>1, <2>2, <2>3 DEF LoopStep
<1>6. ASSUME CapWoken \/ CapCancelled \/ ReleaseCapture \/ ActivationClosed PROVE Done
  <2>1. /\ QueueNothing /\ UNCHANGED <<waiting, ei, position, barriers>>
        /\ cap # "sending" /\ cap' # "sending"
    BY <1>6 DEF CapWoken, CapCancelled, ReleaseCapture, ActivationClosed, CapFrame
  <2> HIDE DEF Done
  <2> QED BY <1>2, <2>1
<1>7. ASSUME TakeActivated PROVE Done
  BY <1>7, PortalTakes
<1>8. ASSUME EiCancelled PROVE Done
  <2>1. /\ QueueNothing /\ UNCHANGED <<cap, position, barriers>>
        /\ cap = "ended" /\ ei' = "ended" /\ waiting' = <<>>
    BY <1>8 DEF EiCancelled, EiFrame
  <2>2. begun' = begun
    BY <2>1 DEF QueueNothing
  <2>3. PortalOpen' \subseteq PortalOpen
    BY <2>1, <2>2, SentFacts DEF PortalOpen, LatestOnly
  <2> QED BY <1>1, <2>1, <2>2, <2>3 DEF PositionIsLatest, WaitsInOrder, Keeps
<1>9. ASSUME HandleEiEvent PROVE Done
  <2>1. CASE EiInput
    BY <1>9, <2>1, PortalInput
  <2>2. CASE QueueNothing /\ UNCHANGED waiting /\ ei' # "sending"
    <3>1. ei = "reading" /\ UNCHANGED <<cap, position, barriers>>
      BY <1>9 DEF HandleEiEvent, EiFrame
    <3> HIDE DEF Done
    <3> QED BY <1>2, <2>2, <3>1
  <2> QED BY <1>9, <2>1, <2>2 DEF HandleEiEvent
<1>10. ASSUME Admit PROVE Done
  BY <1>10, PortalMakesRoom
<1> HIDE DEF Done
<1>11. Done
  BY <1>3, <1>4, <1>5, <1>6, <1>7, <1>8, <1>9, <1>10 DEF LibeiNext, CapStep
<1> QED BY <1>11 DEF Done

------------------------------------------------------------------------------
\* The refinement: what holds of the backend in use.
BackendInv ==
  /\ backend \in {"layer_shell", "macos", "windows", "portal"}
  /\ backend = "layer_shell" => Windows /\ FocusIsLatest
  /\ backend = "macos" => MacCursor
  /\ backend = "windows" => Buffered /\ ActiveIsLatest
  /\ backend = "portal" => Portal /\ PositionIsLatest

\* Whichever backend it is, for any number of positions, outputs and displays and however
\* many input events a libei event stands for, a capture begins at a position that is
\* watched, and input carries the position of a capture that is open: on Wayland and on
\* Windows the one that began last, on macOS also one whose Grab the task has come to
\* late, and through the portal also that of a libei event which is still being sent.
THEOREM BackendsKeepPromise == BackendsSpec => KeepsPromise
<1>1. BackendsInit => BackendInv /\ Promise!Init
  <2> SUFFICES ASSUME BackendsInit PROVE BackendInv /\ Promise!Init
    OBVIOUS
  <2>1. BackendInv
    <3>1. FocusIsLatest /\ ActiveIsLatest
      BY DEF BackendsInit, LayerShellInit, WindowsInit, FocusIsLatest, ActiveIsLatest
    <3> QED BY <3>1, LSInitially, MacInitially, WindowsInitially, LibeiInitially, PortalInitially,
               BackendsAssumption
            DEF BackendsInit, BackendInv
  <2>2. active_positions = {} /\ active_clients = {} /\ CLIENTS = {} /\ libei_clients = {}
    BY DEF BackendsInit, LayerShellInit, MacInit, WindowsInit, LibeiInit
  <2>3. watched = {}
    BY <2>1, <2>2 DEF BackendInv, watched
  <2>4. open = {}
    <3>1. begun = None /\ current_pos = None /\ notify = <<>> /\ waiting = <<>> /\ LatestOnly = {}
      BY DEF BackendsInit, StreamInit, MacInit, LibeiInit, LatestOnly
    <3>2. Grabs(notify) = {} /\ BeingSent(waiting) = {}
      BY <3>1, NoneSent DEF Grabs
    <3> QED BY <2>1, <3>1, <3>2 DEF BackendInv, open, MacOpen, PortalOpen
  <2> QED BY <2>1, <2>3, <2>4 DEF Promise!Init, BackendsInit, StreamInit
<1>2. BackendInv /\ [BackendsNext]_backendsVars => BackendInv' /\ [Promise!Next]_(Promise!vars)
  <2> SUFFICES ASSUME BackendInv, [BackendsNext]_backendsVars
               PROVE  BackendInv' /\ [Promise!Next]_(Promise!vars)
    OBVIOUS
  <2>1. backend' = backend /\ backend \in {"layer_shell", "macos", "windows", "portal"}
    BY DEF BackendsNext, backendsVars, BackendInv
  <2>2. ASSUME backend = "layer_shell", LayerShellNext PROVE BackendInv' /\ Keeps(watched, watched', open, open')
    <3>1. watched = active_positions /\ watched' = active_positions' /\ open = LatestOnly /\ open' = LatestOnly'
      BY <2>1, <2>2 DEF watched, open
    <3> QED BY <2>1, <2>2, <3>1, WindowsStep, LSKeeps, LatestKeeps DEF BackendInv
  <2>3. ASSUME backend = "macos", MacNext PROVE BackendInv' /\ Keeps(watched, watched', open, open')
    <3>1. watched = active_clients /\ watched' = active_clients' /\ open = MacOpen /\ open' = MacOpen'
      BY <2>1, <2>3 DEF watched, open
    <3> QED BY <2>1, <2>3, <3>1, MacCursorStep, MacKeeps DEF BackendInv
  <2>4. ASSUME backend = "windows", WindowsNext PROVE BackendInv' /\ Keeps(watched, watched', open, open')
    <3>1. watched = CLIENTS /\ watched' = CLIENTS' /\ open = LatestOnly /\ open' = LatestOnly'
      BY <2>1, <2>4 DEF watched, open
    <3> QED BY <2>1, <2>4, <3>1, WindowsStepBuffered, WindowsKeeps, LatestKeeps DEF BackendInv
  <2>5. ASSUME backend = "portal", LibeiNext PROVE BackendInv' /\ Keeps(watched, watched', open, open')
    <3>1. watched = libei_clients /\ watched' = libei_clients' /\ open = PortalOpen /\ open' = PortalOpen'
      BY <2>1, <2>5 DEF watched, open
    <3> QED BY <2>1, <2>5, <3>1, PortalStep, PortalKeeps DEF BackendInv
  <2>6. CASE UNCHANGED backendsVars
    <3>1. watched' = watched /\ open' = open
      BY <2>1, <2>6 DEF watched, open, MacOpen, PortalOpen, LatestOnly, backendsVars, layerShellVars,
                        macVars, windowsVars, streamVars
    <3>2. UNCHANGED <<layerShellVars, macVars, windowsVars, libeiVars, streamVars>>
      BY <2>6 DEF backendsVars
    <3>3. (Windows /\ FocusIsLatest)' <=> Windows /\ FocusIsLatest
      BY <3>2 DEF layerShellVars, streamVars, Windows, WindowsTyped, BarriersFit, BarrierAt, FocusIsLatest
    <3>4. MacCursor' <=> MacCursor
      BY <3>2 DEF macVars, streamVars, MacCursor, MacTyped, CursorHiddenIffGrabbed
    <3>5. (Buffered /\ ActiveIsLatest)' <=> Buffered /\ ActiveIsLatest
      BY <3>2 DEF windowsVars, streamVars, Buffered, Watching, ActiveIsLatest
    <3>6. (Portal /\ PositionIsLatest)' <=> Portal /\ PositionIsLatest
      BY <3>2 DEF streamVars, Portal, SessionTyped, CapKnown, TaskWaits, InSession, PositionIsLatest,
                  WaitsInOrder
    <3>7. UNCHANGED Promise!vars
      BY <3>1, <3>2 DEF Promise!vars, streamVars
    <3> QED BY <2>1, <3>3, <3>4, <3>5, <3>6, <3>7 DEF BackendInv
  <2> QED BY <2>2, <2>3, <2>4, <2>5, <2>6, KeepsIsPromise DEF BackendsNext
<1> QED BY <1>1, <1>2, PTL DEF BackendsSpec, KeepsPromise, Promise!Spec
==============================================================================
