------------------------------ MODULE SinkProofs ------------------------------
(***************************************************************************)
(* Proofs about the emulation backends, for any devices, keys, displays,   *)
(* motion and scroll factors.  What InputEmulation calls in what order     *)
(* comes first; then each backend keeps the keys it has down explained by  *)
(* keys that are held and releases that are on their way.                  *)
(***************************************************************************)
EXTENDS EmulationBackends, FiniteSetTheorems, SequenceTheorems, TLAPS

EventOps == {"key", "modifiers", "button", "motion", "axis", "scroll"}

KeyCalls == [op : {"key"}, handle : EmHandles, release : BOOLEAN, key : EmKeys, down : BOOLEAN]
ModifiersCalls == [op : {"modifiers"}, handle : EmHandles, release : BOOLEAN, depressed : SUBSET Masks]
ButtonCalls == [op : {"button"}, handle : EmHandles, release : {FALSE}, button : EmButtons, down : BOOLEAN]
MotionCalls == [op : {"motion"}, handle : EmHandles, release : {FALSE}, by : Int \X Int]
ScrollCalls == [op : {"axis", "scroll"}, handle : EmHandles, release : {FALSE}, value : Int]
HandleCalls == [op : {"create", "destroy"}, handle : EmHandles, release : {FALSE}]
TerminateCalls == [op : {"terminate"}, handle : {None}, release : {FALSE}]

Calls == KeyCalls \cup ModifiersCalls \cup ButtonCalls \cup MotionCalls \cup ScrollCalls
         \cup HandleCalls \cup TerminateCalls

FrontTypeOK ==
  /\ em_handles \subseteq EmHandles
  /\ pressed_keys \in [EmHandles -> SUBSET EmKeys]
  /\ reported \in [EmHandles -> SUBSET Masks]
  /\ mouse_config \in MouseConfigs
  /\ calls \in Seq(Calls)
  /\ session \in {"on", "failed", "ending", "ended"}
  /\ dropped \in BOOLEAN

\* The calls of an event, of a release, or of the termination.
Ordered(q) ==
  /\ \A i \in 1 .. Len(q) : i < Len(q) => q[i].release \/ q[i].op = "create"
  /\ \A i \in 1 .. Len(q) :
       q[i].release => Release(q[i]) /\ q[Len(q)].op = "destroy"
  /\ \A i \in 1 .. Len(q) : q[i].op = "create" => q[Len(q)].op \in EventOps

\* What a call says of its device is so until it has returned.
Meant(c) ==
  /\ (c.op \in EventOps /\ ~c.release) \/ c.op = "create" => c.handle \in em_handles
  /\ c.release \/ c.op = "destroy" => c.handle \notin em_handles
  /\ c.op = "key" /\ c.down => c.key \in pressed_keys[c.handle]
  /\ c.op = "modifiers" => c.depressed \subseteq reported[c.handle]
  /\ c.op = "terminate" => session = "ending" /\ em_handles = {}

AllMeant == \A i \in 1 .. Len(calls) : Meant(calls[i])

FrontInv ==
  /\ FrontTypeOK
  /\ Ordered(calls)
  /\ AllMeant
  /\ \A h \in EmHandles \ em_handles : pressed_keys[h] = {}
  /\ session = "ended" => calls = <<>> /\ em_handles = {}

\* Keys that are about to be released, handles to be destroyed, and modifiers that
\* handle h is about to let go of.
Releasing(q) == {q[i].key : i \in {j \in 1 .. Len(q) : q[j].op = "key" /\ ~q[j].down}}
Leaving(q) == {q[i].handle : i \in {j \in 1 .. Len(q) : q[j].op = "destroy"}}

Clears(c) ==
  IF c.op = "modifiers" THEN Masks \ c.depressed
  ELSE IF c.op = "key" THEN IF c.down THEN {} ELSE MaskOf(c.key)
  ELSE {}

Explains(h, m) ==
  \/ m \in MasksOf(pressed_keys[h])
  \/ m \in reported[h]
  \/ \E i \in 1 .. Len(calls) : calls[i].handle = h /\ m \in Clears(calls[i])

------------------------------------------------------------------------------
\* Sequences.

\* The head and the tail of a sequence that is not empty.
LEMMA TailFacts ==
  ASSUME NEW S, NEW q \in Seq(S), q # <<>>
  PROVE  /\ Head(q) \in S /\ Tail(q) \in Seq(S)
         /\ Len(q) \in Nat \ {0} /\ Len(Tail(q)) = Len(q) - 1
         /\ Head(q) = q[1]
         /\ \A i \in 1 .. Len(Tail(q)) : Tail(q)[i] = q[i + 1]
BY HeadTailProperties

\* Sequences of one and of two elements.
LEMMA OneFacts ==
  ASSUME NEW S, NEW x \in S
  PROVE  <<x>> \in Seq(S) /\ Len(<<x>>) = 1 /\ <<x>>[1] = x /\ <<x>> # <<>>
OBVIOUS

LEMMA TwoFacts ==
  ASSUME NEW S, NEW x \in S, NEW y \in S
  PROVE  <<x, y>> \in Seq(S) /\ Len(<<x, y>>) = 2 /\ <<x, y>>[1] = x /\ <<x, y>>[2] = y
OBVIOUS

LEMMA PairOf ==
  ASSUME NEW x, NEW y
  PROVE  <<x>> \o <<y>> = <<x, y>>
<1> DEFINE S == {x, y}
<1>1. <<x>> \in Seq(S) /\ <<y>> \in Seq(S) /\ Len(<<x>>) = 1 /\ Len(<<y>>) = 1
      /\ <<x>>[1] = x /\ <<y>>[1] = y
  OBVIOUS
<1>2. <<x, y>> \in Seq(S) /\ Len(<<x, y>>) = 2 /\ <<x, y>>[1] = x /\ <<x, y>>[2] = y
  OBVIOUS
<1> DEFINE q == <<x>> \o <<y>>
<1>3. q \in Seq(S) /\ Len(q) = 2 /\ q[1] = x /\ q[2] = y
  <2>1. /\ q \in Seq(S) /\ Len(q) = Len(<<x>>) + Len(<<y>>)
        /\ \A i \in 1 .. Len(<<x>>) + Len(<<y>>) : q[i] = IF i <= Len(<<x>>) THEN <<x>>[i] ELSE <<y>>[i - Len(<<x>>)]
    BY <1>1, ConcatProperties
  <2> HIDE DEF q
  <2> QED BY <1>1, <2>1
<1>4. \A i \in 1 .. 2 : i = 1 \/ i = 2
  OBVIOUS
<1> HIDE DEF q, S
<1> QED BY <1>2, <1>3, <1>4, SeqEqual DEF q

\* A set in some order: each of its elements is somewhere.
LEMMA OrderFacts ==
  ASSUME NEW S, IsFiniteSet(S), NEW order \in SetToSeqs(S)
  PROVE  /\ order \in Seq(S) /\ Len(order) = Cardinality(S) /\ Cardinality(S) \in Nat
         /\ DOMAIN order = 1 .. Len(order)
         /\ \A x \in S : \E i \in 1 .. Len(order) : order[i] = x
<1> DEFINE D == 1 .. Cardinality(S)
<1>1. Cardinality(S) \in Nat
  BY FS_CardinalityType
<1>2. order \in [D -> S] /\ \A i, j \in D : i # j => order[i] # order[j]
  BY DEF SetToSeqs
<1>3. order \in Seq(S) /\ Len(order) = Cardinality(S) /\ DOMAIN order = D
  BY <1>1, <1>2
<1>4. order \in Injection(D, S)
  BY <1>2 DEF Injection, IsInjective
<1>5. IsFiniteSet(D) /\ Cardinality(D) = Cardinality(S)
  BY <1>1, FS_Interval
<1>6. order \in Surjection(D, S)
  BY <1>4, <1>5, FS_Injection
<1>7. \A x \in S : \E i \in D : order[i] = x
  BY <1>6 DEF Surjection
<1> QED BY <1>1, <1>3, <1>7

------------------------------------------------------------------------------
\* InputEmulation.

LEMMA CallFacts ==
  ASSUME NEW c \in Calls
  PROVE  /\ c.release \in BOOLEAN
         /\ c.op \in EventOps \cup {"create", "destroy", "terminate"}
         /\ c.op # "terminate" => c.handle \in EmHandles
         /\ c.op = "key" => c.key \in EmKeys /\ c.down \in BOOLEAN
         /\ c.op = "modifiers" => c.depressed \subseteq Masks
         /\ c.op = "button" => c.button \in EmButtons
         /\ c.op = "motion" => c.by \in Int \X Int
         /\ c.op \in {"axis", "scroll"} => c.value \in Int
BY DEF Calls, KeyCalls, ModifiersCalls, ButtonCalls, MotionCalls, ScrollCalls, HandleCalls,
       TerminateCalls, EventOps

LEMMA FrontInitially == SinkInit => FrontInv
<1> SUFFICES ASSUME SinkInit PROVE FrontInv
  OBVIOUS
<1>1. FrontTypeOK
  <2>1. calls \in Seq(Calls)
    BY EmptySeq DEF SinkInit
  <2> QED BY <2>1 DEF SinkInit, FrontTypeOK
<1>2. 1 .. Len(calls) = {}
  BY DEF SinkInit
<1> QED BY <1>1, <1>2 DEF SinkInit, FrontInv, Ordered, AllMeant

\* What a front step leaves: keys, modifiers and handles that are given up are
\* about to be released, cleared and destroyed.
Accounted ==
  /\ Held \subseteq Held' \cup Releasing(calls')
  /\ \A h \in EmHandles, m \in Masks : Explains(h, m) => Explains(h, m)'
  /\ em_handles \subseteq em_handles' \cup Leaving(calls')

\* An event, and the creation of its handle before it.
LEMMA EventFront ==
  ASSUME FrontInv, NEW h \in EmHandles, NEW c \in Calls, Event(h, c),
         c.op \in EventOps, ~c.release, c.handle = h,
         c.op = "key" /\ c.down => c.key \in pressed_keys'[h],
         c.op = "modifiers" => c.depressed \subseteq reported'[h],
         pressed_keys' \in [EmHandles -> SUBSET EmKeys], reported' \in [EmHandles -> SUBSET Masks],
         \A g \in EmHandles \ {h} : pressed_keys'[g] = pressed_keys[g]
  PROVE  FrontInv' /\ \E n \in {1, 2} : Len(calls') = n /\ calls'[n] = c
<1> DEFINE x == Call("create", h, FALSE)
<1>1. x \in Calls /\ x.op = "create" /\ x.handle = h /\ ~x.release
  BY DEF Call, Calls, HandleCalls
<1>2. calls' = <<c>> \/ calls' = <<x, c>>
  <2>1. CASE h \in em_handles
    <3>1. calls' = <<>> \o <<c>>
      BY <2>1 DEF Event
    <3> QED BY <3>1
  <2>2. CASE h \notin em_handles
    <3>1. calls' = <<x>> \o <<c>>
      BY <2>2 DEF Event
    <3>2. <<x>> \o <<c>> = <<x, c>>
      BY PairOf
    <3> QED BY <3>1, <3>2
  <2> QED BY <2>1, <2>2
<1> HIDE DEF x
<1>3. /\ calls' \in Seq(Calls)
      /\ \/ Len(calls') = 1 /\ calls'[1] = c
         \/ Len(calls') = 2 /\ calls'[1] = x /\ calls'[2] = c
  <2>1. <<c>> \in Seq(Calls) /\ Len(<<c>>) = 1 /\ <<c>>[1] = c
    OBVIOUS
  <2>2. <<x, c>> \in Seq(Calls) /\ Len(<<x, c>>) = 2 /\ <<x, c>>[1] = x /\ <<x, c>>[2] = c
    BY <1>1
  <2>3. CASE calls' = <<c>>
    BY <2>1, <2>3
  <2>4. CASE calls' = <<x, c>>
    BY <2>2, <2>4
  <2> QED BY <1>2, <2>3, <2>4
<1>4. em_handles' = em_handles \cup {h} /\ UNCHANGED <<mouse_config, session, dropped>> /\ session = "on"
  BY DEF Event
<1>5. FrontTypeOK'
  BY <1>3, <1>4 DEF FrontInv, FrontTypeOK
<1>6. Meant(c)'
  BY <1>4 DEF Meant, EventOps
<1>7. Meant(x)'
  BY <1>1, <1>4 DEF Meant, EventOps
<1>8. AllMeant'
  <2>1. \A i \in 1 .. Len(calls') : calls'[i] = c \/ calls'[i] = x
    BY <1>3
  <2> QED BY <1>6, <1>7, <2>1 DEF AllMeant, Meant
<1>9. Ordered(calls')
  <2> DEFINE q == calls'
  <2>1. \A i \in 1 .. Len(q) : ~q[i].release /\ (i < Len(q) => q[i] = x) /\ q[Len(q)] = c
    BY <1>1, <1>3
  <2> HIDE DEF q
  <2>2. Ordered(q)
    BY <1>1, <2>1 DEF Ordered
  <2> QED BY <2>2 DEF q
<1>10. \A g \in (EmHandles \ em_handles)' : pressed_keys'[g] = {}
  BY <1>4 DEF FrontInv
<1> QED BY <1>3, <1>4, <1>5, <1>8, <1>9, <1>10 DEF FrontInv

LEMMA MaskFacts == \A k : MaskOf(k) \subseteq Masks
BY DEF MaskOf, Masks

LEMMA DestroyFront ==
  ASSUME FrontInv, NEW h \in EmHandles, Destroy(h), session' = session, session # "ended"
  PROVE  /\ FrontInv' /\ Accounted
<1> DEFINE K == pressed_keys[h]
           m == ModifiersCall(h, {}, TRUE)
           d == Call("destroy", h, FALSE)
           r(k) == KeyCall(h, k, FALSE, TRUE)
<1>0. FrontTypeOK /\ K \subseteq EmKeys /\ calls = <<>>
  BY DEF FrontInv, FrontTypeOK, Destroy
<1>1. IsFiniteSet(K)
  BY <1>0, SinkAssumption, FS_Subset
<1>2. PICK order \in SetToSeqs(K) :
        calls' = [i \in DOMAIN order |-> r(order[i])] \o <<m, d>>
  BY DEF Destroy
<1> DEFINE n == Len(order)
           ks == [i \in 1 .. n |-> r(order[i])]
<1>3. /\ order \in Seq(K) /\ n \in Nat /\ DOMAIN order = 1 .. n
      /\ \A k \in K : \E i \in 1 .. n : order[i] = k
  BY <1>1, <1>2, OrderFacts
<1>4. \A i \in 1 .. n : order[i] \in K
  BY <1>3
<1>5. /\ m \in Calls /\ m.op = "modifiers" /\ m.handle = h /\ m.release /\ m.depressed = {}
      /\ d \in Calls /\ d.op = "destroy" /\ d.handle = h /\ ~d.release
  BY DEF Calls, ModifiersCall, ModifiersCalls, Call, HandleCalls
<1>6. \A k \in EmKeys : r(k) \in Calls /\ r(k).op = "key" /\ r(k).handle = h /\ r(k).release
                          /\ ~r(k).down /\ r(k).key = k
  BY DEF Calls, KeyCall, KeyCalls
<1> HIDE DEF m, d, K, n, r
<1>7. ks \in Seq(Calls) /\ Len(ks) = n /\ \A i \in 1 .. n : ks[i] = r(order[i])
  <2>1. \A i \in 1 .. n : r(order[i]) \in Calls
    BY <1>0, <1>4, <1>6
  <2>2. n \in Nat /\ ks \in [1 .. n -> Calls]
    BY <1>3, <2>1
  <2> QED BY <2>2
<1>8. <<m, d>> \in Seq(Calls) /\ Len(<<m, d>>) = 2 /\ <<m, d>>[1] = m /\ <<m, d>>[2] = d
  BY <1>5
<1>9. calls' = ks \o <<m, d>>
  BY <1>2, <1>3 DEF n
<1> HIDE DEF ks
<1>10. /\ calls' \in Seq(Calls) /\ Len(calls') = n + 2
       /\ \A i \in 1 .. n : calls'[i] = r(order[i])
       /\ calls'[n + 1] = m /\ calls'[n + 2] = d
  <2> DEFINE t == <<m, d>>
  <2>1. /\ calls' \in Seq(Calls) /\ Len(calls') = n + 2
        /\ \A i \in 1 .. n + 2 : calls'[i] = IF i <= n THEN ks[i] ELSE t[i - n]
    BY <1>7, <1>8, <1>9, ConcatProperties
  <2> HIDE DEF t
  <2>2. \A i \in 1 .. n : i \in 1 .. n + 2 /\ i <= n
    BY <1>3
  <2>3. \A j \in {1, 2} : n + j \in 1 .. n + 2 /\ ~(n + j <= n) /\ (n + j) - n = j
    BY <1>3
  <2>4. \A i \in 1 .. n : calls'[i] = r(order[i])
    BY <1>7, <2>1, <2>2
  <2>5. calls'[n + 1] = m /\ calls'[n + 2] = d
    <3>1. \A j \in {1, 2} : calls'[n + j] = t[j]
      BY <2>1, <2>3
    <3> QED BY <1>8, <3>1 DEF t
  <2> QED BY <2>1, <2>4, <2>5
<1>11. /\ em_handles' = em_handles \ {h} /\ h \in em_handles
       /\ pressed_keys' = [pressed_keys EXCEPT ![h] = {}]
       /\ reported' = [reported EXCEPT ![h] = {}]
       /\ UNCHANGED <<mouse_config, dropped>> /\ calls = <<>>
  BY DEF Destroy
\* What the calls are.
<1>12. \A i \in 1 .. Len(calls') :
         \/ /\ calls'[i].op = "key" /\ calls'[i].release /\ ~calls'[i].down /\ calls'[i].handle = h
         \/ calls'[i] = m \/ (calls'[i] = d /\ i = Len(calls'))
  <2> TAKE i \in 1 .. Len(calls')
  <2>1. i \in 1 .. n \/ i = n + 1 \/ i = n + 2
    BY <1>3, <1>10
  <2>2. CASE i \in 1 .. n
    BY <1>0, <1>4, <1>6, <1>10, <2>2
  <2> QED BY <1>3, <1>10, <2>1, <2>2
<1>13. Len(calls') \in 1 .. Len(calls') /\ calls'[Len(calls')] = d
  BY <1>3, <1>10
<1>14. Ordered(calls')
  <2> DEFINE q == calls'
  <2>1. /\ \A i \in 1 .. Len(q) : i < Len(q) => q[i].release
        /\ \A i \in 1 .. Len(q) : q[i].release => Release(q[i])
        /\ \A i \in 1 .. Len(q) : q[i].op # "create"
        /\ q[Len(q)].op = "destroy"
    BY <1>5, <1>12, <1>13 DEF Release
  <2> HIDE DEF q
  <2>2. Ordered(q)
    BY <2>1 DEF Ordered
  <2> QED BY <2>2 DEF q
<1>15. AllMeant'
  <2>1. \A i \in 1 .. Len(calls') :
          /\ calls'[i].op \in {"key", "modifiers", "destroy"} /\ calls'[i].handle = h
          /\ calls'[i].release \/ calls'[i].op = "destroy"
          /\ calls'[i].op = "key" => ~calls'[i].down
          /\ calls'[i].op = "modifiers" => calls'[i].depressed = {}
    BY <1>5, <1>12
  <2>2. h \notin em_handles'
    BY <1>11
  <2> QED BY <2>1, <2>2 DEF AllMeant, Meant, EventOps
<1>16. FrontTypeOK'
  BY <1>0, <1>10, <1>11 DEF FrontTypeOK
<1>17. \A g \in (EmHandles \ em_handles)' : pressed_keys'[g] = {}
  BY <1>0, <1>11 DEF FrontInv, FrontTypeOK
<1>18. \A k \in K : \E i \in 1 .. Len(calls') :
          calls'[i].op = "key" /\ ~calls'[i].down /\ calls'[i].key = k /\ calls'[i].handle = h
  <2> TAKE k \in K
  <2>1. PICK i \in 1 .. n : order[i] = k
    BY <1>3
  <2>2. i \in 1 .. Len(calls') /\ calls'[i] = r(k) /\ k \in EmKeys
    BY <1>0, <1>3, <1>10, <2>1
  <2> QED BY <1>6, <2>2
<1>19. n + 1 \in 1 .. Len(calls') /\ n + 2 \in 1 .. Len(calls')
  BY <1>3, <1>10
<1>20. Held \subseteq Held' \cup Releasing(calls')
  <2> SUFFICES ASSUME NEW g \in EmHandles, NEW k \in pressed_keys[g] PROVE k \in Held' \cup Releasing(calls')
    BY DEF Held
  <2>1. CASE g = h
    BY <1>18, <2>1 DEF Releasing, K
  <2>2. CASE g # h
    BY <1>0, <1>11, <2>2 DEF Held, FrontTypeOK
  <2> QED BY <2>1, <2>2
<1>21. \A g \in EmHandles, x \in Masks : Explains(g, x) => Explains(g, x)'
  <2> TAKE g \in EmHandles, x \in Masks
  <2>1. CASE g = h
    <3>1. x \in Clears(m)
      BY <1>5 DEF Clears
    <3> QED BY <1>5, <1>10, <1>19, <2>1, <3>1 DEF Explains
  <2>2. CASE g # h
    <3>1. pressed_keys'[g] = pressed_keys[g] /\ reported'[g] = reported[g] /\ 1 .. Len(calls) = {}
      BY <1>0, <1>11, <2>2 DEF FrontTypeOK
    <3> QED BY <3>1 DEF Explains
  <2> QED BY <2>1, <2>2
<1>22. em_handles \subseteq em_handles' \cup Leaving(calls')
  <2>1. h \in Leaving(calls')
    BY <1>5, <1>10, <1>19 DEF Leaving
  <2> QED BY <1>11, <2>1
<1> QED BY <1>14, <1>15, <1>16, <1>17, <1>20, <1>21, <1>22 DEF FrontInv, Accounted

LEMMA EventAccounted ==
  ASSUME FrontInv, NEW h \in EmHandles, NEW c \in Calls, Event(h, c), c.handle = h,
         NEW n \in {1, 2}, Len(calls') = n, calls'[n] = c,
         \A g \in EmHandles \ {h} : pressed_keys'[g] = pressed_keys[g] /\ reported'[g] = reported[g],
         \A k \in pressed_keys[h] \ pressed_keys'[h] : c.op = "key" /\ ~c.down /\ c.key = k,
         \A x \in reported[h] \ reported'[h] : x \in MasksOf(pressed_keys'[h]) \cup Clears(c)
  PROVE  Accounted
<1>1. n \in 1 .. Len(calls') /\ calls = <<>> /\ em_handles \subseteq em_handles'
  BY DEF Event
<1>2. Held \subseteq Held' \cup Releasing(calls')
  <2> SUFFICES ASSUME NEW g \in EmHandles, NEW k \in pressed_keys[g] PROVE k \in Held' \cup Releasing(calls')
    BY DEF Held
  <2>1. CASE k \in pressed_keys'[g]
    BY <2>1 DEF Held
  <2>2. CASE k \notin pressed_keys'[g]
    <3>1. c.op = "key" /\ ~c.down /\ c.key = k
      BY <2>2
    <3> QED BY <1>1, <3>1 DEF Releasing
  <2> QED BY <2>1, <2>2
<1>3. \A g \in EmHandles, x \in Masks : Explains(g, x) => Explains(g, x)'
  <2> TAKE g \in EmHandles, x \in Masks
  <2> HAVE Explains(g, x)
  <2>1. x \in MasksOf(pressed_keys[g]) \/ x \in reported[g]
    BY <1>1 DEF Explains
  <2>2. CASE g # h
    BY <2>1, <2>2 DEF Explains
  <2>3. CASE g = h /\ x \in reported[g]
    BY <1>1, <2>3 DEF Explains
  <2>4. CASE g = h /\ x \in MasksOf(pressed_keys[g])
    <3>1. PICK k \in pressed_keys[g] : x \in MaskOf(k)
      BY <2>4 DEF MasksOf
    <3>2. CASE k \in pressed_keys'[g]
      BY <3>1, <3>2 DEF Explains, MasksOf
    <3>3. CASE k \notin pressed_keys'[g]
      <4>1. x \in Clears(c)
        BY <2>4, <3>1, <3>3 DEF Clears
      <4> QED BY <1>1, <2>4, <4>1 DEF Explains
    <3> QED BY <3>2, <3>3
  <2> QED BY <2>1, <2>2, <2>3, <2>4
<1> QED BY <1>1, <1>2, <1>3 DEF Accounted

\* InputEmulation acts between two calls, and never after the end.
LEMMA FrontMoves ==
  ASSUME FrontInv, scenario \in Scenarios, Input(scenario.handles, scenario.keys) \/ Ending
  PROVE  /\ FrontInv' /\ Accounted
         /\ calls = <<>> /\ session # "ended" /\ session' # "ended"
         /\ UNCHANGED <<keys_down, dropped>>
<1>0. /\ FrontTypeOK /\ scenario.handles \subseteq EmHandles /\ scenario.keys \subseteq EmKeys
  BY ScenariosAssumption DEF FrontInv
<1>1. /\ calls = <<>> /\ session # "ended" /\ session' # "ended"
      /\ UNCHANGED <<keys_down, dropped>>
  BY DEF Input, ConsumeKey, ConsumeModifiers, ConsumePointer, RemoveHandle, Ending, EndSession,
         Terminate, Event, Destroy, desktopVars
<1>2. ASSUME NEW h \in EmHandles, NEW k \in EmKeys, NEW d \in BOOLEAN, ConsumeKey(h, k, d)
      PROVE  FrontInv' /\ Accounted
  <2> DEFINE c == KeyCall(h, k, d, FALSE)
  <2>1. /\ c \in Calls /\ c.op = "key" /\ ~c.release /\ c.handle = h /\ c.key = k /\ (c.down <=> d)
    BY DEF Calls, KeyCall, KeyCalls
  <2>2. /\ Event(h, c)
        /\ pressed_keys' = [pressed_keys EXCEPT ![h] = IF d THEN @ \cup {k} ELSE @ \ {k}]
        /\ reported' = [reported EXCEPT ![h] = @ \ MaskOf(k)]
    BY <1>2 DEF ConsumeKey
  <2> HIDE DEF c
  <2>3. /\ pressed_keys' \in [EmHandles -> SUBSET EmKeys] /\ reported' \in [EmHandles -> SUBSET Masks]
        /\ \A g \in EmHandles \ {h} : pressed_keys'[g] = pressed_keys[g] /\ reported'[g] = reported[g]
        /\ d => k \in pressed_keys'[h]
        /\ \A j \in pressed_keys[h] \ pressed_keys'[h] : ~d /\ j = k
        /\ \A x \in reported[h] \ reported'[h] : x \in MaskOf(k)
    BY <1>0, <2>2 DEF FrontTypeOK
  <2>4. FrontInv' /\ \E n \in {1, 2} : Len(calls') = n /\ calls'[n] = c
    BY <2>1, <2>2, <2>3, EventFront DEF EventOps
  <2>5. \A x \in reported[h] \ reported'[h] : x \in MasksOf(pressed_keys'[h]) \cup Clears(c)
    BY <2>1, <2>3 DEF MasksOf, Clears
  <2>6. \A j \in pressed_keys[h] \ pressed_keys'[h] : c.op = "key" /\ ~c.down /\ c.key = j
    BY <2>1, <2>3
  <2>7. c \in Calls /\ c.handle = h /\ Event(h, c)
    BY <2>1, <2>2
  <2>8. \A g \in EmHandles \ {h} : pressed_keys'[g] = pressed_keys[g] /\ reported'[g] = reported[g]
    BY <2>3
  <2> QED BY ONLY FrontInv, h \in EmHandles, <2>4, <2>5, <2>6, <2>7, <2>8, EventAccounted
<1>3. ASSUME NEW h \in EmHandles, NEW ms \in EmReports, ConsumeModifiers(h, ms)
      PROVE  FrontInv' /\ Accounted
  <2> DEFINE c == ModifiersCall(h, ms, FALSE)
  <2>1. /\ ms \subseteq Masks /\ c \in Calls /\ c.op = "modifiers" /\ ~c.release /\ c.handle = h
        /\ c.depressed = ms
    BY SinkAssumption DEF Calls, ModifiersCall, ModifiersCalls
  <2>2. /\ Event(h, c) /\ pressed_keys' = pressed_keys
        /\ reported' = [reported EXCEPT ![h] = ms]
    BY <1>3 DEF ConsumeModifiers
  <2> HIDE DEF c
  <2>3. /\ pressed_keys' \in [EmHandles -> SUBSET EmKeys] /\ reported' \in [EmHandles -> SUBSET Masks]
        /\ \A g \in EmHandles \ {h} : pressed_keys'[g] = pressed_keys[g] /\ reported'[g] = reported[g]
        /\ reported'[h] = ms
    BY <1>0, <2>1, <2>2 DEF FrontTypeOK
  <2>4. FrontInv' /\ \E n \in {1, 2} : Len(calls') = n /\ calls'[n] = c
    BY <2>1, <2>2, <2>3, EventFront DEF EventOps
  <2>5. \A x \in reported[h] \ reported'[h] : x \in MasksOf(pressed_keys'[h]) \cup Clears(c)
    BY <1>0, <2>1, <2>3 DEF Clears, FrontTypeOK
  <2>6. \A j \in pressed_keys[h] \ pressed_keys'[h] : c.op = "key" /\ ~c.down /\ c.key = j
    BY <2>2
  <2> QED BY <2>1, <2>2, <2>3, <2>4, <2>5, <2>6, EventAccounted
<1>4. ASSUME NEW h \in EmHandles, ConsumePointer(h)
      PROVE  FrontInv' /\ Accounted
  <2>1. PICK c \in Calls : Event(h, c) /\ c.op \in EventOps /\ ~c.release /\ c.handle = h
                           /\ c.op # "key" /\ c.op # "modifiers"
    <3>1. ASSUME NEW b \in EmButtons, NEW d \in BOOLEAN
          PROVE  LET c == ButtonCall(h, b, d)
                 IN c \in Calls /\ c.op = "button" /\ ~c.release /\ c.handle = h
      BY DEF Calls, ButtonCall, ButtonCalls
    <3>2. ASSUME NEW v \in EmMoves
          PROVE  LET c == MotionCall(h, v)
                 IN c \in Calls /\ c.op = "motion" /\ ~c.release /\ c.handle = h
      BY SinkAssumption DEF Calls, MotionCall, MotionCalls
    <3>3. ASSUME NEW v \in Rolls
          PROVE  LET c == AxisCall(h, v)
                 IN c \in Calls /\ c.op = "axis" /\ ~c.release /\ c.handle = h
      BY SinkAssumption DEF Calls, AxisCall, ScrollCalls
    <3>4. ASSUME NEW v \in Wheels
          PROVE  LET c == ScrollCall(h, v)
                 IN c \in Calls /\ c.op = "scroll" /\ ~c.release /\ c.handle = h
      BY SinkAssumption DEF Calls, ScrollCall, ScrollCalls
    <3> QED BY <1>4, <3>1, <3>2, <3>3, <3>4 DEF ConsumePointer, EventOps
  <2>2. UNCHANGED <<pressed_keys, reported>>
    BY <1>4 DEF ConsumePointer
  <2>3. /\ pressed_keys' \in [EmHandles -> SUBSET EmKeys] /\ reported' \in [EmHandles -> SUBSET Masks]
    BY <1>0, <2>2 DEF FrontTypeOK
  <2>4. FrontInv' /\ \E n \in {1, 2} : Len(calls') = n /\ calls'[n] = c
    BY <2>1, <2>2, <2>3, EventFront
  <2> QED BY <2>1, <2>2, <2>4, EventAccounted
<1>5. ASSUME NEW h \in EmHandles, Destroy(h), session' = session PROVE FrontInv' /\ Accounted
  BY <1>1, <1>5, DestroyFront
<1>6. ASSUME EndSession PROVE FrontInv' /\ Accounted
  <2>1. /\ UNCHANGED <<em_handles, pressed_keys, mouse_config, calls, reported, dropped>>
        /\ session' = "ending" /\ 1 .. Len(calls) = {}
    BY <1>1, <1>6 DEF EndSession, desktopVars
  <2>2. FrontInv'
    BY <2>1 DEF FrontInv, FrontTypeOK, Ordered, AllMeant
  <2> QED BY <2>1, <2>2 DEF Accounted, Held, Explains
<1>7. ASSUME session = "ending", em_handles = {}, calls' = <<Call("terminate", None, FALSE)>>,
             UNCHANGED <<em_handles, pressed_keys, mouse_config, session, reported, dropped>>
      PROVE  FrontInv' /\ Accounted
  <2> DEFINE c == Call("terminate", None, FALSE)
  <2>1. c \in Calls /\ c.op = "terminate" /\ ~c.release
    BY DEF Calls, Call, TerminateCalls
  <2> HIDE DEF c
  <2>2. calls' \in Seq(Calls) /\ Len(calls') = 1 /\ calls'[1] = c
    BY <1>7, <2>1, OneFacts DEF c
  <2>3. FrontTypeOK'
    BY <1>0, <1>7, <2>2 DEF FrontTypeOK
  <2>4. Ordered(calls') /\ AllMeant'
    <3>1. \A i \in 1 .. Len(calls') : i = Len(calls') /\ calls'[i] = c
      BY <2>2
    <3>2. Meant(c)'
      BY <1>7, <2>1 DEF Meant, EventOps
    <3>3. AllMeant'
      BY <3>1, <3>2 DEF AllMeant, Meant
    <3>4. Ordered(calls')
      <4> DEFINE q == calls'
      <4>1. \A i \in 1 .. Len(q) : i = Len(q) /\ q[i] = c
        BY <3>1
      <4> HIDE DEF q
      <4>2. Len(q) \in Nat
        BY <2>2 DEF q
      <4>3. Ordered(q)
        BY <2>1, <4>1, <4>2 DEF Ordered
      <4> QED BY <4>3 DEF q
    <3> QED BY <3>3, <3>4
  <2>5. FrontInv'
    BY <1>7, <2>3, <2>4 DEF FrontInv
  <2>6. 1 .. Len(calls) = {}
    BY <1>1
  <2> QED BY <1>7, <2>5, <2>6 DEF Accounted, Held, Explains
<1>8. Terminate => FrontInv' /\ Accounted
  <2> SUFFICES ASSUME Terminate PROVE FrontInv' /\ Accounted
    OBVIOUS
  <2>1. ASSUME NEW h \in em_handles, Destroy(h) PROVE FrontInv' /\ Accounted
    <3>1. h \in EmHandles /\ session' = session
      BY <1>0, <2>1 DEF FrontTypeOK, Destroy
    <3> QED BY <1>5, <2>1, <3>1
  <2> QED BY <1>7, <2>1 DEF Terminate, desktopVars
<1>9. ASSUME NEW h \in EmHandles, RemoveHandle(h) PROVE FrontInv' /\ Accounted
  BY <1>5, <1>9 DEF RemoveHandle, Destroy
<1> QED BY <1>0, <1>1, <1>2, <1>3, <1>4, <1>6, <1>8, <1>9 DEF Input, Ending

------------------------------------------------------------------------------
\* What a backend does with the calls: nothing, the one it is in returns, or it fails.
Works ==
  /\ UNCHANGED <<em_handles, pressed_keys, mouse_config, reported>>
  /\ dropped' \in BOOLEAN
  /\ \/ UNCHANGED <<calls, session>>
     \/ /\ calls # <<>> /\ calls' = Tail(calls)
        /\ session' = IF Head(calls).op = "terminate" THEN "ended" ELSE session
     \/ /\ calls # <<>> /\ Head(calls).op \in EventOps
        /\ calls' = IF Head(calls).release THEN <<Last(calls)>> ELSE <<>>
        /\ session' = IF Head(calls).release THEN session ELSE "failed"

LEMMA HeadFacts ==
  ASSUME FrontInv, calls # <<>>
  PROVE  /\ Head(calls) \in Calls /\ Meant(Head(calls)) /\ Head(calls) = calls[1]
         /\ 1 \in 1 .. Len(calls) /\ Len(calls) \in Nat \ {0} /\ calls \in Seq(Calls)
         /\ session # "ended"
         /\ Head(calls).op = "key" /\ Head(calls).down => Head(calls).key \in Held
<1>1. calls \in Seq(Calls) /\ pressed_keys \in [EmHandles -> SUBSET EmKeys]
  BY DEF FrontInv, FrontTypeOK
<1>2. Head(calls) \in Calls /\ Head(calls) = calls[1] /\ Len(calls) \in Nat \ {0}
  BY <1>1, TailFacts
<1>3. Meant(Head(calls)) /\ 1 \in 1 .. Len(calls)
  BY <1>2 DEF FrontInv, AllMeant
<1>4. Head(calls).op = "key" /\ Head(calls).down => Head(calls).key \in Held
  BY <1>2, <1>3, CallFacts DEF Meant, Held
<1> QED BY <1>1, <1>2, <1>3, <1>4 DEF FrontInv

\* The calls of terminate and destroy come last, and those of an event alone.
LEMMA AtEnd ==
  ASSUME FrontInv, calls # <<>>, ~Head(calls).release, Head(calls).op # "create"
  PROVE  /\ Len(calls) = 1 /\ Tail(calls) = <<>>
         /\ \A i \in 1 .. Len(calls) : calls[i] = Head(calls)
<1>1. /\ calls \in Seq(Calls) /\ Head(calls) = calls[1] /\ Len(calls) \in Nat \ {0}
      /\ 1 \in 1 .. Len(calls)
  BY HeadFacts
<1>2. ~(1 < Len(calls))
  BY <1>1 DEF FrontInv, Ordered
<1>3. Len(calls) = 1
  BY <1>1, <1>2
<1>4. Tail(calls) \in Seq(Calls) /\ Len(Tail(calls)) = 0
  BY <1>1, <1>3, TailFacts
<1>5. Tail(calls) = <<>>
  BY <1>4, EmptySeq
<1>6. \A i \in 1 .. Len(calls) : calls[i] = Head(calls)
  BY <1>1, <1>3
<1> QED BY <1>3, <1>5, <1>6

LEMMA AtTermination ==
  ASSUME FrontInv, InCall("terminate")
  PROVE  /\ Tail(calls) = <<>> /\ em_handles = {} /\ Held = {}
         /\ Releasing(calls) = {} /\ Leaving(calls) = {}
<1>1. calls # <<>> /\ Head(calls).op = "terminate"
  BY DEF InCall
<1>2. Head(calls) \in Calls /\ Meant(Head(calls)) /\ Head(calls) = calls[1] /\ 1 \in 1 .. Len(calls)
  BY <1>1, HeadFacts
<1>3. ~Head(calls).release
  BY <1>1, <1>2 DEF FrontInv, Ordered, Release
<1>4. Tail(calls) = <<>> /\ \A i \in 1 .. Len(calls) : calls[i].op = "terminate"
  BY <1>1, <1>3, AtEnd
<1>5. em_handles = {}
  BY <1>1, <1>2 DEF Meant
<1>6. Held = {}
  BY <1>5 DEF FrontInv, Held
<1> QED BY <1>4, <1>5, <1>6 DEF Releasing, Leaving

LEMMA WorksFront ==
  ASSUME FrontInv, Works
  PROVE  FrontInv'
<1>0. FrontTypeOK /\ AllMeant /\ Ordered(calls) /\ calls \in Seq(Calls)
  BY DEF FrontInv, FrontTypeOK
<1>1. UNCHANGED <<em_handles, pressed_keys, mouse_config, reported>> /\ dropped' \in BOOLEAN
  BY DEF Works
<1>2. CASE UNCHANGED <<calls, session>>
  BY <1>1, <1>2 DEF FrontInv, FrontTypeOK, AllMeant, Meant
<1>3. ASSUME calls # <<>>, calls' = Tail(calls),
             session' = IF Head(calls).op = "terminate" THEN "ended" ELSE session
      PROVE  FrontInv'
  <2>1. CASE Head(calls).op = "terminate"
    <3>1. calls' = <<>> /\ em_handles' = {}
      BY <1>1, <1>3, <2>1, AtTermination DEF InCall
    <3>2. calls' \in Seq(Calls) /\ 1 .. Len(calls') = {}
      BY <3>1, EmptySeq
    <3>3. FrontTypeOK'
      BY <1>0, <1>1, <1>3, <3>2 DEF FrontTypeOK
    <3>4. Ordered(calls') /\ AllMeant'
      BY <3>2 DEF Ordered, AllMeant
    <3> QED BY <1>1, <3>1, <3>3, <3>4 DEF FrontInv
  <2>2. CASE Head(calls).op # "terminate"
    <3>1. /\ calls' \in Seq(Calls) /\ Len(calls) \in Nat \ {0} /\ Len(calls') = Len(calls) - 1
          /\ \A i \in 1 .. Len(calls') : calls'[i] = calls[i + 1]
      BY <1>0, <1>3, TailFacts
    <3>2. session' = session /\ session # "ended"
      BY <1>3, <2>2, HeadFacts
    <3>3. \A i \in 1 .. Len(calls') :
            /\ i + 1 \in 1 .. Len(calls) /\ calls'[i] = calls[i + 1]
            /\ i < Len(calls') => i + 1 < Len(calls)
            /\ calls'[Len(calls')] = calls[Len(calls)]
      BY <3>1
    <3>4. Ordered(calls')
      <4> DEFINE q == calls'
      <4>1. \A i \in 1 .. Len(q) : \E j \in 1 .. Len(calls) :
              q[i] = calls[j] /\ (i < Len(q) => j < Len(calls)) /\ q[Len(q)] = calls[Len(calls)]
        BY <3>3
      <4> HIDE DEF q
      <4>2. Ordered(q)
        BY <1>0, <4>1 DEF Ordered
      <4> QED BY <4>2 DEF q
    <3>5. AllMeant'
      BY <1>0, <1>1, <3>2, <3>3 DEF AllMeant, Meant
    <3>6. FrontTypeOK'
      BY <1>0, <1>1, <3>1, <3>2 DEF FrontTypeOK
    <3> QED BY <1>1, <3>2, <3>4, <3>5, <3>6 DEF FrontInv
  <2> QED BY <2>1, <2>2
<1>4. ASSUME calls # <<>>, Head(calls).op \in EventOps,
             calls' = IF Head(calls).release THEN <<Last(calls)>> ELSE <<>>,
             session' = IF Head(calls).release THEN session ELSE "failed"
      PROVE  FrontInv'
  <2>1. /\ Head(calls) = calls[1] /\ 1 \in 1 .. Len(calls) /\ session # "ended"
        /\ Len(calls) \in 1 .. Len(calls)
    BY <1>4, HeadFacts
  <2>2. CASE Head(calls).release
    <3>1. PICK d \in Calls : d = Last(calls) /\ d.op = "destroy" /\ Meant(d) /\ ~d.release
      <4>1. Last(calls) \in Calls
        BY <1>0, <2>1 DEF Last
      <4>2. Last(calls).op = "destroy" /\ Meant(Last(calls)) /\ ~Last(calls).release
        BY <1>0, <2>1, <2>2 DEF Ordered, AllMeant, Last, Release
      <4> QED BY <4>1, <4>2
    <3>2. calls' = <<d>>
      BY <1>4, <2>2, <3>1
    <3>3. calls' \in Seq(Calls) /\ Len(calls') = 1 /\ calls'[1] = d
      BY <3>1, <3>2, OneFacts
    <3>4. \A i \in 1 .. Len(calls') : i = Len(calls') /\ calls'[i] = d
      BY <3>3
    <3>5. Ordered(calls')
      <4> DEFINE q == calls'
      <4>1. \A i \in 1 .. Len(q) : i = Len(q) /\ q[i] = d
        BY <3>4
      <4>2. Len(q) = 1
        BY <3>3
      <4> HIDE DEF q
      <4>3. Ordered(q)
        BY <3>1, <4>1, <4>2 DEF Ordered
      <4> QED BY <4>3 DEF q
    <3>6. Meant(d)'
      BY <1>1, <3>1 DEF Meant
    <3>7. AllMeant'
      BY <3>4, <3>6 DEF AllMeant, Meant
    <3>8. session' = session
      BY <1>4, <2>2
    <3>9. FrontTypeOK'
      BY <1>0, <1>1, <3>3, <3>8 DEF FrontTypeOK
    <3> QED BY <1>1, <2>1, <3>5, <3>7, <3>8, <3>9 DEF FrontInv
  <2>3. CASE ~Head(calls).release
    <3>1. calls' \in Seq(Calls) /\ 1 .. Len(calls') = {} /\ session' = "failed"
      BY <1>4, <2>3, EmptySeq
    <3>2. FrontTypeOK' /\ Ordered(calls') /\ AllMeant'
      BY <1>0, <1>1, <3>1 DEF FrontTypeOK, Ordered, AllMeant
    <3> QED BY <1>1, <3>1, <3>2 DEF FrontInv
  <2> QED BY <2>2, <2>3
<1> QED BY <1>2, <1>3, <1>4 DEF Works

\* When a call returns, what it had to do has been done.
LEMMA TailAccounts ==
  ASSUME FrontInv, calls # <<>>, calls' = Tail(calls), UNCHANGED <<pressed_keys, reported>>
  PROVE  /\ \A k \in Releasing(calls) :
              \/ k \in Releasing(calls')
              \/ Head(calls).op = "key" /\ ~Head(calls).down /\ Head(calls).key = k
         /\ \A h \in Leaving(calls) :
              \/ h \in Leaving(calls')
              \/ Head(calls).op = "destroy" /\ Head(calls).handle = h
         /\ \A h \in EmHandles, m \in Masks :
              Explains(h, m) =>
                \/ Explains(h, m)'
                \/ Head(calls).handle = h /\ m \in Clears(Head(calls))
<1>1. /\ Len(calls) \in Nat \ {0} /\ Len(calls') = Len(calls) - 1 /\ Head(calls) = calls[1]
      /\ \A i \in 1 .. Len(calls') : calls'[i] = calls[i + 1]
  BY TailFacts DEF FrontInv, FrontTypeOK
<1>2. \A i \in 1 .. Len(calls) :
        \/ calls[i] = Head(calls)
        \/ \E j \in 1 .. Len(calls') : calls'[j] = calls[i]
  <2> TAKE i \in 1 .. Len(calls)
  <2>1. CASE i = 1
    BY <1>1, <2>1
  <2>2. CASE i # 1
    <3>1. i - 1 \in 1 .. Len(calls') /\ (i - 1) + 1 = i
      BY <1>1, <2>2
    <3> QED BY <1>1, <3>1
  <2> QED BY <2>1, <2>2
<1>3. \A k \in Releasing(calls) :
        \/ k \in Releasing(calls')
        \/ Head(calls).op = "key" /\ ~Head(calls).down /\ Head(calls).key = k
  BY <1>2 DEF Releasing
<1>4. \A h \in Leaving(calls) :
        h \in Leaving(calls') \/ (Head(calls).op = "destroy" /\ Head(calls).handle = h)
  BY <1>2 DEF Leaving
<1>5. \A h \in EmHandles, m \in Masks :
        Explains(h, m) =>
          Explains(h, m)' \/ (Head(calls).handle = h /\ m \in Clears(Head(calls)))
  BY <1>2 DEF Explains
<1> QED BY <1>3, <1>4, <1>5

LEMMA ReturnWorks ==
  ASSUME FrontInv, calls # <<>>, Return
  PROVE  Works /\ calls' = Tail(calls) /\ UNCHANGED <<pressed_keys, reported, dropped>>
BY DEF Return, Works, FrontInv, FrontTypeOK

LEMMA FailWorks ==
  ASSUME FrontInv, calls # <<>>, Head(calls).op \in EventOps, Fail
  PROVE  Works
<1>1. dropped' \in BOOLEAN
  BY DEF Fail
<1> QED BY <1>1 DEF Fail, Works

LEMMA IdleWorks ==
  ASSUME FrontInv, UNCHANGED <<frontVars, dropped>>
  PROVE  Works /\ UNCHANGED <<calls, pressed_keys, reported, dropped, session>>
BY DEF Works, frontVars, FrontInv, FrontTypeOK

\* No key goes down but a key that is held, and none is left down when terminate
\* returns.
Types == DesktopKeys' \subseteq DesktopKeys \cup Held
Ends == InCall("terminate") /\ calls' # calls => DesktopKeys' = {}

\* The desktop has one keyboard, and a release is on its way for every key that
\* is down and not held.
OnKeyboard == \A kk \in keys_down : kk = <<None, kk[2]>>
Explained == DesktopKeys \subseteq Held \cup Releasing(calls)

LEMMA PressFacts ==
  ASSUME NEW b, NEW k, keys_down' = keys_down \cup {<<b, k>>}
  PROVE  /\ DesktopKeys' = DesktopKeys \cup {k}
         /\ OnKeyboard /\ b = None => OnKeyboard'
<1>1. <<b, k>>[2] = k
  OBVIOUS
<1> QED BY <1>1 DEF DesktopKeys, OnKeyboard

LEMMA ReleaseFacts ==
  ASSUME NEW b, NEW k, keys_down' = keys_down \ {<<b, k>>}
  PROVE  /\ DesktopKeys' \subseteq DesktopKeys
         /\ OnKeyboard /\ b = None => OnKeyboard' /\ DesktopKeys' = DesktopKeys \ {k}
<1>1. <<b, k>>[2] = k
  OBVIOUS
<1> QED BY <1>1 DEF DesktopKeys, OnKeyboard

\* A key that is typed as it was asked for.
LEMMA KeyFacts ==
  ASSUME FrontInv, InCall("key"), NEW b, PostKey(b, Head(calls).key, Head(calls).down)
  PROVE  /\ Types /\ DesktopKeys' \subseteq DesktopKeys \cup {Head(calls).key}
         /\ Head(calls).down => Head(calls).key \in DesktopKeys'
         /\ OnKeyboard /\ b = None => OnKeyboard' /\ (~Head(calls).down => Head(calls).key \notin DesktopKeys')
<1>1. /\ Head(calls) \in Calls /\ Head(calls).op = "key"
      /\ Head(calls).down => Head(calls).key \in Held
  BY HeadFacts DEF InCall
<1>2. PICK k : k = Head(calls).key
  OBVIOUS
<1>3. CASE Head(calls).down
  <2>1. keys_down' = keys_down \cup {<<b, k>>}
    BY <1>2, <1>3 DEF PostKey
  <2>2. DesktopKeys' = DesktopKeys \cup {k} /\ (OnKeyboard /\ b = None => OnKeyboard')
    BY <2>1, PressFacts
  <2>3. k \in Held
    BY <1>1, <1>2, <1>3
  <2> QED BY <1>2, <1>3, <2>2, <2>3 DEF Types
<1>4. CASE ~Head(calls).down
  <2>1. keys_down' = keys_down \ {<<b, k>>}
    BY <1>2, <1>4 DEF PostKey
  <2> QED BY <1>1, <1>2, <1>4, <2>1, ReleaseFacts DEF Types
<1> QED BY <1>3, <1>4

LEMMA StillExplained ==
  ASSUME FrontInv, Explained, Types, calls # <<>>, calls' = Tail(calls), UNCHANGED <<pressed_keys, reported>>,
         Head(calls).op = "key" /\ ~Head(calls).down => Head(calls).key \notin DesktopKeys'
  PROVE  Explained'
<1>1. Held' = Held
  BY DEF Held
<1>2. \A k \in Releasing(calls) :
        k \in Releasing(calls') \/ (Head(calls).op = "key" /\ ~Head(calls).down /\ Head(calls).key = k)
  BY TailAccounts
<1> QED BY <1>1, <1>2 DEF Explained, Types

\* At the end of all calls nothing is explained, so nothing is down.
LEMMA ExplainedEnd ==
  ASSUME FrontInv, Explained, Types
  PROVE  Ends
<1> SUFFICES ASSUME InCall("terminate") PROVE DesktopKeys' = {}
  BY DEF Ends
<1> QED BY AtTermination DEF Explained, Types

LEMMA SameKeys ==
  ASSUME UNCHANGED keys_down
  PROVE  DesktopKeys' = DesktopKeys /\ Types /\ (OnKeyboard => OnKeyboard')
BY DEF DesktopKeys, Types, OnKeyboard

LEMMA NoKeys ==
  ASSUME keys_down' = {}
  PROVE  DesktopKeys' = {} /\ Types /\ Ends /\ OnKeyboard'
BY DEF DesktopKeys, Types, OnKeyboard, Ends

\* Front steps keep what is explained so.
LEMMA FrontExplained ==
  ASSUME Accounted, UNCHANGED keys_down, calls = <<>>, Explained
  PROVE  Explained'
<1>1. Releasing(calls) = {}
  BY DEF Releasing
<1> QED BY <1>1, SameKeys DEF Accounted, Explained

------------------------------------------------------------------------------
\* X11.
X11Inv == OnKeyboard /\ Explained

LEMMA X11Step ==
  ASSUME FrontInv, X11Inv, X11EmulationNext
  PROVE  X11Inv' /\ Works /\ Types /\ Ends
<1>1. ASSUME X11Key PROVE X11Inv' /\ Works /\ Types
  <2>1. InCall("key") /\ calls # <<>> /\ PostKey(None, Head(calls).key, Head(calls).down) /\ Return
    BY <1>1 DEF X11Key, InCall
  <2>2. Works /\ calls' = Tail(calls) /\ UNCHANGED <<pressed_keys, reported>>
    BY <2>1, ReturnWorks
  <2>3. Types /\ OnKeyboard' /\ (~Head(calls).down => Head(calls).key \notin DesktopKeys')
    BY <2>1, KeyFacts DEF X11Inv
  <2> QED BY <2>1, <2>2, <2>3, StillExplained DEF X11Inv
<1>2. ASSUME X11Button \/ X11Scroll \/ X11Motion \/ X11NoOp PROVE X11Inv' /\ Works /\ Types
  <2>1. calls # <<>> /\ Head(calls).op # "key" /\ Return /\ UNCHANGED keys_down
    BY <1>2 DEF X11Button, X11Scroll, X11Motion, X11NoOp, InCall, PostNothing
  <2>2. Works /\ calls' = Tail(calls) /\ UNCHANGED <<pressed_keys, reported>>
    BY <2>1, ReturnWorks
  <2> QED BY <2>1, <2>2, SameKeys, StillExplained DEF X11Inv
<1>3. X11Inv' /\ Works /\ Types
  BY <1>1, <1>2 DEF X11EmulationNext
<1> QED BY <1>3, ExplainedEnd DEF X11Inv

------------------------------------------------------------------------------
\* Windows.  The key that repeats is down, so its repetition types nothing new.
WinInv ==
  /\ OnKeyboard /\ Explained
  /\ DesktopKeys \cap WinUnmapped = {}
  /\ repeating \in {None} \cup WinUnmapped \cup DesktopKeys

LEMMA WinStep ==
  ASSUME FrontInv, WinInv, WindowsEmulationNext
  PROVE  WinInv' /\ Works /\ Types /\ Ends
<1>1. ASSUME WinKey PROVE WinInv' /\ Works /\ Types
  <2>1. InCall("key") /\ calls # <<>> /\ Return
    BY <1>1 DEF WinKey, InCall
  <2>2. Works /\ calls' = Tail(calls) /\ UNCHANGED <<pressed_keys, reported>>
    BY <2>1, ReturnWorks
  <2>3. /\ Head(calls) \in Calls /\ Head(calls).op = "key" /\ Head(calls).down \in BOOLEAN
    BY <2>1, HeadFacts, CallFacts DEF InCall
  <2>4. CASE Head(calls).key \in WinUnmapped
    <3>1. UNCHANGED keys_down
      BY <1>1, <2>4 DEF WinKey
    <3>2. repeating' \in {None} \cup WinUnmapped
      BY <1>1, <2>4 DEF WinKey, KillRepeatTask
    <3>3. DesktopKeys' = DesktopKeys /\ Types /\ OnKeyboard' /\ Head(calls).key \notin DesktopKeys'
      BY <2>4, <3>1, SameKeys DEF WinInv
    <3>4. Explained'
      BY <2>1, <2>2, <3>3, StillExplained DEF WinInv
    <3>5. WinUnmapped' = WinUnmapped
      BY DEF WinUnmapped
    <3> QED BY <2>2, <3>2, <3>3, <3>4, <3>5 DEF WinInv
  <2>5. CASE Head(calls).key \notin WinUnmapped
    <3>1. PostKey(None, Head(calls).key, Head(calls).down)
      BY <1>1, <2>5 DEF WinKey
    <3>2. Types /\ OnKeyboard' /\ (~Head(calls).down => Head(calls).key \notin DesktopKeys')
      BY <2>1, <3>1, KeyFacts DEF WinInv
    <3>3. Explained'
      BY <2>1, <2>2, <3>2, StillExplained DEF WinInv
    <3>4. /\ DesktopKeys' \subseteq DesktopKeys \cup {Head(calls).key}
          /\ Head(calls).down => Head(calls).key \in DesktopKeys'
      BY <2>1, <3>1, KeyFacts
    <3>5. repeating' \in {None} \cup DesktopKeys'
      BY <1>1, <2>3, <3>4 DEF WinKey, KillRepeatTask
    <3>6. DesktopKeys' \cap WinUnmapped = {}
      BY <2>5, <3>4 DEF WinInv
    <3> QED BY <2>2, <3>2, <3>3, <3>5, <3>6 DEF WinInv, WinUnmapped
  <2> QED BY <2>4, <2>5
<1>2. ASSUME WinRepeat PROVE WinInv' /\ Works /\ Types
  <2>1. UNCHANGED <<frontVars, dropped, repeating>>
    BY <1>2 DEF WinRepeat, winVars
  <2>2. Works /\ UNCHANGED <<calls, pressed_keys>>
    BY <2>1, IdleWorks
  <2>3. keys_down' = keys_down
    <3>1. CASE repeating \in WinUnmapped
      BY <1>2, <3>1 DEF WinRepeat
    <3>2. CASE repeating \notin WinUnmapped
      <4>1. repeating \in DesktopKeys
        BY <1>2, <3>2 DEF WinRepeat, WinInv
      <4>2. <<None, repeating>> \in keys_down
        BY <4>1 DEF DesktopKeys, OnKeyboard, WinInv
      <4>3. keys_down' = keys_down \cup {<<None, repeating>>}
        BY <1>2, <3>2 DEF WinRepeat, PostKey
      <4> QED BY <4>2, <4>3
    <3> QED BY <3>1, <3>2
  <2>4. Held' = Held /\ Releasing(calls') = Releasing(calls)
    BY <2>2 DEF Held
  <2> QED BY <2>1, <2>2, <2>3, <2>4, SameKeys DEF WinInv, Explained, WinUnmapped
<1>3. ASSUME WinMotion \/ WinButton \/ WinScroll \/ WinNoOp PROVE WinInv' /\ Works /\ Types
  <2>1. calls # <<>> /\ Head(calls).op # "key" /\ Return /\ UNCHANGED <<keys_down, repeating>>
    BY <1>3 DEF WinMotion, WinButton, WinScroll, WinNoOp, InCall, PostNothing, winVars
  <2>2. Works /\ calls' = Tail(calls) /\ UNCHANGED <<pressed_keys, reported>>
    BY <2>1, ReturnWorks
  <2>3. DesktopKeys' = DesktopKeys /\ Types /\ OnKeyboard'
    BY <2>1, SameKeys DEF WinInv
  <2>4. Explained'
    BY <2>1, <2>2, <2>3, StillExplained DEF WinInv
  <2> QED BY <2>1, <2>2, <2>3, <2>4 DEF WinInv, WinUnmapped
<1>4. ASSUME InputDesktopChanges PROVE WinInv' /\ Works /\ Types
  <2>1. UNCHANGED <<frontVars, dropped, keys_down, repeating>>
    BY <1>4 DEF InputDesktopChanges, sinkVars, desktopVars
  <2>2. Works /\ UNCHANGED <<calls, pressed_keys>>
    BY <2>1, IdleWorks
  <2>3. Held' = Held /\ Releasing(calls') = Releasing(calls)
    BY <2>2 DEF Held
  <2> QED BY <2>1, <2>2, <2>3, SameKeys DEF WinInv, Explained, WinUnmapped
<1>5. WinInv' /\ Works /\ Types
  BY <1>1, <1>2, <1>3, <1>4 DEF WindowsEmulationNext, WinConsume
<1> QED BY <1>5, ExplainedEnd DEF WinInv

------------------------------------------------------------------------------
\* The portal lets go of all keys when its session ends.
PortalInv ==
  /\ awaits_closed => ~portal_open /\ InCall("terminate")
  /\ ~portal_open => keys_down = {}

LEMMA PortalStep ==
  ASSUME FrontInv, PortalInv, PortalEmulationNext
  PROVE  PortalInv' /\ Works /\ Types /\ Ends
<1>1. ASSUME PortalKey PROVE PortalInv' /\ Works /\ Types /\ Ends
  <2>1. /\ InCall("key") /\ calls # <<>> /\ Head(calls).op = "key" /\ Return
        /\ PostKey(None, Head(calls).key, Head(calls).down)
        /\ portal_open /\ UNCHANGED <<portal_open, awaits_closed>>
    BY <1>1 DEF PortalKey, InCall, portalVars
  <2>2. ~awaits_closed
    BY <2>1 DEF PortalInv
  <2> QED BY <2>1, <2>2, ReturnWorks, KeyFacts DEF PortalInv, Ends, InCall
<1>2. ASSUME PortalPointer \/ PortalIgnores
      PROVE  PortalInv' /\ Works /\ Types /\ Ends
  <2>1. /\ calls # <<>> /\ Head(calls).op # "terminate" /\ Return
        /\ UNCHANGED <<keys_down, portal_open, awaits_closed>>
    BY <1>2 DEF PortalPointer, PortalIgnores, InCall, portalVars, PostNothing
  <2>2. ~awaits_closed
    BY <2>1 DEF PortalInv, InCall
  <2> QED BY <2>1, <2>2, ReturnWorks, SameKeys DEF PortalInv, Ends, InCall
<1>3. ASSUME PortalFails PROVE PortalInv' /\ Works /\ Types /\ Ends
  <2>1. /\ calls # <<>> /\ Head(calls).op \in EventOps /\ Head(calls).op # "terminate" /\ Fail
        /\ UNCHANGED <<keys_down, portal_open, awaits_closed>>
    BY <1>3 DEF PortalFails, InCall, portalVars, EventOps, PointerOps, PostNothing
  <2>2. ~awaits_closed
    BY <2>1 DEF PortalInv, InCall
  <2> QED BY <2>1, <2>2, FailWorks, SameKeys DEF PortalInv, Ends, InCall
<1>4. ASSUME PortalClose \/ PortalRevoked PROVE PortalInv' /\ Works /\ Types /\ Ends
  <2>1. /\ UNCHANGED <<frontVars, dropped>> /\ keys_down' = {} /\ portal_open' = FALSE
        /\ awaits_closed' = awaits_closed \/ InCall("terminate")
    BY <1>4 DEF PortalClose, PortalRevoked
  <2>2. Works /\ calls' = calls
    BY <2>1, IdleWorks
  <2> QED BY <2>1, <2>2, NoKeys DEF PortalInv, InCall
<1>5. ASSUME PortalClosed PROVE PortalInv' /\ Works /\ Types /\ Ends
  <2>1. /\ InCall("terminate") /\ keys_down = {} /\ calls # <<>>
        /\ awaits_closed' = FALSE /\ Return /\ UNCHANGED <<keys_down, portal_open>>
    BY <1>5 DEF PortalClosed, PortalInv, InCall, PostNothing
  <2> QED BY <2>1, ReturnWorks, NoKeys DEF PortalInv
<1> QED BY <1>1, <1>2, <1>3, <1>4, <1>5 DEF PortalEmulationNext, PortalConsume

------------------------------------------------------------------------------
\* libei: the server lets go of the keys of a device that is paused or removed.
LEMMA LibeiStep ==
  ASSUME FrontInv, LibeiEmulationNext
  PROVE  Works /\ Types /\ Ends
<1>1. ASSUME ServerAdds \/ ServerResumes \/ EiTask PROVE Works /\ Types /\ Ends
  <2>1. UNCHANGED <<frontVars, dropped, keys_down>>
    BY <1>1 DEF ServerAdds, ServerResumes, EiTell, EiTask, sinkVars, desktopVars
  <2> QED BY <2>1, IdleWorks, SameKeys DEF Ends
<1>2. ASSUME ServerPauses \/ ServerRemoves \/ ServerDisconnects PROVE Works /\ Types /\ Ends
  <2>1. UNCHANGED <<frontVars, dropped>> /\ keys_down' \subseteq keys_down
    BY <1>2 DEF ServerPauses, ServerRemoves, ServerDisconnects, EiTell, LetGo
  <2>2. Types
    BY <2>1 DEF Types, DesktopKeys
  <2>3. calls' = calls
    BY <2>1 DEF frontVars
  <2> QED BY <2>1, <2>2, <2>3, IdleWorks DEF Ends
<1>3. ASSUME EiTakeError \/ EiFlushFails PROVE Works /\ Types /\ Ends
  <2>1. /\ calls # <<>> /\ Head(calls).op \in EventOps /\ Head(calls).op # "terminate" /\ Fail
        /\ UNCHANGED keys_down
    BY <1>3 DEF EiTakeError, EiFlushFails, EiInput, InCall, EventOps, PointerOps, PostNothing
  <2> QED BY <2>1, FailWorks, SameKeys DEF Ends, InCall
<1>4. ASSUME EiConsume PROVE Works /\ Types /\ Ends
  <2>1. calls # <<>> /\ Head(calls).op # "terminate" /\ Return
    BY <1>4 DEF EiConsume, EiInput, InCall, PointerOps
  <2>2. Types
    <3>1. CASE InCall("key") /\ EiCounts
      <4>1. InCall("key") /\ PostKey(ei_device, Head(calls).key, Head(calls).down)
        BY <1>4, <2>1, <3>1 DEF EiConsume, InCall
      <4> QED BY <4>1, KeyFacts
    <3>2. CASE ~(InCall("key") /\ EiCounts)
      <4>1. UNCHANGED keys_down
        BY <1>4, <3>2 DEF EiConsume
      <4> QED BY <4>1, SameKeys
    <3> QED BY <3>1, <3>2
  <2> QED BY <2>1, <2>2, ReturnWorks DEF Ends, InCall
<1>5. ASSUME EiNoOp PROVE Works /\ Types /\ Ends
  <2>1. calls # <<>> /\ Head(calls).op # "terminate" /\ Return /\ UNCHANGED keys_down
    BY <1>5 DEF EiNoOp, InCall, PostNothing
  <2> QED BY <2>1, ReturnWorks, SameKeys DEF Ends, InCall
<1>6. ASSUME EiTerminate PROVE Works /\ Types /\ Ends
  <2>1. calls # <<>> /\ Return /\ keys_down' = {}
    BY <1>6 DEF EiTerminate, InCall
  <2> QED BY <2>1, ReturnWorks, NoKeys
<1> QED BY <1>1, <1>2, <1>3, <1>4, <1>5, <1>6 DEF LibeiEmulationNext, EiServer, EiSinkConsume

------------------------------------------------------------------------------
\* The virtual keyboard lets go of its keys when it is released.
LEMMA PointerStep ==
  ASSUME FrontInv, Motion \/ Button \/ Axis \/ Scroll
  PROVE  /\ calls # <<>> /\ Head(calls).op \in PointerOps /\ Return
         /\ UNCHANGED keys_down
BY DEF Motion, Button, Axis, Scroll, InCall, PointerOps

LEMMA VhidStep ==
  ASSUME FrontInv, VhidEmulationNext
  PROVE  Works /\ Types /\ Ends
<1>1. ASSUME VhidKey PROVE Works /\ Types /\ Ends
  <2>1. InCall("key") /\ calls # <<>> /\ Head(calls).op = "key" /\ Return
    BY <1>1 DEF VhidKey, InCall
  <2>2. PostKey(None, Head(calls).key, Head(calls).down) \/ UNCHANGED keys_down
    BY <1>1 DEF VhidKey, SendKey
  <2> QED BY <2>1, <2>2, ReturnWorks, KeyFacts, SameKeys DEF Ends, InCall
<1>2. ASSUME VhidSpecialKey PROVE Works /\ Types /\ Ends
  <2>1. calls # <<>> /\ Head(calls).op = "key" /\ Return
    BY <1>2 DEF VhidSpecialKey, InCall
  <2>2. keys_down' \subseteq keys_down
    BY <1>2 DEF VhidSpecialKey
  <2>3. Types
    BY <2>2 DEF Types, DesktopKeys
  <2> QED BY <2>1, <2>3, ReturnWorks DEF Ends, InCall
<1>3. ASSUME VhidMotion \/ VhidButton \/ VhidScroll \/ VhidNoOp PROVE Works /\ Types /\ Ends
  <2>1. calls # <<>> /\ Head(calls).op # "terminate" /\ Return /\ UNCHANGED keys_down
    BY <1>3, PointerStep DEF VhidMotion, VhidButton, VhidScroll, VhidNoOp, InCall, PostNothing, PointerOps
  <2> QED BY <2>1, ReturnWorks, SameKeys DEF Ends, InCall
<1>4. ASSUME VhidTerminate PROVE Works /\ Types /\ Ends
  <2>1. calls # <<>> /\ Return /\ keys_down' = {}
    BY <1>4 DEF VhidTerminate, InCall
  <2> QED BY <2>1, ReturnWorks, NoKeys
<1>5. ASSUME SinkChanges PROVE Works /\ Types /\ Ends
  <2>1. UNCHANGED <<frontVars, dropped>> /\ keys_down' = {}
    BY <1>5 DEF SinkChanges
  <2> QED BY <2>1, IdleWorks, NoKeys
<1> QED BY <1>1, <1>2, <1>3, <1>4, <1>5 DEF VhidEmulationNext, VhidConsume

------------------------------------------------------------------------------
\* wlroots: keys and modifiers are those of the keyboards there are, one for each
\* handle that has been created and not destroyed.
WlrKeys ==
  /\ DOMAIN input_for_client \subseteq em_handles \cup Leaving(calls)
  /\ \A kk \in keys_down : kk[1] \in DOMAIN input_for_client

WlrMasks ==
  /\ input_for_client \in [DOMAIN input_for_client -> SUBSET Masks]
  /\ told \in [DOMAIN input_for_client -> [depressed : SUBSET Masks, locked : SUBSET Masks]]
  /\ ~dropped =>
       \A h \in DOMAIN input_for_client :
         \A m \in told[h].depressed \cup MaskPressed(input_for_client[h]) : Explains(h, m)

WlrInv == WlrKeys /\ WlrMasks

LEMMA LeavingHandles ==
  ASSUME FrontInv
  PROVE  Leaving(calls) \subseteq EmHandles
<1>1. \A i \in 1 .. Len(calls) : calls[i] \in Calls
  BY DEF FrontInv, FrontTypeOK
<1> QED BY <1>1, CallFacts DEF Leaving

\* A release that fails still destroys the handle.
LEMMA FailKeepsLeaving ==
  ASSUME FrontInv, calls # <<>>, Head(calls).op \in EventOps,
         calls' = IF Head(calls).release THEN <<Last(calls)>> ELSE <<>>
  PROVE  Leaving(calls) \subseteq Leaving(calls')
<1>1. /\ calls \in Seq(Calls) /\ Head(calls) = calls[1] /\ Len(calls) \in Nat \ {0}
      /\ 1 \in 1 .. Len(calls) /\ Len(calls) \in 1 .. Len(calls)
  BY HeadFacts
<1>2. \A i \in 1 .. Len(calls) : calls[i].op = "destroy" => i = Len(calls)
  BY DEF FrontInv, Ordered, Release
<1>3. CASE Head(calls).release
  <2>1. calls' = <<Last(calls)>> /\ Last(calls) = calls[Len(calls)]
    BY <1>3 DEF Last
  <2>2. Len(calls') = 1 /\ calls'[1] = calls[Len(calls)]
    BY <2>1
  <2>3. 1 \in 1 .. Len(calls')
    BY <2>2
  <2>4. \A h \in Leaving(calls) : calls'[1].op = "destroy" /\ calls'[1].handle = h
    BY <1>2, <2>2 DEF Leaving
  <2> QED BY <2>3, <2>4 DEF Leaving
<1>4. CASE ~Head(calls).release
  <2>1. \A i \in 1 .. Len(calls) : calls[i] = Head(calls)
    BY <1>4, AtEnd DEF EventOps
  <2>2. Leaving(calls) = {}
    BY <2>1 DEF Leaving, EventOps
  <2> QED BY <2>2
<1> QED BY <1>3, <1>4

\* A flush: the call returns or fails.
LEMMA FlushWorks ==
  ASSUME FrontInv, calls # <<>>, Head(calls).op \in EventOps, Flush
  PROVE  /\ Works /\ UNCHANGED <<pressed_keys, reported, em_handles>>
         /\ Leaving(calls) \subseteq Leaving(calls')
         /\ ~dropped' => ~dropped
         /\ ~dropped' => \A h \in EmHandles, m \in Masks :
              Explains(h, m) =>
                \/ Explains(h, m)'
                \/ Head(calls).handle = h /\ m \in Clears(Head(calls))
<1>1. CASE Return
  <2>1. Works /\ calls' = Tail(calls) /\ UNCHANGED <<pressed_keys, reported, dropped, em_handles>>
    BY <1>1, ReturnWorks DEF Return
  <2>2. Leaving(calls) \subseteq Leaving(calls')
    BY <2>1, TailAccounts DEF EventOps
  <2> QED BY <2>1, <2>2, TailAccounts
<1>2. CASE Fail
  <2>1. /\ Works /\ UNCHANGED <<pressed_keys, reported, em_handles>>
        /\ calls' = IF Head(calls).release THEN <<Last(calls)>> ELSE <<>>
        /\ dropped' = (dropped \/ \E i \in DOMAIN calls : Release(calls[i]))
    BY <1>2, FailWorks DEF Fail
  <2>2. Leaving(calls) \subseteq Leaving(calls')
    BY <2>1, FailKeepsLeaving
  <2>3. ~dropped' => ~dropped
    BY <2>1
  <2>4. ASSUME ~dropped', NEW h \in EmHandles, NEW m \in Masks, Explains(h, m) PROVE Explains(h, m)'
    <3>1. /\ 1 \in DOMAIN calls /\ Head(calls) = calls[1] /\ DOMAIN calls = 1 .. Len(calls)
          /\ 1 \in 1 .. Len(calls)
      BY HeadFacts
    <3>2. ~Release(Head(calls))
      BY <2>1, <2>4, <3>1
    <3>3. ~Head(calls).release
      BY <3>1, <3>2 DEF FrontInv, Ordered
    <3>4. \A i \in 1 .. Len(calls) : calls[i] = Head(calls)
      BY <3>3, AtEnd DEF EventOps
    <3>5. Head(calls) \in Calls
      BY HeadFacts
    <3>6. Clears(Head(calls)) = {}
      BY <3>2, <3>5, CallFacts DEF Release, Clears
    <3> QED BY <2>1, <2>4, <3>4, <3>6 DEF Explains
  <2> QED BY <2>1, <2>2, <2>3, <2>4
<1> QED BY <1>1, <1>2 DEF Flush

\* What the calls explained before, they explain still, but for what the head clears.
Explaining ==
  ~dropped' =>
    /\ ~dropped
    /\ \A h \in EmHandles, m \in Masks :
         Explains(h, m) =>
           \/ Explains(h, m)'
           \/ Head(calls).handle = h /\ m \in Clears(Head(calls))

LEMMA WlrHandles ==
  ASSUME FrontInv, WlrInv
  PROVE  /\ DOMAIN input_for_client \subseteq EmHandles
         /\ \A h \in DOMAIN input_for_client :
              told[h].depressed \cup MaskPressed(input_for_client[h]) \subseteq Masks
<1>1. DOMAIN input_for_client \subseteq EmHandles
  BY LeavingHandles DEF WlrInv, WlrKeys, FrontInv, FrontTypeOK
<1>2. \A h \in DOMAIN input_for_client :
        told[h].depressed \subseteq Masks /\ input_for_client[h] \subseteq Masks
  BY DEF WlrInv, WlrMasks
<1> QED BY <1>1, <1>2 DEF MaskPressed

LEMMA WlrKept ==
  ASSUME FrontInv, WlrInv, UNCHANGED <<told, input_for_client, keys_down, em_handles>>,
         Leaving(calls) \subseteq Leaving(calls'), Explaining, Clears(Head(calls)) = {}
  PROVE  WlrInv' /\ Types
<1>1. WlrKeys'
  BY DEF WlrInv, WlrKeys
<1>2. WlrMasks'
  BY WlrHandles DEF WlrInv, WlrMasks, Explaining, MaskPressed
<1> QED BY <1>1, <1>2, SameKeys DEF WlrInv

LEMMA WlrKeyStep ==
  ASSUME FrontInv, WlrInv, WlrKey
  PROVE  WlrInv' /\ Works /\ Types /\ Ends
<1>1. PICK c \in Calls : c = Head(calls) /\ c.op = "key" /\ Meant(c) /\ c.down \in BOOLEAN
  BY HeadFacts, CallFacts DEF WlrKey, InCall
<1> DEFINE h == c.handle
           ms == UpdateByKeyEvent(input_for_client[h], c.key, c.down)
<1>2. /\ calls # <<>> /\ InCall("key") /\ h \in DOMAIN input_for_client /\ Flush
      /\ PostKey(h, c.key, c.down)
      /\ input_for_client' = [input_for_client EXCEPT ![h] = ms]
      /\ told' = IF MaskOf(c.key) = {} THEN told
                 ELSE [told EXCEPT ![h] = [depressed |-> MaskPressed(ms), locked |-> MaskLocks(ms)]]
  BY <1>1 DEF WlrKey, InCall, Goes
<1>3. /\ Works /\ UNCHANGED <<pressed_keys, reported, em_handles>>
      /\ Leaving(calls) \subseteq Leaving(calls') /\ Explaining
  BY <1>1, <1>2, FlushWorks DEF EventOps, Explaining
<1>4. Types
  BY <1>1, <1>2, KeyFacts
<1>5. /\ input_for_client[h] \in SUBSET Masks /\ told[h] \in [depressed : SUBSET Masks, locked : SUBSET Masks]
      /\ h \in EmHandles
  BY <1>2, WlrHandles DEF WlrInv, WlrMasks
<1>6. /\ ms \in SUBSET Masks
      /\ c.down => MaskPressed(ms) \subseteq MaskPressed(input_for_client[h]) \cup MaskOf(c.key)
      /\ ~c.down => MaskPressed(ms) \subseteq MaskPressed(input_for_client[h]) \ MaskOf(c.key)
  <2>1. CASE c.down
    <3>1. ms = input_for_client[h] \cup PressedMask(c.key)
      BY <2>1 DEF UpdateByKeyEvent
    <3> HIDE DEF ms
    <3> QED BY <1>5, <2>1, <3>1, MaskFacts DEF MaskPressed, PressedMask, PressedMasks
  <2>2. CASE ~c.down
    <3>1. ms = ((input_for_client[h] \ PressedMask(c.key)) \ LockedMask(c.key))
                  \cup (LockedMask(c.key) \ input_for_client[h])
      BY <2>2 DEF UpdateByKeyEvent
    <3> HIDE DEF ms
    <3> QED BY <1>5, <2>2, <3>1, MaskFacts DEF MaskPressed, PressedMask, LockedMask, PressedMasks
  <2> QED BY <1>1, <2>1, <2>2
<1> HIDE DEF ms
<1>7. DOMAIN input_for_client' = DOMAIN input_for_client
  BY <1>2
<1>8. WlrKeys'
  <2>1. \A kk \in keys_down' : kk \in keys_down \/ kk[1] = h
    <3>1. <<h, c.key>>[1] = h
      OBVIOUS
    <3> QED BY <1>2, <3>1 DEF PostKey
  <2> QED BY <1>2, <1>3, <1>7, <2>1 DEF WlrInv, WlrKeys
<1>9. MaskPressed(ms) \subseteq Masks /\ MaskLocks(ms) \subseteq Masks
  BY <1>6 DEF MaskPressed, MaskLocks
<1>10. /\ input_for_client' \in [DOMAIN input_for_client' -> SUBSET Masks]
       /\ told' \in [DOMAIN input_for_client' -> [depressed : SUBSET Masks, locked : SUBSET Masks]]
  BY <1>2, <1>6, <1>7, <1>9 DEF WlrInv, WlrMasks
<1>11. ASSUME ~dropped', NEW m \in Masks, Explains(h, m), c.down \/ m \notin MaskOf(c.key)
       PROVE  Explains(h, m)'
  BY <1>1, <1>3, <1>5, <1>11 DEF Explaining, Clears
<1>12. ASSUME ~dropped', NEW m \in MaskPressed(ms) PROVE Explains(h, m)'
  <2>1. CASE m \in MaskPressed(input_for_client[h]) /\ (c.down \/ m \notin MaskOf(c.key))
    <3>1. ~dropped
      BY <1>3, <1>12 DEF Explaining
    <3>2. Explains(h, m)
      BY <1>2, <2>1, <3>1 DEF WlrInv, WlrMasks
    <3> QED BY <1>9, <1>11, <1>12, <2>1, <3>2
  <2>2. CASE c.down /\ m \in MaskOf(c.key)
    <3>1. c.key \in pressed_keys[h]
      BY <1>1, <2>2 DEF Meant
    <3> QED BY <1>3, <2>2, <3>1 DEF Explains, MasksOf
  <2> QED BY <1>6, <1>12, <2>1, <2>2
<1>13. ASSUME ~dropped', NEW m \in told'[h].depressed PROVE Explains(h, m)'
  <2>1. CASE MaskOf(c.key) = {}
    <3>1. ~dropped /\ told' = told
      BY <1>2, <1>3, <1>13, <2>1 DEF Explaining
    <3>2. Explains(h, m) /\ m \in Masks
      BY <1>2, <1>5, <1>13, <3>1 DEF WlrInv, WlrMasks
    <3> QED BY <1>11, <1>13, <2>1, <3>2
  <2>2. CASE MaskOf(c.key) # {}
    <3>1. told'[h].depressed = MaskPressed(ms)
      BY <1>2, <2>2 DEF WlrInv, WlrMasks
    <3> QED BY <1>12, <1>13, <3>1
  <2> QED BY <2>1, <2>2
<1>14. ASSUME ~dropped', NEW g \in DOMAIN input_for_client \ {h},
              NEW m \in told'[g].depressed \cup MaskPressed(input_for_client'[g])
       PROVE  Explains(g, m)'
  <2>1. told'[g] = told[g] /\ input_for_client'[g] = input_for_client[g]
    BY <1>2, <1>14 DEF WlrInv, WlrMasks
  <2>2. ~dropped
    BY <1>3, <1>14 DEF Explaining
  <2>3. m \in told[g].depressed \cup MaskPressed(input_for_client[g])
    BY <1>14, <2>1
  <2>4. Explains(g, m) /\ m \in Masks /\ g \in EmHandles
    BY <1>14, <2>2, <2>3, WlrHandles DEF WlrInv, WlrMasks
  <2>5. Head(calls).handle # g
    BY <1>1, <1>14
  <2> QED BY <1>3, <1>14, <2>4, <2>5 DEF Explaining
<1>15. input_for_client'[h] = ms
  BY <1>2 DEF WlrInv, WlrMasks
<1>16. ~dropped' =>
         \A g \in DOMAIN input_for_client' :
           \A m \in told'[g].depressed \cup MaskPressed(input_for_client'[g]) : Explains(g, m)'
  <2> SUFFICES ASSUME ~dropped', NEW g \in DOMAIN input_for_client,
                      NEW m \in told'[g].depressed \cup MaskPressed(input_for_client'[g])
               PROVE  Explains(g, m)'
    BY <1>7
  <2>1. CASE g = h
    <3>1. m \in told'[h].depressed \/ m \in MaskPressed(ms)
      BY <1>15, <2>1
    <3> QED BY <1>12, <1>13, <2>1, <3>1
  <2>2. CASE g # h
    BY <1>14, <2>2
  <2> QED BY <2>1, <2>2
<1>17. WlrMasks'
  BY <1>10, <1>16 DEF WlrMasks, MaskPressed
<1>18. Ends
  BY <1>1 DEF Ends, InCall
<1> QED BY <1>3, <1>4, <1>8, <1>17, <1>18 DEF WlrInv

LEMMA WlrModifiersStep ==
  ASSUME FrontInv, WlrInv, WlrModifiers
  PROVE  WlrInv' /\ Works /\ Types /\ Ends
<1>1. PICK c \in Calls : c = Head(calls) /\ c.op = "modifiers" /\ Meant(c) /\ c.depressed \subseteq Masks
  BY HeadFacts, CallFacts DEF WlrModifiers, InCall
<1> DEFINE h == c.handle
<1>2. /\ calls # <<>> /\ h \in DOMAIN input_for_client /\ Flush /\ UNCHANGED keys_down
      /\ input_for_client' = [input_for_client EXCEPT ![h] = c.depressed]
      /\ told' = [told EXCEPT ![h] = [depressed |-> c.depressed, locked |-> {}]]
  BY <1>1 DEF WlrModifiers, InCall, Goes, PostNothing
<1>3. /\ Works /\ UNCHANGED <<pressed_keys, reported, em_handles>>
      /\ Leaving(calls) \subseteq Leaving(calls') /\ Explaining
  BY <1>1, <1>2, FlushWorks DEF EventOps, Explaining
<1>4. DOMAIN input_for_client' = DOMAIN input_for_client
  BY <1>2
<1>5. WlrKeys'
  BY <1>2, <1>3, <1>4 DEF WlrInv, WlrKeys
<1>6. /\ input_for_client' \in [DOMAIN input_for_client' -> SUBSET Masks]
      /\ told' \in [DOMAIN input_for_client' -> [depressed : SUBSET Masks, locked : SUBSET Masks]]
  BY <1>1, <1>2, <1>4 DEF WlrInv, WlrMasks
<1>7. told'[h].depressed = c.depressed /\ input_for_client'[h] = c.depressed
  BY <1>2 DEF WlrInv, WlrMasks
<1>8. c.depressed \subseteq reported'[h]
  BY <1>1, <1>3 DEF Meant
<1>9. ASSUME ~dropped', NEW g \in DOMAIN input_for_client,
             NEW m \in told'[g].depressed \cup MaskPressed(input_for_client'[g])
      PROVE  Explains(g, m)'
  <2>1. CASE g = h
    BY <1>7, <1>8, <1>9, <2>1 DEF Explains, MaskPressed
  <2>2. CASE g # h
    <3>1. told'[g] = told[g] /\ input_for_client'[g] = input_for_client[g]
      BY <1>2, <1>9, <2>2 DEF WlrInv, WlrMasks
    <3>2. ~dropped
      BY <1>3, <1>9 DEF Explaining
    <3>3. m \in told[g].depressed \cup MaskPressed(input_for_client[g])
      BY <1>9, <3>1
    <3>4. Explains(g, m) /\ m \in Masks /\ g \in EmHandles
      BY <1>9, <3>2, <3>3, WlrHandles DEF WlrInv, WlrMasks
    <3> QED BY <1>1, <1>3, <1>9, <2>2, <3>4 DEF Explaining
  <2> QED BY <2>1, <2>2
<1>10. WlrMasks'
  BY <1>4, <1>6, <1>9 DEF WlrMasks, MaskPressed
<1>11. Ends
  BY <1>1 DEF Ends, InCall
<1> QED BY <1>2, <1>3, <1>5, <1>10, <1>11, SameKeys DEF WlrInv

LEMMA WlrStep ==
  ASSUME FrontInv, WlrInv, WlrootsEmulationNext
  PROVE  WlrInv' /\ Works /\ Types /\ Ends
<1>1. ASSUME WlrPointer PROVE WlrInv' /\ Works /\ Types /\ Ends
  <2>1. /\ calls # <<>> /\ Head(calls).op \in PointerOps /\ Flush
        /\ UNCHANGED <<keys_down, input_for_client, told>>
    BY <1>1 DEF WlrPointer, InCall, PointerOps
  <2>2. /\ Works /\ UNCHANGED <<pressed_keys, reported, em_handles>>
        /\ Leaving(calls) \subseteq Leaving(calls') /\ Explaining
    BY <2>1, FlushWorks DEF EventOps, PointerOps, Explaining
  <2>3. Clears(Head(calls)) = {}
    BY <2>1 DEF Clears, PointerOps
  <2> QED BY <2>1, <2>2, <2>3, WlrKept DEF Ends, InCall, PointerOps
<1>2. ASSUME Discard PROVE WlrInv' /\ Works /\ Types /\ Ends
  <2>1. /\ calls # <<>> /\ Head(calls).op \in EventOps /\ calls' = Tail(calls)
        /\ dropped' = (dropped \/ Release(Head(calls)))
        /\ UNCHANGED <<em_handles, pressed_keys, mouse_config, session, reported, keys_down,
                       input_for_client, told>>
    BY <1>2 DEF Discard, InCall, EventOps, PointerOps, wlrVars
  <2>2. Works
    BY <2>1 DEF Works, EventOps
  <2>3. Head(calls) \in Calls
    BY <2>1, HeadFacts
  <2>4. ~dropped' => ~dropped /\ Clears(Head(calls)) = {}
    BY <2>1, <2>3, CallFacts DEF Release, Clears
  <2>5. Leaving(calls) \subseteq Leaving(calls')
    BY <2>1, TailAccounts DEF EventOps
  <2>6. WlrKeys' /\ Types
    BY <2>1, <2>5, SameKeys DEF WlrInv, WlrKeys
  <2>7. WlrMasks'
    <3>1. ASSUME ~dropped', NEW h \in DOMAIN input_for_client,
                 NEW m \in told[h].depressed \cup MaskPressed(input_for_client[h])
          PROVE  Explains(h, m)'
      <4>1. ~dropped /\ Clears(Head(calls)) = {}
        BY <2>4, <3>1
      <4>2. Explains(h, m) /\ m \in Masks /\ h \in EmHandles
        BY <3>1, <4>1, WlrHandles DEF WlrInv, WlrMasks
      <4> QED BY <2>1, <4>1, <4>2, TailAccounts
    <3> QED BY <2>1, <3>1 DEF WlrInv, WlrMasks, MaskPressed
  <2> QED BY <2>1, <2>2, <2>6, <2>7 DEF WlrInv, Ends, InCall, EventOps
<1>3. ASSUME WlrCreate PROVE WlrInv' /\ Works /\ Types /\ Ends
  <2>1. PICK h : h = Head(calls).handle
    OBVIOUS
  <2>2. /\ calls # <<>> /\ Head(calls).op = "create" /\ Return /\ UNCHANGED keys_down
    BY <1>3 DEF WlrCreate, InCall, PostNothing
  <2> DEFINE with == DOMAIN input_for_client \cup {h}
  <2>3. /\ input_for_client' = [x \in with |-> IF x = h THEN {} ELSE input_for_client[x]]
        /\ told' = [x \in with |-> IF x = h THEN [depressed |-> {}, locked |-> {}] ELSE told[x]]
    BY <1>3, <2>1 DEF WlrCreate
  <2>4. Works /\ calls' = Tail(calls) /\ UNCHANGED <<pressed_keys, reported, dropped, em_handles>>
    BY <2>2, ReturnWorks DEF Return
  <2>5. h \in em_handles
    BY <2>1, <2>2, HeadFacts DEF Meant
  <2>6. DOMAIN input_for_client' = with
    BY <2>3
  <2>7. WlrKeys' /\ Types
    <3>1. Leaving(calls) \subseteq Leaving(calls')
      BY <2>2, <2>4, TailAccounts
    <3> QED BY <2>2, <2>4, <2>5, <2>6, <3>1, SameKeys DEF WlrInv, WlrKeys
  <2>8. /\ input_for_client' \in [with -> SUBSET Masks]
        /\ told' \in [with -> [depressed : SUBSET Masks, locked : SUBSET Masks]]
    BY <2>3 DEF WlrInv, WlrMasks
  <2>9. ASSUME ~dropped', NEW g \in with,
               NEW m \in told'[g].depressed \cup MaskPressed(input_for_client'[g])
        PROVE  Explains(g, m)'
    <3>1. g # h
      <4>1. g = h => told'[g].depressed = {} /\ input_for_client'[g] = {}
        BY <2>3
      <4> QED BY <2>9, <4>1 DEF MaskPressed
    <3>2. /\ told'[g] = told[g] /\ input_for_client'[g] = input_for_client[g]
          /\ g \in DOMAIN input_for_client /\ ~dropped
      BY <2>3, <2>4, <2>9, <3>1
    <3>3. m \in told[g].depressed \cup MaskPressed(input_for_client[g])
      BY <2>9, <3>2
    <3>4. Explains(g, m) /\ m \in Masks /\ g \in EmHandles
      BY <3>2, <3>3, WlrHandles DEF WlrInv, WlrMasks
    <3>5. Clears(Head(calls)) = {}
      BY <2>2 DEF Clears
    <3> QED BY <2>2, <2>4, <3>4, <3>5, TailAccounts
  <2>10. WlrMasks'
    BY <2>6, <2>8, <2>9 DEF WlrMasks, MaskPressed
  <2> QED BY <2>2, <2>4, <2>7, <2>10 DEF WlrInv, Ends, InCall
<1>4. ASSUME WlrDestroy PROVE WlrInv' /\ Works /\ Types /\ Ends
  <2>1. PICK h : h = Head(calls).handle
    OBVIOUS
  <2>2. calls # <<>> /\ Head(calls).op = "destroy" /\ Return
    BY <1>4 DEF WlrDestroy, InCall
  <2> DEFINE rest == DOMAIN input_for_client \ {h}
  <2>3. /\ input_for_client' = [x \in rest |-> input_for_client[x]]
        /\ told' = [x \in rest |-> told[x]]
        /\ keys_down' = {kk \in keys_down : kk[1] # h}
    BY <1>4, <2>1 DEF WlrDestroy, Restrict
  <2>4. Works /\ calls' = Tail(calls) /\ UNCHANGED <<pressed_keys, reported, dropped, em_handles>>
    BY <2>2, ReturnWorks DEF Return
  <2>5. DOMAIN input_for_client' = rest
    BY <2>3
  <2>6. WlrKeys' /\ Types
    <3>1. \A g \in Leaving(calls) : g \in Leaving(calls') \/ g = h
      BY <2>1, <2>2, <2>4, TailAccounts
    <3>2. Types
      BY <2>3 DEF Types, DesktopKeys
    <3> QED BY <2>3, <2>4, <2>5, <3>1, <3>2 DEF WlrInv, WlrKeys
  <2>7. /\ input_for_client' \in [rest -> SUBSET Masks]
        /\ told' \in [rest -> [depressed : SUBSET Masks, locked : SUBSET Masks]]
    BY <2>3 DEF WlrInv, WlrMasks
  <2>8. ASSUME ~dropped', NEW g \in rest,
               NEW m \in told'[g].depressed \cup MaskPressed(input_for_client'[g])
        PROVE  Explains(g, m)'
    <3>1. told'[g] = told[g] /\ input_for_client'[g] = input_for_client[g] /\ ~dropped
      BY <2>3, <2>4, <2>8
    <3>2. m \in told[g].depressed \cup MaskPressed(input_for_client[g])
      BY <2>8, <3>1
    <3>3. Explains(g, m) /\ m \in Masks /\ g \in EmHandles
      BY <3>1, <3>2, WlrHandles DEF WlrInv, WlrMasks
    <3>4. Clears(Head(calls)) = {}
      BY <2>2 DEF Clears
    <3> QED BY <2>2, <2>4, <3>3, <3>4, TailAccounts
  <2>9. WlrMasks'
    BY <2>5, <2>7, <2>8 DEF WlrMasks, MaskPressed
  <2> QED BY <2>2, <2>4, <2>6, <2>9 DEF WlrInv, Ends, InCall
<1>5. ASSUME WlrTerminate PROVE WlrInv' /\ Works /\ Types /\ Ends
  <2>1. /\ InCall("terminate") /\ calls # <<>> /\ Return
        /\ UNCHANGED <<keys_down, input_for_client, told>>
    BY <1>5 DEF WlrTerminate, InCall, PostNothing, wlrVars
  <2>2. DOMAIN input_for_client = {} /\ keys_down = {}
    BY <2>1, AtTermination DEF WlrInv, WlrKeys
  <2>3. Works
    BY <2>1, ReturnWorks
  <2>4. WlrKeys'
    BY <2>1, <2>2 DEF WlrKeys
  <2>5. WlrMasks'
    BY <2>1, <2>2 DEF WlrInv, WlrMasks
  <2> QED BY <2>1, <2>2, <2>3, <2>4, <2>5, NoKeys DEF WlrInv
<1> QED BY <1>1, <1>2, <1>3, <1>4, <1>5, WlrKeyStep, WlrModifiersStep DEF WlrootsEmulationNext

------------------------------------------------------------------------------
\* macOS.  The key that the repeat task has down is the only one but for media keys,
\* and nobody but the task lets go of it.
Mapped == {29, 30, 42, 43, 54, 56, 58, 97, 100, 125, 126}

\* The mapped keys are other than the media keys, and are all that are modifiers.
LEMMA MacKeyFacts ==
  /\ DOMAIN MacKeys = Mapped
  /\ Mapped \cap SpecialKeys = {} /\ MediaKeys \subseteq SpecialKeys
  /\ None \notin Mapped \cup MediaKeys
  /\ \A k : k \notin Mapped => MaskOf(k) = {}
  /\ UNCHANGED <<NoTask, Mapped, MediaKeys>>
<1>1. DOMAIN MacKeys = Mapped
  BY DEF MacKeys, Mapped
<1>2. Mapped \cap SpecialKeys = {} /\ MediaKeys \subseteq SpecialKeys
  BY DEF Mapped, SpecialKeys, MediaKeys
<1>3. None \notin Mapped \cup MediaKeys
  BY SinkAssumption DEF Mapped, MediaKeys
<1>4. \A k : k \notin Mapped => MaskOf(k) = {}
  BY DEF Mapped, MaskOf
<1>5. UNCHANGED <<NoTask, Mapped, MediaKeys>>
  BY DEF NoTask, Mapped, MediaKeys
<1> QED BY <1>1, <1>2, <1>3, <1>4, <1>5

MacRepeats ==
  /\ repeat_task # NoTask =>
       repeat_task \in [key : Mapped, state : {"new", "waiting", "notified", "deaf", "done"}]
  /\ IF cancelling
     THEN /\ InCall("key") /\ Head(calls).key \in Mapped
          /\ repeat_task # NoTask /\ repeat_task.state \in {"notified", "deaf", "done"}
     ELSE repeat_task = NoTask \/ repeat_task.state \in {"new", "waiting"}

MacTyped ==
  /\ OnKeyboard /\ Explained
  /\ repeat_task.state # "done" => repeat_task.key \in DesktopKeys
  /\ \A k \in DesktopKeys :
       k \in MediaKeys \/ (k = repeat_task.key /\ repeat_task.state # "done")

MacModifiers ==
  /\ modifier_state \subseteq Masks
  /\ \A m \in modifier_state : \E h \in EmHandles : Explains(h, m)
  /\ cancelling /\ ~Head(calls).down => MaskOf(Head(calls).key) \cap modifier_state = {}

MacInv == MacRepeats /\ MacTyped /\ MacModifiers

\* What is explained when a call returns that clears only modifiers that are not applied.
LEMMA ReturnExplains ==
  ASSUME FrontInv, calls # <<>>, Return, NEW ms \in SUBSET modifier_state,
         MacModifiers, ms \cap Clears(Head(calls)) = {}
  PROVE  \A m \in ms : \E h \in EmHandles : Explains(h, m)'
<1> TAKE m \in ms
<1>1. PICK h \in EmHandles : Explains(h, m)
  BY DEF MacModifiers
<1>2. m \in Masks /\ m \notin Clears(Head(calls))
  BY DEF MacModifiers
<1>3. calls' = Tail(calls) /\ UNCHANGED <<pressed_keys, reported>>
  BY ReturnWorks
<1>4. Explains(h, m)'
  BY <1>1, <1>2, <1>3, TailAccounts
<1> QED BY <1>4

\* A call that returns and leaves the task and the modifiers alone.
LEMMA MacReturns ==
  ASSUME FrontInv, MacInv, ~cancelling, calls # <<>>, Return, UNCHANGED macVars,
         Clears(Head(calls)) = {}
  PROVE  Works /\ MacRepeats' /\ MacModifiers'
<1>1. UNCHANGED <<modifier_state, repeat_task, cancelling>>
  BY DEF macVars
<1>2. MacRepeats'
  BY <1>1, MacKeyFacts DEF MacInv, MacRepeats
<1>3. \A m \in modifier_state : \E h \in EmHandles : Explains(h, m)'
  BY ReturnExplains DEF MacInv
<1>4. MacModifiers'
  BY <1>1, <1>3 DEF MacInv, MacModifiers, Masks
<1> QED BY <1>2, <1>4, ReturnWorks

LEMMA MacSpecialKey ==
  ASSUME FrontInv, MacInv, SpecialKey
  PROVE  MacInv' /\ Works /\ Types
<1>1. PICK k : k = Head(calls).key /\ k \in SpecialKeys
  BY DEF SpecialKey
<1>2. /\ InCall("key") /\ calls # <<>> /\ Return /\ UNCHANGED <<modifier_state, repeat_task, cancelling>>
      /\ IF k \in MediaKeys THEN PostKey(None, k, Head(calls).down) ELSE UNCHANGED keys_down
  BY <1>1 DEF SpecialKey, InCall, macVars
<1>3. ~cancelling
  BY <1>1, MacKeyFacts DEF MacInv, MacRepeats
<1>4. Clears(Head(calls)) = {}
  BY <1>1, <1>2, MacKeyFacts DEF Clears, InCall
<1>5. Works /\ MacRepeats' /\ MacModifiers'
  BY <1>2, <1>3, <1>4, MacReturns DEF macVars
<1>6. /\ OnKeyboard' /\ Types
      /\ \A j \in DesktopKeys' : j \in DesktopKeys \/ j \in MediaKeys
      /\ \A j \in DesktopKeys : j \in DesktopKeys' \/ j \in MediaKeys
      /\ ~Head(calls).down => k \notin DesktopKeys'
  <2>1. CASE k \notin MediaKeys
    <3>1. UNCHANGED keys_down
      BY <1>2, <2>1
    <3>2. k \notin DesktopKeys
      BY <1>1, <2>1, MacKeyFacts DEF MacInv, MacRepeats, MacTyped, NoTask
    <3> QED BY <3>1, <3>2, SameKeys DEF MacInv, MacTyped
  <2>2. CASE k \in MediaKeys /\ Head(calls).down
    <3>1. keys_down' = keys_down \cup {<<None, k>>}
      BY <1>2, <2>2 DEF PostKey
    <3>2. DesktopKeys' = DesktopKeys \cup {k} /\ OnKeyboard'
      BY <3>1, PressFacts DEF MacInv, MacTyped
    <3>3. k \in Held
      BY <1>1, <1>2, <2>2, HeadFacts DEF InCall
    <3> QED BY <2>2, <3>2, <3>3 DEF Types
  <2>3. CASE k \in MediaKeys /\ ~Head(calls).down
    <3>1. keys_down' = keys_down \ {<<None, k>>}
      BY <1>2, <2>3 DEF PostKey
    <3>2. DesktopKeys' = DesktopKeys \ {k} /\ OnKeyboard'
      BY <3>1, ReleaseFacts DEF MacInv, MacTyped
    <3> QED BY <2>3, <3>2 DEF Types
  <2> QED BY <2>1, <2>2, <2>3
<1>7. Explained'
  BY <1>1, <1>2, <1>6, ReturnWorks, StillExplained DEF MacInv, MacTyped
<1>8. MacTyped'
  BY <1>2, <1>6, <1>7, MacKeyFacts DEF MacInv, MacTyped, MacRepeats, NoTask
<1> QED BY <1>5, <1>6, <1>8 DEF MacInv

\* A key goes down whose task repeats it from now on.
LEMMA MacPresses ==
  ASSUME FrontInv, MacInv, InCall("key"), Head(calls).down, Head(calls).key \in Mapped,
         repeat_task = NoTask \/ repeat_task.state = "done", ~cancelling',
         repeat_task' = [key |-> Head(calls).key, state |-> "new"],
         PostKey(None, Head(calls).key, TRUE), Return
  PROVE  Works /\ MacRepeats' /\ MacTyped' /\ Types
<1>1. PICK k : k = Head(calls).key /\ k \in Mapped /\ k \in Held
  BY HeadFacts DEF InCall
<1>2. Works /\ calls' = Tail(calls) /\ UNCHANGED <<pressed_keys, reported>>
  BY ReturnWorks DEF InCall
<1>3. keys_down' = keys_down \cup {<<None, k>>}
  BY <1>1 DEF PostKey
<1>4. DesktopKeys' = DesktopKeys \cup {k} /\ OnKeyboard' /\ Types
  <2>1. DesktopKeys' = DesktopKeys \cup {k} /\ OnKeyboard'
    BY <1>3, PressFacts DEF MacInv, MacTyped
  <2> QED BY <1>1, <2>1 DEF Types
<1>5. Explained'
  BY <1>2, <1>4, StillExplained DEF MacInv, MacTyped, InCall
<1>6. repeat_task' = [key |-> k, state |-> "new"]
  BY <1>1
<1>7. repeat_task'.key = k /\ repeat_task'.state = "new"
  BY <1>6
<1>8. \A j \in DesktopKeys : j \in MediaKeys
  BY DEF MacInv, MacTyped, NoTask
<1>9. MacTyped'
  BY <1>4, <1>5, <1>7, <1>8, MacKeyFacts DEF MacTyped
<1>10. MacRepeats'
  BY <1>1, <1>6, MacKeyFacts DEF MacRepeats
<1> QED BY <1>2, <1>4, <1>9, <1>10

\* A release that leaves no task behind.
LEMMA MacReleases ==
  ASSUME FrontInv, MacInv, InCall("key"), ~Head(calls).down, Head(calls).key \in Mapped,
         repeat_task = NoTask \/ repeat_task.state = "done", ~cancelling',
         repeat_task' = NoTask, UNCHANGED keys_down, Return
  PROVE  Works /\ MacRepeats' /\ MacTyped' /\ Types
<1>1. Works /\ calls' = Tail(calls) /\ UNCHANGED <<pressed_keys, reported>>
  BY ReturnWorks DEF InCall
<1>2. DesktopKeys' = DesktopKeys /\ OnKeyboard' /\ Types
  BY SameKeys DEF MacInv, MacTyped
<1>3. \A j \in DesktopKeys : j \in MediaKeys
  BY DEF MacInv, MacTyped, NoTask
<1>4. Head(calls).key \notin DesktopKeys
  BY <1>3, MacKeyFacts
<1>5. Explained'
  BY <1>1, <1>2, <1>4, StillExplained DEF MacInv, MacTyped, InCall
<1>6. MacTyped'
  BY <1>2, <1>3, <1>5, MacKeyFacts DEF MacTyped, NoTask
<1>7. MacRepeats'
  BY MacKeyFacts DEF MacRepeats
<1> QED BY <1>1, <1>2, <1>6, <1>7

\* The modifiers of a key that is pressed or released.
LEMMA MacUpdates ==
  ASSUME FrontInv, MacInv, InCall("key"), NEW ms, ms = UpdateModifiers(modifier_state, Head(calls).key, Head(calls).down)
  PROVE  /\ ms \subseteq Masks
         /\ \A m \in ms : \E h \in EmHandles : Explains(h, m)
         /\ ~Head(calls).down => MaskOf(Head(calls).key) \cap ms = {}
         /\ Head(calls).down => ms = modifier_state \cup MaskOf(Head(calls).key)
         /\ Head(calls).down =>
              \A m \in MaskOf(Head(calls).key) :
                m \in MasksOf(pressed_keys[Head(calls).handle]) /\ Head(calls).handle \in EmHandles
         /\ ~Head(calls).down => ms \subseteq modifier_state /\ ms \cap Clears(Head(calls)) = {}
<1>1. PICK c \in Calls : c = Head(calls) /\ c.op = "key" /\ Meant(c) /\ c.handle \in EmHandles
  BY HeadFacts, CallFacts DEF InCall
<1>2. /\ modifier_state \subseteq Masks
      /\ \A m \in modifier_state : \E h \in EmHandles : Explains(h, m)
  BY DEF MacInv, MacModifiers
<1>3. CASE c.down
  <2>1. ms = modifier_state \cup MaskOf(c.key)
    BY <1>1, <1>3 DEF UpdateModifiers
  <2>2. \A m \in MaskOf(c.key) : m \in MasksOf(pressed_keys[c.handle])
    BY <1>1, <1>3 DEF Meant, MasksOf
  <2>3. \A m \in ms : \E h \in EmHandles : Explains(h, m)
    BY <1>1, <1>2, <2>1, <2>2 DEF Explains
  <2> QED BY <1>1, <1>2, <1>3, <2>1, <2>2, <2>3, MaskFacts
<1>4. CASE ~c.down
  <2>1. ms = modifier_state \ MaskOf(c.key)
    BY <1>1, <1>4 DEF UpdateModifiers
  <2> QED BY <1>1, <1>2, <1>4, <2>1 DEF Clears
<1> QED BY <1>3, <1>4

LEMMA MacMappedKey ==
  ASSUME FrontInv, MacInv, MappedKey
  PROVE  MacInv' /\ Works /\ Types
<1>1. /\ InCall("key") /\ calls # <<>> /\ ~cancelling /\ Head(calls).key \in Mapped
      /\ modifier_state' = UpdateModifiers(modifier_state, Head(calls).key, Head(calls).down)
  BY MacKeyFacts DEF MappedKey, InCall
<1>2. PICK ms : ms = modifier_state'
  OBVIOUS
<1>3. /\ ms \subseteq Masks
      /\ \A m \in ms : \E h \in EmHandles : Explains(h, m)
      /\ ~Head(calls).down => MaskOf(Head(calls).key) \cap ms = {}
      /\ Head(calls).down => ms = modifier_state \cup MaskOf(Head(calls).key)
      /\ Head(calls).down =>
           \A m \in MaskOf(Head(calls).key) :
             m \in MasksOf(pressed_keys[Head(calls).handle]) /\ Head(calls).handle \in EmHandles
      /\ ~Head(calls).down => ms \subseteq modifier_state /\ ms \cap Clears(Head(calls)) = {}
  BY <1>1, <1>2, MacUpdates
<1>4. CASE repeat_task # NoTask
  <2>1. repeat_task' = Notified(repeat_task) /\ cancelling' = TRUE /\ UNCHANGED <<frontVars, desktopVars>>
    BY <1>4 DEF MappedKey
  <2>2. /\ repeat_task \in [key : Mapped, state : {"new", "waiting", "notified", "deaf", "done"}]
        /\ repeat_task.state \in {"new", "waiting"}
    BY <1>1, <1>4 DEF MacInv, MacRepeats
  <2>3. /\ repeat_task' \in [key : Mapped, state : {"new", "waiting", "notified", "deaf", "done"}]
        /\ repeat_task'.key = repeat_task.key /\ repeat_task'.state \in {"deaf", "notified"}
        /\ repeat_task' # NoTask
    BY <2>1, <2>2 DEF Notified, NoTask
  <2>4. Works /\ UNCHANGED <<calls, pressed_keys, reported, keys_down>>
    BY <2>1, IdleWorks DEF desktopVars
  <2>5. Types /\ DesktopKeys' = DesktopKeys /\ OnKeyboard'
    BY <2>4, SameKeys DEF MacInv, MacTyped
  <2>6. MacTyped'
    BY <2>2, <2>3, <2>4, <2>5, MacKeyFacts DEF MacInv, MacTyped, Explained, Held
  <2>7. MacRepeats'
    BY <1>1, <2>1, <2>3, <2>4, MacKeyFacts DEF MacRepeats, InCall
  <2>8. \A m \in ms : \E h \in EmHandles : Explains(h, m)'
    BY <1>3, <2>4 DEF Explains
  <2>9. MacModifiers'
    BY <1>2, <1>3, <2>4, <2>8 DEF MacModifiers, Masks
  <2> QED BY <2>4, <2>5, <2>6, <2>7, <2>9 DEF MacInv
<1>5. CASE repeat_task = NoTask
  <2>1. /\ Return /\ cancelling' = cancelling
        /\ IF Head(calls).down
           THEN /\ PostKey(None, Head(calls).key, TRUE)
                /\ repeat_task' = [key |-> Head(calls).key, state |-> "new"]
           ELSE UNCHANGED <<keys_down, repeat_task>>
    BY <1>5 DEF MappedKey
  <2>2. Works /\ MacRepeats' /\ MacTyped' /\ Types
    <3>1. CASE Head(calls).down
      BY <1>1, <1>5, <2>1, <3>1, MacPresses
    <3>2. CASE ~Head(calls).down
      BY <1>1, <1>5, <2>1, <3>2, MacReleases
    <3> QED BY <3>1, <3>2
  <2>3. \A m \in ms : \E h \in EmHandles : Explains(h, m)'
    <3>1. CASE Head(calls).down
      <4>1. Clears(Head(calls)) = {}
        BY <1>1, <3>1 DEF Clears, InCall
      <4>2. \A m \in modifier_state : \E h \in EmHandles : Explains(h, m)'
        BY <1>1, <2>1, <4>1, ReturnExplains DEF MacInv
      <4>3. \A m \in MaskOf(Head(calls).key) : \E h \in EmHandles : Explains(h, m)'
        BY <1>1, <1>3, <2>1, <3>1, ReturnWorks DEF Explains
      <4> QED BY <1>3, <3>1, <4>2, <4>3
    <3>2. CASE ~Head(calls).down
      BY <1>1, <1>3, <2>1, <3>2, ReturnExplains DEF MacInv
    <3> QED BY <3>1, <3>2
  <2>4. MacModifiers'
    BY <1>1, <1>2, <1>3, <2>1, <2>3 DEF MacModifiers, Masks
  <2> QED BY <2>2, <2>4 DEF MacInv
<1> QED BY <1>4, <1>5

LEMMA MacCancelled ==
  ASSUME FrontInv, MacInv, Cancelled
  PROVE  MacInv' /\ Works /\ Types
<1>1. /\ cancelling /\ repeat_task.state = "done" /\ ~cancelling' /\ Return
      /\ UNCHANGED modifier_state
      /\ IF Head(calls).down
         THEN /\ PostKey(None, Head(calls).key, TRUE)
              /\ repeat_task' = [key |-> Head(calls).key, state |-> "new"]
         ELSE repeat_task' = NoTask /\ UNCHANGED keys_down
  BY DEF Cancelled
<1>2. InCall("key") /\ calls # <<>> /\ Head(calls).op = "key" /\ Head(calls).key \in Mapped
  BY <1>1 DEF MacInv, MacRepeats, InCall
<1>3. Works /\ MacRepeats' /\ MacTyped' /\ Types
  <2>1. CASE Head(calls).down
    BY <1>1, <1>2, <2>1, MacPresses
  <2>2. CASE ~Head(calls).down
    BY <1>1, <1>2, <2>2, MacReleases
  <2> QED BY <2>1, <2>2
<1>4. modifier_state \cap Clears(Head(calls)) = {}
  BY <1>1, <1>2 DEF MacInv, MacModifiers, Clears
<1>5. \A m \in modifier_state : \E h \in EmHandles : Explains(h, m)'
  BY <1>1, <1>2, <1>4, ReturnExplains DEF MacInv
<1>6. MacModifiers'
  BY <1>1, <1>5 DEF MacInv, MacModifiers, Masks
<1> QED BY <1>3, <1>6 DEF MacInv

\* The task by itself: it types its key again, or lets go of it.
LEMMA MacTaskStep ==
  ASSUME FrontInv, MacInv, MacTask \/ Repeat \/ RepeatMissingNotification
  PROVE  MacInv' /\ Works /\ Types
<1>1. UNCHANGED <<frontVars, dropped, cancelling>>
  BY DEF MacTask, PollTask, EndTask, Repeat, RepeatMissingNotification, sinkVars, desktopVars, macVars
<1>2. Works /\ UNCHANGED <<calls, pressed_keys, reported>>
  BY <1>1, IdleWorks
<1>3. repeat_task.state \in {"new", "waiting", "deaf", "notified"} /\ repeat_task # NoTask
  <2>1. repeat_task.state \in {"new", "waiting", "deaf", "notified"}
    BY DEF MacTask, PollTask, EndTask, Repeat, RepeatMissingNotification
  <2>2. NoTask.state = "done"
    BY DEF NoTask
  <2> QED BY <2>1, <2>2
<1>4. /\ repeat_task \in [key : Mapped, state : {"new", "waiting", "notified", "deaf", "done"}]
      /\ repeat_task.key \in DesktopKeys
  BY <1>3 DEF MacInv, MacRepeats, MacTyped
<1>5. PICK k : k = repeat_task.key
  OBVIOUS
<1>6. <<None, k>> \in keys_down
  BY <1>4, <1>5 DEF DesktopKeys, OnKeyboard, MacInv, MacTyped
<1>7. Held' = Held /\ Releasing(calls') = Releasing(calls)
  BY <1>2 DEF Held
<1>8. CASE EndTask
  <2>1. /\ repeat_task.state = "notified" /\ repeat_task' = [repeat_task EXCEPT !.state = "done"]
        /\ keys_down' = keys_down \ {<<None, k>>} /\ modifier_state' \subseteq modifier_state
    BY <1>5, <1>8 DEF EndTask, PostKey, UpdateModifiers
  <2>2. repeat_task' \in [key : Mapped, state : {"done"}] /\ repeat_task'.key = k /\ repeat_task' # NoTask
    BY <1>4, <1>5, <2>1, MacKeyFacts DEF NoTask
  <2>3. DesktopKeys' = DesktopKeys \ {k} /\ OnKeyboard' /\ Types
    BY <2>1, ReleaseFacts DEF MacInv, MacTyped, Types
  <2>4. MacTyped'
    BY <1>5, <1>7, <2>2, <2>3, MacKeyFacts DEF MacInv, MacTyped, Explained
  <2>5. cancelling
    BY <1>3, <2>1 DEF MacInv, MacRepeats
  <2>6. MacRepeats'
    BY <1>1, <1>2, <2>2, <2>5, MacKeyFacts DEF MacInv, MacRepeats, InCall
  <2>7. MacModifiers'
    BY <1>1, <1>2, <2>1 DEF MacInv, MacModifiers, Explains, Masks
  <2> QED BY <1>2, <2>3, <2>4, <2>6, <2>7 DEF MacInv
<1>9. CASE ~EndTask
  <2>1. /\ repeat_task' \in [key : Mapped, state : {"new", "waiting", "notified", "deaf", "done"}]
        /\ repeat_task'.key = k /\ repeat_task' # NoTask /\ repeat_task'.state # "done"
        /\ cancelling => repeat_task'.state \in {"notified", "deaf"}
        /\ ~cancelling => repeat_task'.state \in {"new", "waiting"}
    <3>1. repeat_task.state \in {"new", "waiting"} <=> ~cancelling
      BY <1>3 DEF MacInv, MacRepeats
    <3>2. \A s : NoTask # [repeat_task EXCEPT !.state = s] /\ NoTask # repeat_task
      BY <1>3, <1>4, MacKeyFacts DEF NoTask
    <3>3. CASE PollTask
      <4>1. repeat_task.state = "new" /\ repeat_task' = [repeat_task EXCEPT !.state = "waiting"]
        BY <3>3 DEF PollTask
      <4> QED BY <1>4, <1>5, <3>1, <3>2, <4>1, MacKeyFacts
    <3>4. CASE Repeat
      <4>1. repeat_task.state \in {"waiting", "deaf"} /\ repeat_task' = repeat_task
        BY <3>4 DEF Repeat, macVars
      <4> QED BY <1>4, <1>5, <3>1, <3>2, <4>1, MacKeyFacts
    <3>5. CASE RepeatMissingNotification
      <4>1. repeat_task.state = "notified" /\ repeat_task' = [repeat_task EXCEPT !.state = "deaf"]
        BY <3>5 DEF RepeatMissingNotification
      <4> QED BY <1>4, <1>5, <3>1, <3>2, <4>1, MacKeyFacts
    <3> QED BY <1>9, <3>3, <3>4, <3>5 DEF MacTask
  <2>2. keys_down' = keys_down
    <3>1. keys_down' = keys_down \/ keys_down' = keys_down \cup {<<None, k>>}
      BY <1>5, <1>9 DEF MacTask, PollTask, Repeat, RepeatMissingNotification, PostKey, sinkVars, desktopVars
    <3> QED BY <1>6, <3>1
  <2>3. modifier_state' = modifier_state
    BY <1>9 DEF MacTask, PollTask, Repeat, RepeatMissingNotification, macVars
  <2>4. Types /\ DesktopKeys' = DesktopKeys /\ OnKeyboard'
    BY <2>2, SameKeys DEF MacInv, MacTyped
  <2>5. MacTyped'
    BY <1>4, <1>5, <1>7, <2>1, <2>4, MacKeyFacts DEF MacInv, MacTyped, Explained
  <2>6. MacRepeats'
    BY <1>1, <1>2, <2>1, MacKeyFacts DEF MacInv, MacRepeats, InCall
  <2>7. MacModifiers'
    BY <1>1, <1>2, <2>3 DEF MacInv, MacModifiers, Explains, Masks
  <2> QED BY <1>2, <2>4, <2>5, <2>6, <2>7 DEF MacInv
<1> QED BY <1>8, <1>9

LEMMA MacStep ==
  ASSUME FrontInv, MacInv, MacEmulationNext
  PROVE  MacInv' /\ Works /\ Types /\ Ends
<1>1. ASSUME UnmappedKey \/ MacNoOp \/ ((Motion \/ Button \/ Axis \/ Scroll) /\ UNCHANGED macVars)
      PROVE  MacInv' /\ Works /\ Types
  <2>1. calls # <<>> /\ Return /\ UNCHANGED <<keys_down, macVars>>
    BY <1>1, PointerStep DEF UnmappedKey, MacNoOp, InCall, PostNothing
  <2>2. \/ Head(calls).op \in {"create", "destroy", "terminate"} \cup PointerOps
        \/ Head(calls).op = "key" /\ Head(calls).key \notin SpecialKeys \cup Mapped
    BY <1>1, PointerStep, MacKeyFacts DEF UnmappedKey, MacNoOp, InCall
  <2>3. ~cancelling
    BY <2>2 DEF MacInv, MacRepeats, InCall, PointerOps
  <2>4. Clears(Head(calls)) = {}
    BY <2>2, MacKeyFacts DEF Clears, PointerOps
  <2>5. Works /\ MacRepeats' /\ MacModifiers'
    BY <2>1, <2>3, <2>4, MacReturns
  <2>6. UNCHANGED repeat_task
    BY <2>1 DEF macVars
  <2>7. DesktopKeys' = DesktopKeys /\ Types /\ OnKeyboard'
    BY <2>1, SameKeys DEF MacInv, MacTyped
  <2>8. Head(calls).op = "key" => Head(calls).key \notin DesktopKeys
    BY <2>2, <2>3, MacKeyFacts DEF MacInv, MacRepeats, MacTyped, NoTask, PointerOps
  <2>9. Explained'
    BY <2>1, <2>7, <2>8, ReturnWorks, StillExplained DEF MacInv, MacTyped
  <2>10. MacTyped'
    BY <2>6, <2>7, <2>9, MacKeyFacts DEF MacInv, MacTyped
  <2> QED BY <2>5, <2>7, <2>10 DEF MacInv
<1>2. ASSUME SetModifiers PROVE MacInv' /\ Works /\ Types
  <2>1. PICK c \in Calls : c = Head(calls) /\ c.op = "modifiers" /\ Meant(c)
    BY <1>2, HeadFacts DEF SetModifiers, InCall
  <2>2. /\ calls # <<>> /\ Return /\ UNCHANGED <<keys_down, repeat_task, cancelling>>
        /\ modifier_state' = c.depressed
    BY <1>2, <2>1 DEF SetModifiers, InCall, PostNothing
  <2>3. ~cancelling
    BY <2>1 DEF MacInv, MacRepeats, InCall
  <2>4. Works /\ calls' = Tail(calls) /\ UNCHANGED <<pressed_keys, reported>>
    BY <2>2, ReturnWorks
  <2>5. DesktopKeys' = DesktopKeys /\ Types /\ OnKeyboard'
    BY <2>2, SameKeys DEF MacInv, MacTyped
  <2>6. Explained'
    BY <2>1, <2>2, <2>4, <2>5, StillExplained DEF MacInv, MacTyped
  <2>7. MacTyped'
    BY <2>2, <2>5, <2>6, MacKeyFacts DEF MacInv, MacTyped
  <2>8. MacRepeats'
    BY <2>2, <2>3, MacKeyFacts DEF MacInv, MacRepeats
  <2>9. c.depressed \subseteq Masks /\ c.handle \in EmHandles /\ c.depressed \subseteq reported[c.handle]
    BY <2>1, CallFacts DEF Meant
  <2>10. \A m \in c.depressed : Explains(c.handle, m)'
    BY <2>4, <2>9 DEF Explains
  <2>11. MacModifiers'
    BY <2>2, <2>3, <2>9, <2>10 DEF MacModifiers, Masks
  <2> QED BY <2>4, <2>5, <2>7, <2>8, <2>11 DEF MacInv
<1>3. MacInv' /\ Works /\ Types
  BY <1>1, <1>2, MacSpecialKey, MacMappedKey, MacCancelled, MacTaskStep DEF MacEmulationNext, MacConsume
<1> QED BY <1>3, ExplainedEnd DEF MacInv, MacTyped

------------------------------------------------------------------------------
\* The backend in use, and InputEmulation beside it.
KeysInv ==
  /\ scenario \in Scenarios
  /\ FrontInv
  /\ session = "ended" => DesktopKeys = {}
  /\ backend = "macos" => MacInv
  /\ backend = "windows" => WinInv
  /\ backend = "x11" => X11Inv
  /\ backend = "wlroots" => WlrInv
  /\ backend = "xdp" => PortalInv

LEMMA KeysInitially == SinksInit => KeysInv
<1> SUFFICES ASSUME SinksInit PROVE KeysInv
  OBVIOUS
<1>1. scenario \in Scenarios /\ FrontInv /\ keys_down = {} /\ calls = <<>> /\ session = "on"
  BY FrontInitially DEF SinksInit, SinkInit
<1>2. DesktopKeys = {} /\ OnKeyboard /\ Explained
  BY <1>1 DEF DesktopKeys, OnKeyboard, Explained
<1>3. MacInv
  <2>1. modifier_state = {} /\ repeat_task = NoTask /\ cancelling = FALSE
    BY DEF SinksInit, MacInit
  <2>2. repeat_task.state = "done"
    BY <2>1 DEF NoTask
  <2> QED BY <1>2, <2>1, <2>2 DEF MacInv, MacRepeats, MacTyped, MacModifiers
<1>4. WinInv
  BY <1>2 DEF SinksInit, WinInit, WinInv
<1>5. WlrInv
  <2>1. input_for_client = <<>> /\ told = <<>> /\ DOMAIN <<>> = {}
    BY DEF SinksInit, WlrootsInit
  <2>2. input_for_client \in [{} -> SUBSET Masks]
        /\ told \in [{} -> [depressed : SUBSET Masks, locked : SUBSET Masks]]
    BY <2>1
  <2> QED BY <1>1, <2>1, <2>2 DEF WlrInv, WlrKeys, WlrMasks
<1>6. PortalInv
  BY DEF SinksInit, PortalInit, PortalInv
<1> QED BY <1>1, <1>2, <1>3, <1>4, <1>5, <1>6 DEF X11Inv, KeysInv

\* InputEmulation changes what is held: only Hold of the promise.
LEMMA FrontKeeps ==
  ASSUME KeysInv, FrontStep(Input(scenario.handles, scenario.keys)) \/ FrontStep(Ending)
  PROVE  KeysInv' /\ Promise!Hold
<1>1. /\ FrontInv' /\ Accounted /\ calls = <<>> /\ session # "ended" /\ session' # "ended"
      /\ UNCHANGED <<keys_down, dropped>>
  BY FrontMoves DEF KeysInv, FrontStep
<1>2. UNCHANGED <<scenario, backend, modifier_state, repeat_task, cancelling, repeating, input_for_client,
                  told, portal_open, awaits_closed>>
  BY DEF FrontStep, backend, macVars, winVars, wlrVars, portalVars
<1>3. DesktopKeys' = DesktopKeys /\ (OnKeyboard => OnKeyboard') /\ (Explained => Explained')
  BY <1>1, SameKeys, FrontExplained
<1>4. Leaving(calls) = {} /\ em_handles \subseteq em_handles' \cup Leaving(calls')
  BY <1>1 DEF Leaving, Accounted
<1>5. backend = "macos" => MacInv'
  <2> HAVE backend = "macos"
  <2>1. MacInv /\ ~cancelling
    BY <1>1 DEF KeysInv, MacInv, MacRepeats, InCall
  <2>2. MacRepeats'
    BY <1>2, <2>1, MacKeyFacts DEF MacInv, MacRepeats
  <2>3. MacTyped'
    BY <1>2, <1>3, <2>1, MacKeyFacts DEF MacInv, MacTyped
  <2>4. \A m \in modifier_state : \E h \in EmHandles : Explains(h, m)'
    BY <1>1, <2>1 DEF MacInv, MacModifiers, Accounted
  <2>5. MacModifiers'
    BY <1>2, <2>1, <2>4 DEF MacInv, MacModifiers, Masks
  <2> QED BY <2>2, <2>3, <2>5 DEF MacInv
<1>6. backend = "windows" => WinInv'
  BY <1>2, <1>3 DEF KeysInv, WinInv, WinUnmapped
<1>7. backend = "x11" => X11Inv'
  BY <1>3 DEF KeysInv, X11Inv
<1>8. backend = "wlroots" => WlrInv'
  <2> HAVE backend = "wlroots"
  <2>1. WlrInv /\ FrontInv
    BY DEF KeysInv
  <2>2. WlrKeys'
    BY <1>1, <1>2, <1>4, <2>1 DEF WlrInv, WlrKeys
  <2>3. ASSUME ~dropped', NEW h \in DOMAIN input_for_client,
               NEW m \in told[h].depressed \cup MaskPressed(input_for_client[h])
        PROVE  Explains(h, m)'
    <3>1. Explains(h, m) /\ m \in Masks /\ h \in EmHandles
      BY <1>1, <2>1, <2>3, WlrHandles DEF WlrInv, WlrMasks
    <3> QED BY <1>1, <3>1 DEF Accounted
  <2>4. WlrMasks'
    BY <1>2, <2>1, <2>3 DEF WlrInv, WlrMasks, MaskPressed
  <2> QED BY <2>2, <2>4 DEF WlrInv
<1>9. backend = "xdp" => PortalInv'
  BY <1>1, <1>2 DEF KeysInv, PortalInv, InCall
<1>10. Held' \subseteq EmKeys
  BY <1>1 DEF FrontInv, FrontTypeOK, Held
<1>11. Promise!Hold
  BY <1>1, <1>3, <1>10 DEF Promise!Hold, held, down, ended
<1> QED BY <1>1, <1>2, <1>5, <1>6, <1>7, <1>8, <1>9, <1>11 DEF KeysInv

\* The backend types, or ends with nothing left to type.
LEMMA BackendKeeps ==
  ASSUME FrontInv, session = "ended" => DesktopKeys = {}, Works, Types, Ends
  PROVE  FrontInv' /\ (session' = "ended" => DesktopKeys' = {}) /\ [Promise!Next]_(Promise!vars)
<1>1. FrontInv' /\ Held' = Held
  BY WorksFront DEF Works, Held
<1>2. CASE session = "ended"
  <2>1. calls = <<>> /\ Held = {} /\ DesktopKeys = {}
    BY <1>2 DEF FrontInv, Held
  <2>2. session' = "ended"
    BY <1>2, <2>1 DEF Works
  <2>3. DesktopKeys' = {}
    BY <2>1 DEF Types
  <2> QED BY <1>1, <1>2, <2>1, <2>2, <2>3 DEF Promise!vars, held, down, ended
<1>3. CASE session # "ended" /\ session' = "ended"
  <2>1. calls # <<>> /\ calls' = Tail(calls) /\ InCall("terminate")
    BY <1>3 DEF Works, InCall, EventOps
  <2>2. Tail(calls) = <<>> /\ Held = {}
    BY <2>1, AtTermination
  <2>3. DesktopKeys' = {}
    BY <2>1, <2>2 DEF Ends
  <2> QED BY <1>1, <1>3, <2>2, <2>3 DEF Promise!Next, Promise!End, held, down, ended
<1>4. CASE session # "ended" /\ session' # "ended"
  <2>1. DesktopKeys' \in SUBSET (DesktopKeys \cup Held)
    BY DEF Types
  <2> QED BY <1>1, <1>4, <2>1 DEF Promise!Next, Promise!Type, held, down, ended
<1> QED BY <1>2, <1>3, <1>4

LEMMA KeysStep ==
  ASSUME KeysInv, [SinksNext]_sinksVars
  PROVE  KeysInv' /\ [Promise!Next]_(Promise!vars)
<1> DEFINE Goal == KeysInv' /\ [Promise!Next]_(Promise!vars)
<1>1. ASSUME FrontStep(Input(scenario.handles, scenario.keys)) \/ FrontStep(Ending) PROVE Goal
  BY <1>1, FrontKeeps DEF Promise!Next
<1>2. FrontInv /\ (session = "ended" => DesktopKeys = {}) /\ scenario \in Scenarios
  BY DEF KeysInv
<1>3. ASSUME UNCHANGED scenario, Works, Types, Ends,
             backend = "macos" => MacInv', backend = "windows" => WinInv',
             backend = "x11" => X11Inv', backend = "wlroots" => WlrInv', backend = "xdp" => PortalInv'
      PROVE  Goal
  <2>1. FrontInv' /\ (session' = "ended" => DesktopKeys' = {}) /\ [Promise!Next]_(Promise!vars)
    BY <1>2, <1>3, BackendKeeps
  <2>2. backend' = backend /\ scenario' \in Scenarios
    BY <1>2, <1>3 DEF backend
  <2> QED BY <1>3, <2>1, <2>2 DEF KeysInv
<1>4. ASSUME Of("macos", MacEmulationNext) PROVE Goal
  <2>1. backend = "macos" /\ MacEmulationNext /\ UNCHANGED scenario /\ MacInv
    BY <1>4 DEF Of, KeysInv
  <2>2. MacInv' /\ Works /\ Types /\ Ends
    BY <1>2, <2>1, MacStep
  <2> HIDE DEF Goal
  <2> QED BY <1>3, <2>1, <2>2
<1>5. ASSUME Of("macos_vhid", VhidEmulationNext) PROVE Goal
  <2>1. backend = "macos_vhid" /\ VhidEmulationNext /\ UNCHANGED scenario
    BY <1>5 DEF Of
  <2>2. Works /\ Types /\ Ends
    BY <1>2, <2>1, VhidStep
  <2> HIDE DEF Goal
  <2> QED BY <1>3, <2>1, <2>2
<1>6. ASSUME Of("windows", WindowsEmulationNext) PROVE Goal
  <2>1. backend = "windows" /\ WindowsEmulationNext /\ UNCHANGED scenario /\ WinInv
    BY <1>6 DEF Of, KeysInv
  <2>2. WinInv' /\ Works /\ Types /\ Ends
    BY <1>2, <2>1, WinStep
  <2> HIDE DEF Goal
  <2> QED BY <1>3, <2>1, <2>2
<1>7. ASSUME Of("x11", X11EmulationNext) PROVE Goal
  <2>1. backend = "x11" /\ X11EmulationNext /\ UNCHANGED scenario /\ X11Inv
    BY <1>7 DEF Of, KeysInv
  <2>2. X11Inv' /\ Works /\ Types /\ Ends
    BY <1>2, <2>1, X11Step
  <2> HIDE DEF Goal
  <2> QED BY <1>3, <2>1, <2>2
<1>8. ASSUME Of("wlroots", WlrootsEmulationNext) PROVE Goal
  <2>1. backend = "wlroots" /\ WlrootsEmulationNext /\ UNCHANGED scenario /\ WlrInv
    BY <1>8 DEF Of, KeysInv
  <2>2. WlrInv' /\ Works /\ Types /\ Ends
    BY <1>2, <2>1, WlrStep
  <2> HIDE DEF Goal
  <2> QED BY <1>3, <2>1, <2>2
<1>9. ASSUME Of("libei", LibeiEmulationNext) PROVE Goal
  <2>1. backend = "libei" /\ LibeiEmulationNext /\ UNCHANGED scenario
    BY <1>9 DEF Of
  <2>2. Works /\ Types /\ Ends
    BY <1>2, <2>1, LibeiStep
  <2> HIDE DEF Goal
  <2> QED BY <1>3, <2>1, <2>2
<1>10. ASSUME Of("xdp", PortalEmulationNext) PROVE Goal
  <2>1. backend = "xdp" /\ PortalEmulationNext /\ UNCHANGED scenario /\ PortalInv
    BY <1>10 DEF Of, KeysInv
  <2>2. PortalInv' /\ Works /\ Types /\ Ends
    BY <1>2, <2>1, PortalStep
  <2> HIDE DEF Goal
  <2> QED BY <1>3, <2>1, <2>2
<1>11. ASSUME UNCHANGED sinksVars PROVE Goal
  <2>1. UNCHANGED <<scenario, backend, frontVars, dropped, keys_down, macVars, winVars, input_for_client,
                    told, portalVars>>
    BY <1>11 DEF sinksVars, sinkVars, desktopVars, wlrVars, backend
  <2>2. Works /\ UNCHANGED <<calls, pressed_keys, reported, session, em_handles>>
    BY <1>2, <2>1, IdleWorks DEF frontVars
  <2>3. DesktopKeys' = DesktopKeys /\ (OnKeyboard => OnKeyboard') /\ Types
    BY <2>1, SameKeys
  <2>4. Explained => Explained'
    BY <2>2, <2>3 DEF Explained, Held
  <2>5. Ends
    BY <2>2 DEF Ends
  <2>6. backend = "macos" => MacInv'
    <3>1. MacRepeats => MacRepeats'
      BY <2>1, <2>2, MacKeyFacts DEF macVars, MacRepeats, InCall
    <3>2. MacTyped => MacTyped'
      BY <2>1, <2>3, <2>4, MacKeyFacts DEF macVars, MacTyped
    <3>3. MacModifiers => MacModifiers'
      BY <2>1, <2>2 DEF macVars, MacModifiers, Masks, Explains
    <3> QED BY <3>1, <3>2, <3>3 DEF KeysInv, MacInv
  <2>7. backend = "windows" => WinInv'
    BY <2>1, <2>3, <2>4 DEF KeysInv, WinInv, WinUnmapped, winVars
  <2>8. backend = "x11" => X11Inv'
    BY <2>3, <2>4 DEF KeysInv, X11Inv
  <2>9. backend = "wlroots" => WlrInv'
    <3>1. WlrKeys => WlrKeys'
      BY <2>1, <2>2 DEF WlrKeys
    <3>2. WlrMasks => WlrMasks'
      BY <2>1, <2>2 DEF WlrMasks, MaskPressed, Explains
    <3> QED BY <3>1, <3>2 DEF KeysInv, WlrInv
  <2>10. backend = "xdp" => PortalInv'
    BY <2>1, <2>2 DEF KeysInv, PortalInv, portalVars, InCall
  <2> HIDE DEF Goal
  <2> QED BY <1>3, <2>1, <2>2, <2>3, <2>5, <2>6, <2>7, <2>8, <2>9, <2>10
<1> HIDE DEF Goal
<1>12. Goal
  BY <1>1, <1>4, <1>5, <1>6, <1>7, <1>8, <1>9, <1>10, <1>11 DEF SinksNext
<1> QED BY <1>12 DEF Goal

\* Whatever devices send and whichever backend types it, for any keys: a key goes down
\* only while a device holds it, whether it repeats by itself, waits for a task, or is
\* left behind by a call that fails, and after terminate none is down or goes down.
THEOREM SinksKeepPromise == SinksSpec => SinkKeepsPromise
<1>1. SinksInit => Promise!Init
  <2> SUFFICES ASSUME SinksInit PROVE Promise!Init
    OBVIOUS
  <2>1. Held = {} /\ DesktopKeys = {} /\ session = "on"
    BY DEF SinksInit, SinkInit, Held, DesktopKeys
  <2> QED BY <2>1 DEF Promise!Init, held, down, ended
<1> QED BY <1>1, KeysInitially, KeysStep, PTL DEF SinksSpec, SinkKeepsPromise, Promise!Spec

\* Between calls, unless a release was dropped, every modifier that macOS posts with its
\* events or a wlroots compositor has been told is one that some device holds or reports:
\* the count that a backend keeps beside the keys leaves none stuck, although the repeat
\* task updates it with a key code of another kind.
THEOREM ModifiersAreExplained == SinksSpec => []ModifiersExplained
<1>1. KeysInv => ModifiersExplained
  <2> SUFFICES ASSUME KeysInv, calls = <<>>, ~dropped, NEW m \in AppliedModifiers
               PROVE  m \in MasksOf(Held) \cup UNION {reported[h] : h \in EmHandles}
    BY DEF ModifiersExplained
  <2>1. PICK h \in EmHandles : Explains(h, m)
    <3>1. CASE backend = "macos"
      BY <3>1 DEF AppliedModifiers, KeysInv, MacInv, MacModifiers
    <3>2. CASE backend = "wlroots"
      <4>1. PICK h \in DOMAIN told : m \in told[h].depressed
        BY <3>2 DEF AppliedModifiers
      <4>2. WlrInv /\ FrontInv
        BY <3>2 DEF KeysInv
      <4>3. h \in DOMAIN input_for_client
        BY <4>1, <4>2 DEF WlrInv, WlrMasks
      <4> QED BY <4>1, <4>2, <4>3, WlrHandles DEF WlrInv, WlrMasks
    <3>3. CASE backend \notin {"macos", "wlroots"}
      BY <3>3 DEF AppliedModifiers
    <3> QED BY <3>1, <3>2, <3>3
  <2>2. m \in MasksOf(pressed_keys[h]) \/ m \in reported[h]
    BY <2>1 DEF Explains
  <2> QED BY <2>2 DEF MasksOf, Held
<1> QED BY <1>1, KeysInitially, KeysStep, PTL DEF SinksSpec

------------------------------------------------------------------------------
\* The factors are never changed here.
LEMMA ConfigStays ==
  ASSUME [SinksNext]_sinksVars
  PROVE  UNCHANGED mouse_config
<1> USE DEF frontVars, sinkVars, Return, Fail
<1>1. ASSUME Input(scenario.handles, scenario.keys) \/ Ending PROVE UNCHANGED mouse_config
  BY <1>1 DEF Input, ConsumeKey, ConsumeModifiers, ConsumePointer, RemoveHandle, Ending, EndSession, Terminate,
              Event, Destroy
<1>2. ASSUME Motion \/ Button \/ Axis \/ Scroll PROVE UNCHANGED mouse_config
  BY <1>2 DEF Motion, Button, Axis, Scroll
<1>3. ASSUME MacEmulationNext PROVE UNCHANGED mouse_config
  BY <1>2, <1>3
  DEF MacEmulationNext, MacConsume, SpecialKey, MappedKey, UnmappedKey, SetModifiers, MacNoOp, Cancelled,
      MacTask, PollTask, EndTask, Repeat, RepeatMissingNotification
<1>4. ASSUME VhidEmulationNext PROVE UNCHANGED mouse_config
  BY <1>2, <1>4
  DEF VhidEmulationNext, VhidConsume, VhidKey, VhidSpecialKey, VhidMotion, VhidButton, VhidScroll, VhidNoOp,
      VhidTerminate, SinkChanges
<1>5. ASSUME WindowsEmulationNext PROVE UNCHANGED mouse_config
  BY <1>5
  DEF WindowsEmulationNext, WinConsume, WinKey, WinMotion, WinButton, WinScroll, WinNoOp, WinRepeat,
      InputDesktopChanges
<1>6. ASSUME X11EmulationNext PROVE UNCHANGED mouse_config
  BY <1>6 DEF X11EmulationNext, X11Key, X11Button, X11Scroll, X11Motion, X11NoOp
<1>7. ASSUME WlrootsEmulationNext PROVE UNCHANGED mouse_config
  BY <1>7
  DEF WlrootsEmulationNext, Flush, Discard, WlrKey, WlrModifiers, WlrPointer, WlrCreate, WlrDestroy, WlrTerminate
<1>8. ASSUME LibeiEmulationNext PROVE UNCHANGED mouse_config
  BY <1>8
  DEF LibeiEmulationNext, EiServer, ServerAdds, ServerResumes, ServerPauses, ServerRemoves, ServerDisconnects,
      EiTell, EiTask, EiSinkConsume, EiTakeError, EiConsume, EiFlushFails, EiNoOp, EiTerminate
<1>9. ASSUME PortalEmulationNext PROVE UNCHANGED mouse_config
  BY <1>9
  DEF PortalEmulationNext, PortalConsume, PortalKey, PortalPointer, PortalFails, PortalIgnores, PortalClose,
      PortalClosed, PortalRevoked
<1> QED BY <1>1, <1>3, <1>4, <1>5, <1>6, <1>7, <1>8, <1>9 DEF SinksNext, FrontStep, Of, sinksVars

------------------------------------------------------------------------------
\* The cursor on macOS.
CursorInv == cursor \in Int \X Int /\ DisplaysAt(cursor) # {}

\* From pixels to parts of them.
LEMMA Stretched ==
  ASSUME NEW a \in Int, NEW b \in Int, a < b, NEW n \in Nat \ {0}
  PROVE  a * n \in Int /\ (b - 1) * n \in Int /\ b * n \in Int
         /\ a * n <= (b - 1) * n /\ (b - 1) * n < b * n
<1>1. b * n = (b - 1) * n + n
  OBVIOUS
<1>2. PICK k \in Nat : b - 1 = a + k
  <2>1. b - 1 - a \in Nat /\ b - 1 = a + (b - 1 - a)
    OBVIOUS
  <2> QED BY <2>1
<1>3. (b - 1) * n = a * n + k * n
  BY <1>2
<1>4. k * n \in Nat
  BY <1>2
<1> QED BY <1>1, <1>3, <1>4

LEMMA PixelFacts ==
  ASSUME mouse_config \in MouseConfigs
  PROVE  Pixel \in Nat \ {0} /\ Unit \in Nat \ {0}
<1>1. ASSUME NEW a \in Nat \ {0}, NEW b \in Nat \ {0} PROVE a * b \in Nat \ {0}
  BY <1>1
<1> QED BY <1>1, SinkAssumption DEF Pixel, Unit

\* A point is clamped to a display.
LEMMA ClampFacts ==
  ASSUME mouse_config \in MouseConfigs, NEW p \in Int \X Int, NEW d \in EmDisplays
  PROVE  /\ ClampToDisplay(p, d) \in Int \X Int
         /\ d \in DisplaysAt(ClampToDisplay(p, d))
<1>1. d.x0 \in Int /\ d.x1 \in Int /\ d.y0 \in Int /\ d.y1 \in Int /\ d.x0 < d.x1 /\ d.y0 < d.y1
  BY QuartzAssumption
<1>2. p[1] \in Int /\ p[2] \in Int /\ Pixel \in Nat \ {0}
  BY PixelFacts
<1>3. PICK xl, xh, xn, yl, yh, yn :
        /\ xl = d.x0 * Pixel /\ xh = (d.x1 - 1) * Pixel /\ xn = d.x1 * Pixel
        /\ yl = d.y0 * Pixel /\ yh = (d.y1 - 1) * Pixel /\ yn = d.y1 * Pixel
  OBVIOUS
<1>4. xl \in Int /\ xh \in Int /\ xn \in Int /\ xl <= xh /\ xh < xn
  BY <1>1, <1>2, <1>3, Stretched
<1>5. yl \in Int /\ yh \in Int /\ yn \in Int /\ yl <= yh /\ yh < yn
  BY <1>1, <1>2, <1>3, Stretched
<1>6. PICK x, y : x = Clamp(p[1], xl, xh) /\ y = Clamp(p[2], yl, yh)
  OBVIOUS
<1>7. x \in Int /\ xl <= x /\ x < xn
  BY <1>2, <1>4, <1>6 DEF Clamp
<1>8. y \in Int /\ yl <= y /\ y < yn
  BY <1>2, <1>5, <1>6 DEF Clamp
<1>9. ClampToDisplay(p, d) = <<x, y>>
  BY <1>3, <1>6 DEF ClampToDisplay
<1>10. OnDisplay(<<x, y>>, d, Pixel)
  BY <1>3, <1>7, <1>8 DEF OnDisplay
<1> QED BY <1>7, <1>8, <1>9, <1>10 DEF DisplaysAt

LEMMA MotionKeeps ==
  ASSUME FrontInv, CursorInv, Motion, UNCHANGED mouse_config
  PROVE  CursorInv'
<1>1. mouse_config \in MouseConfigs
  BY DEF FrontInv, FrontTypeOK
<1>2. PICK by : by = AskedMotion /\ by \in Int \X Int
  <2>1. InCall("motion")
    BY DEF Motion
  <2>2. Head(calls).by \in Int \X Int
    BY <2>1, HeadFacts, CallFacts DEF InCall
  <2>3. mouse_config.speed_num \in Int
    BY <1>1, SinkAssumption
  <2>4. PICK v \in Int \X Int, n \in Int : v = Head(calls).by /\ n = mouse_config.speed_num
    BY <2>2, <2>3
  <2>5. v[1] * n \in Int /\ v[2] * n \in Int
    OBVIOUS
  <2>6. AskedMotion = <<v[1] * n, v[2] * n>>
    BY <2>4 DEF AskedMotion, Moved
  <2> DEFINE x == v[1] * n
             y == v[2] * n
  <2> HIDE DEF x, y
  <2>7. <<x, y>> \in Int \X Int
    BY <2>5 DEF x, y
  <2> QED BY <2>6, <2>7 DEF x, y
<1> DEFINE new == <<cursor[1] + by[1], cursor[2] + by[2]>>
<1>3. new \in Int \X Int
  <2>1. cursor[1] \in Int /\ cursor[2] \in Int /\ by[1] \in Int /\ by[2] \in Int
    BY <1>2 DEF CursorInv
  <2> QED BY <2>1
<1>4. \A x : DisplaysAt(x)' = DisplaysAt(x')
  BY DEF DisplaysAt, OnDisplay, Pixel
<1>5. CASE UNCHANGED cursor
  BY <1>5, <1>4 DEF CursorInv
<1>6. CASE cursor' \in ClampedToScreenSpace(cursor, by)
  <2>1. PICK d \in EmDisplays : cursor' = ClampToDisplay(new, d)
    BY <1>6 DEF CursorInv, ClampedToScreenSpace, DisplaysAt
  <2> HIDE DEF new
  <2>2. cursor' \in Int \X Int /\ d \in DisplaysAt(cursor')
    BY <1>1, <1>3, <2>1, ClampFacts
  <2> QED BY <1>4, <2>2 DEF CursorInv
<1> QED BY <1>2, <1>5, <1>6 DEF Motion

LEMMA CursorStep ==
  ASSUME FrontInv, CursorInv, [SinksNext]_sinksVars
  PROVE  CursorInv'
<1>0. UNCHANGED mouse_config
  BY ConfigStays
<1>1. CASE Motion
  BY <1>0, <1>1, MotionKeeps
<1>2. CASE ~Motion
  <2>1. UNCHANGED cursor
    <3>1. ASSUME MacEmulationNext PROVE UNCHANGED cursor
      BY <1>2, <3>1
      DEF MacEmulationNext, MacConsume, SpecialKey, MappedKey, UnmappedKey, SetModifiers, MacNoOp, Button,
          Axis, Scroll, Cancelled, MacTask, PollTask, EndTask, Repeat, RepeatMissingNotification
    <3>2. ASSUME VhidEmulationNext PROVE UNCHANGED cursor
      BY <1>2, <3>2
      DEF VhidEmulationNext, VhidConsume, VhidKey, VhidSpecialKey, VhidMotion, VhidButton, VhidScroll, Button,
          Axis, Scroll, VhidNoOp, VhidTerminate, SinkChanges
    <3> QED BY <3>1, <3>2 DEF SinksNext, FrontStep, Of, OthersIdle, Quartz, sinksVars
  <2>2. DisplaysAt(cursor)' = DisplaysAt(cursor)
    BY <1>0, <2>1 DEF DisplaysAt, OnDisplay, Pixel
  <2> QED BY <2>1, <2>2 DEF CursorInv
<1> QED BY <1>1, <1>2

LEMMA CursorInitially == SinksInit => CursorInv
<1> SUFFICES ASSUME SinksInit PROVE CursorInv
  OBVIOUS
<1>1. Pixel \in Nat \ {0} /\ cursor = <<CursorStart[1] * Pixel, CursorStart[2] * Pixel>>
  BY PixelFacts DEF SinksInit, SinkInit, QuartzInit
<1>2. PICK d \in EmDisplays : OnDisplay(CursorStart, d, 1)
  BY QuartzAssumption
<1>3. PICK x \in Int, y \in Int : x = CursorStart[1] /\ y = CursorStart[2]
  BY QuartzAssumption
<1>4. d.x0 \in Int /\ d.x1 \in Int /\ d.y0 \in Int /\ d.y1 \in Int
      /\ d.x0 <= x /\ x < d.x1 /\ d.y0 <= y /\ y < d.y1
  BY <1>2, <1>3, QuartzAssumption DEF OnDisplay
<1>5. ASSUME NEW a \in Int, NEW b \in Int, NEW n \in Nat \ {0}
      PROVE  /\ a * n \in Int
             /\ a <= b => a * n <= b * n
             /\ a < b => a * n < b * n
  <2>1. CASE a < b
    BY <2>1, <1>5, Stretched
  <2> QED BY <2>1, <1>5
<1>6. d.x0 * Pixel <= x * Pixel /\ x * Pixel < d.x1 * Pixel /\ x * Pixel \in Int
  BY <1>1, <1>4, <1>5
<1>7. d.y0 * Pixel <= y * Pixel /\ y * Pixel < d.y1 * Pixel /\ y * Pixel \in Int
  BY <1>1, <1>4, <1>5
<1>8. cursor = <<x * Pixel, y * Pixel>>
  BY <1>1, <1>3
<1>9. OnDisplay(cursor, d, Pixel)
  BY <1>6, <1>7, <1>8 DEF OnDisplay
<1> QED BY <1>6, <1>7, <1>8, <1>9 DEF CursorInv, DisplaysAt

\* For any displays, with gaps between them or not, any motion and any speed: the cursor
\* ends on a display, or stays on the one it was on (clamp_to_screen_space).
THEOREM CursorStaysOnDisplay == SinksSpec => []CursorOnDisplay
<1>1. KeysInv /\ CursorInv /\ [SinksNext]_sinksVars => CursorInv'
  BY CursorStep DEF KeysInv
<1>2. CursorInv => CursorOnDisplay
  BY DEF CursorInv, CursorOnDisplay
<1> QED BY <1>1, <1>2, CursorInitially, KeysInitially, KeysStep, PTL DEF SinksSpec

------------------------------------------------------------------------------
\* What is posted of the pointer.
LEMMA Products ==
  ASSUME NEW a \in Int, NEW b \in Nat \ {0}
  PROVE  a * b \in Int /\ (a > 0 => a * b > 0) /\ (a < 0 => a * b < 0)
OBVIOUS

LEMMA Ratios ==
  ASSUME NEW a \in Nat, NEW b \in Nat \ {0}
  PROVE  a \div b \in Nat /\ (a >= b => a \div b >= 1)
OBVIOUS

LEMMA Signs ==
  ASSUME NEW v \in Int
  PROVE  /\ Sign(v) \in {-1, 0, 1} /\ Magnitude(v) \in Nat
         /\ Sign(-v) = -Sign(v) /\ Magnitude(-v) = Magnitude(v)
         /\ v > 0 <=> Sign(v) = 1
         /\ v < 0 <=> Sign(v) = -1
         /\ v = 0 <=> Sign(v) = 0
         /\ v = 0 <=> Magnitude(v) = 0
BY DEF Sign, Magnitude

\* A number with a sign.
LEMMA Signed ==
  ASSUME NEW s \in {-1, 0, 1}, NEW n \in Nat
  PROVE  s * n \in Int /\ Magnitude(s * n) = (IF s = 0 THEN 0 ELSE n)
         /\ (n > 0 => Sign(s * n) = s) /\ (n = 0 => s * n = 0)
<1>1. CASE s = 0
  <2>1. s * n = 0
    BY <1>1
  <2> QED BY <1>1, <2>1 DEF Sign, Magnitude
<1>2. CASE s = 1
  <2>1. s * n = n
    BY <1>2
  <2> QED BY <1>2, <2>1 DEF Sign, Magnitude
<1>3. CASE s = -1
  <2>1. s * n = -n
    BY <1>3
  <2> QED BY <1>3, <2>1 DEF Sign, Magnitude
<1> QED BY <1>1, <1>2, <1>3

\* Scaling goes the same way, and never to zero.
LEMMA ScaledFacts ==
  ASSUME mouse_config \in MouseConfigs, NEW v \in Int
  PROVE  /\ Scaled(v) \in Int
         /\ mouse_config.scroll_num > 0 => Sign(Scaled(v)) = Sign(v)
         /\ v = 0 => Scaled(v) = 0
<1>1. PICK n, d : n = mouse_config.scroll_num /\ d = mouse_config.scroll_den /\ n \in Int /\ d \in Nat \ {0}
  BY SinkAssumption
<1>2. PICK num : num = v * n
  OBVIOUS
<1>3. num \in Int
  BY <1>1, <1>2
<1>4. PICK q : q = (2 * Magnitude(num) + d) \div (2 * d)
  OBVIOUS
<1>5. Magnitude(num) \in Nat /\ Sign(num) \in {-1, 0, 1}
  BY <1>3, Signs
<1>6. q \in Nat /\ (Magnitude(num) >= d => q >= 1)
  <2> DEFINE a == 2 * Magnitude(num) + d
             b == 2 * d
  <2>1. a \in Nat /\ b \in Nat \ {0} /\ (Magnitude(num) >= d => a >= b)
    BY <1>1, <1>5
  <2>2. q = a \div b
    BY <1>4
  <2> HIDE DEF a, b
  <2> QED BY <2>1, <2>2, Ratios
<1>7. Scaled(v) = IF 0 < Magnitude(num) /\ Magnitude(num) < d THEN Sign(num) ELSE Sign(num) * q
  BY <1>1, <1>2, <1>4 DEF Scaled
<1>8. Sign(num) * q \in Int
  BY <1>5, <1>6
<1>9. Scaled(v) \in Int
  BY <1>5, <1>7, <1>8
<1>10. num = 0 => Scaled(v) = 0
  <2>1. num = 0 => Magnitude(num) = 0 /\ Sign(num) = 0
    BY DEF Magnitude, Sign
  <2>2. 0 * q = 0
    BY <1>6
  <2> QED BY <1>7, <2>1, <2>2
<1>11. Sign(Scaled(v)) = Sign(num)
  <2>1. CASE num = 0
    BY <1>10, <2>1
  <2>2. CASE 0 < Magnitude(num) /\ Magnitude(num) < d
    BY <1>5, <1>7, <2>2 DEF Sign
  <2>3. CASE Magnitude(num) >= d
    <3>1. q > 0 /\ Scaled(v) = Sign(num) * q
      BY <1>1, <1>5, <1>6, <1>7, <2>3
    <3> QED BY <1>5, <1>6, <3>1, Signed
  <2>4. num # 0 => Magnitude(num) > 0
    BY <1>3 DEF Magnitude
  <2> QED BY <1>1, <1>5, <2>1, <2>2, <2>3, <2>4
<1>12. n > 0 => Sign(num) = Sign(v)
  <2> HAVE n > 0
  <2>1. n \in Nat \ {0}
    BY <1>1
  <2>2. (v > 0 => num > 0) /\ (v < 0 => num < 0)
    BY <1>2, <2>1, Products
  <2>3. v = 0 => num = 0
    BY <1>1, <1>2
  <2> QED BY <1>3, <2>2, <2>3 DEF Sign
<1>13. v = 0 => num = 0
  BY <1>1, <1>2
<1> QED BY <1>1, <1>9, <1>10, <1>11, <1>12, <1>13

\* It is enough that what is posted has the direction of what is wanted, and is not
\* nothing when that is a step or more.
LEMMA ScrollPosted ==
  ASSUME mouse_config \in MouseConfigs, NEW v \in Int, NEW got, NEW w, w = Directed(Scaled(v)),
         Magnitude(w) >= 120 => got # 0,
         w # 0 /\ got # 0 => Sign(got) = Sign(w),
         posted' = [op |-> "scroll", value |-> v, amount |-> got], UNCHANGED mouse_config
  PROVE  ScrollKept'
<1>1. Scaled(v) \in Int /\ (mouse_config.scroll_num > 0 => Sign(Scaled(v)) = Sign(v))
  BY ScaledFacts
<1>2. mouse_config.scroll_num > 0 => Sign(w) = Sign(Directed(v))
  <2>1. Sign(-Scaled(v)) = -Sign(Scaled(v)) /\ Sign(-v) = -Sign(v)
    BY <1>1, Signs
  <2> QED BY <1>1, <2>1 DEF Directed
<1>3. w \in Int /\ Directed(v) \in Int /\ (v # 0 => Directed(v) # 0)
  BY <1>1 DEF Directed
<1>4. mouse_config.scroll_num > 0 /\ v # 0 => w # 0
  BY <1>2, <1>3, Signs
<1>5. posted'.value = v /\ posted'.amount = got
  OBVIOUS
<1>6. Directed(Scaled(v))' = w /\ Directed(v)' = Directed(v)
  BY DEF Directed, Scaled
<1> QED BY <1>2, <1>4, <1>5, <1>6 DEF ScrollKept, Directed, Scaled

\* Whole lines, or steps: rounded towards zero.
LEMMA Quotients ==
  ASSUME NEW w \in Int, NEW n \in {40, 120}
  PROVE  /\ Magnitude(w) >= 120 => Quotient(w, n) # 0
         /\ Quotient(w, n) # 0 => Sign(Quotient(w, n)) = Sign(w)
<1>1. Magnitude(w) \in Nat /\ Sign(w) \in {-1, 0, 1}
  BY Signs
<1>2. PICK q : q = Magnitude(w) \div n
  OBVIOUS
<1>3. q \in Nat /\ (Magnitude(w) >= 120 => q > 0)
  BY <1>1, <1>2
<1>4. Quotient(w, n) = Sign(w) * q
  BY <1>2 DEF Quotient
<1>5. q > 0 => Sign(Quotient(w, n)) = Sign(w)
  BY <1>1, <1>3, <1>4, Signed
<1>6. q = 0 => Quotient(w, n) = 0
  BY <1>1, <1>3, <1>4, Signed
<1>7. Magnitude(w) >= 120 => Sign(w) # 0
  BY Signs
<1>8. Sign(0) = 0
  BY DEF Sign
<1> QED BY <1>3, <1>5, <1>6, <1>7, <1>8

\* What is not cut is kept, and what is cut to whole units is, too.
LEMMA WholeKept ==
  ASSUME NEW w \in Int, NEW n \in Nat \ {0}
  PROVE  Kept(w, w, n) /\ Kept(w, Truncated(w, n), n)
<1>1. Magnitude(w) \in Nat /\ Sign(w) \in {-1, 0, 1}
  BY Signs
<1>2. PICK q, m : m = Magnitude(w) /\ q = m \div n
  OBVIOUS
<1>3. PICK t : t = q * n
  OBVIOUS
<1>4. m \in Nat /\ q \in Nat /\ t \in Nat /\ t <= m /\ m < t + n /\ (q = 0 => t = 0)
  BY <1>1, <1>2, <1>3
<1>5. CASE Sign(w) = 1
  <2>1. w > 0 /\ m = w
    BY <1>2, <1>5, Signs DEF Magnitude
  <2>2. Truncated(w, n) = t
    <3>1. 1 * q = q
      BY <1>4
    <3> QED BY <1>2, <1>3, <1>5, <3>1 DEF Truncated, Quotient
  <2> QED BY <1>4, <2>1, <2>2 DEF Kept, Magnitude, Sign
<1>6. CASE Sign(w) = -1
  <2>1. w < 0 /\ m = -w
    BY <1>2, <1>6, Signs DEF Magnitude
  <2>2. Truncated(w, n) = -t
    <3>1. (-1) * q = -q
      BY <1>4
    <3>2. (-q) * n = -t
      BY <1>3, <1>4
    <3> QED BY <1>2, <1>6, <3>1, <3>2 DEF Truncated, Quotient
  <2> QED BY <1>4, <2>1, <2>2 DEF Kept, Magnitude, Sign
<1>7. CASE Sign(w) = 0
  <2>1. w = 0
    BY <1>7, Signs
  <2>2. Truncated(w, n) = 0
    <3>1. 0 * q = 0 /\ 0 * n = 0
      BY <1>4
    <3> QED BY <1>2, <1>7, <3>1 DEF Truncated, Quotient
  <2> QED BY <2>1, <2>2 DEF Kept, Magnitude, Sign
<1> QED BY <1>1, <1>5, <1>6, <1>7

\* The same of products: a positive factor does not turn anything round.
LEMMA ProductSign ==
  ASSUME NEW v \in Int, NEW n \in Int
  PROVE  v * n \in Int /\ (n > 0 => Sign(v * n) = Sign(v))
<1>1. v * n \in Int
  OBVIOUS
<1>2. ASSUME n > 0 PROVE Sign(v * n) = Sign(v)
  <2>1. n \in Nat \ {0}
    BY <1>2
  <2>2. (v > 0 => v * n > 0) /\ (v < 0 => v * n < 0) /\ (v = 0 => v * n = 0)
    BY <2>1, Products
  <2> QED BY <1>1, <2>2 DEF Sign
<1> QED BY <1>1, <1>2

LEMMA MotionPosted ==
  ASSUME mouse_config \in MouseConfigs, NEW v \in Int \X Int, NEW m,
         \/ m = Moved(v)
         \/ m = <<Truncated(Moved(v)[1], Pixel), Truncated(Moved(v)[2], Pixel)>>,
         posted' = [op |-> "motion", by |-> v, moved |-> m], UNCHANGED mouse_config
  PROVE  MotionKept'
<1>1. mouse_config.speed_num \in Int /\ Pixel \in Nat \ {0}
  BY SinkAssumption, PixelFacts
<1>2. ASSUME NEW i \in {1, 2}
      PROVE  /\ Moved(v)[i] = v[i] * mouse_config.speed_num
             /\ v[i] \in Int /\ Moved(v)[i] \in Int
             /\ m[i] = Moved(v)[i] \/ m[i] = Truncated(Moved(v)[i], Pixel)
  <2>1. Moved(v)[i] = v[i] * mouse_config.speed_num
    BY DEF Moved
  <2>2. v[i] \in Int
    OBVIOUS
  <2>3. v[i] * mouse_config.speed_num \in Int
    BY <1>1, <2>2, ProductSign
  <2> QED BY <2>1, <2>2, <2>3
<1>3. ASSUME NEW i \in {1, 2}
      PROVE  /\ Kept(Moved(v)[i], m[i], Pixel)
             /\ mouse_config.speed_num > 0 /\ m[i] # 0 => Sign(m[i]) = Sign(v[i])
  <2>1. Kept(Moved(v)[i], m[i], Pixel)
    BY <1>1, <1>2, WholeKept
  <2>2. mouse_config.speed_num > 0 => Sign(Moved(v)[i]) = Sign(v[i])
    BY <1>1, <1>2, ProductSign
  <2> QED BY <2>1, <2>2 DEF Kept
<1>4. posted'.by = v /\ posted'.moved = m
  OBVIOUS
<1>5. Moved(v)' = Moved(v) /\ Pixel' = Pixel /\ \A a, b, n : Kept(a, b, n)' = Kept(a', b', n')
  BY DEF Moved, Pixel, Kept, Magnitude, Sign
<1> QED BY <1>3, <1>4, <1>5 DEF MotionKept, Moved, Pixel, Kept

LEMMA AxisPosted ==
  ASSUME mouse_config \in MouseConfigs, NEW v \in Int, NEW got, NEW w, w = Rolled(v),
         \/ got \in {w, Truncated(w, Unit)}
         \/ backend = "x11" /\ got = IF w < 0 THEN -1 ELSE 1,
         posted' = [op |-> "axis", value |-> v, amount |-> got],
         UNCHANGED mouse_config, backend' = backend
  PROVE  AxisKept'
<1>1. PICK n \in Int : n = mouse_config.scroll_num
  BY SinkAssumption
<1>2. v * n \in Int /\ (n > 0 => Sign(v * n) = Sign(v))
  BY ProductSign
<1>3. Directed(v * n) \in Int /\ Sign(-(v * n)) = -Sign(v * n) /\ Sign(-v) = -Sign(v)
  BY <1>2, Signs DEF Directed
<1>4. w \in Int /\ (n > 0 => Sign(w) = Sign(Directed(v)))
  BY <1>1, <1>2, <1>3 DEF Rolled, Directed
<1>5. Directed(v) \in Int /\ (v # 0 => Directed(v) # 0)
  BY DEF Directed
<1>6. n > 0 /\ v # 0 => w # 0
  BY <1>4, <1>5, Signs
<1>7. /\ backend # "x11" => Kept(w, got, Unit)
      /\ w # 0 /\ got # 0 => Sign(got) = Sign(w)
  <2>1. CASE got \in {w, Truncated(w, Unit)}
    <3>1. Kept(w, got, Unit)
      BY <1>4, <2>1, WholeKept, PixelFacts
    <3> QED BY <3>1 DEF Kept
  <2>2. CASE backend = "x11" /\ got = IF w < 0 THEN -1 ELSE 1
    BY <1>4, <2>2 DEF Sign
  <2> QED BY <2>1, <2>2
<1>8. posted'.value = v /\ posted'.amount = got
  OBVIOUS
<1>9. Rolled(v)' = w /\ Unit' = Unit /\ Directed(v)' = Directed(v) /\ mouse_config'.scroll_num = n
  BY <1>1 DEF Rolled, Directed, Unit
<1> QED BY <1>1, <1>4, <1>6, <1>7, <1>8, <1>9 DEF AxisKept, Rolled, Directed, Unit, Kept

\* A step of a backend leaves what has been posted alone, or posts what it is asked for.
PointerMoves ==
  \/ UNCHANGED posted
  \/ /\ InCall("button")
     /\ \/ PostButton(Head(calls).button)
        \/ backend = "x11" /\ Head(calls).button \notin KnownButtons /\ PostButton("left")
  \/ InCall("motion") /\ (PostMotion(AskedMotion) \/ PostMotion(WholeMotion))
  \/ /\ InCall("axis")
     /\ \/ PostAxis(AskedAxis) \/ PostAxis(WholeAxis)
        \/ backend = "x11" /\ PostAxis(IF AskedAxis < 0 THEN -1 ELSE 1)
  \/ /\ InCall("scroll")
     /\ \E got \in {AskedScroll, Quotient(AskedScroll, 40), Quotient(AskedScroll, 120),
                    IF AskedScroll < 0 THEN -1 ELSE 1} : PostScroll(got)

LEMMA QuartzMoves ==
  ASSUME Motion \/ Button \/ Axis \/ Scroll
  PROVE  PointerMoves
<1>1. CASE Motion
  BY <1>1 DEF Motion, PointerMoves
<1>2. CASE Button
  BY <1>2 DEF Button, PointerMoves
<1>3. CASE Axis
  BY <1>3 DEF Axis, PointerMoves
<1>4. CASE Scroll
  <2>1. 120 \div LinesPerStep = 40
    BY DEF LinesPerStep
  <2> QED BY <1>4, <2>1 DEF Scroll, PointerMoves
<1> QED BY <1>1, <1>2, <1>3, <1>4

LEMMA BackendMoves ==
  ASSUME \/ Of("macos", MacEmulationNext) \/ Of("macos_vhid", VhidEmulationNext)
         \/ Of("windows", WindowsEmulationNext) \/ Of("x11", X11EmulationNext)
         \/ Of("wlroots", WlrootsEmulationNext) \/ Of("libei", LibeiEmulationNext)
         \/ Of("xdp", PortalEmulationNext)
  PROVE  PointerMoves
<1>1. ASSUME MacEmulationNext PROVE PointerMoves
  <2>1. CASE Motion \/ Button \/ Axis \/ Scroll
    BY <2>1, QuartzMoves
  <2>2. CASE ~(Motion \/ Button \/ Axis \/ Scroll)
    <3>1. UNCHANGED posted
      BY <1>1, <2>2
      DEF MacEmulationNext, MacConsume, SpecialKey, MappedKey, UnmappedKey, SetModifiers, MacNoOp, Cancelled,
          MacTask, PollTask, EndTask, Repeat, RepeatMissingNotification, PostNothing, sinkVars, desktopVars
    <3> QED BY <3>1 DEF PointerMoves
  <2> QED BY <2>1, <2>2
<1>2. ASSUME VhidEmulationNext PROVE PointerMoves
  <2>1. CASE Motion \/ Button \/ Axis \/ Scroll
    BY <2>1, QuartzMoves
  <2>2. CASE ~(Motion \/ Button \/ Axis \/ Scroll)
    <3>1. UNCHANGED posted
      BY <1>2, <2>2
      DEF VhidEmulationNext, VhidConsume, VhidKey, VhidSpecialKey, VhidMotion, VhidButton, VhidScroll, VhidNoOp,
          VhidTerminate, SinkChanges, PostNothing
    <3> QED BY <3>1 DEF PointerMoves
  <2> QED BY <2>1, <2>2
<1>3. ASSUME WindowsEmulationNext PROVE PointerMoves
  <2>1. CASE WinButton \/ WinScroll \/ WinMotion
    BY <2>1 DEF WinButton, WinScroll, WinMotion, PointerMoves
  <2>2. CASE ~(WinButton \/ WinScroll \/ WinMotion)
    <3>1. UNCHANGED posted
      BY <1>3, <2>2
      DEF WindowsEmulationNext, WinConsume, WinKey, WinNoOp, WinRepeat, InputDesktopChanges,
          PostNothing, sinkVars, desktopVars
    <3> QED BY <3>1 DEF PointerMoves
  <2> QED BY <2>1, <2>2
<1>4. ASSUME X11EmulationNext, backend = "x11" PROVE PointerMoves
  <2>1. CASE X11Button
    BY <1>4, <2>1 DEF X11Button, PointerMoves
  <2>2. CASE X11Scroll \/ X11Motion
    BY <1>4, <2>2 DEF X11Scroll, X11Motion, PointerMoves
  <2>3. CASE ~(X11Button \/ X11Scroll \/ X11Motion)
    BY <1>4, <2>3 DEF X11EmulationNext, X11Key, X11NoOp, PostNothing, PointerMoves
  <2> QED BY <2>1, <2>2, <2>3
<1>5. ASSUME WlrootsEmulationNext PROVE PointerMoves
  <2>1. CASE WlrPointer
    BY <2>1 DEF WlrPointer, PointerMoves
  <2>2. CASE ~WlrPointer
    <3>1. UNCHANGED posted
      BY <1>5, <2>2
      DEF WlrootsEmulationNext, Discard, WlrKey, WlrModifiers, WlrCreate, WlrDestroy, WlrTerminate, PostNothing
    <3> QED BY <3>1 DEF PointerMoves
  <2> QED BY <2>1, <2>2
<1>6. ASSUME LibeiEmulationNext PROVE PointerMoves
  <2>1. CASE EiConsume /\ EiPosts
    BY <2>1 DEF EiPosts, PointerMoves
  <2>2. CASE ~(EiConsume /\ EiPosts)
    <3>1. UNCHANGED posted
      BY <1>6, <2>2
      DEF LibeiEmulationNext, EiServer, ServerAdds, ServerResumes, ServerPauses, ServerRemoves,
          ServerDisconnects, EiTell, EiTask, EiSinkConsume, EiTakeError, EiConsume, EiFlushFails, EiNoOp,
          EiTerminate, PostNothing, sinkVars, desktopVars
    <3> QED BY <3>1 DEF PointerMoves
  <2> QED BY <2>1, <2>2
<1>7. ASSUME PortalEmulationNext PROVE PointerMoves
  <2>1. CASE PortalPointer
    BY <2>1 DEF PortalPointer, PointerMoves
  <2>2. CASE ~PortalPointer
    <3>1. UNCHANGED posted
      BY <1>7, <2>2
      DEF PortalEmulationNext, PortalConsume, PortalKey, PortalFails, PortalIgnores, PortalClose,
          PortalClosed, PortalRevoked, PostNothing
    <3> QED BY <3>1 DEF PointerMoves
  <2> QED BY <2>1, <2>2
<1> QED BY <1>1, <1>2, <1>3, <1>4, <1>5, <1>6, <1>7 DEF Of

\* Whatever has been posted is kept if it is of the kind that op says.
LEMMA OtherKinds ==
  /\ posted'.op # "button" => ButtonKept'
  /\ posted'.op # "motion" => MotionKept'
  /\ posted'.op # "axis" => AxisKept'
  /\ posted'.op # "scroll" => ScrollKept'
BY DEF ButtonKept, MotionKept, AxisKept, ScrollKept

LEMMA PointerStays ==
  ASSUME FrontInv, PointerKept, [SinksNext]_sinksVars
  PROVE  PointerKept'
<1>1. UNCHANGED <<mouse_config, scenario>> /\ backend' = backend /\ mouse_config \in MouseConfigs
  <2>1. UNCHANGED scenario /\ backend' = backend
    BY DEF SinksNext, FrontStep, Of, sinksVars, backend
  <2> QED BY <2>1, ConfigStays DEF FrontInv, FrontTypeOK
<1>2. CASE UNCHANGED posted
  <2>1. ButtonKept' /\ MotionKept'
    BY <1>1, <1>2 DEF PointerKept, ButtonKept, MotionKept, Kept, Moved, Pixel
  <2>2. AxisKept' /\ ScrollKept'
    BY <1>1, <1>2 DEF PointerKept, AxisKept, ScrollKept, Kept, Rolled, Unit, Directed, Scaled
  <2> QED BY <2>1, <2>2 DEF PointerKept
<1>3. CASE posted' = NoPost
  <2>1. posted'.op = "none"
    BY <1>3 DEF NoPost
  <2> QED BY <2>1, OtherKinds DEF PointerKept
<1>4. CASE /\ InCall("button")
           /\ \/ PostButton(Head(calls).button)
              \/ backend = "x11" /\ Head(calls).button \notin KnownButtons /\ PostButton("left")
  <2>1. posted'.op = "button" /\ posted'.button = Head(calls).button
        /\ \/ posted'.got = posted'.button
           \/ backend = "x11" /\ posted'.button \notin KnownButtons /\ posted'.got = "left"
    BY <1>4 DEF PostButton
  <2>2. ButtonKept'
    BY <1>1, <2>1 DEF ButtonKept, KnownButtons
  <2> QED BY <2>1, <2>2, OtherKinds DEF PointerKept
<1>5. CASE InCall("motion") /\ (PostMotion(AskedMotion) \/ PostMotion(WholeMotion))
  <2>1. PICK v \in Int \X Int : v = Head(calls).by
    BY <1>5, HeadFacts, CallFacts DEF InCall
  <2>2. PICK m : /\ posted' = [op |-> "motion", by |-> v, moved |-> m]
                 /\ \/ m = Moved(v)
                    \/ m = <<Truncated(Moved(v)[1], Pixel), Truncated(Moved(v)[2], Pixel)>>
    BY <1>5, <2>1 DEF PostMotion, AskedMotion, WholeMotion
  <2>3. MotionKept'
    BY <1>1, <2>2, MotionPosted
  <2>4. posted'.op = "motion"
    BY <2>2
  <2> QED BY <2>3, <2>4, OtherKinds DEF PointerKept
<1>6. CASE /\ InCall("axis")
           /\ \/ PostAxis(AskedAxis) \/ PostAxis(WholeAxis)
              \/ backend = "x11" /\ PostAxis(IF AskedAxis < 0 THEN -1 ELSE 1)
  <2>1. PICK v \in Int : v = Head(calls).value
    BY <1>6, HeadFacts, CallFacts DEF InCall
  <2>2. PICK w : w = Rolled(v)
    OBVIOUS
  <2>3. PICK got : /\ posted' = [op |-> "axis", value |-> v, amount |-> got]
                   /\ \/ got \in {w, Truncated(w, Unit)}
                      \/ backend = "x11" /\ got = IF w < 0 THEN -1 ELSE 1
    BY <1>6, <2>1, <2>2 DEF PostAxis, AskedAxis, WholeAxis
  <2>4. AxisKept'
    BY <1>1, <2>2, <2>3, AxisPosted
  <2>5. posted'.op = "axis"
    BY <2>3
  <2> QED BY <2>4, <2>5, OtherKinds DEF PointerKept
<1>7. CASE /\ InCall("scroll")
           /\ \E got \in {AskedScroll, Quotient(AskedScroll, 40), Quotient(AskedScroll, 120),
                          IF AskedScroll < 0 THEN -1 ELSE 1} : PostScroll(got)
  <2>1. PICK v \in Int : v = Head(calls).value
    BY <1>7, HeadFacts, CallFacts DEF InCall
  <2>2. PICK w : w = Directed(Scaled(v))
    OBVIOUS
  <2>3. PICK got \in {w, Quotient(w, 40), Quotient(w, 120), IF w < 0 THEN -1 ELSE 1} :
          posted' = [op |-> "scroll", value |-> v, amount |-> got]
    BY <1>7, <2>1, <2>2 DEF PostScroll, AskedScroll
  <2>4. w \in Int
    BY <1>1, <2>2, ScaledFacts DEF Directed
  <2>5. /\ Magnitude(w) >= 120 => got # 0
        /\ w # 0 /\ got # 0 => Sign(got) = Sign(w)
    <3>1. Magnitude(w) >= 120 => w # 0
      BY <2>4, Signs
    <3>2. LET one == IF w < 0 THEN -1 ELSE 1 IN one # 0 /\ (w # 0 => Sign(one) = Sign(w))
      BY <2>4 DEF Sign
    <3> QED BY <2>3, <2>4, <3>1, <3>2, Quotients
  <2>6. ScrollKept'
    BY <1>1, <2>1, <2>2, <2>3, <2>5, ScrollPosted
  <2>7. posted'.op = "scroll"
    BY <2>3
  <2> QED BY <2>6, <2>7, OtherKinds DEF PointerKept
<1>8. CASE FrontStep(Input(scenario.handles, scenario.keys)) \/ FrontStep(Ending)
  <2>1. UNCHANGED posted \/ posted' = NoPost
    BY <1>8 DEF FrontStep, Input, ConsumeKey, ConsumeModifiers, ConsumePointer, RemoveHandle, Ending,
                EndSession, Terminate, Event, Destroy, desktopVars
  <2> QED BY <1>2, <1>3, <2>1
<1>9. CASE UNCHANGED sinksVars
  BY <1>2, <1>9 DEF sinksVars, sinkVars, desktopVars
<1>10. CASE PointerMoves
  BY <1>2, <1>4, <1>5, <1>6, <1>7, <1>10 DEF PointerMoves
<1> QED BY <1>8, <1>9, <1>10, BackendMoves DEF SinksNext

\* For any motion and scroll value and any factors, on every backend: motion and continuous
\* scrolling are cut by less than a pixel or unit of each event and never turned round,
\* unless the factor does; a whole step of the wheel is never scaled or rounded away; and
\* a button is posted as itself, or as the left one on X11 if it has no name.
THEOREM PointerIsKept == SinksSpec => []PointerKept
<1>1. SinksInit => PointerKept
  BY DEF SinksInit, SinkInit, NoPost, PointerKept, ButtonKept, MotionKept, AxisKept, ScrollKept
<1>2. KeysInv /\ PointerKept /\ [SinksNext]_sinksVars => PointerKept'
  BY PointerStays DEF KeysInv
<1> QED BY <1>1, <1>2, KeysInitially, KeysStep, PTL DEF SinksSpec
===============================================================================
