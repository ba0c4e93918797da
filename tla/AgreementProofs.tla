--------------------------- MODULE AgreementProofs ---------------------------
(***************************************************************************)
(* The service and the capture task never lose track of each other: the    *)
(* requests still in the channel turn the barriers the task watches into   *)
(* the barriers the service wants, and each of them is one the task can    *)
(* carry out.                                                              *)
(*                                                                         *)
(* The argument is about one handle at a time.  Agree says of a channel q  *)
(* that it leads from what the task has for the handle to what the service *)
(* wants for it.  Sending and receiving one request keep it; the actions   *)
(* of the service are made of such sends.                                  *)
(***************************************************************************)
EXTENDS DeviceProofs

USE DEF channelVars, registryVars, captureTaskVars, taskVars, inputCaptureVars, backendVars

AboutIn(q, h, i) == q[i].op \in {"Create", "Destroy"} /\ q[i].handle = h

\* q leads from the captures in has to those in want, as far as h goes.
Agree(q, has, want, h) ==
  /\ (\A i \in 1 .. Len(q) : ~AboutIn(q, h, i)) => has = want
  /\ \A i \in 1 .. Len(q) :
       AboutIn(q, h, i) /\ (\A k \in i + 1 .. Len(q) : ~AboutIn(q, h, k))
         => want = IF q[i].op = "Destroy" THEN {} ELSE {Capture(h, q[i].pos, q[i].type)}
  /\ \A i \in 1 .. Len(q) :
       AboutIn(q, h, i) /\ (\A k \in 1 .. i - 1 : ~AboutIn(q, h, k))
         => (q[i].op = "Create" <=> has = {})
  /\ \A i \in 1 .. Len(q) : \A j \in i + 1 .. Len(q) :
       AboutIn(q, h, i) /\ AboutIn(q, h, j) /\ (\A k \in i + 1 .. j - 1 : ~AboutIn(q, h, k))
         => q[i].op # q[j].op

\* What Append and Tail do to the positions of a channel.
LEMMA AppendAt ==
  ASSUME NEW q \in Seq(Requests), NEW r \in Requests
  PROVE  /\ Append(q, r) \in Seq(Requests)
         /\ Len(q) \in Nat /\ Len(Append(q, r)) = Len(q) + 1
         /\ \A i \in 1 .. Len(q) : Append(q, r)[i] = q[i]
         /\ Append(q, r)[Len(q) + 1] = r
BY AppendProperties, LenProperties

LEMMA TailAt ==
  ASSUME NEW q \in Seq(Requests), q # <<>>
  PROVE  /\ Tail(q) \in Seq(Requests)
         /\ Len(q) \in Nat /\ Len(q) >= 1 /\ Len(Tail(q)) = Len(q) - 1
         /\ \A i \in 1 .. Len(q) - 1 : Tail(q)[i] = q[i + 1]
         /\ Head(q) = q[1]
BY HeadTailProperties, LenProperties

\* A request about another handle, or about none, changes nothing for h.
LEMMA SendOther ==
  ASSUME NEW q \in Seq(Requests), NEW has, NEW want, NEW h, Agree(q, has, want, h),
         NEW r \in Requests, ~(r.op \in {"Create", "Destroy"} /\ r.handle = h)
  PROVE  Agree(Append(q, r), has, want, h)
<1> DEFINE n == Len(q)
           s == Append(q, r)
<1>1. n \in Nat /\ Len(s) = n + 1 /\ ~AboutIn(s, h, n + 1)
  BY AppendAt DEF AboutIn
<1>2. \A i \in 1 .. n : s[i] = q[i] /\ (AboutIn(s, h, i) <=> AboutIn(q, h, i))
  BY AppendAt DEF AboutIn
<1> HIDE DEF s, n
<1>3. (\A i \in 1 .. n + 1 : ~AboutIn(s, h, i)) => has = want
  BY <1>1, <1>2 DEF Agree, n
<1>4. ASSUME NEW i \in 1 .. n + 1, AboutIn(s, h, i), \A k \in i + 1 .. n + 1 : ~AboutIn(s, h, k)
      PROVE  want = IF s[i].op = "Destroy" THEN {} ELSE {Capture(h, s[i].pos, s[i].type)}
  <2>1. i \in 1 .. n
    BY <1>1, <1>4
  <2>2. \A k \in i + 1 .. n : ~AboutIn(q, h, k)
    BY <1>1, <1>2, <1>4, <2>1
  <2> QED BY <1>2, <1>4, <2>1, <2>2 DEF Agree, n
<1>5. ASSUME NEW i \in 1 .. n + 1, AboutIn(s, h, i), \A k \in 1 .. i - 1 : ~AboutIn(s, h, k)
      PROVE  s[i].op = "Create" <=> has = {}
  <2>1. i \in 1 .. n
    BY <1>1, <1>5
  <2>2. \A k \in 1 .. i - 1 : ~AboutIn(q, h, k)
    BY <1>1, <1>2, <1>5, <2>1
  <2> QED BY <1>2, <1>5, <2>1, <2>2 DEF Agree, n
<1>6. ASSUME NEW i \in 1 .. n + 1, NEW j \in i + 1 .. n + 1, AboutIn(s, h, i), AboutIn(s, h, j),
             \A k \in i + 1 .. j - 1 : ~AboutIn(s, h, k)
      PROVE  s[i].op # s[j].op
  <2>1. i \in 1 .. n /\ j \in i + 1 .. n
    BY <1>1, <1>6
  <2>2. \A k \in i + 1 .. j - 1 : ~AboutIn(q, h, k)
    BY <1>1, <1>2, <1>6, <2>1
  <2> QED BY <1>2, <1>6, <2>1, <2>2 DEF Agree, n
<1> QED BY <1>1, <1>3, <1>4, <1>5, <1>6 DEF Agree, s

\* Creating what is not wanted yet, or destroying what is wanted, for h.
LEMMA SendAbout ==
  ASSUME NEW q \in Seq(Requests), NEW has, NEW want, NEW h, Agree(q, has, want, h),
         NEW r \in Requests, r.op \in {"Create", "Destroy"}, r.handle = h,
         r.op = "Create" <=> want = {}
  PROVE  Agree(Append(q, r), has,
               IF r.op = "Destroy" THEN {} ELSE {Capture(h, r.pos, r.type)}, h)
<1> DEFINE n == Len(q)
           s == Append(q, r)
           now == IF r.op = "Destroy" THEN {} ELSE {Capture(h, r.pos, r.type)}
<1>1. n \in Nat /\ Len(s) = n + 1 /\ AboutIn(s, h, n + 1) /\ s[n + 1] = r
  BY AppendAt DEF AboutIn
<1>2. \A i \in 1 .. n : s[i] = q[i] /\ (AboutIn(s, h, i) <=> AboutIn(q, h, i))
  BY AppendAt DEF AboutIn
<1> HIDE DEF s, n
<1>3. ASSUME NEW i \in 1 .. n + 1, AboutIn(s, h, i), \A k \in i + 1 .. n + 1 : ~AboutIn(s, h, k)
      PROVE  now = IF s[i].op = "Destroy" THEN {} ELSE {Capture(h, s[i].pos, s[i].type)}
  <2>1. i = n + 1
    BY <1>1, <1>3
  <2> QED BY <1>1, <2>1
<1>4. ASSUME NEW i \in 1 .. n + 1, AboutIn(s, h, i), \A k \in 1 .. i - 1 : ~AboutIn(s, h, k)
      PROVE  s[i].op = "Create" <=> has = {}
  <2>1. CASE i = n + 1
    <3>1. \A k \in 1 .. n : ~AboutIn(q, h, k)
      BY <1>1, <1>2, <1>4, <2>1
    <3>2. has = want
      BY <3>1 DEF Agree, n
    <3> QED BY <1>1, <2>1, <3>2
  <2>2. CASE i \in 1 .. n
    <3>1. \A k \in 1 .. i - 1 : ~AboutIn(q, h, k)
      BY <1>1, <1>2, <1>4, <2>2
    <3> QED BY <1>2, <1>4, <2>2, <3>1 DEF Agree, n
  <2> QED BY <1>1, <2>1, <2>2
<1>5. ASSUME NEW i \in 1 .. n + 1, NEW j \in i + 1 .. n + 1, AboutIn(s, h, i), AboutIn(s, h, j),
             \A k \in i + 1 .. j - 1 : ~AboutIn(s, h, k)
      PROVE  s[i].op # s[j].op
  <2>1. i \in 1 .. n /\ AboutIn(q, h, i)
    BY <1>1, <1>2, <1>5
  <2>2. CASE j = n + 1
    <3>1. \A k \in i + 1 .. n : ~AboutIn(q, h, k)
      BY <1>1, <1>2, <1>5, <2>1, <2>2
    <3>2. want = IF q[i].op = "Destroy" THEN {} ELSE {Capture(h, q[i].pos, q[i].type)}
      BY <2>1, <3>1 DEF Agree, n
    <3>3. want = {} <=> q[i].op = "Destroy"
      BY <3>2
    <3>4. q[i].op \in {"Create", "Destroy"}
      BY <2>1 DEF AboutIn
    <3> QED BY <1>1, <1>2, <2>1, <2>2, <3>3, <3>4
  <2>3. CASE j \in i + 1 .. n
    <3>1. AboutIn(q, h, j) /\ \A k \in i + 1 .. j - 1 : ~AboutIn(q, h, k)
      BY <1>1, <1>2, <1>5, <2>1, <2>3
    <3> QED BY <1>1, <1>2, <2>1, <2>3, <3>1 DEF Agree, n
  <2> QED BY <1>1, <2>2, <2>3
<1>6. ~(\A i \in 1 .. n + 1 : ~AboutIn(s, h, i))
  BY <1>1
<1> HIDE DEF now
<1>7. Agree(s, has, now, h)
  BY <1>1, <1>3, <1>4, <1>5, <1>6 DEF Agree
<1> QED BY <1>7 DEF s, now

\* Taking the first request, which is about another handle or about none.
LEMMA ReceiveOther ==
  ASSUME NEW q \in Seq(Requests), NEW has, NEW want, NEW h, Agree(q, has, want, h),
         q # <<>>, ~(Head(q).op \in {"Create", "Destroy"} /\ Head(q).handle = h)
  PROVE  Agree(Tail(q), has, want, h)
<1> DEFINE n == Len(q) - 1
           s == Tail(q)
<1>1. n \in Nat /\ Len(s) = n /\ Len(q) = n + 1 /\ ~AboutIn(q, h, 1)
  BY TailAt DEF AboutIn
<1>2. \A i \in 1 .. n : s[i] = q[i + 1] /\ (AboutIn(s, h, i) <=> AboutIn(q, h, i + 1))
  BY TailAt DEF AboutIn
<1> HIDE DEF s, n
<1>3. \A i \in 2 .. n + 1 : i - 1 \in 1 .. n /\ s[i - 1] = q[i]
                           /\ (AboutIn(s, h, i - 1) <=> AboutIn(q, h, i))
  <2> TAKE i \in 2 .. n + 1
  <2>1. i - 1 \in 1 .. n /\ (i - 1) + 1 = i
    BY <1>1
  <2> QED BY <1>2, <2>1
<1>4. ASSUME \A i \in 1 .. n : ~AboutIn(s, h, i) PROVE has = want
  <2>1. \A i \in 1 .. n + 1 : ~AboutIn(q, h, i)
    BY <1>1, <1>3, <1>4
  <2> QED BY <1>1, <2>1 DEF Agree
<1>5. ASSUME NEW i \in 1 .. n, AboutIn(s, h, i), \A k \in i + 1 .. n : ~AboutIn(s, h, k)
      PROVE  want = IF s[i].op = "Destroy" THEN {} ELSE {Capture(h, s[i].pos, s[i].type)}
  <2>1. \A k \in (i + 1) + 1 .. n + 1 : ~AboutIn(q, h, k)
    BY <1>1, <1>3, <1>5
  <2>2. i + 1 \in 1 .. n + 1 /\ AboutIn(q, h, i + 1)
    BY <1>1, <1>2, <1>5
  <2> QED BY <1>1, <1>2, <2>1, <2>2 DEF Agree
<1>6. ASSUME NEW i \in 1 .. n, AboutIn(s, h, i), \A k \in 1 .. i - 1 : ~AboutIn(s, h, k)
      PROVE  s[i].op = "Create" <=> has = {}
  <2>1. ASSUME NEW k \in 1 .. (i + 1) - 1 PROVE ~AboutIn(q, h, k)
    <3>1. CASE k = 1
      BY <1>1, <3>1
    <3>2. CASE k # 1
      <4>1. k \in 2 .. n + 1 /\ k - 1 \in 1 .. i - 1
        BY <1>1, <1>6, <3>2
      <4> QED BY <1>3, <1>6, <4>1
    <3> QED BY <3>1, <3>2
  <2>2. i + 1 \in 1 .. n + 1 /\ AboutIn(q, h, i + 1)
    BY <1>1, <1>2, <1>6
  <2> QED BY <1>1, <1>2, <2>1, <2>2 DEF Agree
<1>7. ASSUME NEW i \in 1 .. n, NEW j \in i + 1 .. n, AboutIn(s, h, i), AboutIn(s, h, j),
             \A k \in i + 1 .. j - 1 : ~AboutIn(s, h, k)
      PROVE  s[i].op # s[j].op
  <2>1. \A k \in (i + 1) + 1 .. (j + 1) - 1 : ~AboutIn(q, h, k)
    BY <1>1, <1>3, <1>7
  <2>2. /\ i + 1 \in 1 .. n + 1 /\ AboutIn(q, h, i + 1) /\ s[i] = q[i + 1]
        /\ j + 1 \in (i + 1) + 1 .. n + 1 /\ AboutIn(q, h, j + 1) /\ s[j] = q[j + 1]
    BY <1>1, <1>2, <1>7
  <2> QED BY <1>1, <2>1, <2>2 DEF Agree
<1> QED BY <1>1, <1>4, <1>5, <1>6, <1>7 DEF Agree, s

\* Taking a request about h: it is one the task can carry out, and then the
\* rest of the channel leads from what it made.
LEMMA ReceiveAbout ==
  ASSUME NEW q \in Seq(Requests), NEW has, NEW want, NEW h, Agree(q, has, want, h),
         q # <<>>, Head(q).op \in {"Create", "Destroy"}, Head(q).handle = h
  PROVE  /\ Head(q).op = "Create" <=> has = {}
         /\ Agree(Tail(q), IF Head(q).op = "Destroy" THEN {}
                           ELSE {Capture(h, Head(q).pos, Head(q).type)}, want, h)
<1> DEFINE n == Len(q) - 1
           s == Tail(q)
           now == IF Head(q).op = "Destroy" THEN {}
                  ELSE {Capture(h, Head(q).pos, Head(q).type)}
<1>1. n \in Nat /\ Len(s) = n /\ Len(q) = n + 1 /\ AboutIn(q, h, 1) /\ Head(q) = q[1]
  BY TailAt DEF AboutIn
<1>2. \A i \in 1 .. n : s[i] = q[i + 1] /\ (AboutIn(s, h, i) <=> AboutIn(q, h, i + 1))
  BY TailAt DEF AboutIn
<1>3. Head(q).op = "Create" <=> has = {}
  <2>1. 1 \in 1 .. Len(q) /\ \A k \in 1 .. 1 - 1 : ~AboutIn(q, h, k)
    BY <1>1
  <2> QED BY <1>1, <2>1 DEF Agree
<1>4. now = {} <=> q[1].op = "Destroy"
  BY <1>1
<1>5. now = IF q[1].op = "Destroy" THEN {} ELSE {Capture(h, q[1].pos, q[1].type)}
  BY <1>1
<1> HIDE DEF s, n, now
<1>6. \A i \in 2 .. n + 1 : i - 1 \in 1 .. n /\ s[i - 1] = q[i]
                           /\ (AboutIn(s, h, i - 1) <=> AboutIn(q, h, i))
  <2> TAKE i \in 2 .. n + 1
  <2>1. i - 1 \in 1 .. n /\ (i - 1) + 1 = i
    BY <1>1
  <2> QED BY <1>2, <2>1
<1>7. ASSUME \A i \in 1 .. n : ~AboutIn(s, h, i) PROVE now = want
  <2>1. \A i \in 1 + 1 .. n + 1 : ~AboutIn(q, h, i)
    BY <1>1, <1>6, <1>7
  <2> QED BY <1>1, <1>5, <2>1 DEF Agree
<1>8. ASSUME NEW i \in 1 .. n, AboutIn(s, h, i), \A k \in i + 1 .. n : ~AboutIn(s, h, k)
      PROVE  want = IF s[i].op = "Destroy" THEN {} ELSE {Capture(h, s[i].pos, s[i].type)}
  <2>1. \A k \in (i + 1) + 1 .. n + 1 : ~AboutIn(q, h, k)
    BY <1>1, <1>6, <1>8
  <2>2. i + 1 \in 1 .. n + 1 /\ AboutIn(q, h, i + 1)
    BY <1>1, <1>2, <1>8
  <2> QED BY <1>1, <1>2, <2>1, <2>2 DEF Agree
<1>9. ASSUME NEW i \in 1 .. n, AboutIn(s, h, i), \A k \in 1 .. i - 1 : ~AboutIn(s, h, k)
      PROVE  s[i].op = "Create" <=> now = {}
  <2>1. \A k \in 1 + 1 .. (i + 1) - 1 : ~AboutIn(q, h, k)
    BY <1>1, <1>6, <1>9
  <2>2. i + 1 \in 1 + 1 .. n + 1 /\ AboutIn(q, h, i + 1) /\ s[i] = q[i + 1]
    BY <1>1, <1>2, <1>9
  <2>3. q[1].op # q[i + 1].op
    BY <1>1, <2>1, <2>2 DEF Agree
  <2>4. q[1].op \in {"Create", "Destroy"} /\ q[i + 1].op \in {"Create", "Destroy"}
    BY <1>1, <2>2 DEF AboutIn
  <2> QED BY <1>4, <2>2, <2>3, <2>4
<1>10. ASSUME NEW i \in 1 .. n, NEW j \in i + 1 .. n, AboutIn(s, h, i), AboutIn(s, h, j),
              \A k \in i + 1 .. j - 1 : ~AboutIn(s, h, k)
       PROVE  s[i].op # s[j].op
  <2>1. \A k \in (i + 1) + 1 .. (j + 1) - 1 : ~AboutIn(q, h, k)
    BY <1>1, <1>6, <1>10
  <2>2. /\ i + 1 \in 1 .. n + 1 /\ AboutIn(q, h, i + 1) /\ s[i] = q[i + 1]
        /\ j + 1 \in (i + 1) + 1 .. n + 1 /\ AboutIn(q, h, j + 1) /\ s[j] = q[j + 1]
    BY <1>1, <1>2, <1>10
  <2> QED BY <1>1, <2>1, <2>2 DEF Agree
<1>11. Agree(s, now, want, h)
  BY <1>1, <1>7, <1>8, <1>9, <1>10 DEF Agree
<1> QED BY <1>3, <1>11 DEF s, now

------------------------------------------------------------------------------
\* What the service wants for a client's and for an incoming device's handle.
ClientWant(S, where, g) == IF g \in S THEN {Capture(g, where[g], "Default")} ELSE {}
IncomingWant(I, g) == {Capture(i.handle, i.pos, "EnterOnly") : i \in {j \in I : j.handle = g}}

LEMMA HandlesApart == ClientHandles \cap EnterHandles = {} /\ Handles \subseteq Nat
BY ChannelAssumption DEF EnterHandles, Handles

WantedSplit ==
  /\ \A g \in ClientHandles : WantedFor(g) = ClientWant(active, pos, g)
  /\ \A g \in EnterHandles : WantedFor(g) = IncomingWant(incoming_conn_info, g)

LEMMA WantedIs == RegistryTypeOK => WantedSplit
<1> SUFFICES ASSUME RegistryTypeOK PROVE WantedSplit
  OBVIOUS
<1>1. ASSUME NEW g \in ClientHandles PROVE WantedFor(g) = ClientWant(active, pos, g)
  <2>1. \A i \in incoming_conn_info : i.handle # g
    BY <1>1, HandlesApart DEF RegistryTypeOK, Incoming
  <2> QED BY <2>1 DEF WantedFor, Wanted, ClientWant, Capture
<1>2. ASSUME NEW g \in EnterHandles PROVE WantedFor(g) = IncomingWant(incoming_conn_info, g)
  <2>1. \A h \in active : h # g
    BY <1>2, HandlesApart DEF RegistryTypeOK
  <2> QED BY <2>1 DEF WantedFor, Wanted, IncomingWant, Capture
<1> QED BY <1>1, <1>2 DEF WantedSplit

LEMMA RequestFields ==
  /\ \A h \in Handles : /\ DestroyRequest(h) \in Requests
                        /\ DestroyRequest(h).op = "Destroy" /\ DestroyRequest(h).handle = h
  /\ \A h \in Handles, p \in Positions, t \in CaptureTypes :
       /\ CreateRequest(h, p, t) \in Requests
       /\ CreateRequest(h, p, t).op = "Create" /\ CreateRequest(h, p, t).handle = h
       /\ CreateRequest(h, p, t).pos = p /\ CreateRequest(h, p, t).type = t
BY DEF DestroyRequest, CreateRequest, Requests

\* Sending Destroy for what is wanted, Create for what is not, and either for
\* another handle.
LEMMA SendDestroy ==
  ASSUME NEW q \in Seq(Requests), NEW has, NEW want, NEW g, Agree(q, has, want, g),
         NEW h \in Handles, g = h => want # {}
  PROVE  Agree(Append(q, DestroyRequest(h)), has, IF g = h THEN {} ELSE want, g)
<1> DEFINE r == DestroyRequest(h)
<1>1. r \in Requests /\ r.op = "Destroy" /\ r.handle = h
  BY RequestFields
<1> HIDE DEF r
<1>2. CASE g = h
  BY <1>1, <1>2, SendAbout DEF r
<1>3. CASE g # h
  BY <1>1, <1>3, SendOther DEF r
<1> QED BY <1>2, <1>3

LEMMA SendCreate ==
  ASSUME NEW q \in Seq(Requests), NEW has, NEW want, NEW g, Agree(q, has, want, g),
         NEW h \in Handles, NEW p \in Positions, NEW t \in CaptureTypes, g = h => want = {}
  PROVE  Agree(Append(q, CreateRequest(h, p, t)), has,
               IF g = h THEN {Capture(h, p, t)} ELSE want, g)
<1> DEFINE r == CreateRequest(h, p, t)
<1>1. r \in Requests /\ r.op = "Create" /\ r.handle = h /\ r.pos = p /\ r.type = t
  BY RequestFields
<1> HIDE DEF r
<1>2. CASE g = h
  BY <1>1, <1>2, SendAbout DEF r
<1>3. CASE g # h
  BY <1>1, <1>3, SendOther DEF r
<1> QED BY <1>2, <1>3

LEMMA ConcatAsAppend ==
  ASSUME NEW q \in Seq(Requests), NEW r \in Requests, NEW s \in Seq(Requests)
  PROVE  /\ q \o <<>> = q /\ q \o <<r>> = Append(q, r)
         /\ q \o (s \o <<>>) = q \o s /\ q \o (s \o <<r>>) = Append(q \o s, r)
<1>1. q \o <<>> = q /\ s \o <<>> = s
  BY ConcatEmptySeq
<1>2. q \o <<r>> = Append(q, r) /\ (q \o s) \o <<r>> = Append(q \o s, r)
  BY AppendIsConcat, ConcatProperties
<1>3. q \o (s \o <<r>>) = (q \o s) \o <<r>>
  BY ConcatAssociative
<1> QED BY <1>1, <1>2, <1>3

\* Two requests sent at once are sent one after the other.
LEMMA SendTwo ==
  ASSUME NEW q \in Seq(Requests), NEW r \in Requests, NEW s \in Requests
  PROVE  q \o <<r, s>> = Append(Append(q, r), s)
<1>1. <<r>> \in Seq(Requests) /\ <<r, s>> = <<r>> \o <<s>>
  <2>1. /\ <<r, s>> \in Seq(Requests) /\ Len(<<r, s>>) = 2
        /\ <<r, s>>[1] = r /\ <<r, s>>[2] = s
    OBVIOUS
  <2>2. <<r>> \in Seq(Requests) /\ Len(<<r>>) = 1 /\ <<r>>[1] = r
    OBVIOUS
  <2> DEFINE t == Append(<<r>>, s)
  <2>3. t \in Seq(Requests) /\ Len(t) = 2 /\ t[1] = r /\ t[2] = s
    BY <2>2, AppendProperties
  <2> HIDE DEF t
  <2>4. <<r, s>> = t
    BY <2>1, <2>3, SeqEqual
  <2> QED BY <2>2, <2>4, AppendIsConcat DEF t
<1>2. q \o (<<r>> \o <<s>>) = Append(q \o <<r>>, s)
  BY <1>1, ConcatAsAppend
<1>3. q \o <<r>> = Append(q, r)
  BY ConcatAsAppend
<1> QED BY <1>1, <1>2, <1>3

\* Activating a client: the one it replaces is given up, then it is created,
\* unless it was active.
LEMMA ActivateAgree ==
  ASSUME NEW h \in ClientHandles,
         NEW actives \in SUBSET ClientHandles,
         NEW where \in [ClientHandles -> Positions],
         \A c, d \in actives : where[c] = where[d] => c = d,
         NEW q \in Seq(Requests), NEW has, NEW want, NEW g \in Handles, Agree(q, has, want, g),
         g \in ClientHandles => want = ClientWant(actives, where, g)
  PROVE  Agree(q \o Activate(h, actives, where).sends, has,
               IF g \in ClientHandles
               THEN ClientWant(Activate(h, actives, where).active, where, g) ELSE want, g)
<1> DEFINE r == Activate(h, actives, where)
           evicted == ClientAt(where[h], actives, where) \ {h}
           evict == IF evicted = {} THEN <<>>
                    ELSE <<DestroyRequest(CHOOSE o \in evicted : TRUE)>>
           create == IF h \in actives THEN <<>>
                     ELSE <<CreateRequest(h, where[h], "Default")>>
           left == actives \ evicted
           mid == IF g \in ClientHandles THEN ClientWant(left, where, g) ELSE want
<1>1. evicted \subseteq actives /\ \A o \in evicted : where[o] = where[h] /\ o # h
  BY DEF ClientAt
<1>2. \A o, e \in evicted : o = e
  BY <1>1
<1>3. r.sends = evict \o create /\ r.active = left \cup {h}
  BY DEF Activate
<1>4. evict \in Seq(Requests) /\ Agree(q \o evict, has, mid, g) /\ q \o evict \in Seq(Requests)
  <2>1. CASE evicted = {}
    <3>1. evict = <<>> /\ left = actives
      BY <2>1
    <3>2. mid = want
      BY <3>1
    <3>3. q \o evict = q /\ <<>> \in Seq(Requests)
      BY <3>1, ConcatEmptySeq
    <3> HIDE DEF evict, mid
    <3> QED BY <3>1, <3>2, <3>3
  <2>2. CASE evicted # {}
    <3> DEFINE o == CHOOSE o \in evicted : TRUE
    <3>1. o \in evicted
      BY <2>2
    <3>2. evicted = {o} /\ o \in actives /\ o \in Handles
      BY <1>1, <1>2, <3>1 DEF Handles
    <3>3. evict = <<DestroyRequest(o)>>
      BY <2>2
    <3> HIDE DEF o, evict, evicted
    <3>4. q \o evict = Append(q, DestroyRequest(o)) /\ evict \in Seq(Requests)
          /\ q \o evict \in Seq(Requests)
      BY <3>2, <3>3, ConcatAsAppend, RequestFields, OneOrNone, AppendAt
    <3>5. g = o => want # {}
      BY <3>2 DEF ClientWant
    <3>6. mid = IF g = o THEN {} ELSE want
      BY <3>2 DEF ClientWant
    <3> QED BY <3>2, <3>4, <3>5, <3>6, SendDestroy
  <2> QED BY <2>1, <2>2
<1>5. CASE h \in actives
  <2>1. create = <<>> /\ left \cup {h} = left
    BY <1>1, <1>5
  <2>2. q \o r.sends = q \o evict
    BY <1>3, <1>4, <2>1, ConcatEmptySeq
  <2>3. (IF g \in ClientHandles THEN ClientWant(r.active, where, g) ELSE want) = mid
    BY <1>3, <2>1
  <2>4. Agree(q \o r.sends, has, mid, g)
    <3> HIDE DEF r, mid, evict
    <3> QED BY <1>4, <2>2
  <2> HIDE DEF mid
  <2> QED BY <2>3, <2>4, Zenon
<1>6. CASE h \notin actives
  <2> DEFINE c == CreateRequest(h, where[h], "Default")
  <2>1. create = <<c>> /\ h \notin left /\ h \in Handles /\ where[h] \in Positions
        /\ "Default" \in CaptureTypes
    BY <1>6 DEF Handles, CaptureTypes
  <2>2. c \in Requests
    BY <2>1, RequestFields
  <2>3. q \o (evict \o <<c>>) = Append(q \o evict, c)
    <3> HIDE DEF evict, c
    <3> QED BY <1>4, <2>2, ConcatAsAppend
  <2>4. g = h => mid = {}
    BY <2>1 DEF ClientWant
  <2>5. (IF g \in ClientHandles THEN ClientWant(left \cup {h}, where, g) ELSE want)
          = IF g = h THEN {Capture(h, where[h], "Default")} ELSE mid
    BY DEF ClientWant
  <2> DEFINE now == IF g = h THEN {Capture(h, where[h], "Default")} ELSE mid
  <2>6. Agree(Append(q \o evict, c), has, now, g)
    <3> HIDE DEF mid, evict
    <3> QED BY <1>4, <2>1, <2>4, SendCreate
  <2>7. q \o r.sends = Append(q \o evict, c)
    BY <1>3, <2>1, <2>3, Zenon
  <2>8. (IF g \in ClientHandles THEN ClientWant(r.active, where, g) ELSE want) = now
    BY <1>3, <2>5, Zenon
  <2> HIDE DEF now, c
  <2> QED BY <2>6, <2>7, <2>8, Zenon
<1> QED BY <1>5, <1>6

------------------------------------------------------------------------------
\* Handles of incoming devices are used once: they tell the devices apart, and
\* the next one is above them all.
IncomingHandles ==
  /\ \A i, j \in incoming_conn_info : i.handle = j.handle => i = j
  /\ \A i \in incoming_conn_info : i.handle < EnterHandleBegin + next_trigger_handle

ChannelAgrees == \A g \in Handles : Agree(requests, CapturesOf(g), WantedFor(g), g)

AgreementInv == PositionInv /\ IncomingHandles /\ ChannelAgrees

LEMMA AgreementStatesProperties == ChannelAgrees <=> CaughtUpAgrees /\ RequestsLegal
BY DEF ChannelAgrees, CaughtUpAgrees, RequestsLegal, Agree, About, AboutIn, LastAbout, FirstAbout, InARow

LEMMA IncomingHandlesStep == PositionInv /\ IncomingHandles /\ [Next]_vars => IncomingHandles'
<1> SUFFICES ASSUME PositionInv, IncomingHandles, [Next]_vars PROVE IncomingHandles'
  OBVIOUS
<1>0. /\ next_trigger_handle \in Nat /\ EnterHandleBegin \in Nat
      /\ \A i \in incoming_conn_info : i.handle \in Nat
  BY HandlesApart, ChannelAssumption
     DEF PositionInv, TypeOK, RegistryTypeOK, Incoming, Handles
<1>1. ASSUME UNCHANGED <<incoming_conn_info, next_trigger_handle>> PROVE IncomingHandles'
  BY <1>1 DEF IncomingHandles
<1>2. ASSUME NEW a, NEW p, NEW f, NEW I \in SUBSET incoming_conn_info,
             incoming_conn_info' = I \cup {NewIncoming(a, p, f)},
             next_trigger_handle' = next_trigger_handle + 1
      PROVE  IncomingHandles'
  <2>1. NewIncoming(a, p, f).handle = EnterHandleBegin + next_trigger_handle
    BY DEF NewIncoming
  <2> QED BY <1>0, <1>2, <2>1 DEF IncomingHandles
<1>3. ASSUME NEW a \in Addrs, NEW p \in Positions, NEW f \in Fingerprints,
             EnterNew(a, p, f) \/ EnterAgain(a, p, f)
      PROVE  IncomingHandles'
  BY <1>2, <1>3 DEF EnterNew, EnterAgain
<1>4. ASSUME NEW a \in Addrs, Disconnected(a) PROVE IncomingHandles'
  BY <1>4 DEF Disconnected, IncomingHandles
<1>5. ASSUME RegistryNext PROVE IncomingHandles'
  BY <1>1, <1>3, <1>4, <1>5
     DEF RegistryNext, RegistryUnchangedIncoming, Boot, AddClient, RemoveClient, ActivateClient,
         DeactivateClient, UpdatePos, TakeLeave, ReleaseNotify, EnableCapture, Notify,
         ServiceCaptureEvent
<1> QED BY <1>1, <1>5 DEF Next, ServiceStep, TaskStep, vars

\* The sends of the service.
LEMMA ServiceAgrees ==
  AgreementInv /\ ServiceStep => ChannelAgrees'
<1> SUFFICES ASSUME AgreementInv, ServiceStep PROVE ChannelAgrees'
  OBVIOUS
<1>0. /\ requests \in Seq(Requests) /\ active \in SUBSET ClientHandles
      /\ pos \in [ClientHandles -> Positions]
      /\ \A c, d \in active : pos[c] = pos[d] => c = d
      /\ active \subseteq clients /\ booting \subseteq clients /\ clients \in SUBSET ClientHandles
      /\ incoming_conn_info \in SUBSET Incoming
  BY DEF AgreementInv, PositionInv, TypeOK, ChannelTypeOK, RegistryTypeOK, OneActivePerPosition,
         ActiveConfigured
<1>1. TypeOK'
  BY RegistryTypeStep DEF AgreementInv, PositionInv, ServiceStep, TypeOK, TaskTypeOK
<1>2. /\ \A g \in ClientHandles : WantedFor(g) = ClientWant(active, pos, g)
      /\ \A g \in EnterHandles : WantedFor(g) = IncomingWant(incoming_conn_info, g)
  BY WantedIs DEF AgreementInv, PositionInv, TypeOK, WantedSplit
<1>3. /\ \A g \in ClientHandles : WantedFor(g)' = ClientWant(active, pos, g)'
      /\ \A g \in EnterHandles : WantedFor(g)' = IncomingWant(incoming_conn_info, g)'
  <2>1. RegistryTypeOK'
    BY <1>1 DEF TypeOK
  <2>2. WantedSplit'
    BY <2>1, WantedIs, PTL
  <2> QED BY <2>2 DEF WantedSplit
<1>4. \A g \in Handles : CapturesOf(g)' = CapturesOf(g)
  BY DEF ServiceStep, CapturesOf
<1>5. \A g \in Handles : g \in ClientHandles \/ g \in EnterHandles
  BY DEF Handles
<1>6. \A g \in Handles : Agree(requests, CapturesOf(g), WantedFor(g), g)
  BY DEF AgreementInv, ChannelAgrees
<1>7. \A g \in EnterHandles : g \notin ClientHandles
  BY HandlesApart
\* It is enough to look at one handle and to say what is wanted for it now.
<1>8. ASSUME \A g \in ClientHandles :
               Agree(requests', CapturesOf(g), ClientWant(active', pos', g), g),
             \A g \in EnterHandles :
               Agree(requests', CapturesOf(g), IncomingWant(incoming_conn_info', g), g)
      PROVE  ChannelAgrees'
  <2>1. \A g \in ClientHandles : ClientWant(active, pos, g)' = ClientWant(active', pos', g)
    BY DEF ClientWant
  <2>2. \A g \in EnterHandles :
          IncomingWant(incoming_conn_info, g)' = IncomingWant(incoming_conn_info', g)
    BY DEF IncomingWant
  <2>3. ASSUME NEW g \in Handles PROVE Agree(requests', CapturesOf(g)', WantedFor(g)', g)
    <3>1. CASE g \in ClientHandles
      <4>1. WantedFor(g)' = ClientWant(active', pos', g)
        BY <1>3, <2>1, <3>1
      <4> QED BY <1>4, <1>8, <3>1, <4>1
    <3>2. CASE g \in EnterHandles
      <4>1. WantedFor(g)' = IncomingWant(incoming_conn_info', g)
        BY <1>3, <2>2, <3>2
      <4> QED BY <1>4, <1>8, <3>2, <4>1
    <3> QED BY <1>5, <3>1, <3>2
  <2>4. \A g \in Handles : Agree(requests', CapturesOf(g)', WantedFor(g)', g)
    BY <2>3
  <2> QED BY <2>4 DEF ChannelAgrees, Agree, AboutIn
<1>9. \A g \in ClientHandles : Agree(requests, CapturesOf(g), ClientWant(active, pos, g), g)
  BY <1>2, <1>6 DEF Handles
<1>10. \A g \in EnterHandles :
         Agree(requests, CapturesOf(g), IncomingWant(incoming_conn_info, g), g)
  BY <1>2, <1>6 DEF Handles
<1>11. ASSUME UNCHANGED <<requests, active, incoming_conn_info>>,
              \A g \in active : pos'[g] = pos[g]
       PROVE  ChannelAgrees'
  <2>1. \A g \in ClientHandles : ClientWant(active', pos', g) = ClientWant(active, pos, g)
    BY <1>11 DEF ClientWant
  <2> QED BY <1>8, <1>9, <1>10, <1>11, <2>1
\* An activation at the clients' present positions.
<1>12. ASSUME NEW h \in ClientHandles,
              requests' = requests \o Activate(h, active, pos).sends,
              active' = Activate(h, active, pos).active,
              UNCHANGED <<pos, incoming_conn_info>>
       PROVE  ChannelAgrees'
  <2>1. ASSUME NEW g \in ClientHandles
        PROVE  Agree(requests', CapturesOf(g), ClientWant(active', pos', g), g)
    <3>1. g \in Handles
      BY DEF Handles
    <3> QED BY <1>0, <1>9, <1>12, <3>1, ActivateAgree
  <2>2. ASSUME NEW g \in EnterHandles
        PROVE  Agree(requests', CapturesOf(g), IncomingWant(incoming_conn_info', g), g)
    <3>1. g \in Handles /\ g \notin ClientHandles
      BY <1>7 DEF Handles
    <3> QED BY <1>0, <1>10, <1>12, <3>1, ActivateAgree
  <2> QED BY <1>8, <2>1, <2>2
\* Giving up an active client, nothing else.
<1>13. ASSUME NEW h \in active,
              requests' = Append(requests, DestroyRequest(h)),
              active' = active \ {h},
              \A g \in active \ {h} : pos'[g] = pos[g],
              UNCHANGED incoming_conn_info
       PROVE  ChannelAgrees'
  <2>1. h \in ClientHandles /\ h \in Handles
    BY <1>0 DEF Handles
  <2>2. ASSUME NEW g \in ClientHandles
        PROVE  Agree(requests', CapturesOf(g), ClientWant(active', pos', g), g)
    <3>1. ClientWant(active', pos', g) = IF g = h THEN {} ELSE ClientWant(active, pos, g)
      BY <1>13 DEF ClientWant
    <3>2. g = h => ClientWant(active, pos, g) # {}
      BY DEF ClientWant
    <3> DEFINE want == ClientWant(active, pos, g)
    <3>3. Agree(requests, CapturesOf(g), want, g) /\ (g = h => want # {})
      BY <1>9, <3>2
    <3>4. ClientWant(active', pos', g) = IF g = h THEN {} ELSE want
      BY <3>1
    <3> HIDE DEF want
    <3>5. Agree(requests', CapturesOf(g), IF g = h THEN {} ELSE want, g)
      BY <1>0, <1>13, <2>1, <3>3, SendDestroy
    <3> QED BY <3>4, <3>5, Zenon
  <2>3. ASSUME NEW g \in EnterHandles
        PROVE  Agree(requests', CapturesOf(g), IncomingWant(incoming_conn_info', g), g)
    <3>1. g # h
      BY <1>7, <2>1
    <3> QED BY <1>0, <1>10, <1>13, <2>1, <3>1, SendDestroy
  <2> QED BY <1>8, <2>2, <2>3
<1>14. ASSUME AddClient PROVE ChannelAgrees'
  <2>1. \A g \in active : pos'[g] = pos[g]
    BY <1>0, <1>14 DEF AddClient
  <2> QED BY <1>11, <1>14, <2>1 DEF AddClient, RegistryUnchangedIncoming
<1>15. ASSUME Boot PROVE ChannelAgrees'
  BY <1>0, <1>12, <1>15 DEF Boot, RegistryUnchangedIncoming
<1>16. ASSUME NEW h \in ClientHandles, RemoveClient(h) PROVE ChannelAgrees'
  <2>1. \A g \in active \ {h} : pos'[g] = pos[g]
    BY <1>0, <1>16 DEF RemoveClient
  <2>2. CASE h \in active
    BY <1>13, <1>16, <2>1, <2>2 DEF RemoveClient, RegistryUnchangedIncoming
  <2>3. CASE h \notin active
    BY <1>11, <1>16, <2>1, <2>3 DEF RemoveClient, RegistryUnchangedIncoming
  <2> QED BY <2>2, <2>3
<1>17. ASSUME NEW h \in ClientHandles, ActivateClient(h) PROVE ChannelAgrees'
  BY <1>12, <1>17 DEF ActivateClient, RegistryUnchangedIncoming
<1>18. ASSUME NEW h \in ClientHandles, DeactivateClient(h) PROVE ChannelAgrees'
  BY <1>13, <1>18 DEF DeactivateClient, RegistryUnchangedIncoming
<1>19. ASSUME NEW h \in ClientHandles, NEW p \in Positions, UpdatePos(h, p) PROVE ChannelAgrees'
  <2>1. pos' = [pos EXCEPT ![h] = p] /\ UNCHANGED incoming_conn_info
    BY <1>19 DEF UpdatePos, RegistryUnchangedIncoming
  <2>2. CASE h \notin active
    <3>1. \A g \in active : pos'[g] = pos[g]
      BY <1>0, <2>1, <2>2
    <3> QED BY <1>11, <1>19, <2>1, <2>2, <3>1 DEF UpdatePos
  <2>3. CASE h \in active
    <3> DEFINE others == active \ {h}
               q == Append(requests, DestroyRequest(h))
               r == Activate(h, others, pos')
    <3>1. requests' = requests \o <<DestroyRequest(h)>> \o r.sends /\ active' = r.active
      BY <1>19, <2>3 DEF UpdatePos
    <3>2. h \in Handles /\ DestroyRequest(h) \in Requests
      BY RequestFields DEF Handles
    <3>3. q \in Seq(Requests) /\ requests \o <<DestroyRequest(h)>> = q
      BY <1>0, <3>2, AppendAt, AppendIsConcat
    <3>4. /\ others \in SUBSET ClientHandles /\ pos' \in [ClientHandles -> Positions]
          /\ \A c \in others : pos'[c] = pos[c]
          /\ \A c, d \in others : pos'[c] = pos'[d] => c = d
      BY <1>0, <2>1
    <3>5. requests' = q \o r.sends
      BY <3>1, <3>3
    <3> HIDE DEF q, r
    <3>6. ASSUME NEW g \in ClientHandles
          PROVE  Agree(requests', CapturesOf(g), ClientWant(active', pos', g), g)
      <4>1. g \in Handles
        BY DEF Handles
      <4>2. ClientWant(others, pos', g) = IF g = h THEN {} ELSE ClientWant(active, pos, g)
        BY <3>4 DEF ClientWant
      <4>3. g = h => ClientWant(active, pos, g) # {}
        BY <2>3 DEF ClientWant
      <4>4. Agree(q, CapturesOf(g), ClientWant(others, pos', g), g)
        <5> DEFINE want == ClientWant(active, pos, g)
        <5>1. Agree(requests, CapturesOf(g), want, g) /\ (g = h => want # {})
          BY <1>9, <4>3
        <5>2. ClientWant(others, pos', g) = IF g = h THEN {} ELSE want
          BY <4>2
        <5> HIDE DEF want
        <5>3. Agree(q, CapturesOf(g), IF g = h THEN {} ELSE want, g)
          BY <1>0, <3>2, <5>1, SendDestroy DEF q
        <5> QED BY <5>2, <5>3, Zenon
      <4> HIDE DEF others
      <4>5. Agree(q \o r.sends, CapturesOf(g), ClientWant(r.active, pos', g), g)
        BY <3>3, <3>4, <4>1, <4>4, ActivateAgree DEF r
      <4> QED BY <3>1, <3>5, <4>5
    <3>7. ASSUME NEW g \in EnterHandles
          PROVE  Agree(requests', CapturesOf(g), IncomingWant(incoming_conn_info', g), g)
      <4>1. g \in Handles /\ g \notin ClientHandles
        BY <1>7 DEF Handles
      <4>2. Agree(q, CapturesOf(g), IncomingWant(incoming_conn_info, g), g)
        BY <1>0, <1>10, <3>2, <4>1, SendDestroy DEF q
      <4> HIDE DEF others
      <4>3. Agree(q \o r.sends, CapturesOf(g), IncomingWant(incoming_conn_info, g), g)
        BY <3>3, <3>4, <4>1, <4>2, ActivateAgree DEF r
      <4> QED BY <2>1, <3>5, <4>3
    <3> QED BY <1>8, <3>6, <3>7
  <2> QED BY <2>2, <2>3
\* An incoming device's barrier is created, after that of device i is given up
\* if i is replaced.
<1>20. \A i \in incoming_conn_info :
         /\ i.handle \in EnterHandles /\ i.handle \in Handles
         /\ IncomingWant(incoming_conn_info, i.handle) # {}
         /\ \A g \in EnterHandles :
              IncomingWant(incoming_conn_info \ {i}, g)
                = IF g = i.handle THEN {} ELSE IncomingWant(incoming_conn_info, g)
  <2>1. \A i, j \in incoming_conn_info : i.handle = j.handle => i = j
    BY DEF AgreementInv, IncomingHandles
  <2> QED BY <1>0, <2>1 DEF Incoming, Handles, IncomingWant
<1>21. ASSUME NEW i \in incoming_conn_info
       PROVE  /\ \A g \in ClientHandles : Agree(Append(requests, DestroyRequest(i.handle)),
                                                CapturesOf(g), ClientWant(active, pos, g), g)
              /\ \A g \in EnterHandles : Agree(Append(requests, DestroyRequest(i.handle)),
                                               CapturesOf(g),
                                               IncomingWant(incoming_conn_info \ {i}, g), g)
  <2>1. i.handle \in EnterHandles /\ i.handle \in Handles
    BY <1>20
  <2>2. ASSUME NEW g \in ClientHandles
        PROVE  Agree(Append(requests, DestroyRequest(i.handle)), CapturesOf(g),
                     ClientWant(active, pos, g), g)
    <3>1. g # i.handle
      BY <1>7, <2>1
    <3> QED BY <1>0, <1>9, <2>1, <3>1, SendDestroy
  <2>3. ASSUME NEW g \in EnterHandles
        PROVE  Agree(Append(requests, DestroyRequest(i.handle)), CapturesOf(g),
                     IncomingWant(incoming_conn_info \ {i}, g), g)
    <3> DEFINE want == IncomingWant(incoming_conn_info, g)
    <3>1. Agree(requests, CapturesOf(g), want, g) /\ (g = i.handle => want # {})
      BY <1>10, <1>20
    <3>2. IncomingWant(incoming_conn_info \ {i}, g) = IF g = i.handle THEN {} ELSE want
      BY <1>20
    <3> HIDE DEF want
    <3>3. Agree(Append(requests, DestroyRequest(i.handle)), CapturesOf(g),
                IF g = i.handle THEN {} ELSE want, g)
      BY <1>0, <2>1, <3>1, SendDestroy
    <3> QED BY <3>2, <3>3, Zenon
  <2> QED BY <2>2, <2>3
<1>22. ASSUME NEW a \in Addrs, NEW p \in Positions, NEW f \in Fingerprints,
              next_trigger_handle < MaxTriggers,
              NEW q \in Seq(Requests), NEW I \in SUBSET incoming_conn_info,
              \A g \in ClientHandles : Agree(q, CapturesOf(g), ClientWant(active, pos, g), g),
              \A g \in EnterHandles : Agree(q, CapturesOf(g), IncomingWant(I, g), g),
              requests' = Append(q, BarrierFor(NewIncoming(a, p, f))),
              incoming_conn_info' = I \cup {NewIncoming(a, p, f)},
              UNCHANGED <<active, pos>>
       PROVE  ChannelAgrees'
  <2> DEFINE h == EnterHandleBegin + next_trigger_handle
  <2>1. /\ h \in EnterHandles /\ h \in Handles /\ "EnterOnly" \in CaptureTypes
        /\ \A i \in I : i.handle # h
    <3>1. next_trigger_handle \in 0 .. MaxTriggers
      BY DEF AgreementInv, PositionInv, TypeOK, RegistryTypeOK
    <3>2. \A i \in I : i.handle < h /\ i.handle \in Nat
      BY <1>0, HandlesApart DEF AgreementInv, IncomingHandles, Incoming, Handles
    <3> QED BY <1>22, <3>1, <3>2, ChannelAssumption DEF EnterHandles, Handles, CaptureTypes
  <2>2. NewIncoming(a, p, f).handle = h /\ NewIncoming(a, p, f).pos = p
    BY DEF NewIncoming
  <2> HIDE DEF h
  <2>3. requests' = Append(q, CreateRequest(h, p, "EnterOnly"))
    BY <1>22, <2>2 DEF BarrierFor
  <2>4. ASSUME NEW g \in ClientHandles
        PROVE  Agree(requests', CapturesOf(g), ClientWant(active', pos', g), g)
    <3>1. g # h
      BY <1>7, <2>1
    <3>2. ClientWant(active', pos', g) = ClientWant(active, pos, g)
      BY <1>22
    <3> QED BY <1>22, <2>1, <2>3, <3>1, <3>2, SendCreate
  <2>5. ASSUME NEW g \in EnterHandles
        PROVE  Agree(requests', CapturesOf(g), IncomingWant(incoming_conn_info', g), g)
    <3> DEFINE want == IncomingWant(I, g)
    <3>1. IncomingWant(incoming_conn_info', g)
            = IF g = h THEN {Capture(h, p, "EnterOnly")} ELSE want
      BY <1>22, <2>1, <2>2 DEF IncomingWant
    <3>2. Agree(q, CapturesOf(g), want, g) /\ (g = h => want = {})
      BY <1>22, <2>1 DEF IncomingWant
    <3> HIDE DEF want
    <3>3. Agree(requests', CapturesOf(g), IF g = h THEN {Capture(h, p, "EnterOnly")} ELSE want, g)
      BY <1>22, <2>1, <2>3, <3>2, SendCreate
    <3> QED BY <3>1, <3>3, Zenon
  <2> QED BY <1>8, <2>4, <2>5
<1>23. ASSUME NEW a \in Addrs, NEW p \in Positions, NEW f \in Fingerprints, EnterNew(a, p, f)
       PROVE  ChannelAgrees'
  BY <1>0, <1>9, <1>10, <1>22, <1>23 DEF EnterNew
<1>24. ASSUME NEW a \in Addrs, NEW p \in Positions, NEW f \in Fingerprints, EnterAgain(a, p, f)
       PROVE  ChannelAgrees'
  <2>1. PICK i \in incoming_conn_info :
          /\ next_trigger_handle < MaxTriggers
          /\ requests' = requests \o <<DestroyRequest(i.handle), BarrierFor(NewIncoming(a, p, f))>>
          /\ incoming_conn_info' = (incoming_conn_info \ {i}) \cup {NewIncoming(a, p, f)}
          /\ UNCHANGED <<active, pos>>
    BY <1>24 DEF EnterAgain
  <2> DEFINE q == Append(requests, DestroyRequest(i.handle))
             c == BarrierFor(NewIncoming(a, p, f))
             d == DestroyRequest(i.handle)
  <2>2. d \in Requests
    BY <1>20, RequestFields
  <2>3. q \in Seq(Requests)
    BY <1>0, <2>2, AppendAt
  <2>4. requests \o <<d, c>> = Append(q, c)
    <3>1. c \in Requests
      <4>1. next_trigger_handle \in 0 .. MaxTriggers
        BY DEF AgreementInv, PositionInv, TypeOK, RegistryTypeOK
      <4>2. EnterHandleBegin + next_trigger_handle \in Handles /\ "EnterOnly" \in CaptureTypes
        BY <2>1, <4>1, ChannelAssumption DEF EnterHandles, Handles, CaptureTypes
      <4> QED BY <4>2, RequestFields DEF BarrierFor, NewIncoming
    <3>2. q = Append(requests, d)
      OBVIOUS
    <3> HIDE DEF c, d, q
    <3> QED BY <1>0, <2>2, <3>1, <3>2, SendTwo
  <2>5. incoming_conn_info \ {i} \in SUBSET incoming_conn_info
    OBVIOUS
  <2>6. requests' = Append(q, c)
    BY <2>1, <2>4
  <2> QED BY <1>21, <1>22, <2>1, <2>3, <2>5, <2>6
<1>25. ASSUME NEW a \in Addrs, Disconnected(a) PROVE ChannelAgrees'
  <2>1. PICK i \in incoming_conn_info :
          /\ requests' = Append(requests, DestroyRequest(i.handle))
          /\ incoming_conn_info' = incoming_conn_info \ {i}
          /\ UNCHANGED <<active, pos>>
    BY <1>25 DEF Disconnected
  <2>2. \A g \in ClientHandles : ClientWant(active', pos', g) = ClientWant(active, pos, g)
    BY <2>1
  <2> QED BY <1>8, <1>21, <2>1, <2>2
<1>26. ASSUME ReleaseNotify \/ EnableCapture PROVE ChannelAgrees'
  <2>1. PICK r \in {ReleaseRequest, ReenableRequest} : requests' = Append(requests, r)
    BY <1>26 DEF ReleaseNotify, EnableCapture, Notify
  <2>2. r \in Requests /\ r.op \notin {"Create", "Destroy"}
    BY DEF ReleaseRequest, ReenableRequest, Requests
  <2>3. \A g \in ClientHandles : Agree(requests', CapturesOf(g), ClientWant(active, pos, g), g)
    BY <1>0, <1>9, <2>1, <2>2, SendOther
  <2>4. \A g \in EnterHandles :
          Agree(requests', CapturesOf(g), IncomingWant(incoming_conn_info, g), g)
    BY <1>0, <1>10, <2>1, <2>2, SendOther
  <2>5. UNCHANGED <<active, pos, incoming_conn_info>>
    BY <1>26 DEF ReleaseNotify, EnableCapture, Notify
  <2> QED BY <1>8, <2>3, <2>4, <2>5
<1>27. ASSUME (\E a \in Addrs : TakeLeave(a)) \/ ServiceCaptureEvent PROVE ChannelAgrees'
  BY <1>11, <1>27 DEF TakeLeave, ServiceCaptureEvent, RegistryUnchangedIncoming
<1>28. RegistryNext
  BY DEF ServiceStep
<1> QED BY <1>14, <1>15, <1>16, <1>17, <1>18, <1>19, <1>23, <1>24, <1>25, <1>26, <1>27, <1>28
        DEF RegistryNext

\* The capture task's side: it takes a request and carries it out, or leaves
\* both the channel and its captures alone.
LEMMA TaskAgrees ==
  AgreementInv /\ TaskStep => ChannelAgrees'
<1> SUFFICES ASSUME AgreementInv, TaskStep PROVE ChannelAgrees'
  OBVIOUS
<1>0. requests \in Seq(Requests) /\ \A g \in Handles : Agree(requests, CapturesOf(g), WantedFor(g), g)
  BY DEF AgreementInv, PositionInv, TypeOK, ChannelTypeOK, ChannelAgrees
<1>1. \A g \in Handles : WantedFor(g)' = WantedFor(g)
  BY DEF TaskStep, WantedFor, Wanted
<1>2. ASSUME \A g \in Handles : Agree(requests', CapturesOf(g)', WantedFor(g), g)
      PROVE  ChannelAgrees'
  <2>1. \A g \in Handles : Agree(requests', CapturesOf(g)', WantedFor(g)', g)
    BY <1>1, <1>2
  <2> QED BY <2>1 DEF ChannelAgrees, Agree, AboutIn
<1>3. ASSUME UNCHANGED <<requests, captures>> PROVE ChannelAgrees'
  <2>1. \A g \in Handles : CapturesOf(g)' = CapturesOf(g)
    BY <1>3 DEF CapturesOf
  <2> QED BY <1>0, <1>2, <1>3, <2>1
<1> DEFINE r == Head(requests)
\* A request is taken.
<1>4. ASSUME requests # <<>>, requests' = Tail(requests),
             captures' = IF r.op = "Create" THEN captures \cup {Capture(r.handle, r.pos, r.type)}
                         ELSE IF r.op = "Destroy" THEN captures \ CapturesOf(r.handle)
                         ELSE captures
      PROVE  ChannelAgrees'
  <2>1. ASSUME NEW g \in Handles, ~(r.op \in {"Create", "Destroy"} /\ r.handle = g)
        PROVE  Agree(requests', CapturesOf(g)', WantedFor(g), g)
    <3>1. CapturesOf(g)' = CapturesOf(g)
      BY <1>4, <2>1 DEF CapturesOf, Capture
    <3> QED BY <1>0, <1>4, <2>1, <3>1, ReceiveOther
  <2>2. ASSUME NEW g \in Handles, r.op \in {"Create", "Destroy"}, r.handle = g
        PROVE  Agree(requests', CapturesOf(g)', WantedFor(g), g)
    <3> DEFINE now == IF r.op = "Destroy" THEN {} ELSE {Capture(g, r.pos, r.type)}
    <3>1. (r.op = "Create" <=> CapturesOf(g) = {}) /\ Agree(Tail(requests), now, WantedFor(g), g)
      BY <1>0, <1>4, <2>2, ReceiveAbout
    <3>2. CapturesOf(g)' = now
      <4>1. CASE r.op = "Create"
        <5>1. CapturesOf(g) = {} /\ captures' = captures \cup {Capture(g, r.pos, r.type)}
          BY <1>4, <2>2, <3>1, <4>1
        <5> QED BY <4>1, <5>1 DEF CapturesOf, Capture
      <4>2. CASE r.op = "Destroy"
        <5>1. captures' = captures \ CapturesOf(g)
          BY <1>4, <2>2, <4>2
        <5> QED BY <4>2, <5>1 DEF CapturesOf
      <4> QED BY <2>2, <4>1, <4>2
    <3> HIDE DEF now
    <3> QED BY <1>4, <3>1, <3>2
  <2> QED BY <1>2, <2>1, <2>2
<1>5. ASSUME SessionCreate PROVE ChannelAgrees'
  <2>1. CASE r.handle \in HandlesOf(id_map)
    BY <1>3, <1>5, <2>1 DEF SessionCreate, Panic, DropInputCapture
  <2>2. CASE r.handle \notin HandlesOf(id_map)
    BY <1>4, <1>5, <2>2 DEF SessionCreate
  <2> QED BY <2>1, <2>2
<1>6. ASSUME SessionDestroy PROVE ChannelAgrees'
  <2>1. CASE r.handle \notin HandlesOf(id_map)
    BY <1>3, <1>6, <2>1 DEF SessionDestroy, Panic, DropInputCapture
  <2>2. CASE r.handle \in HandlesOf(id_map)
    <3>1. /\ requests # <<>> /\ r.op = "Destroy" /\ requests' = Tail(requests)
          /\ captures' = captures \ CapturesOf(r.handle)
      BY <1>6, <2>2 DEF SessionDestroy
    <3> QED BY <1>4, <3>1
  <2> QED BY <2>1, <2>2
<1>7. ASSUME IdleRequest PROVE ChannelAgrees'
  <2>1. requests # <<>> /\ requests' = Tail(requests)
    BY <1>7 DEF IdleRequest
  <2>2. captures' = IF r.op = "Create" THEN captures \cup {Capture(r.handle, r.pos, r.type)}
                    ELSE IF r.op = "Destroy" THEN captures \ CapturesOf(r.handle)
                    ELSE captures
    BY <1>7 DEF IdleRequest
  <2> QED BY <1>4, <2>1, <2>2
<1>8. ASSUME SessionRelease \/ SessionReenable PROVE ChannelAgrees'
  <2>1. /\ requests # <<>> /\ requests' = Tail(requests) /\ captures' = captures
        /\ r \in {ReleaseRequest, ReenableRequest}
    BY <1>8 DEF SessionRelease, SessionReenable, ReleaseCapture
  <2>2. r.op # "Create" /\ r.op # "Destroy"
    BY <2>1 DEF ReleaseRequest, ReenableRequest
  <2> QED BY <1>4, <2>1, <2>2
<1>9. ASSUME CaptureTaskNext PROVE ChannelAgrees' \/ UNCHANGED <<requests, captures>>
  <2>1. (NewCapture \/ CreateCaptures \/ CaptureExits \/ BackendHangs \/ Cancel
           \/ NoticeCancelled \/ FlushTimer)
          => UNCHANGED <<requests, captures>>
    BY DEF NewCapture, CreateCaptures, CaptureExits, BackendHangs, Cancel, NoticeCancelled,
           FlushTimer, DropInputCapture
  <2>2. \A h \in ClientHandles : ReceiveAck(h) \/ ReceiveLeave(h) => UNCHANGED <<requests, captures>>
    BY DEF ReceiveAck, ReceiveLeave
  <2>3. \A p \in Positions : Cross(p) => UNCHANGED <<requests, captures>>
    BY DEF Cross
  <2>4. \A e \in InputEvents : UserInput(e) => UNCHANGED <<requests, captures>>
    BY DEF UserInput
  <2>5. \A h, e, pressed, rest, queued :
          Deliver(h, e, pressed, rest, queued) => UNCHANGED <<requests, captures>>
    BY DEF Deliver, Panic, DropInputCapture
  <2>6. PollPending \/ PollBackend => UNCHANGED <<requests, captures>>
    BY <2>5 DEF PollPending, PollBackend
  <2> QED BY <1>5, <1>6, <1>7, <1>8, <1>9, <2>1, <2>2, <2>3, <2>4, <2>6 DEF CaptureTaskNext
<1> QED BY <1>3, <1>9 DEF TaskStep

------------------------------------------------------------------------------
\* However far the capture task lags behind, what it watches and what is still
\* in the channel add up to what the service wants, and no request it will
\* receive trips assert!(!id_map.contains_key) or expect("no position for this
\* handle").
THEOREM ChannelAgreement == Spec => [](CaughtUpAgrees /\ RequestsLegal)
<1>1. Init => IncomingHandles /\ ChannelAgrees
  <2> SUFFICES ASSUME Init PROVE IncomingHandles /\ ChannelAgrees
    OBVIOUS
  <2>1. requests = <<>> /\ captures = {} /\ active = {} /\ incoming_conn_info = {}
    BY DEF Init, ChannelInit, RegistryInit, TaskInit
  <2>2. 1 .. Len(requests) = {}
    BY <2>1
  <2>3. \A g \in Handles : CapturesOf(g) = {} /\ WantedFor(g) = {}
    BY <2>1 DEF CapturesOf, WantedFor, Wanted
  <2>4. ASSUME NEW g \in Handles PROVE Agree(requests, CapturesOf(g), WantedFor(g), g)
    <3>1. CapturesOf(g) = WantedFor(g)
      BY <2>3
    <3> QED BY <2>2, <3>1 DEF Agree
  <2> QED BY <2>1, <2>4 DEF IncomingHandles, ChannelAgrees
<1>2. Spec => []PositionInv
  <2>1. Init => ActiveConfigured /\ OneActivePerPosition
    BY DEF Init, RegistryInit, ActiveConfigured, OneActivePerPosition
  <2>2. TypeOK /\ ActiveConfigured /\ OneActivePerPosition => PositionInv
    BY DEF PositionInv
  <2>3. PositionInv => ActiveConfigured /\ OneActivePerPosition
    BY DEF PositionInv
  <2> QED BY <2>1, <2>2, <2>3, PositionStep, TypeCorrect, PTL DEF Spec
<1>3. PositionInv /\ (IncomingHandles /\ ChannelAgrees) /\ [Next]_vars
        => (IncomingHandles /\ ChannelAgrees)'
  <2> SUFFICES ASSUME PositionInv, IncomingHandles, ChannelAgrees, [Next]_vars
               PROVE  (IncomingHandles /\ ChannelAgrees)'
    OBVIOUS
  <2>1. IncomingHandles'
    BY IncomingHandlesStep
  <2>2. CASE Next
    BY <2>1, <2>2, ServiceAgrees, TaskAgrees DEF Next, AgreementInv
  <2>3. CASE UNCHANGED vars
    <3>1. /\ requests' = requests
          /\ \A g \in Handles : CapturesOf(g)' = CapturesOf(g) /\ WantedFor(g)' = WantedFor(g)
      BY <2>3 DEF vars, CapturesOf, WantedFor, Wanted
    <3>2. \A g \in Handles : Agree(requests', CapturesOf(g)', WantedFor(g)', g)
      BY <3>1 DEF ChannelAgrees
    <3> QED BY <2>1, <3>2 DEF ChannelAgrees, Agree, AboutIn
  <2> QED BY <2>2, <2>3
<1>4. IncomingHandles /\ ChannelAgrees => CaughtUpAgrees /\ RequestsLegal
  BY AgreementStatesProperties
<1> QED BY <1>1, <1>2, <1>3, <1>4, PTL DEF Spec
==============================================================================
