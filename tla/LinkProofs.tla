------------------------------ MODULE LinkProofs ------------------------------
(***************************************************************************)
(* Proofs about resolver and connections, for any clients, host names and   *)
(* addresses, and any number of connections.                                *)
(***************************************************************************)
EXTENDS Link, SequenceTheorems, TLAPS

USE DEF dnsVars, connectionVars, vars

------------------------------------------------------------------------------
\* A client's entry stays one.
LEMMA EntryType ==
  ASSUME SlabTypeOK, NEW h \in ClientHandles
  PROVE  /\ slab[h] \in Clients \cup {None}
         /\ Taken(h) => slab[h] \in Clients
BY DEF SlabTypeOK, Taken

LEMMA WithActiveAddrType ==
  ASSUME SlabTypeOK, NEW h \in ClientHandles, NEW a \in Addrs \cup {None}
  PROVE  WithActiveAddr(h, a) \in [ClientHandles -> Clients \cup {None}]
<1>1. CASE Taken(h)
  <2>1. slab[h] \in Clients
    BY <1>1, EntryType
  <2>2. [slab[h] EXCEPT !.active_addr = a] \in Clients
    BY <2>1 DEF Clients
  <2> QED BY <1>1, <2>2 DEF WithActiveAddr, SlabTypeOK
<1>2. CASE ~Taken(h)
  BY <1>2 DEF WithActiveAddr, SlabTypeOK
<1> QED BY <1>1, <1>2

LEMMA WithPongType ==
  ASSUME SlabTypeOK, NEW h \in ClientHandles, NEW a \in Addrs, NEW b \in BOOLEAN
  PROVE  WithPong(h, a, b) \in [ClientHandles -> Clients \cup {None}]
<1>1. CASE Taken(h)
  <2>1. slab[h] \in Clients
    BY <1>1, EntryType
  <2>2. [slab[h] EXCEPT !.active_addr = a, !.alive = b] \in Clients
    BY <2>1 DEF Clients
  <2>3. WithPong(h, a, b) = [slab EXCEPT ![h] = [slab[h] EXCEPT !.active_addr = a, !.alive = b]]
    BY <1>1 DEF WithPong, SlabTypeOK
  <2> QED BY <2>2, <2>3 DEF SlabTypeOK
<1>2. CASE ~Taken(h)
  BY <1>2 DEF WithPong, SlabTypeOK
<1> QED BY <1>1, <1>2

LEMMA DisconnectType ==
  ASSUME SlabTypeOK, ConnectionTypeOK, NEW h \in ClientHandles, NEW a \in Addrs, Disconnect(h, a)
  PROVE  SlabTypeOK' /\ conns' \in [Addrs -> ConnIds \cup {None}]
<1>1. WithActiveAddr(h, None) \in [ClientHandles -> Clients \cup {None}]
  BY WithActiveAddrType
<1> QED BY <1>1 DEF Disconnect, SlabTypeOK, ConnectionTypeOK

LEMMA KeptType ==
  ASSUME NEW r \in Connected
  PROVE  Kept(r) \in Connected \cup {None}
BY DEF Kept

\* A step of the service or of the resolver keeps the types.
LEMMA ResolverTypeStep ==
  ASSUME SlabTypeOK, DnsTypeOK, ResolverNext
  PROVE  SlabTypeOK' /\ DnsTypeOK'
<1> USE DEF dnsVars
<1>1. ASSUME NEW h \in ClientHandles, AddClient(h)
      PROVE  SlabTypeOK' /\ DnsTypeOK'
  <2>1. Entry(None, DefaultPort, {}) \in Clients
    BY AddressAssumption DEF Entry, Clients
  <2> QED BY <1>1, <2>1 DEF AddClient, SlabTypeOK, DnsTypeOK
<1>2. ASSUME NEW h \in ClientHandles, RemoveClient(h)
      PROVE  SlabTypeOK' /\ DnsTypeOK'
  BY <1>2 DEF RemoveClient, SlabTypeOK, DnsTypeOK
<1>3. ASSUME NEW h \in ClientHandles, NEW host \in Hosts \cup {None}, Request(h, host)
      PROVE  dns_requests' \in Seq(DnsRequests)
  <2>1. CASE host = None
    BY <1>3, <2>1 DEF Request, DnsTypeOK
  <2>2. CASE host # None
    <3>1. DnsRequest(h, host) \in DnsRequests
      BY <2>2 DEF DnsRequest, DnsRequests
    <3> QED BY <1>3, <2>2, <3>1 DEF Request, DnsTypeOK
  <2> QED BY <2>1, <2>2
<1>4. ASSUME NEW h \in ClientHandles, Resolve(h)
      PROVE  SlabTypeOK' /\ DnsTypeOK'
  <2>1. slab[h].hostname \in Hosts \cup {None}
    BY <1>4, EntryType DEF Resolve, Clients
  <2> QED BY <1>3, <1>4, <2>1 DEF Resolve, SlabTypeOK, DnsTypeOK
<1>5. ASSUME NEW h \in ClientHandles, NEW host \in Hosts \cup {None}, SetHostname(h, host)
      PROVE  SlabTypeOK' /\ DnsTypeOK'
  <2>1. slab[h] \in Clients
    BY <1>5, EntryType DEF SetHostname
  <2>2. [slab[h] EXCEPT !.hostname = host, !.active_addr = None, !.dns_ips = {}] \in Clients
    BY <2>1 DEF Clients
  <2>3. slab' = [slab EXCEPT ![h] =
                   [slab[h] EXCEPT !.hostname = host, !.active_addr = None, !.dns_ips = {}]]
    BY <1>5 DEF SetHostname, SlabTypeOK
  <2> QED BY <1>3, <1>5, <2>2, <2>3 DEF SetHostname, SlabTypeOK, DnsTypeOK
<1>6. ASSUME NEW h \in ClientHandles, NEW ips \in FixIps, SetFixIps(h, ips)
      PROVE  SlabTypeOK' /\ DnsTypeOK'
  <2>1. slab[h] \in Clients /\ ips \in SUBSET Ips
    BY <1>6, EntryType, AddressAssumption DEF SetFixIps
  <2>2. [slab[h] EXCEPT !.fix_ips = ips] \in Clients
    BY <2>1 DEF Clients
  <2> QED BY <1>6, <2>2 DEF SetFixIps, SlabTypeOK, DnsTypeOK
<1>7. ASSUME NEW h \in ClientHandles, NEW port \in Ports, SetPort(h, port)
      PROVE  SlabTypeOK' /\ DnsTypeOK'
  <2> DEFINE addr == IF slab[h].active_addr = None THEN None ELSE <<slab[h].active_addr[1], port>>
  <2>1. slab[h] \in Clients
    BY <1>7, EntryType DEF SetPort
  <2>2. addr \in Addrs \cup {None}
    BY <2>1 DEF Clients, Addrs
  <2>3. [slab[h] EXCEPT !.port = port, !.active_addr = addr] \in Clients
    BY <2>1, <2>2 DEF Clients
  <2>4. slab' = [slab EXCEPT ![h] = [slab[h] EXCEPT !.port = port, !.active_addr = addr]]
    BY <1>7 DEF SetPort, SlabTypeOK
  <2> QED BY <1>7, <2>3, <2>4 DEF SetPort, SlabTypeOK, DnsTypeOK
<1>8. CASE TakeDnsEvent
  <2> DEFINE e == Head(dns_events)
  <2>1. e \in DnsEvents /\ Tail(dns_events) \in Seq(DnsEvents)
    BY <1>8, HeadTailProperties DEF TakeDnsEvent, DnsTypeOK
  <2>2. e.handle \in ClientHandles
    BY <2>1 DEF DnsEvents
  <2>3. slab' \in [ClientHandles -> Clients \cup {None}]
    <3>1. CASE ~Taken(e.handle)
      BY <1>8, <3>1 DEF TakeDnsEvent, SlabTypeOK
    <3>2. CASE Taken(e.handle) /\ e.kind = "Resolving"
      <4>1. [slab[e.handle] EXCEPT !.resolving = TRUE] \in Clients
        BY <2>2, <3>2, EntryType DEF Clients
      <4> QED BY <1>8, <3>2, <4>1 DEF TakeDnsEvent, SlabTypeOK
    <3>3. CASE Taken(e.handle) /\ e.kind # "Resolving"
      <4>1. e.ips \in SUBSET Ips
        BY <2>1, <3>3 DEF DnsEvents
      <4>2. [slab[e.handle] EXCEPT !.resolving = FALSE, !.dns_ips = e.ips] \in Clients
        <5>1. slab[e.handle] \in Clients
          BY <2>2, <3>3, EntryType
        <5> HIDE DEF e
        <5> QED BY <4>1, <5>1 DEF Clients
      <4>3. slab' = [slab EXCEPT ![e.handle] =
                       [slab[e.handle] EXCEPT !.resolving = FALSE, !.dns_ips = e.ips]]
        BY <1>8, <2>2, <3>3 DEF TakeDnsEvent, SlabTypeOK
      <4> QED BY <4>2, <4>3 DEF SlabTypeOK
    <3> QED BY <3>1, <3>2, <3>3
  <2> QED BY <1>8, <2>1, <2>3 DEF TakeDnsEvent, SlabTypeOK, DnsTypeOK
<1>9. CASE TakeRequest
  <2> DEFINE r == Head(dns_requests)
  <2>1. r \in DnsRequests /\ Tail(dns_requests) \in Seq(DnsRequests)
    BY <1>9, HeadTailProperties DEF TakeRequest, DnsTypeOK
  <2>2. Resolving(r.handle) \in DnsEvents
    BY <2>1 DEF Resolving, DnsEvents, DnsRequests
  <2>3. Append(dns_events, Resolving(r.handle)) \in Seq(DnsEvents)
    BY <2>2 DEF DnsTypeOK
  <2>4. {l \in lookups : l.handle # r.handle} \cup {r} \in SUBSET DnsRequests
    BY <2>1 DEF DnsTypeOK
  <2> QED BY <1>9, <2>1, <2>3, <2>4 DEF TakeRequest, SlabTypeOK, DnsTypeOK
<1>10. ASSUME NEW l \in lookups, LookupEnds(l)
       PROVE  SlabTypeOK' /\ DnsTypeOK'
  <2>1. l \in DnsRequests
    BY DEF DnsTypeOK
  <2>2. PICK ips \in {HostIps[l.hostname], {}} :
          dns_events' = Append(dns_events, Resolved(l.handle, l.hostname, ips))
    BY <1>10 DEF LookupEnds
  <2>3. ips \in SUBSET Ips
    BY <2>1, AddressAssumption DEF DnsRequests
  <2>4. Resolved(l.handle, l.hostname, ips) \in DnsEvents
    BY <2>1, <2>3 DEF Resolved, DnsEvents, DnsRequests
  <2> QED BY <1>10, <2>2, <2>4 DEF LookupEnds, SlabTypeOK, DnsTypeOK
<1> QED BY <1>1, <1>2, <1>4, <1>5, <1>6, <1>7, <1>8, <1>9, <1>10 DEF ResolverNext

\* A step of the connections' tasks keeps the types.
LEMMA ConnectionTypeStep ==
  ASSUME SlabTypeOK, ConnectionTypeOK, ConnectionsNext
  PROVE  SlabTypeOK' /\ ConnectionTypeOK'
<1> USE DEF SlabTypeOK, ConnectionTypeOK
<1>1. ASSUME NEW h \in ClientHandles, SendStarts(h)
      PROVE  SlabTypeOK' /\ ConnectionTypeOK'
  <2>1. slab[h].active_addr \in Addrs
    BY <1>1, EntryType DEF SendStarts, Reaches, Clients
  <2>2. conns[slab[h].active_addr] \in ConnIds
    BY <1>1, <2>1 DEF SendStarts, Reaches
  <2>3. [handle |-> h, addr |-> slab[h].active_addr, conn |-> conns[slab[h].active_addr]] \in Sends
    BY <2>1, <2>2 DEF Sends
  <2> QED BY <1>1, <2>3 DEF SendStarts
<1>2. ASSUME NEW h \in ClientHandles, SendConnects(h) \/ Connect(h)
      PROVE  SlabTypeOK' /\ ConnectionTypeOK'
  <2>1. CASE SendConnects(h)
    BY <2>1 DEF SendConnects
  <2>2. CASE Connect(h)
    <3>1. Taken(h) => SocketAddrs(h) \subseteq Addrs
      BY EntryType DEF SocketAddrs, GetIps, Clients, Addrs
    <3>2. {h} \X (IF Taken(h) THEN SocketAddrs(h) ELSE {}) \subseteq ClientHandles \X Addrs
      BY <3>1
    <3>3. connecting' \in SUBSET ClientHandles
      BY <2>2 DEF Connect
    <3>4. attempts' \in SUBSET (ClientHandles \X Addrs)
      BY <2>2, <3>2 DEF Connect
    <3> QED BY <2>2, <3>3, <3>4 DEF Connect
  <2> QED BY <1>2, <2>1, <2>2
<1>3. ASSUME NEW h \in ClientHandles, NEW a \in Addrs, ConnectFails(h, a)
      PROVE  SlabTypeOK' /\ ConnectionTypeOK'
  BY <1>3 DEF ConnectFails
<1>4. ASSUME NEW h \in ClientHandles, NEW a \in Addrs, NEW c \in ConnIds, ConnectSucceeds(h, a, c)
      PROVE  SlabTypeOK' /\ ConnectionTypeOK'
  <2>1. slab' \in [ClientHandles -> Clients \cup {None}]
    BY <1>4, WithActiveAddrType DEF ConnectSucceeds
  <2>2. conn' \in [ConnIds -> Connected \cup {None}]
    BY <1>4 DEF ConnectSucceeds, Connected
  <2> QED BY <1>4, <2>1, <2>2 DEF ConnectSucceeds
<1>5. CASE SendDone
  BY <1>5 DEF SendDone
<1>6. CASE SendFails
  <2>1. sending \in Sends
    BY <1>6 DEF SendFails
  <2>2. SlabTypeOK' /\ conns' \in [Addrs -> ConnIds \cup {None}]
    BY <1>6, <2>1, DisconnectType DEF SendFails, Sends
  <2> QED BY <1>6, <2>2 DEF SendFails
<1>7. ASSUME NEW c \in ConnIds, PingCheck(c)
      PROVE  SlabTypeOK' /\ ConnectionTypeOK'
  <2> DEFINE closed == [conn[c] EXCEPT !.open = FALSE, !.pong = FALSE, !.pinging = FALSE]
  <2>1. conn[c] \in Connected
    BY <1>7 DEF PingCheck
  <2>2. closed \in Connected
    BY <2>1 DEF Connected
  <2>3. conn' = [conn EXCEPT ![c] = IF conn[c].addr \in ping_response THEN conn[c] ELSE Kept(closed)]
    BY <1>7 DEF PingCheck
  <2>4. conn' \in [ConnIds -> Connected \cup {None}]
    BY <2>1, <2>2, <2>3, KeptType
  <2> QED BY <1>7, <2>4 DEF PingCheck
<1>8. ASSUME NEW c \in ConnIds, ReceiveEnds(c)
      PROVE  SlabTypeOK' /\ ConnectionTypeOK'
  <2> DEFINE ended == [conn[c] EXCEPT !.receiving = FALSE, !.pong = FALSE]
  <2>1. conn[c] \in Connected
    BY <1>8 DEF ReceiveEnds
  <2>2. ended \in Connected
    BY <2>1 DEF Connected
  <2>3. conn' = [conn EXCEPT ![c] = Kept(ended)]
    BY <1>8 DEF ReceiveEnds
  <2>4. conn' \in [ConnIds -> Connected \cup {None}]
    BY <2>2, <2>3, KeptType
  <2>5. SlabTypeOK' /\ conns' \in [Addrs -> ConnIds \cup {None}]
    BY <1>8, <2>1, DisconnectType DEF ReceiveEnds, Connected
  <2> QED BY <1>8, <2>4, <2>5 DEF ReceiveEnds
<1>9. ASSUME NEW c \in ConnIds, NEW b \in BOOLEAN, ReceivePong(c, b)
      PROVE  SlabTypeOK' /\ ConnectionTypeOK'
  <2>1. conn[c] \in Connected
    BY <1>9 DEF ReceivePong
  <2>2. conn[c].addr \in Addrs /\ conn[c].handle \in ClientHandles
    BY <2>1 DEF Connected
  <2>3. [conn[c] EXCEPT !.pong = FALSE] \in Connected
    BY <2>1 DEF Connected
  <2>4. slab' \in [ClientHandles -> Clients \cup {None}]
    BY <1>9, <2>2, WithPongType DEF ReceivePong
  <2> QED BY <1>9, <2>2, <2>3, <2>4 DEF ReceivePong
<1>10. ASSUME NEW c \in ConnIds,
              PingFails(c) \/ PeerAnswers(c) \/ PongLost(c) \/ PeerGone(c)
       PROVE  SlabTypeOK' /\ ConnectionTypeOK'
  <2>1. conn[c] \in Connected
    BY <1>10 DEF PingFails, PeerAnswers, PongLost, PeerGone
  <2>2. /\ [conn[c] EXCEPT !.open = FALSE, !.pong = FALSE] \in Connected
        /\ [conn[c] EXCEPT !.pong = TRUE] \in Connected
        /\ [conn[c] EXCEPT !.pong = FALSE] \in Connected
        /\ [conn[c] EXCEPT !.session = FALSE] \in Connected
    BY <2>1 DEF Connected
  <2>3. CASE PingFails(c)
    <3>1. conn' = [conn EXCEPT ![c] = [conn[c] EXCEPT !.open = FALSE, !.pong = FALSE]]
      BY <2>3 DEF PingFails
    <3> QED BY <2>2, <2>3, <3>1 DEF PingFails
  <2>4. CASE PeerAnswers(c)
    BY <2>2, <2>4 DEF PeerAnswers
  <2>5. CASE PongLost(c)
    BY <2>2, <2>5 DEF PongLost
  <2>6. CASE PeerGone(c)
    BY <2>2, <2>6 DEF PeerGone
  <2> QED BY <1>10, <2>3, <2>4, <2>5, <2>6
<1> QED BY <1>1, <1>2, <1>3, <1>4, <1>5, <1>6, <1>7, <1>8, <1>9, <1>10 DEF ConnectionsNext

\* Every variable of resolver and connections keeps its type.
THEOREM LinkTypeCorrect == Spec => []TypeOK
<1>1. Init => TypeOK
  <2>1. \A n \in Hosts \cup {None}, p \in Ports, f \in FixIps \cup {{}} :
          Entry(n, p, f) \in Clients
    BY AddressAssumption DEF Entry, Clients
  <2>2. Init => SlabTypeOK
    BY <2>1 DEF Init, SlabInit, SlabTypeOK
  <2> QED BY <2>2 DEF Init, DnsInit, ConnectionInit, TypeOK, DnsTypeOK, ConnectionTypeOK
<1>2. TypeOK /\ [Next]_vars => TypeOK'
  <2> SUFFICES ASSUME TypeOK, [Next]_vars PROVE TypeOK'
    OBVIOUS
  <2>1. CASE ResolverNext /\ UNCHANGED connectionVars
    BY <2>1, ResolverTypeStep DEF TypeOK, ConnectionTypeOK
  <2>2. CASE ConnectionsNext /\ UNCHANGED dnsVars
    BY <2>2, ConnectionTypeStep DEF TypeOK, DnsTypeOK
  <2>3. CASE UNCHANGED vars
    BY <2>3 DEF TypeOK, SlabTypeOK, DnsTypeOK, ConnectionTypeOK
  <2> QED BY <2>1, <2>2, <2>3 DEF Next
<1> QED BY <1>1, <1>2, PTL DEF Spec

------------------------------------------------------------------------------
\* A connection that sends are given to has its receive loop, whatever connections
\* to the same address come and go.
LEMMA ReceivedStep == TypeOK /\ ConnsReceived /\ [Next]_vars => ConnsReceived'
<1> SUFFICES ASSUME TypeOK, ConnsReceived, [Next]_vars,
                    NEW a \in Addrs, conns'[a] # None
             PROVE  /\ conn'[conns'[a]] # None
                    /\ conn'[conns'[a]].addr = a
                    /\ conn'[conns'[a]].receiving
  BY DEF ConnsReceived
<1> USE DEF TypeOK, ConnectionTypeOK
<1> DEFINE c == conns[a]
<1>0. c # None => c \in ConnIds /\ conn[c] \in Connected /\ conn[c].addr = a /\ conn[c].receiving
  BY DEF ConnsReceived
<1>1. CASE UNCHANGED <<conns, conn>>
  BY <1>0, <1>1, ConnectionAssumption
<1>2. ASSUME NEW h \in ClientHandles, NEW b \in Addrs, NEW d \in ConnIds, ConnectSucceeds(h, b, d)
      PROVE  /\ conn'[conns'[a]] # None
             /\ conn'[conns'[a]].addr = a
             /\ conn'[conns'[a]].receiving
  <2> DEFINE new == [addr |-> b, handle |-> h, open |-> TRUE, session |-> TRUE,
                     pong |-> FALSE, pinging |-> TRUE, receiving |-> TRUE]
  <2>1. new \in Connected
    BY DEF Connected
  <2>2. conn' = [conn EXCEPT ![d] = new] /\ conns' = [conns EXCEPT ![b] = d] /\ conn[d] = None
    BY <1>2 DEF ConnectSucceeds
  <2>3. new # None
    BY <2>1, ConnectionAssumption
  <2>4. CASE a = b
    BY <2>2, <2>3, <2>4
  <2>5. CASE a # b
    BY <1>0, <2>2, <2>5, ConnectionAssumption
  <2> QED BY <2>4, <2>5
<1>3. CASE SendFails
  <2>1. sending \in Sends
    BY <1>3 DEF SendFails
  <2>2. conns' = [conns EXCEPT ![sending.addr] = None] /\ conn' = conn
    BY <1>3 DEF SendFails, Disconnect
  <2>3. conns'[a] = c
    BY <2>1, <2>2 DEF Sends
  <2> QED BY <1>0, <2>2, <2>3, ConnectionAssumption
<1>4. ASSUME NEW d \in ConnIds, ReceiveEnds(d)
      PROVE  /\ conn'[conns'[a]] # None
             /\ conn'[conns'[a]].addr = a
             /\ conn'[conns'[a]].receiving
  <2>1. conns' = [conns EXCEPT ![conn[d].addr] = None] /\ conn[d] \in Connected
    BY <1>4 DEF ReceiveEnds, Disconnect
  <2>2. a # conn[d].addr /\ c # d
    BY <1>0, <2>1 DEF Connected
  <2>3. conn'[c] = conn[c] /\ conns'[a] = c
    BY <1>0, <1>4, <2>1, <2>2 DEF ReceiveEnds
  <2> QED BY <1>0, <2>3, ConnectionAssumption
<1>5. ASSUME NEW d \in ConnIds,
             PingCheck(d) \/ PingFails(d) \/ (\E b \in BOOLEAN : ReceivePong(d, b))
               \/ PeerAnswers(d) \/ PongLost(d) \/ PeerGone(d)
      PROVE  /\ conn'[conns'[a]] # None
             /\ conn'[conns'[a]].addr = a
             /\ conn'[conns'[a]].receiving
  <2>1. conns' = conns /\ conn[d] \in Connected
    BY <1>5 DEF PingCheck, PingFails, ReceivePong, PeerAnswers, PongLost, PeerGone
  <2>2. CASE c # d
    <3>1. conn'[c] = conn[c]
      BY <1>0, <1>5, <2>1, <2>2
         DEF PingCheck, PingFails, ReceivePong, PeerAnswers, PongLost, PeerGone
    <3> QED BY <1>0, <2>1, <3>1, ConnectionAssumption
  <2>3. CASE c = d
    <3>1. \/ conn'[d] = conn[d]
          \/ conn'[d] = Kept([conn[d] EXCEPT !.open = FALSE, !.pong = FALSE, !.pinging = FALSE])
          \/ conn'[d] = [conn[d] EXCEPT !.open = FALSE, !.pong = FALSE]
          \/ \E b \in BOOLEAN : conn'[d] = [conn[d] EXCEPT !.pong = b]
          \/ conn'[d] = [conn[d] EXCEPT !.session = FALSE]
      BY <1>5, <2>1 DEF PingCheck, PingFails, ReceivePong, PeerAnswers, PongLost, PeerGone
    <3>2. conn[d].receiving /\ conn[d].addr = a
      BY <1>0, <2>1, <2>3
    <3>3. conn'[d] \in Connected /\ conn'[d].receiving /\ conn'[d].addr = a
      BY <2>1, <3>1, <3>2 DEF Connected, Kept
    <3> QED BY <2>1, <2>3, <3>3, ConnectionAssumption
  <2> QED BY <2>2, <2>3
<1>6. CASE ConnectionsNext
  <2>1. ASSUME NEW h \in ClientHandles, SendStarts(h) \/ SendConnects(h) \/ Connect(h)
        PROVE  UNCHANGED <<conns, conn>>
    BY <2>1 DEF SendStarts, SendConnects, Connect
  <2>2. ASSUME NEW h \in ClientHandles, NEW b \in Addrs, ConnectFails(h, b)
        PROVE  UNCHANGED <<conns, conn>>
    BY <2>2 DEF ConnectFails
  <2>3. SendDone => UNCHANGED <<conns, conn>>
    BY DEF SendDone
  <2> QED BY <1>1, <1>2, <1>3, <1>4, <1>5, <1>6, <2>1, <2>2, <2>3 DEF ConnectionsNext
<1>7. CASE UNCHANGED connectionVars
  BY <1>1, <1>7
<1> QED BY <1>6, <1>7 DEF Next

\* Sends are never given to a connection that nobody receives from any more.
THEOREM SendsAreReceived == Spec => []ConnsReceived
<1>1. Init => ConnsReceived
  BY DEF Init, ConnectionInit, ConnsReceived
<1> QED BY <1>1, ReceivedStep, LinkTypeCorrect, PTL DEF Spec

------------------------------------------------------------------------------
\* The last element of q that is in S, as a set that has it or is empty; and that
\* there is none.
LastIn(q, S) ==
  {r \in S : \E i \in 1 .. Len(q) : q[i] = r /\ \A k \in i + 1 .. Len(q) : q[k] \notin S}

NoneIn(q, S) == \A i \in 1 .. Len(q) : q[i] \notin S

LEMMA AppendLast ==
  ASSUME NEW T, NEW q \in Seq(T), NEW r \in T, NEW S
  PROVE  /\ LastIn(Append(q, r), S) = IF r \in S THEN {r} ELSE LastIn(q, S)
         /\ NoneIn(Append(q, r), S) <=> NoneIn(q, S) /\ r \notin S
<1> DEFINE n == Len(q)
           s == Append(q, r)
<1>1. n \in Nat /\ Len(s) = n + 1 /\ s[n + 1] = r /\ \A i \in 1 .. n : s[i] = q[i]
  BY AppendProperties, LenProperties
<1>2. n = Len(q)
  OBVIOUS
<1> HIDE DEF s, n
<1>3. NoneIn(s, S) <=> NoneIn(q, S) /\ r \notin S
  BY <1>1, <1>2 DEF NoneIn
<1>4. CASE r \in S
  <2>1. ASSUME NEW i \in 1 .. n + 1, \A k \in i + 1 .. n + 1 : s[k] \notin S
        PROVE  i = n + 1
    BY <1>1, <1>4, <2>1
  <2>2. LastIn(s, S) \subseteq {r}
    BY <1>1, <2>1 DEF LastIn
  <2>3. r \in LastIn(s, S)
    BY <1>1, <1>4 DEF LastIn
  <2> QED BY <1>3, <1>4, <2>2, <2>3 DEF s
<1>5. CASE r \notin S
  <2>1. ASSUME NEW x \in LastIn(s, S) PROVE x \in LastIn(q, S)
    <3>1. PICK i \in 1 .. n + 1 : s[i] = x /\ \A k \in i + 1 .. n + 1 : s[k] \notin S
      BY <1>1 DEF LastIn
    <3>2. i \in 1 .. n /\ x \in S
      BY <1>1, <1>5, <3>1 DEF LastIn
    <3>3. q[i] = x /\ \A k \in i + 1 .. n : q[k] \notin S
      BY <1>1, <3>1, <3>2
    <3> QED BY <1>2, <3>2, <3>3 DEF LastIn
  <2>2. ASSUME NEW x \in LastIn(q, S) PROVE x \in LastIn(s, S)
    <3>1. PICK i \in 1 .. n : q[i] = x /\ \A k \in i + 1 .. n : q[k] \notin S
      BY <1>2 DEF LastIn
    <3>2. s[i] = x /\ \A k \in i + 1 .. n + 1 : s[k] \notin S
      BY <1>1, <1>5, <3>1
    <3>3. i \in 1 .. n + 1 /\ x \in S
      BY <1>1 DEF LastIn
    <3> QED BY <1>1, <3>2, <3>3 DEF LastIn
  <2> QED BY <1>3, <1>5, <2>1, <2>2 DEF s
<1> QED BY <1>4, <1>5

LEMMA TailLast ==
  ASSUME NEW T, NEW q \in Seq(T), q # <<>>, NEW S
  PROVE  /\ LastIn(Tail(q), S) \subseteq LastIn(q, S)
         /\ NoneIn(q, S) <=> NoneIn(Tail(q), S) /\ Head(q) \notin S
         /\ NoneIn(Tail(q), S) /\ Head(q) \in S => Head(q) \in LastIn(q, S)
<1> DEFINE n == Len(q)
           t == Tail(q)
<1>1. /\ n \in Nat /\ n >= 1 /\ Len(t) = n - 1
      /\ \A i \in 1 .. n - 1 : t[i] = q[i + 1]
      /\ Head(q) = q[1]
  BY HeadTailProperties, LenProperties
<1>2. n = Len(q)
  OBVIOUS
<1> HIDE DEF t, n
<1>3. ASSUME NEW x \in LastIn(t, S) PROVE x \in LastIn(q, S)
  <2>1. PICK i \in 1 .. n - 1 : t[i] = x /\ \A k \in i + 1 .. n - 1 : t[k] \notin S
    BY <1>1 DEF LastIn
  <2>2. q[i + 1] = x /\ i + 1 \in 1 .. n /\ x \in S
    BY <1>1, <2>1 DEF LastIn
  <2>3. ASSUME NEW k \in (i + 1) + 1 .. n PROVE q[k] \notin S
    <3>1. k - 1 \in i + 1 .. n - 1 /\ k - 1 \in 1 .. n - 1 /\ (k - 1) + 1 = k
      BY <1>1, <2>1
    <3> QED BY <1>1, <2>1, <3>1
  <2> QED BY <1>2, <2>2, <2>3 DEF LastIn
<1>4. NoneIn(q, S) <=> NoneIn(t, S) /\ Head(q) \notin S
  <2>1. ASSUME NoneIn(q, S) PROVE NoneIn(t, S) /\ Head(q) \notin S
    BY <1>1, <1>2, <2>1 DEF NoneIn
  <2>2. ASSUME NoneIn(t, S), Head(q) \notin S, NEW i \in 1 .. n PROVE q[i] \notin S
    <3>1. CASE i = 1
      BY <1>1, <2>2, <3>1
    <3>2. CASE i # 1
      <4>1. i - 1 \in 1 .. n - 1 /\ (i - 1) + 1 = i
        BY <1>1, <3>2
      <4> QED BY <1>1, <2>2, <4>1 DEF NoneIn
    <3> QED BY <3>1, <3>2
  <2> QED BY <1>2, <2>1, <2>2 DEF NoneIn
<1>5. ASSUME NoneIn(t, S), Head(q) \in S PROVE Head(q) \in LastIn(q, S)
  <2>1. ASSUME NEW k \in 1 + 1 .. n PROVE q[k] \notin S
    <3>1. k - 1 \in 1 .. n - 1 /\ (k - 1) + 1 = k
      BY <1>1
    <3> QED BY <1>1, <1>5, <3>1 DEF NoneIn
  <2> QED BY <1>1, <1>2, <1>5, <2>1 DEF LastIn
<1> QED BY <1>3, <1>4, <1>5 DEF t

------------------------------------------------------------------------------
RequestsOf(h) == {r \in DnsRequests : r.handle = h}
EventsOf(h) == {e \in DnsEvents : e.handle = h}
ResolvedOf(h) == {e \in EventsOf(h) : e.kind = "Resolved"}
NoLookup(h) == \A l \in lookups : l.handle # h

Answers(host) == {{}, HostIps[host]}

\* What is on its way for a client that has a host name ends with that host name: its last
\* request, or else the lookup, or else the last result, or else the addresses it has.
Latest(h) ==
  Taken(h) /\ slab[h].hostname # None =>
    /\ \A r \in LastIn(dns_requests, RequestsOf(h)) : r.hostname = slab[h].hostname
    /\ NoneIn(dns_requests, RequestsOf(h)) =>
         /\ \A l \in lookups : l.handle = h => l.hostname = slab[h].hostname
         /\ NoLookup(h) =>
              /\ \A e \in LastIn(dns_events, ResolvedOf(h)) : e.ips \in Answers(slab[h].hostname)
              /\ NoneIn(dns_events, ResolvedOf(h)) => slab[h].dns_ips \in Answers(slab[h].hostname)

\* While no lookup goes on the last event is its result, and resolving is not set after it.
Shown(h) ==
  NoLookup(h) =>
    /\ \A e \in LastIn(dns_events, EventsOf(h)) : e.kind = "Resolved"
    /\ NoneIn(dns_events, EventsOf(h)) /\ Taken(h) => ~slab[h].resolving

\* A request for the client's host name is appended, or it has none.
LEMMA RequestLatest ==
  ASSUME DnsTypeOK, NEW h \in ClientHandles, NEW g \in ClientHandles,
         NEW host \in Hosts \cup {None}, Request(g, host), UNCHANGED <<lookups, dns_events>>,
         g = h => slab'[h] # None /\ slab'[h].hostname = host,
         g # h => slab'[h] = slab[h],
         Latest(h)
  PROVE  Latest(h)'
<1>1. CASE host = None
  BY <1>1 DEF Request, Latest, Taken, NoLookup
<1>2. CASE host # None
  <2> DEFINE r == DnsRequest(g, host)
  <2>1. r \in DnsRequests /\ dns_requests' = Append(dns_requests, r)
    BY <1>2 DEF Request, DnsRequest, DnsRequests
  <2>2. r \in RequestsOf(h) <=> g = h
    BY <2>1 DEF RequestsOf, DnsRequest
  <2>3. /\ LastIn(dns_requests', RequestsOf(h)) =
             IF r \in RequestsOf(h) THEN {r} ELSE LastIn(dns_requests, RequestsOf(h))
        /\ NoneIn(dns_requests', RequestsOf(h))
             <=> NoneIn(dns_requests, RequestsOf(h)) /\ r \notin RequestsOf(h)
    BY <2>1, AppendLast DEF DnsTypeOK
  <2>4. CASE g = h
    <3>1. r.hostname = host
      BY DEF DnsRequest
    <3> HIDE DEF r
    <3> QED BY <2>2, <2>3, <2>4, <3>1 DEF Latest, Taken
  <2>5. CASE g # h
    <3> HIDE DEF r
    <3> QED BY <2>2, <2>3, <2>5 DEF Latest, Taken, NoLookup
  <2> QED BY <2>4, <2>5
<1> QED BY <1>1, <1>2

\* What the resolver does keeps both.
LEMMA TakeRequestKeeps ==
  ASSUME TypeOK, NEW h \in ClientHandles, Latest(h), Shown(h), TakeRequest
  PROVE  Latest(h)' /\ Shown(h)'
<1> DEFINE r == Head(dns_requests)
           e == Resolving(r.handle)
           R == RequestsOf(h)
<1>1. /\ r \in DnsRequests
      /\ dns_requests \in Seq(DnsRequests) /\ dns_events \in Seq(DnsEvents)
  BY HeadTailProperties DEF TakeRequest, TypeOK, DnsTypeOK
<1>2. e \in DnsEvents /\ e \notin ResolvedOf(h) /\ (e \in EventsOf(h) <=> r.handle = h)
  BY <1>1 DEF Resolving, DnsEvents, DnsRequests, ResolvedOf, EventsOf
<1>3. /\ LastIn(dns_requests', R) \subseteq LastIn(dns_requests, R)
      /\ NoneIn(dns_requests, R) <=> NoneIn(dns_requests', R) /\ r \notin R
      /\ NoneIn(dns_requests', R) /\ r \in R => r \in LastIn(dns_requests, R)
  BY <1>1, TailLast DEF TakeRequest
<1>4. /\ LastIn(dns_events', ResolvedOf(h)) = LastIn(dns_events, ResolvedOf(h))
      /\ NoneIn(dns_events', ResolvedOf(h)) <=> NoneIn(dns_events, ResolvedOf(h))
      /\ r.handle # h =>
           /\ LastIn(dns_events', EventsOf(h)) = LastIn(dns_events, EventsOf(h))
           /\ NoneIn(dns_events', EventsOf(h)) <=> NoneIn(dns_events, EventsOf(h))
  BY <1>1, <1>2, AppendLast DEF TakeRequest
<1>5. r \in R <=> r.handle = h
  BY <1>1 DEF RequestsOf
<1>6. lookups' = {l \in lookups : l.handle # r.handle} \cup {r} /\ slab' = slab
  BY DEF TakeRequest
<1> HIDE DEF r, e, R
<1>7. CASE r.handle = h
  <2>1. /\ r \in lookups' /\ ~NoLookup(h)'
        /\ \A l \in lookups' : l.handle = h => l = r
    BY <1>6, <1>7 DEF NoLookup
  <2> QED BY <1>3, <1>5, <1>6, <1>7, <2>1 DEF Latest, Shown, Taken, R
<1>8. CASE r.handle # h
  <2>1. NoLookup(h)' <=> NoLookup(h)
    BY <1>6, <1>8 DEF NoLookup
  <2>2. \A l \in lookups' : l.handle = h => l \in lookups
    BY <1>6, <1>8
  <2>3. NoneIn(dns_requests', R) <=> NoneIn(dns_requests, R)
    BY <1>3, <1>5, <1>8
  <2> QED BY <1>3, <1>4, <1>6, <1>8, <2>1, <2>2, <2>3 DEF Latest, Shown, Taken, R
<1> QED BY <1>7, <1>8

LEMMA LookupEndsKeeps ==
  ASSUME TypeOK, NEW h \in ClientHandles, Latest(h), Shown(h), NEW l \in lookups, LookupEnds(l)
  PROVE  Latest(h)' /\ Shown(h)'
<1>1. PICK ips \in Answers(l.hostname) :
        dns_events' = Append(dns_events, Resolved(l.handle, l.hostname, ips))
  BY DEF LookupEnds, Answers
<1> DEFINE e == Resolved(l.handle, l.hostname, ips)
<1>2. l \in DnsRequests /\ dns_events \in Seq(DnsEvents)
  BY DEF TypeOK, DnsTypeOK
<1>3. ips \in SUBSET Ips
  BY <1>1, <1>2, AddressAssumption DEF Answers, DnsRequests
<1>4. /\ e \in DnsEvents /\ e.kind = "Resolved" /\ e.ips = ips
      /\ e \in ResolvedOf(h) <=> l.handle = h
      /\ e \in EventsOf(h) <=> l.handle = h
  BY <1>2, <1>3 DEF Resolved, DnsEvents, DnsRequests, ResolvedOf, EventsOf
<1>5. /\ LastIn(dns_events', ResolvedOf(h)) =
           IF l.handle = h THEN {e} ELSE LastIn(dns_events, ResolvedOf(h))
      /\ NoneIn(dns_events', ResolvedOf(h)) <=> NoneIn(dns_events, ResolvedOf(h)) /\ l.handle # h
      /\ LastIn(dns_events', EventsOf(h)) =
           IF l.handle = h THEN {e} ELSE LastIn(dns_events, EventsOf(h))
      /\ NoneIn(dns_events', EventsOf(h)) <=> NoneIn(dns_events, EventsOf(h)) /\ l.handle # h
  <2>1. \A S : /\ LastIn(Append(dns_events, e), S) = IF e \in S THEN {e} ELSE LastIn(dns_events, S)
               /\ NoneIn(Append(dns_events, e), S) <=> NoneIn(dns_events, S) /\ e \notin S
    <3> HIDE DEF e
    <3> TAKE S
    <3> QED BY <1>2, <1>4, AppendLast
  <2> HIDE DEF e
  <2>2. dns_events' = Append(dns_events, e)
    BY <1>1 DEF e
  <2> QED BY <1>4, <2>1, <2>2
<1>6. lookups' = lookups \ {l} /\ slab' = slab /\ dns_requests' = dns_requests
  BY DEF LookupEnds
<1> HIDE DEF e
<1>7. CASE l.handle = h
  BY <1>1, <1>4, <1>5, <1>6, <1>7 DEF Latest, Shown, Taken, NoLookup
<1>8. CASE l.handle # h
  <2>1. NoLookup(h)' <=> NoLookup(h)
    BY <1>6, <1>8 DEF NoLookup
  <2> QED BY <1>5, <1>6, <1>8, <2>1 DEF Latest, Shown, Taken
<1> QED BY <1>7, <1>8

\* What the service does with an event keeps both.
LEMMA TakeDnsEventKeeps ==
  ASSUME TypeOK, NEW h \in ClientHandles, Latest(h), Shown(h), TakeDnsEvent
  PROVE  Latest(h)' /\ Shown(h)'
<1> DEFINE e == Head(dns_events)
<1>1. /\ dns_events \in Seq(DnsEvents) /\ dns_events # <<>> /\ e \in DnsEvents
      /\ e.handle \in ClientHandles
  BY HeadTailProperties DEF TakeDnsEvent, TypeOK, DnsTypeOK, DnsEvents
<1>2. \A S : /\ LastIn(dns_events', S) \subseteq LastIn(dns_events, S)
             /\ NoneIn(dns_events, S) <=> NoneIn(dns_events', S) /\ e \notin S
             /\ NoneIn(dns_events', S) /\ e \in S => e \in LastIn(dns_events, S)
  BY <1>1, TailLast DEF TakeDnsEvent
<1>3. /\ e \in EventsOf(h) <=> e.handle = h
      /\ e \in ResolvedOf(h) <=> e.handle = h /\ e.kind = "Resolved"
  BY <1>1 DEF EventsOf, ResolvedOf
<1>4. e.kind \in {"Resolving", "Resolved"}
  BY <1>1 DEF DnsEvents
<1>5. UNCHANGED <<dns_requests, lookups>> /\ (NoLookup(h)' <=> NoLookup(h))
  BY DEF TakeDnsEvent, NoLookup
<1>6. CASE e.handle = h /\ Taken(h)
  <2>1. slab[h] \in Clients
    BY <1>6, EntryType DEF TypeOK
  <2>2. CASE e.kind = "Resolving"
    <3>1. slab' = [slab EXCEPT ![h] = [slab[h] EXCEPT !.resolving = TRUE]]
      BY <1>6, <2>2 DEF TakeDnsEvent
    <3>2. /\ slab'[h] = [slab[h] EXCEPT !.resolving = TRUE]
          /\ slab'[h].hostname = slab[h].hostname /\ slab'[h].dns_ips = slab[h].dns_ips
      BY <2>1, <3>1 DEF TypeOK, SlabTypeOK, Clients
    <3> HIDE DEF e
    <3>3. Latest(h)'
      BY <1>2, <1>3, <1>5, <1>6, <2>2, <3>2 DEF Latest, Taken
    <3>4. Shown(h)'
      BY <1>2, <1>3, <1>5, <1>6, <2>2 DEF Shown
    <3> QED BY <3>3, <3>4
  <2>3. CASE e.kind = "Resolved"
    <3>1. slab' = [slab EXCEPT ![h] = [slab[h] EXCEPT !.resolving = FALSE, !.dns_ips = e.ips]]
      BY <1>6, <2>3 DEF TakeDnsEvent, TypeOK, SlabTypeOK
    <3> HIDE DEF e
    <3>2. /\ slab'[h].hostname = slab[h].hostname
          /\ slab'[h].dns_ips = e.ips /\ slab'[h].resolving = FALSE
      BY <2>1, <3>1 DEF TypeOK, SlabTypeOK, Clients
    <3>3. Latest(h)'
      BY <1>2, <1>3, <1>5, <1>6, <2>3, <3>2 DEF Latest, Taken
    <3>4. Shown(h)'
      BY <1>2, <1>3, <1>5, <1>6, <3>2 DEF Shown
    <3> QED BY <3>3, <3>4
  <2> QED BY <1>4, <2>2, <2>3
<1>7. CASE e.handle = h /\ ~Taken(h)
  <2>1. slab' = slab
    BY <1>7 DEF TakeDnsEvent
  <2> HIDE DEF e
  <2> QED BY <1>2, <1>5, <1>7, <2>1 DEF Latest, Shown, Taken
<1>8. CASE e.handle # h
  <2>1. slab'[h] = slab[h]
    BY <1>1, <1>8 DEF TakeDnsEvent, TypeOK, SlabTypeOK
  <2> HIDE DEF e
  <2> QED BY <1>2, <1>3, <1>5, <1>8, <2>1 DEF Latest, Shown, Taken
<1> QED BY <1>6, <1>7, <1>8

\* A step that leaves the channels, the lookup and the client's host name and
\* results as they are keeps both.
SameResults(h) ==
  /\ UNCHANGED dnsVars
  /\ Taken(h)' => /\ Taken(h)
                  /\ slab'[h].hostname = slab[h].hostname
                  /\ slab'[h].dns_ips = slab[h].dns_ips
                  /\ slab'[h].resolving = slab[h].resolving

LEMMA SameResultsKeeps ==
  ASSUME NEW h \in ClientHandles, Latest(h), Shown(h), SameResults(h)
  PROVE  Latest(h)' /\ Shown(h)'
BY DEF SameResults, Latest, Shown, NoLookup

\* What the user asks for keeps both.
LEMMA UserKeeps ==
  ASSUME TypeOK, NEW h \in ClientHandles, Latest(h), Shown(h), NEW g \in ClientHandles,
         \/ AddClient(g) \/ RemoveClient(g) \/ Resolve(g)
         \/ \E host \in Hosts \cup {None} : SetHostname(g, host)
         \/ \E ips \in FixIps : SetFixIps(g, ips)
         \/ \E port \in Ports : SetPort(g, port)
  PROVE  Latest(h)' /\ Shown(h)'
<1> USE DEF TypeOK, SlabTypeOK
<1>1. CASE AddClient(g)
  <2>1. CASE g = h
    <3>1. slab'[h] = Entry(None, DefaultPort, {}) /\ UNCHANGED dnsVars
      BY <1>1, <2>1 DEF AddClient
    <3>2. slab'[h].hostname = None /\ slab'[h].resolving = FALSE
      BY <3>1 DEF Entry
    <3> QED BY <3>1, <3>2 DEF Latest, Shown, NoLookup
  <2>2. CASE g # h
    BY <1>1, <2>2, SameResultsKeeps DEF AddClient, SameResults, Taken
  <2> QED BY <2>1, <2>2
<1>2. CASE RemoveClient(g)
  BY <1>2, SameResultsKeeps DEF RemoveClient, SameResults, Taken
<1>3. CASE Resolve(g)
  <2>1. slab[g].hostname \in Hosts \cup {None} /\ Request(g, slab[g].hostname)
    BY <1>3, EntryType DEF Resolve, Clients
  <2>2. Latest(h)'
    BY <1>3, <2>1, RequestLatest DEF Resolve, Taken
  <2>3. Shown(h)'
    BY <1>3 DEF Resolve, Shown, NoLookup, Taken
  <2> QED BY <2>2, <2>3
<1>4. ASSUME NEW host \in Hosts \cup {None}, SetHostname(g, host)
      PROVE  Latest(h)' /\ Shown(h)'
  <2> DEFINE entry == [slab[g] EXCEPT !.hostname = host, !.active_addr = None, !.dns_ips = {}]
  <2>1. slab[g] \in Clients
    BY <1>4, EntryType DEF SetHostname
  <2>2. slab' = [slab EXCEPT ![g] = entry]
    BY <1>4 DEF SetHostname
  <2>3. entry \in Clients /\ entry.hostname = host /\ entry.resolving = slab[g].resolving
    BY <2>1 DEF Clients
  <2>4. entry # None
    BY <2>3, SlotAssumption
  <2> HIDE DEF entry
  <2>5. Latest(h)'
    BY <1>4, <2>2, <2>3, <2>4, RequestLatest DEF SetHostname
  <2>6. Shown(h)'
    BY <1>4, <2>1, <2>2, <2>3 DEF SetHostname, Shown, NoLookup, Taken
  <2> QED BY <2>5, <2>6
<1>5. ASSUME NEW ips \in FixIps, SetFixIps(g, ips)
      PROVE  Latest(h)' /\ Shown(h)'
  <2>1. slab[g] \in Clients
    BY <1>5, EntryType DEF SetFixIps
  <2>2. SameResults(h)
    BY <1>5, <2>1 DEF SetFixIps, SameResults, Taken, Clients
  <2> QED BY <2>2, SameResultsKeeps
<1>6. ASSUME NEW port \in Ports, SetPort(g, port)
      PROVE  Latest(h)' /\ Shown(h)'
  <2>1. slab[g] \in Clients
    BY <1>6, EntryType DEF SetPort
  <2>2. SameResults(h)
    BY <1>6, <2>1 DEF SetPort, SameResults, Taken, Clients
  <2> QED BY <2>2, SameResultsKeeps
<1> QED BY <1>1, <1>2, <1>3, <1>4, <1>5, <1>6

\* The connections' tasks write addresses they have reached, and nothing else of a
\* client.
LEMMA ConnectionsKeep ==
  ASSUME TypeOK, NEW h \in ClientHandles, Latest(h), Shown(h),
         ConnectionsNext, UNCHANGED dnsVars
  PROVE  Latest(h)' /\ Shown(h)'
<1> DEFINE Same == Taken(h)' => /\ Taken(h)
                              /\ slab'[h].hostname = slab[h].hostname
                              /\ slab'[h].dns_ips = slab[h].dns_ips
                              /\ slab'[h].resolving = slab[h].resolving
<1>1. ASSUME NEW g \in ClientHandles, NEW a, slab' = WithActiveAddr(g, a)
      PROVE  Same
  <2>1. CASE Taken(g)
    <3>1. slab[g] \in Clients
      BY <2>1, EntryType DEF TypeOK
    <3> QED BY <1>1, <2>1, <3>1 DEF WithActiveAddr, TypeOK, SlabTypeOK, Taken, Clients
  <2>2. CASE ~Taken(g)
    BY <1>1, <2>2 DEF WithActiveAddr, Taken
  <2> QED BY <2>1, <2>2
<1>2. ASSUME NEW g \in ClientHandles, NEW a, NEW b, slab' = WithPong(g, a, b)
      PROVE  Same
  <2>1. CASE Taken(g)
    <3>1. slab[g] \in Clients
      BY <2>1, EntryType DEF TypeOK
    <3> QED BY <1>2, <2>1, <3>1 DEF WithPong, TypeOK, SlabTypeOK, Taken, Clients
  <2>2. CASE ~Taken(g)
    BY <1>2, <2>2 DEF WithPong, Taken
  <2> QED BY <2>1, <2>2
<1>3. slab' = slab => Same
  BY DEF Taken
<1>4. \/ slab' = slab
      \/ \E g \in ClientHandles : \E a : slab' = WithActiveAddr(g, a)
      \/ \E g \in ClientHandles : \E a : \E b : slab' = WithPong(g, a, b)
  <2>1. ASSUME NEW g \in ClientHandles,
               \/ SendStarts(g) \/ SendConnects(g) \/ Connect(g)
               \/ \E a \in Addrs : ConnectFails(g, a)
        PROVE  slab' = slab
    BY <2>1 DEF SendStarts, SendConnects, Connect, ConnectFails
  <2>2. ASSUME NEW g \in ClientHandles, NEW a \in Addrs, NEW c \in ConnIds, ConnectSucceeds(g, a, c)
        PROVE  slab' = WithActiveAddr(g, a)
    BY <2>2 DEF ConnectSucceeds
  <2>3. SendDone => slab' = slab
    BY DEF SendDone
  <2>4. SendFails => sending.handle \in ClientHandles /\ slab' = WithActiveAddr(sending.handle, None)
    BY DEF SendFails, Disconnect, TypeOK, ConnectionTypeOK, Sends
  <2>5. ASSUME NEW c \in ConnIds,
               PingCheck(c) \/ PingFails(c) \/ PeerAnswers(c) \/ PongLost(c) \/ PeerGone(c)
        PROVE  slab' = slab
    BY <2>5 DEF PingCheck, PingFails, PeerAnswers, PongLost, PeerGone
  <2>6. ASSUME NEW c \in ConnIds, ReceiveEnds(c)
        PROVE  conn[c].handle \in ClientHandles /\ slab' = WithActiveAddr(conn[c].handle, None)
    BY <2>6 DEF ReceiveEnds, Disconnect, TypeOK, ConnectionTypeOK, Connected
  <2>7. ASSUME NEW c \in ConnIds, NEW b \in BOOLEAN, ReceivePong(c, b)
        PROVE  conn[c].handle \in ClientHandles /\ slab' = WithPong(conn[c].handle, conn[c].addr, b)
    BY <2>7 DEF ReceivePong, TypeOK, ConnectionTypeOK, Connected
  <2> QED BY <2>1, <2>2, <2>3, <2>4, <2>5, <2>6, <2>7 DEF ConnectionsNext
<1>5. Same
  BY <1>1, <1>2, <1>3, <1>4
<1> QED BY <1>5, SameResultsKeeps DEF SameResults

ResolverInv == \A h \in ClientHandles : Latest(h) /\ Shown(h)

LEMMA ResolverInvariant == Spec => []ResolverInv
<1>1. Init => ResolverInv
  <2> SUFFICES ASSUME Init, NEW h \in ClientHandles PROVE Latest(h) /\ Shown(h)
    BY DEF ResolverInv
  <2>1. Taken(h) => slab[h].dns_ips = {} /\ slab[h].resolving = FALSE
    BY DEF Init, SlabInit, Taken, Entry
  <2>2. \A S : LastIn(<<>>, S) = {}
    BY DEF LastIn
  <2> QED BY <2>1, <2>2 DEF Init, DnsInit, Latest, Shown, Answers
<1>2. TypeOK /\ ResolverInv /\ [Next]_vars => ResolverInv'
  <2> SUFFICES ASSUME TypeOK, ResolverInv, [Next]_vars, NEW h \in ClientHandles
               PROVE  Latest(h)' /\ Shown(h)'
    BY DEF ResolverInv
  <2>1. Latest(h) /\ Shown(h)
    BY DEF ResolverInv
  <2>2. CASE ResolverNext
    BY <2>1, <2>2, UserKeeps, TakeDnsEventKeeps, TakeRequestKeeps, LookupEndsKeeps DEF ResolverNext
  <2>3. CASE ConnectionsNext /\ UNCHANGED dnsVars
    BY <2>1, <2>3, ConnectionsKeep
  <2>4. CASE UNCHANGED vars
    BY <2>1, <2>4, SameResultsKeeps DEF SameResults, Taken
  <2> QED BY <2>2, <2>3, <2>4 DEF Next
<1> QED BY <1>1, <1>2, LinkTypeCorrect, PTL DEF Spec

\* Nothing about a client is on its way when it is settled.
LEMMA SettledNone ==
  ASSUME NEW h, Settled(h)
  PROVE  /\ NoneIn(dns_requests, RequestsOf(h)) /\ NoLookup(h)
         /\ NoneIn(dns_events, EventsOf(h)) /\ NoneIn(dns_events, ResolvedOf(h))
BY DEF Settled, NoneIn, RequestsOf, EventsOf, ResolvedOf, NoLookup

\* The addresses a client ends up with are those of the host name it has.
THEOREM HostNamesAgree == Spec => []ResolvedAgrees
<1>1. ResolverInv => ResolvedAgrees
  BY SettledNone DEF ResolverInv, Latest, ResolvedAgrees, Answers
<1> QED BY <1>1, ResolverInvariant, PTL

\* A client is not shown as being resolved once its lookups are over.
THEOREM NotResolvingForEver == Spec => []ResolvingAgrees
<1>1. ResolverInv => ResolvingAgrees
  BY SettledNone DEF ResolverInv, Shown, ResolvingAgrees
<1> QED BY <1>1, ResolverInvariant, PTL
==============================================================================
