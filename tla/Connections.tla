------------------------------ MODULE Connections ------------------------------
(***************************************************************************)
(* LanMouseConnection: the connections to the devices being controlled.     *)
(* Per client at most one task connects; per connection one task pings and  *)
(* one receives; the capture task sends.  They share conns, ping_response   *)
(* and the clients' entries, and are told apart there by address only.      *)
(*                                                                         *)
(* The network and the other device (external): an attempt to connect       *)
(* succeeds, fails or times out; a send or receive may fail at any time;    *)
(* pings are answered while the other side keeps the session, and answers   *)
(* are late or lost.  Other messages than Pong are passed on and change     *)
(* nothing here.                                                            *)
(***************************************************************************)
EXTENDS ClientAddresses

CONSTANT ConnIds   \* bound: connections at a time

VARIABLES
  connecting,      \* handles for which a task connects
  connectors,      \* those whose connect_to_handle has not been polled yet
  attempts,        \* pairs of handle and address: connect() is pending
  conns,           \* address to connection
  conn,            \* the connections, of which a task is left
  ping_response,   \* addresses that have answered
  sending          \* the send that the capture task waits for

connectionVars == <<connecting, connectors, attempts, conns, conn, ping_response, sending>>

\* open: not closed by us; session: external, the other side knows it; pong: external, an
\* answer is on its way; pinging, receiving: ping_pong and receive_loop run.
Connected == [addr: Addrs, handle: ClientHandles, open: BOOLEAN, session: BOOLEAN,
              pong: BOOLEAN, pinging: BOOLEAN, receiving: BOOLEAN]
Sends == [handle: ClientHandles, addr: Addrs, conn: ConnIds]

ASSUME ConnectionAssumption == None \notin ConnIds \cup Connected \cup Sends

ConnectionTypeOK ==
  /\ connecting \in SUBSET ClientHandles
  /\ connectors \in SUBSET ClientHandles
  /\ attempts \in SUBSET (ClientHandles \X Addrs)
  /\ conns \in [Addrs -> ConnIds \cup {None}]
  /\ conn \in [ConnIds -> Connected \cup {None}]
  /\ ping_response \in SUBSET Addrs
  /\ sending \in Sends \cup {None}

ConnectionInit ==
  /\ connecting = {} /\ connectors = {} /\ attempts = {}
  /\ conns = [a \in Addrs |-> None]
  /\ conn = [c \in ConnIds |-> None]
  /\ ping_response = {}
  /\ sending = None

------------------------------------------------------------------------------
\* What is left of a connection when its tasks have ended.
Kept(r) == IF r.pinging \/ r.receiving THEN r ELSE None

Disconnect(h, a) ==
  /\ conns' = [conns EXCEPT ![a] = None]
  /\ slab' = WithActiveAddr(h, None)

\* send(): the connection is looked up by the client's address.  A task is spawned
\* to connect if there is none.
Reaches(h) == Taken(h) /\ slab[h].active_addr # None /\ conns[slab[h].active_addr] # None

SendStarts(h) ==
  /\ sending = None
  /\ Reaches(h) /\ slab[h].alive
  /\ sending' = [handle |-> h, addr |-> slab[h].active_addr, conn |-> conns[slab[h].active_addr]]
  /\ UNCHANGED <<slab, connecting, connectors, attempts, conns, conn, ping_response>>

SendConnects(h) ==
  /\ sending = None
  /\ ~Reaches(h)
  /\ h \notin connecting
  /\ connecting' = connecting \cup {h}
  /\ connectors' = connectors \cup {h}
  /\ UNCHANGED <<slab, attempts, conns, conn, ping_response, sending>>

SendDone ==
  /\ sending # None
  /\ conn[sending.conn] # None /\ conn[sending.conn].open
  /\ sending' = None
  /\ UNCHANGED <<slab, connecting, connectors, attempts, conns, conn, ping_response>>

SendFails ==
  /\ sending # None
  /\ Disconnect(sending.handle, sending.addr)
  /\ sending' = None
  /\ UNCHANGED <<connecting, connectors, attempts, conn, ping_response>>

------------------------------------------------------------------------------
\* connect_to_handle, up to connect_any.  Mutant: giving up without addresses
\* leaves the handle in connecting.
ConnectForgotten(h) ==
  /\ h \in connectors
  /\ connectors' = connectors \ {h}
  /\ attempts' = attempts \cup (IF Taken(h) THEN {h} \X SocketAddrs(h) ELSE {})
  /\ UNCHANGED <<slab, connecting, conns, conn, ping_response, sending>>

Connect(h) ==
  /\ h \in connectors
  /\ connectors' = connectors \ {h}
  /\ LET addrs == IF Taken(h) THEN SocketAddrs(h) ELSE {}
     IN /\ attempts' = attempts \cup ({h} \X addrs)
        /\ connecting' = IF addrs = {} THEN connecting \ {h} ELSE connecting
  /\ UNCHANGED <<slab, conns, conn, ping_response, sending>>

\* One attempt fails or times out; after the last one the task gives up.
ConnectFails(h, a) ==
  /\ <<h, a>> \in attempts
  /\ attempts' = attempts \ {<<h, a>>}
  /\ connecting' = IF \E b \in Addrs : <<h, b>> \in attempts' THEN connecting
                   ELSE connecting \ {h}
  /\ UNCHANGED <<slab, connectors, conns, conn, ping_response, sending>>

\* The first attempt that succeeds aborts the others.
ConnectSucceeds(h, a, c) ==
  /\ <<h, a>> \in attempts
  /\ conn[c] = None
  /\ sending # None => sending.conn # c
  /\ attempts' = {t \in attempts : t[1] # h}
  /\ connecting' = connecting \ {h}
  /\ slab' = WithActiveAddr(h, a)
  /\ conns' = [conns EXCEPT ![a] = c]
  /\ conn' = [conn EXCEPT ![c] = [addr |-> a, handle |-> h, open |-> TRUE, session |-> TRUE,
                                  pong |-> FALSE, pinging |-> TRUE, receiving |-> TRUE]]
  /\ UNCHANGED <<connectors, ping_response, sending>>

------------------------------------------------------------------------------
\* Mutant: the answer that was seen is not taken out of ping_response.
PingCheckAgain(c) ==
  /\ conn[c] # None /\ conn[c].pinging
  /\ conn' = [conn EXCEPT ![c] =
                IF @.addr \in ping_response THEN @
                ELSE Kept([@ EXCEPT !.open = FALSE, !.pong = FALSE, !.pinging = FALSE])]
  /\ UNCHANGED <<slab, connecting, connectors, attempts, conns, ping_response, sending>>

\* ping_pong, after four pings: at least one must have been answered.
PingCheck(c) ==
  /\ conn[c] # None /\ conn[c].pinging
  /\ conn' = [conn EXCEPT ![c] =
                IF @.addr \in ping_response THEN @
                ELSE Kept([@ EXCEPT !.open = FALSE, !.pong = FALSE, !.pinging = FALSE])]
  /\ ping_response' = ping_response \ {conn[c].addr}
  /\ UNCHANGED <<slab, connecting, connectors, attempts, conns, sending>>

\* A ping cannot be sent: the connection is closed, the check follows.
PingFails(c) ==
  /\ conn[c] # None /\ conn[c].pinging /\ conn[c].open
  /\ conn' = [conn EXCEPT ![c].open = FALSE, ![c].pong = FALSE]
  /\ UNCHANGED <<slab, connecting, connectors, attempts, conns, ping_response, sending>>

\* receive_loop.
ReceivePong(c, b) ==
  /\ conn[c] # None /\ conn[c].receiving /\ conn[c].pong
  /\ conn' = [conn EXCEPT ![c].pong = FALSE]
  /\ slab' = WithPong(conn[c].handle, conn[c].addr, b)
  /\ ping_response' = ping_response \cup {conn[c].addr}
  /\ UNCHANGED <<connecting, connectors, attempts, conns, sending>>

\* Mutant: the connection stays in conns.
ReceiveEndsQuietly(c) ==
  /\ conn[c] # None /\ conn[c].receiving
  /\ conn' = [conn EXCEPT ![c] = Kept([@ EXCEPT !.receiving = FALSE, !.pong = FALSE])]
  /\ slab' = WithActiveAddr(conn[c].handle, None)
  /\ UNCHANGED <<connecting, connectors, attempts, conns, ping_response, sending>>

\* recv fails, because the connection is closed or for any other reason.
ReceiveEnds(c) ==
  /\ conn[c] # None /\ conn[c].receiving
  /\ conn' = [conn EXCEPT ![c] = Kept([@ EXCEPT !.receiving = FALSE, !.pong = FALSE])]
  /\ Disconnect(conn[c].handle, conn[c].addr)
  /\ UNCHANGED <<connecting, connectors, attempts, ping_response, sending>>

------------------------------------------------------------------------------
\* External: pings are answered, an answer is lost, the other side is gone.
PeerAnswers(c) ==
  /\ conn[c] # None /\ conn[c].open /\ conn[c].session /\ conn[c].pinging /\ conn[c].receiving
  /\ ~conn[c].pong
  /\ conn' = [conn EXCEPT ![c].pong = TRUE]
  /\ UNCHANGED <<slab, connecting, connectors, attempts, conns, ping_response, sending>>

PongLost(c) ==
  /\ conn[c] # None /\ conn[c].pong
  /\ conn' = [conn EXCEPT ![c].pong = FALSE]
  /\ UNCHANGED <<slab, connecting, connectors, attempts, conns, ping_response, sending>>

PeerGone(c) ==
  /\ conn[c] # None /\ conn[c].session
  /\ conn' = [conn EXCEPT ![c].session = FALSE]
  /\ UNCHANGED <<slab, connecting, connectors, attempts, conns, ping_response, sending>>

ConnectionsNext ==
  \/ \E h \in ClientHandles :
       \/ SendStarts(h) \/ SendConnects(h) \/ Connect(h)
       \/ \E a \in Addrs : ConnectFails(h, a) \/ \E c \in ConnIds : ConnectSucceeds(h, a, c)
  \/ SendDone \/ SendFails
  \/ \E c \in ConnIds :
       \/ PingCheck(c) \/ PingFails(c) \/ ReceiveEnds(c)
       \/ \E b \in BOOLEAN : ReceivePong(c, b)
       \/ PeerAnswers(c) \/ PongLost(c) \/ PeerGone(c)

------------------------------------------------------------------------------
\* A connection that sends are given to is still received from, at that address:
\* if it is closed or fails, the loop that removes it is there to see it.
ConnsReceived ==
  \A a \in Addrs :
    conns[a] # None =>
      LET r == conn[conns[a]] IN r # None /\ r.addr = a /\ r.receiving

\* Another open connection to the same address, whose answers count for c as well.
Shared(c) ==
  \E d \in ConnIds \ {c} :
    conn[c] # None /\ conn[d] # None /\ conn[d].open /\ conn[d].addr = conn[c].addr
==============================================================================
