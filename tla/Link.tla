--------------------------------- MODULE Link ---------------------------------
(***************************************************************************)
(* Resolver and connections together, joined by the clients' entries: from  *)
(* a host name to a connection that input is sent on.                       *)
(***************************************************************************)
EXTENDS Resolver, Connections

vars == <<slab, dnsVars, connectionVars>>

TypeOK == SlabTypeOK /\ DnsTypeOK /\ ConnectionTypeOK

Init == SlabInit /\ DnsInit /\ ConnectionInit

Next ==
  \/ ResolverNext /\ UNCHANGED connectionVars
  \/ ConnectionsNext /\ UNCHANGED dnsVars

Spec == Init /\ [][Next]_vars

\* Tasks that can get on do; attempts to connect time out after 5 s; a window of
\* four pings ends; recv fails on a connection that was closed.  Of the other side
\* nothing is assumed.
ReceiveClosed(c) == conn[c] # None /\ ~conn[c].open /\ ReceiveEnds(c)

Fairness ==
  /\ \A h \in ClientHandles :
       /\ WF_vars(Connect(h) /\ UNCHANGED dnsVars)
       /\ \A a \in Addrs : WF_vars(ConnectFails(h, a) /\ UNCHANGED dnsVars)
  /\ \A c \in ConnIds :
       /\ WF_vars(PingCheck(c) /\ UNCHANGED dnsVars)
       /\ WF_vars(ReceiveClosed(c) /\ UNCHANGED dnsVars)

FairSpec == Spec /\ Fairness

------------------------------------------------------------------------------
\* After a failed attempt the client can be tried again: no task that connects
\* goes on for ever, and none forgets to say that it has ended.
ConnectingEnds == \A h \in ClientHandles : h \in connecting ~> h \notin connecting

\* "did not respond, closing connection": a connection that the other side has lost is
\* closed, unless answers on another connection to its address are taken for its own.
DeadNoticed ==
  \A c \in ConnIds :
    (conn[c] # None /\ conn[c].open /\ ~conn[c].session)
      ~> (conn[c] = None \/ ~conn[c].open \/ Shared(c))

\* "update the hostname of the given client, this automatically clears the active ip
\* address": when nothing is being looked up and no task connects, input is sent to an
\* address that the user entered or DNS has for the present name.
ActiveAddrOfClient ==
  \A h \in ClientHandles :
    Taken(h) /\ Settled(h) /\ h \notin connecting /\ slab[h].active_addr # None =>
      slab[h].active_addr[1] \in
        slab[h].fix_ips \cup (IF slab[h].hostname = None THEN {} ELSE HostIps[slab[h].hostname])
==============================================================================
