------------------------------- MODULE Resolver -------------------------------
(***************************************************************************)
(* The DNS resolver and what the service does with it: a request per change *)
(* of a host name, one lookup at a time per handle, events back.  Requests  *)
(* and events name a handle; by the time they are looked at the client may  *)
(* have another host name, or be another client.                            *)
(***************************************************************************)
EXTENDS ClientAddresses

CONSTANTS
  MaxDnsRequests,   \* bound: requests the resolver has not taken
  MaxDnsEvents      \* bound: events the service has not taken

ASSUME DnsAssumption == MaxDnsRequests \in Nat /\ MaxDnsEvents \in Nat

VARIABLES
  dns_requests,   \* DnsRequest: service -> resolver
  lookups,        \* DnsTask.active_tasks that have not finished
  dns_events      \* DnsEvent: resolver -> service

dnsVars == <<dns_requests, lookups, dns_events>>

DnsRequest(h, host) == [handle |-> h, hostname |-> host]
Resolving(h) == [kind |-> "Resolving", handle |-> h]
Resolved(h, host, ips) == [kind |-> "Resolved", handle |-> h, hostname |-> host, ips |-> ips]

DnsRequests == [handle: ClientHandles, hostname: Hosts]
DnsEvents ==
  [kind: {"Resolving"}, handle: ClientHandles]
    \cup [kind: {"Resolved"}, handle: ClientHandles, hostname: Hosts, ips: SUBSET Ips]

DnsTypeOK ==
  /\ dns_requests \in Seq(DnsRequests)
  /\ lookups \in SUBSET DnsRequests
  /\ dns_events \in Seq(DnsEvents)

DnsInit == dns_requests = <<>> /\ lookups = {} /\ dns_events = <<>>

------------------------------------------------------------------------------
\* Service: frontend requests that concern addresses.
AddClient(h) ==
  /\ ~Taken(h)
  /\ slab' = [slab EXCEPT ![h] = Entry(None, DefaultPort, {})]
  /\ UNCHANGED dnsVars

RemoveClient(h) ==
  /\ Taken(h)
  /\ slab' = [slab EXCEPT ![h] = None]
  /\ UNCHANGED dnsVars

\* resolve(): without a host name there is nothing to look up.
Request(h, host) ==
  IF host = None THEN UNCHANGED dns_requests
  ELSE /\ Len(dns_requests) < MaxDnsRequests
       /\ dns_requests' = Append(dns_requests, DnsRequest(h, host))

\* ResolveDns, and every activation.
Resolve(h) ==
  /\ Taken(h)
  /\ Request(h, slab[h].hostname)
  /\ UNCHANGED <<slab, lookups, dns_events>>

\* UpdateHostname; if it is the same name nothing happens.
SetHostname(h, host) ==
  /\ Taken(h)
  /\ slab[h].hostname # host
  /\ slab' = [slab EXCEPT ![h].hostname = host, ![h].active_addr = None, ![h].dns_ips = {}]
  /\ Request(h, host)
  /\ UNCHANGED <<lookups, dns_events>>

SetFixIps(h, ips) ==
  /\ Taken(h)
  /\ slab' = [slab EXCEPT ![h].fix_ips = ips]
  /\ UNCHANGED dnsVars

SetPort(h, port) ==
  /\ Taken(h)
  /\ slab[h].port # port
  /\ slab' = [slab EXCEPT ![h].port = port,
                          ![h].active_addr = IF @ = None THEN None ELSE <<@[1], port>>]
  /\ UNCHANGED dnsVars

\* Mutant: a failed lookup leaves resolving set.
TakeDnsSuccess ==
  /\ dns_events # <<>>
  /\ dns_events' = Tail(dns_events)
  /\ LET e == Head(dns_events)
         entry == slab[e.handle]
     IN slab' = IF ~Taken(e.handle) THEN slab
                ELSE IF e.kind = "Resolving"
                THEN [slab EXCEPT ![e.handle].resolving = TRUE]
                ELSE [slab EXCEPT ![e.handle] =
                        [entry EXCEPT !.resolving = (e.ips = {}), !.dns_ips = e.ips]]
  /\ UNCHANGED <<dns_requests, lookups>>

\* handle_resolver_event: a failed lookup leaves the client without addresses.
TakeDnsEvent ==
  /\ dns_events # <<>>
  /\ dns_events' = Tail(dns_events)
  /\ LET e == Head(dns_events)
     IN slab' = IF ~Taken(e.handle) THEN slab
                ELSE IF e.kind = "Resolving"
                THEN [slab EXCEPT ![e.handle].resolving = TRUE]
                ELSE [slab EXCEPT ![e.handle].resolving = FALSE, ![e.handle].dns_ips = e.ips]
  /\ UNCHANGED <<dns_requests, lookups>>

------------------------------------------------------------------------------
\* DnsTask.  Mutant: the previous lookup of the handle goes on.
TakeRequestBeside ==
  /\ dns_requests # <<>>
  /\ Len(dns_events) < MaxDnsEvents
  /\ LET r == Head(dns_requests)
     IN /\ lookups' = lookups \cup {r}
        /\ dns_events' = Append(dns_events, Resolving(r.handle))
  /\ dns_requests' = Tail(dns_requests)
  /\ UNCHANGED slab

\* do_dns: the previous lookup of the handle is aborted.
TakeRequest ==
  /\ dns_requests # <<>>
  /\ Len(dns_events) < MaxDnsEvents
  /\ LET r == Head(dns_requests)
     IN /\ lookups' = {l \in lookups : l.handle # r.handle} \cup {r}
        /\ dns_events' = Append(dns_events, Resolving(r.handle))
  /\ dns_requests' = Tail(dns_requests)
  /\ UNCHANGED slab

\* A lookup ends, with the addresses of the host name or an error.
LookupEnds(l) ==
  /\ l \in lookups
  /\ Len(dns_events) < MaxDnsEvents
  /\ lookups' = lookups \ {l}
  /\ \E ips \in {HostIps[l.hostname], {}} :
       dns_events' = Append(dns_events, Resolved(l.handle, l.hostname, ips))
  /\ UNCHANGED <<slab, dns_requests>>

ResolverNext ==
  \/ \E h \in ClientHandles :
       \/ AddClient(h) \/ RemoveClient(h) \/ Resolve(h)
       \/ \E host \in Hosts \cup {None} : SetHostname(h, host)
       \/ \E ips \in FixIps : SetFixIps(h, ips)
       \/ \E port \in Ports : SetPort(h, port)
  \/ TakeDnsEvent
  \/ TakeRequest
  \/ \E l \in lookups : LookupEnds(l)

------------------------------------------------------------------------------
\* Nothing about h is on its way.
Settled(h) ==
  /\ \A i \in 1 .. Len(dns_requests) : dns_requests[i].handle # h
  /\ \A l \in lookups : l.handle # h
  /\ \A i \in 1 .. Len(dns_events) : dns_events[i].handle # h

\* Once nothing is on its way, a client that has a host name has no addresses of
\* another one, however often names were changed and slots given to other clients
\* while lookups went on.
ResolvedAgrees ==
  \A h \in ClientHandles :
    Taken(h) /\ slab[h].hostname # None /\ Settled(h)
      => slab[h].dns_ips \in {{}, HostIps[slab[h].hostname]}

\* The frontends do not show a client as being resolved when it is not.
ResolvingAgrees ==
  \A h \in ClientHandles : Taken(h) /\ Settled(h) => ~slab[h].resolving
==============================================================================
