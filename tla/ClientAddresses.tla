---------------------------- MODULE ClientAddresses ----------------------------
(***************************************************************************)
(* Where clients can be reached, as the ClientManager keeps it in its slab: *)
(* the service, the resolver's results and the connections' tasks all read  *)
(* and write these entries, by handle.  An entry may be removed, and its    *)
(* slot given to another client, while any of them is still at work.        *)
(***************************************************************************)
EXTENDS Naturals, Sequences, FiniteSets

CONSTANTS
  None,
  ClientHandles,   \* slots
  Hosts,           \* host names
  Ips,
  HostIps,         \* external: the addresses DNS has for a host name
  FixIps,          \* sets of addresses a user enters
  Ports,
  DefaultPort

ASSUME AddressAssumption ==
  /\ None \notin Hosts /\ None \notin Ips \X Ports
  /\ HostIps \in [Hosts -> SUBSET Ips]
  /\ FixIps \subseteq SUBSET Ips
  /\ DefaultPort \in Ports

VARIABLE slab   \* ClientConfig and ClientState of each slot that is taken

Addrs == Ips \X Ports

Clients ==
  [hostname: Hosts \cup {None}, port: Ports, fix_ips: SUBSET Ips, dns_ips: SUBSET Ips,
   resolving: BOOLEAN, active_addr: Addrs \cup {None}, alive: BOOLEAN]

ASSUME SlotAssumption == None \notin Clients

SlabTypeOK == slab \in [ClientHandles -> Clients \cup {None}]

Entry(hostname, port, fix_ips) ==
  [hostname |-> hostname, port |-> port, fix_ips |-> fix_ips, dns_ips |-> {},
   resolving |-> FALSE, active_addr |-> None, alive |-> FALSE]

\* The configured clients are not resolved before they are activated.
SlabInit ==
  slab \in [ClientHandles ->
              {Entry(n, p, f) : n \in Hosts \cup {None}, p \in Ports, f \in FixIps \cup {{}}}
                \cup {None}]

Taken(h) == slab[h] # None

\* Addresses to connect to: update_ips keeps ips the union of both.
GetIps(h) == slab[h].fix_ips \cup slab[h].dns_ips
SocketAddrs(h) == GetIps(h) \X {slab[h].port}

\* set_active_addr, set_alive: nothing happens if there is no such client.
WithActiveAddr(h, a) ==
  IF Taken(h) THEN [slab EXCEPT ![h].active_addr = a] ELSE slab

WithPong(h, a, b) ==
  IF Taken(h) THEN [slab EXCEPT ![h].active_addr = a, ![h].alive = b] ELSE slab
==============================================================================
