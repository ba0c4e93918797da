SPECIFICATION Spec
CONSTANTS
  None = None
  hostA = hostA
  hostB = hostB
  ip1 = ip1
  ip2 = ip2
  ClientHandles = {0}
  Hosts = {hostA, hostB}
  Ips = {ip1, ip2}
  HostIps <- OneKnown
  FixIps <- NoIps
  Ports = {1, 2}
  DefaultPort = 1
  MaxDnsRequests = 1
  MaxDnsEvents = 1
  ConnIds = {1}
CHECK_DEADLOCK FALSE
INVARIANTS
  ResolvedAgrees
  ResolvingAgrees
