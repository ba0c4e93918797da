SPECIFICATION FairSpec
CONSTANTS
  None = None
  hostA = hostA
  hostB = hostB
  ip1 = ip1
  ip2 = ip2
  ClientHandles = {0}
  Hosts = {}
  Ips = {ip1}
  HostIps <- NoHosts
  FixIps <- OneIp
  Ports = {1}
  DefaultPort = 1
  MaxDnsRequests = 0
  MaxDnsEvents = 0
  ConnIds = {1, 2}
CHECK_DEADLOCK FALSE
INVARIANTS
  ConnsReceived
PROPERTIES
  ConnectingEnds
  DeadNoticed
