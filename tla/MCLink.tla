-------------------------------- MODULE MCLink --------------------------------
EXTENDS Link, TLC

CONSTANTS hostA, hostB, ip1, ip2

\* A host name with two addresses, and one that DNS does not know.
OneKnown == hostA :> {ip1, ip2} @@ hostB :> {}

NoHosts == [h \in {} |-> {}]

NoIps == {{}}
OneIp == {{ip1}}
==============================================================================
