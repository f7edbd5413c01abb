CONSTANTS
  tcp = tcp  udp = udp
  Channels = {tcp, udp}
  Created = {{tcp}}
  Reshaped = {{udp}}
  MaxRevision = 2
  MaxReports = 1
  MaxFaults = 2
  Null = Null
SPECIFICATION FairSpec
INVARIANTS OneOwner
PROPERTIES ImplementsVersions DesiredRetained DeletionCompletes
CHECK_DEADLOCK FALSE
