\* Two forks share a container.
CONSTANTS
  fork1 = fork1
  fork2 = fork2
  minio = minio
  alice = alice
  bob = bob
  Fork = {fork1, fork2}
  Name = {minio}
  Box <- MCBox
  Cred <- MCCred
  Extra <- MCExtra
  Ports = {1, 2, 3}
  MaxTries = 2
  None = None
SPECIFICATION FairSpec
INVARIANTS
  SucceededIsThere
PROPERTIES
  RetriesGoThrough
  EveryForkEnds
CHECK_DEADLOCK FALSE
