\* Two workers that differ in their descriptors and their batches.
CONSTANTS
  Workers = {1, 2}
  Clients = {c1, c2}
  Listener = Listener
  MaxEvents <- MCMaxEvents
  MaxFds <- MCMaxFds
SPECIFICATION FairSpec
INVARIANTS TypeOK EventsCurrent
PROPERTIES ClientsServed
CHECK_DEADLOCK FALSE
