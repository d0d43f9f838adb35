SPECIFICATION FairSpec
CONSTANTS
  Openers = {o1, o2}
  Sources <- MCSources
  Addresses = {a1, a2}
  Faults = {"unresolved", "refused", "untrusted", "reset", "closed", "rejected", "timeout"}
INVARIANTS TypeOK Failover
PROPERTIES OpenResolves
