SPECIFICATION FairSpec
CONSTANTS
  Addrs = {a1, a2}
  V6 = {a2}
  Bracketed = bracketed
  None = none
  MaxAdds = 1
  MaxDeletes = 1
  MaxCrashes = 1
INVARIANTS TypeOK RegistryMatchesMonitors OnlyCommittedMonitored
PROPERTIES GoneStaysGone EveryWantedSystemRegistered
CHECK_DEADLOCK FALSE
