CONSTANTS
  Loaders = {l1, l2}
  MaxRequests = 2
  MaxStores = 2
SPECIFICATION FairSpec
INVARIANTS TypeOK LockOwnership NoSelfWait ImportDurableBeforeAnnounced
PROPERTIES ImplementsWriteBehind LoaderEventuallyStores IndicatorGoesOff
\* The program goes idle when the user stops asking for things.
CHECK_DEADLOCK FALSE
