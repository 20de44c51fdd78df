SPECIFICATION FairSpec
CONSTANTS
    Tickers = {0}
    MaxOrderId = 2
    Quantities = {1, 2}
    MaxUpdates = 3
    Networks <- LossyAndWild
    MaxBuffered = 2
INVARIANTS TypeOK SnapshotIsBook InSyncViewIsBook
PROPERTIES RecoveryEnds CatchesUp
