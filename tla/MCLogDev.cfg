SPECIFICATION Spec
CONSTANTS
    StoreIds <- MCStoreIds
    AppendMode = {0}
    MaxLsn = 1
    MaxIdx = 3
    None = None
INVARIANTS   TruncationDurable DeadOnlyAtStart
CONSTRAINTS NothingBack OneCut FewDead
CHECK_DEADLOCK FALSE
