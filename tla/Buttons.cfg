SPECIFICATION Spec
INVARIANT TypeOK
INVARIANT EventOrder
INVARIANT SettledMatchesPin
PROPERTY OnlyNamedAborts
PROPERTY LevelReported
CHECK_DEADLOCK FALSE
