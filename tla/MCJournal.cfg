\* Three entries on one date, or two on two dates (Within); every entry can be used
\* up, so the books really may stop.
CONSTANTS
  Entries = {e1, e2, e3}
  Cats = {suspense, food}
  Suspense = suspense
  MaxDate = 2
  Qtys = {1}
  Rate = 3
  NoEntry = NoEntry
SYMMETRY EntrySymmetry
CONSTRAINT Within
SPECIFICATION Spec
INVARIANTS
  TypeOK
  ChainVerifies
  ChainHoldsTheBooks
  OneReversalPerVoid
  ReconciledMeansEvidence
  PostingsHaveAccounts
PROPERTIES
  ClosedPeriodProtected
  VoidIsFinal
CHECK_DEADLOCK FALSE
