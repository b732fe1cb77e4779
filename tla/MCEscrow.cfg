SPECIFICATION Spec
CONSTANTS
  Ensembles <- MCEnsembles
  Shapes <- MCShapes
  Height <- MCHeight
  Scale <- MCScale
  Tenures = {1, 2}
  Overpay = {0}
  Addresses = {a1}
  Delays = {1}
  None = None
  MaxCaps = 3
  MaxTime = 4
  MaxStake = 100
  MaxUnlock = 2
  MaxMs = 4
INVARIANTS
  TypeOK
  BooksBalance
  TermsInForce
  PendingEnsembleWaits
  HandoverWithinTenure
  BurnedCapsUnseated
  LazinessUnobservable
  AgendaMatchesSettlement
  CountdownIsExact
PROPERTIES
  NoEarlyEviction
  TenantKeepsTerms
  CommitmentsHonoured
  RetireIsFinal
  ImplementsTenancy
  BidPreviewHonoured
  StaleIsFinal
CHECK_DEADLOCK FALSE
