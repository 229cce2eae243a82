SPECIFICATION Spec
CONSTANTS
  Trims <- MCTrims
  Folds <- MCFolds
  Parses <- MCParses
  Doubles <- MCDoubles
  Cuts <- MCCuts
  TransportHeaders <- MCTransportHeaders
  Defaults <- MCDefaults
  Rulesets <- MCRulesets
  Responses <- MCResponses
  MaxPairs = 2
INVARIANTS
  TypeOK
  AgreementIsHonest
  RatesAreShares
  SidesAreEqual
  HidingIsJustified
  SuppressionsHappened
  ReplayHidesNoMore
