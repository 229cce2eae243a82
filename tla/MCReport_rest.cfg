SPECIFICATION Spec
CONSTANTS
  Trims <- MCTrims
  Folds <- MCFolds
  Parses <- MCParses
  Doubles <- MCDoubles
  Cuts <- MCCuts
  TransportHeaders <- MCTransportHeaders
  Defaults <- MCDefaults
  Rulesets <- MCRulesets
  Responses <- MCResponsesThatGoOn
  MaxPairs = 1
INVARIANT
  RestIsCompared
