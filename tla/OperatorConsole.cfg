\* The generator, the operator's page and the polls, each with a budget of its own.
CONSTANTS
  btc = btc
  shop = shop
  ghost = ghost
  Market = {btc}
  Payments = {shop}
  Ghost = {ghost}
  Second = 2
  Click = {c1, c2}
  Budgets <- Shares
  Expiry = 2
  Margin = 1
  Poll = {p1, p2}
SPECIFICATION Spec
INVARIANTS GroundTruth VerdictsAreTrue SessionInStep
PROPERTIES FraudKeepsItsCluster RefusedOnlyWhenSlow EveryClickIsAnswered ListSettles
CHECK_DEADLOCK FALSE
