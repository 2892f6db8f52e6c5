CONSTANTS
  ca = ca
  cb = cb
  b1 = b1
  b2 = b2
  b3 = b3
  g1 = g1
  g2 = g2
  Clients <- TwoClients
  Batches <- ThreeBatches
  Owner <- TwoOfThree
  Releasers <- TwoReleasers
  Weights <- SomeWeights
  MaxInt = 7
  ClientLimit = 3
  ProcessLimit = 4
SPECIFICATION Spec
INVARIANT ChargesExact
PROPERTY BudgetsRespected
