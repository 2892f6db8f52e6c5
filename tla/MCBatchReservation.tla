------------------------- MODULE MCBatchReservation -------------------------
EXTENDS BatchReservation, TLC

CONSTANTS ca, cb, b1, b2, b3, g1, g2

TwoClients == {ca, cb}
ThreeBatches == {b1, b2, b3}
TwoReleasers == {g1, g2}
TwoOfThree == (b1 :> ca) @@ (b2 :> ca) @@ (b3 :> cb)
SomeWeights == {0, 1, 2, 3, 4}
=============================================================================
