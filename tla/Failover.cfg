CONSTANTS
  a = a
  b = b
  c = c
  d = d
  None = None
  NoPort = NoPort
  Domains <- SomeDomains
  BadDomains <- RefusedDomains
  Ports <- SomePorts
  MaxWSS = 3
  Documents <- SomeDocuments
  Redirectable <- SomeTargets
  MaxRedirectHops = 2
SPECIFICATION FairSpec
INVARIANT FullRoundFirst
PROPERTY SelectionExact
PROPERTY FindsGoodServer
