---------------------------- MODULE MCDNSResolver ----------------------------
EXTENDS DNSResolver, TLC

CONSTANTS c1, c2, k1, k2

TwoClients == {c1, c2}

\* Two Clients that compete for the entries of the cache.
TwoKeys == (c1 :> k1) @@ (c2 :> k2)

\* Exchanging the Clients together with their keys changes nothing.
Symmetry ==
  {p \in Permutations(Clients \cup Keys) :
     \A c \in Clients : p[c] \in Clients /\ KeyOf[p[c]] = p[KeyOf[c]]}
=============================================================================
