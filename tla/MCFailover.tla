----------------------------- MODULE MCFailover -----------------------------
(***************************************************************************)
(* Failover with documents that exercise the choice of addresses: all      *)
(* lists of three plain hosts of two domains, all pairs of hosts that are   *)
(* odd in one field, and some that are refused as a whole.                 *)
(***************************************************************************)
EXTENDS Failover, TLC

CONSTANTS a, b, c, d

SomeDomains == {a, b, c, d}
RefusedDomains == {d}
SomePorts == {NoPort, 0, 8443, 65536}

Host(domain, priority) ==
  [domain |-> domain, protocol |-> "wss", port |-> NoPort, priority |-> priority]

Plain == {Host(domain, priority) : domain \in {a, b}, priority \in BOOLEAN}

Odd ==
  {Host(d, TRUE)}
    \cup {[Host(a, TRUE) EXCEPT !.protocol = protocol] : protocol \in {"https", "http"}}
    \cup {[Host(a, TRUE) EXCEPT !.port = port] : port \in {0, 8443, 65536}}

Rest == <<[domain |-> a, protocol |-> "https", port |-> NoPort, priority |-> TRUE]>>

Lists ==
  [1..3 -> Plain] \cup {<<x, y>> : x \in Odd, y \in Odd \cup {Host(a, FALSE)}}
    \cup {<<>>, <<Host(c, FALSE), Host(a, FALSE), Host(b, TRUE), Host(a, TRUE)>>,
          <<Host(a, TRUE), Host(b, TRUE), Host(c, TRUE), [Host(c, TRUE) EXCEPT !.port = 8443]>>}

SomeDocuments ==
  {[wss |-> hosts_, rest |-> Rest] : hosts_ \in Lists}
    \cup {[wss |-> <<Host(c, TRUE)>>, rest |-> <<>>]}

Address(domain) == makeDNSEndpoint(Host(domain, TRUE), TRUE)

\* One that DNS names and one that it never names.
SomeTargets == {Address(a), Address(d), None}
=============================================================================
