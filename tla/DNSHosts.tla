------------------------------ MODULE DNSHosts ------------------------------
(***************************************************************************)
(* The choice of server addresses from the document of the bootstrap DNS   *)
(* (makeDNSEndpoint, selectDNSHosts and resolveDNSCandidates, sdk/dns.go). *)
(* A host of the document is a record of what makeDNSEndpoint reads.       *)
(***************************************************************************)
EXTENDS Integers, Sequences, SequencesExt

CONSTANTS
  Domains,      \* domains of the document
  BadDomains,   \* those that validDNSDomain refuses
  Ports,        \* ports of the document; NoPort: the field is empty
  NoPort,
  MaxWSS        \* dnsMaxWSSCandidates

DNSHost == [domain : Domains, protocol : {"wss", "https", "http"},
            port : Ports, priority : BOOLEAN]

\* Whether the host has a usable address: a valid domain, a secure protocol
\* (websockets may be announced as https) and a port in range.
Usable(host, websocket) ==
  /\ host.domain \notin BadDomains
  /\ host.protocol \in IF websocket THEN {"wss", "https"} ELSE {"https"}
  /\ host.port = NoPort \/ (1 <= host.port /\ host.port <= 65535)

\* The address: the scheme of the service, and the port it defaults to.
makeDNSEndpoint(host, websocket) ==
  [scheme |-> IF websocket THEN "wss" ELSE "https",
   domain |-> host.domain,
   port |-> IF host.port = NoPort THEN 443 ELSE host.port]

Endpoints(hosts, websocket) ==
  LET make(h) == makeDNSEndpoint(h, websocket)
  IN [i \in DOMAIN hosts |-> make(hosts[i])]

\* The first of equal elements stays (seen and ordered of selectDNSHosts).
Deduplicate(seq) ==
  FoldLeft(LAMBDA ordered, x : IF Contains(ordered, x) THEN ordered ELSE Append(ordered, x),
           <<>>, seq)

\* Mistake: duplicates are dropped before the hosts are partitioned.
selectInDocumentOrder(hosts, websocket) ==
  LET valid == SelectSeq(hosts, LAMBDA h : Usable(h, websocket))
      ends == Endpoints(valid, websocket)
      Copy(i) == \E j \in 1..(i - 1) : ends[j] = ends[i]
      part(p) == SelectSeq([i \in DOMAIN valid |-> i], LAMBDA i : valid[i].priority = p /\ ~Copy(i))
      order == part(TRUE) \o part(FALSE)
  IN [i \in DOMAIN order |-> ends[order[i]]]

\* Usable hosts, those of priority 1 first, both parts in document order.
selectDNSHosts(hosts, websocket) ==
  LET valid == SelectSeq(hosts, LAMBDA h : Usable(h, websocket))
      priority == SelectSeq(valid, LAMBDA h : h.priority)
      fallback == SelectSeq(valid, LAMBDA h : ~h.priority)
  IN Deduplicate(Endpoints(priority \o fallback, websocket))

\* A document is accepted when it has a WSS address, but not too many, and a
\* REST address.
Accepted(document) ==
  LET wss == selectDNSHosts(document.wss, TRUE)
  IN /\ wss # <<>> /\ Len(wss) <= MaxWSS
     /\ selectDNSHosts(document.rest, FALSE) # <<>>

\* resolveDNSCandidates of an accepted document.
resolveDNSCandidates(document) ==
  [wss |-> selectDNSHosts(document.wss, TRUE),
   rest |-> selectDNSHosts(document.rest, FALSE)[1]]
=============================================================================
