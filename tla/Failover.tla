------------------------------ MODULE Failover ------------------------------
(***************************************************************************)
(* Which server a Client dials (sdk/endpoint_pool.go, and Login,           *)
(* connectLoginCandidates, connectWithRedirects and reconnect of           *)
(* sdk/connection.go): rounds over the candidates of the bootstrap DNS,    *)
(* redirects, the endpoint in use, and the refresh of the candidates when  *)
(* a round is used up.  One lifecycle operation runs at a time, so this    *)
(* module is sequential; what competes with it is in Lifecycle.            *)
(***************************************************************************)
EXTENDS DNSHosts, FiniteSetsExt

CONSTANTS
  None,              \* no endpoint
  Documents,         \* documents the bootstrap DNS may serve
  Redirectable,      \* addresses a server may redirect to; None: an unusable one
  MaxRedirectHops

ASSUME FailoverAssumption ==
  /\ \A document \in Documents : Range(document.wss \o document.rest) \subseteq DNSHost
  /\ MaxRedirectHops \in Nat

\* Failures: of one endpoint, of any other cause, and those that end the session.
Kinds == {"local", "global", "terminal"}

VARIABLES
  phase,      \* "out", "login", "connected", "backoff", "reconnect"
  hosts,      \* Client.msyncHosts; in Login, the candidates it goes through
  cursor,     \* Client.msyncCursor
  effective,  \* Client.msyncHost
  round,      \* the endpointRound
  endpoint,   \* the address to dial or being dialled
  index,      \* its index in the round, -1 when it is not from there
  refresh,    \* needRefresh
  seen,       \* addresses dialled in this attempt (connectWithRedirects)
  tried       \* history: candidates of this round that have failed

vars == <<phase, hosts, cursor, effective, round, endpoint, index, refresh, seen, tried>>

client == <<hosts, cursor, effective>>

\* Mistake: the last candidate of a round is left out.
newShortRound(candidates, start) ==
  [next |-> IF candidates = <<>> THEN 0 ELSE start % Len(candidates),
   remaining |-> IF candidates = <<>> THEN 0 ELSE Len(candidates) - 1]

newEndpointRound(candidates, start) ==
  [next |-> IF candidates = <<>> THEN 0 ELSE start % Len(candidates),
   remaining |-> Len(candidates)]

exhausted(r) == r.remaining = 0

\* nextEndpoint of a round that is not exhausted.
nextEndpoint(r, candidates) ==
  [next |-> (r.next + 1) % Len(candidates), remaining |-> r.remaining - 1]

\* The candidate the round r stands at is the next to dial; none is left: a
\* refresh is needed.
TakeNext(r, candidates) ==
  IF exhausted(r)
  THEN endpoint' = None /\ index' = -1 /\ refresh' = TRUE /\ round' = r
  ELSE /\ endpoint' = candidates[r.next + 1] /\ index' = r.next
       /\ refresh' = FALSE /\ round' = nextEndpoint(r, candidates)

nextCandidateCursor(i, count) == IF count = 0 \/ i < 0 THEN 0 ELSE (i + 1) % count

\* shouldRotateEndpoint: only failures of one endpoint use up candidates.
shouldRotateEndpoint(kind) == kind = "local"

Init ==
  /\ phase = "out"
  /\ hosts = <<>> /\ cursor = 0 /\ effective = None
  /\ round = newEndpointRound(<<>>, 0)
  /\ endpoint = None /\ index = -1 /\ refresh = FALSE
  /\ seen = {} /\ tried = {}

Resolved(document) == Accepted(document) /\ hosts' = resolveDNSCandidates(document).wss

\* The Client is logged out: its addresses are cleared.
Forget ==
  /\ phase' = "out"
  /\ hosts' = <<>> /\ cursor' = 0 /\ effective' = None
  /\ round' = newEndpointRound(<<>>, 0)
  /\ endpoint' = None /\ index' = -1 /\ refresh' = FALSE
  /\ seen' = {} /\ tried' = {}

\* Login has the candidates; one that the lookup fails stays out.
Login(document) ==
  /\ phase = "out"
  /\ Resolved(document)
  /\ phase' = "login"
  /\ TakeNext(newEndpointRound(hosts', 0), hosts')
  /\ UNCHANGED <<cursor, effective, seen, tried>>

\* connectTimeout passes, or the caller gives up.
LoginExpires ==
  /\ phase = "login"
  /\ Forget

Dialing == phase \in {"login", "reconnect"} /\ ~refresh

Candidate == IF index < 0 THEN {} ELSE {hosts[index + 1]}

-----------------------------------------------------------------------------
(* connectWithRedirects: the answers of the server at endpoint.            *)

\* The number of hops and the addresses of the chain are checked first.
MayFollow(to) ==
  /\ Cardinality(seen) + 1 <= MaxRedirectHops
  /\ to \notin seen \cup {endpoint}

Follow(to) ==
  /\ Dialing
  /\ to # None /\ MayFollow(to)
  /\ endpoint' = to
  /\ seen' = seen \cup {endpoint}
  /\ UNCHANGED <<phase, client, round, index, refresh, tried>>

\* Mistake: a candidate that failed is tried again.
reconnectStays(kind) ==
  IF kind = "terminal" THEN Forget
  ELSE /\ phase' = "backoff"
       /\ IF kind = "local" THEN UNCHANGED <<endpoint, index>>
          ELSE endpoint' = effective /\ index' = -1
       /\ seen' = {}
       /\ UNCHANGED <<client, round, refresh, tried>>

\* connectLoginCandidates: the next candidate, or the error is final.
LoginFails(kind) ==
  IF shouldRotateEndpoint(kind) /\ ~exhausted(round)
  THEN /\ TakeNext(round, hosts)
       /\ seen' = {} /\ tried' = tried \cup Candidate
       /\ UNCHANGED <<phase, client>>
  ELSE Forget

\* reconnect: the next attempt starts after a pause, at the next candidate
\* or, when the failure is not the endpoint's, at the endpoint in use.
ReconnectFails(kind) ==
  IF kind = "terminal" THEN Forget
  ELSE /\ phase' = "backoff"
       /\ IF shouldRotateEndpoint(kind) THEN TakeNext(round, hosts)
          ELSE endpoint' = effective /\ index' = -1 /\ UNCHANGED <<round, refresh>>
       /\ seen' = {} /\ tried' = tried \cup Candidate
       /\ UNCHANGED client

Fails(kind) == IF phase = "login" THEN LoginFails(kind) ELSE ReconnectFails(kind)

\* The dial or the PROVISION fails.
DialFails(kind) ==
  /\ Dialing
  /\ Fails(kind)

\* A redirect that is not followed is a failure of its own: a loop, too many
\* hops, or an unusable address.  None of them rotates.
RedirectRefused(to) ==
  /\ Dialing
  /\ to = None \/ ~MayFollow(to)
  /\ Fails("global")

\* Login or reconnect commits the connection.
Connected ==
  /\ Dialing
  /\ phase' = "connected"
  /\ effective' = endpoint
  /\ cursor' = IF phase = "login" \/ index >= 0 THEN nextCandidateCursor(index, Len(hosts))
               ELSE cursor
  /\ seen' = {}
  /\ endpoint' = None /\ index' = -1
  /\ UNCHANGED <<hosts, round, refresh, tried>>

-----------------------------------------------------------------------------
(* reconnect.                                                              *)

\* The connection is lost with an error of this kind.  A "terminal" one
\* ends the session.
Lost(kind) ==
  /\ phase = "connected"
  /\ IF kind = "terminal" THEN Forget
     ELSE /\ phase' = "backoff"
          /\ LET r == newEndpointRound(hosts, cursor)
             IN IF shouldRotateEndpoint(kind) THEN TakeNext(r, hosts)
                ELSE endpoint' = effective /\ index' = -1 /\ refresh' = FALSE /\ round' = r
          /\ tried' = {}
          /\ UNCHANGED <<client, seen>>

\* The server ended the connection with a redirect.
LostToRedirect(to) ==
  /\ phase = "connected"
  /\ IF to = None THEN Forget
     ELSE /\ phase' = "backoff"
          /\ endpoint' = to /\ index' = -1 /\ refresh' = FALSE
          /\ round' = newEndpointRound(hosts, cursor)
          /\ tried' = {}
          /\ UNCHANGED <<client, seen>>

\* The pause is over.
Attempt ==
  /\ phase = "backoff"
  /\ phase' = "reconnect"
  /\ UNCHANGED <<client, round, endpoint, index, refresh, seen, tried>>

Refresh(document) ==
  /\ phase = "reconnect" /\ refresh
  /\ Resolved(document)
  /\ cursor' = 0
  /\ TakeNext(newEndpointRound(hosts', 0), hosts')
  /\ tried' = {}
  /\ UNCHANGED <<phase, effective, seen>>

\* ErrDNS is not terminal; the refresh is due again.
RefreshFails ==
  /\ phase = "reconnect" /\ refresh
  /\ phase' = "backoff"
  /\ UNCHANGED <<client, round, endpoint, index, refresh, seen, tried>>

\* Logout or Close.
Logout ==
  /\ phase \in {"connected", "backoff", "reconnect"}
  /\ Forget

DialStep ==
  \/ \E kind \in Kinds : DialFails(kind)
  \/ \E to \in Redirectable : Follow(to) \/ RedirectRefused(to)
  \/ Connected

RefreshStep == (\E document \in Documents : Refresh(document)) \/ RefreshFails

Next ==
  \/ \E document \in Documents : Login(document)
  \/ LoginExpires \/ DialStep \/ RefreshStep \/ Attempt
  \/ \E kind \in Kinds : Lost(kind)
  \/ \E to \in Redirectable : LostToRedirect(to)
  \/ Logout

Spec == Init /\ [][Next]_vars

\* A dial and a lookup end (endpointConnectTimeout, connectTimeout), pauses
\* end, and the bootstrap DNS does not fail forever.
FairSpec ==
  /\ Spec
  /\ WF_vars(DialStep) /\ WF_vars(Attempt) /\ WF_vars(RefreshStep)
  /\ SF_vars(\E document \in Documents : Refresh(document))

-----------------------------------------------------------------------------
(* Properties.                                                             *)

\* The candidates are fetched again only after every one of them was dialled
\* and failed, and until then none is dialled twice (endpointRound's comment
\* and its use in reconnect).
FullRoundFirst ==
  /\ refresh => ToSet(hosts) \subseteq tried
  /\ phase \in {"login", "backoff", "reconnect"} => Candidate \cap tried = {}

Addresses == UNION {ToSet(selectDNSHosts(document.wss, TRUE)) : document \in Documents}

\* The server at g works, DNS names it, and the others fail as endpoints do.
ServedBy(g) ==
  /\ DialFails("local") => endpoint # g
  /\ ~DialFails("global") /\ ~DialFails("terminal")
  /\ \A to \in Redirectable : ~Follow(to) /\ ~RedirectRefused(to)
  /\ refresh /\ ~refresh' /\ phase' = "reconnect" => g \in ToSet(hosts')

\* A reconnect reaches a server that works, if there is one from some time on,
\* wherever in its round or in a refresh it is at that time (reconnect).
FindsGoodServer ==
  \A g \in Addresses :
    <>[][ServedBy(g)]_vars => (phase = "backoff" ~> phase \in {"connected", "out"})

\* The place of address e in the order of preference: hosts of priority 1
\* before the others, and each at its first occurrence.
Rank(e, document) ==
  LET n == Len(document.wss)
      copies == {i \in 1..n : /\ Usable(document.wss[i], TRUE)
                             /\ makeDNSEndpoint(document.wss[i], TRUE) = e}
      preferred == {i \in copies : document.wss[i].priority}
  IN IF preferred # {} THEN Min(preferred) ELSE n + Min(copies)

\* The candidates are the usable addresses of the document, all of them and each
\* once, in the order of preference, although the code partitions, concatenates
\* and only then drops duplicates (selectDNSHosts).
SelectionExact ==
  [][\A document \in Documents : Login(document) \/ Refresh(document) =>
       /\ ToSet(hosts') = {makeDNSEndpoint(h, TRUE) :
                            h \in {x \in ToSet(document.wss) : Usable(x, TRUE)}}
       /\ \A i, j \in DOMAIN hosts' :
            i < j => Rank(hosts'[i], document) < Rank(hosts'[j], document)]_vars
=============================================================================
