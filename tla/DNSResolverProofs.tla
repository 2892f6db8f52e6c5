-------------------------- MODULE DNSResolverProofs --------------------------
(***************************************************************************)
(* The bootstrap-DNS cache, for any Clients and keys and any capacity,     *)
(* overflow, time to live, cooldown and number of attempts.                *)
(***************************************************************************)
EXTENDS DNSResolver, FiniteSetTheorems, TLAPS

LookupPCs == {"idle", "look", "overflow", "waiting", "settled", "returned", "tracking"}

Lookups == [pc : LookupPCs, asked : Nat, since : Nat, flight : FlightIds \cup {None},
            answer : Answers \cup {None}]

TypeOK ==
  /\ now \in Nat /\ generation \in Nat
  /\ entries \in [Keys -> Entry \cup {None}]
  /\ lru \in Seq(Keys)
  /\ flights \in [FlightIds -> Flight \cup {None}]
  /\ lookup \in [Clients -> Lookups]
  /\ known \in [Clients -> Nat]
  /\ pending \in [Clients -> SUBSET FlightIds]
  /\ life \in [Clients -> {"open", "closing", "closed"}]

\* The list s names the members of S, each once.
Names(s, S) ==
  /\ s \in Seq(Keys)
  /\ \A i \in 1..Len(s) : s[i] \in S
  /\ \A k \in S : \E i \in 1..Len(s) : s[i] = k
  /\ \A i, j \in 1..Len(s) : s[i] = s[j] => i = j

ListExact == Names(lru, Cached) /\ Cardinality(Cached) <= Capacity

\* An entry names the load that runs for it, and the other way round.
FlightsExact ==
  /\ \A f \in Running : flights[f].cached =>
       flights[f].key \in Cached /\ entries[flights[f].key].flight = f
  /\ \A k \in Cached : entries[k].flight # None =>
       /\ entries[k].flight \in Running
       /\ flights[entries[k].flight].cached /\ flights[entries[k].flight].key = k
  /\ Cardinality(Uncached) <= Overflow

\* A lookup has a flight while it waits, and whoever has one has one that runs.
WaitsExact ==
  \A c \in Clients :
    /\ lookup[c].flight # None => lookup[c].flight \in Running
    /\ lookup[c].pc = "waiting" => lookup[c].flight # None
    /\ lookup[c].pc \notin {"waiting", "tracking"} => lookup[c].flight = None
    /\ pending[c] \subseteq Running

\* The Client that started a load still knows of it.
OwnerKnows ==
  /\ \A f \in Running : lookup[flights[f].owner].flight = f \/ f \in pending[flights[f].owner]
  /\ \A c \in Clients : life[c] = "closed" => lookup[c].pc = "idle" /\ pending[c] = {}

\* Nobody has seen a generation, or a time, that is still to come.
EntriesPast ==
  \A k \in Cached : entries[k].generation <= generation /\ entries[k].fetchedAt <= now

LookupsPast ==
  \A c \in Clients :
    /\ known[c] <= generation
    /\ lookup[c].asked <= generation /\ lookup[c].since <= now
    /\ lookup[c].answer # None => lookup[c].answer.generation <= generation

DNSInv ==
  /\ TypeOK /\ ListExact /\ FlightsExact /\ WaitsExact /\ OwnerKnows
  /\ EntriesPast /\ LookupsPast /\ RefreshIsNewer /\ AnswerInTime

-----------------------------------------------------------------------------
(* The LRU list.                                                           *)

LEMMA WithoutFacts ==
  ASSUME NEW S, NEW s \in Seq(S), NEW i \in 1..Len(s)
  PROVE  /\ Without(s, i) \in Seq(S) /\ Len(Without(s, i)) = Len(s) - 1
         /\ \A j \in 1..(Len(s) - 1) : Without(s, i)[j] = IF j < i THEN s[j] ELSE s[j + 1]
<1> DEFINE n == Len(s) - 1
<1> DEFINE w == [j \in 1..n |-> IF j < i THEN s[j] ELSE s[j + 1]]
<1>1. n \in Nat /\ \A j \in 1..n : (IF j < i THEN s[j] ELSE s[j + 1]) \in S
  OBVIOUS
<1>2. w \in Seq(S) /\ Len(w) = n
  BY <1>1
<1> QED  BY <1>1, <1>2 DEF Without

LEMMA ConsFacts ==
  ASSUME NEW S, NEW s \in Seq(S), NEW k \in S
  PROVE  /\ <<k>> \o s \in Seq(S) /\ Len(<<k>> \o s) = Len(s) + 1
         /\ (<<k>> \o s)[1] = k
         /\ \A j \in 1..Len(s) : (<<k>> \o s)[j + 1] = s[j]
<1>1. <<k>> \in Seq(S) /\ Len(<<k>>) = 1 /\ <<k>>[1] = k
  OBVIOUS
<1>2. Len(s) \in Nat
  OBVIOUS
<1> QED  BY <1>1, <1>2

\* A key that is new to the list comes first in it.
LEMMA NamesCons ==
  ASSUME NEW s, NEW S, Names(s, S), NEW k \in Keys, k \notin S
  PROVE  Names(<<k>> \o s, S \cup {k})
<1> DEFINE t == <<k>> \o s
<1>1. /\ t \in Seq(Keys) /\ Len(t) = Len(s) + 1 /\ Len(s) \in Nat
      /\ t[1] = k /\ \A j \in 1..Len(s) : t[j + 1] = s[j]
  BY ConsFacts DEF Names
<1> HIDE DEF t
<1>2. \A i \in 1..Len(t) : i = 1 \/ (i - 1 \in 1..Len(s) /\ t[i] = s[i - 1])
  BY <1>1
<1>3. \A i \in 1..Len(t) : t[i] \in S \cup {k}
  BY <1>1, <1>2 DEF Names
<1>4. \A l \in S \cup {k} : \E i \in 1..Len(t) : t[i] = l
  <2>1. ASSUME NEW l \in S PROVE \E i \in 1..Len(t) : t[i] = l
    <3>1. PICK j \in 1..Len(s) : s[j] = l  BY DEF Names
    <3>2. j + 1 \in 1..Len(t) /\ t[j + 1] = l  BY <1>1, <3>1
    <3> QED  BY <3>2
  <2>2. 1 \in 1..Len(t)  BY <1>1
  <2> QED  BY <1>1, <2>1, <2>2
<1>5. ASSUME NEW i \in 1..Len(t), NEW j \in 1..Len(t), t[i] = t[j] PROVE i = j
  <2>1. CASE i # 1 /\ j # 1
    <3>1. i - 1 \in 1..Len(s) /\ j - 1 \in 1..Len(s) /\ s[i - 1] = s[j - 1]
      BY <1>2, <1>5, <2>1
    <3>2. i - 1 = j - 1
      BY <3>1 DEF Names
    <3> QED  BY <1>1, <3>2
  <2>2. CASE i = 1 \/ j = 1
    <3>1. ASSUME NEW l \in 1..Len(t), l # 1 PROVE t[l] # k
      <4>1. l - 1 \in 1..Len(s) /\ t[l] = s[l - 1]
        BY <1>2, <3>1
      <4>2. s[l - 1] \in S
        BY <4>1 DEF Names
      <4> QED  BY <4>1, <4>2
    <3> QED  BY <1>1, <1>5, <2>2, <3>1
  <2> QED  BY <2>1, <2>2
<1> QED  BY <1>1, <1>3, <1>4, <1>5, Zenon DEF Names, t

\* A key leaves the list.
LEMMA NamesRemove ==
  ASSUME NEW s, NEW S, Names(s, S), NEW i \in 1..Len(s)
  PROVE  Names(Without(s, i), S \ {s[i]})
<1> DEFINE t == Without(s, i)
<1>1. /\ t \in Seq(Keys) /\ Len(t) = Len(s) - 1 /\ Len(s) \in Nat
      /\ \A j \in 1..(Len(s) - 1) : t[j] = IF j < i THEN s[j] ELSE s[j + 1]
  <2>1. s \in Seq(Keys)
    BY DEF Names
  <2>2. Len(s) \in Nat
    BY <2>1
  <2> QED  BY <2>1, <2>2, WithoutFacts, Zenon
<1> HIDE DEF t
<1>2. ASSUME NEW j \in 1..Len(t) PROVE t[j] \in S \ {s[i]}
  <2> DEFINE p == IF j < i THEN j ELSE j + 1
  <2>1. p \in 1..Len(s) /\ p # i /\ t[j] = s[p]
    BY <1>1
  <2> HIDE DEF p
  <2> QED  BY <2>1, Zenon DEF Names
<1>3. ASSUME NEW l \in S \ {s[i]} PROVE \E j \in 1..Len(t) : t[j] = l
  <2>1. PICK m \in 1..Len(s) : s[m] = l  BY DEF Names
  <2>2. m # i  BY <2>1
  <2>3. CASE m < i
    <3>1. m \in 1..Len(t) /\ t[m] = l  BY <1>1, <2>1, <2>3
    <3> QED  BY <3>1
  <2>4. CASE m > i
    <3>1. m - 1 \in 1..Len(t) /\ t[m - 1] = l  BY <1>1, <2>1, <2>4
    <3> QED  BY <3>1
  <2> QED  BY <1>1, <2>2, <2>3, <2>4
<1>4. \A j, m \in 1..Len(t) : t[j] = t[m] => j = m
  <2> SUFFICES ASSUME NEW j \in 1..Len(t), NEW m \in 1..Len(t), t[j] = t[m] PROVE j = m
    OBVIOUS
  <2> DEFINE p == IF j < i THEN j ELSE j + 1
  <2> DEFINE q == IF m < i THEN m ELSE m + 1
  <2>1. p \in 1..Len(s) /\ q \in 1..Len(s) /\ s[p] = s[q]  BY <1>1
  <2>2. p = q  BY <2>1 DEF Names
  <2> QED  BY <1>1, <2>2
<1> QED  BY <1>1, <1>2, <1>3, <1>4 DEF Names, t

\* The list is as long as the map is large.
LEMMA NamesCount ==
  ASSUME NEW s, NEW S, Names(s, S)
  PROVE  IsFiniteSet(S) /\ Cardinality(S) = Len(s)
<1>1. Len(s) \in Nat /\ s \in [1..Len(s) -> S]
  BY DEF Names
<1>2. s \in Bijection(1..Len(s), S)
  BY <1>1 DEF Names, Bijection, Injection, Surjection, IsInjective
<1>3. ExistsBijection(1..Len(s), S)
  BY <1>2 DEF ExistsBijection
<1> QED  BY <1>1, <1>3, FS_NatBijection, FS_CountingElements

-----------------------------------------------------------------------------
(* The flights.                                                            *)

LEMMA Naturals0 ==
  /\ 0 \in Nat /\ 1 \in Nat
  /\ \A m, n \in Nat : 0 <= n /\ m + n \in Nat /\ (m <= n => (m - 1) + 1 <= n)
  /\ \A l, m, n \in Nat : l <= m /\ m <= n => l <= n
OBVIOUS

LEMMA CooldownType == ASSUME NEW n PROVE dnsRefreshCooldown(n) \in Nat
BY DNSAssumption DEF dnsRefreshCooldown

LEMMA Types ==
  ASSUME TypeOK
  PROVE  /\ \A k \in Cached : k \in Keys /\ entries[k] \in Entry
         /\ \A f \in Running : f \in FlightIds /\ flights[f] \in Flight
         /\ \A c \in Clients : KeyOf[c] \in Keys /\ lookup[c] \in Lookups
BY DEF TypeOK, Cached, Running, Keys

LEMMA RunningFinite ==
  /\ IsFiniteSet(FlightIds) /\ Cardinality(FlightIds) = Capacity + Overflow
  /\ IsFiniteSet(Running) /\ IsFiniteSet(Uncached)
  /\ Capacity \in Nat /\ Overflow \in Nat
<1>1. Capacity \in Nat /\ Overflow \in Nat /\ Capacity + Overflow >= 1
  BY DNSAssumption
<1>2. IsFiniteSet(FlightIds) /\ Cardinality(FlightIds) = Capacity + Overflow
  BY <1>1, FS_Interval DEF FlightIds
<1>3. Running \in SUBSET FlightIds /\ Uncached \in SUBSET FlightIds
  BY DEF Running, Uncached
<1> QED  BY <1>1, <1>2, <1>3, FS_Subset

\* As long as the cache or the overflow has room for a load, there is a flight
\* for it: the loads of the cache have an entry each.
LEMMA FlightFree ==
  ASSUME TypeOK, ListExact, FlightsExact,
         \/ Cardinality(Cached) < Capacity
         \/ \E k \in Cached : entries[k].flight = None
         \/ Cardinality(Uncached) < Overflow
  PROVE  NewFlight \in FlightIds /\ NewFlight \notin Running
<1> DEFINE Own == Running \ Uncached
<1> DEFINE m == [f \in Own |-> flights[f].key]
<1>1. IsFiniteSet(Cached) /\ Cardinality(Cached) \in Nat /\ Cardinality(Cached) <= Capacity
  BY NamesCount, FS_CardinalityType DEF ListExact
<1>2. \A f \in Own : flights[f].key \in Cached /\ entries[flights[f].key].flight = f
  BY DEF FlightsExact, Uncached
<1>3. m \in Injection(Own, Cached)
  BY <1>2 DEF Injection, IsInjective
<1>4. /\ IsFiniteSet(Own) /\ Cardinality(Own) <= Cardinality(Cached)
      /\ Cardinality(Own) = Cardinality(Cached) <=> m \in Surjection(Own, Cached)
  BY <1>1, <1>3, FS_Injection
<1>5. ASSUME NEW k \in Cached, entries[k].flight = None PROVE m \notin Surjection(Own, Cached)
  <2>1. \A f \in Own : f # None
    BY DNSAssumption DEF Running
  <2>2. \A f \in Own : m[f] # k
    BY <1>2, <1>5, <2>1
  <2> HIDE DEF Own, m
  <2> QED  BY <2>2 DEF Surjection
<1>6. Cardinality(Own) \in Nat /\ Cardinality(Uncached) \in Nat /\ Cardinality(Uncached) <= Overflow
  BY <1>4, RunningFinite, FS_CardinalityType DEF FlightsExact
<1>7. Running = Own \cup Uncached /\ Own \cap Uncached = {}
  BY DEF Uncached
<1>8. Cardinality(Running) = Cardinality(Own) + Cardinality(Uncached)
  <2> HIDE DEF Own
  <2>1. /\ Cardinality(Own \cup Uncached)
           = Cardinality(Own) + Cardinality(Uncached) - Cardinality(Own \cap Uncached)
    BY <1>4, RunningFinite, FS_Union
  <2>2. Cardinality(Own \cap Uncached) = 0
    BY <1>7, FS_EmptySet
  <2> QED  BY <1>6, <1>7, <2>1, <2>2
<1> HIDE DEF Own, m
<1>9. Cardinality(Running) # Cardinality(FlightIds)
  BY <1>1, <1>4, <1>5, <1>6, <1>8, RunningFinite
<1>10. \E f : f \in FlightIds \ Running
  BY <1>9, Zenon DEF Running
<1> QED  BY <1>10 DEF NewFlight

\* What a new load, n, changes.
\* A load for the entry of the key.
LaunchCached(c) == Launch(c, TRUE)

\* A load that goes round the cache.
LaunchUncached(c) == Launch(c, FALSE)

LEMMA LaunchFacts ==
  ASSUME DNSInv, NEW c \in Clients, NEW b \in BOOLEAN, NEW n \in FlightIds, n \notin Running,
         lookup[c].pc \in {"look", "overflow"}, n = NewFlight, Launch(c, b),
         UNCHANGED <<now, generation, known, pending, life>>
  PROVE  /\ flights' \in [FlightIds -> Flight \cup {None}] /\ lookup' \in [Clients -> Lookups]
         /\ Running' = Running \cup {n} /\ \A f \in Running : flights'[f] = flights[f]
         /\ flights'[n].key = KeyOf[c] /\ flights'[n].cached = b
         /\ WaitsExact' /\ OwnerKnows' /\ LookupsPast' /\ RefreshIsNewer' /\ AnswerInTime'
<1> DEFINE new == [key |-> KeyOf[c], owner |-> c, cached |-> b, attempt |-> 1]
<1> USE DEF DNSInv
<1>1. new \in Flight /\ new # None
  BY Types, DNSAssumption DEF Flight
<1>2. flights' = [flights EXCEPT ![n] = new] /\ lookup' = [lookup EXCEPT ![c] = Going(c, "waiting", n, None)]
  BY DEF Launch
<1>3. /\ flights' \in [FlightIds -> Flight \cup {None}] /\ flights'[n] = new
      /\ \A f \in FlightIds : f # n => flights'[f] = flights[f]
  BY <1>1, <1>2 DEF TypeOK
<1>4. /\ Running' = Running \cup {n} /\ \A f \in Running : flights'[f] = flights[f]
      /\ flights'[n].key = KeyOf[c] /\ flights'[n].owner = c /\ flights'[n].cached = b
  BY <1>1, <1>3 DEF Running
<1> HIDE DEF new
<1>5. /\ lookup[c] \in Lookups /\ Going(c, "waiting", n, None) \in Lookups
      /\ lookup[c].flight = None
  BY Types DEF Going, Lookup, Lookups, LookupPCs, WaitsExact
<1>6. /\ lookup' \in [Clients -> Lookups] /\ \A d \in Clients : d # c => lookup'[d] = lookup[d]
      /\ lookup'[c].pc = "waiting" /\ lookup'[c].flight = n /\ lookup'[c].answer = None
      /\ lookup'[c].asked = lookup[c].asked /\ lookup'[c].since = lookup[c].since
  BY <1>2, <1>5 DEF TypeOK, Going, Lookup
<1>7. n # None
  BY DNSAssumption
<1>8. WaitsExact'
  BY <1>4, <1>6, <1>7 DEF WaitsExact
<1>9. OwnerKnows'
  <2>1. \A f \in Running : f # None /\ flights[f].owner \in Clients
    BY Types, DNSAssumption DEF Flight
  <2>2. (\A f \in Running : lookup[flights[f].owner].flight = f \/ f \in pending[flights[f].owner])'
    BY <1>4, <1>5, <1>6, <2>1 DEF OwnerKnows
  <2>3. (\A d \in Clients : life[d] = "closed" => lookup[d].pc = "idle" /\ pending[d] = {})'
    BY <1>6 DEF OwnerKnows
  <2> QED  BY <2>2, <2>3 DEF OwnerKnows
<1>10. LookupsPast' /\ RefreshIsNewer' /\ AnswerInTime'
  BY <1>6 DEF LookupsPast, RefreshIsNewer, AnswerInTime, Answered
<1> QED  BY <1>3, <1>4, <1>6, <1>8, <1>9, <1>10

\* What the end of the load f changes, for whoever waits for it.
LEMMA SettleFacts ==
  ASSUME DNSInv, NEW f \in Running, NEW a \in Answers \cup {None}, Settle(f, a),
         generation' \in Nat, generation <= generation',
         a # None =>
           /\ a.generation <= generation'
           /\ a.stale \/ a.generation > generation
           /\ a.at + (IF a.stale THEN StaleTTL ELSE FreshTTL) >= now
  PROVE  /\ flights' \in [FlightIds -> Flight \cup {None}] /\ lookup' \in [Clients -> Lookups]
         /\ pending' \in [Clients -> SUBSET FlightIds] /\ UNCHANGED <<now, lru, known, life>>
         /\ Running' = Running \ {f} /\ \A g \in Running \ {f} : flights'[g] = flights[g]
         /\ WaitsExact' /\ OwnerKnows' /\ LookupsPast' /\ RefreshIsNewer' /\ AnswerInTime'
<1> USE DEF DNSInv
<1>1. UNCHANGED <<now, lru, known, life>>
  BY DEF Settle
<1>2. f \in FlightIds /\ f # None
  BY Types, DNSAssumption
<1>3. /\ flights' \in [FlightIds -> Flight \cup {None}] /\ flights'[f] = None
      /\ \A g \in FlightIds : g # f => flights'[g] = flights[g]
  BY <1>2 DEF Settle, TypeOK
<1>4. Running' = Running \ {f} /\ \A g \in Running \ {f} : flights'[g] = flights[g]
  BY <1>3 DEF Running
<1>5. /\ pending' \in [Clients -> SUBSET FlightIds]
      /\ \A c \in Clients : pending'[c] = pending[c] \ {f}
  BY Zenon DEF Settle, TypeOK
<1>6. ASSUME NEW c \in Clients
      PROVE  /\ lookup'[c] \in Lookups
             /\ lookup'[c].asked = lookup[c].asked /\ lookup'[c].since = lookup[c].since
             /\ \/ lookup[c].flight # f /\ lookup'[c] = lookup[c]
                \/ /\ lookup[c].flight = f /\ lookup[c].pc = "waiting"
                   /\ lookup'[c].pc = "settled" /\ lookup'[c].flight = None /\ lookup'[c].answer = a
                \/ /\ lookup[c].flight = f /\ lookup[c].pc = "tracking"
                   /\ lookup'[c].pc = "tracking" /\ lookup'[c].flight = None
                   /\ lookup'[c].answer = None
  <2>1. lookup[c] \in Lookups
    BY Types
  <2>2. CASE lookup[c].flight # f
    BY <2>1, <2>2, Zenon DEF Settle
  <2>3. CASE lookup[c].flight = f /\ lookup[c].pc = "waiting"
    <3>1. lookup'[c] = Going(c, "settled", None, a)
      BY <2>3, Zenon DEF Settle
    <3> QED  BY <2>1, <2>3, <3>1 DEF Going, Lookup, Lookups, LookupPCs
  <2>4. CASE lookup[c].flight = f /\ lookup[c].pc # "waiting"
    <3>1. lookup[c].pc = "tracking"
      BY <1>2, <2>4 DEF WaitsExact
    <3>2. lookup'[c] = Going(c, "tracking", None, None)
      BY <2>4, <3>1 DEF Settle
    <3> QED  BY <2>1, <2>4, <3>1, <3>2 DEF Going, Lookup, Lookups, LookupPCs
  <2> QED  BY <2>2, <2>3, <2>4
<1>7. lookup' \in [Clients -> Lookups]
  BY <1>6 DEF Settle
<1>8. WaitsExact'
  BY <1>4, <1>5, <1>6 DEF WaitsExact
<1>9. OwnerKnows'
  <2>1. \A g \in Running : flights[g].owner \in Clients
    BY Types DEF Flight
  <2>2. (\A g \in Running : lookup[flights[g].owner].flight = g \/ g \in pending[flights[g].owner])'
    BY <1>4, <1>5, <1>6, <2>1 DEF OwnerKnows
  <2>3. (\A c \in Clients : life[c] = "closed" => lookup[c].pc = "idle" /\ pending[c] = {})'
    BY <1>1, <1>5, <1>6, ZenonT(30) DEF OwnerKnows
  <2> QED  BY <2>2, <2>3 DEF OwnerKnows
<1>10. ASSUME NEW c \in Clients
       PROVE  /\ known[c] \in Nat /\ lookup[c].asked \in Nat /\ lookup[c].since \in Nat
              /\ known[c] <= generation /\ lookup[c].asked <= generation /\ lookup[c].since <= now
              /\ lookup[c].answer # None =>
                   lookup[c].answer.generation \in Nat /\ lookup[c].answer.generation <= generation
  BY Types, Zenon DEF LookupsPast, TypeOK, Lookups, Answers
<1>11. LookupsPast'
  <2> SUFFICES ASSUME NEW c \in Clients
               PROVE  /\ known[c] <= generation' /\ lookup[c].asked <= generation'
                      /\ lookup[c].since <= now
                      /\ lookup'[c].answer # None => lookup'[c].answer.generation <= generation'
    BY <1>1, <1>6, Zenon DEF LookupsPast
  <2>1. known[c] <= generation' /\ lookup[c].asked <= generation' /\ lookup[c].since <= now
    BY <1>10 DEF TypeOK
  <2>2. CASE lookup'[c].answer = lookup[c].answer
    BY <1>10, <2>2 DEF TypeOK
  <2>3. CASE lookup'[c].answer \in {a, None}
    BY <2>1, <2>3, Zenon
  <2> QED  BY <1>6, <2>1, <2>2, <2>3, Zenon
<1>12. RefreshIsNewer'
  <2> SUFFICES ASSUME NEW c \in Clients, Answered(c)'
               PROVE  lookup'[c].answer.stale \/ lookup'[c].answer.generation > lookup'[c].asked
    BY DEF RefreshIsNewer
  <2>1. CASE lookup'[c] = lookup[c]
    BY <2>1, Zenon DEF RefreshIsNewer, Answered
  <2>2. CASE lookup'[c].answer = a
    <3>1. a # None /\ (a.stale \/ a.generation > generation)
      BY <2>2 DEF Answered
    <3> QED  BY <1>6, <1>10, <2>2, <3>1 DEF TypeOK, Answers
  <2> QED  BY <1>6, <2>1, <2>2, Zenon DEF Answered
<1>13. AnswerInTime'
  <2> SUFFICES ASSUME NEW c \in Clients, Answered(c)'
               PROVE  lookup'[c].answer.at + (IF lookup'[c].answer.stale THEN StaleTTL ELSE FreshTTL)
                        >= lookup'[c].since
    BY DEF AnswerInTime
  <2>1. CASE lookup'[c] = lookup[c]
    BY <2>1, Zenon DEF AnswerInTime, Answered
  <2>2. CASE lookup'[c].answer = a
    <3>1. a # None /\ a.at + (IF a.stale THEN StaleTTL ELSE FreshTTL) >= now
      BY <2>2 DEF Answered
    <3>2. a.at + (IF a.stale THEN StaleTTL ELSE FreshTTL) \in Nat
      BY <3>1, DNSAssumption DEF Answers
    <3>3. lookup[c].since <= now /\ lookup[c].since \in Nat /\ now \in Nat
      BY <1>10 DEF TypeOK
    <3> HIDE DEF DNSInv
    <3> QED  BY <1>6, <2>2, <3>1, <3>2, <3>3
  <2> QED  BY <1>6, <2>1, <2>2, Zenon DEF Answered
<1> QED  BY <1>1, <1>3, <1>4, <1>5, <1>7, <1>8, <1>9, <1>11, <1>12, <1>13, Zenon

-----------------------------------------------------------------------------
(* The lookups.                                                            *)

\* touchLocked leaves the list with the same keys.
LEMMA Touched ==
  ASSUME TypeOK, ListExact, NEW k \in Cached
  PROVE  Names(touchLocked(k), Cached)
<1> DEFINE i == CHOOSE i \in DOMAIN lru : lru[i] = k
<1>1. DOMAIN lru = 1..Len(lru) /\ \E j \in 1..Len(lru) : lru[j] = k
  BY DEF ListExact, Names, TypeOK
<1>2. i \in 1..Len(lru) /\ lru[i] = k
  BY <1>1
<1>3. touchLocked(k) = <<k>> \o Without(lru, i)
  BY DEF touchLocked
<1> HIDE DEF i
<1> DEFINE rest == Cached \ {k}
<1>4. Names(Without(lru, i), rest)
  BY <1>2, NamesRemove DEF ListExact
<1>5. rest \cup {k} = Cached /\ k \notin rest /\ k \in Keys
  BY Types
<1> HIDE DEF rest
<1>6. Names(<<k>> \o Without(lru, i), rest \cup {k})
  BY <1>4, <1>5, NamesCons
<1> QED  BY <1>3, <1>5, <1>6, Zenon

\* What a lookup may become while the loads go on.
Fit(l) ==
  /\ l \in Lookups
  /\ l.flight # None => l.flight \in Running
  /\ l.pc = "waiting" => l.flight # None
  /\ l.pc \notin {"waiting", "tracking"} => l.flight = None
  /\ l.asked <= generation /\ l.since <= now
  /\ l.answer # None =>
       /\ l.answer.generation <= generation
       /\ l.answer.stale \/ l.answer.generation > l.asked
       /\ l.answer.at + (IF l.answer.stale THEN StaleTTL ELSE FreshTTL) >= l.since

LEMMA IdleFits == ASSUME TypeOK PROVE Fit(Idle)
BY DEF TypeOK, Fit, Idle, Lookup, Lookups, LookupPCs

LEMMA TrackingFits ==
  ASSUME TypeOK, NEW f \in FlightIds \cup {None}, f # None => f \in Running
  PROVE  Fit(Lookup("tracking", 0, 0, f, None))
BY DEF TypeOK, Fit, Lookup, Lookups, LookupPCs

LEMMA LookupMoves ==
  ASSUME DNSInv, NEW c \in Clients, NEW l, Fit(l), lookup' = [lookup EXCEPT ![c] = l],
         life[c] # "closed", UNCHANGED <<now, generation, flights, life>>,
         known' \in [Clients -> Nat], \A d \in Clients : known'[d] <= generation,
         \A d \in Clients : pending[d] \subseteq pending'[d] /\ pending'[d] \subseteq Running,
         \A d \in Clients : d # c => pending'[d] = pending[d],
         lookup[c].flight # None => lookup[c].flight = l.flight \/ lookup[c].flight \in pending'[c]
  PROVE  /\ lookup' \in [Clients -> Lookups] /\ WaitsExact' /\ OwnerKnows'
         /\ LookupsPast' /\ RefreshIsNewer' /\ AnswerInTime'
<1> USE DEF DNSInv
<1>1. /\ lookup' \in [Clients -> Lookups] /\ lookup'[c] = l
      /\ \A d \in Clients : d # c => lookup'[d] = lookup[d]
  BY DEF TypeOK, Fit
<1>2. Running' = Running
  BY Zenon DEF Running
<1>3. WaitsExact'
  BY <1>1, <1>2, Zenon DEF WaitsExact, Fit
<1>4. OwnerKnows'
  <2>1. \A f \in Running : f # None /\ flights[f].owner \in Clients
    BY Types, DNSAssumption, Zenon DEF Flight
  <2>2. (\A f \in Running : lookup[flights[f].owner].flight = f \/ f \in pending[flights[f].owner])'
    BY <1>1, <1>2, <2>1 DEF OwnerKnows
  <2>3. (\A d \in Clients : life[d] = "closed" => lookup[d].pc = "idle" /\ pending[d] = {})'
    BY <1>1, Zenon DEF OwnerKnows
  <2> QED  BY <2>2, <2>3 DEF OwnerKnows
<1>5. LookupsPast'
  BY <1>1, Zenon DEF LookupsPast, Fit
<1>6. RefreshIsNewer' /\ AnswerInTime'
  BY <1>1, Zenon DEF RefreshIsNewer, AnswerInTime, Answered, Fit
<1> QED  BY <1>1, <1>3, <1>4, <1>5, <1>6, Zenon

\* A lookup that moves, and does nothing else but touch its entry.
Moves(c, l) ==
  /\ lookup' = [lookup EXCEPT ![c] = l] /\ life[c] # "closed"
  /\ UNCHANGED <<now, generation, flights, life, entries, known, pending>>
  /\ lookup[c].flight # None => lookup[c].flight = l.flight
  /\ lru' = lru \/ (KeyOf[c] \in Cached /\ lru' = touchLocked(KeyOf[c]))

LEMMA LookupOnly ==
  ASSUME DNSInv, NEW c \in Clients, NEW l, Fit(l), Moves(c, l) PROVE DNSInv'
<1> USE DEF DNSInv, Moves
<1>1. /\ lookup' \in [Clients -> Lookups] /\ WaitsExact' /\ OwnerKnows'
      /\ LookupsPast' /\ RefreshIsNewer' /\ AnswerInTime'
  <2>1. known' \in [Clients -> Nat] /\ \A d \in Clients : known'[d] <= generation
    BY DEF TypeOK, LookupsPast
  <2>2. \A d \in Clients : pending[d] \subseteq pending'[d] /\ pending'[d] \subseteq Running
    BY DEF WaitsExact
  <2>3. /\ UNCHANGED <<now, generation, flights, life>>
        /\ \A d \in Clients : d # c => pending'[d] = pending[d]
        /\ lookup[c].flight # None => lookup[c].flight = l.flight \/ lookup[c].flight \in pending'[c]
    OBVIOUS
  <2> HIDE DEF DNSInv
  <2> QED  BY <2>1, <2>2, <2>3, LookupMoves, ZenonT(30)
<1>2. Cached' = Cached /\ Running' = Running /\ Uncached' = Uncached
  BY DEF Cached, Running, Uncached
<1>3. Names(lru', Cached)
  BY Touched DEF ListExact
<1>4. ListExact'
  BY <1>2, <1>3, Zenon DEF ListExact, Names
<1>5. TypeOK'
  BY <1>1, <1>3, Zenon DEF TypeOK, Names
<1>6. FlightsExact' /\ EntriesPast'
  BY <1>2 DEF FlightsExact, EntriesPast
<1> QED  BY <1>1, <1>4, <1>5, <1>6

\* A Client that is not idle is not closed.
LEMMA NotClosed ==
  ASSUME DNSInv, NEW c \in Clients, lookup[c].pc # "idle" PROVE life[c] # "closed"
BY DEF DNSInv, OwnerKnows

\* The parts of a lookup, with their bounds.
LEMMA LookupParts ==
  ASSUME DNSInv, NEW c \in Clients
  PROVE  /\ lookup[c] \in Lookups /\ now \in Nat /\ generation \in Nat
         /\ lookup[c].asked \in Nat /\ lookup[c].asked <= generation
         /\ lookup[c].since \in Nat /\ lookup[c].since <= now
BY Types, Zenon DEF DNSInv, TypeOK, LookupsPast, Lookups

LEMMA EntryParts ==
  ASSUME DNSInv, NEW k \in Cached
  PROVE  /\ entries[k] \in Entry /\ entries[k].flight \in FlightIds \cup {None}
         /\ entries[k].generation \in Nat /\ entries[k].generation <= generation
         /\ entries[k].fetchedAt \in Nat /\ entries[k].fetchedAt <= now
         /\ entries[k].hasValue \in BOOLEAN /\ entries[k].failures \in Nat
BY Types DEF DNSInv, EntriesPast, Entry

\* The value of an entry as an answer.
LEMMA ValueFacts ==
  ASSUME DNSInv, NEW k \in Cached
  PROVE  /\ resolutionFromEntry(entries[k], TRUE) \in Answers
         /\ resolutionFromEntry(entries[k], TRUE).stale
         /\ resolutionFromEntry(entries[k], TRUE).generation <= generation
         /\ Age(entries[k]) <= StaleTTL => resolutionFromEntry(entries[k], TRUE).at + StaleTTL >= now
         /\ resolutionFromEntry(entries[k], FALSE) \in Answers
         /\ ~resolutionFromEntry(entries[k], FALSE).stale
         /\ resolutionFromEntry(entries[k], FALSE).generation = entries[k].generation
         /\ Age(entries[k]) <= FreshTTL => resolutionFromEntry(entries[k], FALSE).at + FreshTTL >= now
<1> DEFINE e == entries[k]
<1>1. /\ e.generation \in Nat /\ e.generation <= generation /\ e.fetchedAt \in Nat /\ now \in Nat
      /\ StaleTTL \in Nat /\ FreshTTL \in Nat
  BY EntryParts, DNSAssumption, Zenon DEF DNSInv, TypeOK
<1> HIDE DEF e
<1>2. /\ resolutionFromEntry(e, TRUE) \in Answers /\ resolutionFromEntry(e, TRUE).stale
      /\ resolutionFromEntry(e, TRUE).generation <= generation
      /\ Age(e) <= StaleTTL => resolutionFromEntry(e, TRUE).at + StaleTTL >= now
  BY <1>1 DEF resolutionFromEntry, Answer, Answers, Age
<1>3. /\ resolutionFromEntry(e, FALSE) \in Answers /\ ~resolutionFromEntry(e, FALSE).stale
      /\ resolutionFromEntry(e, FALSE).generation = e.generation
      /\ Age(e) <= FreshTTL => resolutionFromEntry(e, FALSE).at + FreshTTL >= now
  BY <1>1 DEF resolutionFromEntry, Answer, Answers, Age
<1> QED  BY <1>2, <1>3, Zenon DEF e

\* An answer that is new enough, and in time, is one for the lookup of c.
LEMMA AnswerFits ==
  ASSUME DNSInv, NEW c \in Clients, NEW a \in Answers, a.generation <= generation,
         a.stale \/ a.generation > lookup[c].asked,
         a.at + (IF a.stale THEN StaleTTL ELSE FreshTTL) >= now
  PROVE  Fit(Going(c, "returned", None, a))
<1> DEFINE l == Going(c, "returned", None, a)
<1>1. /\ l.pc = "returned" /\ l.flight = None /\ l.answer = a
      /\ l.asked = lookup[c].asked /\ l.since = lookup[c].since
  BY DEF Going, Lookup
<1>2. l \in Lookups
  BY LookupParts DEF Going, Lookup, Lookups, LookupPCs
<1>3. a.at + (IF a.stale THEN StaleTTL ELSE FreshTTL) >= lookup[c].since
  <2>1. a.at + (IF a.stale THEN StaleTTL ELSE FreshTTL) \in Nat
    BY DNSAssumption DEF Answers
  <2> QED  BY <2>1, LookupParts
<1> HIDE DEF l
<1>4. Fit(l)
  BY <1>1, <1>2, <1>3, LookupParts DEF Fit
<1> QED  BY <1>4, Zenon DEF l

LEMMA LookupFreshKeeps ==
  ASSUME DNSInv, NEW c \in Clients, LookupFresh(c) PROVE DNSInv'
<1> DEFINE k == KeyOf[c]
<1> DEFINE a == resolutionFromEntry(entries[k], FALSE)
<1> DEFINE l == Going(c, "returned", None, a)
<1>1. /\ k \in Cached /\ lookup[c].pc = "look" /\ Fresh(entries[k], lookup[c].asked)
      /\ lru' = touchLocked(k) /\ lookup' = [lookup EXCEPT ![c] = l]
      /\ UNCHANGED <<now, generation, flights, life, entries, known, pending>>
  BY DEF LookupFresh, Looking, ReturnsAtOnce
<1>2. /\ a \in Answers /\ ~a.stale /\ a.generation = entries[k].generation
      /\ Age(entries[k]) <= FreshTTL => a.at + FreshTTL >= now
  BY <1>1, ValueFacts, Zenon
<1> HIDE DEF a
<1>3. Fit(l)
  <2>1. a.generation <= generation /\ a.generation > lookup[c].asked /\ a.at + FreshTTL >= now
    BY <1>1, <1>2, EntryParts, Zenon DEF Fresh
  <2> QED  BY <1>2, <2>1, AnswerFits, Zenon
<1>4. lookup[c].flight = None
  BY <1>1, Zenon DEF DNSInv, WaitsExact
<1>5. life[c] # "closed"
  BY <1>1, NotClosed, Zenon
<1> HIDE DEF l
<1>6. Moves(c, l)
  BY <1>1, <1>4, <1>5 DEF Moves
<1> QED  BY <1>3, <1>6, LookupOnly, Zenon

LEMMA LookupThrottledKeeps ==
  ASSUME DNSInv, NEW c \in Clients, LookupThrottled(c) PROVE DNSInv'
<1> DEFINE k == KeyOf[c]
<1> DEFINE a == resolutionFromEntry(entries[k], TRUE)
<1>1. PICK b \in {a, None} :
      /\ k \in Cached /\ lookup[c].pc = "look"
      /\ b # None => Age(entries[k]) <= StaleTTL
      /\ lru' = touchLocked(k) /\ lookup' = [lookup EXCEPT ![c] = Going(c, "returned", None, b)]
      /\ UNCHANGED <<now, generation, flights, life, entries, known, pending>>
  BY Zenon DEF LookupThrottled, Looking, ReturnsAtOnce
<1>2. /\ a \in Answers /\ a.stale /\ a.generation <= generation
      /\ Age(entries[k]) <= StaleTTL => a.at + StaleTTL >= now
  BY <1>1, ValueFacts, Zenon
<1> HIDE DEF a
<1> DEFINE l == Going(c, "returned", None, b)
<1>3. Fit(l)
  <2>1. CASE b # None
    <3>1. b = a /\ a.at + StaleTTL >= now
      BY <1>1, <1>2, <2>1, Zenon
    <3> QED  BY <1>2, <3>1, AnswerFits, Zenon
  <2>2. CASE b = None
    BY <2>2, LookupParts, Zenon DEF Fit, Going, Lookup, Lookups, LookupPCs
  <2> QED  BY <2>1, <2>2, Zenon
<1>4. lookup[c].flight = None
  BY <1>1, Zenon DEF DNSInv, WaitsExact
<1>5. life[c] # "closed"
  BY <1>1, NotClosed, Zenon
<1> HIDE DEF l
<1>6. Moves(c, l)
  BY <1>1, <1>4, <1>5, Zenon DEF Moves, l
<1> QED  BY <1>3, <1>6, LookupOnly

LEMMA LookupJoinsKeeps ==
  ASSUME DNSInv, NEW c \in Clients, LookupJoins(c) PROVE DNSInv'
<1> DEFINE k == KeyOf[c]
<1> DEFINE f == entries[k].flight
<1> DEFINE l == Going(c, "waiting", f, None)
<1>1. /\ k \in Cached /\ lookup[c].pc = "look" /\ f # None
      /\ lru' = touchLocked(k) /\ lookup' = [lookup EXCEPT ![c] = l]
      /\ UNCHANGED <<now, generation, flights, life, entries, known, pending>>
  BY Zenon DEF LookupJoins, Looking
<1>2. f \in Running /\ f \in FlightIds
  BY <1>1, Types, Zenon DEF DNSInv, FlightsExact
<1>3. lookup[c].flight = None
  BY <1>1, Zenon DEF DNSInv, WaitsExact
<1>4. life[c] # "closed"
  BY <1>1, NotClosed, Zenon
<1> HIDE DEF f
<1>5. Fit(l)
  <2>1. f # None
    BY <1>1
  <2>2. /\ l.pc = "waiting" /\ l.flight = f /\ l.answer = None
        /\ l.asked = lookup[c].asked /\ l.since = lookup[c].since
    BY Zenon DEF Going, Lookup
  <2>3. l \in Lookups
    BY <1>2, LookupParts, Zenon DEF Going, Lookup, Lookups, LookupPCs
  <2> HIDE DEF l
  <2> QED  BY <1>2, <2>1, <2>2, <2>3, LookupParts, Zenon DEF Fit
<1> HIDE DEF l
<1>6. Moves(c, l)
  BY <1>1, <1>3, <1>4, <1>5 DEF Moves
<1> QED  BY <1>1, <1>3, <1>4, <1>5, <1>6, LookupOnly, Zenon

LEMMA LookupOverflowsKeeps ==
  ASSUME DNSInv, NEW c \in Clients, LookupOverflows(c) PROVE DNSInv'
<1> DEFINE l == Going(c, "overflow", None, None)
<1>1. /\ lookup[c].pc = "look" /\ lookup' = [lookup EXCEPT ![c] = l] /\ lru' = lru
      /\ UNCHANGED <<now, generation, flights, life, entries, known, pending>>
  BY Zenon DEF LookupOverflows, Looking, cache
<1>2. Fit(l)
  BY LookupParts, Zenon DEF Fit, Going, Lookup, Lookups, LookupPCs
<1>3. lookup[c].flight = None
  BY <1>1 DEF DNSInv, WaitsExact
<1>4. life[c] # "closed"
  BY <1>1, NotClosed
<1> HIDE DEF l
<1>6. Moves(c, l)
  BY <1>1, <1>2, <1>3, <1>4, Zenon DEF Moves
<1> QED  BY <1>1, <1>2, <1>3, <1>4, <1>6, LookupOnly, Zenon

LEMMA BeginKeeps ==
  ASSUME DNSInv, NEW c \in Clients, NEW g \in {0, known[c]}, Begin(c, g) PROVE DNSInv'
<1> DEFINE l == Lookup("look", g, now, None, None)
<1>1. /\ lookup[c].pc = "idle" /\ lookup' = [lookup EXCEPT ![c] = l] /\ lru' = lru
      /\ life[c] # "closed" /\ UNCHANGED <<now, generation, flights, life, entries, known, pending>>
  BY Zenon DEF Begin, cache
<1>2. now \in Nat /\ g \in Nat /\ g <= generation
  BY DEF DNSInv, TypeOK, LookupsPast
<1>3. Fit(l)
  BY <1>2, LookupParts DEF Fit, Lookup, Lookups, LookupPCs
<1>4. lookup[c].flight = None
  BY <1>1, Zenon DEF DNSInv, WaitsExact
<1> HIDE DEF l
<1>6. Moves(c, l)
  BY <1>1, <1>3, <1>4 DEF Moves
<1> QED  BY <1>1, <1>3, <1>4, <1>6, LookupOnly, Zenon

LEMMA AbandonKeeps ==
  ASSUME DNSInv, NEW c \in Clients, Abandon(c) PROVE DNSInv'
<1> DEFINE l == IF lookup[c].pc = "waiting" THEN Lookup("tracking", 0, 0, lookup[c].flight, None)
                ELSE Idle
<1>1. /\ lookup[c].pc \in {"waiting", "settled", "overflow"}
      /\ lookup' = [lookup EXCEPT ![c] = l] /\ lru' = lru
      /\ UNCHANGED <<now, generation, flights, life, entries, known, pending>>
  BY Zenon DEF Abandon, cache
<1>2. /\ lookup[c].flight \in FlightIds \cup {None}
      /\ lookup[c].flight # None => lookup[c].flight \in Running
  BY LookupParts, Zenon DEF DNSInv, WaitsExact, Lookups
<1>3. l.flight = lookup[c].flight
  BY <1>1 DEF DNSInv, WaitsExact, Lookup, Idle
<1>4. Fit(l)
  BY <1>2, IdleFits, TrackingFits, Zenon DEF DNSInv
<1>5. life[c] # "closed"
  BY <1>1, NotClosed, Zenon
<1> HIDE DEF l
<1>6. Moves(c, l)
  BY <1>1, <1>3, <1>4, <1>5, Zenon DEF Moves
<1> QED  BY <1>1, <1>3, <1>4, <1>5, <1>6, LookupOnly, Zenon

\* What does not touch the cache and the flights keeps their part.
LEMMA CacheKept ==
  ASSUME DNSInv, UNCHANGED <<entries, lru, flights, generation>>, now' \in Nat, now <= now'
  PROVE  /\ Cached' = Cached /\ Running' = Running /\ Uncached' = Uncached
         /\ ListExact' /\ FlightsExact' /\ EntriesPast'
<1>1. Cached' = Cached /\ Running' = Running /\ Uncached' = Uncached
  BY Zenon DEF Cached, Running, Uncached
<1>2. ListExact' /\ FlightsExact'
  BY <1>1, Zenon DEF DNSInv, ListExact, Names, FlightsExact
<1>3. EntriesPast'
  BY <1>1, EntryParts DEF DNSInv, TypeOK, EntriesPast
<1> QED  BY <1>1, <1>2, <1>3, Zenon

LEMMA TickKeeps == ASSUME DNSInv, Tick PROVE DNSInv'
<1> USE DEF DNSInv
<1>1. /\ UNCHANGED <<entries, lru, flights, generation, lookup, known, pending, life>>
      /\ now \in Nat /\ now' = now + 1
  BY DEF Tick, cache, TypeOK
<1>2. Running' = Running /\ ListExact' /\ FlightsExact' /\ EntriesPast'
  BY <1>1, CacheKept
<1>3. TypeOK'
  BY <1>1 DEF TypeOK
<1>4. WaitsExact' /\ OwnerKnows' /\ RefreshIsNewer' /\ AnswerInTime'
  BY <1>1, <1>2, Zenon DEF WaitsExact, OwnerKnows, RefreshIsNewer, AnswerInTime, Answered
<1>5. LookupsPast'
  BY <1>1, LookupParts DEF LookupsPast
<1> QED  BY <1>2, <1>3, <1>4, <1>5, Zenon

LEMMA ReturnKeeps ==
  ASSUME DNSInv, NEW c \in Clients, Return(c) PROVE DNSInv'
<1> USE DEF DNSInv
<1>1. /\ lookup[c].pc \in {"returned", "settled"} /\ lookup' = [lookup EXCEPT ![c] = Idle]
      /\ UNCHANGED <<now, entries, lru, generation, flights, pending, life>>
  BY Zenon DEF Return, cache
<1>2. lookup[c].flight = None /\ life[c] # "closed"
  BY <1>1, NotClosed DEF WaitsExact
<1>3. Fit(Idle)
  BY IdleFits, Zenon
<1>4. known' \in [Clients -> Nat] /\ \A d \in Clients : known'[d] <= generation
  <2>1. CASE known' = known
    BY <2>1, Zenon DEF TypeOK, LookupsPast
  <2>2. CASE lookup[c].answer # None /\ known' = [known EXCEPT ![c] = lookup[c].answer.generation]
    <3>1. lookup[c].answer.generation \in Nat /\ lookup[c].answer.generation <= generation
      BY <2>2, LookupParts, Zenon DEF LookupsPast, Lookups, Answers
    <3> QED  BY <2>2, <3>1, Zenon DEF TypeOK, LookupsPast
  <2> QED  BY <2>1, <2>2, Zenon DEF Return
<1>5. \A d \in Clients : /\ pending[d] \subseteq pending'[d] /\ pending'[d] \subseteq Running
                         /\ pending'[d] = pending[d]
  BY <1>1 DEF WaitsExact
<1>6. /\ lookup' \in [Clients -> Lookups] /\ WaitsExact' /\ OwnerKnows'
      /\ LookupsPast' /\ RefreshIsNewer' /\ AnswerInTime'
  <2> HIDE DEF DNSInv
  <2> QED  BY <1>1, <1>2, <1>3, <1>4, <1>5, LookupMoves, ZenonT(30)
<1>7. ListExact' /\ FlightsExact' /\ EntriesPast'
  BY <1>1, CacheKept DEF TypeOK
<1>8. TypeOK'
  BY <1>1, <1>4, <1>6, Zenon DEF TypeOK
<1> QED  BY <1>6, <1>7, <1>8, Zenon

LEMMA TrackKeeps ==
  ASSUME DNSInv, NEW c \in Clients, trackDNSFlight(c) PROVE DNSInv'
<1> USE DEF DNSInv
<1>1. /\ lookup[c].pc = "tracking" /\ lookup' = [lookup EXCEPT ![c] = Idle]
      /\ pending' = [pending EXCEPT ![c] = pending[c] \cup ({lookup[c].flight} \ {None})]
      /\ UNCHANGED <<now, entries, lru, generation, flights, known, life>>
  BY DEF trackDNSFlight, cache
<1>2. life[c] # "closed"
  BY <1>1, NotClosed, Zenon
<1>3. Fit(Idle)
  BY IdleFits, Zenon
<1>4. known' \in [Clients -> Nat] /\ \A d \in Clients : known'[d] <= generation
  BY <1>1, Zenon DEF TypeOK, LookupsPast
<1>5. {lookup[c].flight} \ {None} \subseteq Running /\ Running \subseteq FlightIds
  BY Zenon DEF WaitsExact, Running
<1>6. /\ pending' \in [Clients -> SUBSET FlightIds]
      /\ \A d \in Clients : pending[d] \subseteq pending'[d] /\ pending'[d] \subseteq Running
      /\ \A d \in Clients : d # c => pending'[d] = pending[d]
      /\ lookup[c].flight # None => lookup[c].flight \in pending'[c]
  BY <1>1, <1>5 DEF TypeOK, WaitsExact
<1>7. /\ lookup' \in [Clients -> Lookups] /\ WaitsExact' /\ OwnerKnows'
      /\ LookupsPast' /\ RefreshIsNewer' /\ AnswerInTime'
  <2> HIDE DEF DNSInv
  <2> QED  BY <1>1, <1>2, <1>3, <1>4, <1>6, LookupMoves, ZenonT(30)
<1>8. ListExact' /\ FlightsExact' /\ EntriesPast'
  BY <1>1, CacheKept DEF TypeOK
<1>9. TypeOK'
  BY <1>1, <1>6, <1>7, Zenon DEF TypeOK
<1> QED  BY <1>7, <1>8, <1>9

\* The steps of Close.
LEMMA CloseKeeps ==
  ASSUME DNSInv, NEW c \in Clients, Close(c) \/ waitPendingDNSFlights(c) PROVE DNSInv'
<1> USE DEF DNSInv
<1>1. /\ UNCHANGED <<now, entries, lru, generation, flights, lookup, pending>>
      /\ \/ life' = [life EXCEPT ![c] = "closing"] /\ known' = [known EXCEPT ![c] = 0]
         \/ /\ life' = [life EXCEPT ![c] = "closed"] /\ known' = known
            /\ lookup[c].pc = "idle" /\ pending[c] = {}
  BY Zenon DEF Close, waitPendingDNSFlights, cache
<1>2. Running' = Running /\ ListExact' /\ FlightsExact' /\ EntriesPast'
  BY <1>1, CacheKept DEF TypeOK
<1>3. TypeOK'
  <2>1. life' \in [Clients -> {"open", "closing", "closed"}]
    BY <1>1, Zenon DEF TypeOK
  <2>2. known' \in [Clients -> Nat]
    BY <1>1, Naturals0, Zenon DEF TypeOK
  <2> QED  BY <1>1, <2>1, <2>2, Zenon DEF TypeOK
<1>4. WaitsExact' /\ RefreshIsNewer' /\ AnswerInTime'
  BY <1>1, <1>2, Zenon DEF WaitsExact, RefreshIsNewer, AnswerInTime, Answered
<1>5. \A d \in Clients : known'[d] = known[d] \/ known'[d] = 0
  BY <1>1 DEF TypeOK
<1>6. LookupsPast'
  BY <1>1, <1>5, Naturals0, ZenonT(30) DEF LookupsPast, TypeOK
<1>7. \A d \in Clients : life'[d] = "closed" => life[d] = "closed" \/ (lookup[d].pc = "idle" /\ pending[d] = {})
  BY <1>1 DEF TypeOK
<1>8. OwnerKnows'
  BY <1>1, <1>2, <1>7, Zenon DEF OwnerKnows
<1> QED  BY <1>2, <1>3, <1>4, <1>6, <1>8, Zenon

\* A lookup starts a load for an entry of the cache.
LEMMA LookupRefreshesKeeps ==
  ASSUME DNSInv, NEW c \in Clients, LookupRefreshes(c) PROVE DNSInv'
<1> DEFINE k == KeyOf[c]
<1> USE DEF DNSInv
<1>1. PICK n : n = NewFlight
  OBVIOUS
<1>2. /\ k \in Cached /\ k \in Keys /\ lookup[c].pc = "look" /\ entries[k].flight = None
      /\ lru' = touchLocked(k) /\ LaunchCached(c)
      /\ entries' = [entries EXCEPT ![k] = [entries[k] EXCEPT !.flight = n]]
      /\ UNCHANGED <<now, generation, known, pending, life>>
  BY <1>1, Types, Zenon DEF LookupRefreshes, Looking, LaunchCached
<1>3. n \in FlightIds /\ n \notin Running /\ n # None
  BY <1>1, <1>2, FlightFree, DNSAssumption
<1>4. /\ flights' \in [FlightIds -> Flight \cup {None}] /\ lookup' \in [Clients -> Lookups]
      /\ Running' = Running \cup {n} /\ \A f \in Running : flights'[f] = flights[f]
      /\ flights'[n].key = k /\ flights'[n].cached
      /\ WaitsExact' /\ OwnerKnows' /\ LookupsPast' /\ RefreshIsNewer' /\ AnswerInTime'
  <2>1. flights'[n].cached = TRUE => flights'[n].cached
    OBVIOUS
  <2> HIDE DEF DNSInv
  <2> QED  BY <1>1, <1>2, <1>3, <2>1, LaunchFacts, ZenonT(30) DEF LaunchCached
<1> DEFINE e == [entries[k] EXCEPT !.flight = n]
<1>5. e \in Entry
  BY <1>2, <1>3, Types DEF Entry
<1>6. e # None /\ e.flight = n /\ e.generation = entries[k].generation /\ e.fetchedAt = entries[k].fetchedAt
  BY <1>2, <1>5, Types, DNSAssumption DEF Entry
<1> HIDE DEF e
<1>7. /\ entries' \in [Keys -> Entry \cup {None}] /\ entries'[k] = e
      /\ \A j \in Keys : j # k => entries'[j] = entries[j]
  <2>1. entries' = [entries EXCEPT ![k] = e]
    BY <1>2, Zenon DEF e
  <2> QED  BY <1>2, <1>5, <2>1 DEF TypeOK
<1>8. /\ entries'[k].flight = n /\ entries'[k].generation = entries[k].generation
      /\ entries'[k].fetchedAt = entries[k].fetchedAt
  BY <1>6, <1>7
<1>9. Cached' = Cached
  BY <1>2, <1>6, <1>7 DEF Cached
<1>10. Names(lru', Cached)
  BY <1>2, Touched, Zenon
<1>11. ListExact'
  BY <1>9, <1>10, Zenon DEF ListExact, Names
<1>12. TypeOK'
  BY <1>2, <1>4, <1>7, <1>10, Zenon DEF TypeOK, Names
<1>13. EntriesPast'
  BY <1>2, <1>7, <1>8, <1>9, Types DEF EntriesPast
<1>14. Uncached' = Uncached
  BY <1>3, <1>4, Zenon DEF Uncached
<1>15. FlightsExact'
  <2>1. \A j \in Cached : j \in Keys
    BY Types, Zenon
  <2>2. ASSUME NEW f \in Running'
        PROVE  (flights[f].cached => flights[f].key \in Cached /\ entries[flights[f].key].flight = f)'
    <3>1. CASE f = n
      BY <1>2, <1>4, <1>8, <1>9, <3>1, Zenon
    <3>2. CASE f # n
      <4>1. f \in Running /\ flights'[f] = flights[f] /\ f # None
        BY <1>4, <2>2, <3>2, DNSAssumption, Zenon DEF Running
      <4> QED  BY <1>2, <1>7, <1>9, <2>1, <4>1 DEF FlightsExact
    <3> QED  BY <3>1, <3>2
  <2>3. ASSUME NEW j \in Cached
        PROVE  (entries[j].flight # None =>
                  /\ entries[j].flight \in Running
                  /\ flights[entries[j].flight].cached /\ flights[entries[j].flight].key = j)'
    <3>1. CASE j = k
      BY <1>4, <1>8, <3>1, Zenon
    <3>2. CASE j # k
      BY <1>4, <1>7, <2>1, <3>2 DEF FlightsExact
    <3> QED  BY <3>1, <3>2
  <2> QED  BY <1>9, <1>14, <2>2, <2>3, Zenon DEF FlightsExact
<1> QED  BY <1>4, <1>11, <1>12, <1>13, <1>15

\* A lookup that goes round the cache starts a load of its own.
LEMMA TakeSlotKeeps ==
  ASSUME DNSInv, NEW c \in Clients, TakeSlot(c) PROVE DNSInv'
<1> USE DEF DNSInv
<1>1. PICK n : n = NewFlight
  OBVIOUS
<1>2. /\ lookup[c].pc = "overflow" /\ Cardinality(Uncached) < Overflow /\ LaunchUncached(c)
      /\ UNCHANGED <<now, entries, lru, generation, known, pending, life>>
  BY Zenon DEF TakeSlot, cache, LaunchUncached
<1>3. n \in FlightIds /\ n \notin Running /\ n # None
  BY <1>1, <1>2, FlightFree, DNSAssumption
<1>4. /\ flights' \in [FlightIds -> Flight \cup {None}] /\ lookup' \in [Clients -> Lookups]
      /\ Running' = Running \cup {n} /\ \A f \in Running : flights'[f] = flights[f]
      /\ ~flights'[n].cached
      /\ WaitsExact' /\ OwnerKnows' /\ LookupsPast' /\ RefreshIsNewer' /\ AnswerInTime'
  <2>1. flights'[n].cached = FALSE => ~flights'[n].cached
    BY Zenon
  <2> HIDE DEF DNSInv
  <2> QED  BY <1>1, <1>2, <1>3, <2>1, LaunchFacts, ZenonT(30) DEF LaunchUncached
<1>5. TypeOK'
  BY <1>2, <1>4, Zenon DEF TypeOK
<1>6. Cached' = Cached
  BY <1>2, Zenon DEF Cached
<1>7. ListExact' /\ EntriesPast'
  BY <1>2, <1>6, Zenon DEF ListExact, Names, EntriesPast
<1>8. Uncached' = Uncached \cup {n}
  BY <1>3, <1>4, Zenon DEF Uncached
<1>9. Cardinality(Uncached') <= Overflow
  <2>1. n \notin Uncached
    BY <1>3 DEF Uncached
  <2>2. Cardinality(Uncached \cup {n})
          = IF n \in Uncached THEN Cardinality(Uncached) ELSE Cardinality(Uncached) + 1
    BY RunningFinite, FS_AddElement, Zenon
  <2>3. Cardinality(Uncached) \in Nat
    BY RunningFinite, FS_CardinalityType
  <2> QED  BY <1>2, <1>8, <2>1, <2>2, <2>3, RunningFinite
<1>10. FlightsExact'
  BY <1>2, <1>4, <1>6, <1>9, Zenon DEF FlightsExact
<1> QED  BY <1>4, <1>5, <1>7, <1>10

\* insertLocked finds the least recently used of the entries it may evict.
LEMMA GreatestExists ==
  ASSUME NEW n \in Nat, NEW S, S \subseteq 1..n, S # {}
  PROVE  \E i \in S : \A j \in S : j <= i
<1> DEFINE T == {m \in Nat : m <= n /\ n - m \in S}
<1> DEFINE R == OpToRel(<, Nat)
<1>1. T \subseteq Nat /\ T # {}
  <2>1. PICK i : i \in S
    OBVIOUS
  <2>2. n - i \in Nat /\ n - i <= n /\ n - (n - i) = i
    BY <2>1
  <2>3. n - i \in T
    BY <2>1, <2>2
  <2> QED  BY <2>3
<1>2. \A i, j \in Nat : j < i => <<j, i>> \in R
  BY Zenon DEF OpToRel
<1>3. PICK m \in T : \A y \in T : ~(<<y, m>> \in R)
  <2> HIDE DEF T
  <2> QED  BY <1>1, NatLessThanWellFounded, WFMin, ZenonT(30)
<1> HIDE DEF R
<1>4. ASSUME NEW j \in S PROVE j <= n - m
  <2>1. PICK y \in T : y = n - j
    OBVIOUS
  <2>2. y \in Nat /\ m \in Nat /\ m <= n /\ j \in Nat
    BY <1>3
  <2> HIDE DEF T
  <2>3. ~(y < m)
    <3>1. ~(<<y, m>> \in R)
      BY <1>3, <2>1, Zenon
    <3> QED  BY <1>2, <2>2, <3>1, Zenon
  <2> QED  BY <2>1, <2>2, <2>3
<1> QED  BY <1>3, <1>4

\* A new entry, in the place of the idle ones that are gone, starts a load.
LEMMA InsertedKeeps ==
  ASSUME DNSInv, NEW c \in Clients, NEW n, NEW gone \in SUBSET Cached,
         KeyOf[c] \notin Cached, lookup[c].pc = "look",
         n = NewFlight, n \in FlightIds, n \notin Running, LaunchCached(c),
         UNCHANGED <<now, generation, known, pending, life>>,
         \A j \in gone : entries[j].flight = None,
         entries' \in [Keys -> Entry \cup {None}], entries'[KeyOf[c]] = Loading(n),
         \A j \in gone : entries'[j] = None,
         \A j \in Keys \ (gone \cup {KeyOf[c]}) : entries'[j] = entries[j],
         Names(lru', (Cached \ gone) \cup {KeyOf[c]}),
         Cardinality((Cached \ gone) \cup {KeyOf[c]}) <= Capacity
  PROVE  DNSInv'
<1> DEFINE k == KeyOf[c]
<1> USE DEF DNSInv
<1>1. n # None /\ k \in Keys /\ k \notin gone
  BY Types, DNSAssumption, Zenon
<1>2. /\ Loading(n) # None /\ Loading(n).flight = n
      /\ Loading(n).generation = 0 /\ Loading(n).fetchedAt = 0
  <2>1. Loading(n) \in Entry
    BY Zenon DEF Loading, Entry
  <2>2. Loading(n).flight = n /\ Loading(n).generation = 0 /\ Loading(n).fetchedAt = 0
    BY Zenon DEF Loading
  <2> QED  BY <2>1, <2>2, DNSAssumption, Zenon
<1>3. Cached' = (Cached \ gone) \cup {k}
  BY <1>1, <1>2 DEF Cached
<1>4. ListExact'
  BY <1>3, Zenon DEF ListExact, Names
<1>5. /\ flights' \in [FlightIds -> Flight \cup {None}] /\ lookup' \in [Clients -> Lookups]
      /\ Running' = Running \cup {n} /\ \A f \in Running : flights'[f] = flights[f]
      /\ flights'[n].key = k /\ flights'[n].cached
      /\ WaitsExact' /\ OwnerKnows' /\ LookupsPast' /\ RefreshIsNewer' /\ AnswerInTime'
  <2>1. flights'[n].cached = TRUE => flights'[n].cached
    OBVIOUS
  <2> HIDE DEF DNSInv
  <2> QED  BY <2>1, LaunchFacts, ZenonT(30) DEF LaunchCached
<1>6. TypeOK'
  BY <1>5, Zenon DEF TypeOK, Names
<1>7. \A j \in Cached \ gone : j \in Keys /\ j # k /\ entries'[j] = entries[j]
  BY Types, Zenon
<1>8. EntriesPast'
  <2>1. 0 <= generation /\ 0 <= now
    BY Naturals0, Zenon DEF TypeOK
  <2> QED  BY <1>2, <1>3, <1>7, <2>1, ZenonT(60) DEF EntriesPast
<1>9. Uncached' = Uncached
  BY <1>5 DEF Uncached
<1>10. /\ \A f \in Running : flights[f].cached =>
            flights[f].key \in Cached /\ entries[flights[f].key].flight = f
       /\ \A j \in Cached : entries[j].flight # None =>
            /\ entries[j].flight \in Running
            /\ flights[entries[j].flight].cached /\ flights[entries[j].flight].key = j
       /\ Cardinality(Uncached) <= Overflow
  BY Zenon DEF FlightsExact
<1> HIDE DEF DNSInv
<1>11. FlightsExact'
  <2>1. ASSUME NEW f \in Running'
        PROVE  (flights[f].cached => flights[f].key \in Cached /\ entries[flights[f].key].flight = f)'
    <3>1. CASE f = n
      <4>1. flights'[f].key = k /\ entries'[k].flight = f /\ k \in Cached'
        BY <1>2, <1>3, <1>5, <3>1, Zenon
      <4> QED  BY <4>1, Zenon
    <3>2. CASE f # n
      <4>1. f \in Running /\ flights'[f] = flights[f] /\ f # None
        BY <1>5, <2>1, <3>2, DNSAssumption, Zenon DEF Running
      <4>2. flights[f].cached => flights[f].key \in Cached \ gone /\ entries[flights[f].key].flight = f
        <5>1. flights[f].cached => flights[f].key \in Cached /\ entries[flights[f].key].flight = f
          BY <1>10, <4>1, Zenon
        <5>2. \A i \in gone : entries[i].flight # f
          BY <4>1, Zenon
        <5> QED  BY <5>1, <5>2, Zenon
      <4> QED  BY <1>3, <1>7, <4>1, <4>2, Zenon
    <3> QED  BY <3>1, <3>2, Zenon
  <2>2. ASSUME NEW j \in Cached'
        PROVE  (entries[j].flight # None =>
                  /\ entries[j].flight \in Running
                  /\ flights[entries[j].flight].cached /\ flights[entries[j].flight].key = j)'
    <3>1. CASE j = k
      BY <1>2, <1>5, <3>1, Zenon
    <3>2. CASE j # k
      <4>1. j \in Cached \ gone
        BY <1>3, <2>2, <3>2, Zenon
      <4>2. /\ entries'[j] = entries[j]
            /\ entries[j].flight # None =>
                 /\ entries[j].flight \in Running /\ flights'[entries[j].flight] = flights[entries[j].flight]
                 /\ flights[entries[j].flight].cached /\ flights[entries[j].flight].key = j
        BY <1>5, <1>7, <1>10, <4>1, Zenon
      <4> QED  BY <1>5, <4>2, Zenon
    <3> QED  BY <3>1, <3>2, Zenon
  <2> QED  BY <1>9, <1>10, <2>1, <2>2, Zenon DEF FlightsExact
<1> QED  BY <1>4, <1>5, <1>6, <1>8, <1>11, Zenon DEF DNSInv

LEMMA LookupInsertsKeeps ==
  ASSUME DNSInv, NEW c \in Clients, LookupInserts(c) PROVE DNSInv'
<1> DEFINE k == KeyOf[c]
<1>1. PICK n : n = NewFlight
  OBVIOUS
<1>2. /\ k \notin Cached /\ k \in Keys /\ lookup[c].pc = "look" /\ LaunchCached(c)
      /\ UNCHANGED <<now, generation, known, pending, life>>
  BY Types, Zenon DEF LookupInserts, Looking, DNSInv, LaunchCached
<1>3. IsFiniteSet(Cached) /\ Cardinality(Cached) \in Nat /\ Cardinality(Cached) <= Capacity
  BY NamesCount, FS_CardinalityType DEF DNSInv, ListExact
<1>4. CASE /\ Cardinality(Cached) < Capacity /\ lru' = <<k>> \o lru
           /\ entries' = [entries EXCEPT ![k] = Loading(n)]
  <2>1. n \in FlightIds /\ n \notin Running
    BY <1>1, <1>4, FlightFree, Zenon DEF DNSInv
  <2>2. Loading(n) \in Entry
    BY <2>1, Zenon DEF Loading, Entry
  <2>3. /\ entries' \in [Keys -> Entry \cup {None}] /\ entries'[k] = Loading(n)
        /\ \A j \in Keys \ {k} : entries'[j] = entries[j]
    BY <1>2, <1>4, <2>2, Zenon DEF DNSInv, TypeOK
  <2>4. Names(lru', Cached \cup {k})
    BY <1>2, <1>4, NamesCons, Zenon DEF DNSInv, ListExact
  <2>5. Cardinality(Cached \cup {k}) <= Capacity
    <3>1. Cardinality(Cached \cup {k}) = IF k \in Cached THEN Cardinality(Cached) ELSE Cardinality(Cached) + 1
      BY <1>3, FS_AddElement, Zenon
    <3> QED  BY <1>2, <1>3, <1>4, <3>1, RunningFinite
  <2>6. (Cached \ {}) \cup {k} = Cached \cup {k} /\ {} \cup {k} = {k} /\ {} \in SUBSET Cached
    OBVIOUS
  <2> QED  BY <1>1, <1>2, <2>1, <2>3, <2>4, <2>5, <2>6, InsertedKeeps, ZenonT(60)
<1>5. ASSUME NEW last \in Evictable,
             lru' = <<k>> \o Without(lru, last),
             entries' = [entries EXCEPT ![lru[last]] = None, ![k] = Loading(n)]
      PROVE  DNSInv'
  <2> DEFINE v == lru[last]
  <2>1. last \in 1..Len(lru) /\ v \in Cached /\ v \in Keys /\ v # k /\ entries[v].flight = None
    <3>1. last \in 1..Len(lru) /\ entries[v].flight = None
      BY DEF Evictable, DNSInv, TypeOK
    <3>2. v \in Cached
      BY <3>1, Zenon DEF DNSInv, ListExact, Names
    <3> QED  BY <1>2, <3>1, <3>2, Types, Zenon DEF DNSInv
  <2>2. Names(Without(lru, last), Cached \ {v})
    BY <2>1, NamesRemove, Zenon DEF DNSInv, ListExact
  <2> HIDE DEF v
  <2>3. n \in FlightIds /\ n \notin Running
    BY <1>1, <2>1, FlightFree, Zenon DEF DNSInv
  <2>4. Loading(n) \in Entry
    BY <2>3 DEF Loading, Entry
  <2>5. /\ entries' \in [Keys -> Entry \cup {None}] /\ entries'[k] = Loading(n) /\ entries'[v] = None
        /\ \A j \in Keys \ {v, k} : entries'[j] = entries[j]
    <3>1. entries' = [[entries EXCEPT ![v] = None] EXCEPT ![k] = Loading(n)]
      BY <1>5, Zenon DEF v
    <3> HIDE DEF k
    <3> QED  BY <1>2, <2>1, <2>4, <3>1, Zenon DEF DNSInv, TypeOK
  <2>6. Names(lru', (Cached \ {v}) \cup {k})
    BY <1>2, <1>5, <2>2, NamesCons, Zenon
  <2>7. Cardinality((Cached \ {v}) \cup {k}) <= Capacity
    <3> DEFINE rest == Cached \ {v}
    <3>1. IsFiniteSet(rest) /\ Cardinality(rest) = IF v \in Cached THEN Cardinality(Cached) - 1 ELSE Cardinality(Cached)
      BY <1>3, FS_RemoveElement, Zenon
    <3>2. k \notin rest
      BY <1>2
    <3> HIDE DEF rest
    <3>3. Cardinality(rest \cup {k}) = IF k \in rest THEN Cardinality(rest) ELSE Cardinality(rest) + 1
      BY <3>1, FS_AddElement, Zenon
    <3>4. Cardinality(rest \cup {k}) <= Capacity
      BY <1>3, <2>1, <3>1, <3>2, <3>3, RunningFinite, Naturals0, Zenon
    <3> QED  BY <3>4 DEF rest
  <2>8. /\ {v} \in SUBSET Cached /\ {v} \cup {k} = {v, k}
        /\ \A j \in {v} : entries[j].flight = None /\ entries'[j] = None
    BY <2>1, <2>5
  <2> QED  BY <1>1, <1>2, <2>3, <2>5, <2>6, <2>7, <2>8, InsertedKeeps, ZenonT(60)
<1>6. CASE /\ Evictable # {}
           /\ LET last == CHOOSE i \in Evictable : \A j \in Evictable : j <= i
              IN /\ lru' = <<k>> \o Without(lru, last)
                 /\ entries' = [entries EXCEPT ![lru[last]] = None, ![k] = Loading(n)]
  <2> DEFINE last == CHOOSE i \in Evictable : \A j \in Evictable : j <= i
  <2>1. last \in Evictable
    <3>1. Len(lru) \in Nat /\ Evictable \subseteq 1..Len(lru)
      BY DEF Evictable, DNSInv, TypeOK
    <3>2. \E i \in Evictable : \A j \in Evictable : j <= i
      <4>1. Evictable # {}
        BY <1>6, Zenon
      <4> QED  BY <3>1, <4>1, GreatestExists, ZenonT(30)
    <3> QED  BY <3>2, Zenon
  <2> HIDE DEF last
  <2>2. lru' = <<k>> \o Without(lru, last) /\ entries' = [entries EXCEPT ![lru[last]] = None, ![k] = Loading(n)]
    BY <1>6, Zenon DEF last
  <2> QED  BY <1>5, <2>1, <2>2, ZenonT(30)
<1> QED  BY <1>1, <1>4, <1>6, Zenon DEF LookupInserts

-----------------------------------------------------------------------------
(* The loads.                                                              *)

\* A load of the cache is the one its entry names: none is superseded.
LEMMA LoadsCurrent ==
  ASSUME DNSInv, NEW f \in Running, flights[f].cached
  PROVE  /\ flights[f].key \in Cached /\ flights[f].key \in Keys
         /\ entries[flights[f].key].flight = f /\ ~Superseded(f)
<1>1. flights[f].key \in Cached /\ entries[flights[f].key].flight = f
  BY DEF DNSInv, FlightsExact
<1> QED  BY <1>1, Zenon DEF Superseded, Cached

LEMMA LoadRetriesKeeps ==
  ASSUME DNSInv, NEW f, NEW failure, LoadRetries(f, failure) PROVE DNSInv'
<1> USE DEF DNSInv
<1>1. /\ f \in Running /\ UNCHANGED <<now, entries, lru, generation, lookup, known, pending, life>>
      /\ flights' = [flights EXCEPT ![f] = [flights[f] EXCEPT !.attempt = flights[f].attempt + 1]]
  BY Zenon DEF LoadRetries, cache
<1> DEFINE new == [flights[f] EXCEPT !.attempt = flights[f].attempt + 1]
<1>2. flights[f] \in Flight /\ f \in FlightIds
  BY <1>1, Types
<1>3. new \in Flight
  BY <1>2 DEF Flight
<1>4. /\ new # None /\ new.key = flights[f].key /\ new.owner = flights[f].owner
      /\ new.cached = flights[f].cached
  BY <1>2, <1>3, DNSAssumption DEF Flight
<1>5. flights' = [flights EXCEPT ![f] = new]
  BY <1>1
<1> HIDE DEF new
<1>6. /\ flights' \in [FlightIds -> Flight \cup {None}] /\ flights'[f] = new
      /\ \A g \in FlightIds : g # f => flights'[g] = flights[g]
  BY <1>2, <1>3, <1>5 DEF TypeOK
<1>7. Running' = Running
  BY <1>1, <1>4, <1>6, Zenon DEF Running
<1>8. \A g \in Running : /\ flights'[g].key = flights[g].key /\ flights'[g].owner = flights[g].owner
                         /\ flights'[g].cached = flights[g].cached
  BY <1>4, <1>6, Types
<1>9. Cached' = Cached /\ Uncached' = Uncached
  BY <1>1, <1>7, <1>8 DEF Cached, Uncached
<1>10. TypeOK'
  BY <1>1, <1>6 DEF TypeOK
<1>11. ListExact' /\ EntriesPast' /\ LookupsPast' /\ RefreshIsNewer' /\ AnswerInTime'
  BY <1>1, <1>9, Zenon DEF ListExact, Names, EntriesPast, LookupsPast, RefreshIsNewer, AnswerInTime, Answered
<1>12. FlightsExact'
  BY <1>1, <1>7, <1>8, <1>9 DEF FlightsExact
<1>13. WaitsExact' /\ OwnerKnows'
  BY <1>1, <1>7, <1>8, Zenon DEF WaitsExact, OwnerKnows
<1> QED  BY <1>10, <1>11, <1>12, <1>13

\* A load ends, and its entry is e from then on.
LEMMA EndOfLoad ==
  ASSUME DNSInv, NEW f \in Running, flights[f].cached, NEW e \in Entry,
         entries' = [entries EXCEPT ![flights[f].key] = e], e.flight = None,
         e.generation <= generation', e.fetchedAt <= now, now' = now, lru' = lru,
         generation' \in Nat, generation <= generation',
         Running' = Running \ {f}, \A g \in Running \ {f} : flights'[g] = flights[g]
  PROVE  /\ entries' \in [Keys -> Entry \cup {None}]
         /\ ListExact' /\ FlightsExact' /\ EntriesPast'
<1> DEFINE k == flights[f].key
<1>1. k \in Cached /\ k \in Keys /\ entries[k].flight = f
  BY LoadsCurrent, Types, Zenon DEF DNSInv
<1>2. /\ entries' \in [Keys -> Entry \cup {None}] /\ entries'[k] = e
      /\ \A j \in Keys : j # k => entries'[j] = entries[j]
  BY <1>1, Zenon DEF DNSInv, TypeOK
<1>3. e # None
  BY DNSAssumption, Zenon
<1>4. Cached' = Cached
  BY <1>1, <1>2, <1>3, Zenon DEF Cached
<1>5. Uncached' = Uncached
  BY Zenon DEF Uncached
<1>6. ListExact'
  BY <1>4, Zenon DEF DNSInv, ListExact, Names
<1>7. \A j \in Cached : j \in Keys
  BY Types DEF DNSInv
<1> HIDE DEF k
<1>8. FlightsExact'
  <2>1. ASSUME NEW g \in Running \ {f}
        PROVE  (flights[g].cached => flights[g].key \in Cached /\ entries[flights[g].key].flight = g)'
    <3>1. flights[g].cached => flights[g].key \in Cached /\ entries[flights[g].key].flight = g
      BY Zenon DEF DNSInv, FlightsExact
    <3> QED  BY <1>1, <1>2, <1>4, <1>7, <3>1, Zenon
  <2>2. ASSUME NEW j \in Cached
        PROVE  (entries[j].flight # None =>
                  /\ entries[j].flight \in Running
                  /\ flights[entries[j].flight].cached /\ flights[entries[j].flight].key = j)'
    <3>1. CASE j = k
      BY <1>2, <3>1, Zenon
    <3>2. CASE j # k
      <4>1. entries'[j] = entries[j]
        BY <1>2, <1>7, <3>2, Zenon
      <4>2. entries[j].flight # None =>
              /\ entries[j].flight \in Running
              /\ flights[entries[j].flight].cached /\ flights[entries[j].flight].key = j
        BY Zenon DEF DNSInv, FlightsExact
      <4>3. entries[j].flight # None => entries[j].flight # f
        BY <4>2, <3>2 DEF k
      <4> QED  BY <4>1, <4>2, <4>3
    <3> QED  BY <3>1, <3>2, Zenon
  <2>3. Cardinality(Uncached) <= Overflow
    BY Zenon DEF DNSInv, FlightsExact
  <2> QED  BY <1>4, <1>5, <2>1, <2>2, <2>3, Zenon DEF FlightsExact
<1>9. EntriesPast'
  <2> SUFFICES ASSUME NEW j \in Cached
               PROVE  entries'[j].generation <= generation' /\ entries'[j].fetchedAt <= now
    BY <1>4, Zenon DEF EntriesPast
  <2>1. CASE j = k
    BY <1>2, <2>1, Zenon
  <2>2. CASE j # k
    <3>1. /\ entries[j].generation \in Nat /\ entries[j].generation <= generation
          /\ entries[j].fetchedAt <= now /\ generation \in Nat
      BY EntryParts DEF DNSInv, TypeOK
    <3> QED  BY <1>2, <1>7, <2>2, <3>1, Naturals0, Zenon
  <2> QED  BY <2>1, <2>2, Zenon
<1> QED  BY <1>2, <1>6, <1>8, <1>9, Zenon

\* A load that goes round the cache ends.
LEMMA EndOfUncached ==
  ASSUME DNSInv, NEW f \in Running, ~flights[f].cached, UNCHANGED <<now, entries, lru>>,
         generation' \in Nat, generation <= generation',
         Running' = Running \ {f}, \A g \in Running \ {f} : flights'[g] = flights[g]
  PROVE  ListExact' /\ FlightsExact' /\ EntriesPast'
<1>1. Cached' = Cached
  BY Zenon DEF Cached
<1>2. ListExact'
  BY <1>1, Zenon DEF DNSInv, ListExact, Names
<1>3. Uncached' \in SUBSET Uncached
  BY Zenon DEF Uncached
<1>4. Cardinality(Uncached') <= Overflow
  <2>1. Cardinality(Uncached') <= Cardinality(Uncached) /\ IsFiniteSet(Uncached')
    BY <1>3, RunningFinite, FS_Subset, Zenon
  <2>2. Cardinality(Uncached') \in Nat /\ Cardinality(Uncached) \in Nat
    BY <2>1, RunningFinite, FS_CardinalityType, Zenon
  <2>3. Cardinality(Uncached) <= Overflow
    BY Zenon DEF DNSInv, FlightsExact
  <2> QED  BY <2>1, <2>2, <2>3, RunningFinite
<1>5. FlightsExact'
  BY <1>1, <1>4, Zenon DEF DNSInv, FlightsExact
<1>6. EntriesPast'
  <2> SUFFICES ASSUME NEW j \in Cached
               PROVE  entries[j].generation <= generation' /\ entries[j].fetchedAt <= now
    BY <1>1, Zenon DEF EntriesPast
  <2>1. /\ entries[j].generation \in Nat /\ entries[j].generation <= generation
        /\ entries[j].fetchedAt <= now /\ generation \in Nat
    BY EntryParts, Zenon DEF DNSInv, TypeOK
  <2> QED  BY <2>1
<1> QED  BY <1>2, <1>5, <1>6, Zenon

LEMMA LoadSucceedsKeeps ==
  ASSUME DNSInv, NEW f, LoadSucceeds(f) PROVE DNSInv'
<1> DEFINE k == flights[f].key
<1> DEFINE a == Answer(FALSE, generation + 1, now)
<1> DEFINE e == Loaded(generation + 1)
<1>1. f \in Running
  BY DEF LoadSucceeds
<1>2. /\ generation' = generation + 1 /\ Settle(f, a)
      /\ entries' = IF ~flights[f].cached THEN entries ELSE [entries EXCEPT ![k] = e]
  <2>1. ~(flights[f].cached /\ Superseded(f))
    BY <1>1, LoadsCurrent, Zenon
  <2> QED  BY <2>1, Zenon DEF LoadSucceeds
<1>3. now \in Nat /\ generation \in Nat /\ FreshTTL \in Nat
  BY DNSAssumption, Zenon DEF DNSInv, TypeOK
<1>4. a \in Answers /\ ~a.stale /\ a.generation = generation + 1 /\ a.at = now
  BY <1>3 DEF Answer, Answers
<1>5. e \in Entry /\ e.flight = None /\ e.generation = generation + 1 /\ e.fetchedAt = now
  BY <1>3 DEF Loaded, Entry
<1> HIDE DEF a, e
<1>6. /\ flights' \in [FlightIds -> Flight \cup {None}] /\ lookup' \in [Clients -> Lookups]
      /\ pending' \in [Clients -> SUBSET FlightIds] /\ UNCHANGED <<now, lru, known, life>>
      /\ Running' = Running \ {f} /\ \A g \in Running \ {f} : flights'[g] = flights[g]
      /\ WaitsExact' /\ OwnerKnows' /\ LookupsPast' /\ RefreshIsNewer' /\ AnswerInTime'
  <2>1. a \in Answers \cup {None} /\ generation' \in Nat /\ generation <= generation'
    BY <1>2, <1>3, <1>4
  <2>2. /\ a.generation <= generation' /\ a.generation > generation
        /\ a.at + (IF a.stale THEN StaleTTL ELSE FreshTTL) >= now
    BY <1>2, <1>3, <1>4
  <2> QED  BY <1>1, <1>2, <2>1, <2>2, SettleFacts, ZenonT(30)
<1>7. generation' \in Nat /\ generation <= generation'
  BY <1>2, <1>3
<1>8. entries' \in [Keys -> Entry \cup {None}] /\ ListExact' /\ FlightsExact' /\ EntriesPast'
  <2>1. CASE flights[f].cached
    <3>1. entries' = [entries EXCEPT ![k] = e]
      BY <1>2, <2>1, Zenon
    <3>2. e.generation <= generation' /\ e.fetchedAt <= now
      BY <1>2, <1>3, <1>5
    <3> QED  BY <1>1, <1>5, <1>6, <1>7, <2>1, <3>1, <3>2, EndOfLoad, ZenonT(30)
  <2>2. CASE ~flights[f].cached
    <3>1. entries' = entries
      BY <1>2, <2>2, Zenon
    <3>2. ListExact' /\ FlightsExact' /\ EntriesPast'
      BY <1>1, <1>6, <1>7, <2>2, <3>1, EndOfUncached, ZenonT(30)
    <3> QED  BY <3>1, <3>2 DEF DNSInv, TypeOK
  <2> QED  BY <2>1, <2>2
<1>9. TypeOK'
  BY <1>6, <1>7, <1>8, Zenon DEF DNSInv, TypeOK
<1> QED  BY <1>6, <1>8, <1>9, Zenon DEF DNSInv

LEMMA LoadFailsKeeps ==
  ASSUME DNSInv, NEW f, NEW failure, LoadFails(f, failure) PROVE DNSInv'
<1> DEFINE k == flights[f].key
<1> DEFINE transient == isTransientDNSResolutionError(failure)
<1> DEFINE e == Failed(entries[k], transient)
<1>1. f \in Running /\ generation' = generation /\ generation \in Nat /\ now \in Nat
  BY Zenon DEF LoadFails, DNSInv, TypeOK
<1>2. CASE ~flights[f].cached
  <2>1. Settle(f, None) /\ entries' = entries
    BY <1>2, Zenon DEF LoadFails
  <2>2. /\ flights' \in [FlightIds -> Flight \cup {None}] /\ lookup' \in [Clients -> Lookups]
        /\ pending' \in [Clients -> SUBSET FlightIds] /\ UNCHANGED <<now, lru, known, life>>
        /\ Running' = Running \ {f} /\ \A g \in Running \ {f} : flights'[g] = flights[g]
        /\ WaitsExact' /\ OwnerKnows' /\ LookupsPast' /\ RefreshIsNewer' /\ AnswerInTime'
    <3>1. generation' \in Nat /\ generation <= generation'
      BY <1>1
    <3> QED  BY <1>1, <2>1, <3>1, SettleFacts, Zenon
  <2>3. ListExact' /\ FlightsExact' /\ EntriesPast'
    <3>1. generation' \in Nat /\ generation <= generation'
      BY <1>1
    <3> QED  BY <1>1, <1>2, <2>1, <2>2, <3>1, EndOfUncached, ZenonT(30)
  <2>4. TypeOK'
    BY <1>1, <2>1, <2>2, Zenon DEF DNSInv, TypeOK
  <2> QED  BY <2>2, <2>3, <2>4 DEF DNSInv
<1>3. CASE flights[f].cached
  <2>1. k \in Cached /\ ~Superseded(f)
    BY <1>1, <1>3, LoadsCurrent
  <2> DEFINE v == resolutionFromEntry(entries[k], TRUE)
  <2>2. PICK a \in {v, None} :
          /\ a # None => Age(entries[k]) <= StaleTTL
          /\ Settle(f, a) /\ entries' = [entries EXCEPT ![k] = e]
    BY <1>3, <2>1, Zenon DEF LoadFails
  <2>3. /\ v \in Answers /\ v.stale /\ v.generation <= generation
        /\ Age(entries[k]) <= StaleTTL => v.at + StaleTTL >= now
    BY <2>1, ValueFacts, Zenon
  <2> HIDE DEF v
  <2>4. e \in Entry /\ e.flight = None /\ e.generation <= generation /\ e.fetchedAt <= now
    <3>1. dnsRefreshCooldown(entries[k].failures + 1) \in Nat
      BY CooldownType, Zenon
    <3>2. /\ entries[k] \in Entry
          /\ entries[k].generation \in Nat /\ entries[k].generation <= generation
          /\ entries[k].fetchedAt \in Nat /\ entries[k].fetchedAt <= now
          /\ entries[k].hasValue \in BOOLEAN /\ entries[k].failures \in Nat
      BY <2>1, EntryParts, Zenon
    <3>3. /\ now + dnsRefreshCooldown(entries[k].failures + 1) \in Nat
          /\ entries[k].failures + 1 \in Nat
      BY <1>1, <3>1, <3>2, Naturals0, Zenon
    <3> HIDE DEF transient
    <3>4. e \in Entry
      BY <3>2, <3>3, Zenon DEF Failed, Entry
    <3>5. e.flight = None /\ e.generation = entries[k].generation /\ e.fetchedAt = entries[k].fetchedAt
      BY Zenon DEF Failed
    <3> QED  BY <3>2, <3>4, <3>5, Zenon
  <2> HIDE DEF e
  <2>5. /\ flights' \in [FlightIds -> Flight \cup {None}] /\ lookup' \in [Clients -> Lookups]
        /\ pending' \in [Clients -> SUBSET FlightIds] /\ UNCHANGED <<now, lru, known, life>>
        /\ Running' = Running \ {f} /\ \A g \in Running \ {f} : flights'[g] = flights[g]
        /\ WaitsExact' /\ OwnerKnows' /\ LookupsPast' /\ RefreshIsNewer' /\ AnswerInTime'
    <3>1. a \in Answers \cup {None} /\ generation' \in Nat /\ generation <= generation'
      BY <1>1, <2>2, <2>3
    <3>2. a # None =>
            /\ a.generation <= generation' /\ (a.stale \/ a.generation > generation)
            /\ a.at + (IF a.stale THEN StaleTTL ELSE FreshTTL) >= now
      BY <1>1, <2>2, <2>3
    <3> QED  BY <1>1, <2>2, <3>1, <3>2, SettleFacts, ZenonT(30)
  <2>6. entries' \in [Keys -> Entry \cup {None}] /\ ListExact' /\ FlightsExact' /\ EntriesPast'
    <3>1. generation' \in Nat /\ generation <= generation' /\ e.generation <= generation'
      BY <1>1, <2>4
    <3> QED  BY <1>1, <1>3, <2>2, <2>4, <2>5, <3>1, EndOfLoad, ZenonT(30)
  <2>7. TypeOK'
    BY <1>1, <2>5, <2>6 DEF DNSInv, TypeOK
  <2> QED  BY <2>5, <2>6, <2>7, Zenon DEF DNSInv
<1> QED  BY <1>2, <1>3, Zenon

-----------------------------------------------------------------------------
(* The invariant.                                                          *)

LEMMA InitDNS == Init => DNSInv
<1> SUFFICES ASSUME Init PROVE DNSInv
  OBVIOUS
<1>1. Cached = {} /\ Running = {} /\ Uncached = {}
  BY Zenon DEF Init, Cached, Running, Uncached
<1>2. Idle \in Lookups /\ Idle.pc = "idle" /\ Idle.flight = None /\ Idle.answer = None
      /\ Idle.asked = 0 /\ Idle.since = 0
  BY Zenon DEF Idle, Lookup, Lookups, LookupPCs
<1> HIDE DEF Idle
<1>3. TypeOK
  BY <1>2 DEF Init, TypeOK
<1>4. ListExact
  <2>1. lru = <<>> /\ lru \in Seq(Keys) /\ Len(lru) = 0
    BY DEF Init
  <2> QED  BY <1>1, <2>1, RunningFinite, FS_EmptySet DEF ListExact, Names
<1>5. FlightsExact
  BY <1>1, RunningFinite, FS_EmptySet DEF FlightsExact
<1>6. WaitsExact /\ OwnerKnows
  BY <1>1, <1>2 DEF Init, WaitsExact, OwnerKnows
<1>7. EntriesPast /\ LookupsPast
  <2>1. EntriesPast
    BY <1>1 DEF EntriesPast
  <2>2. now = 0 /\ generation = 0 /\ \A c \in Clients : known[c] = 0 /\ lookup[c] = Idle
    BY Zenon DEF Init
  <2>3. LookupsPast
    <3>1. 0 <= 0
      OBVIOUS
    <3> QED  BY <1>2, <2>2, <3>1, Zenon DEF LookupsPast
  <2> QED  BY <2>1, <2>3
<1>8. RefreshIsNewer /\ AnswerInTime
  BY <1>2 DEF Init, RefreshIsNewer, AnswerInTime, Answered
<1> QED  BY <1>3, <1>4, <1>5, <1>6, <1>7, <1>8, Zenon DEF DNSInv

LEMMA NextDNS == DNSInv /\ [Next]_vars => DNSInv'
<1> SUFFICES ASSUME DNSInv, [Next]_vars PROVE DNSInv'
  OBVIOUS
<1>1. CASE Tick
  BY <1>1, TickKeeps
<1>2. ASSUME NEW c \in Clients,
             \/ \E g \in {0, known[c]} : Begin(c, g)
             \/ Look(c) \/ TakeSlot(c) \/ Return(c) \/ Abandon(c) \/ trackDNSFlight(c)
             \/ Close(c) \/ waitPendingDNSFlights(c)
      PROVE  DNSInv'
  <2>1. ASSUME NEW g \in {0, known[c]}, Begin(c, g) PROVE DNSInv'
    BY <2>1, BeginKeeps
  <2>2. CASE Look(c)
    BY <2>2, LookupFreshKeeps, LookupJoinsKeeps, LookupThrottledKeeps, LookupRefreshesKeeps,
       LookupInsertsKeeps, LookupOverflowsKeeps, Zenon DEF Look
  <2>3. CASE TakeSlot(c) \/ Return(c) \/ Abandon(c) \/ trackDNSFlight(c)
    BY <2>3, TakeSlotKeeps, ReturnKeeps, AbandonKeeps, TrackKeeps, Zenon
  <2>4. CASE Close(c) \/ waitPendingDNSFlights(c)
    BY <2>4, CloseKeeps, Zenon
  <2> QED  BY <1>2, <2>1, <2>2, <2>3, <2>4, Zenon
<1>3. ASSUME NEW f \in FlightIds, Load(f) PROVE DNSInv'
  BY <1>3, LoadSucceedsKeeps, LoadRetriesKeeps, LoadFailsKeeps, Zenon DEF Load
<1>4. CASE UNCHANGED vars
  <2>1. /\ UNCHANGED <<now, entries, lru, generation, flights, lookup, known, pending, life>>
        /\ Cached' = Cached /\ Running' = Running /\ Uncached' = Uncached
    BY <1>4 DEF vars, Cached, Running, Uncached
  <2>2. TypeOK' /\ ListExact' /\ FlightsExact' /\ WaitsExact' /\ OwnerKnows'
    BY <2>1, Zenon DEF DNSInv, TypeOK, ListExact, FlightsExact, WaitsExact, OwnerKnows
  <2>3. EntriesPast' /\ LookupsPast' /\ RefreshIsNewer' /\ AnswerInTime'
    BY <2>1, Zenon DEF DNSInv, EntriesPast, LookupsPast, RefreshIsNewer, AnswerInTime, Answered
  <2> QED  BY <2>2, <2>3, Zenon DEF DNSInv
<1> QED  BY <1>1, <1>2, <1>3, <1>4, Zenon DEF Next, Terminated

LEMMA DNSInvariant == Spec => []DNSInv
BY InitDNS, NextDNS, PTL DEF Spec

\* For every cache: it stays within its capacity, its LRU list and its map
\* agree, and a load is never superseded while it runs (insertLocked,
\* touchLocked, runLoad).  Whoever evicts looks for an entry without a load, and
\* only a load that runs is named by an entry.
THEOREM CacheIsExact == Spec => []CacheExact
<1>1. DNSInv => CacheExact
  <2> SUFFICES ASSUME DNSInv PROVE CacheExact
    OBVIOUS
  <2>1. Names(lru, Cached) /\ Cardinality(Cached) <= Capacity
    BY DEF DNSInv, ListExact
  <2>2. Len(lru) = Cardinality(Cached)
    BY <2>1, NamesCount, Zenon
  <2>3. {lru[i] : i \in DOMAIN lru} = Cached
    <3>1. DOMAIN lru = 1..Len(lru)
      BY <2>1 DEF Names
    <3> QED  BY <2>1, <3>1 DEF Names
  <2>4. \A f \in Running : flights[f].cached => ~Superseded(f)
    BY LoadsCurrent, Zenon
  <2> QED  BY <2>1, <2>2, <2>3, <2>4, Zenon DEF CacheExact
<1> QED  BY <1>1, DNSInvariant, PTL

\* For every cache: whoever waits for a flight, also a Close for one its
\* Client gave up on, waits for one that runs (waitDNSFlight,
\* waitPendingDNSFlights): the end of a load reaches all who have it.
THEOREM WaitersServed == Spec => []WaitersHaveFlight
<1>1. DNSInv => WaitersHaveFlight
  BY Zenon DEF DNSInv, WaitsExact, WaitersHaveFlight
<1> QED  BY <1>1, DNSInvariant, PTL

\* For every cache: a Client that is closed owns no load (finalizeClose),
\* since each load is known to its owner, as the one its lookup waits for or
\* as one that trackDNSFlight remembers, until it is done.
THEOREM ClosedClientsQuiet == Spec => []ClosedIsQuiet
<1>1. DNSInv => ClosedIsQuiet
  <2> SUFFICES ASSUME DNSInv, NEW c \in Clients, life[c] = "closed",
                      NEW f \in Running, flights[f].owner = c
               PROVE  FALSE
    BY DEF ClosedIsQuiet
  <2>1. f \in FlightIds /\ f # None
    BY DNSAssumption, Zenon DEF Running
  <2>2. lookup[c].pc = "idle" /\ pending[c] = {} /\ lookup[c].flight = None
    BY DEF DNSInv, OwnerKnows, WaitsExact
  <2> QED  BY <2>1, <2>2, Zenon DEF DNSInv, OwnerKnows
<1> QED  BY <1>1, DNSInvariant, PTL

\* For every cache: a reconnect that asks for news gets a later generation
\* than the one it has, or an answer marked stale (resolveWithSettlement).
THEOREM RefreshesNewer == Spec => []RefreshIsNewer
<1>1. DNSInv => RefreshIsNewer
  BY DEF DNSInv
<1> QED  BY <1>1, DNSInvariant, PTL

\* For every cache and every time to live: no answer was older than its time
\* to live when it was asked for (freshTTL, staleTTL in resolveWithSettlement
\* and runLoad).
THEOREM AnswersInTime == Spec => []AnswerInTime
<1>1. DNSInv => AnswerInTime
  BY DEF DNSInv
<1> QED  BY <1>1, DNSInvariant, PTL

=============================================================================
