----------------------------- MODULE DNSResolver -----------------------------
(***************************************************************************)
(* The process-wide bootstrap-DNS cache (dnsResolver, sdk/dns.go) shared   *)
(* by several Clients, with each Client's record of the lookups it has     *)
(* left behind (pendingDNSFlights, sdk/endpoint_pool.go) and the wait of   *)
(* Close for them.                                                         *)
(*                                                                         *)
(* A Client makes one lookup at a time: Login and reconnect hold the       *)
(* connectDone token around it.  Lookups end early when their context      *)
(* does; the load they started goes on in a goroutine of its own.  A step  *)
(* is one critical section of dnsResolver.mu or one channel operation.     *)
(***************************************************************************)
EXTENDS Naturals, FiniteSets, Sequences

CONSTANTS
  Clients,
  KeyOf,          \* the AppKey and *http.Client of each Client
  None,           \* nil
  Capacity,       \* dnsResolverCapacity
  Overflow,       \* dnsResolverOverflow
  FreshTTL, StaleTTL,
  FirstCooldown,  \* dnsFailureCooldown
  LastCooldown,   \* dnsMaxFailureCooldown
  MaxAttempts,    \* dnsMaxAttempts
  MaxTime,        \* bound on the clock
  MaxLoads        \* bound on the loads that succeed

Keys == {KeyOf[c] : c \in Clients}

\* Flights in the cache have an entry each, the others a slot of overflow.
FlightIds == 1..(Capacity + Overflow)

\* A dnsFlight with the load that runs for it.
Flight == [key : Keys, owner : Clients, cached : BOOLEAN, attempt : Nat]

\* A dnsCacheEntry; its endpoints are those of the load of its generation.
Entry == [hasValue : BOOLEAN, fetchedAt : Nat, generation : Nat, flight : FlightIds \cup {None},
          failures : Nat, refreshNotBefore : Nat, lastErr : {None, "transient", "permanent"}]

\* A dnsResolution.
Answers == [stale : BOOLEAN, generation : Nat, at : Nat]

ASSUME DNSAssumption ==
  /\ None \notin Keys \cup FlightIds \cup Flight \cup Entry \cup Answers
  /\ {Capacity, Overflow, MaxAttempts} \subseteq Nat \ {0}
  /\ {FreshTTL, StaleTTL, FirstCooldown, LastCooldown, MaxTime, MaxLoads} \subseteq Nat
  /\ FirstCooldown <= LastCooldown

VARIABLES
  now,         \* the clock
  entries,     \* dnsResolver.entries: the dnsCacheEntry of each key, or None
  lru,         \* dnsResolver.lru: keys, the most recently used first
  generation,  \* dnsResolver.generation
  flights,     \* the loads that run; one that is done leaves the table
  lookup,      \* the lookup of each Client
  known,       \* Client.dnsGeneration
  pending,     \* Client.pendingDNSFlights, without the closed channels
  life         \* of each Client: "open", "closing" (Close was called), "closed"

vars == <<now, entries, lru, generation, flights, lookup, known, pending, life>>

cache == <<entries, lru>>

\* How one attempt of a load can fail: no response, or status 429 or 5xx;
\* any other status, or a body that is too large, not JSON or without a usable
\* host; the body cannot be read; the deadline passes in the pause before a retry.
Failures == {"request", "invalid", "read", "deadline"}

\* The retry result of fetchLoginEndpointCandidates.
Retried(failure) == failure = "request"

isTransientDNSResolutionError(failure) == failure # "invalid"

Running == {f \in FlightIds : flights[f] # None}

Uncached == {f \in Running : ~flights[f].cached}

NewFlight == CHOOSE f \in FlightIds \ Running : TRUE

Answer(stale, g, at) == [stale |-> stale, generation |-> g, at |-> at]

resolutionFromEntry(entry, stale) == Answer(stale, entry.generation, entry.fetchedAt)

\* The entry of a key whose first load is f.
Loading(f) == [hasValue |-> FALSE, fetchedAt |-> 0, generation |-> 0, flight |-> f,
               failures |-> 0, refreshNotBefore |-> 0, lastErr |-> None]

\* The entry after a load.
Loaded(g) == [hasValue |-> TRUE, fetchedAt |-> now, generation |-> g, flight |-> None,
              failures |-> 0, refreshNotBefore |-> 0, lastErr |-> None]

Lookup(pc, asked, since, flight, answer) ==
  [pc |-> pc, asked |-> asked, since |-> since, flight |-> flight, answer |-> answer]

\* "waiting" on a flight, whose outcome is in answer once it is done;
\* "tracking": resolveWithSettlement has returned before the flight was done.
Idle == Lookup("idle", 0, 0, None, None)

\* The lookup of c goes on.
Going(c, pc, flight, answer) == Lookup(pc, lookup[c].asked, lookup[c].since, flight, answer)

Init ==
  /\ now = 0
  /\ entries = [k \in Keys |-> None] /\ lru = <<>>
  /\ generation = 0
  /\ flights = [f \in FlightIds |-> None]
  /\ lookup = [c \in Clients |-> Idle]
  /\ known = [c \in Clients |-> 0]
  /\ pending = [c \in Clients |-> {}]
  /\ life = [c \in Clients |-> "open"]

Tick ==
  /\ now < MaxTime
  /\ now' = now + 1
  /\ UNCHANGED <<cache, generation, flights, lookup, known, pending, life>>

Cached == {k \in Keys : entries[k] # None}

Age(entry) == now - entry.fetchedAt

\* list.Remove: the list without its i-th element.
Without(s, i) == [j \in 1..(Len(s) - 1) |-> IF j < i THEN s[j] ELSE s[j + 1]]

touchLocked(k) == <<k>> \o Without(lru, CHOOSE i \in DOMAIN lru : lru[i] = k)

\* Doubles with every failure in a row, up to the limit.
dnsRefreshCooldown(failures) ==
  LET delay == FirstCooldown * 2^(failures - 1)
  IN IF delay \in 0..LastCooldown THEN delay ELSE LastCooldown

\* The entry after a load that failed.
Failed(e, transient) ==
  [hasValue |-> e.hasValue, fetchedAt |-> e.fetchedAt, generation |-> e.generation,
   flight |-> None, failures |-> e.failures + 1,
   refreshNotBefore |-> now + dnsRefreshCooldown(e.failures + 1),
   lastErr |-> IF transient THEN "transient" ELSE "permanent"]

-----------------------------------------------------------------------------
(* resolveWithSettlement, up to the unlock.  A Login asks for generation   *)
(* 0, a reconnect whose candidates are used up for one after known.        *)

\* The outcome of a lookup that needs no load is its result at once.
ReturnsAtOnce(c, answer) ==
  /\ lookup' = [lookup EXCEPT ![c] = Going(c, "returned", None, answer)]
  /\ UNCHANGED <<flights, generation>>

Looking(c) == lookup[c].pc = "look"

Fresh(entry, g) == entry.hasValue /\ Age(entry) <= FreshTTL /\ entry.generation > g

\* Bound on the loads: lookups that may still start one count as if they did.
MayLoad ==
  generation + Cardinality(Running)
    + Cardinality({c \in Clients : lookup[c].pc \in {"look", "overflow"}}) < MaxLoads

\* resolveCachedEndpointCandidates is called with a live context.
Begin(c, g) ==
  /\ life[c] = "open" /\ lookup[c].pc = "idle"
  /\ MayLoad
  /\ lookup' = [lookup EXCEPT ![c] = Lookup("look", g, now, None, None)]
  /\ UNCHANGED <<now, cache, generation, flights, known, pending, life>>

LookupFresh(c) ==
  LET k == KeyOf[c] IN
  /\ Looking(c) /\ k \in Cached
  /\ Fresh(entries[k], lookup[c].asked)
  /\ lru' = touchLocked(k)
  /\ ReturnsAtOnce(c, resolutionFromEntry(entries[k], FALSE))
  /\ UNCHANGED <<now, entries, known, pending, life>>

LookupJoins(c) ==
  LET k == KeyOf[c] IN
  /\ Looking(c) /\ k \in Cached
  /\ ~Fresh(entries[k], lookup[c].asked) /\ entries[k].flight # None
  /\ lru' = touchLocked(k)
  /\ lookup' = [lookup EXCEPT ![c] = Going(c, "waiting", entries[k].flight, None)]
  /\ UNCHANGED <<now, entries, generation, flights, known, pending, life>>

LookupThrottled(c) ==
  LET k == KeyOf[c]
      entry == entries[k]
  IN
  /\ Looking(c) /\ k \in Cached
  /\ ~Fresh(entry, lookup[c].asked) /\ entry.flight = None
  /\ now < entry.refreshNotBefore
  /\ lru' = touchLocked(k)
  /\ ReturnsAtOnce(c, IF entry.lastErr = "transient" /\ entry.hasValue /\ Age(entry) <= StaleTTL
                      THEN resolutionFromEntry(entry, TRUE) ELSE None)
  /\ UNCHANGED <<now, entries, known, pending, life>>

Launch(c, cached) ==
  /\ flights' = [flights EXCEPT ![NewFlight] =
                   [key |-> KeyOf[c], owner |-> c, cached |-> cached, attempt |-> 1]]
  /\ lookup' = [lookup EXCEPT ![c] = Going(c, "waiting", NewFlight, None)]

LookupRefreshes(c) ==
  LET k == KeyOf[c] IN
  /\ Looking(c) /\ k \in Cached
  /\ ~Fresh(entries[k], lookup[c].asked) /\ entries[k].flight = None
  /\ now >= entries[k].refreshNotBefore
  /\ lru' = touchLocked(k)
  /\ entries' = [entries EXCEPT ![k] = [@ EXCEPT !.flight = NewFlight]]
  /\ Launch(c, TRUE)
  /\ UNCHANGED <<now, generation, known, pending, life>>

\* Entries that insertLocked may evict; it takes the least recently used.
Evictable == {i \in DOMAIN lru : entries[lru[i]].flight = None}

\* Mistake: an entry is evicted although its load runs.
insertAnywhere(c) ==
  LET k == KeyOf[c] IN
  /\ Looking(c) /\ k \notin Cached
  /\ LET full == Cardinality(Cached) >= Capacity
         victim == lru[Len(lru)]
     IN /\ lru' = <<k>> \o (IF full THEN Without(lru, Len(lru)) ELSE lru)
        /\ entries' = [j \in Keys |-> IF j = k THEN Loading(NewFlight)
                                      ELSE IF full /\ j = victim THEN None ELSE entries[j]]
  /\ Launch(c, TRUE)
  /\ UNCHANGED <<now, generation, known, pending, life>>

\* insertLocked makes room if it can, and the new entry starts a load.
LookupInserts(c) ==
  LET k == KeyOf[c] IN
  /\ Looking(c) /\ k \notin Cached
  /\ \/ /\ Cardinality(Cached) < Capacity
        /\ lru' = <<k>> \o lru
        /\ entries' = [entries EXCEPT ![k] = Loading(NewFlight)]
     \/ /\ Cardinality(Cached) >= Capacity /\ Evictable # {}
        /\ LET last == CHOOSE i \in Evictable : \A j \in Evictable : j <= i
           IN /\ lru' = <<k>> \o Without(lru, last)
              /\ entries' = [entries EXCEPT ![lru[last]] = None,
                                            ![k] = Loading(NewFlight)]
  /\ Launch(c, TRUE)
  /\ UNCHANGED <<now, generation, known, pending, life>>

\* Every entry is loading: the lookup goes round the cache.
LookupOverflows(c) ==
  /\ Looking(c) /\ KeyOf[c] \notin Cached
  /\ Cardinality(Cached) >= Capacity /\ Evictable = {}
  /\ lookup' = [lookup EXCEPT ![c] = Going(c, "overflow", None, None)]
  /\ UNCHANGED <<now, cache, generation, flights, known, pending, life>>

\* resolveUncached gets a slot of overflow.
TakeSlot(c) ==
  /\ lookup[c].pc = "overflow"
  /\ Cardinality(Uncached) < Overflow
  /\ Launch(c, FALSE)
  /\ UNCHANGED <<now, cache, generation, known, pending, life>>

-----------------------------------------------------------------------------
(* The goroutine of a load, and its waiters.                               *)

\* The load f is done: close(flight.done) with this outcome, None an error.
Settle(f, answer) ==
  /\ flights' = [flights EXCEPT ![f] = None]
  /\ lookup' = [c \in Clients |->
                  IF lookup[c].flight # f THEN lookup[c]
                  ELSE IF lookup[c].pc = "waiting"
                  THEN Going(c, "settled", None, answer)
                  ELSE Going(c, lookup[c].pc, None, None)]
  /\ pending' = [c \in Clients |-> pending[c] \ {f}]
  /\ UNCHANGED <<now, lru, known, life>>

Superseded(f) == LET k == flights[f].key IN entries[k] = None \/ entries[k].flight # f

\* An attempt fails and resolveLoginEndpointCandidates makes another.
LoadRetries(f, failure) ==
  /\ f \in Running /\ Retried(failure) /\ flights[f].attempt < MaxAttempts
  /\ flights' = [flights EXCEPT ![f].attempt = @ + 1]
  /\ UNCHANGED <<now, cache, generation, lookup, known, pending, life>>

\* Mistake: the generation of the entry is counted instead of the resolver's.
loadCountsEntry(f) ==
  /\ f \in Running
  /\ LET k == flights[f].key
         g == IF entries[k] = None THEN 1 ELSE entries[k].generation + 1
     IN IF ~flights[f].cached \/ Superseded(f)
        THEN UNCHANGED <<entries, generation>> /\ Settle(f, None)
        ELSE /\ generation' = generation + 1
             /\ entries' = [entries EXCEPT ![k] = Loaded(g)]
             /\ Settle(f, Answer(FALSE, g, now))

\* The load returned endpoints: the end of runLoad, or of the goroutine of
\* resolveUncached, which stores nothing.
LoadSucceeds(f) ==
  /\ f \in Running
  /\ LET k == flights[f].key IN
     IF flights[f].cached /\ Superseded(f)
     THEN UNCHANGED <<entries, generation>> /\ Settle(f, None)
     ELSE /\ generation' = generation + 1
          /\ entries' = IF ~flights[f].cached THEN entries
                        ELSE [entries EXCEPT ![k] = Loaded(generation + 1)]
          /\ Settle(f, Answer(FALSE, generation + 1, now))

\* A failure that ends the load.
Final(f, failure) ==
  IF Retried(failure) THEN flights[f].attempt = MaxAttempts
  ELSE failure = "deadline" => flights[f].attempt < MaxAttempts

\* Mistake: the flight stays in the entry when the load fails.
loadFailsInPlace(f, failure) ==
  /\ f \in Running /\ Final(f, failure)
  /\ UNCHANGED <<entries, generation>>
  /\ Settle(f, None)

\* Mistake: the age of the value is not looked at when the load fails.
loadFailsToAnyValue(f, failure) ==
  /\ f \in Running /\ Final(f, failure)
  /\ LET k == flights[f].key
         e == entries[k]
     IN IF ~flights[f].cached \/ Superseded(f)
        THEN UNCHANGED entries /\ Settle(f, None)
        ELSE /\ entries' = [entries EXCEPT ![k] = [e EXCEPT !.flight = None]]
             /\ Settle(f, IF e.hasValue THEN resolutionFromEntry(e, TRUE) ELSE None)
  /\ UNCHANGED generation

\* The load failed: a cooldown begins, and a transient failure may be
\* answered with the value the entry has.
LoadFails(f, failure) ==
  /\ f \in Running /\ Final(f, failure)
  /\ LET k == flights[f].key
         e == entries[k]
         transient == isTransientDNSResolutionError(failure)
     IN IF ~flights[f].cached \/ Superseded(f)
        THEN UNCHANGED entries /\ Settle(f, None)
        ELSE /\ entries' = [entries EXCEPT ![k] = Failed(e, transient)]
             /\ Settle(f, IF transient /\ e.hasValue /\ Age(e) <= StaleTTL
                          THEN resolutionFromEntry(e, TRUE) ELSE None)
  /\ UNCHANGED generation

\* The caller of the lookup takes its outcome.
Return(c) ==
  /\ lookup[c].pc \in {"returned", "settled"}
  /\ lookup' = [lookup EXCEPT ![c] = Idle]
  /\ known' = IF lookup[c].answer = None \/ life[c] # "open" THEN known
              ELSE [known EXCEPT ![c] = lookup[c].answer.generation]
  /\ UNCHANGED <<now, cache, generation, flights, pending, life>>

\* The context of a lookup ends while it waits (waitDNSFlight, or the select
\* of resolveUncached).
Abandon(c) ==
  /\ lookup[c].pc \in {"waiting", "settled", "overflow"}
  /\ lookup' = [lookup EXCEPT ![c] =
                  IF lookup[c].pc = "waiting"
                  THEN Lookup("tracking", 0, 0, lookup[c].flight, None) ELSE Idle]
  /\ UNCHANGED <<now, cache, generation, flights, known, pending, life>>

\* Mistake: only a lookup that failed before its load began is remembered.
trackNothing(c) ==
  /\ lookup[c].pc = "tracking"
  /\ lookup' = [lookup EXCEPT ![c] = Idle]
  /\ UNCHANGED <<now, cache, generation, flights, known, pending, life>>

\* trackDNSFlight: a flight that is not done is remembered for Close.
trackDNSFlight(c) ==
  /\ lookup[c].pc = "tracking"
  /\ lookup' = [lookup EXCEPT ![c] = Idle]
  /\ pending' = [pending EXCEPT ![c] = @ \cup ({lookup[c].flight} \ {None})]
  /\ UNCHANGED <<now, cache, generation, flights, known, life>>

Close(c) ==
  /\ life[c] = "open"
  /\ life' = [life EXCEPT ![c] = "closing"]
  /\ known' = [known EXCEPT ![c] = 0]
  /\ UNCHANGED <<now, cache, generation, flights, lookup, pending>>

\* finalizeClose: the lookup, if any, has ended (connectDone), and then
\* waitPendingDNSFlights finds every flight it remembers done.
waitPendingDNSFlights(c) ==
  /\ life[c] = "closing" /\ lookup[c].pc = "idle"
  /\ pending[c] = {}
  /\ life' = [life EXCEPT ![c] = "closed"]
  /\ UNCHANGED <<now, cache, generation, flights, lookup, known, pending>>

Terminated == (\A c \in Clients : life[c] = "closed") /\ UNCHANGED vars

Look(c) ==
  \/ LookupFresh(c) \/ LookupJoins(c) \/ LookupThrottled(c)
  \/ LookupRefreshes(c) \/ LookupInserts(c) \/ LookupOverflows(c)

Load(f) ==
  \/ LoadSucceeds(f)
  \/ \E failure \in Failures : LoadRetries(f, failure) \/ LoadFails(f, failure)

Next ==
  \/ Tick
  \/ \E c \in Clients :
       \/ \E g \in {0, known[c]} : Begin(c, g)
       \/ Look(c) \/ TakeSlot(c) \/ Return(c) \/ Abandon(c) \/ trackDNSFlight(c)
       \/ Close(c) \/ waitPendingDNSFlights(c)
  \/ \E f \in FlightIds : Load(f)
  \/ Terminated

Spec == Init /\ [][Next]_vars

-----------------------------------------------------------------------------
(* Properties.                                                             *)

\* The cache never holds more than its capacity, the LRU list names exactly
\* the entries of the map, each once, and the load of an entry is the one the
\* entry names until it is done: a full cache does not evict or reload an entry
\* under its load, so no waiter is told that its flight was superseded
\* (insertLocked, touchLocked, runLoad).
CacheExact ==
  /\ Cardinality(Cached) <= Capacity
  /\ {lru[i] : i \in DOMAIN lru} = Cached /\ Len(lru) = Cardinality(Cached)
  /\ \A f \in Running : flights[f].cached => ~Superseded(f)

\* No waiter is left behind: whoever waits for a flight, a lookup that joined it at any
\* time or a Close that remembers it, waits for one that still runs, and so ends when
\* the deadline of the load does (waitDNSFlight, waitPendingDNSFlights).
WaitersHaveFlight ==
  \A c \in Clients : /\ lookup[c].pc = "waiting" => lookup[c].flight \in Running
                     /\ pending[c] \subseteq Running

Answered(c) == lookup[c].pc \in {"returned", "settled"} /\ lookup[c].answer # None

\* A refresh brings news: a caller that asks for a result after generation g
\* gets a later generation unless the answer is marked stale, even when it
\* joined a load that others had started (resolve's comment).
RefreshIsNewer ==
  \A c \in Clients : Answered(c) =>
    lookup[c].answer.stale \/ lookup[c].answer.generation > lookup[c].asked

\* What a lookup returns is never older, counted from when it was called,
\* than the time to live of its kind (freshTTL, staleTTL).
AnswerInTime ==
  \A c \in Clients : Answered(c) =>
    LET ttl == IF lookup[c].answer.stale THEN StaleTTL ELSE FreshTTL
    IN lookup[c].answer.at + ttl >= lookup[c].since

\* When Close is done, no load that calls back into the Client still runs,
\* not even one that it started and gave up on (finalizeClose).
ClosedIsQuiet == \A c \in Clients : life[c] = "closed" => \A f \in Running : flights[f].owner # c
=============================================================================
