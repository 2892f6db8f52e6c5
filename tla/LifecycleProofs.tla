-------------------------- MODULE LifecycleProofs --------------------------
(***************************************************************************)
(* A Client never has two connectionRuns at a time, what it reports of     *)
(* itself is coherent, no run is leaked, a session always has a goroutine  *)
(* to move it on, and the monitor of a run reads the error of that run,    *)
(* for every number of goroutines that call Login and Logout and every     *)
(* number of runs.                                                         *)
(*                                                                         *)
(* The argument is about who owns connectDone and who is responsible for   *)
(* the run that is not finalized: the Client, whose run it is, the owner   *)
(* that dialled it or took it off the Client, or the finalizer of Close.   *)
(* LifeInv tells the owner apart from the other goroutines: only the owner *)
(* can have a run in hand, start a session or end a Login.                 *)
(***************************************************************************)
EXTENDS Lifecycle, TLAPS

\* What a goroutine is made of.
Shape(g) ==
  g = [pc |-> g.pc, run |-> g.run, session |-> g.session, err |-> g.err, say |-> g.say]

\* A goroutine that goes on and changes a field on the way.
WithSession(g, pc, b) == [g EXCEPT !.pc = pc, !.session = b]
WithErr(g, pc, e) == [g EXCEPT !.pc = pc, !.err = e]
WithSay(g, pc, e) == [g EXCEPT !.pc = pc, !.say = e]
WithRun(g, pc, r) == [g EXCEPT !.pc = pc, !.run = r]
Dropped(g, pc, e) == [g EXCEPT !.pc = pc, !.run = None, !.err = e]

\* A goroutine with a run in hand that is not the Client's.
Holding == {"provision", "dropRun", "commit", "rejectRun", "sayGoodbye", "closeRun"}
Holds(g, r) == g.pc \in Holding /\ g.run = r

\* A goroutine that dials, will dial without a further check, or has such a run.
Attempts(g) ==
  \/ g.pc \in Holding \cup {"resolve", "dial", "failed"}
  \/ g.pc = "emit" /\ g.say.state = "Connecting"

\* A goroutine that owns connectDone.
Owns(g) ==
  \/ Attempts(g)
  \/ g.pc \in {"loginOwned", "recheck", "retry", "badSession", "logoutOwned", "release"}
  \/ g.pc = "emit" /\ g.say.state = "Connected"

SayOK(g) ==
  g.pc \in {"emit", "sayGoodbye", "closeRun"} =>
    g.say.state \in {"Connecting", "Reconnecting", "Connected", "Disconnected"}

PastMonitor(g) == g.pc \notin {"idle", "monitor"}

Settled(r) == r = None \/ (r \in Runs /\ runs[r] = "finalized")

RunStates == {"none", "open", "failed", "finalized"}

Shaped ==
  /\ proc = [p \in Procs |-> proc[p]] /\ \A p \in Procs : Shape(proc[p])
  /\ finalizer = [pc |-> finalizer.pc, run |-> finalizer.run]
  /\ runs \in [Runs -> RunStates] /\ generation \in Nat

\* The Client points to a run only while it is open and has a session, and to a
\* finalized one while it reconnects; the finalizer has one only after Close.
RunOfState ==
  /\ run # None => state \in {"LoggedIn", "Reconnecting"} /\ ~closed
  /\ state = "Reconnecting" => Settled(run)
  /\ ~closed => finalizer.run = None

LiveHasPlace ==
  \A r \in Live : run = r \/ finalizer.run = r \/ \E p \in Procs : Holds(proc[p], r)

LifeInv ==
  /\ Shaped
  /\ RunOfState
  /\ LiveHasPlace
  /\ \A r \in Runs : r > generation => runs[r] = "none"
  /\ \A r \in Runs : PastMonitor(proc[r]) => runs[r] = "finalized"
  /\ \A p \in Procs : /\ SayOK(proc[p])
                      /\ Owns(proc[p]) => connectDone = p
                      /\ Attempts(proc[p]) => Settled(run) /\ Settled(finalizer.run)

\* What the invariant is about, goroutines apart.
kept == <<closed, finalizer, generation, connectDone, runs, run, state>>

\* Runs only move on, and none is dialled.
Progress ==
  /\ runs' \in [Runs -> RunStates]
  /\ \A r \in Runs : /\ runs[r] = "finalized" => runs'[r] = "finalized"
                     /\ runs[r] = "none" <=> runs'[r] = "none"

-----------------------------------------------------------------------------
(* Lemmas *)

LEMMA LifeInit == Init => LifeInv
<1> SUFFICES ASSUME Init PROVE LifeInv
  BY ZenonT(30)
<1>1. Shape(Idle) /\ Idle.pc = "idle"
  BY ZenonT(30) DEF Shape, Idle, Goroutine
<1>2. \A p \in Procs : proc[p] = Idle
  BY ZenonT(30) DEF Init
<1>3. Shaped
  BY <1>1, <1>2, ZenonT(30) DEF Shaped, Init, RunStates
<1>4. Live = {}
  BY ZenonT(30) DEF Live, Init
<1>5. ~Owns(Idle) /\ ~Attempts(Idle) /\ SayOK(Idle) /\ ~PastMonitor(Idle)
  BY <1>1, ZenonT(30) DEF Owns, Attempts, SayOK, PastMonitor, Holding
<1> QED BY <1>2, <1>3, <1>4, <1>5, ZenonT(30) DEF LifeInv, RunOfState, LiveHasPlace, Init, Procs

\* The fields of a goroutine that goes on.
LEMMA GotoFacts ==
  ASSUME NEW g, Shape(g), NEW pc
  PROVE  LET h == [g EXCEPT !.pc = pc]
         IN Shape(h) /\ h.pc = pc /\ h.run = g.run /\ h.say = g.say
  BY SMTT(30) DEF Shape

\* And of one that changes another field on the way.
LEMMA SessionFacts ==
  ASSUME NEW g, Shape(g), NEW pc, NEW b
  PROVE  LET h == WithSession(g, pc, b)
         IN Shape(h) /\ h.pc = pc /\ h.run = g.run
<1> DEFINE i == [g EXCEPT !.pc = pc]
<1>1. Shape(i) /\ i.pc = pc /\ i.run = g.run
  BY GotoFacts, ZenonT(30)
<1>2. WithSession(g, pc, b) = [i EXCEPT !.session = b]
  BY ZenonT(30) DEF WithSession
<1> HIDE DEF i
<1> QED BY <1>1, <1>2, ZenonT(30) DEF Shape

LEMMA ErrFacts ==
  ASSUME NEW g, Shape(g), NEW pc, NEW b
  PROVE  LET h == WithErr(g, pc, b)
         IN Shape(h) /\ h.pc = pc /\ h.run = g.run
<1> DEFINE i == [g EXCEPT !.pc = pc]
<1>1. Shape(i) /\ i.pc = pc /\ i.run = g.run
  BY GotoFacts
<1>2. WithErr(g, pc, b) = [i EXCEPT !.err = b]
  BY ZenonT(30) DEF WithErr
<1> HIDE DEF i
<1> QED BY <1>1, <1>2, ZenonT(30) DEF Shape

LEMMA SayFacts ==
  ASSUME NEW g, Shape(g), NEW pc, NEW b
  PROVE  LET h == WithSay(g, pc, b)
         IN Shape(h) /\ h.pc = pc /\ h.run = g.run /\ h.say = b
<1> DEFINE i == [g EXCEPT !.pc = pc]
<1>1. Shape(i) /\ i.pc = pc /\ i.run = g.run
  BY GotoFacts
<1>2. WithSay(g, pc, b) = [i EXCEPT !.say = b]
  BY ZenonT(30) DEF WithSay
<1> HIDE DEF i
<1> QED BY <1>1, <1>2, ZenonT(30) DEF Shape

LEMMA RunFacts ==
  ASSUME NEW g, Shape(g), NEW pc, NEW b
  PROVE  LET h == WithRun(g, pc, b)
         IN Shape(h) /\ h.pc = pc /\ h.run = b
<1> DEFINE i == [g EXCEPT !.pc = pc]
<1>1. Shape(i) /\ i.pc = pc /\ i.run = g.run
  BY GotoFacts
<1>2. WithRun(g, pc, b) = [i EXCEPT !.run = b]
  BY ZenonT(30) DEF WithRun
<1> HIDE DEF i
<1> QED BY <1>1, <1>2, ZenonT(30) DEF Shape

LEMMA DroppedFacts ==
  ASSUME NEW g, Shape(g), NEW pc, NEW e
  PROVE  LET h == Dropped(g, pc, e)
         IN Shape(h) /\ h.pc = pc /\ h.run = None
<1> DEFINE i == [g EXCEPT !.pc = pc]
           k == [i EXCEPT !.run = None]
<1>1. Shape(i) /\ i.pc = pc
  BY GotoFacts, ZenonT(30)
<1>2. Dropped(g, pc, e) = [k EXCEPT !.err = e]
  BY ZenonT(30) DEF Dropped
<1> HIDE DEF i
<1>3. Shape(k) /\ k.pc = pc /\ k.run = None
  BY <1>1, SMTT(30) DEF Shape
<1> HIDE DEF k
<1> QED BY <1>2, <1>3, ZenonT(30) DEF Shape

\* What moves on is live only if it was.
LEMMA ProgressLive == ASSUME Shaped, Progress PROVE Live' \subseteq Live
<1> SUFFICES ASSUME NEW r \in Runs, runs'[r] \in {"open", "failed"}
             PROVE  runs[r] \in {"open", "failed"}
  BY ZenonT(30) DEF Live
<1>1. runs[r] \in RunStates
  BY ZenonT(30) DEF Shaped
<1> QED BY <1>1, ZenonT(30) DEF Progress, RunStates

\* The owner is the only goroutine that owns.
LEMMA OnlyOwner ==
  ASSUME LifeInv, NEW p \in Procs, connectDone = p \/ connectDone = None
  PROVE  \A q \in Procs \ {p} : ~Owns(proc[q]) /\ ~Attempts(proc[q])
<1>1. None \notin Procs
  BY LifecycleAssumption, ZenonT(30) DEF Procs, Runs
<1> QED BY <1>1, ZenonT(30) DEF LifeInv, Owns

\* A step of goroutine p, which may take connectDone if it is free, move runs on and
\* change what the Client points to.
LEMMA OneMoves ==
  ASSUME LifeInv, NEW p \in Procs, NEW g, Becomes(p, g), Shape(g), SayOK(g),
         UNCHANGED <<closed, finalizer, generation>>,
         connectDone' = connectDone \/ (connectDone = None /\ connectDone' = p),
         Progress, RunOfState',
         run' \in {run, None} \/ connectDone' = p,
         Owns(g) => connectDone' = p,
         p \in Runs /\ PastMonitor(g) => runs'[p] = "finalized",
         Attempts(g) => Settled(run)' /\ Settled(finalizer.run)',
         \A r \in Live' : run = r \/ Holds(proc[p], r) => run' = r \/ Holds(g, r)
  PROVE  LifeInv'
<1>1. /\ proc' = [q \in Procs |-> proc'[q]]
      /\ proc'[p] = g /\ \A q \in Procs \ {p} : proc'[q] = proc[q]
  BY ZenonT(30) DEF LifeInv, Shaped, Becomes
<1>2. Shaped'
  BY <1>1, ZenonT(30) DEF LifeInv, Shaped, Progress
<1>3. Live' \subseteq Live
  BY ProgressLive, ZenonT(30) DEF LifeInv
<1>4. LiveHasPlace'
  <2> SUFFICES ASSUME NEW r \in Live'
               PROVE  run' = r \/ finalizer'.run = r \/ \E q \in Procs : Holds(proc'[q], r)
    BY ZenonT(30) DEF LiveHasPlace
  <2>1. run = r \/ finalizer.run = r \/ \E q \in Procs : Holds(proc[q], r)
    BY <1>3, ZenonT(30) DEF LifeInv, LiveHasPlace
  <2> QED BY <1>1, <2>1, ZenonT(30)
<1>5. \A r \in Runs : r > generation' => runs'[r] = "none"
  BY ZenonT(30) DEF LifeInv, Progress
<1>6. \A r \in Runs : PastMonitor(proc'[r]) => runs'[r] = "finalized"
  BY <1>1, ZenonT(30) DEF LifeInv, Progress, Procs
<1>7. \A q \in Procs : SayOK(proc'[q])
  BY <1>1, ZenonT(30) DEF LifeInv
<1>8. \A q \in Procs \ {p} : Owns(proc[q]) => connectDone' = q
  BY OnlyOwner, ZenonT(30) DEF LifeInv
<1>9. \A q \in Procs \ {p} : Attempts(proc[q]) => Settled(run)' /\ Settled(finalizer.run)'
  <2> SUFFICES ASSUME NEW q \in Procs \ {p}, Attempts(proc[q])
               PROVE  Settled(run)' /\ Settled(finalizer.run)'
    BY ZenonT(30)
  <2>1. connectDone = q /\ q # None
    BY LifecycleAssumption, ZenonT(30) DEF LifeInv, Owns, Procs, Runs
  <2>2. run' \in {run, None} /\ Settled(run) /\ Settled(finalizer.run)
    BY <2>1, ZenonT(30) DEF LifeInv
  <2> QED BY <2>2, ZenonT(30) DEF Settled, Progress
<1> QED BY <1>1, <1>2, <1>4, <1>5, <1>6, <1>7, <1>8, <1>9, ZenonT(30) DEF LifeInv

\* A step of goroutine p alone.
LEMMA OneWalks ==
  ASSUME LifeInv, NEW p \in Procs, NEW g, Becomes(p, g), Shape(g), SayOK(g),
         UNCHANGED kept,
         Owns(g) => connectDone = p,
         p \in Runs /\ PastMonitor(g) => PastMonitor(proc[p]),
         Attempts(g) => Attempts(proc[p]),
         proc[p].pc \in Holding => g.pc \in Holding /\ g.run = proc[p].run
  PROVE  LifeInv'
<1> USE DEF kept
<1>1. Progress
  BY ZenonT(30) DEF LifeInv, Shaped, Progress
<1>2. RunOfState' /\ (Attempts(g) => Settled(run)' /\ Settled(finalizer.run)')
  BY ZenonT(30) DEF LifeInv, RunOfState, Settled
<1>3. p \in Runs /\ PastMonitor(g) => runs'[p] = "finalized"
  BY ZenonT(30) DEF LifeInv
<1>4. \A r \in Live' : run = r \/ Holds(proc[p], r) => run' = r \/ Holds(g, r)
  BY ZenonT(30) DEF Holds
<1> QED BY <1>1, <1>2, <1>3, <1>4, OneMoves, ZenonT(30)

\* The goroutines that start anew.
LEMMA FreshFacts ==
  /\ Shape(Idle) /\ SayOK(Idle) /\ ~Owns(Idle) /\ ~Attempts(Idle) /\ ~PastMonitor(Idle)
  /\ Idle.pc \notin Holding
  /\ \A pc \in {"signal", "release"} :
       LET g == [Idle EXCEPT !.pc = pc]
       IN /\ Shape(g) /\ SayOK(g) /\ ~Attempts(g) /\ g.pc = pc /\ g.pc \notin Holding
          /\ Owns(g) <=> pc = "release"
<1>1. Idle.pc = "idle" /\ Shape(Idle)
  BY ZenonT(30) DEF Idle, Goroutine, Shape
<1>2. ASSUME NEW pc \in {"signal", "release"}
      PROVE  Shape([Idle EXCEPT !.pc = pc]) /\ [Idle EXCEPT !.pc = pc].pc = pc
  BY <1>1, GotoFacts, ZenonT(30)
<1> QED BY <1>1, <1>2, ZenonT(30) DEF SayOK, Owns, Attempts, PastMonitor, Holding

LEMMA ReturningFacts ==
  ASSUME NEW p
  PROVE  /\ Shape(Returning(p)) /\ SayOK(Returning(p)) /\ ~Attempts(Returning(p))
         /\ Owns(Returning(p)) => connectDone = p
         /\ Returning(p).pc \notin Holding
         /\ PastMonitor(Returning(p)) => connectDone = p
  BY FreshFacts, ZenonT(30) DEF Returning

\* The kinds of walks: to the next step of the function, and back to the caller.
LEMMA GotoWalks ==
  ASSUME LifeInv, NEW p \in Procs, NEW next, NEW g, Becomes(p, g), Shape(g), g.pc = next,
         g.run = proc[p].run, UNCHANGED kept,
         next \notin {"emit", "sayGoodbye", "closeRun"},
         next \in {"loginOwned", "recheck", "retry", "badSession", "logoutOwned", "release"}
           => connectDone = p,
         p \in Runs => PastMonitor(proc[p]),
         next \in Holding \cup {"resolve", "dial", "failed"} => Attempts(proc[p]),
         proc[p].pc \in Holding => next \in Holding
  PROVE  LifeInv'
<1>1. SayOK(g) /\ (Attempts(g) => Attempts(proc[p]))
  BY ZenonT(30) DEF SayOK, Attempts
<1>2. Owns(g) => connectDone = p
  <2>1. Attempts(proc[p]) => connectDone = p
    BY ZenonT(30) DEF LifeInv, Owns
  <2> QED BY <1>1, <2>1, ZenonT(30) DEF Owns
<1> QED BY <1>1, <1>2, OneWalks, ZenonT(30)

LEMMA GoesOn ==
  ASSUME LifeInv, NEW p \in Procs, NEW next, Goto(p, next), UNCHANGED kept,
         next \notin {"emit", "sayGoodbye", "closeRun"},
         next \in {"loginOwned", "recheck", "retry", "badSession", "logoutOwned", "release"}
           => connectDone = p,
         p \in Runs => PastMonitor(proc[p]),
         next \in Holding \cup {"resolve", "dial", "failed"} => Attempts(proc[p]),
         proc[p].pc \in Holding => next \in Holding
  PROVE  LifeInv'
<1> DEFINE g == [proc[p] EXCEPT !.pc = next]
<1>1. Shape(g) /\ g.pc = next /\ g.run = proc[p].run
  BY GotoFacts, ZenonT(30) DEF LifeInv, Shaped
<1>2. Becomes(p, g)
  BY ZenonT(30) DEF Goto
<1> HIDE DEF g
<1> QED BY <1>1, <1>2, GotoWalks, ZenonT(30)

LEMMA ReturnWalks ==
  ASSUME LifeInv, NEW p \in Procs, Becomes(p, Idle) \/ Becomes(p, Returning(p)), UNCHANGED kept,
         proc[p].pc \notin Holding, p \in Runs => PastMonitor(proc[p])
  PROVE  LifeInv'
  BY FreshFacts, ReturningFacts, OneWalks, ZenonT(30)

LEMMA OwnerFacts ==
  ASSUME LifeInv, NEW p \in Procs
  PROVE  /\ Shape(proc[p])
         /\ proc[p].pc \in Holding \cup {"resolve", "dial", "failed", "loginOwned", "recheck",
              "retry", "badSession", "logoutOwned", "release"} => connectDone = p
  BY ZenonT(30) DEF LifeInv, Shaped, Owns, Attempts

-----------------------------------------------------------------------------
(* The steps of the goroutines *)

\* The steps of Login and Logout that change nothing but the goroutine.
LEMMA CallerWalks ==
  ASSUME LifeInv, NEW c \in Callers,
         \/ Call(c, "login") \/ Call(c, "logout") \/ LoginClosed(c) \/ LoginExpires(c)
         \/ LoginRefused(c) \/ LogoutClosed(c) \/ LogoutPark(c)
  PROVE  LifeInv'
<1>1. c \in Procs /\ c \notin Runs /\ Shape(proc[c])
  BY LifecycleAssumption, OwnerFacts, ZenonT(30) DEF Procs, Runs
<1>2. UNCHANGED kept
  BY ZenonT(30) DEF Call, LoginClosed, LoginExpires, LoginRefused, LogoutClosed, LogoutPark,
         OnlyProcChanges, kept, client, network, login
<1>3. CASE LoginClosed(c) \/ LoginExpires(c) \/ LogoutClosed(c)
  BY <1>1, <1>2, <1>3, ReturnWalks, ZenonT(30)
     DEF LoginClosed, LoginExpires, LogoutClosed, Return, At, Holding
<1>4. ASSUME NEW operation \in {"login", "logout"}, Call(c, operation) PROVE LifeInv'
  BY <1>1, <1>2, <1>4, GoesOn, ZenonT(30) DEF Call, At, Holding
<1>5. CASE LoginRefused(c)
  <2>1. proc[c].pc = "loginOwned" /\ Goto(c, "release")
    BY <1>5, ZenonT(30) DEF LoginRefused, At
  <2> QED BY <1>1, <1>2, <2>1, OwnerFacts, GoesOn, ZenonT(30) DEF Holding
<1>6. CASE LogoutPark(c)
  <2>1. PICK n : Becomes(c, WithSession(proc[c], "logoutWait", n))
    BY <1>6, ZenonT(30) DEF LogoutPark, WithSession
  <2>2. LET g == WithSession(proc[c], "logoutWait", n)
        IN Shape(g) /\ g.pc = "logoutWait" /\ g.run = proc[c].run
    BY <1>1, SessionFacts, SMTT(30)
  <2>3. proc[c].pc = "logout"
    BY <1>6, ZenonT(30) DEF LogoutPark, At
  <2> QED BY <1>1, <1>2, <2>1, <2>2, <2>3, GotoWalks, ZenonT(30) DEF Holding
<1> QED BY <1>3, <1>4, <1>5, <1>6, ZenonT(30)

\* The steps of an attempt that change nothing but the goroutine.
LEMMA AttemptWalks ==
  ASSUME LifeInv, NEW p \in Procs,
         \/ Resolve(p) \/ Provisioned(p) \/ Signal(p)
         \/ \E err \in {"network", "terminal"} : AttemptFails(p, err)
  PROVE  LifeInv'
<1>1. UNCHANGED kept /\ Shape(proc[p])
  BY OwnerFacts, ZenonT(30) DEF Resolve, Provisioned, Signal, AttemptFails, OnlyProcChanges, kept, client,
                    network, login
<1>2. CASE Resolve(p)
  BY <1>1, <1>2, GoesOn, ZenonT(30) DEF Resolve, At, Attempts, Holding, PastMonitor
<1>3. CASE Provisioned(p)
  BY <1>1, <1>3, GoesOn, ZenonT(30) DEF Provisioned, At, Attempts, Holding, PastMonitor
<1>4. CASE Signal(p)
  BY <1>1, <1>4, ReturnWalks, ZenonT(30) DEF Signal, At, Holding, PastMonitor
<1>5. ASSUME NEW err, AttemptFails(p, err) PROVE LifeInv'
  <2>1. Becomes(p, WithErr(proc[p], "failed", err)) /\ proc[p].pc \in {"resolve", "dial"}
    BY <1>5, ZenonT(30) DEF AttemptFails, WithErr
  <2>2. LET g == WithErr(proc[p], "failed", err)
        IN Shape(g) /\ g.pc = "failed" /\ g.run = proc[p].run
    BY <1>1, ErrFacts, SMTT(30)
  <2> QED BY <1>1, <2>1, <2>2, GotoWalks, ZenonT(30) DEF Attempts, Holding, PastMonitor
<1> QED BY <1>2, <1>3, <1>4, <1>5, ZenonT(30)

\* The steps of monitor and reconnect that change nothing but the goroutine.
LEMMA MonitorWalks ==
  ASSUME LifeInv, NEW r \in Runs,
         \/ MonitorDecides(r) \/ Backoff(r) \/ ReconnectFails(r)
         \/ \E next \in {"backoff", "badRedirect"} : Plan(r, next)
  PROVE  LifeInv'
<1>1. r \in Procs /\ UNCHANGED kept /\ Shape(proc[r])
  BY OwnerFacts, ZenonT(30) DEF MonitorDecides, Backoff, ReconnectFails, Plan, OnlyProcChanges, kept, client,
                    network, login, Procs
<1>2. CASE MonitorDecides(r)
  <2>1. proc[r].pc = "decide" /\ PastMonitor(proc[r])
    BY <1>2, ZenonT(30) DEF MonitorDecides, At, PastMonitor
  <2>2. CASE Return(r)
    BY <1>1, <2>1, <2>2, ReturnWalks, ZenonT(30) DEF Return, Holding
  <2>3. CASE ~Return(r)
    <3>1. PICK next \in {"terminal", "reconnect"} : Becomes(r, WithErr(proc[r], next, lastErr))
      BY <1>2, <2>3, Zenon DEF MonitorDecides, WithErr
    <3>2. LET g == WithErr(proc[r], next, lastErr)
          IN Shape(g) /\ g.pc = next /\ g.run = proc[r].run
      BY <1>1, ErrFacts, SMTT(30)
    <3> QED BY <1>1, <2>1, <3>1, <3>2, GotoWalks, ZenonT(30) DEF Holding
  <2> QED BY <2>2, <2>3, ZenonT(30)
<1>3. CASE Backoff(r)
  <2>1. proc[r].pc = "backoff" /\ PastMonitor(proc[r]) /\ (Goto(r, "begin") \/ Becomes(r, Idle))
    BY <1>3, ZenonT(30) DEF Backoff, At, PastMonitor, Return
  <2> QED BY <1>1, <2>1, ReturnWalks, GoesOn, ZenonT(30) DEF Holding
<1>4. CASE ReconnectFails(r)
  <2>1. PICK next \in {"release", "badSession", "retry"} : Goto(r, next)
    BY <1>4, ZenonT(30) DEF ReconnectFails
  <2>2. proc[r].pc = "failed" /\ PastMonitor(proc[r]) /\ connectDone = r
    BY <1>1, <1>4, OwnerFacts, ZenonT(30) DEF ReconnectFails, At, PastMonitor
  <2> QED BY <1>1, <2>1, <2>2, GoesOn, ZenonT(30) DEF Holding
<1>5. ASSUME NEW next \in {"backoff", "badRedirect"}, Plan(r, next) PROVE LifeInv'
  BY <1>1, <1>5, GoesOn, ZenonT(30) DEF Plan, At, Holding, PastMonitor
<1> QED BY <1>2, <1>3, <1>4, <1>5, ZenonT(30)

\* recordTerminalForRunSession, once the run the Client points to is finalized.
LEMMA RecordSteps ==
  ASSUME LifeInv, NEW p \in Procs, NEW recorded \in BOOLEAN, NEW err,
         IF recorded THEN RecordTerminal(err) ELSE UNCHANGED client,
         AfterRecord(p, recorded), UNCHANGED <<connectDone, network, finalizer, callback>>,
         proc[p].pc \notin Holding, p \in Runs => PastMonitor(proc[p]),
         recorded => Settled(run)
  PROVE  LifeInv'
<1>1. CASE ~recorded
  <2>1. UNCHANGED kept
    BY <1>1, ZenonT(30) DEF kept, client, network, login
  <2>2. Becomes(p, Returning(p))
    BY <1>1, ZenonT(30) DEF AfterRecord
  <2> QED BY <2>1, <2>2, ReturnWalks, ZenonT(30)
<1>2. CASE recorded
  <2>1. /\ run' = None /\ state' = "Logout" /\ UNCHANGED <<closed, finalizer, generation>>
        /\ UNCHANGED <<connectDone, runs>>
    BY <1>2, ZenonT(30) DEF RecordTerminal, network
  <2>2. PICK g : Becomes(p, g) /\ g \in {[Idle EXCEPT !.pc = "signal"], Returning(p)}
    BY <1>2, ZenonT(30) DEF AfterRecord
  <2>3. Shape(g) /\ SayOK(g) /\ ~Attempts(g) /\ (Owns(g) => connectDone' = p)
    BY <2>1, <2>2, FreshFacts, ReturningFacts, ZenonT(30)
  <2>4. Progress /\ RunOfState'
    BY <2>1, ZenonT(30) DEF LifeInv, Shaped, Progress, RunOfState
  <2>5. p \in Runs => runs'[p] = "finalized"
    BY <2>1, ZenonT(30) DEF LifeInv
  <2>6. \A r \in Live' : run # r /\ ~Holds(proc[p], r)
    BY <1>2, <2>1, LifecycleAssumption, ZenonT(30) DEF Live, Settled, Holds, Runs
  <2> QED BY <2>1, <2>2, <2>3, <2>4, <2>5, <2>6, OneMoves, ZenonT(30)
<1> QED BY <1>1, <1>2, ZenonT(30)

\* The four ends of a session that go through it.
LEMMA TerminalSteps ==
  ASSUME LifeInv, NEW p \in Procs,
         \/ LoginFails(p)
         \/ p \in Runs /\ (MonitorTerminal(p) \/ BadRedirect(p) \/ ReconnectTerminal(p))
  PROVE  LifeInv'
<1>1. CASE LoginFails(p)
  <2>1. Settled(run)
    BY <1>1, ZenonT(30) DEF LoginFails, At, LifeInv, Attempts
  <2>2. proc[p].pc \notin Holding /\ PastMonitor(proc[p])
    BY <1>1, ZenonT(30) DEF LoginFails, At, PastMonitor, Holding
  <2>3. IF ~closed THEN RecordTerminal(proc[p].err) ELSE UNCHANGED client
    BY <1>1, ZenonT(30) DEF LoginFails
  <2>4. AfterRecord(p, ~closed) /\ UNCHANGED <<connectDone, network, finalizer, callback>>
    BY <1>1, ZenonT(30) DEF LoginFails
  <2> QED BY <2>1, <2>2, <2>3, <2>4, RecordSteps, ZenonT(30)
<1>2. ASSUME p \in Runs, PastMonitor(proc[p]), proc[p].pc \notin Holding, NEW recorded \in BOOLEAN,
             recorded => run = p, NEW err,
             IF recorded THEN RecordTerminal(err) ELSE UNCHANGED client,
             AfterRecord(p, recorded), UNCHANGED <<connectDone, network, finalizer, callback>>
      PROVE  LifeInv'
  <2>1. recorded => Settled(run)
    BY <1>2, ZenonT(30) DEF LifeInv, Settled
  <2> QED BY <1>2, <2>1, RecordSteps, ZenonT(30)
<1>3. CASE p \in Runs /\ MonitorTerminal(p)
  <2> DEFINE recorded == ~closed /\ run = p
  <2>1. PastMonitor(proc[p]) /\ proc[p].pc \notin Holding
    BY <1>3, ZenonT(30) DEF MonitorTerminal, At, PastMonitor, Holding
  <2>2. IF recorded THEN RecordTerminal(proc[p].err) ELSE UNCHANGED client
    BY <1>3, ZenonT(30) DEF MonitorTerminal
  <2>3. AfterRecord(p, recorded) /\ UNCHANGED <<connectDone, network, finalizer, callback>>
    BY <1>3, ZenonT(30) DEF MonitorTerminal
  <2>4. recorded \in BOOLEAN /\ (recorded => run = p)
    BY ZenonT(30)
  <2> HIDE DEF recorded
  <2> QED BY <1>2, <1>3, <2>1, <2>2, <2>3, <2>4, ZenonT(30)
<1>4. ASSUME p \in Runs, PastMonitor(proc[p]), proc[p].pc \notin Holding, NEW err,
             RecordTerminalForSession(p, err)
      PROVE  LifeInv'
  <2> DEFINE recorded == ~closed /\ run = p /\ SessionIsCurrent(proc[p].session)
  <2>1. IF recorded THEN RecordTerminal(err) ELSE UNCHANGED client
    BY <1>4, ZenonT(30) DEF RecordTerminalForSession
  <2>2. AfterRecord(p, recorded) /\ UNCHANGED <<connectDone, network, finalizer, callback>>
    BY <1>4, ZenonT(30) DEF RecordTerminalForSession
  <2>3. recorded \in BOOLEAN /\ (recorded => run = p)
    BY ZenonT(30)
  <2> HIDE DEF recorded
  <2> QED BY <1>2, <1>4, <2>1, <2>2, <2>3, ZenonT(30)
<1>5. CASE p \in Runs /\ (BadRedirect(p) \/ ReconnectTerminal(p))
  <2>1. PastMonitor(proc[p]) /\ proc[p].pc \notin Holding
    BY <1>5, ZenonT(30) DEF BadRedirect, ReconnectTerminal, At, PastMonitor, Holding
  <2> QED BY <1>4, <1>5, <2>1, ZenonT(30) DEF BadRedirect, ReconnectTerminal
<1> QED BY <1>1, <1>3, <1>5, ZenonT(30)

\* fail and the wait for a run only move it on.
LEMMA FailProgress ==
  ASSUME LifeInv, NEW r, NEW err, Fail(r, err)
  PROVE  Progress
  BY ZenonT(30) DEF LifeInv, Shaped, Fail, Progress, RunStates

LEMMA FinalizeProgress ==
  ASSUME LifeInv, NEW r, Finalize(r)
  PROVE  Progress /\ r \notin Live' /\ (r \in Runs => runs'[r] = "finalized")
  BY ZenonT(30) DEF LifeInv, Shaped, Finalize, Progress, RunStates, Live

\* What holds of the Client still holds when runs move on.
LEMMA StaysSettled ==
  ASSUME LifeInv, Progress, UNCHANGED <<closed, state, run, finalizer>>
  PROVE  /\ RunOfState'
         /\ Settled(run) => Settled(run)'
         /\ Settled(finalizer.run) => Settled(finalizer.run)'
  BY ZenonT(30) DEF LifeInv, RunOfState, Settled, Progress

\* A goroutine fails the run it has in hand.
LEMMA FailSteps ==
  ASSUME LifeInv, NEW p \in Procs, NEW g, Becomes(p, g), Shape(g), SayOK(g),
         NEW err, Fail(proc[p].run, err), proc[p].pc \in Holding,
         g.pc \in Holding, g.run = proc[p].run,
         UNCHANGED <<closed, login, connectDone, generation, finalizer>>
  PROVE  LifeInv'
<1>1. Progress /\ RunOfState' /\ UNCHANGED run
  BY FailProgress, StaysSettled, ZenonT(30) DEF login
<1>2. connectDone' = p
  BY OwnerFacts, ZenonT(30)
<1>3. Settled(run)' /\ Settled(finalizer.run)'
  BY <1>1, StaysSettled, ZenonT(30) DEF login, LifeInv, Attempts
<1>4. PastMonitor(proc[p])
  BY ZenonT(30) DEF PastMonitor, Holding
<1>5. p \in Runs => runs'[p] = "finalized"
  BY <1>1, <1>4, ZenonT(30) DEF LifeInv, Progress
<1>6. \A r \in Live' : run = r \/ Holds(proc[p], r) => run' = r \/ Holds(g, r)
  BY <1>1, ZenonT(30) DEF Holds
<1> QED BY <1>1, <1>2, <1>3, <1>5, <1>6, OneMoves, ZenonT(30)

\* A goroutine waits for the end of the run it has in hand.
LEMMA FinalizeSteps ==
  ASSUME LifeInv, NEW p \in Procs, NEW g, Becomes(p, g), Shape(g), SayOK(g),
         Finalize(proc[p].run), proc[p].pc \in Holding,
         UNCHANGED <<closed, login, connectDone, generation, finalizer>>
  PROVE  LifeInv'
<1>1. Progress /\ RunOfState' /\ UNCHANGED run
  BY FinalizeProgress, StaysSettled, ZenonT(30) DEF login
<1>2. connectDone' = p
  BY OwnerFacts, ZenonT(30)
<1>3. Settled(run)' /\ Settled(finalizer.run)'
  BY <1>1, StaysSettled, ZenonT(30) DEF login, LifeInv, Attempts
<1>4. PastMonitor(proc[p])
  BY ZenonT(30) DEF PastMonitor, Holding
<1>5. p \in Runs => runs'[p] = "finalized"
  BY <1>1, <1>4, ZenonT(30) DEF LifeInv, Progress
<1>6. \A r \in Live' : run = r \/ Holds(proc[p], r) => run' = r \/ Holds(g, r)
  BY <1>1, FinalizeProgress, ZenonT(30) DEF Holds
<1> QED BY <1>1, <1>2, <1>3, <1>5, <1>6, OneMoves, ZenonT(30)

\* The Client takes the run a goroutine has in hand.
LEMMA Installs ==
  ASSUME LifeInv, NEW p \in Procs, proc[p].pc = "commit", ~closed, Install(p)
  PROVE  LifeInv'
<1> DEFINE e == Event("Connected", callbackEpoch, NextChange)
           g == WithSay(proc[p], "emit", e)
<1>1. Becomes(p, g)
  BY ZenonT(30) DEF Install, WithSay
<1>2. Shape(g) /\ g.pc = "emit" /\ g.say = e /\ e.state = "Connected"
  BY OwnerFacts, SayFacts, SMTT(30) DEF Event
<1> HIDE DEF g, e
<1>3. SayOK(g) /\ ~Attempts(g)
  BY <1>2, ZenonT(30) DEF SayOK, Attempts, Holding
<1>4. /\ run' = proc[p].run /\ state' = "LoggedIn" /\ UNCHANGED <<closed, finalizer, generation>>
      /\ UNCHANGED <<connectDone, runs>>
  BY ZenonT(30) DEF Install, network
<1>5. connectDone' = p /\ Settled(run)
  BY <1>4, OwnerFacts, ZenonT(30) DEF LifeInv, Attempts, Holding
<1>6. Progress /\ RunOfState'
  BY <1>4, ZenonT(30) DEF LifeInv, Shaped, Progress, RunOfState
<1>7. p \in Runs => runs'[p] = "finalized"
  BY <1>4, ZenonT(30) DEF LifeInv, PastMonitor
<1>8. \A r \in Live' : run = r \/ Holds(proc[p], r) => run' = r
  BY <1>4, <1>5, LifecycleAssumption, ZenonT(30) DEF Live, Settled, Holds, Runs
<1> QED BY <1>1, <1>2, <1>3, <1>4, <1>5, <1>6, <1>7, <1>8, OneMoves, ZenonT(30)

\* The run that may not be installed.
LEMMA Refuses ==
  ASSUME LifeInv, NEW p \in Procs, proc[p].pc = "commit", Refuse(p)
  PROVE  LifeInv'
<1> DEFINE g == [proc[p] EXCEPT !.pc = "rejectRun"]
<1>1. Becomes(p, g) /\ Fail(proc[p].run, "ended")
  BY ZenonT(30) DEF Refuse, Goto
<1>2. Shape(g) /\ g.pc = "rejectRun" /\ g.run = proc[p].run
  BY OwnerFacts, GotoFacts, ZenonT(30)
<1> HIDE DEF g
<1>3. SayOK(g)
  BY <1>2, ZenonT(30) DEF SayOK
<1>4. UNCHANGED <<closed, login, connectDone, generation, finalizer>>
  BY ZenonT(30) DEF Refuse
<1> QED BY <1>1, <1>2, <1>3, <1>4, FailSteps, ZenonT(30) DEF Holding

LEMMA Commits ==
  ASSUME LifeInv, NEW p \in Procs, LoginCommit(p) \/ ReconnectCommit(p)
  PROVE  LifeInv'
<1>1. proc[p].pc = "commit"
  BY ZenonT(30) DEF LoginCommit, ReconnectCommit, At
<1>2. Refuse(p) \/ (~closed /\ Install(p))
  BY ZenonT(30) DEF LoginCommit, ReconnectCommit, StillReconnecting
<1> QED BY <1>1, <1>2, Refuses, Installs, ZenonT(30)

\* The steps that fail a run or wait for its end.
LEMMA RunSteps ==
  ASSUME LifeInv, NEW p \in Procs,
         \/ \E err \in {"network", "redirect", "terminal"} : ProvisionFails(p, err)
         \/ \E next \in {"dial", "failed"} : DropRun(p, next)
         \/ RejectRun(p) \/ SayGoodbye(p) \/ CloseRun(p)
  PROVE  LifeInv'
<1>1. Shape(proc[p]) /\ SayOK(proc[p])
  BY ZenonT(30) DEF LifeInv, Shaped
<1>2. UNCHANGED <<closed, login, connectDone, generation, finalizer>>
  BY ZenonT(30) DEF ProvisionFails, DropRun, RejectRun, SayGoodbye, CloseRun, client
<1>3. ASSUME NEW err, ProvisionFails(p, err) PROVE LifeInv'
  <2> DEFINE g == WithErr(proc[p], "dropRun", err)
  <2>1. Becomes(p, g)
    BY <1>3, ZenonT(30) DEF ProvisionFails, WithErr
  <2>2. Fail(proc[p].run, err) /\ proc[p].pc = "provision"
    BY <1>3, ZenonT(30) DEF ProvisionFails, At
  <2>3. Shape(g) /\ g.pc = "dropRun" /\ g.run = proc[p].run
    BY <1>1, ErrFacts, SMTT(30)
  <2> HIDE DEF g
  <2>4. SayOK(g)
    BY <2>3, ZenonT(30) DEF SayOK
  <2> QED BY <1>2, <2>1, <2>2, <2>3, <2>4, FailSteps, ZenonT(30) DEF Holding
<1>4. ASSUME NEW next \in {"dial", "failed"}, DropRun(p, next) PROVE LifeInv'
  <2>1. PICK e : Becomes(p, Dropped(proc[p], next, e))
    BY <1>4, Zenon DEF DropRun, Dropped
  <2> DEFINE g == Dropped(proc[p], next, e)
  <2>2. Finalize(proc[p].run) /\ proc[p].pc = "dropRun"
    BY <1>4, ZenonT(30) DEF DropRun, At
  <2>3. Becomes(p, g) /\ Shape(g) /\ g.pc = next
    BY <1>1, <2>1, DroppedFacts, ZenonT(30)
  <2> HIDE DEF g
  <2>4. SayOK(g)
    BY <2>3, ZenonT(30) DEF SayOK
  <2> QED BY <1>2, <2>2, <2>3, <2>4, FinalizeSteps, ZenonT(30) DEF Holding
<1>5. CASE RejectRun(p)
  <2> DEFINE g == [proc[p] EXCEPT !.pc = "release"]
  <2>1. Becomes(p, g) /\ Finalize(proc[p].run) /\ proc[p].pc = "rejectRun"
    BY <1>5, ZenonT(30) DEF RejectRun, Goto, At
  <2>2. Shape(g) /\ g.pc = "release"
    BY <1>1, GotoFacts, ZenonT(30)
  <2> HIDE DEF g
  <2>3. SayOK(g)
    BY <2>2, ZenonT(30) DEF SayOK
  <2> QED BY <1>2, <2>1, <2>2, <2>3, FinalizeSteps, ZenonT(30) DEF Holding
<1>6. CASE SayGoodbye(p)
  <2> DEFINE g == [proc[p] EXCEPT !.pc = "closeRun"]
  <2>1. Becomes(p, g) /\ Fail(proc[p].run, "ended") /\ proc[p].pc = "sayGoodbye"
    BY <1>6, ZenonT(30) DEF SayGoodbye, Goto, At
  <2>2. Shape(g) /\ g.pc = "closeRun" /\ g.run = proc[p].run /\ g.say = proc[p].say
    BY <1>1, GotoFacts, ZenonT(30)
  <2> HIDE DEF g
  <2>3. SayOK(g)
    BY <1>1, <2>1, <2>2, ZenonT(30) DEF SayOK
  <2> QED BY <1>2, <2>1, <2>2, <2>3, FailSteps, ZenonT(30) DEF Holding
<1>7. CASE CloseRun(p)
  <2> DEFINE g == [proc[p] EXCEPT !.pc = "emit"]
  <2>1. Becomes(p, g) /\ Finalize(proc[p].run) /\ proc[p].pc = "closeRun"
    BY <1>7, ZenonT(30) DEF CloseRun, Goto, At
  <2>2. Shape(g) /\ g.pc = "emit" /\ g.say = proc[p].say
    BY <1>1, GotoFacts, ZenonT(30)
  <2> HIDE DEF g
  <2>3. SayOK(g)
    BY <1>1, <2>1, <2>2, ZenonT(30) DEF SayOK
  <2> QED BY <1>2, <2>1, <2>2, <2>3, FinalizeSteps, ZenonT(30) DEF Holding
<1> QED BY <1>3, <1>4, <1>5, <1>6, <1>7, ZenonT(30)

LEMMA MonitorFinalizesStep ==
  ASSUME LifeInv, NEW r \in Runs, MonitorFinalizes(r)
  PROVE  LifeInv'
<1> DEFINE g == [proc[r] EXCEPT !.pc = "decide"]
<1>1. /\ r \in Procs /\ Becomes(r, g) /\ Finalize(r) /\ proc[r].pc = "monitor"
      /\ UNCHANGED <<closed, login, connectDone, generation, finalizer>>
  BY ZenonT(30) DEF MonitorFinalizes, Goto, At, client, Procs
<1>2. Shape(g) /\ g.pc = "decide"
  BY <1>1, OwnerFacts, GotoFacts, ZenonT(30)
<1> HIDE DEF g
<1>3. SayOK(g) /\ ~Owns(g) /\ ~Attempts(g)
  BY <1>2, ZenonT(30) DEF SayOK, Owns, Attempts, Holding
<1>4. Progress /\ runs'[r] = "finalized" /\ UNCHANGED run
  BY <1>1, FinalizeProgress, ZenonT(30) DEF login
<1>5. RunOfState'
  BY <1>1, <1>4, StaysSettled, ZenonT(30) DEF login
<1>6. \A s \in Live' : run = s \/ Holds(proc[r], s) => run' = s
  BY <1>1, <1>4, ZenonT(30) DEF Holds, Holding
<1> QED BY <1>1, <1>2, <1>3, <1>4, <1>5, <1>6, OneMoves, ZenonT(30)

\* A step that leaves every run as it is.
LEMMA RunsStay ==
  ASSUME LifeInv, UNCHANGED runs
  PROVE  Progress
  BY ZenonT(30) DEF LifeInv, Shaped, Progress

\* beginConnect and beginLogout with the token free.
LEMMA TakesToken ==
  ASSUME LifeInv, NEW p \in Procs, NEW next \in {"loginOwned", "recheck", "logoutOwned"},
         Goto(p, next), connectDone = None, connectDone' = p, proc[p].pc \notin Holding,
         p \in Runs => PastMonitor(proc[p]),
         UNCHANGED <<closed, finalizer, generation, runs, run, state>>
  PROVE  LifeInv'
<1> DEFINE g == [proc[p] EXCEPT !.pc = next]
<1>1. Becomes(p, g)
  BY ZenonT(30) DEF Goto
<1>2. Shape(g) /\ g.pc = next
  BY OwnerFacts, GotoFacts, ZenonT(30)
<1> HIDE DEF g
<1>3. SayOK(g) /\ ~Attempts(g)
  BY <1>2, ZenonT(30) DEF SayOK, Attempts, Holding
<1>4. Progress /\ RunOfState' /\ (p \in Runs => runs'[p] = "finalized")
  BY RunsStay, StaysSettled, ZenonT(30) DEF LifeInv
<1>5. \A r \in Live' : run = r \/ Holds(proc[p], r) => run' = r \/ Holds(g, r)
  BY ZenonT(30) DEF Holds
<1> QED BY <1>1, <1>2, <1>3, <1>4, <1>5, OneMoves, ZenonT(30)

LEMMA TokenSteps ==
  ASSUME LifeInv, NEW p \in Procs,
         \/ p \in Callers /\ (LoginBegin(p) \/ LogoutBegin(p))
         \/ p \in Runs /\ ReconnectBegin(p)
  PROVE  LifeInv'
<1>1. UNCHANGED <<closed, finalizer, generation, runs, run, state>>
  BY ZenonT(30) DEF LoginBegin, LogoutBegin, ReconnectBegin, client, network, login
<1>2. Callers \cap Runs = {}
  BY LifecycleAssumption, ZenonT(30) DEF Runs
<1>3. CASE p \in Callers /\ (LoginBegin(p) \/ LogoutBegin(p))
  BY <1>1, <1>2, <1>3, TakesToken, ZenonT(30) DEF LoginBegin, LogoutBegin, At, Holding
<1>4. CASE p \in Runs /\ ReconnectBegin(p)
  <2>1. PastMonitor(proc[p]) /\ proc[p].pc \notin Holding
    BY <1>4, ZenonT(30) DEF ReconnectBegin, At, PastMonitor, Holding
  <2>2. CASE Becomes(p, Idle) /\ UNCHANGED connectDone
    BY <1>1, <2>1, <2>2, ReturnWalks, ZenonT(30) DEF kept
  <2>3. CASE Goto(p, "recheck") /\ connectDone = None /\ connectDone' = p
    BY <1>1, <2>1, <2>3, TakesToken, ZenonT(30)
  <2> QED BY <1>4, <2>2, <2>3, ZenonT(30) DEF ReconnectBegin, Return
<1> QED BY <1>3, <1>4, ZenonT(30)

\* Login starts.
LEMMA LoginStarts ==
  ASSUME LifeInv, NEW c \in Callers, LoginStart(c)
  PROVE  LifeInv'
<1> DEFINE e == Event("Connecting", callbackEpoch, NextChange)
           g == Goroutine("emit", None, 0, "ended", e)
<1>1. c \in Procs /\ c \notin Runs
  BY LifecycleAssumption, ZenonT(30) DEF Procs, Runs
<1>2. Shape(g) /\ g.pc = "emit" /\ g.say = e /\ e.state = "Connecting"
  BY ZenonT(30) DEF Shape, Goroutine, Event
<1>3. /\ Becomes(c, g) /\ proc[c].pc = "loginOwned" /\ ~closed /\ state = "Logout"
      /\ state' = "LoggingIn"
      /\ UNCHANGED <<closed, run, connectDone, generation, runs, finalizer>>
  BY ZenonT(30) DEF LoginStart, At, network
<1> HIDE DEF g, e
<1>4. connectDone' = c
  BY <1>1, <1>3, OwnerFacts, ZenonT(30)
<1>5. run = None /\ finalizer.run = None
  BY <1>3, ZenonT(30) DEF LifeInv, RunOfState
<1>6. SayOK(g)
  BY <1>2, ZenonT(30) DEF SayOK
<1>7. Progress /\ RunOfState' /\ Settled(run)' /\ Settled(finalizer.run)'
  BY <1>3, <1>5, RunsStay, ZenonT(30) DEF RunOfState, Settled
<1>8. \A r \in Live' : run = r \/ Holds(proc[c], r) => run' = r \/ Holds(g, r)
  BY <1>3, ZenonT(30) DEF Holds, Holding
<1> QED BY <1>1, <1>2, <1>3, <1>4, <1>6, <1>7, <1>8, OneMoves, ZenonT(30)

\* reconnect owns the token and finds its session as it left it.
LEMMA Rechecks ==
  ASSUME LifeInv, NEW r \in Runs, NEW next \in {"resolve", "dial"}, Recheck(r, next)
  PROVE  LifeInv'
<1>1. /\ r \in Procs /\ proc[r].pc = "recheck" /\ UNCHANGED kept
      /\ connectDone = r /\ PastMonitor(proc[r])
  BY OwnerFacts, ZenonT(30) DEF Recheck, At, OnlyProcChanges, kept, client, network, login, Procs, PastMonitor
<1>2. CASE ~StillReconnecting(r)
  BY <1>1, <1>2, GoesOn, ZenonT(30) DEF Recheck, Holding
<1>3. CASE StillReconnecting(r)
  <2> DEFINE g == [proc[r] EXCEPT !.pc = next]
  <2>1. Becomes(r, g)
    BY <1>3, ZenonT(30) DEF Recheck, Goto
  <2>2. Shape(g) /\ g.pc = next
    BY <1>1, OwnerFacts, GotoFacts, ZenonT(30)
  <2> HIDE DEF g
  <2>3. SayOK(g)
    BY <2>2, ZenonT(30) DEF SayOK
  <2>4. UNCHANGED <<closed, finalizer, generation, connectDone, runs, run, state>>
    BY <1>1, ZenonT(30) DEF kept
  <2>5. Progress /\ RunOfState'
    BY <2>4, RunsStay, StaysSettled, ZenonT(30)
  <2>6. runs'[r] = "finalized"
    BY <1>1, <2>4, ZenonT(30) DEF LifeInv
  <2>7. Settled(run)' /\ Settled(finalizer.run)'
    BY <1>3, <2>4, <2>6, ZenonT(30) DEF StillReconnecting, LifeInv, RunOfState, Settled
  <2>8. \A s \in Live' : run = s \/ Holds(proc[r], s) => run' = s \/ Holds(g, s)
    BY <1>1, <2>4, ZenonT(30) DEF Holds, Holding
  <2> QED BY <1>1, <2>1, <2>2, <2>3, <2>4, <2>5, <2>6, <2>7, <2>8, OneMoves, ZenonT(30)
<1> QED BY <1>2, <1>3, ZenonT(30)

\* reconnect starts, for the run the Client still points to.
LEMMA ReconnectStarts ==
  ASSUME LifeInv, NEW r \in Runs, ReconnectStart(r)
  PROVE  LifeInv'
<1>1. /\ r \in Procs /\ proc[r].pc = "reconnect" /\ PastMonitor(proc[r])
      /\ UNCHANGED <<connectDone, finalizer, generation, runs>>
  BY ZenonT(30) DEF ReconnectStart, At, network, Procs, PastMonitor
<1>2. CASE Becomes(r, Idle) /\ UNCHANGED client
  BY <1>1, <1>2, ReturnWalks, ZenonT(30) DEF kept, client, login, Holding
<1>3. CASE ~(Becomes(r, Idle) /\ UNCHANGED client)
  <2> DEFINE e == Event("Reconnecting", callbackEpoch, NextChange)
             h == Goroutine("plan", None, sessionGeneration, lastErr, None)
             i == Goroutine("emit", None, sessionGeneration, lastErr, e)
  <2>1. PICK g \in {h, i} : Becomes(r, g)
    BY <1>3, ZenonT(30) DEF ReconnectStart, Return
  <2>2. ~closed /\ run = r /\ state' = "Reconnecting" /\ UNCHANGED <<closed, run>>
    BY <1>3, ZenonT(30) DEF ReconnectStart, Return
  <2>3. /\ Shape(h) /\ h.pc = "plan"
        /\ Shape(i) /\ i.pc = "emit" /\ i.say.state = "Reconnecting"
    BY ZenonT(30) DEF Shape, Goroutine, Event
  <2> HIDE DEF e, h, i
  <2>4. Shape(g) /\ SayOK(g) /\ ~Owns(g) /\ ~Attempts(g)
    BY <2>1, <2>3, ZenonT(30) DEF SayOK, Owns, Attempts, Holding
  <2>5. runs'[r] = "finalized" /\ Progress
    BY <1>1, RunsStay, ZenonT(30) DEF LifeInv
  <2>6. RunOfState'
    BY <1>1, <2>2, <2>5, ZenonT(30) DEF LifeInv, RunOfState, Settled
  <2>7. \A s \in Live' : run = s \/ Holds(proc[r], s) => run' = s
    BY <1>1, <2>2, ZenonT(30) DEF Holds, Holding
  <2> QED BY <1>1, <2>1, <2>2, <2>4, <2>5, <2>6, <2>7, OneMoves, ZenonT(30)
<1> QED BY <1>2, <1>3, ZenonT(30)

\* The Client lets go of the run it points to, which is finalized or goes with the
\* goroutine.
LEMMA LetsGo ==
  ASSUME LifeInv, NEW c \in Callers, NEW g, Becomes(c, g), Shape(g), SayOK(g),
         ~closed, run' = None, state' = "Logout",
         UNCHANGED <<closed, connectDone, finalizer, generation, runs>>,
         Owns(g) => connectDone = c, proc[c].pc \notin Holding,
         Settled(run) \/ Holds(g, run)
  PROVE  LifeInv'
<1>1. c \in Procs /\ c \notin Runs
  BY LifecycleAssumption, ZenonT(30) DEF Procs, Runs
<1>2. finalizer.run = None
  BY ZenonT(30) DEF LifeInv, RunOfState
<1>3. Progress /\ RunOfState' /\ Settled(run)' /\ Settled(finalizer.run)'
  BY <1>2, RunsStay, ZenonT(30) DEF RunOfState, Settled
<1>4. \A r \in Live' : run = r \/ Holds(proc[c], r) => Holds(g, r)
  BY LifecycleAssumption, ZenonT(30) DEF Live, Settled, Holds, Runs
<1> QED BY <1>1, <1>3, <1>4, OneMoves, ZenonT(30)

LEMMA FarewellFacts ==
  ASSUME NEW pc, NEW r
  PROVE  LET g == Goroutine(pc, r, 0, "ended", Farewell)
         IN Shape(g) /\ g.pc = pc /\ g.run = r /\ g.say.state = "Disconnected"
  BY ZenonT(30) DEF Goroutine, Shape, Farewell, Event

LEMMA LogoutSteps ==
  ASSUME LifeInv, NEW c \in Callers, LogoutExpires(c) \/ LogoutStart(c)
  PROVE  LifeInv'
<1>1. c \in Procs /\ c \notin Runs
  BY LifecycleAssumption, ZenonT(30) DEF Procs, Runs
<1>2. UNCHANGED <<connectDone, finalizer, generation, runs>> /\ proc[c].pc \notin Holding
  BY ZenonT(30) DEF LogoutExpires, LogoutStart, network, At, Holding
<1> DEFINE h == Goroutine("emit", None, 0, "ended", Farewell)
           i == Goroutine("sayGoodbye", run, 0, "ended", Farewell)
           k == [Idle EXCEPT !.pc = "release"]
<1>3. Shape(h) /\ h.pc = "emit" /\ h.say.state = "Disconnected"
  BY FarewellFacts, ZenonT(30)
<1>4. Shape(i) /\ i.pc = "sayGoodbye" /\ i.run = run /\ i.say.state = "Disconnected"
  BY FarewellFacts, ZenonT(30)
<1>5. Shape(k) /\ SayOK(k)
  BY FreshFacts, ZenonT(30)
<1>6. UNCHANGED client => UNCHANGED kept
  BY <1>2, ZenonT(30) DEF client, login, kept
<1>7. CASE LogoutExpires(c)
  <2>1. CASE Becomes(c, Idle) /\ UNCHANGED client
    BY <1>1, <1>2, <1>6, <2>1, ReturnWalks, ZenonT(30)
  <2>2. CASE ~(Becomes(c, Idle) /\ UNCHANGED client)
    <3>1. state = "Reconnecting" /\ Reset /\ UNCHANGED closed /\ Becomes(c, h)
      BY <1>7, <2>2, ZenonT(30) DEF LogoutExpires, Return
    <3> HIDE DEF h
    <3>2. SayOK(h) /\ ~Owns(h)
      BY <1>3, ZenonT(30) DEF SayOK, Owns, Attempts, Holding
    <3>3. CASE run = None /\ closed
      <4>1. Progress /\ RunOfState'
        BY <1>2, <3>1, <3>3, RunsStay, ZenonT(30) DEF Reset, LifeInv, RunOfState
      <4>2. \A r \in Live' : run = r \/ Holds(proc[c], r) => run' = r \/ Holds(h, r)
        BY <1>2, <3>1, <3>3, ZenonT(30) DEF Reset, Holds
      <4> QED BY <1>1, <1>2, <1>3, <3>1, <3>2, <3>3, <4>1, <4>2, OneMoves, ZenonT(30)
                 DEF Reset, Owns
    <3>4. CASE run # None \/ ~closed
      <4>1. ~closed /\ Settled(run)
        BY <3>1, <3>4, ZenonT(30) DEF LifeInv, RunOfState
      <4> QED BY <1>2, <1>3, <3>1, <3>2, <4>1, LetsGo, ZenonT(30) DEF Reset
    <3> QED BY <3>3, <3>4, ZenonT(30)
  <2> QED BY <2>1, <2>2, ZenonT(30)
<1>8. CASE LogoutStart(c)
  <2>1. proc[c].pc = "logoutOwned" /\ connectDone = c
    BY <1>1, <1>8, OwnerFacts, ZenonT(30) DEF LogoutStart, At
  <2>2. CASE Goto(c, "release") /\ UNCHANGED client
    BY <1>1, <1>6, <2>1, <2>2, GoesOn, ZenonT(30) DEF Holding
  <2>3. CASE ~(Goto(c, "release") /\ UNCHANGED client)
    <3>1. ~closed /\ Reset /\ UNCHANGED closed
      BY <1>8, <2>3, ZenonT(30) DEF LogoutStart
    <3>2. PICK g : /\ Becomes(c, g) /\ g \in {h, i, k} /\ (run # None => g = i)
      BY <1>8, <2>3, Zenon DEF LogoutStart
    <3> HIDE DEF h, i, k
    <3>3. Shape(g) /\ SayOK(g) /\ (run # None => Holds(g, run))
      BY <1>3, <1>4, <1>5, <3>2, ZenonT(30) DEF SayOK, Holds, Holding
    <3> QED BY <1>2, <2>1, <3>1, <3>2, <3>3, LetsGo, ZenonT(30) DEF Reset, Settled
  <2> QED BY <2>2, <2>3, ZenonT(30)
<1> QED BY <1>7, <1>8, ZenonT(30)

\* A step of the owner that moves other goroutines too, and may give the token back.
LEMMA OwnerReleases ==
  ASSUME LifeInv, NEW p \in Procs, Owns(proc[p]), proc[p].pc \notin Holding,
         UNCHANGED <<closed, finalizer, generation, runs, run, state>>,
         proc' = [q \in Procs |-> proc'[q]],
         \A q \in Procs : /\ Shape(proc'[q]) /\ SayOK(proc'[q]) /\ ~Attempts(proc'[q])
                          /\ Owns(proc'[q]) => connectDone' = q
                          /\ q \in Runs /\ PastMonitor(proc'[q]) => PastMonitor(proc[q])
  PROVE  LifeInv'
<1>1. Shaped' /\ RunOfState'
  BY RunsStay, StaysSettled, ZenonT(30) DEF LifeInv, Shaped
<1>2. \A q \in Procs : proc[q].pc \notin Holding
  BY OwnerFacts, ZenonT(30) DEF LifeInv
<1>3. LiveHasPlace'
  BY <1>2, ZenonT(30) DEF LifeInv, LiveHasPlace, Live, Holds
<1>4. \A r \in Runs : PastMonitor(proc'[r]) => runs'[r] = "finalized"
  BY ZenonT(30) DEF LifeInv, Procs
<1> QED BY <1>1, <1>3, <1>4, ZenonT(30) DEF LifeInv

LEMMA Releases ==
  ASSUME LifeInv, NEW p \in Procs, EndConnect(p) \/ RetryLater(p)
  PROVE  LifeInv'
<1>1. UNCHANGED <<closed, finalizer, generation, runs, run, state>>
  BY ZenonT(30) DEF EndConnect, RetryLater, EndConnectTo, client, network, login
<1>2. proc[p].pc \in {"release", "retry"} /\ Owns(proc[p]) /\ connectDone = p
  BY OwnerFacts, ZenonT(30) DEF EndConnect, RetryLater, At, Owns
<1> DEFINE h == [proc[p] EXCEPT !.pc = "backoff"]
<1>3. PICK next \in {Idle, h} : EndConnectTo(p, next)
  BY ZenonT(30) DEF EndConnect, RetryLater
<1>4. Shape(h) /\ h.pc = "backoff"
  BY OwnerFacts, GotoFacts, ZenonT(30)
<1> HIDE DEF h
<1>5. Shape(next) /\ SayOK(next) /\ ~Owns(next) /\ ~Attempts(next)
  BY <1>3, <1>4, FreshFacts, ZenonT(30) DEF SayOK, Owns, Attempts, Holding
<1>6. PastMonitor(proc[p])
  BY <1>2, ZenonT(30) DEF PastMonitor
<1>7. ASSUME NEW q \in Procs \ {p}
      PROVE  /\ Shape(proc'[q]) /\ SayOK(proc'[q]) /\ ~Attempts(proc'[q]) /\ ~Owns(proc'[q])
             /\ PastMonitor(proc'[q]) => PastMonitor(proc[q])
  <2>1. Shape(proc[q]) /\ SayOK(proc[q]) /\ ~Owns(proc[q]) /\ ~Attempts(proc[q])
    BY <1>2, OnlyOwner, OwnerFacts, ZenonT(30) DEF LifeInv
  <2> DEFINE i == [proc[q] EXCEPT !.pc = "logout"]
  <2>2. Shape(i) /\ i.pc = "logout"
    BY <2>1, GotoFacts, ZenonT(30)
  <2>3. proc'[q] = proc[q] \/ (proc[q].pc = "logoutWait" /\ proc'[q] = i)
    BY <1>3, ZenonT(30) DEF EndConnectTo, At
  <2> HIDE DEF i
  <2> QED BY <2>1, <2>2, <2>3, ZenonT(30) DEF SayOK, Owns, Attempts, Holding, PastMonitor
<1>8. proc' = [q \in Procs |-> proc'[q]] /\ proc'[p] = next
  BY <1>3, ZenonT(30) DEF EndConnectTo
<1> QED BY <1>1, <1>2, <1>5, <1>6, <1>7, <1>8, OwnerReleases, ZenonT(30) DEF Holding

\* The owner has reported the new connection and starts its monitor.
LEMMA StartsMonitor ==
  ASSUME LifeInv, NEW p \in Procs, Emit(p), proc[p].say.state = "Connected"
  PROVE  LifeInv'
<1> DEFINE m == [Idle EXCEPT !.pc = "monitor"]
           i == [proc EXCEPT ![p] = Returning(p)]
<1>1. proc[p].pc = "emit" /\ Owns(proc[p]) /\ connectDone = p /\ PastMonitor(proc[p])
  BY ZenonT(30) DEF Emit, At, Owns, LifeInv, PastMonitor
<1>2. UNCHANGED <<closed, finalizer, generation, runs, run, state, connectDone>>
  BY ZenonT(30) DEF Emit, client, network, login
<1>3. Shape(m) /\ m.pc = "monitor"
  BY FreshFacts, GotoFacts, ZenonT(30)
<1>4. proc' = [i EXCEPT ![proc[p].run] = m]
  BY ZenonT(30) DEF Emit, AfterEmit
<1> HIDE DEF m
<1>5. /\ proc' = [q \in Procs |-> proc'[q]]
      /\ \A q \in Procs : \/ proc'[q] = m
                          \/ q = p /\ proc'[q] = Returning(p)
                          \/ q # p /\ proc'[q] = proc[q]
  BY <1>4, ZenonT(30) DEF LifeInv, Shaped
<1>6. \A q \in Procs \ {p} : /\ Shape(proc[q]) /\ SayOK(proc[q])
                             /\ ~Owns(proc[q]) /\ ~Attempts(proc[q])
  BY <1>1, OnlyOwner, ZenonT(30) DEF LifeInv, Shaped
<1>7. SayOK(m) /\ ~Owns(m) /\ ~Attempts(m) /\ ~PastMonitor(m)
  BY <1>3, ZenonT(30) DEF SayOK, Owns, Attempts, Holding, PastMonitor
<1>8. \A q \in Procs : /\ Shape(proc'[q]) /\ SayOK(proc'[q]) /\ ~Attempts(proc'[q])
                       /\ Owns(proc'[q]) => connectDone' = q
                       /\ PastMonitor(proc'[q]) => PastMonitor(proc[q])
  BY <1>1, <1>2, <1>3, <1>5, <1>6, <1>7, ReturningFacts, ZenonT(30)
<1> QED BY <1>1, <1>2, <1>5, <1>8, OwnerReleases, ZenonT(30) DEF Holding

\* A goroutine emits the state it recorded and goes on.
LEMMA Emits ==
  ASSUME LifeInv, NEW p \in Procs, Emit(p)
  PROVE  LifeInv'
<1>1. /\ proc[p].pc = "emit" /\ UNCHANGED kept /\ PastMonitor(proc[p]) /\ Shape(proc[p])
      /\ proc[p].say.state \in {"Connecting", "Reconnecting", "Connected", "Disconnected"}
  BY OwnerFacts, ZenonT(30) DEF Emit, At, kept, client, network, login, PastMonitor, LifeInv, SayOK
<1>2. ASSUME NEW next \in {"resolve", "plan"}, Becomes(p, WithSay(proc[p], next, None)),
             next = "resolve" => proc[p].say.state = "Connecting"
      PROVE  LifeInv'
  <2>1. LET g == WithSay(proc[p], next, None)
        IN Shape(g) /\ g.pc = next /\ g.run = proc[p].run
    BY <1>1, SayFacts, SMTT(30)
  <2> QED BY <1>1, <1>2, <2>1, GotoWalks, ZenonT(30) DEF Attempts, Holding
<1>3. CASE proc[p].say.state = "Connecting"
  <2>1. Becomes(p, WithSay(proc[p], "resolve", None))
    BY <1>3, ZenonT(30) DEF Emit, AfterEmit, WithSay
  <2> QED BY <1>2, <1>3, <2>1, ZenonT(30)
<1>4. CASE proc[p].say.state = "Reconnecting"
  <2>1. Becomes(p, WithSay(proc[p], "plan", None))
    BY <1>4, ZenonT(30) DEF Emit, AfterEmit, WithSay
  <2> QED BY <1>2, <2>1, ZenonT(30)
<1>5. CASE proc[p].say.state = "Disconnected"
  <2>1. Becomes(p, Returning(p))
    BY <1>5, ZenonT(30) DEF Emit, AfterEmit
  <2> QED BY <1>1, <2>1, ReturnWalks, ZenonT(30) DEF Holding
<1> QED BY <1>1, <1>3, <1>4, <1>5, StartsMonitor, ZenonT(30)

\* A run is dialled only when no run is left.
LEMMA Dials ==
  ASSUME LifeInv, NEW p \in Procs, Dial(p)
  PROVE  LifeInv'
<1> DEFINE n == generation + 1
           g == WithRun(proc[p], "provision", n)
<1>1. Becomes(p, g)
  BY ZenonT(30) DEF Dial, WithRun
<1>2. Shape(g) /\ g.pc = "provision" /\ g.run = n
  BY OwnerFacts, RunFacts, SMTT(30)
<1>3. n \in Runs /\ n \in Nat /\ n > generation /\ generation \in Nat
  BY LifecycleAssumption, SMTT(30) DEF Dial, LifeInv, Shaped, Runs
<1>4. runs[n] = "none"
  BY <1>3, ZenonT(30) DEF LifeInv
<1>5. generation' = n /\ runs' = [runs EXCEPT ![n] = "open"]
  BY ZenonT(30) DEF Dial
<1>6. /\ UNCHANGED <<closed, run, state, connectDone, finalizer>>
      /\ proc[p].pc = "dial" /\ connectDone = p /\ Attempts(proc[p]) /\ PastMonitor(proc[p])
  BY OwnerFacts, ZenonT(30) DEF Dial, At, client, login, Attempts, PastMonitor
<1>7. \A r \in Runs : r > n => r > generation
  BY <1>3, SMTT(30) DEF Runs
<1> HIDE DEF n, g
<1>8. /\ proc' = [q \in Procs |-> proc'[q]]
      /\ proc'[p] = g /\ \A q \in Procs \ {p} : proc'[q] = proc[q]
  BY <1>1, ZenonT(30) DEF LifeInv, Shaped, Becomes
<1>9. /\ runs' \in [Runs -> RunStates] /\ runs'[n] = "open"
      /\ \A r \in Runs \ {n} : runs'[r] = runs[r]
  BY <1>3, <1>5, ZenonT(30) DEF LifeInv, Shaped, RunStates
<1>10. Shaped'
  BY <1>2, <1>3, <1>5, <1>6, <1>8, <1>9, ZenonT(30) DEF LifeInv, Shaped
<1>11. \A x : Settled(x) => x = None \/ (x \in Runs /\ runs'[x] = "finalized")
  BY <1>4, <1>9, ZenonT(30) DEF Settled
<1>12. Settled(run) /\ Settled(finalizer.run) /\ Settled(run)' /\ Settled(finalizer.run)'
  BY <1>6, <1>11, ZenonT(30) DEF LifeInv, Settled
<1>13. RunOfState'
  BY <1>6, <1>12, ZenonT(30) DEF LifeInv, RunOfState
<1>14. Live = {}
  <2>1. \A q \in Procs : proc[q].pc \notin Holding
    BY <1>6, OwnerFacts, ZenonT(30) DEF Holding
  <2> QED BY <1>12, <2>1, LifecycleAssumption, ZenonT(30)
             DEF LifeInv, LiveHasPlace, Holds, Settled, Live, Runs
<1>15. LiveHasPlace'
  <2>1. Live' \subseteq {n} /\ Holds(proc'[p], n)
    BY <1>2, <1>8, <1>9, <1>14, ZenonT(30) DEF Live, Holds, Holding
  <2> QED BY <2>1, ZenonT(30) DEF LiveHasPlace
<1>16. \A r \in Runs : r > generation' => runs'[r] = "none"
  <2>1. ~(n > n)
    BY <1>3, SMTT(30) DEF Runs
  <2> QED BY <1>5, <1>7, <1>9, <2>1, ZenonT(30) DEF LifeInv
<1>17. \A r \in Runs : PastMonitor(proc'[r]) => runs'[r] = "finalized"
  BY <1>4, <1>6, <1>8, <1>9, ZenonT(30) DEF LifeInv, Procs
<1>18. SayOK(g)
  BY <1>2, ZenonT(30) DEF SayOK
<1>19. \A q \in Procs : SayOK(proc'[q]) /\ (Owns(proc'[q]) => connectDone' = q)
  BY <1>6, <1>8, <1>18, ZenonT(30) DEF LifeInv
<1> QED BY <1>10, <1>12, <1>13, <1>15, <1>16, <1>17, <1>19, ZenonT(30) DEF LifeInv

\* Close takes the run off the Client and gives it to the finalizer.
LEMMA Closes == ASSUME LifeInv, Close PROVE LifeInv'
<1>1. /\ ~closed /\ closed' = TRUE /\ run' = None /\ state' = "Logout"
      /\ UNCHANGED <<connectDone, generation, runs, proc>>
  BY ZenonT(30) DEF Close, network
<1>2. finalizer' = [pc |-> finalizer'.pc, run |-> finalizer'.run] /\ finalizer'.run = run
  BY ZenonT(30) DEF Close
<1>3. finalizer.run = None
  BY <1>1, ZenonT(30) DEF LifeInv, RunOfState
<1>4. Shaped' /\ RunOfState'
  BY <1>1, <1>2, ZenonT(30) DEF LifeInv, Shaped, RunOfState
<1>5. LiveHasPlace'
  BY <1>1, <1>2, <1>3, LifecycleAssumption, ZenonT(30) DEF LifeInv, LiveHasPlace, Live, Runs
<1>6. Settled(run)' /\ (Settled(run) => Settled(finalizer.run)')
  BY <1>1, <1>2, ZenonT(30) DEF Settled
<1> QED BY <1>1, <1>4, <1>5, <1>6, ZenonT(30) DEF LifeInv

\* A run fails, or Close's finalizer goes on.
LEMMA RunsMoveOn ==
  ASSUME LifeInv, Progress, UNCHANGED <<closed, connectDone, generation, run, state, proc>>,
         finalizer' = [pc |-> finalizer'.pc, run |-> finalizer'.run],
         finalizer'.run = finalizer.run
  PROVE  LifeInv'
<1>1. Shaped' /\ RunOfState'
  BY ZenonT(30) DEF LifeInv, Shaped, RunOfState, Settled, Progress
<1>2. LiveHasPlace'
  BY ProgressLive, ZenonT(30) DEF LifeInv, LiveHasPlace
<1>3. \A x : Settled(x) => x = None \/ (x \in Runs /\ runs'[x] = "finalized")
  BY ZenonT(30) DEF Settled, Progress
<1>4. /\ Settled(run) => Settled(run)'
      /\ Settled(finalizer.run) => Settled(finalizer.run)'
  BY <1>3, ZenonT(30) DEF Settled
<1> QED BY <1>1, <1>2, <1>4, ZenonT(30) DEF LifeInv, Progress

LEMMA OtherSteps ==
  ASSUME LifeInv,
         \/ \E r \in Runs, err \in {"network", "redirect", "terminal"} : RunFails(r, err)
         \/ DispatcherStep \/ FinalizerStep \/ UNCHANGED vars
  PROVE  LifeInv'
<1>1. finalizer = [pc |-> finalizer.pc, run |-> finalizer.run]
  BY ZenonT(30) DEF LifeInv, Shaped
<1>2. ASSUME NEW r, NEW err, RunFails(r, err) PROVE LifeInv'
  BY <1>1, <1>2, FailProgress, RunsMoveOn, ZenonT(30) DEF RunFails, login
<1>3. CASE DispatcherStep \/ UNCHANGED vars
  <2>1. UNCHANGED <<closed, connectDone, generation, run, state, proc, runs, finalizer>>
    BY <1>3, ZenonT(30) DEF DispatcherStep, ClaimTerminal, NothingToClaim, Woken, TakeEvent, Invoke,
                DispatcherExits, vars, client, login, network
  <2> QED BY <1>1, <2>1, RunsStay, RunsMoveOn, ZenonT(30)
<1>4. CASE FinalizerStep
  <2>1. UNCHANGED <<closed, connectDone, generation, run, state, proc>>
    BY <1>4, ZenonT(30) DEF FinalizerStep, FinalizerFails, FinalizerAwaits, FinalizerEnds, client, login,
                network
  <2>2. Progress
    BY <1>4, FailProgress, FinalizeProgress, RunsStay, ZenonT(30)
       DEF FinalizerStep, FinalizerFails, FinalizerAwaits, FinalizerEnds, network
  <2>3. PICK pc : finalizer' = [finalizer EXCEPT !.pc = pc]
    BY <1>4, ZenonT(30) DEF FinalizerStep, FinalizerFails, FinalizerAwaits, FinalizerEnds
  <2>4. /\ finalizer' = [pc |-> finalizer'.pc, run |-> finalizer'.run]
        /\ finalizer'.run = finalizer.run
    BY <1>1, <2>3, ZenonT(30)
  <2> QED BY <2>1, <2>2, <2>4, RunsMoveOn, ZenonT(30)
<1> QED BY <1>2, <1>3, <1>4, ZenonT(30)

-----------------------------------------------------------------------------
(* Theorems *)

\* The invariant holds in every step of the Client.
LEMMA LifeStep == LifeInv /\ [Next]_vars => LifeInv'
<1> SUFFICES ASSUME LifeInv, [Next]_vars PROVE LifeInv'
  BY ZenonT(30)
<1>1. ASSUME NEW c \in Callers, CallerStep(c) PROVE LifeInv'
  <2>1. c \in Procs
    BY ZenonT(30) DEF Procs
  <2> QED BY ZenonT(30), <1>1, <2>1, CallerWalks, TokenSteps, LoginStarts, TerminalSteps, Commits, LogoutSteps,
             RunSteps DEF CallerStep
<1>2. ASSUME NEW r \in Runs, MonitorStep(r) PROVE LifeInv'
  <2>1. r \in Procs
    BY ZenonT(30) DEF Procs
  <2> QED BY ZenonT(30), <1>2, <2>1, MonitorFinalizesStep, MonitorWalks, TerminalSteps, ReconnectStarts,
             TokenSteps, Rechecks, Commits, Releases DEF MonitorStep
<1>3. ASSUME NEW p \in Procs, AttemptStep(p) PROVE LifeInv'
  BY <1>3, AttemptWalks, Dials, RunSteps, Emits, Releases, ZenonT(30) DEF AttemptStep
<1>4. ASSUME NEW c \in Callers,
             Call(c, "login") \/ Call(c, "logout") \/ LoginExpires(c) \/ LogoutExpires(c)
      PROVE  LifeInv'
  BY <1>4, CallerWalks, LogoutSteps, ZenonT(30)
<1>5. CASE Terminated \/ UNCHANGED vars
  BY <1>5, OtherSteps, ZenonT(30) DEF Terminated
<1> QED BY <1>1, <1>2, <1>3, <1>4, <1>5, Closes, OtherSteps, ZenonT(30) DEF Next, ProcStep

LEMMA InvAlways == Spec => []LifeInv
  BY LifeInit, LifeStep, PTL DEF Spec

LEMMA LiveIsOne == LifeInv => OneLiveRun
<1> SUFFICES ASSUME LifeInv, NEW r \in Live, NEW s \in Live PROVE r = s
  BY ZenonT(30) DEF OneLiveRun
<1>1. \A x \in Live : ~Settled(x) /\ x # None
  BY LifecycleAssumption, ZenonT(30) DEF Live, Settled, Runs
<1>2. CASE \E p \in Procs : proc[p].pc \in Holding
  <2>1. PICK p \in Procs : proc[p].pc \in Holding
    BY <1>2, ZenonT(30)
  <2>2. Settled(run) /\ Settled(finalizer.run)
    BY <2>1, ZenonT(30) DEF LifeInv, Attempts
  <2>3. \A q \in Procs : proc[q].pc \in Holding => q = p
    BY <2>1, OwnerFacts, ZenonT(30)
  <2>4. ASSUME NEW x \in Live PROVE proc[p].run = x
    <3>1. run # x /\ finalizer.run # x
      BY <1>1, <2>2, Zenon
    <3>2. PICK q \in Procs : proc[q].pc \in Holding /\ proc[q].run = x
      BY <3>1, ZenonT(30) DEF LifeInv, LiveHasPlace, Holds
    <3> QED BY <2>3, <3>2, Zenon
  <2> QED BY <2>4, Zenon
<1>3. CASE ~\E p \in Procs : proc[p].pc \in Holding
  <2>1. \A x \in Live : run = x \/ finalizer.run = x
    BY <1>3, ZenonT(30) DEF LifeInv, LiveHasPlace, Holds
  <2> QED BY <1>1, <2>1, ZenonT(30) DEF LifeInv, RunOfState
<1> QED BY <1>2, <1>3, ZenonT(30)

\* A Client never has two connectionRuns at a time, whatever the interleaving of Login,
\* Logout, Close, reconnect and failures: a run is dialled only after the goroutines of the
\* one before have ended and its queues are finalized (dial, shutdown, monitor).
THEOREM OneRunAtATime == Spec => []OneLiveRun
  BY InvAlways, LiveIsOne, PTL

-----------------------------------------------------------------------------
(* The session and what the Client reports of it *)

\* A goroutine that is to report the state st.
Reports(g, st) == g.pc = "emit" /\ g.say.state = st

\* The monitor of a run, up to the start of reconnect.
Watching == {"monitor", "decide", "terminal", "reconnect"}

\* A Login, and a reconnect, that may still succeed.
LogsIn(g) ==
  \/ Reports(g, "Connecting")
  \/ g.pc \in {"resolve", "dial", "provision", "dropRun", "commit", "failed"}

Reconnects(g) ==
  \/ Reports(g, "Reconnecting")
  \/ g.pc \in {"plan", "badRedirect", "backoff", "begin", "recheck", "resolve", "dial",
               "provision", "dropRun", "commit", "failed", "retry", "badSession"}

\* A goroutine with a run in hand whose monitor has not started.
Unmonitored(g) == g.pc \in {"provision", "commit"} \/ Reports(g, "Connected")

\* The Client by itself.
ClientOK ==
  /\ run \in Runs \cup {None} /\ sessionGeneration \in Nat /\ sessionLive \in BOOLEAN
  /\ <<state, connState>> \in {<<"Logout", "Disconnected">>, <<"LoggingIn", "Connecting">>,
                               <<"LoggedIn", "Connected">>, <<"Reconnecting", "Reconnecting">>}
  /\ run # None <=> state \in {"LoggedIn", "Reconnecting"}
  /\ run # None => sessionGeneration # 0
  /\ sessionLive => run # None
  /\ closed => state = "Logout"

\* Close and its finalizer.
FinalizerOK ==
  /\ finalizer.pc \in {"none", "fail", "await", "wait", "done"}
  /\ finalizer.pc = "none" <=> ~closed
  /\ finalizer.pc \in {"fail", "await"} => finalizer.run \in Runs
  /\ finalizer.pc \in {"wait", "done"} => Settled(finalizer.run)
  /\ finalizer.pc = "done" => connectDone = None

\* What the owner of connectDone, in state g, may rely on.
OwnerOK(p, g) ==
  /\ g.pc \in Holding \/ Reports(g, "Connected") => g.run \in Runs
  /\ Attempts(g) => state # "LoggedIn" /\ run \in {None, p}
  /\ g.pc = "logoutOwned" => p \in Callers /\ ~sessionLive
  /\ g.pc \in {"sayGoodbye", "closeRun"} => g.say.state = "Disconnected"
  /\ Unmonitored(g) => At(g.run, "idle") /\ runs[g.run] # "none"
  /\ Reports(g, "Connected") => closed \/ (state = "LoggedIn" /\ run = g.run)
  /\ g.pc \in {"provision", "commit"} /\ runs[g.run] # "open" => lastErr = failure[g.run]

OwnersOK == \A p \in Procs : OwnerOK(p, proc[p])

LoginOK == state = "LoggingIn" => connectDone \in Callers /\ LogsIn(proc[connectDone])

\* Who sees the end of the run the Client points to.
Watched ==
  \/ At(run, "monitor")
  \/ \E p \in Procs : Reports(proc[p], "Connected") /\ proc[p].run = run
  \/ /\ runs[run] = "finalized"
     /\ proc[run].pc \in Watching \/ \E c \in Callers : At(c, "logoutOwned")

LoggedInOK ==
  state = "LoggedIn" => /\ Watched
                        /\ runs[run] # "open" => lastErr = failure[run]
                        /\ sessionLive \/ \E c \in Callers : At(c, "logoutOwned")

ReconnectingOK ==
  state = "Reconnecting" =>
    /\ proc[run].pc \notin Watching
    /\ IF sessionLive
       THEN proc[run].session = sessionGeneration /\ Reconnects(proc[run])
       ELSE LogoutInCharge

MonitorsOK == \A r \in Runs : At(r, "monitor") => runs[r] # "none"

SessionInv ==
  /\ ClientOK /\ FinalizerOK /\ OwnersOK /\ LoginOK /\ LoggedInOK /\ ReconnectingOK
  /\ MonitorsOK

-----------------------------------------------------------------------------
(* Goroutines *)

\* The fields of a goroutine that goes on.
LEMMA Keeps ==
  ASSUME NEW g, Shape(g), NEW pc, NEW x
  PROVE  /\ LET h == [g EXCEPT !.pc = pc]
            IN h.pc = pc /\ h.run = g.run /\ h.session = g.session /\ h.say = g.say /\ h.err = g.err
         /\ WithErr(g, pc, x).session = g.session /\ WithRun(g, pc, x).session = g.session
         /\ WithSay(g, pc, x).session = g.session /\ WithSay(g, pc, x).run = g.run
         /\ WithSession(g, pc, x).session = x
<1> DEFINE h == [g EXCEPT !.pc = pc]
<1>1. Shape(h) /\ h.pc = pc /\ h.run = g.run /\ h.session = g.session /\ h.say = g.say /\ h.err = g.err
  BY SMTT(30) DEF Shape
<1>2. /\ WithErr(g, pc, x) = [h EXCEPT !.err = x] /\ WithRun(g, pc, x) = [h EXCEPT !.run = x]
      /\ WithSay(g, pc, x) = [h EXCEPT !.say = x] /\ WithSession(g, pc, x) = [h EXCEPT !.session = x]
  BY ZenonT(30) DEF WithErr, WithRun, WithSay, WithSession
<1> HIDE DEF h
<1>3. /\ [h EXCEPT !.err = x].session = h.session /\ [h EXCEPT !.run = x].session = h.session
      /\ [h EXCEPT !.say = x].session = h.session /\ [h EXCEPT !.say = x].run = h.run
      /\ [h EXCEPT !.session = x].session = x
  BY <1>1, ZenonT(30) DEF Shape
<1> QED BY <1>1, <1>2, <1>3, ZenonT(30) DEF h

\* Goroutine p goes on to next, with its run and its session.
Arrives(p, next) ==
  \E g : Becomes(p, g) /\ g.pc = next /\ g.run = proc[p].run /\ g.session = proc[p].session

LEMMA GotoFields ==
  ASSUME LifeInv, NEW p \in Procs, NEW next, Goto(p, next)
  PROVE  Arrives(p, next)
<1> DEFINE g == [proc[p] EXCEPT !.pc = next]
<1>1. g.pc = next /\ g.run = proc[p].run /\ g.session = proc[p].session
  BY OwnerFacts, Keeps, SMTT(30)
<1>2. Becomes(p, g)
  BY ZenonT(30) DEF Goto
<1> HIDE DEF g
<1> QED BY <1>1, <1>2, Zenon DEF Arrives

LEMMA ErrFields ==
  ASSUME LifeInv, NEW p \in Procs, NEW next, NEW x, Becomes(p, WithErr(proc[p], next, x))
  PROVE  Arrives(p, next)
<1> DEFINE g == WithErr(proc[p], next, x)
<1>1. g.pc = next /\ g.run = proc[p].run /\ g.session = proc[p].session
  BY OwnerFacts, ErrFacts, Keeps, SMTT(30)
<1> HIDE DEF g
<1>2. Becomes(p, g)
  BY ZenonT(30) DEF g
<1> QED BY <1>1, <1>2, Zenon DEF Arrives

LEMMA SayFields ==
  ASSUME LifeInv, NEW p \in Procs, NEW next, NEW x, Becomes(p, WithSay(proc[p], next, x))
  PROVE  Arrives(p, next)
<1> DEFINE g == WithSay(proc[p], next, x)
<1>1. g.pc = next /\ g.run = proc[p].run /\ g.session = proc[p].session
  BY OwnerFacts, SayFacts, Keeps, SMTT(30)
<1> HIDE DEF g
<1>2. Becomes(p, g)
  BY DEF g
<1> QED BY <1>1, <1>2, Zenon DEF Arrives

LEMMA DroppedKeeps ==
  ASSUME NEW g, Shape(g), NEW pc, NEW e
  PROVE  Dropped(g, pc, e).session = g.session
<1> DEFINE h == WithRun(g, pc, None)
<1>1. Shape(h) /\ h.session = g.session
  BY RunFacts, Keeps, SMTT(30)
<1>2. Dropped(g, pc, e) = [h EXCEPT !.err = e]
  BY ZenonT(30) DEF Dropped, WithRun
<1> HIDE DEF h
<1> QED BY <1>1, <1>2, ZenonT(30) DEF Shape

LEMMA Others ==
  ASSUME LifeInv, NEW p \in Procs, NEW g, Becomes(p, g)
  PROVE  proc'[p] = g /\ \A q \in Procs : q # p => proc'[q] = proc[q]
  BY ZenonT(30) DEF LifeInv, Shaped, Becomes

LEMMA Kinds ==
  /\ Callers \subseteq Procs /\ Runs \subseteq Procs /\ Callers \cap Runs = {} /\ None \notin Procs
  /\ \A p \in Procs : p \in Callers \/ p \in Runs
  BY LifecycleAssumption, ZenonT(30) DEF Procs, Runs

\* A goroutine that does not own connectDone has nothing to rely on.
LEMMA NotOwner ==
  ASSUME NEW q, ~Owns(proc[q])'
  PROVE  OwnerOK(q, proc[q])'
  BY Zenon DEF OwnerOK, Owns, Attempts, Reports, Unmonitored, Holding

\* What the Client, in its present state, needs goroutine p to go on with.
Serves(p, g) ==
  /\ state = "LoggingIn" /\ connectDone = p => LogsIn(g)
  /\ state = "LoggedIn" => /\ ~Reports(proc[p], "Connected") /\ ~At(p, "logoutOwned")
                           /\ run = p /\ proc[p].pc \in Watching /\ g.pc \notin Watching
                              => runs[p] = "finalized" /\ ~sessionLive
  /\ state = "Reconnecting" =>
       /\ ~At(p, "logoutOwned")
       /\ run = p => g.pc \notin Watching
       /\ run = p /\ sessionLive => g.session = proc[p].session /\ Reconnects(g)
       /\ ~sessionLive /\ proc[p].pc \in {"logout", "logoutWait"}
          /\ proc[p].session = sessionGeneration
          => g.pc \in {"logout", "logoutWait"} /\ g.session = proc[p].session

\* Runs are dialled and end.
RunsKeep ==
  \A r \in Runs : /\ runs[r] = "finalized" => runs'[r] = "finalized"
                  /\ runs[r] # "none" => runs'[r] # "none"

\* A step of p that leaves state, run and session as they are.
LEMMA Moves ==
  ASSUME LifeInv, SessionInv, NEW p \in Procs, NEW g, Becomes(p, g), Serves(p, g), RunsKeep,
         UNCHANGED <<closed, login, session, finalizer>>,
         connectDone' = connectDone \/ (connectDone = None /\ connectDone' = p /\ ~closed),
         g.pc # "monitor", At(p, "monitor") => p \in Runs /\ runs'[p] = "finalized",
         state = "LoggedIn" => (runs'[run] # "open" => lastErr' = failure'[run]),
         \A q \in Procs : OwnerOK(q, proc[q])'
  PROVE  SessionInv'
<1> USE DEF SessionInv
<1>1. /\ closed' = closed /\ state' = state /\ connState' = connState /\ run' = run
      /\ sessionLive' = sessionLive /\ sessionGeneration' = sessionGeneration
      /\ finalizer' = finalizer
  BY ZenonT(30) DEF login, session
<1>2. proc'[p] = g /\ \A q \in Procs : q # p => proc'[q] = proc[q]
  BY Others, ZenonT(30)
<1>3. ClientOK'
  BY <1>1, SMTT(30) DEF ClientOK
<1>4. FinalizerOK'
  <2>1. Settled(finalizer.run) => Settled(finalizer.run)'
    BY <1>1, Zenon DEF Settled, RunsKeep
  <2>2. finalizer.pc = "done" => connectDone' = None
    BY <1>1, Zenon DEF FinalizerOK
  <2> QED BY <1>1, <2>1, <2>2, SMTT(30) DEF FinalizerOK
<1>5. OwnersOK'
  BY Zenon DEF OwnersOK
<1>6. LoginOK'
  <2> SUFFICES ASSUME state = "LoggingIn" PROVE connectDone' \in Callers /\ LogsIn(proc'[connectDone'])
    BY <1>1, Zenon DEF LoginOK
  <2>1. connectDone \in Callers /\ LogsIn(proc[connectDone]) /\ connectDone \in Procs /\ connectDone # None
    BY Kinds, Zenon DEF LoginOK
  <2>2. connectDone' = connectDone
    BY <2>1, Zenon
  <2> QED BY <1>2, <2>1, <2>2, Zenon DEF Serves
<1>7. LoggedInOK'
  <2> SUFFICES ASSUME state = "LoggedIn"
               PROVE  /\ Watched' /\ (runs'[run] # "open" => lastErr' = failure'[run])
                      /\ sessionLive \/ \E c \in Callers : At(c, "logoutOwned")'
    BY <1>1, Zenon DEF LoggedInOK
  <2>1. /\ run \in Runs /\ run \in Procs /\ Watched
        /\ sessionLive \/ \E c \in Callers : At(c, "logoutOwned")
    BY Kinds, Zenon DEF ClientOK, LoggedInOK
  <2>l. \A c \in Callers : At(c, "logoutOwned") => At(c, "logoutOwned")'
    BY <1>2, Kinds, Zenon DEF At, Serves
  <2>2. CASE At(run, "monitor")
    BY <1>1, <1>2, <2>1, <2>l, <2>2, Zenon DEF At, Watched, Serves, Watching
  <2>3. ASSUME NEW q \in Procs, Reports(proc[q], "Connected"), proc[q].run = run PROVE Watched'
    BY <1>1, <1>2, <2>3, Zenon DEF Watched, Serves
  <2>4. CASE runs[run] = "finalized" /\ proc[run].pc \in Watching
    BY <1>1, <1>2, <2>1, <2>l, <2>4, Zenon DEF Watched, Serves, RunsKeep
  <2>5. ASSUME NEW c \in Callers, At(c, "logoutOwned"), runs[run] = "finalized" PROVE Watched'
    BY <1>1, <2>1, <2>l, <2>5, Zenon DEF Watched, RunsKeep
  <2> QED BY <2>1, <2>l, <2>2, <2>3, <2>4, <2>5, Zenon DEF Watched
<1>8. ReconnectingOK'
  <2> SUFFICES ASSUME state = "Reconnecting"
               PROVE  /\ proc'[run].pc \notin Watching
                      /\ sessionLive => proc'[run].session = sessionGeneration /\ Reconnects(proc'[run])
                      /\ ~sessionLive => LogoutInCharge'
    BY <1>1, Zenon DEF ReconnectingOK
  <2>1. /\ run \in Procs /\ proc[run].pc \notin Watching
        /\ sessionLive => proc[run].session = sessionGeneration /\ Reconnects(proc[run])
        /\ ~sessionLive => LogoutInCharge
    BY Kinds, Zenon DEF ClientOK, ReconnectingOK
  <2>2. ASSUME ~sessionLive PROVE LogoutInCharge'
    BY <1>1, <1>2, <2>1, <2>2, Kinds, Zenon DEF LogoutInCharge, Serves, At
  <2> QED BY <1>2, <2>1, <2>2, Zenon DEF Serves
<1>9. MonitorsOK'
  <2>1. \A r \in Runs : At(r, "monitor")' => At(r, "monitor")
    BY <1>2, Kinds, Zenon DEF At
  <2> QED BY <2>1, Zenon DEF MonitorsOK, RunsKeep
<1> QED BY <1>3, <1>4, <1>5, <1>6, <1>7, <1>8, <1>9, Zenon

core == <<closed, login, session, lastErr, connectDone, runs, failure, finalizer>>

\* A step of p alone.
LEMMA Walks ==
  ASSUME LifeInv, SessionInv, NEW p \in Procs, NEW g, Becomes(p, g), Serves(p, g), UNCHANGED core,
         OwnerOK(p, g), g.pc # "monitor", ~At(p, "monitor"), p \in Runs => ~At(p, "idle")
  PROVE  SessionInv'
<1>1. /\ UNCHANGED <<closed, login, session, finalizer>> /\ connectDone' = connectDone
      /\ UNCHANGED <<lastErr, runs, failure, state, run, sessionLive>>
  BY ZenonT(30) DEF core, login, session
<1>2. proc'[p] = g /\ \A q \in Procs : q # p => proc'[q] = proc[q]
  BY Others, ZenonT(30)
<1>3. \A r \in Runs : At(r, "idle") => At(r, "idle")'
  BY <1>2, Kinds, Zenon DEF At
<1>4. RunsKeep
  BY <1>1, Zenon DEF RunsKeep
<1>5. state = "LoggedIn" => (runs'[run] # "open" => lastErr' = failure'[run])
  BY <1>1, Zenon DEF SessionInv, LoggedInOK
<1>6. ASSUME NEW q \in Procs PROVE OwnerOK(q, proc[q])'
  <2>1. PICK h : h = proc'[q] /\ OwnerOK(q, h)
    BY <1>2, Zenon DEF SessionInv, OwnersOK
  <2>2. Unmonitored(h) => At(h.run, "idle")'
    BY <1>3, <2>1, Zenon DEF OwnerOK, Unmonitored, Holding
  <2> QED BY <1>1, <2>1, <2>2, Zenon DEF OwnerOK
<1> QED BY <1>1, <1>4, <1>5, <1>6, Moves, Zenon

\* Nobody counts on p.
Free(p) ==
  /\ ~(state = "LoggingIn" /\ connectDone = p)
  /\ state = "LoggedIn" => /\ ~Reports(proc[p], "Connected") /\ ~At(p, "logoutOwned")
                           /\ run = p /\ proc[p].pc \in Watching
                              => runs[p] = "finalized" /\ ~sessionLive
  /\ state = "Reconnecting" =>
       /\ ~At(p, "logoutOwned") /\ ~(run = p /\ sessionLive)
       /\ ~(/\ ~sessionLive /\ proc[p].pc \in {"logout", "logoutWait"}
            /\ proc[p].session = sessionGeneration)

LEMMA FreeWalks ==
  ASSUME LifeInv, SessionInv, NEW p \in Procs, NEW g, Becomes(p, g), Free(p), UNCHANGED core,
         ~Owns(g) \/ g.pc \in {"release", "badSession", "retry"}, g.pc \notin Watching,
         ~At(p, "monitor"), p \in Runs => ~At(p, "idle")
  PROVE  SessionInv'
<1>1. Serves(p, g)
  BY Zenon DEF Free, Serves
<1>2. OwnerOK(p, g) /\ g.pc # "monitor"
  BY Zenon DEF OwnerOK, Owns, Attempts, Reports, Unmonitored, Holding, Watching
<1> QED BY <1>1, <1>2, Walks, Zenon

\* A Login or a reconnect goes on.
LEMMA CarryWalks ==
  ASSUME LifeInv, SessionInv, NEW p \in Procs, NEW g, Becomes(p, g), UNCHANGED core, OwnerOK(p, g),
         g.session = proc[p].session, LogsIn(proc[p]) => LogsIn(g),
         Reconnects(proc[p]) => Reconnects(g), LogsIn(proc[p]) \/ Reconnects(proc[p]),
         LogsIn(g) \/ Reconnects(g)
  PROVE  SessionInv'
<1>1. /\ g.pc \notin Watching /\ ~Reports(proc[p], "Connected")
      /\ proc[p].pc \notin Watching \cup {"idle", "logoutOwned", "logout", "logoutWait"}
  BY Zenon DEF LogsIn, Reconnects, Reports, Watching
<1>2. Serves(p, g)
  BY <1>1, Zenon DEF Serves, SessionInv, LoginOK, ReconnectingOK, At
<1>3. g.pc # "monitor" /\ ~At(p, "monitor") /\ ~At(p, "idle")
  BY <1>1, Zenon DEF Watching, At
<1> QED BY <1>2, <1>3, Walks, Zenon

LEMMA FreeFacts ==
  ASSUME SessionInv, NEW p \in Procs,
         \/ closed
         \/ /\ ~LogsIn(proc[p]) \/ p \in Runs
            /\ ~Reports(proc[p], "Connected")
            /\ proc[p].pc \notin {"logout", "logoutWait", "logoutOwned"}
            /\ run # p \/ (proc[p].pc \notin Watching /\ ~Reconnects(proc[p]))
  PROVE  Free(p)
<1>1. CASE closed
  BY <1>1, Zenon DEF SessionInv, ClientOK, Free
<1>2. CASE ~closed
  <2>1. ~(state = "LoggingIn" /\ connectDone = p)
    BY <1>2, Kinds, Zenon DEF SessionInv, LoginOK
  <2>2. state = "Reconnecting" => ~(run = p /\ sessionLive)
    BY <1>2, Zenon DEF SessionInv, ReconnectingOK
  <2> QED BY <1>2, <2>1, <2>2, Zenon DEF Free, At
<1> QED BY <1>1, <1>2, Zenon

-----------------------------------------------------------------------------
(* The steps that change nothing but the goroutine *)

LEMMA FreeReturns ==
  ASSUME LifeInv, SessionInv, NEW p \in Procs, Becomes(p, Idle) \/ Becomes(p, Returning(p)), Free(p),
         UNCHANGED core, ~At(p, "monitor"), p \in Runs => ~At(p, "idle")
  PROVE  SessionInv'
<1>1. PICK g : Becomes(p, g) /\ g.pc \in {"idle", "release"}
  <2>1. Idle.pc = "idle" /\ [Idle EXCEPT !.pc = "release"].pc = "release"
    BY ZenonT(30) DEF Idle, Goroutine
  <2> QED BY <2>1, Zenon DEF Returning
<1>2. (~Owns(g) \/ g.pc = "release") /\ g.pc \notin Watching
  BY <1>1, Zenon DEF Owns, Attempts, Holding, Watching
<1> QED BY <1>1, <1>2, FreeWalks, Zenon

\* To the step named next, which serves nobody.
LEMMA FreeGoes ==
  ASSUME LifeInv, SessionInv, NEW p \in Procs, NEW next \in {"login", "logout", "release", "badSession", "retry"},
         Goto(p, next), Free(p), UNCHANGED core, ~At(p, "monitor"), p \in Runs => ~At(p, "idle")
  PROVE  SessionInv'
<1> DEFINE g == [proc[p] EXCEPT !.pc = next]
<1>1. Becomes(p, g) /\ g.pc = next
  BY OwnerFacts, GotoFacts, ZenonT(30) DEF Goto
<1> HIDE DEF g
<1>2. (~Owns(g) \/ g.pc \in {"release", "badSession", "retry"}) /\ g.pc \notin Watching
  BY <1>1, Zenon DEF Owns, Attempts, Holding, Watching
<1> QED BY <1>1, <1>2, FreeWalks, Zenon

LEMMA CallersGo ==
  ASSUME LifeInv, SessionInv, NEW c \in Callers,
         \/ Call(c, "login") \/ Call(c, "logout") \/ LoginClosed(c) \/ LoginExpires(c)
         \/ LoginRefused(c) \/ LogoutClosed(c)
  PROVE  SessionInv'
<1>1. c \in Procs /\ c \notin Runs /\ run # c
  BY Kinds, LifecycleAssumption, Zenon DEF SessionInv, ClientOK
<1>2. UNCHANGED core
  BY Zenon DEF Call, LoginClosed, LoginExpires, LoginRefused, LogoutClosed, OnlyProcChanges, core,
         client, network
<1>3. ~At(c, "monitor") /\ (closed \/ proc[c].pc \in {"idle", "login", "loginOwned"})
  BY Zenon DEF Call, LoginClosed, LoginExpires, LoginRefused, LogoutClosed, At
<1>4. Free(c)
  BY <1>1, <1>3, FreeFacts, Zenon DEF LogsIn, Reports
<1>5. \/ Becomes(c, Idle) \/ \E next \in {"login", "logout", "release"} : Goto(c, next)
  BY Zenon DEF Call, LoginClosed, LoginExpires, LoginRefused, LogoutClosed, Return
<1> QED BY <1>1, <1>2, <1>3, <1>4, <1>5, FreeReturns, FreeGoes, Zenon

LEMMA AttemptsGo ==
  ASSUME LifeInv, SessionInv, NEW p \in Procs,
         \/ Resolve(p) \/ Provisioned(p)
         \/ \E err \in {"network", "terminal"} : AttemptFails(p, err)
  PROVE  SessionInv'
<1>1. UNCHANGED core /\ Shape(proc[p]) /\ OwnerOK(p, proc[p])
  BY OwnerFacts, Zenon DEF Resolve, Provisioned, AttemptFails, OnlyProcChanges, core, client, network,
                           SessionInv, OwnersOK
<1>2. PICK next : /\ Arrives(p, next)
                  /\ \/ proc[p].pc \in {"resolve", "dial"} /\ next \in {"dial", "failed"}
                     \/ proc[p].pc = "provision" /\ next = "commit"
  <2>1. ASSUME NEW err, AttemptFails(p, err)
        PROVE  Arrives(p, "failed") /\ proc[p].pc \in {"resolve", "dial"}
    BY <2>1, ErrFields, Zenon DEF AttemptFails, WithErr
  <2> QED BY <2>1, GotoFields, Zenon DEF Resolve, Provisioned, At
<1>g. PICK g : Becomes(p, g) /\ g.pc = next /\ g.run = proc[p].run /\ g.session = proc[p].session
  BY <1>2, Zenon DEF Arrives
<1>3. /\ LogsIn(proc[p]) /\ LogsIn(g) /\ Reconnects(g)
      /\ Attempts(proc[p]) /\ ~Reports(g, "Connected") /\ g.pc # "logoutOwned"
  BY <1>2, <1>g, Zenon DEF LogsIn, Reconnects, Attempts, Holding, Reports
<1>4. OwnerOK(p, g)
  BY <1>1, <1>2, <1>g, <1>3, Zenon DEF OwnerOK, Unmonitored, Holding
<1> QED BY <1>1, <1>g, <1>3, <1>4, CarryWalks, Zenon

\* A reconnect whose session is over may stop.
LEMMA StopsFree ==
  ASSUME LifeInv, SessionInv, NEW r \in Runs, ~StillReconnecting(r),
         proc[r].pc \in {"backoff", "begin", "recheck", "failed", "commit", "badRedirect", "badSession"}
  PROVE  Free(r) /\ ~At(r, "monitor") /\ ~At(r, "idle")
<1>1. r \in Procs /\ ~(state = "LoggingIn" /\ connectDone = r)
  BY Kinds, Zenon DEF SessionInv, LoginOK
<1>2. ~closed /\ state = "Reconnecting" => ~(run = r /\ sessionLive)
  BY Zenon DEF SessionInv, ReconnectingOK, StillReconnecting, SessionIsCurrent
<1>3. state = "Reconnecting" => ~closed
  BY Zenon DEF SessionInv, ClientOK
<1> QED BY <1>1, <1>2, <1>3, Zenon DEF Free, At, Reports, Watching

LEMMA MonitorsGo ==
  ASSUME LifeInv, SessionInv, NEW r \in Runs,
         \/ MonitorDecides(r) \/ Backoff(r)
         \/ \E next \in {"backoff", "badRedirect"} : Plan(r, next)
         \/ \E next \in {"resolve", "dial"} : Recheck(r, next)
  PROVE  SessionInv'
<1>1. r \in Procs /\ UNCHANGED core
  BY Kinds, Zenon DEF MonitorDecides, Backoff, Plan, Recheck, OnlyProcChanges, core, client, network
<1>2. CASE MonitorDecides(r)
  <2>1. At(r, "decide") /\ r \in Runs /\ ~At(r, "monitor") /\ ~At(r, "idle")
    BY <1>2, Zenon DEF MonitorDecides, At
  <2>2. CASE closed \/ run # r
    <3>1. Becomes(r, Idle)
      BY <1>2, <2>2, Zenon DEF MonitorDecides, Return
    <3>2. Free(r)
      BY <1>1, <2>1, <2>2, FreeFacts, Zenon DEF At, Reports
    <3> QED BY <1>1, <2>1, <3>1, <3>2, FreeReturns, Zenon
  <2>3. CASE ~closed /\ run = r
    <3>1. PICK next \in {"terminal", "reconnect"} : Becomes(r, WithErr(proc[r], next, lastErr))
      BY <1>2, <2>3, Zenon DEF MonitorDecides, WithErr
    <3>a. Arrives(r, next)
      BY <1>1, <3>1, ErrFields, Zenon
    <3>2. PICK g : Becomes(r, g) /\ g.pc = next
      BY <3>a, Zenon DEF Arrives
    <3>3. OwnerOK(r, g) /\ g.pc # "monitor" /\ g.pc \in Watching
      BY <3>2, Zenon DEF OwnerOK, Attempts, Reports, Unmonitored, Holding, Watching
    <3>4. state # "LoggingIn" \/ connectDone # r
      BY Kinds, Zenon DEF SessionInv, LoginOK
    <3>5. state # "Reconnecting"
      BY <2>1, <2>3, Zenon DEF SessionInv, ReconnectingOK, At, Watching
    <3>6. Serves(r, g)
      BY <2>1, <3>3, <3>4, <3>5, Zenon DEF Serves, At, Reports
    <3> QED BY <1>1, <2>1, <3>2, <3>3, <3>6, Walks, Zenon
  <2> QED BY <2>2, <2>3, Zenon
<1>3. ASSUME NEW next \in {"backoff", "badRedirect", "begin", "resolve", "dial"}, Goto(r, next),
             proc[r].pc \in {"plan", "backoff", "recheck"},
             next \in {"resolve", "dial"} => StillReconnecting(r)
      PROVE  SessionInv'
  <2>a. Arrives(r, next)
    BY <1>1, <1>3, GotoFields, Zenon
  <2>1. PICK g : Becomes(r, g) /\ g.pc = next /\ g.session = proc[r].session
    BY <2>a, Zenon DEF Arrives
  <2>2. ~LogsIn(proc[r]) /\ Reconnects(proc[r]) /\ Reconnects(g)
    BY <1>3, <2>1, Zenon DEF LogsIn, Reconnects, Reports
  <2>3. OwnerOK(r, g)
    BY <1>3, <2>1, Zenon DEF OwnerOK, Attempts, Reports, Unmonitored, Holding, StillReconnecting
  <2> QED BY <1>1, <2>1, <2>2, <2>3, CarryWalks, Zenon
<1>4. ASSUME NEW next, Plan(r, next), next \in {"backoff", "badRedirect"} PROVE SessionInv'
  BY <1>3, <1>4, Zenon DEF Plan, At
<1>5. CASE Backoff(r)
  <2>1. At(r, "backoff") /\ (IF StillReconnecting(r) THEN Goto(r, "begin") ELSE Becomes(r, Idle))
    BY <1>5, Zenon DEF Backoff, Return
  <2>2. CASE StillReconnecting(r)
    BY <1>3, <2>1, <2>2, Zenon DEF At
  <2>3. CASE ~StillReconnecting(r)
    BY <1>1, <2>1, <2>3, StopsFree, FreeReturns, Zenon DEF At
  <2> QED BY <2>2, <2>3, Zenon
<1>6. ASSUME NEW next, Recheck(r, next), next \in {"resolve", "dial"} PROVE SessionInv'
  <2>1. At(r, "recheck") /\ Goto(r, IF StillReconnecting(r) THEN next ELSE "release")
    BY <1>6, Zenon DEF Recheck
  <2>2. CASE StillReconnecting(r)
    BY <1>3, <1>6, <2>1, <2>2, Zenon DEF At
  <2>3. CASE ~StillReconnecting(r)
    BY <1>1, <2>1, <2>3, StopsFree, FreeGoes, Zenon DEF At
  <2> QED BY <2>2, <2>3, Zenon
<1> QED BY <1>2, <1>4, <1>5, <1>6, Zenon

LEMMA SignalGoes ==
  ASSUME LifeInv, SessionInv, NEW p \in Procs, Signal(p)
  PROVE  SessionInv'
<1>1. /\ At(p, "signal") /\ ~At(p, "monitor") /\ ~At(p, "idle") /\ Becomes(p, Returning(p))
      /\ UNCHANGED core
  BY Zenon DEF Signal, At, core, client, network
<1>2. Free(p)
  BY <1>1, FreeFacts, Zenon DEF At, LogsIn, Reconnects, Reports, Watching
<1> QED BY <1>1, <1>2, FreeReturns, Zenon

\* Emit, but for the start of a monitor.
LEMMA EmitGoes ==
  ASSUME LifeInv, SessionInv, NEW p \in Procs, Emit(p),
         proc[p].say.state \in {"Connecting", "Reconnecting", "Disconnected"}
  PROVE  SessionInv'
<1>1. /\ At(p, "emit") /\ ~At(p, "monitor") /\ ~At(p, "idle") /\ UNCHANGED core
      /\ AfterEmit(p, proc[p].say.state) /\ proc[p].pc = "emit"
  BY Zenon DEF Emit, At, core, client, network
<1>2. CASE proc[p].say.state = "Connecting"
  <2>1. Becomes(p, WithSay(proc[p], "resolve", None))
    BY <1>1, <1>2, ZenonT(30) DEF AfterEmit, WithSay
  <2>2. Arrives(p, "resolve")
    BY <2>1, SayFields, Zenon
  <2>3. PICK g : Becomes(p, g) /\ g.pc = "resolve" /\ g.session = proc[p].session
    BY <2>2, Zenon DEF Arrives
  <2>4. /\ LogsIn(proc[p]) /\ LogsIn(g) /\ ~Reconnects(proc[p]) /\ Attempts(proc[p])
    BY <1>1, <1>2, <2>3, Zenon DEF LogsIn, Reconnects, Reports, Attempts
  <2>5. OwnerOK(p, proc[p])
    BY Zenon DEF SessionInv, OwnersOK
  <2>6. OwnerOK(p, g)
    BY <2>3, <2>4, <2>5, Zenon DEF OwnerOK, Reports, Unmonitored, Holding
  <2> QED BY <1>1, <2>3, <2>4, <2>6, CarryWalks, Zenon
<1>3. CASE proc[p].say.state = "Reconnecting"
  <2>1. Becomes(p, WithSay(proc[p], "plan", None))
    BY <1>1, <1>3, ZenonT(30) DEF AfterEmit, WithSay
  <2>2. Arrives(p, "plan")
    BY <2>1, SayFields, Zenon
  <2>3. PICK g : Becomes(p, g) /\ g.pc = "plan" /\ g.session = proc[p].session
    BY <2>2, Zenon DEF Arrives
  <2>4. Reconnects(proc[p]) /\ Reconnects(g) /\ ~LogsIn(proc[p])
    BY <1>1, <1>3, <2>3, Zenon DEF LogsIn, Reconnects, Reports
  <2>5. OwnerOK(p, g)
    BY <2>3, Zenon DEF OwnerOK, Attempts, Reports, Unmonitored, Holding
  <2> QED BY <1>1, <2>3, <2>4, <2>5, CarryWalks, Zenon
<1>4. CASE proc[p].say.state = "Disconnected"
  <2>1. Becomes(p, Returning(p))
    BY <1>1, <1>4, ZenonT(30) DEF AfterEmit
  <2>2. Free(p)
    BY <1>1, <1>4, FreeFacts, Zenon DEF LogsIn, Reconnects, Reports, Watching
  <2> QED BY <1>1, <2>1, <2>2, FreeReturns, Zenon
<1> QED BY <1>2, <1>3, <1>4, Zenon
\* Logout gives up and has nothing to detach.
LEMMA LogoutGivesUp ==
  ASSUME LifeInv, SessionInv, NEW c \in Callers, proc[c].pc \in {"logout", "logoutWait"},
         Becomes(c, Idle), UNCHANGED core,
         ~(/\ proc[c].session # 0 /\ sessionGeneration = proc[c].session
           /\ ~sessionLive /\ state = "Reconnecting")
  PROVE  SessionInv'
<1>1. c \in Procs /\ run # c /\ ~At(c, "monitor") /\ ~At(c, "idle") /\ ~At(c, "logoutOwned")
  BY Kinds, LifecycleAssumption, Zenon DEF SessionInv, ClientOK, At
<1>2. ~(state = "LoggingIn" /\ connectDone = c) /\ ~Reports(proc[c], "Connected")
  BY Zenon DEF SessionInv, LoginOK, LogsIn, Reports
<1>3. state = "Reconnecting" => sessionGeneration # 0
  BY Zenon DEF SessionInv, ClientOK
<1>4. Free(c)
  BY <1>1, <1>2, <1>3, Zenon DEF Free
<1> QED BY <1>1, <1>4, FreeReturns, Zenon

-----------------------------------------------------------------------------
(* The steps of the owner of connectDone *)

LEMMA OwnerMoves ==
  ASSUME LifeInv, SessionInv, NEW p \in Procs, NEW g, Becomes(p, g), Serves(p, g), RunsKeep,
         UNCHANGED <<closed, login, session, finalizer>>, connectDone' = p,
         connectDone = p \/ (connectDone = None /\ ~closed),
         g.pc # "monitor", ~At(p, "monitor"),
         state = "LoggedIn" => (runs'[run] # "open" => lastErr' = failure'[run]),
         OwnerOK(p, proc[p])'
  PROVE  SessionInv'
<1>1. ASSUME NEW q \in Procs, q # p PROVE OwnerOK(q, proc[q])'
  <2>1. ~Owns(proc[q]) /\ proc'[q] = proc[q]
    BY <1>1, OnlyOwner, Others, Zenon
  <2> QED BY <2>1, NotOwner, Zenon DEF Owns, Attempts
<1>2. \A q \in Procs : OwnerOK(q, proc[q])'
  BY <1>1, Zenon
<1> QED BY <1>2, Moves, Zenon

\* A run of an attempt that the Client knows nothing of.
LEMMA AttemptMoves ==
  ASSUME LifeInv, SessionInv, NEW p \in Procs, Attempts(proc[p]), NEW g, Becomes(p, g), RunsKeep,
         UNCHANGED <<closed, login, session, finalizer, connectDone>>,
         Free(p) \/ (LogsIn(g) /\ Reconnects(g) /\ g.session = proc[p].session),
         g.pc \notin Watching,
         OwnerOK(p, proc[p])'
  PROVE  SessionInv'
<1>1. connectDone = p /\ connectDone' = p /\ state # "LoggedIn"
  BY Zenon DEF LifeInv, Owns, SessionInv, OwnersOK, OwnerOK
<1>2. /\ g.pc # "monitor" /\ ~At(p, "monitor")
      /\ proc[p].pc \notin {"logoutOwned", "logout", "logoutWait"}
  BY Zenon DEF Attempts, Holding, At, Watching
<1>3. Serves(p, g)
  BY <1>1, <1>2, Zenon DEF Free, Serves, At
<1> QED BY <1>1, <1>2, <1>3, OwnerMoves, Zenon

LEMMA RunsEnd ==
  ASSUME LifeInv, NEW r, Finalize(r) \/ (\E err : Fail(r, err)) \/ UNCHANGED runs
  PROVE  RunsKeep
<1>1. Progress
  BY FailProgress, FinalizeProgress, RunsStay, Zenon
<1> QED BY <1>1, Zenon DEF RunsKeep, Progress

\* What the owner of an attempt that is not over may rely on.
LEMMA AttemptOK ==
  ASSUME SessionInv, NEW p \in Procs, Attempts(proc[p]), UNCHANGED <<login, session>>,
         proc'[p].pc \in Holding => proc'[p].run = proc[p].run /\ proc[p].pc \in Holding,
         proc'[p].pc \in {"dial", "failed", "dropRun", "rejectRun", "release", "badSession", "retry"}
  PROVE  OwnerOK(p, proc[p])'
<1>1. OwnerOK(p, proc[p]) /\ state' = state /\ run' = run
  BY Zenon DEF SessionInv, OwnersOK, login
<1> QED BY <1>1, Zenon DEF OwnerOK, Attempts, Holding, Unmonitored, Reports

\* login() failed, and the temporary run is dropped.
LEMMA DropsGo ==
  ASSUME LifeInv, SessionInv, NEW p \in Procs,
         \/ \E err \in {"network", "redirect", "terminal"} : ProvisionFails(p, err)
         \/ \E next \in {"dial", "failed"} : DropRun(p, next)
  PROVE  SessionInv'
<1>1. Shape(proc[p]) /\ UNCHANGED <<closed, login, session, finalizer, connectDone>>
  BY OwnerFacts, Zenon DEF ProvisionFails, DropRun, client
<1>2. RunsKeep
  BY RunsEnd, Zenon DEF ProvisionFails, DropRun
<1>3. PICK g : /\ Becomes(p, g) /\ g.session = proc[p].session
               /\ \/ g.pc \in {"dial", "failed"}
                  \/ g.pc = "dropRun" /\ g.run = proc[p].run
  <2>1. ASSUME NEW err, ProvisionFails(p, err) PROVE Arrives(p, "dropRun")
    <3>1. Becomes(p, WithErr(proc[p], "dropRun", err))
      BY <2>1, Zenon DEF ProvisionFails, WithErr
    <3> QED BY <3>1, ErrFields, Zenon
  <2>2. ASSUME NEW next \in {"dial", "failed"}, DropRun(p, next)
        PROVE  \E g : Becomes(p, g) /\ g.session = proc[p].session /\ g.pc = next
    <3>1. PICK e : Becomes(p, Dropped(proc[p], next, e))
      BY <2>2, Zenon DEF DropRun, Dropped
    <3>2. /\ Dropped(proc[p], next, e).session = proc[p].session
          /\ Dropped(proc[p], next, e).pc = next
      <4>1. Dropped(proc[p], next, e).session = proc[p].session
        BY <1>1, DroppedKeeps, ZenonT(30)
      <4>2. Dropped(proc[p], next, e).pc = next
        BY <1>1, DroppedFacts, SMTT(30)
      <4> QED BY <4>1, <4>2
    <3> QED BY <3>1, <3>2, Zenon
  <2>3. CASE Arrives(p, "dropRun")
    BY <2>3, Zenon DEF Arrives
  <2>4. CASE \E next \in {"dial", "failed"} : DropRun(p, next)
    BY <2>2, <2>4, Zenon
  <2> QED BY <2>1, <2>3, <2>4, Zenon
<1>4. proc[p].pc \in {"provision", "dropRun"} /\ Attempts(proc[p]) /\ proc[p].pc \in Holding
  BY Zenon DEF ProvisionFails, DropRun, At, Attempts, Holding
<1>5. LogsIn(g) /\ Reconnects(g) /\ g.pc \notin Watching
  BY <1>3, Zenon DEF LogsIn, Reconnects, Watching
<1>6. proc'[p] = g
  BY <1>3, Others, Zenon
<1>7. OwnerOK(p, proc[p])'
  <2>1. /\ proc'[p].pc \in Holding => proc'[p].run = proc[p].run
        /\ proc'[p].pc \in {"dial", "failed", "dropRun"}
    BY <1>3, <1>6, Zenon DEF Holding
  <2> QED BY <1>1, <1>4, <2>1, AttemptOK, Zenon
<1> QED BY <1>1, <1>2, <1>3, <1>4, <1>5, <1>7, AttemptMoves, Zenon

\* A run that is not the Client's is shut down: refused, or taken off by Logout.
LEMMA ShutdownsGo ==
  ASSUME LifeInv, SessionInv, NEW p \in Procs,
         \/ RejectRun(p) \/ SayGoodbye(p) \/ CloseRun(p)
         \/ At(p, "commit") /\ Free(p) /\ Refuse(p)
  PROVE  SessionInv'
<1>1. UNCHANGED <<closed, login, session, finalizer, connectDone>> /\ OwnerOK(p, proc[p])
  BY Zenon DEF RejectRun, SayGoodbye, CloseRun, Refuse, client, SessionInv, OwnersOK
<1>2. RunsKeep
  BY RunsEnd, Zenon DEF RejectRun, SayGoodbye, CloseRun, Refuse
<1>3. PICK next : /\ Goto(p, next) /\ <<proc[p].pc, next>> \in
                       {<<"rejectRun", "release">>, <<"sayGoodbye", "closeRun">>,
                        <<"closeRun", "emit">>, <<"commit", "rejectRun">>}
  BY ZenonT(30) DEF RejectRun, SayGoodbye, CloseRun, Refuse, At
<1>4. /\ proc'[p].pc = next /\ proc'[p].run = proc[p].run /\ proc'[p].say = proc[p].say
      /\ Becomes(p, proc'[p])
  <2> DEFINE h == [proc[p] EXCEPT !.pc = next]
  <2>1. Becomes(p, h)
    BY <1>3, ZenonT(30) DEF Goto
  <2>2. h.pc = next /\ h.run = proc[p].run /\ h.say = proc[p].say
    BY OwnerFacts, Keeps
  <2> HIDE DEF h
  <2> QED BY <2>1, <2>2, Others, Zenon
<1>5. /\ proc[p].pc \in {"rejectRun", "sayGoodbye", "closeRun", "commit"}
      /\ next \in {"release", "closeRun", "emit", "rejectRun"}
      /\ next = "emit" => proc[p].pc = "closeRun"
      /\ next = "closeRun" => proc[p].pc = "sayGoodbye"
  BY <1>3, ZenonT(30)
<1>6. Attempts(proc[p]) /\ proc[p].pc \in Holding /\ proc'[p].pc \notin Watching
  BY <1>4, <1>5, Zenon DEF Attempts, Holding, Watching
<1>7. Free(p)
  <2>1. CASE proc[p].pc = "commit"
    BY <2>1, Zenon DEF RejectRun, SayGoodbye, CloseRun, At
  <2>2. CASE proc[p].pc # "commit"
    BY <1>5, <2>2, FreeFacts, Zenon DEF LogsIn, Reconnects, Reports, Watching
  <2> QED BY <2>1, <2>2, Zenon
<1>8. OwnerOK(p, proc[p])'
  <2>1. state' = state /\ run' = run
    BY <1>1, Zenon DEF login
  <2>2. next \in {"emit", "closeRun"} => proc'[p].say.state = "Disconnected"
    BY <1>1, <1>4, <1>5, SMTT(30) DEF OwnerOK
  <2> QED BY <1>1, <1>4, <1>5, <1>6, <2>1, <2>2, Zenon DEF OwnerOK, Attempts, Holding, Unmonitored, Reports
<1> QED BY <1>1, <1>2, <1>4, <1>6, <1>7, <1>8, AttemptMoves, Zenon

\* beginConnect: the token is taken, or reconnect gives up.
LEMMA BeginsGo ==
  ASSUME LifeInv, SessionInv, NEW p \in Procs,
         (p \in Callers /\ LoginBegin(p)) \/ (p \in Runs /\ ReconnectBegin(p))
  PROVE  SessionInv'
<1>1. /\ UNCHANGED <<closed, login, session, finalizer, lastErr, runs, failure>>
      /\ RunsKeep /\ ~At(p, "monitor") /\ ~At(p, "idle")
  BY Zenon DEF LoginBegin, ReconnectBegin, client, network, RunsKeep, At
<1>2. CASE ~(connectDone = None /\ ~closed /\ connectDone' = p)
  <2>1. /\ Becomes(p, Idle) /\ UNCHANGED connectDone /\ At(p, "begin") /\ p \in Runs
        /\ ~StillReconnecting(p)
    BY <1>2, Zenon DEF LoginBegin, ReconnectBegin, Return, StillReconnecting
  <2>2. UNCHANGED core
    BY <1>1, <2>1, Zenon DEF core
  <2>3. Free(p)
    BY <2>1, StopsFree, Zenon DEF At
  <2> QED BY <1>1, <2>1, <2>2, <2>3, FreeReturns, Zenon
<1>3. CASE connectDone = None /\ ~closed /\ connectDone' = p
  <2>1. PICK next : /\ Goto(p, next)
                    /\ \/ p \in Callers /\ At(p, "login") /\ next = "loginOwned"
                       \/ p \in Runs /\ At(p, "begin") /\ next = "recheck"
    <3>1. connectDone' # connectDone
      BY <1>3, Kinds, Zenon
    <3> QED BY <3>1, Zenon DEF LoginBegin, ReconnectBegin
  <2>a. Arrives(p, next)
    BY <2>1, GotoFields, Zenon
  <2>2. PICK g : Becomes(p, g) /\ g.pc = next /\ g.session = proc[p].session
    BY <2>a, Zenon DEF Arrives
  <2>3. g.pc # "monitor" /\ OwnerOK(p, g)' /\ g.pc \notin Watching
    BY <2>1, <2>2, Zenon DEF OwnerOK, Attempts, Holding, Unmonitored, Reports, Watching
  <2>4. OwnerOK(p, proc[p])'
    BY <2>2, <2>3, Others, Zenon
  <2>5. state = "LoggedIn" => (runs'[run] # "open" => lastErr' = failure'[run])
    BY <1>1, Zenon DEF SessionInv, LoggedInOK
  <2>6. Serves(p, g)
    <3>1. CASE p \in Callers /\ At(p, "login")
      <4>1. run # p
        BY <3>1, Kinds, LifecycleAssumption, Zenon DEF SessionInv, ClientOK
      <4>2. Free(p)
        BY <3>1, <4>1, FreeFacts, Zenon DEF At, LogsIn, Reports
      <4> QED BY <2>3, <4>2, Zenon DEF Serves, Free
    <3>2. CASE p \in Runs /\ At(p, "begin") /\ next = "recheck"
      <4>1. ~(state = "LoggingIn" /\ connectDone = p) /\ Reconnects(g)
        BY <2>2, <3>2, Kinds, Zenon DEF SessionInv, LoginOK, Reconnects
      <4> QED BY <2>2, <2>3, <3>2, <4>1, Zenon DEF Serves, At, Reports, Watching
    <3> QED BY <2>1, <3>1, <3>2, Zenon
  <2> QED BY <1>1, <1>3, <2>2, <2>3, <2>4, <2>5, <2>6, OwnerMoves, Zenon
<1> QED BY <1>2, <1>3, Zenon

\* An attempt of reconnect failed.
LEMMA ReconnectFailsGoes ==
  ASSUME LifeInv, SessionInv, NEW r \in Runs, ReconnectFails(r)
  PROVE  SessionInv'
<1>1. /\ At(r, "failed") /\ r \in Procs /\ Attempts(proc[r]) /\ ~At(r, "monitor") /\ ~At(r, "idle")
      /\ UNCHANGED <<closed, login, session, finalizer, connectDone, runs, failure>>
  BY Kinds, Zenon DEF ReconnectFails, At, Attempts, network
<1>2. CASE closed \/ ~SessionIsCurrent(proc[r].session)
  <2>1. Goto(r, "release") /\ UNCHANGED core
    BY <1>1, <1>2, Zenon DEF ReconnectFails, core
  <2>2. Free(r)
    BY <1>1, <1>2, StopsFree, Zenon DEF StillReconnecting, At
  <2> QED BY <1>1, <2>1, <2>2, FreeGoes, Zenon
<1>3. CASE ~(closed \/ ~SessionIsCurrent(proc[r].session))
  <2>1. PICK next \in {"badSession", "retry"} : Goto(r, next)
    BY <1>3, Zenon DEF ReconnectFails
  <2>a. Arrives(r, next)
    BY <1>1, <2>1, GotoFields, Zenon
  <2>2. PICK g : Becomes(r, g) /\ g.pc = next /\ g.session = proc[r].session
    BY <2>a, Zenon DEF Arrives
  <2>3. proc'[r] = g /\ RunsKeep
    BY <1>1, <2>2, Others, Zenon DEF RunsKeep
  <2>4. OwnerOK(r, proc[r])'
    BY <1>1, <2>2, <2>3, AttemptOK, Zenon DEF Holding
  <2>5. connectDone = r /\ state # "LoggedIn" /\ ~(state = "LoggingIn" /\ connectDone = r)
    BY <1>1, Kinds, Zenon DEF LifeInv, Owns, SessionInv, OwnersOK, OwnerOK, LoginOK
  <2>6. Reconnects(g) /\ g.pc \notin Watching /\ g.pc # "monitor"
    BY <2>2, Zenon DEF Reconnects, Watching
  <2>7. Serves(r, g)
    BY <1>1, <2>2, <2>5, <2>6, Zenon DEF Serves, At
  <2> QED BY <1>1, <2>2, <2>3, <2>4, <2>5, <2>6, <2>7, OwnerMoves, Zenon
<1> QED BY <1>2, <1>3, Zenon

\* A run that was not dialled has no monitor.
LEMMA FreshRun ==
  ASSUME LifeInv, SessionInv, NEW n \in Runs, runs[n] = "none"
  PROVE  At(n, "idle")
<1>1. ~PastMonitor(proc[n]) /\ ~At(n, "monitor")
  BY Zenon DEF LifeInv, SessionInv, MonitorsOK
<1> QED BY <1>1, Zenon DEF PastMonitor, At

LEMMA DialGoes ==
  ASSUME LifeInv, SessionInv, NEW p \in Procs, Dial(p)
  PROVE  SessionInv'
<1>n. PICK n : n = generation + 1
  BY ZenonT(30)
<1> DEFINE g == WithRun(proc[p], "provision", n)
<1>1. Becomes(p, g)
  BY <1>n, ZenonT(30) DEF Dial, WithRun
<1>2. Shape(g) /\ g.pc = "provision" /\ g.run = n /\ g.session = proc[p].session
  BY OwnerFacts, RunFacts, Keeps, SMTT(30)
<1>3. n \in Runs /\ n \in Nat /\ n > generation /\ generation \in Nat
  BY <1>n, LifecycleAssumption, SMTT(30) DEF Dial, LifeInv, Shaped, Runs
<1>4. runs[n] = "none" /\ runs' = [runs EXCEPT ![n] = "open"]
  BY <1>n, <1>3, ZenonT(30) DEF LifeInv, Dial
<1>5. /\ UNCHANGED <<closed, login, session, finalizer, connectDone>>
      /\ At(p, "dial") /\ Attempts(proc[p]) /\ ~At(p, "idle")
  BY Zenon DEF Dial, client, At, Attempts
<1> HIDE DEF g
<1>6. runs'[n] = "open" /\ \A r \in Runs : r # n => runs'[r] = runs[r]
  BY <1>3, <1>4, ZenonT(30) DEF LifeInv, Shaped
<1>7. RunsKeep
  BY <1>4, <1>6, ZenonT(30) DEF RunsKeep
<1>8. At(n, "idle")'
  BY <1>1, <1>3, <1>4, <1>5, FreshRun, Others, Kinds, Zenon DEF At
<1>9. proc'[p] = g
  BY <1>1, Others, Zenon
<1>10. OwnerOK(p, proc[p])'
  <2>1. state' = state /\ run' = run /\ state # "LoggedIn" /\ run \in {None, p}
    BY <1>5, Zenon DEF login, SessionInv, OwnersOK, OwnerOK
  <2>2. runs'[n] # "none"
    BY <1>6, ZenonT(30)
  <2> QED BY <1>2, <1>3, <1>6, <1>8, <1>9, <2>1, <2>2, Zenon DEF OwnerOK, Reports
<1>11. LogsIn(g) /\ Reconnects(g) /\ g.pc \notin Watching
  BY <1>2, Zenon DEF LogsIn, Reconnects, Watching
<1> QED BY <1>1, <1>2, <1>5, <1>7, <1>10, <1>11, AttemptMoves, Zenon

LEMMA MonitorFinalizesGoes ==
  ASSUME LifeInv, SessionInv, NEW r \in Runs, MonitorFinalizes(r)
  PROVE  SessionInv'
<1>1. /\ r \in Procs /\ At(r, "monitor") /\ Finalize(r) /\ Goto(r, "decide")
      /\ UNCHANGED <<closed, login, session, finalizer, connectDone, lastErr, failure>>
      /\ state' = state /\ run' = run /\ sessionLive' = sessionLive
  BY Kinds, Zenon DEF MonitorFinalizes, client, login, session
<1>2. /\ RunsKeep /\ runs'[r] = "finalized" /\ runs[r] # "open"
      /\ \A s \in Runs : s # r => runs'[s] = runs[s]
  <2>1. RunsKeep
    BY <1>1, RunsEnd, Zenon
  <2> QED BY <1>1, <2>1, ZenonT(30) DEF Finalize, LifeInv, Shaped
<1>a. Arrives(r, "decide")
  BY <1>1, GotoFields, Zenon
<1>3. PICK g : Becomes(r, g) /\ g.pc = "decide"
  BY <1>a, Zenon DEF Arrives
<1>4. g.pc # "monitor" /\ g.pc \in Watching
  BY <1>3, Zenon DEF Watching
<1>5. state # "LoggingIn" \/ connectDone # r
  BY Kinds, Zenon DEF SessionInv, LoginOK
<1>6. state = "Reconnecting" => run # r
  BY <1>1, Zenon DEF SessionInv, ReconnectingOK, At, Watching
<1>7. Serves(r, g)
  BY <1>1, <1>4, <1>5, <1>6, Zenon DEF Serves, At, Reports
<1>8. state = "LoggedIn" => (runs'[run] # "open" => lastErr' = failure'[run])
  <2>1. state = "LoggedIn" => run \in Runs /\ (runs[run] # "open" => lastErr = failure[run])
    BY Zenon DEF SessionInv, LoggedInOK, ClientOK
  <2> QED BY <1>1, <1>2, <2>1, Zenon
<1>9. ASSUME NEW q \in Procs PROVE OwnerOK(q, proc[q])'
  <2>1. CASE q = r
    BY <1>3, <2>1, Others, Zenon DEF OwnerOK, Attempts, Holding, Unmonitored, Reports
  <2>2. CASE q # r
    <3>1. PICK h : h = proc'[q] /\ OwnerOK(q, h)
      BY <1>1, <1>3, <2>2, Others, Zenon DEF SessionInv, OwnersOK
    <3>2. ASSUME Unmonitored(h)
          PROVE  h.run \in Runs /\ At(h.run, "idle")' /\ runs'[h.run] = runs[h.run]
      <4>1. h.run \in Runs /\ At(h.run, "idle") /\ h.run # r
        BY <1>1, <3>1, <3>2, Zenon DEF OwnerOK, Unmonitored, Holding, At
      <4> QED BY <1>2, <1>3, <4>1, Others, Kinds, Zenon DEF At
    <3> QED BY <1>1, <3>1, <3>2, Zenon DEF OwnerOK, Unmonitored
  <2> QED BY <2>1, <2>2, Zenon
<1> QED BY <1>1, <1>2, <1>3, <1>4, <1>7, <1>8, <1>9, Moves, Zenon

-----------------------------------------------------------------------------
(* The ends of a session *)

\* A step of p that takes the Client to Logout, with no run and no session.
LEMMA Ends ==
  ASSUME LifeInv, SessionInv, NEW p \in Procs, NEW g, Becomes(p, g), g.pc # "monitor",
         p \in Runs => ~At(p, "idle"), ~closed,
         state' = "Logout", connState' = "Disconnected", run' = None, sessionLive' = FALSE,
         UNCHANGED <<closed, sessionGeneration, connectDone, runs, failure, finalizer>>,
         \A q \in Procs : q # p => /\ ~Reports(proc[q], "Connected")
                                   /\ proc[q].pc \in {"provision", "commit"} => lastErr' = lastErr,
         OwnerOK(p, proc[p])'
  PROVE  SessionInv'
<1>1. proc'[p] = g /\ \A q \in Procs : q # p => proc'[q] = proc[q]
  BY Others, ZenonT(30)
<1>2. ClientOK'
  BY ZenonT(30) DEF SessionInv, ClientOK
<1>3. FinalizerOK'
  <2>1. Settled(finalizer.run)' <=> Settled(finalizer.run)
    BY Zenon DEF Settled
  <2> QED BY <2>1, ZenonT(30) DEF SessionInv, FinalizerOK
<1>4. ASSUME NEW q \in Procs, q # p PROVE OwnerOK(q, proc[q])'
  <2>1. PICK h : h = proc'[q] /\ h = proc[q] /\ OwnerOK(q, h)
    BY <1>1, <1>4, Zenon DEF SessionInv, OwnersOK
  <2>2. Unmonitored(h) => At(h.run, "idle")' /\ runs'[h.run] = runs[h.run]
    BY <1>1, <2>1, Kinds, Zenon DEF OwnerOK, Unmonitored, Holding, At
  <2>3. h.pc = "logoutOwned" => q \in Callers
    BY <2>1, Zenon DEF OwnerOK
  <2>4. ~Reports(h, "Connected")
    BY <1>4, <2>1, Zenon
  <2>5. h.pc \in {"provision", "commit"} /\ runs'[h.run] # "open" => lastErr' = failure'[h.run]
    BY <1>4, <2>1, Zenon DEF OwnerOK
  <2> QED BY <2>1, <2>2, <2>3, <2>4, <2>5, Zenon DEF OwnerOK
<1>5. OwnersOK'
  BY <1>4, Zenon DEF OwnersOK
<1>6. LoginOK' /\ LoggedInOK' /\ ReconnectingOK'
  BY Zenon DEF LoginOK, LoggedInOK, ReconnectingOK
<1>7. MonitorsOK'
  BY <1>1, Kinds, Zenon DEF SessionInv, MonitorsOK, At
<1> QED BY <1>2, <1>3, <1>5, <1>6, <1>7, Zenon DEF SessionInv

\* recordTerminalForRunSession.
LEMMA RecordsGo ==
  ASSUME LifeInv, SessionInv, NEW p \in Procs, NEW recorded \in BOOLEAN, NEW err,
         IF recorded THEN RecordTerminal(err) ELSE UNCHANGED client,
         AfterRecord(p, recorded), UNCHANGED <<connectDone, network, finalizer, callback>>,
         ~At(p, "monitor"), ~At(p, "idle"), ~recorded => Free(p),
         recorded => /\ ~closed
                     /\ \A q \in Procs : q # p => /\ ~Reports(proc[q], "Connected")
                                               /\ proc[q].pc \notin {"provision", "commit"}
  PROVE  SessionInv'
<1>1. CASE ~recorded
  <2>1. UNCHANGED core /\ Becomes(p, Returning(p))
    BY <1>1, Zenon DEF core, client, network, AfterRecord
  <2> QED BY <1>1, <2>1, FreeReturns, Zenon
<1>2. CASE recorded
  <2>1. PICK g : Becomes(p, g) /\ g.pc \in {"signal", "idle", "release"}
    <3>1. /\ Idle.pc = "idle" /\ [Idle EXCEPT !.pc = "release"].pc = "release"
          /\ [Idle EXCEPT !.pc = "signal"].pc = "signal"
      BY ZenonT(30) DEF Idle, Goroutine
    <3> QED BY <1>2, <3>1, Zenon DEF AfterRecord, Returning
  <2>2. OwnerOK(p, proc[p])' /\ g.pc # "monitor"
    BY <2>1, Others, Zenon DEF OwnerOK, Attempts, Holding, Unmonitored, Reports
  <2>3. /\ state' = "Logout" /\ connState' = "Disconnected" /\ run' = None /\ sessionLive' = FALSE
        /\ UNCHANGED <<closed, sessionGeneration, connectDone, runs, failure, finalizer>>
    BY <1>2, Zenon DEF RecordTerminal, network
  <2> QED BY <1>2, <2>1, <2>2, <2>3, Ends, Zenon
<1> QED BY <1>1, <1>2, Zenon

\* While the monitor or reconnect of the Client's run is about to end the session, no other
\* goroutine has a run in hand.
LEMMA MonitorAlone ==
  ASSUME LifeInv, SessionInv, NEW r \in Runs, ~At(r, "idle"), ~closed, run = r
  PROVE  \A q \in Procs : q # r => /\ ~Reports(proc[q], "Connected")
                                   /\ proc[q].pc \notin {"provision", "commit"}
<1> SUFFICES ASSUME NEW q \in Procs, q # r
             PROVE  /\ ~Reports(proc[q], "Connected") /\ proc[q].pc \notin {"provision", "commit"}
  BY Zenon
<1>1. OwnerOK(q, proc[q]) /\ r # None
  BY LifecycleAssumption, Zenon DEF SessionInv, OwnersOK, Runs
<1>2. ~Reports(proc[q], "Connected")
  BY <1>1, Zenon DEF OwnerOK, Unmonitored
<1>3. ~Attempts(proc[q])
  BY <1>1, Zenon DEF OwnerOK
<1> QED BY <1>2, <1>3, Zenon DEF Attempts, Holding

\* While the owner of connectDone is at work, no other goroutine has a run in hand.
LEMMA OwnerAlone ==
  ASSUME LifeInv, NEW p \in Procs, connectDone = p
  PROVE  \A q \in Procs : q # p => /\ ~Reports(proc[q], "Connected")
                                   /\ proc[q].pc \notin {"provision", "commit"}
<1> SUFFICES ASSUME NEW q \in Procs, q # p
             PROVE  /\ ~Reports(proc[q], "Connected") /\ proc[q].pc \notin {"provision", "commit"}
  BY Zenon
<1>1. ~Owns(proc[q])
  BY OnlyOwner, Zenon
<1> QED BY <1>1, Zenon DEF Owns, Attempts, Holding, Reports

LEMMA TerminalsGo ==
  ASSUME LifeInv, SessionInv, NEW p \in Procs,
         \/ LoginFails(p)
         \/ p \in Runs /\ (MonitorTerminal(p) \/ BadRedirect(p) \/ ReconnectTerminal(p))
  PROVE  SessionInv'
<1>1. CASE LoginFails(p)
  <2>1. /\ At(p, "failed") /\ ~At(p, "monitor") /\ ~At(p, "idle")
        /\ IF ~closed THEN RecordTerminal(proc[p].err) ELSE UNCHANGED client
        /\ AfterRecord(p, ~closed) /\ UNCHANGED <<connectDone, network, finalizer, callback>>
    BY <1>1, ZenonT(30) DEF LoginFails, At
  <2>2. connectDone = p
    BY <2>1, OwnerFacts, Zenon DEF At
  <2>3. closed => Free(p)
    BY FreeFacts, Zenon
  <2> DEFINE recorded == ~closed
  <2>4. recorded \in BOOLEAN
    BY ZenonT(30)
  <2> QED BY <2>1, <2>2, <2>3, <2>4, OwnerAlone, RecordsGo, Zenon
<1>2. CASE p \in Runs /\ MonitorTerminal(p)
  <2> DEFINE recorded == ~closed /\ run = p
  <2>1. /\ At(p, "terminal") /\ ~At(p, "monitor") /\ ~At(p, "idle")
        /\ IF recorded THEN RecordTerminal(proc[p].err) ELSE UNCHANGED client
        /\ AfterRecord(p, recorded) /\ UNCHANGED <<connectDone, network, finalizer, callback>>
    BY <1>2, ZenonT(30) DEF MonitorTerminal, At
  <2>2. ~recorded => Free(p)
    BY <2>1, FreeFacts, Zenon DEF At, LogsIn, Reports
  <2>3. recorded \in BOOLEAN /\ (recorded => ~closed /\ run = p)
    BY ZenonT(30)
  <2> HIDE DEF recorded
  <2> QED BY <1>2, <2>1, <2>2, <2>3, MonitorAlone, RecordsGo, Zenon
<1>3. ASSUME p \in Runs, NEW err, RecordTerminalForSession(p, err),
             proc[p].pc \in {"badRedirect", "badSession"}
      PROVE  SessionInv'
  <2> DEFINE recorded == ~closed /\ run = p /\ SessionIsCurrent(proc[p].session)
  <2>1. /\ ~At(p, "monitor") /\ ~At(p, "idle")
        /\ IF recorded THEN RecordTerminal(err) ELSE UNCHANGED client
        /\ AfterRecord(p, recorded) /\ UNCHANGED <<connectDone, network, finalizer, callback>>
    BY <1>3, ZenonT(30) DEF RecordTerminalForSession, At
  <2>2. ~recorded => Free(p)
    BY <1>3, StopsFree, Zenon DEF StillReconnecting
  <2>3. recorded \in BOOLEAN /\ (recorded => ~closed /\ run = p)
    BY ZenonT(30)
  <2> HIDE DEF recorded
  <2> QED BY <1>3, <2>1, <2>2, <2>3, MonitorAlone, RecordsGo, Zenon
<1> QED BY <1>1, <1>2, <1>3, Zenon DEF BadRedirect, ReconnectTerminal, At

LEMMA LogoutEnds ==
  ASSUME LifeInv, SessionInv, NEW c \in Callers, LogoutExpires(c) \/ LogoutStart(c)
  PROVE  SessionInv'
<1>1. c \in Procs /\ c \notin Runs /\ UNCHANGED <<connectDone, runs, failure, finalizer>>
  BY Kinds, Zenon DEF LogoutExpires, LogoutStart, network
<1>2. UNCHANGED client => UNCHANGED core
  BY <1>1, Zenon DEF client, core
<1>3. ASSUME NEW g, Becomes(c, g), g.pc # "monitor", ~closed, Reset, ~sessionLive,
             UNCHANGED <<closed, session, lastErr>>,
             \A q \in Procs : q # c => ~Reports(proc[q], "Connected"), OwnerOK(c, proc[c])'
      PROVE  SessionInv'
  <2>1. /\ state' = "Logout" /\ connState' = "Disconnected" /\ run' = None
        /\ sessionLive' = FALSE /\ sessionGeneration' = sessionGeneration
    BY <1>3, SMTT(30) DEF Reset, session
  <2> QED BY <1>1, <1>3, <2>1, Ends, Zenon
<1>4. CASE LogoutExpires(c)
  <2> DEFINE detach == /\ proc[c].session # 0 /\ sessionGeneration = proc[c].session
                       /\ ~sessionLive /\ state = "Reconnecting"
             h == Goroutine("emit", None, 0, "ended", Farewell)
  <2>1. proc[c].pc \in {"logout", "logoutWait"}
    BY <1>4, Zenon DEF LogoutExpires
  <2>2. CASE ~detach
    BY <1>2, <1>4, <2>1, <2>2, LogoutGivesUp, Zenon DEF LogoutExpires, Return
  <2>3. CASE detach
    <3>1. Becomes(c, h) /\ Reset /\ UNCHANGED <<closed, session, lastErr>>
      BY <1>4, <2>3, Zenon DEF LogoutExpires
    <3>2. h.pc = "emit" /\ h.say.state = "Disconnected"
      BY FarewellFacts, ZenonT(30)
    <3> HIDE DEF h
    <3>3. OwnerOK(c, proc[c])'
      BY <1>1, <3>1, <3>2, Others, Zenon DEF OwnerOK, Attempts, Holding, Unmonitored, Reports
    <3>4. ~closed /\ ~sessionLive
      BY <2>3, Zenon DEF SessionInv, ClientOK
    <3>5. \A q \in Procs : ~Reports(proc[q], "Connected")
      BY <2>3, <3>4, Zenon DEF SessionInv, OwnersOK, OwnerOK
    <3> QED BY <1>3, <3>1, <3>2, <3>3, <3>4, <3>5, Zenon
  <2> QED BY <2>2, <2>3, Zenon
<1>5. CASE LogoutStart(c)
  <2>1. At(c, "logoutOwned") /\ connectDone = c /\ ~At(c, "monitor") /\ ~sessionLive
    BY <1>1, <1>5, OwnerFacts, Zenon DEF LogoutStart, At, SessionInv, OwnersOK, OwnerOK
  <2>2. CASE closed
    BY <1>1, <1>2, <1>5, <2>1, <2>2, FreeFacts, FreeGoes, Zenon DEF LogoutStart
  <2>3. CASE ~closed
    <3>1. Reset /\ UNCHANGED <<closed, session, lastErr>>
      BY <1>5, <2>3, Zenon DEF LogoutStart
    <3>2. PICK g : /\ Becomes(c, g)
                   /\ \/ run # None /\ g.pc = "sayGoodbye" /\ g.run = run /\ g.say.state = "Disconnected"
                      \/ g.pc = "emit" /\ g.say.state = "Disconnected"
                      \/ g.pc = "release"
      <4>1. [Idle EXCEPT !.pc = "release"].pc = "release"
        BY ZenonT(30) DEF Idle, Goroutine
      <4>2. LET g == Goroutine("sayGoodbye", run, 0, "ended", Farewell)
            IN g.pc = "sayGoodbye" /\ g.run = run /\ g.say.state = "Disconnected"
        BY FarewellFacts, ZenonT(30)
      <4>3. LET g == Goroutine("emit", None, 0, "ended", Farewell)
            IN g.pc = "emit" /\ g.say.state = "Disconnected"
        BY FarewellFacts, ZenonT(30)
      <4> QED BY <1>5, <2>3, <4>1, <4>2, <4>3, Zenon DEF LogoutStart
    <3>3. OwnerOK(c, proc[c])'
      <4>1. run # None => run \in Runs
        BY Zenon DEF SessionInv, ClientOK
      <4>2. proc'[c] = g /\ state' = "Logout" /\ run' = None
        BY <1>1, <3>1, <3>2, Others, Zenon DEF Reset
      <4> QED BY <3>2, <4>1, <4>2, Zenon DEF OwnerOK, Attempts, Holding, Unmonitored, Reports
    <3>4. g.pc # "monitor" /\ \A q \in Procs : q # c => ~Reports(proc[q], "Connected")
      BY <1>1, <2>1, <3>2, OwnerAlone, Zenon
    <3> QED BY <1>3, <2>1, <2>3, <3>1, <3>2, <3>3, <3>4, Zenon
  <2> QED BY <2>2, <2>3, Zenon
<1> QED BY <1>4, <1>5, Zenon

LEMMA CloseEnds == ASSUME LifeInv, SessionInv, Close PROVE SessionInv'
<1>1. /\ ~closed /\ closed' = TRUE /\ run' = None /\ state' = "Logout" /\ connState' = "Disconnected"
      /\ sessionLive' = FALSE
      /\ UNCHANGED <<sessionGeneration, lastErr, connectDone, runs, failure, proc>>
  BY Zenon DEF Close, network
<1>2. ClientOK'
  BY <1>1, ZenonT(30) DEF SessionInv, ClientOK
<1>3. FinalizerOK'
  <2>1. /\ finalizer'.pc = (IF run = None THEN "wait" ELSE "fail") /\ finalizer'.run = run
    BY ZenonT(30) DEF Close
  <2>2. run \in Runs \cup {None}
    BY Zenon DEF SessionInv, ClientOK
  <2>3. run = None => Settled(finalizer.run)'
    BY <2>1, Zenon DEF Settled
  <2> QED BY <1>1, <2>1, <2>2, <2>3, ZenonT(30) DEF FinalizerOK
<1>4. ASSUME NEW q \in Procs PROVE OwnerOK(q, proc[q])'
  <2>1. OwnerOK(q, proc[q])
    BY Zenon DEF SessionInv, OwnersOK
  <2>2. PICK h : h = proc[q] /\ h = proc'[q]
    BY <1>1, Zenon
  <2>3. Unmonitored(h) => At(h.run, "idle")' /\ runs'[h.run] = runs[h.run]
    BY <1>1, <2>1, <2>2, Zenon DEF OwnerOK, At
  <2> QED BY <1>1, <2>1, <2>2, <2>3, Zenon DEF OwnerOK
<1>5. OwnersOK' /\ LoginOK' /\ LoggedInOK' /\ ReconnectingOK'
  BY <1>1, <1>4, Zenon DEF OwnersOK, LoginOK, LoggedInOK, ReconnectingOK
<1>6. MonitorsOK'
  BY <1>1, Zenon DEF SessionInv, MonitorsOK, At
<1> QED BY <1>2, <1>3, <1>5, <1>6, Zenon DEF SessionInv

-----------------------------------------------------------------------------
(* The starts of a session and of its ends *)

\* The owner of connectDone moves the Client to another state.
LEMMA OwnerSteps ==
  ASSUME LifeInv, SessionInv, NEW p \in Procs, NEW g, Becomes(p, g), connectDone = p, ~closed,
         UNCHANGED <<closed, finalizer, connectDone, runs>>, g.pc # "monitor",
         ClientOK', OwnerOK(p, proc[p])', LoginOK', LoggedInOK', state' # "Reconnecting"
  PROVE  SessionInv'
<1>1. proc'[p] = g /\ \A q \in Procs : q # p => proc'[q] = proc[q]
  BY Others, ZenonT(30)
<1>2. FinalizerOK'
  <2>1. finalizer.pc = "none"
    BY ZenonT(30) DEF SessionInv, FinalizerOK
  <2> QED BY <2>1, ZenonT(30) DEF FinalizerOK
<1>3. ASSUME NEW q \in Procs, q # p PROVE OwnerOK(q, proc[q])'
  <2>1. ~Owns(proc[q]) /\ proc'[q] = proc[q]
    BY <1>1, <1>3, OnlyOwner, Zenon
  <2> QED BY <2>1, NotOwner, Zenon DEF Owns, Attempts
<1>4. OwnersOK' /\ ReconnectingOK'
  BY <1>3, Zenon DEF OwnersOK, ReconnectingOK
<1>5. MonitorsOK'
  BY <1>1, Kinds, Zenon DEF SessionInv, MonitorsOK, At
<1> QED BY <1>2, <1>4, <1>5, Zenon DEF SessionInv

LEMMA LoginStartGoes ==
  ASSUME LifeInv, SessionInv, NEW c \in Callers, LoginStart(c)
  PROVE  SessionInv'
<1>1. /\ c \in Procs /\ At(c, "loginOwned") /\ ~closed /\ state = "Logout"
      /\ state' = "LoggingIn" /\ connState' = "Connecting"
      /\ UNCHANGED <<closed, run, session, finalizer, connectDone, runs>>
  BY Kinds, Zenon DEF LoginStart, network
<1>2. connectDone = c /\ connectDone' = c /\ run = None /\ run' = None
  BY <1>1, OwnerFacts, Zenon DEF At, SessionInv, ClientOK
<1>3. PICK g : Becomes(c, g) /\ g.pc = "emit" /\ g.say.state = "Connecting"
  <2> DEFINE g == Goroutine("emit", None, 0, "ended", Event("Connecting", callbackEpoch, NextChange))
  <2>1. g.pc = "emit" /\ g.say.state = "Connecting"
    BY ZenonT(30) DEF Goroutine, Event
  <2>2. Becomes(c, g)
    BY Zenon DEF LoginStart
  <2> HIDE DEF g
  <2> QED BY <2>1, <2>2, Zenon
<1>4. proc'[c] = g /\ g.pc # "monitor" /\ LogsIn(g)
  BY <1>1, <1>3, Others, Zenon DEF LogsIn, Reports
<1>5. ClientOK'
  BY <1>1, <1>2, ZenonT(30) DEF SessionInv, ClientOK, session
<1>6. OwnerOK(c, proc[c])' /\ LoginOK' /\ LoggedInOK'
  BY <1>1, <1>2, <1>3, <1>4, Zenon DEF OwnerOK, LoginOK, LoggedInOK, Holding, Unmonitored, Reports
<1> QED BY <1>1, <1>2, <1>3, <1>4, <1>5, <1>6, OwnerSteps, Zenon

LEMMA CommitsGo ==
  ASSUME LifeInv, SessionInv, NEW p \in Procs, LoginCommit(p) \/ ReconnectCommit(p)
  PROVE  SessionInv'
<1>1. proc[p].pc = "commit" /\ At(p, "commit") /\ connectDone = p
  BY OwnerFacts, Zenon DEF LoginCommit, ReconnectCommit, At, Holding
<1>2. CASE Refuse(p)
  <2>1. closed \/ (p \in Runs /\ ~StillReconnecting(p)) \/ (~closed /\ Install(p))
    BY Zenon DEF LoginCommit, ReconnectCommit
  <2>2. closed \/ (p \in Runs /\ ~StillReconnecting(p)) => Free(p)
    BY <1>1, FreeFacts, StopsFree, Zenon
  <2>3. ASSUME ~closed, Install(p) PROVE FALSE
    <3>1. Goto(p, "rejectRun")
      BY <1>2, Zenon DEF Refuse
    <3>2. Becomes(p, WithSay(proc[p], "emit", Event("Connected", callbackEpoch, NextChange)))
      BY <2>3, Zenon DEF Install, WithSay
    <3>3. Arrives(p, "rejectRun") /\ Arrives(p, "emit")
      BY <3>1, <3>2, GotoFields, SayFields, Zenon
    <3>4. proc'[p].pc = "rejectRun" /\ proc'[p].pc = "emit"
      BY <3>3, Others, Zenon DEF Arrives
    <3> QED BY <3>4, ZenonT(30)
  <2> QED BY <1>1, <1>2, <2>1, <2>2, <2>3, ShutdownsGo, Zenon
<1>3. CASE ~Refuse(p)
  <2>1. /\ ~closed /\ Install(p) /\ sessionLive' = TRUE
        /\ sessionGeneration \in Nat => sessionGeneration' \in Nat /\ sessionGeneration' # 0
    <3>1. CASE LoginCommit(p)
      BY <1>3, <3>1, SMTT(30) DEF LoginCommit
    <3>2. CASE ReconnectCommit(p)
      <4>1. /\ ~closed /\ Install(p) /\ sessionLive /\ run = p /\ p \in Runs
            /\ sessionLive' = sessionLive /\ sessionGeneration' = sessionGeneration
        BY <1>3, <3>2, Zenon DEF ReconnectCommit, StillReconnecting, SessionIsCurrent, session
      <4>2. run # None => sessionGeneration # 0
        BY Zenon DEF SessionInv, ClientOK
      <4> QED BY <4>1, <4>2, Kinds, ZenonT(30)
    <3> QED BY <3>1, <3>2, Zenon
  <2>2. PICK g : /\ Becomes(p, g) /\ g.pc = "emit" /\ g.run = proc[p].run
                 /\ g.say.state = "Connected"
    <3> DEFINE e == Event("Connected", callbackEpoch, NextChange)
               g == WithSay(proc[p], "emit", e)
    <3>1. e.state = "Connected" /\ g.pc = "emit" /\ g.run = proc[p].run /\ g.say = e
      BY OwnerFacts, SayFacts, SMTT(30) DEF Event
    <3>2. Becomes(p, g)
      BY <2>1, Zenon DEF Install, WithSay
    <3> HIDE DEF e, g
    <3> QED BY <3>1, <3>2, Zenon
  <2>3. /\ state' = "LoggedIn" /\ connState' = "Connected" /\ run' = g.run
        /\ UNCHANGED <<closed, lastErr, finalizer, connectDone, runs, failure>>
    BY <2>1, <2>2, Zenon DEF Install, network
  <2>4. /\ g.run \in Runs /\ At(g.run, "idle") /\ runs[g.run] # "none"
        /\ runs[g.run] # "open" => lastErr = failure[g.run]
    BY <1>1, <2>2, Zenon DEF SessionInv, OwnersOK, OwnerOK, Holding, Unmonitored
  <2>5. proc'[p] = g /\ At(g.run, "idle")'
    BY <1>1, <2>2, <2>4, Others, Kinds, Zenon DEF At
  <2>6. ClientOK'
    BY <2>1, <2>3, <2>4, LifecycleAssumption, ZenonT(30) DEF SessionInv, ClientOK, Runs
  <2>7. OwnerOK(p, proc[p])'
    BY <2>2, <2>3, <2>4, <2>5, Zenon DEF OwnerOK, Attempts, Holding, Unmonitored, Reports
  <2>8. LoginOK' /\ LoggedInOK'
    BY <2>1, <2>2, <2>3, <2>4, <2>5, Zenon DEF LoginOK, LoggedInOK, Watched, Reports
  <2>9. g.pc # "monitor" /\ state' # "Reconnecting"
    BY <2>2, <2>3, Zenon
  <2> QED BY <1>1, <2>1, <2>2, <2>3, <2>6, <2>7, <2>8, <2>9, OwnerSteps, Zenon
<1> QED BY <1>2, <1>3, Zenon

LEMMA ReconnectStartGoes ==
  ASSUME LifeInv, SessionInv, NEW r \in Runs, ReconnectStart(r)
  PROVE  SessionInv'
<1>1. /\ r \in Procs /\ At(r, "reconnect") /\ ~At(r, "idle") /\ ~At(r, "monitor")
      /\ runs[r] = "finalized" /\ ~(state = "LoggingIn" /\ connectDone = r)
      /\ UNCHANGED <<connectDone, finalizer, runs, failure>>
  BY Kinds, Zenon DEF ReconnectStart, At, network, LifeInv, PastMonitor, SessionInv, LoginOK
<1>2. CASE closed \/ run # r \/ state = "Logout" \/ ~sessionLive
  <2>1. Becomes(r, Idle) /\ UNCHANGED core
    BY <1>1, <1>2, Zenon DEF ReconnectStart, Return, core, client
  <2>2. Free(r)
    <3>1. CASE closed \/ run # r
      BY <1>1, <3>1, FreeFacts, Zenon DEF At, LogsIn, Reports
    <3>2. CASE state = "Logout" \/ ~sessionLive
      BY <1>1, <3>2, Zenon DEF Free, At, Reports
    <3> QED BY <1>2, <3>1, <3>2, Zenon
  <2> QED BY <1>1, <2>1, <2>2, FreeReturns, Zenon
<1>3. CASE ~closed /\ run = r /\ sessionLive /\ state # "Logout"
  <2>1. /\ state' = "Reconnecting" /\ connState' = "Reconnecting"
        /\ UNCHANGED <<closed, run, sessionLive, sessionGeneration, lastErr>>
    BY <1>3, Zenon DEF ReconnectStart, session
  <2>2. PICK g : /\ Becomes(r, g) /\ g.session = sessionGeneration /\ Reconnects(g)
                 /\ g.pc = "plan" \/ Reports(g, "Reconnecting")
    <3> DEFINE e == Event("Reconnecting", callbackEpoch, NextChange)
               h == Goroutine("plan", None, sessionGeneration, lastErr, None)
               i == Goroutine("emit", None, sessionGeneration, lastErr, e)
    <3>1. /\ h.pc = "plan" /\ h.session = sessionGeneration
          /\ i.pc = "emit" /\ i.say.state = "Reconnecting" /\ i.session = sessionGeneration
      BY ZenonT(30) DEF Goroutine, Event
    <3>2. Becomes(r, h) \/ Becomes(r, i)
      BY <1>3, Zenon DEF ReconnectStart
    <3> HIDE DEF h, i
    <3> QED BY <3>1, <3>2, Zenon DEF Reconnects, Reports
  <2>3. proc'[r] = g /\ \A q \in Procs : q # r => proc'[q] = proc[q]
    BY <1>1, <2>2, Others, Zenon
  <2>4. g.pc \notin Watching
    BY <2>2, Zenon DEF Watching, Reconnects, Reports
  <2>5. ClientOK'
    BY <1>3, <2>1, LifecycleAssumption, ZenonT(30) DEF SessionInv, ClientOK, Runs
  <2>6. FinalizerOK'
    <3>1. finalizer.pc = "none"
      BY <1>3, ZenonT(30) DEF SessionInv, FinalizerOK
    <3> QED BY <1>1, <1>3, <2>1, <3>1, ZenonT(30) DEF FinalizerOK
  <2>7. ASSUME NEW q \in Procs PROVE OwnerOK(q, proc[q])'
    <3>1. OwnerOK(q, proc[q]) /\ ~Attempts(proc[q]) /\ ~Reports(proc[q], "Connected")
      <4>1. OwnerOK(q, proc[q]) /\ r # None
        BY LifecycleAssumption, Zenon DEF SessionInv, OwnersOK, Runs
      <4>2. CASE q = r
        BY <1>1, <4>1, <4>2, Zenon DEF At, Attempts, Holding, Reports
      <4>3. CASE q # r
        BY <1>1, <1>3, <4>1, <4>3, Zenon DEF OwnerOK, Unmonitored
      <4> QED BY <4>2, <4>3, Zenon
    <3>2. CASE q = r
      <4>1. OwnerOK(q, g)'
        BY <2>2, Zenon DEF OwnerOK, Attempts, Holding, Unmonitored, Reports
      <4> QED BY <2>3, <3>2, <4>1, Zenon
    <3>3. CASE q # r
      BY <2>1, <2>3, <3>1, <3>3, Zenon DEF OwnerOK, Attempts, Holding, Unmonitored, Reports
    <3> QED BY <3>2, <3>3, Zenon
  <2>8. OwnersOK' /\ LoginOK' /\ LoggedInOK'
    BY <2>1, <2>7, Zenon DEF OwnersOK, LoginOK, LoggedInOK
  <2>9. ReconnectingOK'
    BY <1>3, <2>1, <2>2, <2>3, <2>4, Zenon DEF ReconnectingOK
  <2>10. MonitorsOK'
    BY <1>1, <2>3, <2>4, Kinds, Zenon DEF SessionInv, MonitorsOK, At, Watching
  <2> QED BY <2>5, <2>6, <2>8, <2>9, <2>10, Zenon DEF SessionInv
<1> QED BY <1>2, <1>3, Zenon

\* Logout cancels the session: with the token, or of a reconnect that has it.
LEMMA LogoutCancels ==
  ASSUME LifeInv, SessionInv, NEW c \in Callers, NEW g, Becomes(c, g), At(c, "logout"), ~closed,
         UNCHANGED <<closed, login, sessionGeneration, lastErr, runs, failure, finalizer>>,
         sessionLive' = FALSE,
         \/ g.pc = "logoutOwned" /\ connectDone = None /\ connectDone' = c
         \/ /\ g.pc = "logoutWait" /\ g.session = sessionGeneration /\ state = "Reconnecting"
            /\ connectDone' = connectDone
  PROVE  SessionInv'
<1>1. c \in Procs /\ c \notin Runs /\ state' = state /\ run' = run /\ connState' = connState
  BY Kinds, Zenon DEF login
<1>2. proc'[c] = g /\ \A q \in Procs : q # c => proc'[q] = proc[q]
  BY <1>1, Others, ZenonT(30)
<1>3. ClientOK'
  BY <1>1, ZenonT(30) DEF SessionInv, ClientOK
<1>4. FinalizerOK'
  <2>1. finalizer.pc = "none"
    BY ZenonT(30) DEF SessionInv, FinalizerOK
  <2> QED BY <2>1, ZenonT(30) DEF FinalizerOK
<1>5. ASSUME NEW q \in Procs PROVE OwnerOK(q, proc[q])'
  <2>1. CASE q = c
    <3>1. OwnerOK(q, g)'
      BY <2>1, Zenon DEF OwnerOK, Attempts, Holding, Unmonitored, Reports
    <3> QED BY <1>2, <2>1, <3>1, Zenon
  <2>2. CASE q # c
    <3>1. PICK h : h = proc'[q] /\ h = proc[q] /\ OwnerOK(q, h)
      BY <1>2, <2>2, Zenon DEF SessionInv, OwnersOK
    <3>2. Unmonitored(h) => At(h.run, "idle")'
      BY <1>1, <1>2, <3>1, Kinds, Zenon DEF OwnerOK, Unmonitored, Holding, At
    <3> QED BY <1>1, <3>1, <3>2, Zenon DEF OwnerOK
  <2> QED BY <2>1, <2>2, Zenon
<1>6. LoginOK'
  <2>1. state = "LoggingIn" => connectDone' = connectDone /\ connectDone # c /\ connectDone \in Procs
    BY Kinds, Zenon DEF SessionInv, LoginOK, LogsIn, Reports, At
  <2> QED BY <1>1, <1>2, <2>1, Zenon DEF SessionInv, LoginOK
<1>7. LoggedInOK'
  <2> SUFFICES ASSUME state = "LoggedIn"
               PROVE  /\ Watched' /\ (runs'[run] # "open" => lastErr' = failure'[run])
                      /\ \E d \in Callers : At(d, "logoutOwned")'
    BY <1>1, Zenon DEF LoggedInOK
  <2>1. /\ connectDone = None /\ run \in Runs /\ run \in Procs /\ run # c /\ Watched
        /\ runs[run] # "open" => lastErr = failure[run]
    BY <1>1, Kinds, Zenon DEF SessionInv, LoggedInOK, ClientOK
  <2>2. At(c, "logoutOwned")'
    BY <1>2, <2>1, Zenon DEF At
  <2>3. \A q \in Procs : ~Reports(proc[q], "Connected")
    BY <2>1, Kinds, Zenon DEF LifeInv, Owns, Reports
  <2>4. Watched'
    BY <1>1, <1>2, <2>1, <2>2, <2>3, Zenon DEF Watched, At
  <2> QED BY <2>1, <2>2, <2>4, Zenon
<1>8. ReconnectingOK'
  <2> SUFFICES ASSUME state = "Reconnecting" PROVE proc'[run].pc \notin Watching /\ LogoutInCharge'
    BY <1>1, Zenon DEF ReconnectingOK
  <2>1. run \in Procs /\ run # c /\ proc[run].pc \notin Watching
    BY <1>1, Kinds, Zenon DEF SessionInv, ReconnectingOK, ClientOK
  <2> QED BY <1>2, <2>1, Zenon DEF LogoutInCharge, At
<1>9. MonitorsOK'
  BY <1>1, <1>2, Kinds, Zenon DEF SessionInv, MonitorsOK, At
<1> QED BY <1>3, <1>4, <1>5, <1>6, <1>7, <1>8, <1>9, Zenon DEF SessionInv, OwnersOK

LEMMA LogoutsGo ==
  ASSUME LifeInv, SessionInv, NEW c \in Callers, LogoutBegin(c) \/ LogoutPark(c)
  PROVE  SessionInv'
<1>1. /\ c \in Procs /\ At(c, "logout") /\ ~closed /\ ~At(c, "monitor") /\ c \notin Runs
      /\ UNCHANGED <<closed, login, sessionGeneration, lastErr, runs, failure, finalizer>>
  BY Kinds, Zenon DEF LogoutBegin, LogoutPark, At, network
<1>2. CASE LogoutBegin(c)
  <2>a. Arrives(c, "logoutOwned")
    BY <1>1, <1>2, GotoFields, Zenon DEF LogoutBegin
  <2>1. PICK g : Becomes(c, g) /\ g.pc = "logoutOwned"
    BY <2>a, Zenon DEF Arrives
  <2>2. connectDone = None /\ connectDone' = c /\ sessionLive' = FALSE
    BY <1>2, Zenon DEF LogoutBegin
  <2> QED BY <1>1, <2>1, <2>2, LogoutCancels, Zenon
<1>3. CASE LogoutPark(c)
  <2> DEFINE cancel == state = "Reconnecting" /\ sessionLive
             b == IF cancel THEN sessionGeneration ELSE proc[c].session
             g == WithSession(proc[c], "logoutWait", b)
  <2>1. Becomes(c, g) /\ connectDone' = connectDone /\ sessionLive' = (sessionLive /\ ~cancel)
    BY <1>3, ZenonT(30) DEF LogoutPark, WithSession
  <2>2. g.pc = "logoutWait" /\ g.session = b
    BY <1>1, OwnerFacts, SessionFacts, Keeps, SMTT(30)
  <2> HIDE DEF g
  <2>3. CASE cancel
    <3>1. sessionLive' = FALSE
      BY <2>1, <2>3, Zenon
    <3>2. g.session = sessionGeneration /\ state = "Reconnecting"
      BY <2>2, <2>3, Zenon
    <3> QED BY <1>1, <2>1, <2>2, <3>1, <3>2, LogoutCancels, Zenon
  <2>4. CASE ~cancel
    <3>0. sessionLive \in BOOLEAN
      BY Zenon DEF SessionInv, ClientOK
    <3>1. sessionLive' = sessionLive /\ g.session = proc[c].session
      <4>1. g.session = proc[c].session
        BY <2>2, <2>4, Zenon
      <4>2. sessionLive' = (sessionLive /\ ~cancel)
        BY <2>1, Zenon
      <4> HIDE DEF cancel
      <4>3. sessionLive' = sessionLive
        BY <2>4, <3>0, <4>2, SMT
      <4> QED BY <4>1, <4>3, Zenon
    <3>2. UNCHANGED core
      BY <1>1, <2>1, <3>1, ZenonT(30) DEF core, session
    <3>3. OwnerOK(c, g) /\ g.pc # "monitor"
      BY <2>2, Zenon DEF OwnerOK, Attempts, Holding, Unmonitored, Reports
    <3>4. ~(state = "LoggingIn" /\ connectDone = c) /\ run # c
      BY <1>1, Kinds, LifecycleAssumption, Zenon
         DEF SessionInv, LoginOK, ClientOK, LogsIn, Reports, At
    <3>5. Serves(c, g)
      BY <1>1, <2>2, <3>1, <3>4, Zenon DEF Serves, At, Reports
    <3> QED BY <1>1, <2>1, <3>2, <3>3, <3>5, Walks, Zenon
  <2> QED BY <2>3, <2>4, Zenon
<1> QED BY <1>2, <1>3, Zenon

-----------------------------------------------------------------------------
(* The steps that move several goroutines *)

LEMMA ReleasesGo ==
  ASSUME LifeInv, SessionInv, NEW p \in Procs, EndConnect(p) \/ (p \in Runs /\ RetryLater(p))
  PROVE  SessionInv'
<1>1. /\ UNCHANGED <<closed, login, session, lastErr, runs, failure, finalizer>> /\ connectDone' = None
      /\ UNCHANGED <<state, connState, run, sessionLive, sessionGeneration>>
  BY Zenon DEF EndConnect, RetryLater, EndConnectTo, client, network, login, session
<1>2. connectDone = p /\ proc[p].pc \in {"release", "retry"} /\ Shape(proc[p])
  BY OwnerFacts, Zenon DEF EndConnect, RetryLater, At
<1>3. /\ \/ proc[p].pc = "release" /\ proc'[p].pc = "idle"
         \/ /\ p \in Runs /\ proc[p].pc = "retry" /\ proc'[p].pc = "backoff"
            /\ proc'[p].session = proc[p].session
  <2>1. CASE EndConnect(p)
    <3>1. Idle.pc = "idle"
      BY ZenonT(30) DEF Idle, Goroutine
    <3>2. proc[p].pc = "release" /\ proc'[p] = Idle
      BY <2>1, ZenonT(30) DEF EndConnect, EndConnectTo, At
    <3> QED BY <3>1, <3>2, Zenon
  <2>2. CASE p \in Runs /\ RetryLater(p)
    <3> DEFINE h == [proc[p] EXCEPT !.pc = "backoff"]
    <3>1. proc[p].pc = "retry" /\ proc'[p] = h
      BY <2>2, ZenonT(30) DEF RetryLater, EndConnectTo, At
    <3>2. h.pc = "backoff" /\ h.session = proc[p].session
      BY <1>2, Keeps, SMTT(30)
    <3> HIDE DEF h
    <3> QED BY <2>2, <3>1, <3>2, Zenon
  <2> QED BY <2>1, <2>2, Zenon
<1>4. ASSUME NEW q \in Procs, q # p
      PROVE  \/ proc'[q] = proc[q]
             \/ /\ proc[q].pc = "logoutWait" /\ proc'[q].pc = "logout"
                /\ proc'[q].session = proc[q].session
  <2>1. proc'[q] = IF At(q, "logoutWait") THEN [proc[q] EXCEPT !.pc = "logout"] ELSE proc[q]
    BY <1>4, ZenonT(30) DEF EndConnect, RetryLater, EndConnectTo
  <2> DEFINE h == [proc[q] EXCEPT !.pc = "logout"]
  <2>2. h.pc = "logout" /\ h.session = proc[q].session
    BY OwnerFacts, Keeps, SMTT(30)
  <2> HIDE DEF h
  <2> QED BY <2>1, <2>2, Zenon DEF At, h
<1>5. ASSUME NEW q \in Procs PROVE ~Owns(proc[q])' /\ (q # p => ~Owns(proc[q]))
  <2>1. CASE q = p
    BY <1>3, <2>1, Zenon DEF Owns, Attempts, Holding
  <2>2. CASE q # p
    <3>1. ~Owns(proc[q])
      BY <1>2, <2>2, OnlyOwner, Zenon
    <3>2. ASSUME proc'[q].pc = "logout" PROVE ~Owns(proc[q])'
      BY <3>2, Zenon DEF Owns, Attempts, Holding
    <3>3. ASSUME proc'[q] = proc[q] PROVE ~Owns(proc[q])'
      BY <3>1, <3>3, Zenon DEF Owns, Attempts
    <3> QED BY <1>4, <2>2, <3>1, <3>2, <3>3, Zenon
  <2> QED BY <2>1, <2>2, Zenon
<1>6. ClientOK'
  BY <1>1, ZenonT(30) DEF SessionInv, ClientOK
<1>7. FinalizerOK'
  <2>1. Settled(finalizer.run)' <=> Settled(finalizer.run)
    BY <1>1, Zenon DEF Settled
  <2> QED BY <1>1, <2>1, ZenonT(30) DEF SessionInv, FinalizerOK
<1>8. OwnersOK'
  BY <1>5, NotOwner, Zenon DEF OwnersOK
<1>9. state # "LoggingIn"
  BY <1>2, Zenon DEF SessionInv, LoginOK, LogsIn, Reports
<1>l. \A c \in Callers : ~At(c, "logoutOwned")
  BY <1>2, <1>5, Kinds, Zenon DEF At, Owns
<1>10. LoggedInOK'
  <2> SUFFICES ASSUME state = "LoggedIn"
               PROVE  Watched' /\ (runs'[run] # "open" => lastErr' = failure'[run]) /\ sessionLive
    BY <1>1, Zenon DEF LoggedInOK
  <2>1. /\ run \in Procs /\ Watched /\ sessionLive /\ (runs[run] # "open" => lastErr = failure[run])
    BY <1>l, Kinds, Zenon DEF SessionInv, LoggedInOK, ClientOK
  <2>2. \A q \in Procs : ~Reports(proc[q], "Connected")
    BY <1>2, <1>5, Zenon DEF Reports, Owns
  <2>3. proc[run].pc \in Watching
    BY <1>l, <2>1, <2>2, Zenon DEF Watched, At, Watching
  <2>4. proc'[run] = proc[run]
    BY <1>2, <1>4, <2>1, <2>3, Zenon DEF Watching
  <2>5. Watched'
    BY <1>l, <1>1, <2>1, <2>2, <2>4, Zenon DEF Watched, At
  <2> QED BY <1>1, <2>1, <2>5, Zenon
<1>11. ReconnectingOK'
  <2> SUFFICES ASSUME state = "Reconnecting"
               PROVE  /\ proc'[run].pc \notin Watching
                      /\ sessionLive => proc'[run].session = sessionGeneration /\ Reconnects(proc'[run])
                      /\ ~sessionLive => LogoutInCharge'
    BY <1>1, Zenon DEF ReconnectingOK
  <2>1. /\ run \in Procs /\ proc[run].pc \notin Watching
        /\ sessionLive => proc[run].session = sessionGeneration /\ Reconnects(proc[run])
        /\ ~sessionLive => LogoutInCharge
    BY Kinds, Zenon DEF SessionInv, ClientOK, ReconnectingOK
  <2>2. proc'[run].pc \notin Watching
    BY <1>3, <1>4, <2>1, Zenon DEF Watching
  <2>3. ASSUME sessionLive PROVE proc'[run].session = sessionGeneration /\ Reconnects(proc'[run])
    BY <1>3, <1>4, <2>1, <2>3, Zenon DEF Reconnects, Reports
  <2>4. ASSUME ~sessionLive PROVE LogoutInCharge'
    <3>1. PICK c \in Callers : /\ proc[c].pc \in {"logout", "logoutWait"}
                               /\ proc[c].session = sessionGeneration
      BY <1>l, <2>1, <2>4, Zenon DEF LogoutInCharge
    <3>2. c \in Procs /\ c # p
      BY <1>2, <3>1, Kinds, Zenon
    <3> QED BY <1>1, <1>4, <3>1, <3>2, Zenon DEF LogoutInCharge
  <2> QED BY <2>2, <2>3, <2>4, Zenon
<1>12. MonitorsOK'
  <2>1. ASSUME NEW r \in Runs, At(r, "monitor")' PROVE At(r, "monitor")
    BY <1>3, <1>4, <2>1, Kinds, Zenon DEF At
  <2> QED BY <1>1, <2>1, Zenon DEF SessionInv, MonitorsOK
<1>13. LoginOK'
  BY <1>1, <1>9, Zenon DEF LoginOK
<1> QED BY <1>6, <1>7, <1>8, <1>10, <1>11, <1>12, <1>13, Zenon DEF SessionInv

\* The owner has reported the new connection and starts its monitor.
LEMMA MonitorStarts ==
  ASSUME LifeInv, SessionInv, NEW p \in Procs, Emit(p), proc[p].say.state = "Connected"
  PROVE  SessionInv'
<1>1. /\ At(p, "emit") /\ Reports(proc[p], "Connected")
      /\ UNCHANGED <<closed, login, session, lastErr, runs, failure, finalizer, connectDone>>
      /\ UNCHANGED <<state, connState, run, sessionLive, sessionGeneration>>
  BY Zenon DEF Emit, At, client, network, login, session, Reports
<1>2. connectDone = p /\ OwnerOK(p, proc[p])
  BY <1>1, Zenon DEF LifeInv, Owns, Reports, SessionInv, OwnersOK
<1>3. PICK s \in Runs : s = proc[p].run /\ At(s, "idle") /\ runs[s] # "none"
  BY <1>1, <1>2, Zenon DEF OwnerOK, Unmonitored
<1>4. s \in Procs /\ s # p
  BY <1>1, <1>3, Kinds, Zenon DEF At
<1>5. /\ proc'[s].pc = "monitor" /\ proc'[p].pc \in {"idle", "release"}
      /\ \A q \in Procs : q \notin {s, p} => proc'[q] = proc[q]
  <2> DEFINE m == [Idle EXCEPT !.pc = "monitor"]
             g == Returning(p)
  <2>1. /\ m.pc = "monitor" /\ Idle.pc = "idle" /\ [Idle EXCEPT !.pc = "release"].pc = "release"
    BY ZenonT(30) DEF Idle, Goroutine
  <2>2. g.pc \in {"idle", "release"}
    BY <2>1, Zenon DEF Returning
  <2>3. proc' = [proc EXCEPT ![p] = g, ![s] = m]
    BY <1>3, ZenonT(30) DEF Emit, AfterEmit
  <2> HIDE DEF m, g
  <2>4. proc'[s] = m /\ proc'[p] = g /\ \A q \in Procs : q \notin {s, p} => proc'[q] = proc[q]
    BY <1>4, <2>3, ZenonT(30) DEF LifeInv, Shaped
  <2> QED BY <2>1, <2>2, <2>4, Zenon
<1>6. ClientOK'
  BY <1>1, ZenonT(30) DEF SessionInv, ClientOK
<1>7. FinalizerOK'
  <2>1. Settled(finalizer.run)' <=> Settled(finalizer.run)
    BY <1>1, Zenon DEF Settled
  <2> QED BY <1>1, <2>1, ZenonT(30) DEF SessionInv, FinalizerOK
<1>8. ASSUME NEW q \in Procs PROVE OwnerOK(q, proc[q])'
  <2>1. CASE q \in {s, p}
    <3>1. proc'[q].pc \in {"monitor", "idle", "release"}
      BY <1>5, <2>1, Zenon
    <3> QED BY <3>1, Zenon DEF OwnerOK, Attempts, Holding, Unmonitored, Reports
  <2>2. CASE q \notin {s, p}
    <3>1. ~Owns(proc[q]) /\ proc'[q] = proc[q]
      BY <1>2, <1>5, <2>2, OnlyOwner, Zenon
    <3> QED BY <3>1, NotOwner, Zenon DEF Owns, Attempts
  <2> QED BY <2>1, <2>2, Zenon
<1>9. state \notin {"LoggingIn", "Reconnecting"} /\ (state = "LoggedIn" => run = s)
  <2>1. state # "LoggingIn"
    BY <1>1, <1>2, Zenon DEF SessionInv, LoginOK, LogsIn, Reports
  <2>2. closed \/ (state = "LoggedIn" /\ run = s)
    BY <1>1, <1>2, <1>3, Zenon DEF OwnerOK
  <2>3. closed => state = "Logout"
    BY Zenon DEF SessionInv, ClientOK
  <2> QED BY <2>1, <2>2, <2>3, ZenonT(30)
<1>10. LoggedInOK'
  <2>1. ASSUME NEW c \in Callers PROVE ~At(c, "logoutOwned")
    BY <1>1, <1>2, Kinds, OwnerFacts, Zenon DEF At
  <2>2. state = "LoggedIn" => sessionLive /\ (runs[run] # "open" => lastErr = failure[run])
    BY <2>1, Zenon DEF SessionInv, LoggedInOK
  <2> QED BY <1>1, <1>5, <1>9, <2>2, Zenon DEF LoggedInOK, Watched, At
<1>11. MonitorsOK'
  BY <1>1, <1>3, <1>5, Kinds, Zenon DEF SessionInv, MonitorsOK, At
<1>12. LoginOK' /\ ReconnectingOK'
  BY <1>1, <1>9, Zenon DEF LoginOK, ReconnectingOK
<1> QED BY <1>6, <1>7, <1>8, <1>10, <1>11, <1>12, Zenon DEF SessionInv, OwnersOK

-----------------------------------------------------------------------------
(* Runs, the finalizer and the dispatcher *)

\* A step of no goroutine: what the Client reads of the errors of runs has to stay true.
LEMMA RunsGo ==
  ASSUME LifeInv, SessionInv, UNCHANGED <<closed, login, session, connectDone, proc>>, RunsKeep,
         FinalizerOK',
         state = "LoggedIn" => (runs'[run] # "open" => lastErr' = failure'[run]),
         \A q \in Procs : proc[q].pc \in {"provision", "commit"} /\ runs'[proc[q].run] # "open"
                           => lastErr' = failure'[proc[q].run]
  PROVE  SessionInv'
<1>1. UNCHANGED <<state, connState, run, sessionLive, sessionGeneration>>
  BY Zenon DEF login, session
<1>2. ClientOK'
  BY <1>1, ZenonT(30) DEF SessionInv, ClientOK
<1>3. ASSUME NEW q \in Procs PROVE OwnerOK(q, proc[q])'
  <2>1. PICK h : h = proc[q] /\ h = proc'[q] /\ OwnerOK(q, h)
    BY Zenon DEF SessionInv, OwnersOK
  <2>2. Unmonitored(h) => At(h.run, "idle")' /\ runs'[h.run] # "none"
    BY <2>1, Zenon DEF OwnerOK, Unmonitored, Holding, At, RunsKeep
  <2>3. h.pc \in {"provision", "commit"} /\ runs'[h.run] # "open" => lastErr' = failure'[h.run]
    BY <2>1, Zenon
  <2> QED BY <1>1, <2>1, <2>2, <2>3, Zenon DEF OwnerOK
<1>4. LoginOK'
  BY <1>1, Zenon DEF SessionInv, LoginOK
<1>5. LoggedInOK'
  <2> SUFFICES ASSUME state = "LoggedIn"
               PROVE  /\ Watched' /\ (runs'[run] # "open" => lastErr' = failure'[run])
                      /\ sessionLive \/ \E c \in Callers : At(c, "logoutOwned")'
    BY <1>1, Zenon DEF LoggedInOK
  <2>1. /\ run \in Runs /\ Watched /\ (sessionLive \/ \E c \in Callers : At(c, "logoutOwned"))
    BY Zenon DEF SessionInv, LoggedInOK, ClientOK
  <2>2. Watched'
    BY <1>1, <2>1, Zenon DEF Watched, At, RunsKeep
  <2> QED BY <2>1, <2>2, Zenon DEF At
<1>6. ReconnectingOK'
  BY <1>1, Zenon DEF SessionInv, ReconnectingOK, LogoutInCharge, At
<1>7. MonitorsOK'
  BY Zenon DEF SessionInv, MonitorsOK, At, RunsKeep
<1> QED BY <1>2, <1>3, <1>4, <1>5, <1>6, <1>7, Zenon DEF SessionInv, OwnersOK

\* A run that is not finalized is the only one anybody works on.
LEMMA LiveAlone ==
  ASSUME LifeInv, SessionInv, NEW r \in Runs, runs[r] = "open"
  PROVE  /\ state = "LoggedIn" => run = r
         /\ \A q \in Procs : proc[q].pc \in {"provision", "commit"} => proc[q].run = r
<1>1. r \in Live /\ ~Settled(r) /\ r # None
  BY LifecycleAssumption, ZenonT(30) DEF Live, Settled, Runs
<1>2. run = r \/ finalizer.run = r \/ \E p \in Procs : Holds(proc[p], r)
  BY <1>1, Zenon DEF LifeInv, LiveHasPlace
<1>3. ASSUME NEW p \in Procs, Holds(proc[p], r)
      PROVE  connectDone = p /\ state # "LoggedIn" /\ Attempts(proc[p]) /\ proc[p].run = r
  BY <1>3, Zenon DEF Holds, Attempts, LifeInv, Owns, SessionInv, OwnersOK, OwnerOK
<1>4. state = "LoggedIn" => run = r
  <2>1. state = "LoggedIn" => finalizer.run # r
    BY <1>1, Zenon DEF LifeInv, RunOfState, SessionInv, ClientOK
  <2> QED BY <1>2, <1>3, <2>1, Zenon
<1>5. ASSUME NEW q \in Procs, proc[q].pc \in {"provision", "commit"} PROVE proc[q].run = r
  <2>1. Attempts(proc[q]) /\ connectDone = q
    BY <1>5, Zenon DEF Attempts, Holding, LifeInv, Owns
  <2>2. run # r /\ finalizer.run # r
    BY <1>1, <2>1, Zenon DEF LifeInv
  <2> QED BY <1>2, <1>3, <2>1, <2>2, Zenon
<1> QED BY <1>4, <1>5, Zenon

\* Every run has an error to be stored, and only fail stores it.
Failures == DOMAIN failure = Runs

LEMMA FailuresStay ==
  ASSUME Failures, UNCHANGED failure \/ \E r, err : Fail(r, err)
  PROVE  Failures'
  BY ZenonT(30) DEF Failures, Fail

LEMMA FailsGo ==
  ASSUME LifeInv, SessionInv, Failures, NEW r \in Runs, NEW err, Fail(r, err),
         UNCHANGED <<closed, login, session, connectDone, proc>>, FinalizerOK'
  PROVE  SessionInv'
<1>1. RunsKeep
  BY RunsEnd, Zenon
<1>2. CASE runs[r] = "open"
  <2>1. lastErr' = err /\ failure' = [failure EXCEPT ![r] = err]
    BY <1>2, ZenonT(30) DEF Fail
  <2>2. failure'[r] = err
    BY <2>1, ZenonT(30) DEF Failures
  <2> QED BY <1>1, <1>2, <2>1, <2>2, LiveAlone, RunsGo, Zenon
<1>3. CASE runs[r] # "open"
  <2>1. UNCHANGED <<runs, failure, lastErr>>
    BY <1>3, Zenon DEF Fail
  <2>2. state = "LoggedIn" => (runs'[run] # "open" => lastErr' = failure'[run])
    BY <2>1, Zenon DEF SessionInv, LoggedInOK
  <2>3. \A q \in Procs : proc[q].pc \in {"provision", "commit"} /\ runs'[proc[q].run] # "open"
                          => lastErr' = failure'[proc[q].run]
    BY <2>1, Zenon DEF SessionInv, OwnersOK, OwnerOK
  <2> QED BY <1>1, <2>2, <2>3, RunsGo, Zenon
<1> QED BY <1>2, <1>3, Zenon

LEMMA RunFailsGoes ==
  ASSUME LifeInv, SessionInv, Failures, NEW r \in Runs, NEW err, RunFails(r, err)
  PROVE  SessionInv'
<1>1. /\ Fail(r, err) /\ UNCHANGED <<closed, login, session, connectDone, proc, finalizer>>
  BY Zenon DEF RunFails
<1>2. FinalizerOK'
  <2>1. Settled(finalizer.run) => Settled(finalizer.run)'
    BY <1>1, RunsEnd, Zenon DEF Settled, RunsKeep
  <2> QED BY <1>1, <2>1, ZenonT(30) DEF SessionInv, FinalizerOK
<1> QED BY <1>1, <1>2, FailsGo, Zenon

LEMMA FinalizerGoes ==
  ASSUME LifeInv, SessionInv, Failures, FinalizerStep
  PROVE  SessionInv'
<1>1. UNCHANGED <<closed, login, session, connectDone, proc>> /\ finalizer.pc # "none" /\ closed
  <2>1. /\ UNCHANGED <<closed, login, session, connectDone, proc>>
        /\ finalizer.pc \in {"fail", "await", "wait"}
    BY Zenon DEF FinalizerStep, FinalizerFails, FinalizerAwaits, FinalizerEnds, client
  <2> QED BY <2>1, ZenonT(30) DEF SessionInv, FinalizerOK
<1>2. state = "Logout" /\ closed' = closed
  BY <1>1, Zenon DEF SessionInv, ClientOK
<1>f. finalizer = [pc |-> finalizer.pc, run |-> finalizer.run]
  BY Zenon DEF LifeInv, Shaped
<1>3. CASE FinalizerFails
  <2>1. finalizer.pc = "fail" /\ Fail(finalizer.run, "ended") /\ finalizer.run \in Runs
    BY <1>3, ZenonT(30) DEF FinalizerFails, SessionInv, FinalizerOK
  <2>2. finalizer'.pc = "await" /\ finalizer'.run = finalizer.run
    BY <1>3, <1>f, ZenonT(30) DEF FinalizerFails
  <2>3. FinalizerOK'
    BY <1>1, <1>2, <2>1, <2>2, SMTT(30) DEF FinalizerOK
  <2> QED BY <1>1, <2>1, <2>3, FailsGo, Zenon
<1>4. ASSUME NEW pc, finalizer'.pc = pc, finalizer'.run = finalizer.run, pc \in {"wait", "done"},
             RunsKeep, UNCHANGED <<lastErr, failure>>, Settled(finalizer.run)', pc = "done" => connectDone = None,
             \A s \in Runs : s # finalizer.run => runs'[s] = runs[s]
      PROVE  SessionInv'
  <2>1. FinalizerOK'
    BY <1>1, <1>2, <1>4, SMTT(30) DEF FinalizerOK
  <2>2. ASSUME NEW q \in Procs, proc[q].pc \in {"provision", "commit"}, runs'[proc[q].run] # "open"
        PROVE  lastErr' = failure'[proc[q].run]
    <3>1. /\ Attempts(proc[q]) /\ proc[q].run \in Runs
          /\ runs[proc[q].run] # "open" => lastErr = failure[proc[q].run]
      BY <2>2, Zenon DEF SessionInv, OwnersOK, OwnerOK, Attempts, Holding
    <3>2. Settled(finalizer.run)
      BY <3>1, Zenon DEF LifeInv
    <3>3. proc[q].run = finalizer.run => runs[proc[q].run] # "open"
      BY <3>1, <3>2, LifecycleAssumption, ZenonT(30) DEF Settled, Runs
    <3> QED BY <1>4, <2>2, <3>1, <3>3, Zenon
  <2> QED BY <1>1, <1>2, <1>4, <2>1, <2>2, RunsGo, Zenon
<1>5. CASE FinalizerAwaits
  <2>1. Finalize(finalizer.run) /\ finalizer.run \in Runs /\ UNCHANGED <<lastErr, failure>>
    BY <1>5, Zenon DEF FinalizerAwaits, client, SessionInv, FinalizerOK
  <2>2. finalizer'.pc = "wait" /\ finalizer'.run = finalizer.run
    BY <1>5, <1>f, ZenonT(30) DEF FinalizerAwaits
  <2>3. RunsKeep
    BY <2>1, RunsEnd, Zenon
  <2>4. /\ runs'[finalizer.run] = "finalized" /\ \A s \in Runs : s # finalizer.run => runs'[s] = runs[s]
    BY <2>1, ZenonT(30) DEF Finalize, LifeInv, Shaped
  <2>5. Settled(finalizer.run)'
    BY <2>1, <2>2, <2>4, Zenon DEF Settled
  <2> QED BY <1>4, <2>1, <2>2, <2>3, <2>4, <2>5, Zenon
<1>6. CASE FinalizerEnds
  <2>1. finalizer.pc = "wait" /\ connectDone = None /\ UNCHANGED <<lastErr, failure, runs>>
    BY <1>6, Zenon DEF FinalizerEnds, client, network
  <2>2. finalizer'.pc = "done" /\ finalizer'.run = finalizer.run
    BY <1>6, <1>f, ZenonT(30) DEF FinalizerEnds
  <2>3. Settled(finalizer.run)
    BY <2>1, Zenon DEF SessionInv, FinalizerOK
  <2>4. RunsKeep /\ Settled(finalizer.run)'
    BY <2>1, <2>2, <2>3, Zenon DEF RunsKeep, Settled
  <2> QED BY <1>4, <2>1, <2>2, <2>4, Zenon
<1> QED BY <1>3, <1>5, <1>6, Zenon DEF FinalizerStep

LEMMA Stutters ==
  ASSUME LifeInv, SessionInv, DispatcherStep \/ UNCHANGED vars
  PROVE  SessionInv'
<1>1. UNCHANGED core /\ UNCHANGED proc
  BY Zenon DEF DispatcherStep, ClaimTerminal, NothingToClaim, Woken, TakeEvent, Invoke,
               DispatcherExits, vars, core, client, network
<1>2. UNCHANGED <<closed, login, session, connectDone, finalizer, runs, failure, lastErr>>
  BY <1>1, Zenon DEF core
<1>3. FinalizerOK' /\ RunsKeep
  <2>1. Settled(finalizer.run)' <=> Settled(finalizer.run)
    BY <1>2, Zenon DEF Settled
  <2>2. RunsKeep
    BY <1>2, Zenon DEF RunsKeep
  <2> QED BY <1>2, <2>1, <2>2, ZenonT(30) DEF SessionInv, FinalizerOK
<1>4. state = "LoggedIn" => (runs'[run] # "open" => lastErr' = failure'[run])
  BY <1>2, Zenon DEF SessionInv, LoggedInOK
<1>5. \A q \in Procs : proc[q].pc \in {"provision", "commit"} /\ runs'[proc[q].run] # "open"
                        => lastErr' = failure'[proc[q].run]
  BY <1>2, Zenon DEF SessionInv, OwnersOK, OwnerOK
<1> QED BY <1>1, <1>2, <1>3, <1>4, <1>5, RunsGo, Zenon

-----------------------------------------------------------------------------
(* Theorems *)

LEMMA SessionInit == Init => SessionInv
<1> SUFFICES ASSUME Init PROVE SessionInv
  OBVIOUS
<1>1. \A p \in Procs : proc[p].pc = "idle"
  BY ZenonT(30) DEF Init, Idle, Goroutine
<1>2. /\ state = "Logout" /\ connState = "Disconnected" /\ run = None /\ ~sessionLive
      /\ sessionLive \in BOOLEAN /\ sessionGeneration = 0 /\ ~closed
  BY Zenon DEF Init
<1>3. ClientOK
  BY <1>2, ZenonT(30) DEF ClientOK
<1>4. FinalizerOK
  BY ZenonT(30) DEF Init, FinalizerOK
<1>5. \A p \in Procs : OwnerOK(p, proc[p])
  BY <1>1, Zenon DEF OwnerOK, Attempts, Holding, Unmonitored, Reports
<1>6. LoginOK /\ LoggedInOK /\ ReconnectingOK
  BY <1>2, Zenon DEF LoginOK, LoggedInOK, ReconnectingOK
<1>7. MonitorsOK
  BY <1>1, Kinds, Zenon DEF MonitorsOK, At
<1> QED BY <1>3, <1>4, <1>5, <1>6, <1>7, Zenon DEF SessionInv, OwnersOK

LEMMA FailuresInit == Init => Failures
  BY ZenonT(30) DEF Init, Failures

LEMMA FailuresStep == Failures /\ [Next]_vars => Failures'
<1> SUFFICES ASSUME Failures, [Next]_vars PROVE UNCHANGED failure \/ \E r, err : Fail(r, err)
  BY FailuresStay, Zenon
<1>1. ASSUME NEW c \in Callers, CallerStep(c) PROVE UNCHANGED failure \/ \E r, err : Fail(r, err)
  <2>1. CASE LoginCommit(c)
    BY <2>1, Zenon DEF LoginCommit, Install, Refuse, network
  <2>2. CASE SayGoodbye(c)
    BY <2>2, Zenon DEF SayGoodbye
  <2>3. CASE ~LoginCommit(c) /\ ~SayGoodbye(c)
    BY <1>1, <2>3, Zenon DEF CallerStep, LoginClosed, LoginBegin, LoginRefused, LoginStart, LoginFails,
         LogoutBegin, LogoutPark, LogoutClosed, LogoutStart, CloseRun, OnlyProcChanges, network
  <2> QED BY <2>1, <2>2, <2>3, Zenon
<1>2. ASSUME NEW r \in Runs, MonitorStep(r) PROVE UNCHANGED failure \/ \E s, err : Fail(s, err)
  <2>1. CASE ReconnectCommit(r)
    BY <2>1, Zenon DEF ReconnectCommit, Install, Refuse, network
  <2>2. CASE ~ReconnectCommit(r)
    BY <1>2, <2>2, Zenon DEF MonitorStep, MonitorFinalizes, MonitorDecides, MonitorTerminal,
         ReconnectStart, Plan, BadRedirect, RecordTerminalForSession, Backoff, ReconnectBegin, Recheck,
         ReconnectFails, ReconnectTerminal, RetryLater, EndConnectTo, OnlyProcChanges, network
  <2> QED BY <2>1, <2>2, Zenon
<1>3. ASSUME NEW p \in Procs, AttemptStep(p) PROVE UNCHANGED failure \/ \E s, err : Fail(s, err)
  BY <1>3, Zenon DEF AttemptStep, Resolve, Dial, Provisioned, AttemptFails, ProvisionFails, DropRun,
       RejectRun, Emit, Signal, EndConnect, EndConnectTo, OnlyProcChanges, network
<1>4. ASSUME NEW c \in Callers,
             Call(c, "login") \/ Call(c, "logout") \/ LoginExpires(c) \/ LogoutExpires(c)
      PROVE  UNCHANGED failure
  BY <1>4, Zenon DEF Call, LoginExpires, LogoutExpires, OnlyProcChanges, network
<1>5. CASE Close \/ DispatcherStep \/ FinalizerStep \/ Terminated \/ UNCHANGED vars
  BY <1>5, Zenon DEF Close, DispatcherStep, ClaimTerminal, NothingToClaim, Woken, TakeEvent, Invoke,
       DispatcherExits, FinalizerStep, FinalizerFails, FinalizerAwaits, FinalizerEnds, Terminated,
       vars, network
<1>6. ASSUME NEW r, NEW err, RunFails(r, err) PROVE Fail(r, err)
  BY <1>6, Zenon DEF RunFails
<1> QED BY <1>1, <1>2, <1>3, <1>4, <1>5, <1>6, Zenon DEF Next, ProcStep

LEMMA SessionStep == LifeInv /\ SessionInv /\ Failures /\ [Next]_vars => SessionInv'
<1> SUFFICES ASSUME LifeInv, SessionInv, Failures, [Next]_vars PROVE SessionInv'
  BY ZenonT(30)
<1>1. ASSUME NEW c \in Callers, CallerStep(c) PROVE SessionInv'
  <2>1. c \in Procs
    BY Kinds, Zenon
  <2> QED BY <1>1, <2>1, CallersGo, BeginsGo, LoginStartGoes, TerminalsGo, CommitsGo, LogoutsGo,
              LogoutEnds, ShutdownsGo, Zenon DEF CallerStep
<1>2. ASSUME NEW r \in Runs, MonitorStep(r) PROVE SessionInv'
  <2>1. r \in Procs
    BY Kinds, Zenon
  <2> QED BY <1>2, <2>1, MonitorFinalizesGoes, MonitorsGo, TerminalsGo, ReconnectStartGoes, BeginsGo,
              ReconnectFailsGoes, CommitsGo, ReleasesGo, Zenon DEF MonitorStep
<1>3. ASSUME NEW p \in Procs, AttemptStep(p) PROVE SessionInv'
  <2>1. CASE Emit(p)
    <3>1. proc[p].say.state \in {"Connecting", "Reconnecting", "Connected", "Disconnected"}
      BY <2>1, Zenon DEF Emit, At, LifeInv, SayOK
    <3> QED BY <2>1, <3>1, EmitGoes, MonitorStarts, Zenon
  <2> QED BY <1>3, <2>1, AttemptsGo, DialGoes, DropsGo, ShutdownsGo, SignalGoes, ReleasesGo, Zenon
              DEF AttemptStep
<1>4. ASSUME NEW c \in Callers,
             Call(c, "login") \/ Call(c, "logout") \/ LoginExpires(c) \/ LogoutExpires(c)
      PROVE  SessionInv'
  BY <1>4, CallersGo, LogoutEnds, Zenon
<1>5. CASE Terminated \/ UNCHANGED vars
  BY <1>5, Stutters, Zenon DEF Terminated
<1> QED BY <1>1, <1>2, <1>3, <1>4, <1>5, CloseEnds, RunFailsGoes, FinalizerGoes, Stutters, Zenon
            DEF Next, ProcStep

LEMMA SessionAlways == Spec => [](LifeInv /\ SessionInv)
  BY LifeInit, LifeStep, SessionInit, SessionStep, FailuresInit, FailuresStep, PTL DEF Spec

\* Every run that is not finalized has a goroutine that will finalize it, on every error path
\* of Login, reconnect, Logout and Close: the operation that dialled it, its monitor, the
\* Logout that took it off the Client, or the finalizer (shutdown, monitor, Close).
THEOREM RunsNeverLeak == Spec => []NoRunLeaked
<1>1. LifeInv /\ SessionInv => NoRunLeaked
  <2> SUFFICES ASSUME LifeInv, SessionInv, NEW r \in Live,
                      ~At(r, "monitor"), ~(finalizer.run = r /\ finalizer.pc \in {"fail", "await"})
               PROVE  \E p \in Procs : /\ proc[p].run = r
                                       /\ proc[p].pc \in {"provision", "dropRun", "commit",
                                            "rejectRun", "emit", "sayGoodbye", "closeRun"}
    BY Zenon DEF NoRunLeaked
  <2>1. r \in Runs /\ ~Settled(r) /\ r # None /\ runs[r] # "finalized"
    BY LifecycleAssumption, ZenonT(30) DEF Live, Settled, Runs
  <2>2. finalizer.run # r
    <3>1. finalizer.pc = "none" => finalizer.run = None
      BY ZenonT(30) DEF LifeInv, RunOfState, SessionInv, FinalizerOK
    <3> QED BY <2>1, <3>1, Zenon DEF SessionInv, FinalizerOK
  <2>3. CASE run = r
    <3>1. state = "LoggedIn"
      BY <2>1, <2>3, Zenon DEF LifeInv, RunOfState
    <3>2. \E p \in Procs : Reports(proc[p], "Connected") /\ proc[p].run = run
      BY <2>1, <2>3, <3>1, Zenon DEF SessionInv, LoggedInOK, Watched
    <3> QED BY <2>3, <3>2, Zenon DEF Reports
  <2>4. CASE \E p \in Procs : Holds(proc[p], r)
    BY <2>4, Zenon DEF Holds, Holding
  <2> QED BY <2>2, <2>3, <2>4, Zenon DEF LifeInv, LiveHasPlace
<1> QED BY <1>1, SessionAlways, PTL

\* What Health reports is coherent in every state: state and connState move together, the
\* Client points to a run exactly while it has a session, a closed Client stays in Logout
\* whatever a late Login or reconnect does, and nothing is left when the finalizer is done.
THEOREM HealthCoherent == Spec => []StateCoherent
<1>1. LifeInv /\ SessionInv => StateCoherent
  <2> SUFFICES ASSUME LifeInv, SessionInv PROVE StateCoherent
    BY Zenon
  <2>1. connState = CASE state = "Logout"       -> "Disconnected"
                      [] state = "LoggingIn"    -> "Connecting"
                      [] state = "LoggedIn"     -> "Connected"
                      [] state = "Reconnecting" -> "Reconnecting"
    BY ZenonT(30) DEF SessionInv, ClientOK
  <2>2. /\ (run # None) <=> (state \in {"LoggedIn", "Reconnecting"})
        /\ sessionLive => run # None
        /\ closed => state = "Logout" /\ ~sessionLive
    BY ZenonT(30) DEF SessionInv, ClientOK
  <2>3. state = "Reconnecting" => runs[run] = "finalized"
    BY <2>2, ZenonT(30) DEF LifeInv, RunOfState, Settled
  <2>4. state = "LoggingIn" => connectDone \in Callers
    BY Zenon DEF SessionInv, LoginOK
  <2>5. ASSUME finalizer.pc = "done" PROVE Live = {} /\ connectDone = None
    <3>1. connectDone = None /\ Settled(finalizer.run)
      BY <2>5, Zenon DEF SessionInv, FinalizerOK
    <3>2. run = None
      <4>1. closed
        BY <2>5, ZenonT(30) DEF SessionInv, FinalizerOK
      <4> QED BY <2>2, <4>1, ZenonT(30)
    <3>3. \A p \in Procs : proc[p].pc \notin Holding
      BY <3>1, OwnerFacts, Kinds, Zenon
    <3>4. ASSUME NEW r \in Live PROVE FALSE
      <4>1. ~Settled(r) /\ r # None
        BY LifecycleAssumption, ZenonT(30) DEF Live, Settled, Runs
      <4> QED BY <3>1, <3>2, <3>3, <4>1, Zenon DEF LifeInv, LiveHasPlace, Holds
    <3> QED BY <3>1, <3>4, Zenon
  <2> QED BY <2>1, <2>2, <2>3, <2>4, <2>5, Zenon DEF StateCoherent
<1> QED BY <1>1, SessionAlways, PTL

\* A session is never left without a goroutine to move it on: a LoggedIn Client has the monitor
\* of its run or the Login about to start it, a Reconnecting one its reconnect goroutine or,
\* once the session is canceled, the Logout that canceled it (beginLogout,
\* detachCanceledSessionForLogout).
THEOREM SessionsDriven == Spec => []SessionHasDriver
<1>1. LifeInv /\ SessionInv => SessionHasDriver
  <2> SUFFICES ASSUME LifeInv, SessionInv PROVE SessionHasDriver
    BY Zenon
  <2>1. ASSUME state = "LoggedIn"
        PROVE  \/ proc[run].pc \in {"monitor", "decide", "terminal", "reconnect"}
               \/ \E p \in Procs : proc[p].run = run /\ At(p, "emit")
               \/ LogoutInCharge
    BY <2>1, Zenon DEF SessionInv, LoggedInOK, Watched, Watching, Reports, At, LogoutInCharge
  <2>2. ASSUME state = "Reconnecting"
        PROVE  \/ /\ sessionLive /\ proc[run].session = sessionGeneration
                  /\ proc[run].pc \notin {"idle", "release", "rejectRun"}
               \/ LogoutInCharge
    BY <2>2, Zenon DEF SessionInv, ReconnectingOK, Reconnects, Reports
  <2> QED BY <2>1, <2>2, Zenon DEF SessionHasDriver
<1> QED BY <1>1, SessionAlways, PTL

\* monitor classifies the end of its run by Client.lastErr, a field that every run, every failed
\* attempt and Login write: when it finds its run still current and the Client open, the error
\* is the one its own run failed with.
THEOREM MonitorReadsItsRun == Spec => []MonitorReadsOwnError
<1>1. LifeInv /\ SessionInv => MonitorReadsOwnError
  <2> SUFFICES ASSUME LifeInv, SessionInv, NEW r \in Runs, At(r, "decide"), run = r, ~closed
               PROVE  lastErr = failure[r]
    BY Zenon DEF MonitorReadsOwnError
  <2>1. runs[r] = "finalized"
    BY Zenon DEF LifeInv, PastMonitor, At
  <2>2. state = "LoggedIn"
    <3>1. state # "Reconnecting"
      BY Zenon DEF SessionInv, ReconnectingOK, At, Watching
    <3> QED BY <3>1, LifecycleAssumption, Zenon DEF LifeInv, RunOfState, Runs
  <2> QED BY <2>1, <2>2, ZenonT(30) DEF SessionInv, LoggedInOK
<1> QED BY <1>1, SessionAlways, PTL
=============================================================================
