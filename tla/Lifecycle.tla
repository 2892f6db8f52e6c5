----------------------------- MODULE Lifecycle -----------------------------
(***************************************************************************)
(* The session life cycle of one Client (sdk/connection.go, sdk/client.go):*)
(* Login, Logout and Close called from any number of goroutines, the       *)
(* monitor and reconnect goroutine that every installed connectionRun has, *)
(* the shared finalizer of Close, and the dispatcher that runs the         *)
(* application's connection-state callbacks.                               *)
(*                                                                         *)
(* A step is one critical section of Client.mu, or one call that blocks.   *)
(* connectDone is the ownership token that serialises Login, Logout and    *)
(* one attempt of reconnect; everything else interleaves.  Contexts,       *)
(* timers and the network are nondeterministic: a dial may return, late,   *)
(* after the context it was given was canceled, as the comments of Logout  *)
(* and Close allow for.                                                    *)
(***************************************************************************)
EXTENDS Naturals, Sequences, FiniteSets

CONSTANTS
  Callers,           \* goroutines of the application that call Login and Logout
  None,              \* nil
  MaxRuns,           \* bound: connectionRuns dialled in a behaviour
  MaxEpoch,          \* bound: no call starts once callbackEpoch reached this
  EventCapacity,     \* capacity of Client.events (writeQueueSize in New)
  Deadlines,         \* TRUE: the contexts given to Login and Logout may expire
  DisableReconnect,  \* Config.DisableReconnect
  Listening          \* Config.OnConnectionStateChanged and OnDisconnect are set

ASSUME LifecycleAssumption ==
  /\ None \notin Callers \cup (1..MaxRuns)
  /\ Callers \cap (1..MaxRuns) = {}
  /\ MaxRuns \in Nat /\ MaxEpoch \in Nat /\ EventCapacity \in Nat
  /\ Deadlines \in BOOLEAN /\ DisableReconnect \in BOOLEAN
  /\ Listening \in BOOLEAN

Runs == 1..MaxRuns

\* Run r has at most one monitor/reconnect goroutine; it is process r.
Procs == Callers \cup Runs

VARIABLES
  closed, connectDone, state, connState, run,       \* fields of Client
  sessionLive,        \* sessionCtx # nil
  sessionGeneration,
  lastErr,
  callbackEpoch,
  terminalCallback,   \* the change the sticky event reports; 0: nil
  events,             \* Client.events
  generation,         \* number of runs dialled so far
  runs,               \* of each run: "none", "open", "failed", "finalized"
  failure,            \* of each run: the error fail() was first called with, which
                      \* is retried ("network"), followed ("redirect"), "terminal",
                      \* or the local end of the session ("ended")
  proc,               \* what each goroutine is doing
  finalizer,          \* the goroutine of Close, and the run it shuts down
  dispatcher,         \* the event the dispatcher is running, or None
  loop,               \* where the dispatcher is in dispatchEvents
  terminalWake,       \* Client.terminalWake holds a wake-up
  changes,            \* history: changes of connState so far, if anyone listens
  seen                \* history: the last callback the application got

login == <<state, connState, run>>
session == <<sessionLive, sessionGeneration>>
reports == <<callbackEpoch, terminalCallback, changes>>
client == <<closed, login, session, lastErr, reports>>
network == <<generation, runs, failure>>
callback == <<events, dispatcher, loop, terminalWake, seen>>
vars == <<client, connectDone, network, proc, finalizer, callback>>

\* A goroutine: where it is, the run it works on, the session it captured,
\* the error it holds, and the state callback it still has to emit.
Goroutine(pc, r, g, e, say) ==
  [pc |-> pc, run |-> r, session |-> g, err |-> e, say |-> say]

Idle == Goroutine("idle", None, 0, "ended", None)

\* An event: the state it reports, the epoch it was made in and, for the
\* properties, which change of connState it reports.
Event(st, epoch, n) == [state |-> st, epoch |-> epoch, change |-> n]

NextChange == IF Listening THEN changes + 1 ELSE 0

At(p, pc) == proc[p].pc = pc

Becomes(p, g) == proc' = [proc EXCEPT ![p] = g]

Goto(p, pc) == Becomes(p, [proc[p] EXCEPT !.pc = pc])

Return(p) == Becomes(p, Idle)

OnlyProcChanges == UNCHANGED <<client, connectDone, network, finalizer, callback>>

Init ==
  /\ closed = FALSE /\ connectDone = None
  /\ state = "Logout" /\ connState = "Disconnected" /\ run = None
  /\ sessionLive = FALSE /\ sessionGeneration = 0
  /\ lastErr = None
  /\ callbackEpoch = 0 /\ terminalCallback = 0 /\ changes = 0
  /\ events = <<>>
  /\ generation = 0
  /\ runs = [r \in Runs |-> "none"]
  /\ failure = [r \in Runs |-> None]
  /\ proc = [p \in Procs |-> Idle]
  /\ finalizer = [pc |-> "none", run |-> None]
  /\ dispatcher = None /\ loop = "claim" /\ terminalWake = FALSE
  /\ seen = [state |-> "Disconnected", change |-> 0]

-----------------------------------------------------------------------------
(* Ownership of the life cycle: beginConnect and endConnect.               *)

EndConnectTo(p, next) ==
  /\ connectDone' = None
  /\ proc' = [q \in Procs |->
                IF q = p THEN next
                ELSE IF At(q, "logoutWait") THEN [proc[q] EXCEPT !.pc = "logout"]
                ELSE proc[q]]
  /\ UNCHANGED <<client, network, finalizer, callback>>

\* endConnect closes the channel, which wakes every Logout parked on it.
\* Waiting Logins and reconnects only retry, which their guards express.
EndConnect(p) == At(p, "release") /\ EndConnectTo(p, Idle)

\* A failed reconnect attempt gives the token back and backs off again.
RetryLater(p) ==
  /\ At(p, "retry")
  /\ EndConnectTo(p, [proc[p] EXCEPT !.pc = "backoff"])

SessionIsCurrent(g) == sessionLive /\ sessionGeneration = g

-----------------------------------------------------------------------------
(* Callbacks: emitAt, the sticky terminal event and dispatchEvents.        *)

\* emitAt: nothing without a listener or after Close, nothing while a
\* terminal event is pending or after the epoch moved, and nothing when
\* the queue is full.
EmitAt(e) ==
  LET stale == \/ ~Listening \/ closed
               \/ terminalCallback # 0 \/ callbackEpoch # e.epoch
      room == Len(events) < EventCapacity
  IN events' = IF ~stale /\ room THEN Append(events, e) ELSE events

\* What is left to do for a goroutine that returns.
Returning(p) == IF connectDone = p THEN [Idle EXCEPT !.pc = "release"] ELSE Idle

\* A goroutine emits the state it recorded under the lock, after it has
\* released the lock, and goes on: Login to the resolver or, once
\* connected, to starting the monitor; reconnect to its plan.
AfterEmit(p, st) ==
  CASE st = "Connecting"   -> Becomes(p, [proc[p] EXCEPT !.pc = "resolve", !.say = None])
    [] st = "Reconnecting" -> Becomes(p, [proc[p] EXCEPT !.pc = "plan", !.say = None])
    [] st = "Connected"    ->
         proc' = [proc EXCEPT ![p] = Returning(p),
                              ![proc[p].run] = [Idle EXCEPT !.pc = "monitor"]]
    [] st = "Disconnected" -> Becomes(p, Returning(p))

Emit(p) ==
  /\ At(p, "emit")
  /\ EmitAt(proc[p].say)
  /\ AfterEmit(p, proc[p].say.state)
  /\ UNCHANGED <<client, connectDone, network, finalizer, dispatcher, loop,
                 terminalWake, seen>>

\* Mistake: the dispatcher is not woken.
signalForgotten(p) ==
  /\ At(p, "signal")
  /\ Becomes(p, Returning(p))
  /\ OnlyProcChanges

\* signalTerminalCallback, after the lock was released: a wake-up that finds
\* one waiting adds nothing.
Signal(p) ==
  /\ At(p, "signal")
  /\ terminalWake' = TRUE
  /\ Becomes(p, Returning(p))
  /\ UNCHANGED <<client, connectDone, network, finalizer, events, dispatcher, loop,
                 seen>>

\* The two loops of dispatchEvents: "claim" and "select" while the Client is
\* open, "drain" and "drainSelect" once the dispatcher saw it closed.  With
\* nobody listening nothing is ever queued, and the idle loop is left out.
Claiming == Listening /\ dispatcher = None /\ loop \in {"claim", "drain"}
Selecting == dispatcher = None /\ loop \in {"select", "drainSelect"}
Around == IF loop = "select" THEN "claim" ELSE "drain"

ClaimTerminal ==
  /\ Claiming
  /\ terminalCallback # 0
  /\ dispatcher' = Event("Disconnected", callbackEpoch, terminalCallback)
  /\ terminalCallback' = 0
  /\ events' = <<>>
  /\ UNCHANGED <<closed, login, session, lastErr, callbackEpoch, changes, connectDone,
                 network, proc, finalizer, loop, terminalWake, seen>>

NothingToClaim ==
  /\ Claiming
  /\ terminalCallback = 0
  /\ loop' = IF loop = "claim" THEN "select" ELSE "drainSelect"
  /\ UNCHANGED <<client, connectDone, network, proc, finalizer, events, dispatcher,
                 terminalWake, seen>>

Woken ==
  /\ Selecting
  /\ terminalWake
  /\ terminalWake' = FALSE
  /\ loop' = Around
  /\ UNCHANGED <<client, connectDone, network, proc, finalizer, events, dispatcher,
                 seen>>

\* An event may be taken although a terminal one was published meanwhile; it
\* checks its epoch before it runs.
TakeEvent ==
  /\ Selecting
  /\ events # <<>>
  /\ events' = Tail(events)
  /\ dispatcher' = IF Head(events).epoch = callbackEpoch THEN Head(events) ELSE None
  /\ loop' = Around
  /\ UNCHANGED <<client, connectDone, network, proc, finalizer, terminalWake, seen>>

Invoke ==
  /\ dispatcher # None
  /\ seen' = [state |-> dispatcher.state, change |-> dispatcher.change]
  /\ dispatcher' = None
  /\ UNCHANGED <<client, connectDone, network, proc, finalizer, events, loop,
                 terminalWake>>

\* The Client is closed: one more loop, which ends when it finds nothing.
DispatcherExits ==
  /\ Selecting
  /\ \/ loop = "select" /\ closed /\ loop' = "drain"
     \/ loop = "drainSelect" /\ ~terminalWake /\ events = <<>> /\ loop' = "exited"
  /\ UNCHANGED <<client, connectDone, network, proc, finalizer, events, dispatcher,
                 terminalWake, seen>>

-----------------------------------------------------------------------------
(* Runs: fail, the wait for the run's goroutines, and the terminal record. *)

\* Mistake: only the first error of the Client's life is kept.
failKeepsFirst(r, err) ==
  IF runs[r] = "open"
  THEN /\ runs' = [runs EXCEPT ![r] = "failed"]
       /\ failure' = [failure EXCEPT ![r] = err]
       /\ lastErr' = IF lastErr = None THEN err ELSE lastErr
  ELSE UNCHANGED <<runs, failure, lastErr>>

\* connectionRun.fail: the first caller closes the run and stores its
\* error in the Client, whatever run the Client points to.
Fail(r, err) ==
  IF runs[r] = "open"
  THEN /\ runs' = [runs EXCEPT ![r] = "failed"]
       /\ failure' = [failure EXCEPT ![r] = err]
       /\ lastErr' = err
  ELSE UNCHANGED <<runs, failure, lastErr>>

\* The read pump, the write pump, the heartbeat or a queue deadline fails
\* an open run at any time.
RunFails(r, err) ==
  /\ runs[r] = "open"
  /\ Fail(r, err)
  /\ UNCHANGED <<closed, login, session, reports, connectDone, generation, proc,
                 finalizer, callback>>

\* r.wg.Wait() returned and finalizeQueues ran (once).
Finalize(r) ==
  /\ runs[r] \in {"failed", "finalized"}
  /\ runs' = [runs EXCEPT ![r] = "finalized"]

\* Mistake: the session is not canceled.
recordKeepsSession(err) ==
  /\ lastErr' = err
  /\ state' = "Logout" /\ connState' = "Disconnected" /\ run' = None
  /\ callbackEpoch' = callbackEpoch + 1
  /\ UNCHANGED <<closed, session, terminalCallback, changes>>

\* recordTerminalForRunSession: Logout state, no run, no session, a new
\* epoch, and the sticky event unless one is still pending.
RecordTerminal(err) ==
  /\ lastErr' = err
  /\ state' = "Logout" /\ connState' = "Disconnected" /\ run' = None
  /\ sessionLive' = FALSE
  /\ callbackEpoch' = callbackEpoch + 1
  /\ changes' = NextChange
  /\ terminalCallback' = IF Listening /\ terminalCallback = 0
                          THEN NextChange ELSE terminalCallback
  /\ UNCHANGED <<closed, sessionGeneration>>

-----------------------------------------------------------------------------
(* Login and the connection attempt it shares with reconnect.              *)

\* After the lock is released: wake the dispatcher if an event was published.
AfterRecord(p, recorded) ==
  Becomes(p, IF recorded /\ Listening /\ terminalCallback = 0
             THEN [Idle EXCEPT !.pc = "signal"] ELSE Returning(p))

\* Login and Logout may be called at any time, from any goroutine.
Call(c, operation) ==
  /\ At(c, "idle")
  /\ callbackEpoch < MaxEpoch
  /\ Goto(c, operation)
  /\ OnlyProcChanges

\* beginConnect returns an error: the Client is closed, or ctx is done.
LoginClosed(c) ==
  /\ At(c, "login") /\ closed
  /\ Return(c)
  /\ OnlyProcChanges

LoginExpires(c) ==
  /\ Deadlines
  /\ At(c, "login")
  /\ Return(c)
  /\ OnlyProcChanges

LoginBegin(c) ==
  /\ At(c, "login")
  /\ ~closed /\ connectDone = None
  /\ connectDone' = c
  /\ Goto(c, "loginOwned")
  /\ UNCHANGED <<client, network, finalizer, callback>>

\* Mistake: the refused Login returns without endConnect.
refusedKeepsToken(c) ==
  /\ At(c, "loginOwned")
  /\ closed \/ terminalCallback # 0 \/ state # "Logout"
  /\ Return(c)
  /\ OnlyProcChanges

LoginRefused(c) ==
  /\ At(c, "loginOwned")
  /\ closed \/ terminalCallback # 0 \/ state # "Logout"
  /\ Goto(c, "release")
  /\ OnlyProcChanges

LoginStart(c) ==
  /\ At(c, "loginOwned")
  /\ ~closed /\ terminalCallback = 0 /\ state = "Logout"
  /\ state' = "LoggingIn" /\ connState' = "Connecting"
  /\ lastErr' = None
  /\ Becomes(c, Goroutine("emit", None, 0, "ended",
                          Event("Connecting", callbackEpoch, NextChange)))
  /\ changes' = NextChange
  /\ UNCHANGED <<closed, run, session, callbackEpoch, terminalCallback,
                 connectDone, network, finalizer, callback>>

\* The DNS lookup of a Login, or of a reconnect whose candidates are used
\* up, succeeds.
Resolve(p) ==
  /\ At(p, "resolve")
  /\ Goto(p, "dial")
  /\ OnlyProcChanges

\* The lookup or the dial fails, or the candidates are used up.
AttemptFails(p, err) ==
  /\ proc[p].pc \in {"resolve", "dial"}
  /\ Becomes(p, [proc[p] EXCEPT !.pc = "failed", !.err = err])
  /\ OnlyProcChanges

Dial(p) ==
  /\ At(p, "dial")
  /\ generation < MaxRuns
  /\ generation' = generation + 1
  /\ runs' = [runs EXCEPT ![generation + 1] = "open"]
  /\ Becomes(p, [proc[p] EXCEPT !.pc = "provision", !.run = generation + 1])
  /\ UNCHANGED <<client, connectDone, failure, finalizer, callback>>

\* The server accepted the PROVISION and the first UNREAD was written.
Provisioned(p) ==
  /\ At(p, "provision")
  /\ runs[proc[p].run] = "open"
  /\ Goto(p, "commit")
  /\ OnlyProcChanges

\* login() failed, timed out or was redirected: r.shutdown(err).
ProvisionFails(p, err) ==
  /\ At(p, "provision")
  /\ Fail(proc[p].run, err)
  /\ Becomes(p, [proc[p] EXCEPT !.pc = "dropRun", !.err = err])
  /\ UNCHANGED <<closed, login, session, reports, connectDone, generation,
                 finalizer, callback>>

\* The temporary run is gone: follow the redirect or, in Login, try the
\* next candidate (dial), or report the error.
DropRun(p, next) ==
  /\ At(p, "dropRun")
  /\ Finalize(proc[p].run)
  /\ next = "dial" => \/ proc[p].err = "redirect"
                      \/ p \in Callers /\ proc[p].err = "network"
  /\ Becomes(p, [proc[p] EXCEPT !.pc = next, !.run = None,
                                !.err = IF @ = "redirect" THEN "network" ELSE @])
  /\ UNCHANGED <<client, connectDone, generation, failure, finalizer, callback>>

LoginFails(c) ==
  /\ c \in Callers /\ At(c, "failed")
  /\ IF closed THEN UNCHANGED client ELSE RecordTerminal(proc[c].err)
  /\ AfterRecord(c, ~closed)
  /\ UNCHANGED <<connectDone, network, finalizer, callback>>

\* A run that may not be installed is shut down before the token is given
\* back.
Refuse(p) ==
  /\ Fail(proc[p].run, "ended")
  /\ Goto(p, "rejectRun")
  /\ UNCHANGED <<closed, login, session, reports, connectDone, generation,
                 finalizer, callback>>

Install(p) ==
  /\ run' = proc[p].run
  /\ state' = "LoggedIn" /\ connState' = "Connected"
  /\ Becomes(p, [proc[p] EXCEPT !.pc = "emit",
                                !.say = Event("Connected", callbackEpoch, NextChange)])
  /\ changes' = NextChange
  /\ UNCHANGED <<closed, lastErr, callbackEpoch, terminalCallback, connectDone,
                 network, finalizer, callback>>

\* Mistake: a Login that lost to Close forgets the run it has dialled.
commitForgetsRun(c) ==
  /\ c \in Callers /\ At(c, "commit")
  /\ IF closed
     THEN /\ Becomes(c, [Idle EXCEPT !.pc = "release"])
          /\ OnlyProcChanges
     ELSE /\ sessionLive' = TRUE
          /\ sessionGeneration' = sessionGeneration + 1
          /\ Install(c)

LoginCommit(c) ==
  /\ c \in Callers /\ At(c, "commit")
  /\ IF closed THEN Refuse(c)
     ELSE /\ sessionLive' = TRUE
          /\ sessionGeneration' = sessionGeneration + 1
          /\ Install(c)

\* Mistake: the refused run is failed but its goroutines are not awaited.
rejectAtOnce(p) ==
  /\ At(p, "rejectRun")
  /\ Goto(p, "release")
  /\ OnlyProcChanges

RejectRun(p) ==
  /\ At(p, "rejectRun")
  /\ Finalize(proc[p].run)
  /\ Goto(p, "release")
  /\ UNCHANGED <<client, connectDone, generation, failure, finalizer, callback>>

-----------------------------------------------------------------------------
(* monitor and reconnect, the goroutine of run r.                          *)

MonitorFinalizes(r) ==
  /\ At(r, "monitor")
  /\ Finalize(r)
  /\ Goto(r, "decide")
  /\ UNCHANGED <<client, connectDone, generation, failure, finalizer, callback>>

\* monitor reads run, closed and lastErr under the read lock, and acts on
\* what it read after it released the lock.
MonitorDecides(r) ==
  /\ At(r, "decide")
  /\ IF closed \/ run # r THEN Return(r)
     ELSE Becomes(r, [proc[r] EXCEPT
                        !.pc = IF lastErr = "terminal" \/ DisableReconnect
                               THEN "terminal" ELSE "reconnect",
                        !.err = lastErr])
  /\ OnlyProcChanges

MonitorTerminal(r) ==
  /\ At(r, "terminal")
  /\ IF closed \/ run # r THEN UNCHANGED client ELSE RecordTerminal(proc[r].err)
  /\ AfterRecord(r, ~closed /\ run = r)
  /\ UNCHANGED <<connectDone, network, finalizer, callback>>

ReconnectStart(r) ==
  /\ At(r, "reconnect")
  /\ IF closed \/ run # r \/ state = "Logout" \/ ~sessionLive
     THEN Return(r) /\ UNCHANGED client
     ELSE /\ state' = "Reconnecting" /\ connState' = "Reconnecting"
          /\ Becomes(r,
               IF connState = "Reconnecting"
               THEN Goroutine("plan", None, sessionGeneration, lastErr, None)
               ELSE Goroutine("emit", None, sessionGeneration, lastErr,
                              Event("Reconnecting", callbackEpoch, NextChange)))
          /\ changes' = IF connState = "Reconnecting" THEN changes ELSE NextChange
          /\ UNCHANGED <<closed, run, session, lastErr, callbackEpoch,
                         terminalCallback>>
  /\ UNCHANGED <<connectDone, network, finalizer, callback>>

\* The choice of the endpoint; a redirect whose address is unusable ends
\* the session at once, without the ownership token.
Plan(r, next) ==
  /\ At(r, "plan")
  /\ next = "badRedirect" => proc[r].err = "redirect"
  /\ Goto(r, next)
  /\ OnlyProcChanges

RecordTerminalForSession(r, err) ==
  LET recorded == ~closed /\ run = r /\ SessionIsCurrent(proc[r].session)
  IN /\ IF recorded THEN RecordTerminal(err) ELSE UNCHANGED client
     /\ AfterRecord(r, recorded)
     /\ UNCHANGED <<connectDone, network, finalizer, callback>>

BadRedirect(r) == At(r, "badRedirect") /\ RecordTerminalForSession(r, "network")

StillReconnecting(r) ==
  ~closed /\ run = r /\ state = "Reconnecting" /\ SessionIsCurrent(proc[r].session)

\* The checks around the timer; the timer itself takes any time.
Backoff(r) ==
  /\ At(r, "backoff")
  /\ IF StillReconnecting(r) THEN Goto(r, "begin") ELSE Return(r)
  /\ OnlyProcChanges

\* beginConnect(sessionCtx): gives up when the session was canceled.
ReconnectBegin(r) ==
  /\ At(r, "begin")
  /\ \/ /\ closed \/ ~SessionIsCurrent(proc[r].session)
        /\ Return(r)
        /\ UNCHANGED connectDone
     \/ /\ ~closed /\ connectDone = None
        /\ connectDone' = r
        /\ Goto(r, "recheck")
  /\ UNCHANGED <<client, network, finalizer, callback>>

\* next is "resolve" when the round of candidates is used up.
Recheck(r, next) ==
  /\ At(r, "recheck")
  /\ Goto(r, IF StillReconnecting(r) THEN next ELSE "release")
  /\ OnlyProcChanges

\* An attempt failed.  Was the session canceled meanwhile, stop; else
\* store the error and end the session or back off again.
ReconnectFails(r) ==
  /\ r \in Runs /\ At(r, "failed")
  /\ IF closed \/ ~SessionIsCurrent(proc[r].session)
     THEN Goto(r, "release") /\ UNCHANGED lastErr
     ELSE /\ lastErr' = proc[r].err
          /\ Goto(r, IF proc[r].err = "terminal" THEN "badSession" ELSE "retry")
  /\ UNCHANGED <<closed, login, session, reports, connectDone, network, finalizer,
                 callback>>

ReconnectTerminal(r) == At(r, "badSession") /\ RecordTerminalForSession(r, proc[r].err)

ReconnectCommit(r) ==
  /\ r \in Runs /\ At(r, "commit")
  /\ IF StillReconnecting(r)
     THEN Install(r) /\ UNCHANGED <<session>>
     ELSE Refuse(r)

-----------------------------------------------------------------------------
(* Logout.                                                                 *)

\* beginLogout with the token free: cancel the session and take it.
LogoutBegin(c) ==
  /\ At(c, "logout")
  /\ ~closed /\ connectDone = None
  /\ sessionLive' = FALSE
  /\ connectDone' = c
  /\ Goto(c, "logoutOwned")
  /\ UNCHANGED <<closed, login, sessionGeneration, lastErr, reports, network,
                 finalizer, callback>>

\* Mistake: Logout waits for the token before it cancels the session.
parkWithoutCancel(c) ==
  /\ At(c, "logout")
  /\ ~closed /\ connectDone # None
  /\ Goto(c, "logoutWait")
  /\ OnlyProcChanges

\* With the token taken: cancel the session if it is a reconnecting one,
\* remember which, and park on the owner's channel.
LogoutPark(c) ==
  /\ At(c, "logout")
  /\ ~closed /\ connectDone # None
  /\ LET cancel == state = "Reconnecting" /\ sessionLive
     IN /\ sessionLive' = (sessionLive /\ ~cancel)
        /\ Becomes(c, [proc[c] EXCEPT !.pc = "logoutWait",
                                      !.session = IF cancel THEN sessionGeneration ELSE @])
  /\ UNCHANGED <<closed, login, sessionGeneration, lastErr, reports, connectDone,
                 network, finalizer, callback>>

LogoutClosed(c) ==
  /\ At(c, "logout") /\ closed
  /\ Return(c)
  /\ OnlyProcChanges

\* Mistake: the callback epoch does not move.
resetKeepsEpoch ==
  /\ run' = None
  /\ state' = "Logout" /\ connState' = "Disconnected"
  /\ changes' = IF connState = "Disconnected" THEN changes ELSE NextChange
  /\ UNCHANGED callbackEpoch

Reset ==
  /\ run' = None
  /\ state' = "Logout" /\ connState' = "Disconnected"
  /\ callbackEpoch' = callbackEpoch + 1
  /\ changes' = IF connState = "Disconnected" THEN changes ELSE NextChange

Farewell == Event("Disconnected", callbackEpoch + 1, NextChange)

\* Mistake: the session that Logout canceled is not detached.
expiresWithoutDetach(c) ==
  /\ Deadlines
  /\ proc[c].pc \in {"logout", "logoutWait"}
  /\ Return(c)
  /\ OnlyProcChanges

\* The deadline of Logout passes first.  If it canceled a reconnecting
\* session, detachCanceledSessionForLogout takes it off the Client; the
\* reconnect still owns connectDone.
LogoutExpires(c) ==
  /\ Deadlines
  /\ proc[c].pc \in {"logout", "logoutWait"}
  /\ IF /\ proc[c].session # 0 /\ sessionGeneration = proc[c].session
        /\ ~sessionLive /\ state = "Reconnecting"
     THEN /\ Reset
          /\ Becomes(c, Goroutine("emit", None, 0, "ended", Farewell))
          /\ UNCHANGED <<closed, session, lastErr, terminalCallback>>
     ELSE Return(c) /\ UNCHANGED client
  /\ UNCHANGED <<connectDone, network, finalizer, callback>>

\* Logout proper: off the Client first, then the LOGOUT exchange.
LogoutStart(c) ==
  /\ At(c, "logoutOwned")
  /\ IF closed THEN Goto(c, "release") /\ UNCHANGED client
     ELSE /\ Reset
          /\ Becomes(c,
               IF run # None
               THEN Goroutine("sayGoodbye", run, 0, "ended", Farewell)
               ELSE IF connState # "Disconnected"
               THEN Goroutine("emit", None, 0, "ended", Farewell)
               ELSE [Idle EXCEPT !.pc = "release"])
          /\ UNCHANGED <<closed, session, lastErr, terminalCallback>>
  /\ UNCHANGED <<connectDone, network, finalizer, callback>>

\* The LOGOUT frame was answered, refused or timed out; then r.shutdown.
SayGoodbye(c) ==
  /\ At(c, "sayGoodbye")
  /\ Fail(proc[c].run, "ended")
  /\ Goto(c, "closeRun")
  /\ UNCHANGED <<closed, login, session, reports, connectDone, generation,
                 finalizer, callback>>

CloseRun(c) ==
  /\ At(c, "closeRun")
  /\ Finalize(proc[c].run)
  /\ Goto(c, "emit")
  /\ UNCHANGED <<client, connectDone, generation, failure, finalizer, callback>>

-----------------------------------------------------------------------------
(* Close and its shared finalizer.                                         *)

Close ==
  /\ ~closed
  /\ closed' = TRUE
  /\ sessionLive' = FALSE
  /\ run' = None /\ state' = "Logout" /\ connState' = "Disconnected"
  /\ finalizer' = [pc |-> IF run = None THEN "wait" ELSE "fail", run |-> run]
  /\ UNCHANGED <<sessionGeneration, lastErr, reports, connectDone, network, proc,
                 callback>>

FinalizerFails ==
  /\ finalizer.pc = "fail"
  /\ Fail(finalizer.run, "ended")
  /\ finalizer' = [finalizer EXCEPT !.pc = "await"]
  /\ UNCHANGED <<closed, login, session, reports, connectDone, generation, proc,
                 callback>>

FinalizerAwaits ==
  /\ finalizer.pc = "await"
  /\ Finalize(finalizer.run)
  /\ finalizer' = [finalizer EXCEPT !.pc = "wait"]
  /\ UNCHANGED <<client, connectDone, generation, failure, proc, callback>>

\* The operation that owns the life cycle, if any, has ended; the queue of
\* batches is drained, the codec destroyed, and closeDone closed.
FinalizerEnds ==
  /\ finalizer.pc = "wait"
  /\ connectDone = None
  /\ finalizer' = [finalizer EXCEPT !.pc = "done"]
  /\ UNCHANGED <<client, connectDone, network, proc, callback>>

-----------------------------------------------------------------------------
\* The steps of one goroutine between two calls, deadlines excepted.
CallerStep(c) ==
  \/ LoginClosed(c) \/ LoginBegin(c) \/ LoginRefused(c) \/ LoginStart(c)
  \/ LoginFails(c) \/ LoginCommit(c)
  \/ LogoutBegin(c) \/ LogoutPark(c) \/ LogoutClosed(c) \/ LogoutStart(c)
  \/ SayGoodbye(c) \/ CloseRun(c)

MonitorStep(r) ==
  \/ MonitorFinalizes(r) \/ MonitorDecides(r) \/ MonitorTerminal(r)
  \/ ReconnectStart(r)
  \/ \E next \in {"backoff", "badRedirect"} : Plan(r, next)
  \/ BadRedirect(r) \/ Backoff(r) \/ ReconnectBegin(r)
  \/ \E next \in {"resolve", "dial"} : Recheck(r, next)
  \/ ReconnectFails(r) \/ ReconnectTerminal(r) \/ ReconnectCommit(r)
  \/ RetryLater(r)

AttemptStep(p) ==
  \/ Resolve(p) \/ Dial(p) \/ Provisioned(p)
  \/ \E err \in {"network", "terminal"} : AttemptFails(p, err)
  \/ \E err \in {"network", "redirect", "terminal"} : ProvisionFails(p, err)
  \/ \E next \in {"dial", "failed"} : DropRun(p, next)
  \/ RejectRun(p) \/ Emit(p) \/ Signal(p) \/ EndConnect(p)

ProcStep(p) ==
  \/ p \in Callers /\ CallerStep(p)
  \/ p \in Runs /\ MonitorStep(p)
  \/ AttemptStep(p)

DispatcherStep ==
  \/ ClaimTerminal \/ NothingToClaim \/ Woken \/ TakeEvent \/ Invoke
  \/ DispatcherExits

FinalizerStep == FinalizerFails \/ FinalizerAwaits \/ FinalizerEnds

\* A closed Client whose goroutines have all ended does nothing any more.
Terminated ==
  /\ finalizer.pc = "done"
  /\ Listening => loop = "exited"
  /\ \A p \in Procs : At(p, "idle")
  /\ UNCHANGED vars

Next ==
  \/ \E p \in Procs : ProcStep(p)
  \/ \E c \in Callers : Call(c, "login") \/ Call(c, "logout")
  \/ \E c \in Callers : LoginExpires(c) \/ LogoutExpires(c)
  \/ \E r \in Runs, err \in {"network", "redirect", "terminal"} : RunFails(r, err)
  \/ Close
  \/ DispatcherStep
  \/ FinalizerStep
  \/ Terminated

Spec == Init /\ [][Next]_vars

\* Goroutines that can run do run, and every network call returns at last:
\* each has a timeout (connectTimeout, endpointConnectTimeout, sendTimeout
\* and logoutTimeout).  Nothing is assumed of failures, calls or
\* deadlines.
FairSpec ==
  /\ Spec
  /\ \A p \in Procs : WF_vars(ProcStep(p))
  /\ WF_vars(DispatcherStep)
  /\ WF_vars(FinalizerStep)

-----------------------------------------------------------------------------
(* Properties.                                                             *)

Live == {r \in Runs : runs[r] \in {"open", "failed"}}

\* A new run is dialled only after the goroutines of the previous one have
\* ended and its queues are finalized: the Client never has two runs that
\* could both pull queues or hold batch charges (dial, shutdown, monitor).
OneLiveRun == \A r, s \in Live : r = s

\* Every run that is not finalized has a goroutine that will finalize it:
\* the operation that dialled it, its monitor, Logout, or Close.  A missed
\* shutdown on any error path leaks a socket and its goroutines.
NoRunLeaked ==
  \A r \in Live :
    \/ \E p \in Procs : /\ proc[p].run = r
                        /\ proc[p].pc \in {"provision", "dropRun", "commit",
                             "rejectRun", "emit", "sayGoodbye", "closeRun"}
    \/ At(r, "monitor")
    \/ finalizer.run = r /\ finalizer.pc \in {"fail", "await"}

\* What Health reports is coherent: state and connState move together, and
\* the Client points to a run exactly while it has a session.  Once Close has
\* marked the Client closed no late Login, reconnect or terminal record
\* installs a run or a state (comment in Login), and when the finalizer
\* destroys the codec nothing is left that could encode or decode with it.
StateCoherent ==
  /\ connState = CASE state = "Logout"       -> "Disconnected"
                   [] state = "LoggingIn"    -> "Connecting"
                   [] state = "LoggedIn"     -> "Connected"
                   [] state = "Reconnecting" -> "Reconnecting"
  /\ (run # None) <=> (state \in {"LoggedIn", "Reconnecting"})
  /\ state = "Reconnecting" => runs[run] = "finalized"
  /\ state = "LoggingIn" => connectDone \in Callers
  /\ sessionLive => run # None
  /\ closed => state = "Logout" /\ ~sessionLive
  /\ finalizer.pc = "done" => Live = {} /\ connectDone = None

\* A session is never left without someone to move it on.  A LoggedIn
\* Client whose run died has a monitor that will see it; a Reconnecting
\* one has its reconnect goroutine or, once the session is canceled, the
\* Logout that canceled it (beginLogout, detachCanceledSessionForLogout).
LogoutInCharge ==
  \E c \in Callers :
    \/ At(c, "logoutOwned")
    \/ /\ proc[c].pc \in {"logout", "logoutWait"}
       /\ proc[c].session = sessionGeneration

SessionHasDriver ==
  /\ state = "LoggedIn" =>
       \/ proc[run].pc \in {"monitor", "decide", "terminal", "reconnect"}
       \/ \E p \in Procs : proc[p].run = run /\ At(p, "emit")
       \/ LogoutInCharge
  /\ state = "Reconnecting" =>
       \/ /\ sessionLive
          /\ proc[run].session = sessionGeneration
          /\ proc[run].pc \notin {"idle", "release", "rejectRun"}
       \/ LogoutInCharge

\* monitor classifies the end of its run by Client.lastErr, a field every
\* run writes: when it finds its run still current, the error is the one
\* its own run failed with.
MonitorReadsOwnError ==
  \A r \in Runs : At(r, "decide") /\ run = r /\ ~closed => lastErr = failure[r]

\* Callbacks tell the story in order: a change of connState is never
\* reported after a later one, in particular no Connected or Reconnecting
\* of an old session after its Disconnected (callbackEpoch, emitAt,
\* claimTerminalCallback).
CallbacksInOrder == [][seen'.change > seen.change]_seen

\* Close ends: its finalizer gets past the run, past the operation that
\* owns the life cycle, and closes closeDone.
CloseCompletes == closed ~> (finalizer.pc = "done")

\* A terminal event, once published, is claimed by the dispatcher, so that
\* Login does not answer ErrCallbackBacklog for ever.
TerminalDelivered == (terminalCallback # 0) ~> (terminalCallback = 0)

\* Logout returns even when reconnect would retry for ever: it cancels the
\* session before it waits for the ownership token.
LogoutReturns == \A c \in Callers : At(c, "logout") ~> At(c, "idle")

=============================================================================
