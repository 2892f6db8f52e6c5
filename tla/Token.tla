-------------------------------- MODULE Token --------------------------------
(***************************************************************************)
(* The login token of a Client, the expiry the server reports for it, and  *)
(* the warning before that expiry (sdk/client.go, sdk/connection.go).      *)
(* Login, reconnect, UpdateToken, Logout and the warning timers run in     *)
(* goroutines of their own; a step is one critical section of Client.mu.   *)
(*                                                                         *)
(* Tokens are numbered in the order in which they come to exist.  A token  *)
(* of the server has an expiry, named by the token; 0 is no token and the  *)
(* zero time.                                                              *)
(***************************************************************************)
EXTENDS Naturals

CONSTANTS
  MaxTokens,     \* bound on the tokens that come to exist
  MaxSessions    \* bound on the sessions

ASSUME TokenAssumption == {MaxTokens, MaxSessions} \subseteq Nat

Tokens == 1..MaxTokens

VARIABLES
  issued,      \* number of tokens that exist
  token,       \* Client.token
  expires,     \* Client.tokenExpiresAt
  sessions,    \* Client.sessionGeneration
  session,     \* the current session, 0: sessionCtx is nil
  phase,       \* of Login or reconnect: "out", "attempt", "provision",
               \* "commit", "schedule", "up"
  sent,        \* the token in the PROVISION of this attempt
  staged,      \* the token in the answer (acceptedProvision), 0: none
  scheduling,  \* the expiry read at the commit, to be scheduled
  timers,      \* timers that run: records of session and expiry
  warning,     \* the timer tokenWarningCancel cancels, if any: a set
  emitted,     \* warnings on their way through the dispatcher
  warned,      \* history: expiries that have been warned of, or dropped
  updated      \* history: the token of the last UpdateToken or Login

vars == <<issued, token, expires, sessions, session, phase, sent, staged,
          scheduling, timers, warning, emitted, warned, updated>>

attempt == <<phase, sent, staged, scheduling>>

watch == <<timers, warning, emitted, warned>>

Timer == [session : 1..MaxSessions, expires : Tokens]

Init ==
  /\ issued = 0 /\ token = 0 /\ expires = 0
  /\ sessions = 0 /\ session = 0
  /\ phase = "out" /\ sent = 0 /\ staged = 0 /\ scheduling = 0
  /\ timers = {} /\ warning = {} /\ emitted = {} /\ warned = {}
  /\ updated = 0

Issue == issued < MaxTokens /\ issued' = issued + 1

\* The timer behind tokenWarningCancel stops and the field is cleared.
CancelWarning ==
  /\ timers' = timers \ warning
  /\ warning' = {}

Login ==
  /\ phase = "out" /\ sessions < MaxSessions
  /\ Issue
  /\ token' = issued' /\ updated' = issued' /\ expires' = 0
  /\ phase' = "attempt"
  /\ UNCHANGED <<sessions, session, sent, staged, scheduling, watch>>

\* UpdateToken does not look at the state of the Client.
UpdateToken ==
  /\ Issue
  /\ token' = issued' /\ updated' = issued' /\ expires' = 0
  /\ CancelWarning
  /\ UNCHANGED <<sessions, session, attempt, emitted, warned>>

\* login() of the connectionRun reads the token for its PROVISION.
SendProvision ==
  /\ phase = "attempt"
  /\ phase' = "provision" /\ sent' = token
  /\ UNCHANGED <<issued, token, expires, sessions, session, staged, scheduling, watch, updated>>

\* The server accepts, with a new token or without one (parseProvisionState).
Accept ==
  /\ phase = "provision"
  /\ phase' = "commit"
  /\ \/ staged' = 0 /\ UNCHANGED issued
     \/ Issue /\ staged' = issued'
  /\ UNCHANGED <<token, expires, sessions, session, sent, scheduling, watch, updated>>

\* A reconnect's attempt fails and is repeated.
Retry ==
  /\ phase = "provision" /\ session # 0
  /\ phase' = "attempt"
  /\ UNCHANGED <<issued, token, expires, sessions, session,
                 sent, staged, scheduling, watch, updated>>

\* applyProvisionLocked: a token of the server replaces the Client's.
applyProvisionLocked ==
  IF staged = 0 THEN UNCHANGED <<token, expires, timers, warning>>
  ELSE token' = staged /\ expires' = staged /\ CancelWarning

\* The commit of Login starts a session, that of reconnect continues one.
Commit ==
  /\ phase = "commit"
  /\ applyProvisionLocked
  /\ IF session = 0 THEN session' = sessions + 1 /\ sessions' = sessions + 1
     ELSE UNCHANGED <<session, sessions>>
  /\ phase' = "schedule" /\ scheduling' = expires'
  /\ UNCHANGED <<issued, sent, staged, emitted, warned, updated>>

\* Mistake: tokenWarningCancel is set first and called then.
scheduleCancelsItself ==
  /\ phase = "schedule"
  /\ IF scheduling = 0 THEN UNCHANGED <<timers, warning>>
     ELSE LET t == [session |-> session, expires |-> scheduling]
          IN timers' = timers \ {t} /\ warning' = {t}
  /\ phase' = "up" /\ scheduling' = 0
  /\ UNCHANGED <<issued, token, expires, sessions, session,
                 sent, staged, emitted, warned, updated>>

\* scheduleTokenExpiryWarning, a critical section later, for the session of
\* the commit (Logout and Close may have ended it: see End).
Schedule ==
  /\ phase = "schedule"
  /\ IF scheduling = 0 THEN UNCHANGED <<timers, warning>>
     ELSE LET t == [session |-> session, expires |-> scheduling]
          IN timers' = (timers \ warning) \cup {t} /\ warning' = {t}
  /\ phase' = "up" /\ scheduling' = 0
  /\ UNCHANGED <<issued, token, expires, sessions, session,
                 sent, staged, emitted, warned, updated>>

\* The connection is lost and reconnect starts.
Lost ==
  /\ phase = "up"
  /\ phase' = "attempt"
  /\ UNCHANGED <<issued, token, expires, sessions, session,
                 sent, staged, scheduling, watch, updated>>

\* Logout, Close or a terminal error: the session's context stops every
\* timer of it, and its goroutines find that the session is over.
End ==
  /\ phase # "out"
  /\ phase' = "out" /\ token' = 0 /\ expires' = 0 /\ session' = 0
  /\ sent' = 0 /\ staged' = 0 /\ scheduling' = 0
  /\ timers' = {} /\ warning' = {}
  /\ UNCHANGED <<issued, sessions, emitted, warned, updated>>

\* The time of a timer has come: its warning is emitted, or dropped.
Fire(t) ==
  /\ t \in timers
  /\ timers' = timers \ {t}
  /\ emitted' \in {emitted, emitted \cup {t}}
  /\ warned' = warned \cup {t.expires}
  /\ UNCHANGED <<issued, token, expires, sessions, session, attempt, warning, updated>>

\* Mistake: the dispatcher does not look whether the warning is still due.
dispatchAnyWarning(t) == t \in emitted

\* The dispatcher runs the warning; the application is told when the session
\* and the expiry are still the ones of the timer.
DispatchWarning(t) == t \in emitted /\ t.session = session /\ t.expires = expires

Dispatch(t) ==
  /\ t \in emitted
  /\ emitted' = emitted \ {t}
  /\ UNCHANGED <<issued, token, expires, sessions, session, attempt,
                 timers, warning, warned, updated>>

\* A Client that is logged out may stay so.
Resting == phase = "out" /\ UNCHANGED vars

Next ==
  \/ Resting
  \/ Login \/ UpdateToken \/ SendProvision \/ Accept \/ Retry \/ Commit
  \/ Schedule \/ Lost \/ End
  \/ \E t \in Timer : Fire(t) \/ Dispatch(t)

Spec == Init /\ [][Next]_vars

-----------------------------------------------------------------------------
(* Properties.                                                             *)

\* The expiry that TokenExpiresAt reports is that of the token in force,
\* although UpdateToken, Login and the answers of PROVISION replace tokens in
\* any order, and while a session is up it is watched: a timer for it runs, or
\* has fired (scheduleTokenExpiryWarning after the commit, cancelled by
\* UpdateToken or by the next PROVISION only).
ExpiryWatched ==
  expires # 0 =>
    /\ expires = token
    /\ phase = "up" =>
         expires \in warned \/ [session |-> session, expires |-> expires] \in timers

\* The application is never warned of the expiry of a token that is no longer
\* in force: what the timer knew is checked again by the dispatcher.
WarnsOfCurrent == \A t \in emitted : DispatchWarning(t) => t.expires = token /\ session # 0

\* What UpdateToken sets is used by the reconnects that follow it, as the plan
\* says: no PROVISION sends an older token.
UpdateIsUsed == [][SendProvision /\ updated # 0 => sent' >= updated]_vars
=============================================================================
