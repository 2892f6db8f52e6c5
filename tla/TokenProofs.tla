----------------------------- MODULE TokenProofs -----------------------------
(***************************************************************************)
(* The expiry a Client reports is that of its token and is watched, and    *)
(* no warning is about another token, for every number of tokens and       *)
(* sessions.                                                               *)
(***************************************************************************)
EXTENDS Token, TLAPS

TypeOK ==
  /\ issued \in 0..MaxTokens
  /\ {token, expires, staged, scheduling} \subseteq 0..issued
  /\ sessions \in 0..MaxSessions /\ session \in {0, sessions}
  /\ phase \in {"out", "attempt", "provision", "commit", "schedule", "up"}
  /\ timers \subseteq Timer /\ emitted \subseteq Timer

\* A Login in progress has a session left, and a session is there until its end.
SessionOK ==
  /\ phase \in {"attempt", "provision", "commit"} /\ session = 0 => sessions < MaxSessions
  /\ phase \in {"schedule", "up"} => session # 0

\* The timer of the expiry in force.
Current == [session |-> session, expires |-> expires]

\* UpdateToken may come between the commit and scheduleTokenExpiryWarning: what
\* is scheduled is then no longer in force, but nothing else is.
ExpiryOK ==
  /\ expires \in {0, token}
  /\ phase = "schedule" => expires \in {0, scheduling}
  /\ phase = "up" /\ expires # 0 => expires \in warned \/ Current \in timers

TokenInv == TypeOK /\ SessionOK /\ ExpiryOK

-----------------------------------------------------------------------------
(* TokenInv holds in every state. *)

LEMMA TokenInit == Init => TokenInv
<1> SUFFICES ASSUME Init PROVE TokenInv
  OBVIOUS
<1>1. MaxTokens \in Nat /\ MaxSessions \in Nat
  BY TokenAssumption
<1>2. TypeOK
  BY <1>1 DEF Init, TypeOK
<1>3. SessionOK /\ ExpiryOK
  BY DEF Init, SessionOK, ExpiryOK
<1> QED BY <1>2, <1>3 DEF TokenInv

\* Login and UpdateToken put a token in force whose expiry is not known.
LEMMA NewToken == ASSUME TokenInv, Login \/ UpdateToken PROVE TokenInv'
<1> USE TokenAssumption DEF TokenInv
<1>1. issued < MaxTokens /\ issued' = issued + 1 /\ token' = issued + 1 /\ expires' = 0
  BY DEF Login, UpdateToken, Issue
<1>2. /\ UNCHANGED <<sessions, session, emitted, staged, scheduling>>
      /\ timers' \subseteq timers
  BY DEF Login, UpdateToken, CancelWarning, watch, attempt
<1>3. \/ phase' = phase
      \/ phase' = "attempt" /\ sessions < MaxSessions
  BY DEF Login, UpdateToken, attempt
<1>4. TypeOK'
  BY <1>1, <1>2, <1>3 DEF TypeOK, Timer, Tokens
<1>5. SessionOK'
  BY <1>2, <1>3 DEF SessionOK
<1>6. ExpiryOK'
  BY <1>1 DEF ExpiryOK
<1> QED BY <1>4, <1>5, <1>6

\* The steps of an attempt before its commit, and the loss of a connection.
LEMMA AttemptGoes ==
  ASSUME TokenInv, SendProvision \/ Accept \/ Retry \/ Lost
  PROVE  TokenInv'
<1> USE TokenAssumption DEF TokenInv
<1>1. /\ UNCHANGED <<token, expires, sessions, session, scheduling, timers, emitted>>
      /\ issued' \in issued..MaxTokens /\ staged' \in {0, staged, issued'}
  BY DEF SendProvision, Accept, Retry, Lost, Issue, watch, TypeOK
<1>2. /\ phase' \in {"attempt", "provision", "commit"}
      /\ phase \in {"attempt", "provision", "up"}
  BY DEF SendProvision, Accept, Retry, Lost
<1>3. TypeOK'
  BY <1>1, <1>2 DEF TypeOK
<1>4. SessionOK'
  BY <1>1, <1>2 DEF SessionOK
<1>5. ExpiryOK'
  BY <1>1, <1>2 DEF ExpiryOK
<1> QED BY <1>3, <1>4, <1>5

\* The commit puts the token of the answer in force, with its expiry, or keeps
\* both; it starts a session unless there is one.
LEMMA CommitGoes == ASSUME TokenInv, Commit PROVE TokenInv'
<1> USE TokenAssumption DEF TokenInv
<1>1. /\ phase = "commit" /\ phase' = "schedule" /\ scheduling' = expires'
      /\ UNCHANGED <<issued, staged, emitted>>
  BY DEF Commit
<1>2. /\ timers' \subseteq timers
      /\ \/ UNCHANGED <<token, expires>>
         \/ token' = staged /\ expires' = staged
  BY DEF Commit, applyProvisionLocked, CancelWarning
<1>3. \/ session = 0 /\ session' = sessions + 1 /\ sessions' = sessions + 1
      \/ session # 0 /\ UNCHANGED <<session, sessions>>
  BY DEF Commit
<1>4. session = 0 => sessions < MaxSessions
  BY <1>1 DEF SessionOK
<1>5. TypeOK'
  BY <1>1, <1>2, <1>3, <1>4 DEF TypeOK
<1>6. SessionOK'
  BY <1>1, <1>3 DEF SessionOK, TypeOK
<1>7. ExpiryOK'
  BY <1>1, <1>2 DEF ExpiryOK
<1> QED BY <1>5, <1>6, <1>7

\* The warning that is scheduled is that of the expiry in force, if there is one.
LEMMA ScheduleGoes == ASSUME TokenInv, Schedule PROVE TokenInv'
<1> USE TokenAssumption DEF TokenInv
<1> DEFINE t == [session |-> session, expires |-> scheduling]
<1>1. /\ phase = "schedule" /\ phase' = "up" /\ scheduling' = 0
      /\ UNCHANGED <<issued, token, expires, sessions, session, staged, emitted, warned>>
  BY DEF Schedule
<1>2. IF scheduling = 0 THEN timers' = timers ELSE timers' = (timers \ warning) \cup {t}
  BY DEF Schedule
<1>3. session # 0
  BY <1>1 DEF SessionOK
<1>4. scheduling # 0 => t \in Timer
  BY <1>3 DEF TypeOK, Timer, Tokens
<1>5. scheduling # 0 /\ expires # 0 => t = Current /\ Current' = Current
  BY <1>1 DEF ExpiryOK, Current
<1> HIDE DEF t
<1>6. TypeOK'
  BY <1>1, <1>2, <1>4 DEF TypeOK
<1>7. SessionOK'
  BY <1>1, <1>3 DEF SessionOK
<1>8. ExpiryOK'
  BY <1>1, <1>2, <1>5 DEF ExpiryOK
<1> QED BY <1>6, <1>7, <1>8

LEMMA EndGoes == ASSUME TokenInv, End PROVE TokenInv'
<1> USE TokenAssumption DEF TokenInv
<1>1. TypeOK'
  BY DEF End, TypeOK
<1>2. SessionOK' /\ ExpiryOK'
  BY DEF End, SessionOK, ExpiryOK
<1> QED BY <1>1, <1>2

\* A timer that fires is replaced by the note that its expiry was warned of.
LEMMA TimerGoes ==
  ASSUME TokenInv, NEW t \in Timer, Fire(t) \/ Dispatch(t)
  PROVE  TokenInv'
<1> USE DEF TokenInv
<1>1. UNCHANGED <<issued, token, expires, sessions, session, attempt>>
  BY DEF Fire, Dispatch
<1>2. \/ timers' = timers /\ warned' = warned
      \/ timers' = timers \ {t} /\ warned' = warned \cup {t.expires}
  BY DEF Fire, Dispatch
<1>3. emitted' \subseteq emitted \cup {t}
  BY DEF Fire, Dispatch
<1>4. TypeOK'
  BY <1>1, <1>2, <1>3 DEF TypeOK, attempt
<1>5. SessionOK'
  BY <1>1 DEF SessionOK, attempt
<1>6. Current' = Current /\ Current.expires = expires
  BY <1>1 DEF Current
<1>7. expires \in warned \/ Current \in timers => expires \in warned' \/ Current \in timers'
  BY <1>2, <1>6
<1>8. ExpiryOK'
  BY <1>1, <1>6, <1>7 DEF ExpiryOK, attempt
<1> QED BY <1>4, <1>5, <1>8

LEMMA TokenStep == TokenInv /\ [Next]_vars => TokenInv'
<1> SUFFICES ASSUME TokenInv, [Next]_vars PROVE TokenInv'
  OBVIOUS
<1>1. CASE UNCHANGED vars
  BY <1>1 DEF vars, TokenInv, TypeOK, SessionOK, ExpiryOK, Current
<1>2. CASE Login \/ UpdateToken
  BY <1>2, NewToken
<1>3. CASE SendProvision \/ Accept \/ Retry \/ Lost
  BY <1>3, AttemptGoes
<1>4. CASE Commit
  BY <1>4, CommitGoes
<1>5. CASE Schedule
  BY <1>5, ScheduleGoes
<1>6. CASE End
  BY <1>6, EndGoes
<1>7. CASE \E t \in Timer : Fire(t) \/ Dispatch(t)
  BY <1>7, TimerGoes
<1> QED BY <1>1, <1>2, <1>3, <1>4, <1>5, <1>6, <1>7 DEF Next, Resting

LEMMA TokenAlways == Spec => []TokenInv
  BY TokenInit, TokenStep, PTL DEF Spec

-----------------------------------------------------------------------------
(* The theorems *)

\* The expiry that TokenExpiresAt reports is that of the token in force, in whatever
\* order UpdateToken, Login and the answers of PROVISION replace tokens, and while a
\* session is up a timer for it runs or has fired (scheduleTokenExpiryWarning).
THEOREM ExpiryIsWatched == Spec => []ExpiryWatched
<1>1. TokenInv => ExpiryWatched
  BY DEF TokenInv, ExpiryOK, ExpiryWatched, Current
<1> QED BY <1>1, TokenAlways, PTL

\* The application is never warned of the expiry of a token that is no longer in
\* force, however late the dispatcher comes to the warning of a timer.
THEOREM WarningsCurrent == Spec => []WarnsOfCurrent
<1>1. TokenInv => WarnsOfCurrent
  <2> SUFFICES ASSUME TokenInv, NEW t \in emitted, DispatchWarning(t)
               PROVE  t.expires = token /\ session # 0
    BY DEF WarnsOfCurrent
  <2>1. t.session # 0 /\ t.expires # 0
    BY DEF TokenInv, TypeOK, Timer, Tokens
  <2> QED BY <2>1 DEF DispatchWarning, TokenInv, ExpiryOK
<1> QED BY <1>1, TokenAlways, PTL
=============================================================================
