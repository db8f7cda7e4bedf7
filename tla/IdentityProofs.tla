-------------------------- MODULE IdentityProofs ---------------------------
(***************************************************************************)
(* Proofs about identity: local authentication (AuthSessions), the audit   *)
(* chain (AuditChain) and login protection (LoginGuard), for any number of *)
(* requests, sessions, accounts and sources, any timeouts and policy.      *)
(*                                                                         *)
(* Authentication.  The invariant says of every request what it may rely   *)
(* on of what it has read.  Rows only keep their credential and raise      *)
(* their activity (RowsKeep), the audit log only grows, so a request that  *)
(* waits loses nothing of it; a password change is what the proofs look at *)
(* closely.                                                                *)
(*                                                                         *)
(* Audit chain.  A transaction is open under the lock only, so nothing is  *)
(* committed between its read of the newest hash and its commit (TxOK).    *)
(*                                                                         *)
(* Login protection.  The failures of an account are divided at the last   *)
(* reset of its bucket: few of those before it are recent (Earlier), and   *)
(* those after it are what the bucket counts, or a block's worth and those *)
(* of requests that had passed the check (Window).                         *)
(***************************************************************************)
EXTENDS AuthSessions, LoginGuard, FiniteSetTheorems, TLAPS

RowRecord ==
  [credential: Nat, created: Nat, last: Nat, expires: Nat,
   revoked: {"no", "user", "all", "other"}]

Places ==
  {"idle", "creating", "auditing login", "withdrawing", "reading user", "touching",
   "accepted", "changing", "revoking", "committing", "requesting", "removing"}

CallRecord ==
  [pc: Places, session: Sessions \cup {NoSession}, seen: Nat, now: Nat, begun: Nat]

Changing == {"revoking", "committing"}
Checking == {"reading user", "touching"}
Judged == {"touching", "accepted"}

(***************************************************************************)
(* A request and the state it meets: the session it works on exists; the   *)
(* password it saw is the current one if it changes the password, and not  *)
(* a later one otherwise; while it checks a session, that session was used *)
(* less than the idle timeout before the request began; once judged, the   *)
(* credential of the session is as recent as the beginning of the request; *)
(* and what it removes, the audit log knows of.                            *)
(***************************************************************************)
CallOK(k, rows, pw, log) ==
  /\ k \in CallRecord
  /\ k.pc = "creating" => k.seen # 0
  /\ k.pc \in Checking \cup Judged \cup {"auditing login"} =>
       k.session \in Sessions /\ rows[k.session].credential # 0
  /\ k.pc \in Checking \cup Judged => k.begun <= pw
  /\ k.pc \in Checking => k.now < rows[k.session].last + IdleTimeout
  /\ k.pc \in Judged => k.begun <= rows[k.session].credential
  /\ k.pc \in Changing => k.seen = pw
  /\ k.pc = "removing" => <<"revoke", k.session>> \in log

SessionOK(s, row, handed, log) ==
  /\ row \in RowRecord
  /\ s \in handed => row.credential # 0 /\ <<"login", s>> \in log
  /\ row.revoked = "user" => <<"revoke", s>> \in log
  /\ row.revoked = "all" => <<"revoke", NoSession>> \in log

OneChange == \A c, d \in Calls : InTransaction(c) /\ InTransaction(d) => c = d

AuthOK ==
  /\ clock \in Nat /\ password \in Nat \ {0}
  /\ sessions = [s \in Sessions |-> sessions[s]]
  /\ calls = [c \in Calls |-> calls[c]]
  /\ tokens \subseteq Sessions
  /\ \A c \in Calls : CallOK(calls[c], sessions, password, audit)
  /\ \A s \in Sessions : SessionOK(s, sessions[s], tokens, audit)
  /\ OneChange

(* What no statement does to a row: lose its credential or its activity.   *)
RowsKeep(rows, rows2) ==
  \A s \in Sessions : rows[s].credential # 0 =>
    rows2[s].credential = rows[s].credential /\ rows2[s].last >= rows[s].last

-----------------------------------------------------------------------------
(* A request that waits keeps what it relies on.                           *)
LEMMA WaitingOK ==
  ASSUME NEW k, NEW rows, NEW rows2, NEW pw, NEW log, NEW log2,
         CallOK(k, rows, pw, log), RowsKeep(rows, rows2), log \subseteq log2,
         \A s \in Sessions : rows[s] \in RowRecord /\ rows2[s] \in RowRecord
  PROVE  CallOK(k, rows2, pw, log2)
<1>1. k \in CallRecord
  BY DEF CallOK
<1>2. ASSUME k.pc \in Checking \cup Judged \cup {"auditing login"}
      PROVE  /\ k.session \in Sessions
             /\ rows[k.session].credential # 0
             /\ rows2[k.session].credential = rows[k.session].credential
             /\ rows2[k.session].last >= rows[k.session].last
             /\ rows[k.session].last \in Nat /\ rows2[k.session].last \in Nat
  BY <1>2 DEF CallOK, RowsKeep, RowRecord
<1>3. ASSUME k.pc \in Checking
      PROVE  k.now < rows2[k.session].last + IdleTimeout
  <2>1. k.now < rows[k.session].last + IdleTimeout
    BY <1>3 DEF CallOK
  <2>2. k.now \in Nat /\ IdleTimeout \in Nat
    BY <1>1, AuthAssumption DEF CallRecord, AuthAssumption
  <2>3. /\ rows2[k.session].last >= rows[k.session].last
        /\ rows[k.session].last \in Nat /\ rows2[k.session].last \in Nat
    BY <1>2, <1>3
  <2> QED
    BY <2>1, <2>2, <2>3
<1> QED
  BY <1>1, <1>2, <1>3 DEF CallOK

(***************************************************************************)
(* A step of one request, short of the commit of a password change, keeps  *)
(* the invariant when its own record does.                                 *)
(***************************************************************************)
LEMMA StepOK ==
  ASSUME AuthOK, NEW c \in Calls, NEW k,
         calls' = [calls EXCEPT ![c] = k],
         CallOK(k, sessions', password, audit'),
         UNCHANGED <<clock, password>>,
         sessions' = [s \in Sessions |-> sessions'[s]],
         RowsKeep(sessions, sessions'),
         audit \subseteq audit',
         tokens' \subseteq Sessions,
         \A s \in Sessions : SessionOK(s, sessions'[s], tokens', audit'),
         k.pc \in Changing => \/ InTransaction(c)
                              \/ \A d \in Calls : ~InTransaction(d)
  PROVE  AuthOK'
<1>1. calls = [d \in Calls |-> calls[d]]
  BY DEF AuthOK
<1>2. calls' = [d \in Calls |-> calls'[d]] /\ calls'[c] = k
      /\ \A d \in Calls \ {c} : calls'[d] = calls[d]
  BY <1>1
<1>3. \A s \in Sessions : sessions[s] \in RowRecord /\ sessions'[s] \in RowRecord
  BY DEF AuthOK, SessionOK
<1>4. ASSUME NEW d \in Calls
      PROVE  CallOK(calls'[d], sessions', password, audit')
  <2>1. CASE d = c
    BY <1>2, <2>1
  <2>2. CASE d # c
    <3>1. calls'[d] = calls[d] /\ CallOK(calls[d], sessions, password, audit)
      BY <1>2, <2>2 DEF AuthOK
    <3> QED
      BY <1>3, <3>1, WaitingOK
  <2> QED
    BY <2>1, <2>2
<1>5. OneChange'
  <2> SUFFICES ASSUME NEW d \in Calls, NEW e \in Calls, d # e,
                      calls'[d].pc \in Changing, calls'[e].pc \in Changing
               PROVE  FALSE
    BY DEF OneChange, InTransaction, Changing
  <2>1. \A x \in Calls \ {c} : calls'[x].pc \in Changing => InTransaction(x)
    BY <1>2 DEF InTransaction, Changing
  <2>2. OneChange
    BY DEF AuthOK
  <2> QED
    BY <1>2, <2>1, <2>2 DEF OneChange
<1> QED
  BY <1>2, <1>4, <1>5 DEF AuthOK

(* Rows that only become revoked keep everything else.                     *)
LEMMA RevokeRows ==
  ASSUME AuthOK, NEW set, NEW how \in {"user", "all", "other"}, Revoke(set, how),
         NEW log, audit \subseteq log,
         how = "user" => \A s \in set \cap Sessions : <<"revoke", s>> \in log,
         how = "all" => <<"revoke", NoSession>> \in log
  PROVE  /\ sessions' = [s \in Sessions |-> sessions'[s]]
         /\ RowsKeep(sessions, sessions')
         /\ \A s \in Sessions : SessionOK(s, sessions'[s], tokens, log)
         /\ \A s \in Sessions : /\ sessions'[s].last = sessions[s].last
                                /\ sessions'[s].credential = sessions[s].credential
<1>1. sessions' = [s \in Sessions |->
        IF s \in set /\ Exists(s) /\ sessions[s].revoked = "no"
        THEN [sessions[s] EXCEPT !.revoked = how] ELSE sessions[s]]
  BY DEF Revoke
<1>2. \A s \in Sessions : sessions[s] \in RowRecord
  BY DEF AuthOK, SessionOK
<1>3. ASSUME NEW s \in Sessions
      PROVE  /\ sessions'[s] \in RowRecord
             /\ sessions'[s].credential = sessions[s].credential
             /\ sessions'[s].last = sessions[s].last
             /\ \/ sessions'[s].revoked = sessions[s].revoked
                \/ s \in set /\ sessions'[s].revoked = how
  <2>1. \/ sessions'[s] = sessions[s]
        \/ s \in set /\ sessions'[s] = [sessions[s] EXCEPT !.revoked = how]
    BY <1>1
  <2> QED
    BY <1>2, <2>1 DEF RowRecord
<1>4. ASSUME NEW s \in Sessions
      PROVE  SessionOK(s, sessions'[s], tokens, log)
  <2>1. SessionOK(s, sessions[s], tokens, audit)
    BY DEF AuthOK
  <2> QED
    BY <1>3, <2>1 DEF SessionOK
<1>5. RowsKeep(sessions, sessions')
  BY <1>2, <1>3 DEF RowsKeep, RowRecord
<1> QED
  BY <1>1, <1>3, <1>4, <1>5

(* A step that leaves the rows, the log and the tokens alone.              *)
LEMMA QuietStepOK ==
  ASSUME AuthOK, NEW c \in Calls, NEW k, calls' = [calls EXCEPT ![c] = k],
         CallOK(k, sessions, password, audit),
         UNCHANGED <<clock, password, sessions, audit, tokens>>,
         k.pc \in Changing => \/ InTransaction(c)
                              \/ \A d \in Calls : ~InTransaction(d)
  PROVE  AuthOK'
<1>1. RowsKeep(sessions, sessions')
  <2>1. \A s \in Sessions : sessions[s] \in RowRecord
    BY DEF AuthOK, SessionOK
  <2>2. \A s \in Sessions : sessions[s].last \in Nat
    BY <2>1 DEF RowRecord
  <2> QED
    BY <2>2 DEF RowsKeep
<1>2. /\ sessions' = [s \in Sessions |-> sessions'[s]]
      /\ tokens' \subseteq Sessions
      /\ \A s \in Sessions : SessionOK(s, sessions'[s], tokens', audit')
  BY DEF AuthOK
<1> QED
  BY <1>1, <1>2, StepOK

(* A request that is over relies on nothing.                               *)
LEMMA IdleOK ==
  ASSUME NEW rows, NEW pw, NEW log
  PROVE  CallOK(Idle, rows, pw, log) /\ Idle.pc = "idle" /\ Idle.pc \notin Changing
<1>1. Idle \in CallRecord /\ Idle.pc = "idle"
  BY DEF Idle, CallRecord, Places
<1> QED
  BY <1>1 DEF CallOK, Checking, Judged, Changing

-----------------------------------------------------------------------------
(* The requests.                                                           *)

(* The end of a request.                                                   *)
LEMMA EndOK ==
  ASSUME AuthOK, NEW c \in Calls, End(c),
         UNCHANGED <<clock, password, sessions, audit, tokens>>
  PROVE  AuthOK'
BY IdleOK, QuietStepOK DEF End

(* The steps of a login.                                                   *)
LEMMA LoginOK ==
  ASSUME AuthOK, NEW c \in Calls,
         \/ LoginStart(c)
         \/ \E s \in Sessions : CreateSession(c, s)
         \/ AuditLogin(c)
         \/ Withdraw(c)
  PROVE  AuthOK'
<1>1. /\ CallOK(calls[c], sessions, password, audit) /\ calls[c] \in CallRecord
      /\ clock \in Nat /\ password \in Nat /\ password # 0
      /\ tokens \subseteq Sessions
      /\ \A s \in Sessions : /\ SessionOK(s, sessions[s], tokens, audit)
                             /\ sessions[s] \in RowRecord
      /\ sessions = [s \in Sessions |-> sessions[s]]
  BY DEF AuthOK, CallOK, SessionOK
<1>2. CASE LoginStart(c)
  <2> DEFINE k == [Idle EXCEPT !.pc = "creating", !.seen = password, !.now = clock]
  <2>1. calls' = [calls EXCEPT ![c] = k]
        /\ UNCHANGED <<clock, password, sessions, audit, tokens>>
    BY <1>2 DEF LoginStart
  <2>2. k \in CallRecord /\ k.pc = "creating" /\ k.seen = password
    BY <1>1, IdleOK DEF CallOK, CallRecord, Places
  <2> HIDE DEF k
  <2>3. CallOK(k, sessions, password, audit) /\ k.pc \notin Changing
    BY <1>1, <2>2 DEF CallOK, Checking, Judged, Changing
  <2> QED
    BY <2>1, <2>3, QuietStepOK
<1>3. ASSUME NEW s \in Sessions, CreateSession(c, s)
      PROVE  AuthOK'
  <2>1. CASE password = calls[c].seen
    <3> DEFINE row == Row(calls[c].seen, calls[c].now)
               k == [pc |-> "auditing login", session |-> s, seen |-> 0, now |-> 0,
                     begun |-> 0]
    <3>1. /\ sessions' = [sessions EXCEPT ![s] = row]
          /\ calls' = [calls EXCEPT ![c] = k]
          /\ calls[c].pc = "creating" /\ ~Exists(s)
          /\ UNCHANGED <<clock, password, doomed, audit, tokens>>
      BY <1>3, <2>1 DEF CreateSession, Idle
    <3>2. /\ row \in RowRecord /\ row.credential = password /\ row.revoked = "no"
      <4>1. calls[c].now \in Nat /\ TTL \in Nat
        BY <1>1, AuthAssumption DEF CallRecord, AuthAssumption
      <4>2. calls[c].now + TTL \in Nat
        BY <4>1
      <4> QED
        BY <1>1, <2>1, <4>1, <4>2 DEF Row, RowRecord
    <3>3. k \in CallRecord /\ k.pc = "auditing login" /\ k.session = s
      BY DEF CallRecord, Places
    <3> HIDE DEF row, k
    <3>4. /\ sessions'[s] = row /\ \A t \in Sessions \ {s} : sessions'[t] = sessions[t]
          /\ sessions' = [t \in Sessions |-> sessions'[t]]
      BY <1>1, <3>1
    <3>5. RowsKeep(sessions, sessions')
      <4>1. \A t \in Sessions : sessions[t].last \in Nat
        BY <1>1 DEF RowRecord
      <4> QED
        BY <3>1, <3>4, <4>1 DEF RowsKeep, Exists
    <3>6. \A t \in Sessions : SessionOK(t, sessions'[t], tokens', audit')
      <4>1. SessionOK(s, row, tokens, audit)
        BY <1>1, <3>1, <3>2 DEF SessionOK, Exists
      <4> QED
        BY <1>1, <3>1, <3>4, <4>1
    <3>7. CallOK(k, sessions', password, audit') /\ k.pc \notin Changing
      BY <1>1, <3>2, <3>3, <3>4 DEF CallOK, Checking, Judged, Changing
    <3> QED
      BY <1>1, <3>1, <3>4, <3>5, <3>6, <3>7, StepOK
  <2>2. CASE password # calls[c].seen
    BY <1>3, <2>2, EndOK DEF CreateSession
  <2> QED
    BY <2>1, <2>2
<1>4. CASE AuditLogin(c)
  <2>1. calls[c].session \in Sessions /\ sessions[calls[c].session].credential # 0
        /\ calls[c].pc = "auditing login"
    BY <1>1, <1>4 DEF AuditLogin, CallOK
  <2>2. CASE GoTo(c, "withdrawing") /\ UNCHANGED <<audit, tokens>>
    <3> DEFINE k == [calls[c] EXCEPT !.pc = "withdrawing"]
    <3>1. calls' = [calls EXCEPT ![c] = k]
      BY <1>1, <2>2 DEF GoTo, AuthOK
    <3>2. k \in CallRecord /\ k.pc = "withdrawing"
      BY <1>1 DEF CallRecord, Places
    <3> HIDE DEF k
    <3>3. CallOK(k, sessions, password, audit) /\ k.pc \notin Changing
      BY <3>2 DEF CallOK, Checking, Judged, Changing
    <3> QED
      BY <1>4, <2>2, <3>1, <3>3, QuietStepOK DEF AuditLogin
  <2>3. CASE /\ audit' = audit \cup {<<"login", calls[c].session>>}
             /\ tokens' = tokens \cup {calls[c].session}
             /\ End(c)
    <3>1. UNCHANGED <<clock, password, sessions>>
      BY <1>4 DEF AuditLogin
    <3>2. \A s \in Sessions : SessionOK(s, sessions'[s], tokens', audit')
      BY <1>1, <2>1, <2>3, <3>1 DEF SessionOK
    <3>3. RowsKeep(sessions, sessions')
      <4>1. \A t \in Sessions : sessions[t].last \in Nat
        BY <1>1 DEF RowRecord
      <4> QED
        BY <3>1, <4>1 DEF RowsKeep
    <3>4. CallOK(Idle, sessions', password, audit') /\ Idle.pc \notin Changing
      BY IdleOK
    <3>5. sessions' = [s \in Sessions |-> sessions'[s]] /\ tokens' \subseteq Sessions
          /\ audit \subseteq audit'
      BY <1>1, <2>1, <2>3, <3>1
    <3>6. calls' = [calls EXCEPT ![c] = Idle]
      BY <2>3 DEF End
    <3> QED
      BY <3>1, <3>2, <3>3, <3>4, <3>5, <3>6, StepOK
  <2> QED
    BY <1>4, <2>2, <2>3 DEF AuditLogin
<1>5. CASE Withdraw(c)
  <2>1. /\ Revoke({calls[c].session}, "other") /\ calls' = [calls EXCEPT ![c] = Idle]
        /\ UNCHANGED <<clock, password, doomed, audit, tokens>>
    BY <1>5 DEF Withdraw, End
  <2>2. /\ sessions' = [s \in Sessions |-> sessions'[s]]
        /\ RowsKeep(sessions, sessions')
        /\ \A s \in Sessions : SessionOK(s, sessions'[s], tokens, audit)
    BY <2>1, RevokeRows
  <2> QED
    BY <1>1, <2>1, <2>2, IdleOK, StepOK
<1> QED
  BY <1>2, <1>3, <1>4, <1>5

(* The steps of Authenticate.                                              *)
LEMMA AuthenticateOK ==
  ASSUME AuthOK, NEW c \in Calls,
         \/ \E s \in Sessions : AuthenticateStart(c, s)
         \/ ReadUser(c)
         \/ Touch(c)
         \/ Accepted(c)
  PROVE  AuthOK'
<1>1. /\ CallOK(calls[c], sessions, password, audit) /\ calls[c] \in CallRecord
      /\ clock \in Nat /\ password \in Nat /\ password # 0
      /\ tokens \subseteq Sessions
      /\ \A s \in Sessions : /\ SessionOK(s, sessions[s], tokens, audit)
                             /\ sessions[s] \in RowRecord
      /\ sessions = [s \in Sessions |-> sessions[s]]
      /\ calls = [d \in Calls |-> calls[d]]
  BY DEF AuthOK, CallOK, SessionOK
<1>2. ASSUME NEW s \in Sessions, AuthenticateStart(c, s)
      PROVE  AuthOK'
  <2> DEFINE k == [Idle EXCEPT !.pc = "reading user", !.session = s, !.now = clock,
                               !.begun = password]
  <2>1. /\ calls' = [calls EXCEPT ![c] = k] /\ s \in tokens
        /\ clock < sessions[s].last + IdleTimeout
        /\ UNCHANGED <<clock, password, sessions, audit, tokens>>
    BY <1>2 DEF AuthenticateStart, ActiveAt
  <2>2. /\ k \in CallRecord /\ k.pc = "reading user" /\ k.session = s
        /\ k.now = clock /\ k.begun = password
    BY <1>1, IdleOK DEF CallOK, CallRecord, Places
  <2> HIDE DEF k
  <2>3. sessions[s].credential # 0
    BY <1>1, <2>1 DEF SessionOK
  <2>4. k.begun <= password /\ k.now < sessions[k.session].last + IdleTimeout
    <3>1. clock < sessions[s].last + IdleTimeout
      BY <2>1
    <3>2. password <= password
      BY <1>1
    <3> QED
      BY <2>2, <3>1, <3>2
  <2>5. k.pc \notin Judged \cup Changing /\ k.pc \in Checking
    BY <2>2 DEF Checking, Judged, Changing
  <2>6. CallOK(k, sessions, password, audit)
    BY <2>2, <2>3, <2>4, <2>5 DEF CallOK, Judged
  <2> QED
    BY <2>1, <2>5, <2>6, QuietStepOK
<1>3. CASE ReadUser(c)
  <2>1. CASE CredentialCurrent(calls[c].session)
    <3> DEFINE k == [calls[c] EXCEPT !.pc = "touching"]
    <3>1. /\ calls' = [calls EXCEPT ![c] = k] /\ calls[c].pc = "reading user"
          /\ UNCHANGED <<clock, password, sessions, audit, tokens>>
      BY <1>1, <1>3, <2>1 DEF ReadUser, GoTo
    <3>2. /\ k \in CallRecord /\ k.pc = "touching" /\ k.session = calls[c].session
          /\ k.now = calls[c].now /\ k.begun = calls[c].begun
      BY <1>1 DEF CallRecord, Places
    <3> HIDE DEF k
    <3>3. CallOK(k, sessions, password, audit) /\ k.pc \notin Changing
      BY <1>1, <2>1, <3>1, <3>2 DEF CallOK, Checking, Judged, Changing,
         CredentialCurrent
    <3> QED
      BY <3>1, <3>3, QuietStepOK
  <2>2. CASE ~CredentialCurrent(calls[c].session)
    BY <1>3, <2>2, EndOK DEF ReadUser
  <2> QED
    BY <2>1, <2>2
<1>4. CASE Touch(c)
  <2> DEFINE s == calls[c].session
             k == [calls[c] EXCEPT !.pc = "accepted", !.now = 0]
             row == Touched(sessions[s], calls[c].now)
  <2>1. CASE sessions[s].revoked = "no" /\ calls[c].now < sessions[s].expires
    <3>1. /\ sessions' = [sessions EXCEPT ![s] = row]
          /\ calls' = [calls EXCEPT ![c].pc = "accepted", ![c].now = 0]
          /\ calls[c].pc = "touching"
          /\ UNCHANGED <<clock, password, doomed, audit, tokens>>
      BY <1>4, <2>1 DEF Touch
    <3>2. calls' = [calls EXCEPT ![c] = k]
      BY <1>1, <3>1
    <3>3. /\ k \in CallRecord /\ k.pc = "accepted" /\ k.session = s
          /\ k.begun = calls[c].begun
      BY <1>1 DEF CallRecord, Places
    <3>4. s \in Sessions /\ sessions[s].credential # 0
          /\ calls[c].begun <= sessions[s].credential /\ calls[c].begun <= password
      BY <1>1, <3>1 DEF CallOK, Checking, Judged
    <3>5. sessions[s] \in RowRecord /\ calls[c].now \in Nat
      BY <1>1, <3>4 DEF CallRecord
    <3> HIDE DEF s
    <3>6. /\ row \in RowRecord /\ row.credential = sessions[s].credential
          /\ row.revoked = sessions[s].revoked
          /\ row.last >= sessions[s].last
      BY <3>5 DEF Touched, RowRecord
    <3> HIDE DEF row, k
    <3>7. /\ sessions'[s] = row /\ \A t \in Sessions \ {s} : sessions'[t] = sessions[t]
          /\ sessions' = [t \in Sessions |-> sessions'[t]]
      BY <1>1, <3>1, <3>4
    <3>8. RowsKeep(sessions, sessions')
      <4>1. \A t \in Sessions : sessions[t].last \in Nat
        BY <1>1 DEF RowRecord
      <4> QED
        BY <3>6, <3>7, <4>1 DEF RowsKeep
    <3>9. \A t \in Sessions : SessionOK(t, sessions'[t], tokens', audit')
      <4>1. SessionOK(s, row, tokens, audit)
        BY <1>1, <3>4, <3>6 DEF SessionOK
      <4> QED
        BY <1>1, <3>1, <3>7, <4>1
    <3>10. CallOK(k, sessions', password, audit') /\ k.pc \notin Changing
      BY <3>3, <3>4, <3>6, <3>7 DEF CallOK, Checking, Judged, Changing
    <3> QED
      BY <1>1, <3>1, <3>2, <3>7, <3>8, <3>9, <3>10, StepOK
  <2>2. CASE ~(sessions[s].revoked = "no" /\ calls[c].now < sessions[s].expires)
    BY <1>4, <2>2, EndOK DEF Touch
  <2> QED
    BY <2>1, <2>2
<1>5. CASE Accepted(c)
  BY <1>5, EndOK DEF Accepted
<1> QED
  BY <1>2, <1>3, <1>4, <1>5

(* The steps of ChangePassword up to the commit, and failures.             *)
LEMMA ChangeOK ==
  ASSUME AuthOK, NEW c \in Calls,
         ChangeStart(c) \/ UpdateUser(c) \/ RevokeOpen(c) \/ Fail(c)
  PROVE  AuthOK'
<1>1. /\ CallOK(calls[c], sessions, password, audit) /\ calls[c] \in CallRecord
      /\ password \in Nat
      /\ calls = [d \in Calls |-> calls[d]]
  BY DEF AuthOK, CallOK
<1>2. CASE ChangeStart(c)
  <2> DEFINE k == [Idle EXCEPT !.pc = "changing", !.seen = password]
  <2>1. /\ calls' = [calls EXCEPT ![c] = k]
        /\ UNCHANGED <<clock, password, sessions, audit, tokens>>
    BY <1>2 DEF ChangeStart
  <2>2. k \in CallRecord /\ k.pc = "changing"
    BY <1>1, IdleOK DEF CallOK, CallRecord, Places
  <2> HIDE DEF k
  <2>3. CallOK(k, sessions, password, audit) /\ k.pc \notin Changing
    BY <2>2 DEF CallOK, Checking, Judged, Changing
  <2> QED
    BY <2>1, <2>3, QuietStepOK
<1>3. ASSUME NEW pc \in Changing, GoTo(c, pc), calls[c].seen = password,
             UNCHANGED <<clock, password, sessions, audit, tokens>>,
             InTransaction(c) \/ \A d \in Calls : ~InTransaction(d)
      PROVE  AuthOK'
  <2> DEFINE k == [calls[c] EXCEPT !.pc = pc]
  <2>1. calls' = [calls EXCEPT ![c] = k]
    BY <1>1, <1>3 DEF GoTo
  <2>2. k \in CallRecord /\ k.pc = pc /\ k.seen = password
    BY <1>1, <1>3 DEF CallRecord, Places, Changing
  <2> HIDE DEF k
  <2>3. CallOK(k, sessions, password, audit)
    BY <1>3, <2>2 DEF CallOK, Checking, Judged, Changing
  <2> QED
    BY <1>3, <2>1, <2>3, QuietStepOK
<1>4. CASE UpdateUser(c)
  <2>1. CASE Unchanged(c)
    BY <1>3, <1>4, <2>1 DEF UpdateUser, Unchanged, Changing
  <2>2. CASE ~Unchanged(c)
    BY <1>4, <2>2, EndOK DEF UpdateUser
  <2> QED
    BY <2>1, <2>2
<1>5. CASE RevokeOpen(c)
  <2>1. calls[c].seen = password /\ InTransaction(c)
    BY <1>1, <1>5 DEF RevokeOpen, CallOK, Changing, InTransaction
  <2> QED
    BY <1>3, <1>5, <2>1 DEF RevokeOpen, Changing
<1>6. CASE Fail(c)
  BY <1>6, EndOK DEF Fail
<1> QED
  BY <1>2, <1>4, <1>5, <1>6

(***************************************************************************)
(* The commit of a password change.  Whoever began before it may find its  *)
(* session judged by the old password, never by an older one than at its   *)
(* beginning; and no second transaction is open that saw the old password. *)
(***************************************************************************)
LEMMA CommitOK ==
  ASSUME AuthOK, NEW c \in Calls, Commit(c)
  PROVE  AuthOK'
<1>1. /\ calls[c].pc = "committing" /\ password' = password + 1
      /\ Revoke(doomed, "other") /\ calls' = [calls EXCEPT ![c] = Idle]
      /\ UNCHANGED <<clock, audit, tokens>>
  BY DEF Commit, End
<1>2. /\ sessions' = [s \in Sessions |-> sessions'[s]]
      /\ RowsKeep(sessions, sessions')
      /\ \A s \in Sessions : SessionOK(s, sessions'[s], tokens, audit)
  BY <1>1, RevokeRows
<1>3. /\ calls = [d \in Calls |-> calls[d]] /\ password \in Nat
      /\ \A s \in Sessions : sessions[s] \in RowRecord /\ sessions'[s] \in RowRecord
  BY <1>2 DEF AuthOK, SessionOK
<1>4. ASSUME NEW d \in Calls
      PROVE  CallOK(calls'[d], sessions', password', audit)
             /\ calls'[d].pc \notin Changing
  <2>1. CASE d = c
    BY <1>1, <1>3, <2>1, IdleOK
  <2>2. CASE d # c
    <3>1. calls'[d] = calls[d]
      BY <1>1, <1>3, <2>2
    <3>2. CallOK(calls[d], sessions', password, audit)
      BY <1>2, <1>3, WaitingOK DEF AuthOK
    <3>3. calls[d].pc \notin Changing
      BY <1>1, <2>2 DEF AuthOK, OneChange, InTransaction, Changing
    <3>4. calls[d].begun <= password => calls[d].begun <= password'
      <4>1. calls[d].begun \in Nat
        BY <3>2 DEF CallOK, CallRecord
      <4> QED
        BY <1>1, <1>3, <4>1
    <3> QED
      BY <3>1, <3>2, <3>3, <3>4 DEF CallOK
  <2> QED
    BY <2>1, <2>2
<1>5. OneChange'
  BY <1>4 DEF OneChange, InTransaction, Changing
<1>6. calls' = [d \in Calls |-> calls'[d]] /\ password' \in Nat \ {0}
  BY <1>1, <1>3
<1> QED
  BY <1>1, <1>2, <1>4, <1>5, <1>6 DEF AuthOK

(* The steps of a revocation on request of the user.                       *)
LEMMA RemovalOK ==
  ASSUME AuthOK, NEW c \in Calls,
         \/ \E s \in Sessions : RevokeStart(c, s)
         \/ RevokeAllStart(c)
         \/ AuditRequest(c)
         \/ Remove(c)
         \/ \E s \in Sessions : Logout(c, s)
  PROVE  AuthOK'
<1>1. /\ CallOK(calls[c], sessions, password, audit) /\ calls[c] \in CallRecord
      /\ clock \in Nat
      /\ calls = [d \in Calls |-> calls[d]]
      /\ sessions = [s \in Sessions |-> sessions[s]]
      /\ tokens \subseteq Sessions
      /\ \A s \in Sessions : SessionOK(s, sessions[s], tokens, audit)
  BY DEF AuthOK, CallOK
<1>2. RowsKeep(sessions, sessions)
  <2>1. \A s \in Sessions : sessions[s].last \in Nat
    BY <1>1 DEF SessionOK, RowRecord
  <2> QED
    BY <2>1 DEF RowsKeep
<1>3. ASSUME NEW k \in CallRecord, k.pc = "requesting", calls' = [calls EXCEPT ![c] = k],
             UNCHANGED <<clock, password, sessions, audit, tokens>>
      PROVE  AuthOK'
  <2>1. CallOK(k, sessions, password, audit) /\ k.pc \notin Changing
    BY <1>3 DEF CallOK, Checking, Judged, Changing
  <2> QED
    BY <1>3, <2>1, QuietStepOK
<1>4. ASSUME NEW s \in Sessions, RevokeStart(c, s)
      PROVE  AuthOK'
  <2> DEFINE k == [Idle EXCEPT !.pc = "requesting", !.session = s, !.now = clock]
  <2>1. /\ calls' = [calls EXCEPT ![c] = k]
        /\ UNCHANGED <<clock, password, sessions, audit, tokens>>
    BY <1>4 DEF RevokeStart
  <2>2. k \in CallRecord /\ k.pc = "requesting"
    BY <1>1, IdleOK DEF CallOK, CallRecord, Places
  <2> HIDE DEF k
  <2> QED
    BY <1>3, <2>1, <2>2
<1>5. CASE RevokeAllStart(c)
  <2> DEFINE k == [Idle EXCEPT !.pc = "requesting"]
  <2>1. /\ calls' = [calls EXCEPT ![c] = k]
        /\ UNCHANGED <<clock, password, sessions, audit, tokens>>
    BY <1>5 DEF RevokeAllStart
  <2>2. k \in CallRecord /\ k.pc = "requesting"
    BY IdleOK DEF CallOK, CallRecord, Places
  <2> HIDE DEF k
  <2> QED
    BY <1>3, <2>1, <2>2
<1>6. CASE AuditRequest(c)
  <2>1. CASE UNCHANGED audit /\ End(c)
    BY <1>6, <2>1, EndOK DEF AuditRequest
  <2>2. CASE audit' = audit \cup {<<"revoke", calls[c].session>>} /\ GoTo(c, "removing")
    <3> DEFINE k == [calls[c] EXCEPT !.pc = "removing"]
    <3>1. calls' = [calls EXCEPT ![c] = k] /\ UNCHANGED <<clock, password, sessions, tokens>>
      BY <1>1, <1>6, <2>2 DEF GoTo, AuditRequest
    <3>2. k \in CallRecord /\ k.pc = "removing" /\ k.session = calls[c].session
      BY <1>1 DEF CallRecord, Places
    <3> HIDE DEF k
    <3>3. CallOK(k, sessions, password, audit') /\ k.pc \notin Changing
      BY <2>2, <3>2 DEF CallOK, Checking, Judged, Changing
    <3>4. \A s \in Sessions : SessionOK(s, sessions[s], tokens, audit')
      BY <1>1, <2>2 DEF SessionOK
    <3> QED
      BY <1>1, <1>2, <2>2, <3>1, <3>3, <3>4, StepOK
  <2> QED
    BY <1>6, <2>1, <2>2 DEF AuditRequest, RequestRecorded
<1>7. CASE Remove(c)
  <2>1. /\ calls[c].pc = "removing" /\ calls' = [calls EXCEPT ![c] = Idle] /\ End(c)
        /\ UNCHANGED <<clock, password, audit, tokens>>
        /\ \/ calls[c].session = NoSession /\ Revoke(Sessions, "all")
           \/ Revoke({calls[c].session}, "user")
           \/ UNCHANGED sessions
    BY <1>7 DEF Remove, End
  <2>2. <<"revoke", calls[c].session>> \in audit
    BY <1>1, <2>1 DEF CallOK
  <2>3. CASE UNCHANGED sessions
    BY <2>1, <2>3, EndOK
  <2>4. CASE \/ calls[c].session = NoSession /\ Revoke(Sessions, "all")
             \/ Revoke({calls[c].session}, "user")
    <3>1. /\ sessions' = [s \in Sessions |-> sessions'[s]]
          /\ RowsKeep(sessions, sessions')
          /\ \A s \in Sessions : SessionOK(s, sessions'[s], tokens, audit)
      <4>1. CASE calls[c].session = NoSession /\ Revoke(Sessions, "all")
        BY <2>2, <4>1, RevokeRows
      <4>2. CASE Revoke({calls[c].session}, "user")
        BY <2>2, <4>2, RevokeRows
      <4> QED
        BY <2>4, <4>1, <4>2
    <3> QED
      BY <1>1, <2>1, <3>1, IdleOK, StepOK
  <2> QED
    BY <2>1, <2>3, <2>4
<1>8. ASSUME NEW s \in Sessions, Logout(c, s)
      PROVE  AuthOK'
  <2>1. Revoke({s}, "other") /\ UNCHANGED <<clock, password, calls, doomed, audit, tokens>>
    BY <1>8 DEF Logout
  <2>2. /\ sessions' = [t \in Sessions |-> sessions'[t]]
        /\ RowsKeep(sessions, sessions')
        /\ \A t \in Sessions : SessionOK(t, sessions'[t], tokens, audit)
    BY <2>1, RevokeRows
  <2>3. calls' = [calls EXCEPT ![c] = calls[c]]
    BY <1>1, <2>1
  <2>4. CallOK(calls[c], sessions', password, audit)
    BY <1>1, <2>2, WaitingOK DEF SessionOK
  <2>5. calls[c].pc \in Changing => InTransaction(c)
    BY DEF Changing, InTransaction
  <2> QED
    BY <1>1, <2>1, <2>2, <2>3, <2>4, <2>5, StepOK
<1> QED
  BY <1>4, <1>5, <1>6, <1>7, <1>8

-----------------------------------------------------------------------------
(* Nothing has happened yet.                                               *)
LEMMA AuthInitOK == AuthInit => AuthOK
<1> SUFFICES ASSUME AuthInit
             PROVE  AuthOK
  OBVIOUS
<1>1. /\ clock = 0 /\ password = 1 /\ audit = {} /\ tokens = {}
      /\ sessions = [s \in Sessions |-> Free] /\ calls = [c \in Calls |-> Idle]
  BY DEF AuthInit
<1>2. \A c \in Calls : CallOK(calls[c], sessions, password, audit)
                       /\ calls[c].pc \notin Changing
  BY <1>1, IdleOK
<1>3. \A s \in Sessions : SessionOK(s, sessions[s], tokens, audit)
  BY <1>1 DEF Free, SessionOK, RowRecord
<1>4. OneChange
  BY <1>2 DEF OneChange, InTransaction, Changing
<1> QED
  BY <1>1, <1>2, <1>3, <1>4 DEF AuthOK

(* Every step keeps the invariant.                                         *)
LEMMA AuthNextOK ==
  ASSUME AuthOK, [AuthNext]_authVars
  PROVE  AuthOK'
<1>1. CASE Tick
  BY <1>1 DEF Tick, AuthOK, OneChange, InTransaction
<1>2. CASE UNCHANGED authVars
  BY <1>2 DEF authVars, AuthOK, OneChange, InTransaction
<1> QED
  BY <1>1, <1>2, LoginOK, AuthenticateOK, ChangeOK, CommitOK, RemovalOK DEF AuthNext

(* So it always holds.                                                     *)
LEMMA AuthInvariance == AuthSpec => []AuthOK
<1>1. AuthOK /\ [AuthNext]_authVars => AuthOK'
  BY AuthNextOK
<1> QED
  BY <1>1, AuthInitOK, PTL DEF AuthSpec

(***************************************************************************)
(* OldPasswordIsDead always holds: Authenticate accepts no session whose   *)
(* credential is older than the password at the beginning of the request.  *)
(***************************************************************************)
THEOREM OldPasswordsAreDead == AuthSpec => []OldPasswordIsDead
<1>1. AuthOK => OldPasswordIsDead
  <2> SUFFICES ASSUME AuthOK, NEW c \in Calls, calls[c].pc = "accepted"
               PROVE  sessions[calls[c].session].credential >= calls[c].begun
    BY DEF OldPasswordIsDead
  <2>1. CallOK(calls[c], sessions, password, audit)
    BY DEF AuthOK
  <2>2. /\ calls[c].session \in Sessions /\ calls[c].begun \in Nat
        /\ calls[c].begun <= sessions[calls[c].session].credential
    BY <2>1 DEF CallOK, CallRecord, Judged
  <2>3. sessions[calls[c].session].credential \in Nat
    BY <2>2 DEF AuthOK, SessionOK, RowRecord
  <2> QED
    BY <2>2, <2>3
<1> QED
  BY <1>1, AuthInvariance, PTL

(***************************************************************************)
(* AuditedFirst always holds: Login hands out a token, and a user's        *)
(* request revokes a session, only after the record in the audit log.      *)
(***************************************************************************)
THEOREM AuditComesFirst == AuthSpec => []AuditedFirst
<1>1. AuthOK => AuditedFirst
  BY DEF AuthOK, SessionOK, AuditedFirst
<1> QED
  BY <1>1, AuthInvariance, PTL

(***************************************************************************)
(* NoLostPasswordChange always holds: a change commits only if it verified *)
(* the password that it replaces.                                          *)
(***************************************************************************)
THEOREM NoPasswordChangeIsLost == AuthSpec => NoLostPasswordChange
<1>1. AuthOK /\ [AuthNext]_authVars =>
        [password' # password =>
           \A c \in Calls : calls[c].pc = "committing" =>
             calls[c].seen = password]_authVars
  BY DEF AuthOK, CallOK, Changing
<1> QED
  BY <1>1, AuthInvariance, PTL DEF AuthSpec, NoLostPasswordChange

(***************************************************************************)
(* IdleSessionsEnd always holds: only Touch moves the last activity of a   *)
(* session that exists, and it moves it forward, by less than the timeout. *)
(***************************************************************************)
THEOREM IdleSessionsAlwaysEnd == AuthSpec => IdleSessionsEnd
<1> DEFINE Moves(s) == Exists(s) /\ sessions'[s].last # sessions[s].last
           Good(s) == /\ sessions'[s].last > sessions[s].last
                      /\ sessions'[s].last < sessions[s].last + IdleTimeout
<1>1. ASSUME AuthOK, NEW c \in Calls, Touch(c), NEW s \in Sessions, Moves(s)
      PROVE  Good(s)
  <2> DEFINE t == calls[c].session
  <2>1. calls[c].pc = "touching" /\ CallOK(calls[c], sessions, password, audit)
    BY <1>1 DEF Touch, AuthOK
  <2>2. /\ t \in Sessions /\ calls[c].now \in Nat
        /\ calls[c].now < sessions[t].last + IdleTimeout
    BY <2>1 DEF CallOK, CallRecord, Checking
  <2>3. sessions[t] \in RowRecord /\ sessions = [x \in Sessions |-> sessions[x]]
    BY <1>1, <2>2 DEF AuthOK, SessionOK
  <2>4. \/ sessions' = [sessions EXCEPT ![t] = Touched(sessions[t], calls[c].now)]
        \/ UNCHANGED sessions
    BY <1>1 DEF Touch
  <2>5. sessions'[t] = Touched(sessions[t], calls[c].now) /\ s = t
    BY <1>1, <2>2, <2>3, <2>4
  <2>6. sessions'[t].last
          = IF calls[c].now > sessions[t].last THEN calls[c].now ELSE sessions[t].last
    BY <2>3, <2>5 DEF Touched, RowRecord
  <2>7. sessions[t].last \in Nat
    BY <2>3 DEF RowRecord
  <2> QED
    BY <1>1, <2>2, <2>5, <2>6, <2>7
<1>2. ASSUME AuthOK, NEW set, NEW how \in {"user", "all", "other"}, Revoke(set, how),
             NEW s \in Sessions
      PROVE  ~Moves(s)
  <2>1. sessions[s] \in RowRecord
    BY <1>2 DEF AuthOK, SessionOK
  <2>2. sessions'[s] = sessions[s] \/ sessions'[s] = [sessions[s] EXCEPT !.revoked = how]
    BY <1>2 DEF Revoke
  <2>3. sessions'[s].last = sessions[s].last
    BY <2>1, <2>2 DEF RowRecord
  <2> QED
    BY <2>3
<1>3. ASSUME AuthOK, NEW c \in Calls, NEW t \in Sessions, CreateSession(c, t),
             NEW s \in Sessions
      PROVE  ~Moves(s)
  <2>1. CASE s = t
    BY <1>3, <2>1 DEF CreateSession
  <2>2. CASE s # t
    BY <1>3, <2>2 DEF CreateSession, AuthOK
  <2> QED
    BY <2>1, <2>2
<1>4. ASSUME AuthOK, [AuthNext]_authVars, NEW s \in Sessions, Moves(s)
      PROVE  Good(s)
  <2>1. ~UNCHANGED sessions
    BY <1>4
  <2>2. ~\E c \in Calls : Withdraw(c) \/ Commit(c) \/ Remove(c)
                          \/ \E t \in Sessions : Logout(c, t) \/ CreateSession(c, t)
    <3>1. ASSUME NEW c \in Calls, Withdraw(c) \/ Commit(c) \/ Remove(c)
                                  \/ \E t \in Sessions : Logout(c, t)
          PROVE  FALSE
      <4>1. \E set : \E how \in {"user", "all", "other"} : Revoke(set, how)
        BY <2>1, <3>1 DEF Withdraw, Commit, Remove, Logout
      <4> QED
        BY <1>2, <1>4, <4>1
    <3> QED
      BY <1>3, <1>4, <3>1
  <2>3. \E c \in Calls : Touch(c)
    BY <1>4, <2>1, <2>2 DEF AuthNext, authVars, Tick, LoginStart, AuditLogin,
       AuthenticateStart, ReadUser, Accepted, ChangeStart, UpdateUser, RevokeOpen,
       Fail, RevokeStart, RevokeAllStart, AuditRequest
  <2> QED
    BY <1>1, <1>4, <2>3
<1>5. AuthOK /\ [AuthNext]_authVars =>
        [\A s \in Sessions : Moves(s) => Good(s)]_authVars
  BY <1>4
<1> QED
  BY <1>5, AuthInvariance, PTL DEF AuthSpec, IdleSessionsEnd

-----------------------------------------------------------------------------
(* The audit chain under concurrent logins (LoginGuard over AuditChain).   *)

(* A transaction is open under the lock only.  From its read of the newest *)
(* hash on no row is committed but its own, and the number it has drawn    *)
(* exceeds every number that is committed.                                 *)
TxOK(w) ==
  /\ tx[w] = [pc |-> tx[w].pc, previous |-> tx[w].previous, row |-> tx[w].row]
  /\ tx[w].row \in Nat
  /\ tx[w].pc # "none" => holder = w
  /\ tx[w].pc \in {"inserting", "committing"} =>
       tx[w].previous = NewestHash(auditRows)
  /\ tx[w].pc = "committing" =>
       /\ tx[w].row <= sequence
       /\ \A r \in auditRows : r.sequence < tx[w].row

AuditOK ==
  /\ sequence \in Nat
  /\ \A r \in auditRows : r.sequence \in Nat /\ r.sequence <= sequence
  /\ DOMAIN tx = Writers
  /\ \A w \in Writers : TxOK(w)
  /\ ChainVerifies

LEMMA AuditStart == ASSUME AuditInit PROVE AuditOK
BY AuditAssumption DEF AuditInit, AuditOK, TxOK, NoTx, ChainVerifies, InspectChain

LEMMA AuditUntouched == ASSUME AuditOK, UNCHANGED auditVars PROVE AuditOK'
BY DEF auditVars, AuditOK, TxOK, ChainVerifies, InspectChain, NewestHash

(* A transaction takes the lock, reads the head of the chain or draws its  *)
(* number: the committed rows stay.                                        *)
LEMMA AuditOpens ==
  ASSUME AuditOK, NEW w \in Writers, Lock(w) \/ ReadHead(w) \/ Insert(w)
  PROVE  AuditOK'
<1>1. auditRows' = auditRows /\ sequence' \in Nat /\ sequence <= sequence'
  BY DEF AuditOK, Lock, ReadHead, Insert
<1>2. ChainVerifies' /\ NewestHash(auditRows') = NewestHash(auditRows)
  BY <1>1 DEF AuditOK, ChainVerifies, InspectChain, NewestHash
<1>3. \A r \in auditRows' : r.sequence \in Nat /\ r.sequence <= sequence'
  BY <1>1 DEF AuditOK
<1>4. DOMAIN tx' = Writers /\ \A v \in Writers \ {w} : tx'[v] = tx[v]
  BY DEF AuditOK, Lock, ReadHead, Insert
<1>5. TxOK(w)'
  <2>1. CASE Lock(w)
    BY <1>1, <1>2, <2>1 DEF AuditOK, TxOK, Lock
  <2>2. CASE ReadHead(w)
    <3> DEFINE t == tx[w]
    <3>1. t = [pc |-> t.pc, previous |-> t.previous, row |-> t.row] /\ t.row \in Nat
          /\ holder' = w
      BY <2>2 DEF AuditOK, TxOK, ReadHead
    <3>2. tx'[w] = [[t EXCEPT !.pc = "inserting"] EXCEPT !.previous = NewestHash(auditRows)]
      BY <2>2 DEF AuditOK, ReadHead
    <3> HIDE DEF t
    <3>3. tx'[w] = [pc |-> "inserting", previous |-> NewestHash(auditRows), row |-> t.row]
      BY <3>1, <3>2
    <3> QED
      BY <1>2, <3>1, <3>3 DEF TxOK
  <2>3. CASE Insert(w)
    <3> DEFINE t == tx[w]
    <3>1. /\ t = [pc |-> t.pc, previous |-> t.previous, row |-> t.row] /\ holder' = w
          /\ t.previous = NewestHash(auditRows) /\ sequence' = sequence + 1
          /\ sequence \in Nat
      BY <2>3 DEF AuditOK, TxOK, Insert
    <3>2. tx'[w] = [[t EXCEPT !.pc = "committing"] EXCEPT !.row = sequence + 1]
      BY <2>3 DEF AuditOK, Insert
    <3> HIDE DEF t
    <3>3. tx'[w] = [pc |-> "committing", previous |-> NewestHash(auditRows),
                    row |-> sequence + 1]
      BY <3>1, <3>2
    <3>4. \A r \in auditRows : r.sequence < sequence + 1
      BY <1>1 DEF AuditOK
    <3> QED
      BY <1>1, <1>2, <3>1, <3>3, <3>4 DEF TxOK
  <2> QED
    BY <2>1, <2>2, <2>3
<1>6. ASSUME NEW v \in Writers \ {w} PROVE TxOK(v)'
  <2>1. tx[v].pc = "none"
    BY AuditAssumption DEF AuditOK, TxOK, Lock, ReadHead, Insert
  <2> QED
    BY <1>4, <2>1 DEF AuditOK, TxOK
<1> QED
  BY <1>1, <1>2, <1>3, <1>4, <1>5, <1>6 DEF AuditOK

(* A transaction ends; no other one is open.                               *)
LEMMA AuditEnds ==
  ASSUME AuditOK, NEW w \in Writers, CommitRow(w) \/ Rollback(w)
  PROVE  AuditOK'
<1>1. holder = w /\ tx[w].pc # "none"
  BY DEF AuditOK, TxOK, CommitRow, Rollback
<1>2. \A v \in Writers \ {w} : tx[v].pc = "none"
  BY <1>1 DEF AuditOK, TxOK
<1>3. /\ DOMAIN tx' = Writers /\ tx'[w] = NoTx
      /\ \A v \in Writers \ {w} : tx'[v] = tx[v]
  BY DEF AuditOK, CommitRow, Rollback, Finish
<1>4. \A v \in Writers : TxOK(v)'
  BY <1>2, <1>3 DEF AuditOK, TxOK, NoTx
<1>5. CASE Rollback(w)
  BY <1>3, <1>4, <1>5 DEF Rollback, AuditOK, ChainVerifies, InspectChain
<1>6. CASE CommitRow(w)
  <2> DEFINE new == Prepare(tx[w].row, tx[w].previous)
  <2>1. /\ auditRows' = auditRows \cup {new} /\ sequence' = sequence
        /\ new.sequence = tx[w].row /\ new.sequence \in Nat
        /\ new.sequence <= sequence /\ new.previous = NewestHash(auditRows)
        /\ \A r \in auditRows : r.sequence < new.sequence /\ r.sequence \in Nat
    BY <1>6 DEF AuditOK, TxOK, CommitRow, Prepare
  <2> HIDE DEF new
  <2>2. ASSUME NEW r \in auditRows
        PROVE  Verify(r, NewestHash({q \in auditRows' : q.sequence < r.sequence}))
    <3>1. {q \in auditRows' : q.sequence < r.sequence}
            = {q \in auditRows : q.sequence < r.sequence}
      BY <2>1
    <3> QED
      BY <3>1 DEF AuditOK, ChainVerifies, InspectChain
  <2>3. Verify(new, NewestHash({q \in auditRows' : q.sequence < new.sequence}))
    <3>1. {q \in auditRows' : q.sequence < new.sequence} = auditRows
      BY <2>1
    <3> QED
      BY <2>1, <3>1 DEF Verify
  <2>4. ChainVerifies'
    BY <2>1, <2>2, <2>3 DEF ChainVerifies, InspectChain, Verify
  <2> QED
    BY <1>3, <1>4, <2>1, <2>4 DEF AuditOK
<1> QED
  BY <1>5, <1>6

LEMMA AuditInvariance == LoginSpec => []AuditOK
<1>1. LoginInit => AuditOK
  BY AuditStart DEF LoginInit
<1>2. AuditOK /\ [LoginNext]_loginVars => AuditOK'
  <2> SUFFICES ASSUME AuditOK, [LoginNext]_loginVars PROVE AuditOK'
    OBVIOUS
  <2>1. \/ UNCHANGED auditVars
        \/ \E w \in Writers : Lock(w) \/ ReadHead(w) \/ Insert(w)
        \/ \E w \in Writers : CommitRow(w) \/ Rollback(w)
    BY DEF LoginNext, loginVars, InstantPasses, LoginArrives, Blocked, RecordFailure,
       RecordSuccess, AuditStep, AuditUnavailable
  <2> QED
    BY <2>1, AuditUntouched, AuditOpens, AuditEnds
<1> QED
  BY <1>1, <1>2, PTL DEF LoginSpec

(* Whatever logins append, wait, fail and are rolled back together, and    *)
(* however many, an inspection accepts the committed audit chain.          *)
THEOREM ChainAlwaysVerifies == LoginSpec => []ChainVerifies
<1>1. AuditOK => ChainVerifies
  BY DEF AuditOK
<1> QED
  BY <1>1, AuditInvariance, PTL

-----------------------------------------------------------------------------
(* Guessing.  The argument is about one account at a time: its bucket b,   *)
(* the instants T of its failures, the number c of its requests that have  *)
(* passed the check, and the present n.                                    *)

Span == FailureWindow - MaxLag
BucketRecord == [start : Nat, failures : Nat, until : Nat, touched : Nat]

Sorted(T) == \A i, j \in 1..Len(T) : i <= j => T[i] <= T[j]
Slow(T) ==
  \A i, j \in 1..Len(T) :
    i <= j /\ T[j] - T[i] < Span => j - i + 1 <= WindowEnd + WholeWindow

(* The last reset was at R: the first m failures belong to earlier         *)
(* windows and few of them are recent at R, the others came after R and    *)
(* belong to the window of the bucket.                                     *)
Earlier(T, m, R) ==
  /\ \A j \in 1..Len(T) : m < j => R <= T[j]
  /\ \A i \in 1..m : R - T[i] < Span => m - i + 1 <= WindowEnd

(* A window is open, with as many failures as its bucket counts, or it is  *)
(* blocked since its failure number AccountFailureLimit, and has room for  *)
(* every request that passed the check.                                    *)
Window(b, T, c, m) ==
  /\ b = NoBucket => Len(T) = m
  /\ b # NoBucket /\ b.until = 0 =>
       /\ b.failures = Len(T) - m /\ 0 < b.failures
       /\ b.failures < AccountFailureLimit
       /\ 0 < b.start /\ T[m + 1] <= b.start + MaxLag
  /\ b.until # 0 =>
       /\ m + AccountFailureLimit <= Len(T)
       /\ T[m + AccountFailureLimit] + BlockDuration <= b.until + MaxLag
       /\ (Len(T) - m) + c <= WholeWindow

Guarded(b, T, c, n) ==
  /\ b \in BucketRecord /\ T \in Seq(Nat)
  /\ Sorted(T) /\ Slow(T) /\ \A i \in 1..Len(T) : T[i] <= n
  /\ \E m \in 0..Len(T), R \in 0..n : Earlier(T, m, R) /\ Window(b, T, c, m)

LEMMA Spans ==
  /\ FailureWindow \in Nat /\ BlockDuration \in Nat /\ MaxLag \in Nat
  /\ Span \in Nat /\ Span + MaxLag <= BlockDuration
  /\ Span + MaxLag = FailureWindow
BY LoginGuardAssumption DEF Span

LEMMA Limits ==
  /\ AccountFailureLimit \in Nat /\ 1 < AccountFailureLimit /\ Passed \in Int
  /\ WindowEnd \in Nat /\ AccountFailureLimit - 2 <= WindowEnd /\ Passed <= WindowEnd
  /\ WholeWindow = AccountFailureLimit + Passed /\ WholeWindow \in Int
<1>1. Cardinality(Writers) \in Nat
  BY LoginGuardAssumption, FS_CardinalityType
<1> QED
  BY <1>1, LoginGuardAssumption DEF Passed, WindowEnd, WholeWindow

LEMMA PassedCount ==
  ASSUME NEW c \in Nat, c <= Cardinality(Writers) PROVE c - 1 <= Passed
<1>1. Cardinality(Writers) \in Nat
  BY LoginGuardAssumption, FS_CardinalityType
<1> QED
  BY <1>1 DEF Passed

LEMMA BucketIsRecord == NoBucket \in BucketRecord
BY DEF NoBucket, BucketRecord

LEMMA Deleted ==
  ASSUME NEW c \in Nat, NEW n \in Nat
  PROVE  Guarded(NoBucket, <<>>, c, n)
<1> DEFINE T == <<>>
<1>1. Len(T) = 0 /\ T \in Seq(Nat)
  OBVIOUS
<1> HIDE DEF T
<1>2. Sorted(T) /\ Slow(T) /\ \A i \in 1..Len(T) : T[i] <= n
  BY <1>1 DEF Sorted, Slow
<1>3. Earlier(T, 0, 0) /\ Window(NoBucket, T, c, 0)
  BY <1>1 DEF Earlier, Window, NoBucket
<1>4. Guarded(NoBucket, T, c, n)
  BY <1>1, <1>2, <1>3, BucketIsRecord DEF Guarded
<1> QED
  BY <1>4 DEF T

(* The bucket is touched.                                                  *)
LEMMA KeptIfTouched ==
  ASSUME NEW b, NEW T, NEW c \in Nat, NEW n \in Nat, Guarded(b, T, c, n),
         NEW a \in BucketRecord, b # NoBucket, a # NoBucket,
         a.start = b.start /\ a.failures = b.failures /\ a.until = b.until
  PROVE  Guarded(a, T, c, n)
<1>1. PICK m \in 0..Len(T), R \in 0..n : Earlier(T, m, R) /\ Window(b, T, c, m)
  BY DEF Guarded
<1>2. Window(a, T, c, m)
  BY <1>1 DEF Window
<1> QED
  BY <1>1, <1>2 DEF Guarded

(* Time passes, requests come and go.                                      *)
LEMMA Kept ==
  ASSUME NEW b, NEW T, NEW c \in Nat, NEW n \in Nat, Guarded(b, T, c, n),
         NEW d \in Nat, NEW k \in Nat, n <= k, d <= c \/ b.until = 0
  PROVE  Guarded(b, T, d, k)
<1>1. PICK m \in 0..Len(T), R \in 0..n : Earlier(T, m, R) /\ Window(b, T, c, m)
  BY DEF Guarded
<1>2. /\ T \in Seq(Nat) /\ Len(T) \in Nat /\ b \in BucketRecord
      /\ \A i \in 1..Len(T) : T[i] \in Nat /\ T[i] <= n
  BY DEF Guarded
<1>3. Window(b, T, d, m)
  <2>1. b.until # 0 /\ (Len(T) - m) + c <= WholeWindow =>
          (Len(T) - m) + d <= WholeWindow
    <3>1. WholeWindow \in Int
      BY Limits
    <3> QED
      BY <1>2, <3>1
  <2> QED
    BY <1>1, <2>1 DEF Window
<1>4. R \in 0..k /\ \A i \in 1..Len(T) : T[i] <= k
  BY <1>2
<1> QED
  BY <1>1, <1>3, <1>4 DEF Guarded

(* A window ends: its last failures of the past Span are few.              *)
LEMMA Ends ==
  ASSUME NEW b, NEW T, NEW c \in Nat, NEW n \in Nat, Guarded(b, T, c, n),
         NEW d \in Nat, NEW now \in Nat, now <= n,
         normalizeBucket(b, now) = NoBucket
  PROVE  Guarded(NoBucket, T, d, n)
<1>1. PICK m \in 0..Len(T), R \in 0..n : Earlier(T, m, R) /\ Window(b, T, c, m)
  BY DEF Guarded
<1>2. /\ T \in Seq(Nat) /\ Len(T) \in Nat /\ b \in BucketRecord /\ Sorted(T)
      /\ \A i \in 1..Len(T) : T[i] \in Nat /\ T[i] <= n
  BY DEF Guarded
<1>3. b.start \in Nat /\ b.failures \in Nat /\ b.until \in Nat
  BY <1>2 DEF BucketRecord
<1>4. CASE b = NoBucket
  <2>1. b.until = 0 /\ n <= n
    BY <1>4 DEF NoBucket
  <2>2. Guarded(b, T, d, n)
    BY <2>1, Kept
  <2> QED
    BY <1>4, <2>2
<1>5. CASE b # NoBucket
  <2>1. \/ b.until # 0 /\ now >= b.until
        \/ b.until = 0 /\ b.start # 0 /\ now >= b.start + FailureWindow
    BY <1>5 DEF normalizeBucket
  <2>2. ASSUME NEW i \in 1..Len(T), n - T[i] < Span
        PROVE  Len(T) - i + 1 <= WindowEnd
    <3>1. T[i] \in Nat
      BY <1>2
    <3>2. CASE b.until = 0
      <4>1. /\ b.failures = Len(T) - m /\ 0 < b.failures
            /\ b.failures < AccountFailureLimit /\ T[m + 1] <= b.start + MaxLag
        BY <1>1, <1>5, <3>2 DEF Window
      <4>2. m + 1 \in 1..Len(T) /\ T[m + 1] \in Nat
        BY <1>2, <1>3, <4>1
      <4>3. n - T[m + 1] >= Span
        <5> DEFINE t == T[m + 1]
                   start == b.start
        <5>1. now >= start + FailureWindow /\ start \in Nat
          BY <1>3, <2>1, <3>2
        <5>2. t \in Nat /\ t <= start + MaxLag
          BY <4>1, <4>2
        <5> HIDE DEF t, start
        <5>3. n - t >= Span
          BY <5>1, <5>2, Spans
        <5> QED
          BY <5>3 DEF t
      <4>4. ~(i <= m + 1)
        <5>1. i <= m + 1 => T[i] <= T[m + 1]
          BY <1>2, <4>2 DEF Sorted
        <5> QED
          BY <2>2, <3>1, <4>2, <4>3, <5>1, Spans
      <4> QED
        BY <1>2, <4>1, <4>4, Limits
    <3>3. CASE b.until # 0
      <4> DEFINE l == m + AccountFailureLimit
      <4>1. /\ l <= Len(T) /\ T[l] + BlockDuration <= b.until + MaxLag
            /\ (Len(T) - m) + c <= WholeWindow
        BY <1>1, <3>3 DEF Window
      <4>2. l \in 1..Len(T)
        BY <1>2, <4>1, Limits
      <4> HIDE DEF l
      <4>3. T[l] \in Nat
        BY <1>2, <4>2
      <4>4. n - T[l] >= Span
        <5> DEFINE t == T[l]
                   until == b.until
        <5>1. now >= until /\ until \in Nat
          BY <1>3, <2>1, <3>3
        <5>2. t \in Nat /\ t + BlockDuration <= until + MaxLag
          BY <4>1, <4>3
        <5> HIDE DEF t, until
        <5>3. n - t >= Span
          BY <5>1, <5>2, Spans
        <5> QED
          BY <5>3 DEF t
      <4>5. ~(i <= l)
        <5>1. i <= l => T[i] <= T[l]
          BY <1>2, <4>2 DEF Sorted
        <5> QED
          BY <2>2, <3>1, <4>3, <4>4, <5>1, Spans
      <4>6. /\ l = m + AccountFailureLimit /\ i > l /\ (Len(T) - m) + c <= WholeWindow
            /\ l \in Nat /\ Len(T) \in Nat
        BY <1>2, <4>1, <4>2, <4>5 DEF l
      <4> QED
        BY <4>6, Limits
    <3> QED
      BY <3>2, <3>3
  <2>3. Earlier(T, Len(T), n) /\ Window(NoBucket, T, d, Len(T))
    BY <2>2, <1>2 DEF Earlier, Window, NoBucket
  <2> QED
    BY <1>2, <2>3, BucketIsRecord DEF Guarded
<1> QED
  BY <1>4, <1>5

LEMMA Appended ==
  ASSUME NEW T \in Seq(Nat), NEW n \in Nat
  PROVE  /\ Append(T, n) \in Seq(Nat) /\ Len(T) \in Nat
         /\ Len(Append(T, n)) = Len(T) + 1
         /\ \A i \in 1..Len(T) : Append(T, n)[i] = T[i] /\ T[i] \in Nat
         /\ Append(T, n)[Len(T) + 1] = n
OBVIOUS

(* One more failure, of a window that is open, blocked or about to begin.  *)
LEMMA Counts ==
  ASSUME NEW b, NEW T, NEW c \in Nat, NEW n \in Nat, Guarded(b, T, c, n),
         0 < c, c <= Cardinality(Writers),
         NEW now \in Nat, 0 < now, now <= n, n <= now + MaxLag,
         normalizeBucket(b, now) = b
  PROVE  LET a == Failed(b, AccountFailureLimit, now)
         IN  a # NoBucket /\ Guarded(a, Append(T, n), c - 1, n)
<1> DEFINE a == Failed(b, AccountFailureLimit, now)
           U == Append(T, n)
           l == Len(T)
<1>1. PICK m \in 0..l, R \in 0..n : Earlier(T, m, R) /\ Window(b, T, c, m)
  BY DEF Guarded
<1>2. /\ T \in Seq(Nat) /\ b \in BucketRecord /\ Sorted(T) /\ Slow(T)
      /\ \A i \in 1..l : T[i] <= n
  BY DEF Guarded
<1>3. /\ U \in Seq(Nat) /\ l \in Nat /\ Len(U) = l + 1 /\ U[l + 1] = n
      /\ \A i \in 1..l : U[i] = T[i] /\ T[i] \in Nat
  BY <1>2, Appended
<1>4. b.start \in Nat /\ b.failures \in Nat /\ b.until \in Nat /\ b.touched \in Nat
  BY <1>2 DEF BucketRecord
<1>5. b.until # 0 => now < b.until
  BY <1>4 DEF normalizeBucket, NoBucket
<1>0. 0 <= Passed /\ c - 1 <= Passed /\ AccountFailureLimit <= WholeWindow
      /\ WholeWindow \in Int
  <2>1. c - 1 <= Passed
    BY PassedCount
  <2> QED
    BY <2>1, Limits
<1> DEFINE Counted == /\ a \in BucketRecord /\ a # NoBucket
                      /\ Window(a, U, c - 1, m) /\ (l + 1) - m <= WholeWindow
<1>6. ASSUME b = NoBucket PROVE Counted
  <2>1. a = [start |-> now, failures |-> 1, touched |-> now, until |-> 0]
    BY <1>6, Limits DEF Failed, BlocksAt, NoBucket
  <2> HIDE DEF a, U, l
  <2>2. l = m
    BY <1>1, <1>6 DEF Window, l
  <2>3. /\ a \in BucketRecord /\ a # NoBucket /\ a.until = 0 /\ a.failures = 1
        /\ a.start = now
    BY <2>1 DEF BucketRecord, NoBucket
  <2>4. (l + 1) - m = 1 /\ 1 < AccountFailureLimit /\ 1 <= WholeWindow
    BY <1>0, <1>3, <2>2, Limits
  <2>5. Len(U) - m = 1 /\ Len(U) # m /\ U[m + 1] <= now + MaxLag
    BY <1>3, <2>2
  <2>6. Window(a, U, c - 1, m)
    BY <2>3, <2>4, <2>5 DEF Window
  <2> QED
    BY <2>3, <2>4, <2>6
<1>7. ASSUME b # NoBucket /\ b.until = 0 PROVE Counted
  <2>1. a = [start |-> b.start, failures |-> b.failures + 1, touched |-> now,
             until |-> IF b.failures + 1 >= AccountFailureLimit
                       THEN now + BlockDuration ELSE 0]
    BY <1>1, <1>7 DEF Failed, BlocksAt, Window
  <2>2. /\ b.failures = l - m /\ 0 < b.failures /\ b.failures < AccountFailureLimit
        /\ 0 < b.start /\ T[m + 1] <= b.start + MaxLag
    BY <1>1, <1>7 DEF Window
  <2> HIDE DEF a, U, l
  <2>3. U[m + 1] = T[m + 1] /\ m + 1 \in 1..l
    BY <1>3, <1>4, <2>2
  <2>4. CASE b.failures + 1 >= AccountFailureLimit
    <3>1. /\ a \in BucketRecord /\ a # NoBucket /\ a.until = now + BlockDuration
          /\ a.until # 0
      BY <1>4, <2>1, <2>2, <2>4, Spans DEF BucketRecord, NoBucket
    <3>2. m + AccountFailureLimit = l + 1
      BY <1>3, <1>4, <2>2, <2>4, Limits
    <3>3. U[m + AccountFailureLimit] + BlockDuration <= a.until + MaxLag
      BY <1>3, <3>1, <3>2, Spans
    <3>4. ((l + 1) - m) + (c - 1) <= WholeWindow
      <4>1. (l + 1) - m = AccountFailureLimit
        BY <1>3, <3>2, Limits
      <4> QED
        BY <1>0, <4>1, Limits
    <3>5. Window(a, U, c - 1, m)
      BY <1>3, <3>1, <3>2, <3>3, <3>4, Limits DEF Window
    <3> QED
      BY <1>3, <3>1, <3>2, <3>4, <3>5, Limits
  <2>5. CASE b.failures + 1 < AccountFailureLimit
    <3>1. /\ a \in BucketRecord /\ a # NoBucket /\ a.until = 0
          /\ a.failures = b.failures + 1 /\ a.start = b.start
      BY <1>4, <2>1, <2>2, <2>5, Limits DEF BucketRecord, NoBucket
    <3>2. Window(a, U, c - 1, m)
      BY <1>3, <1>4, <2>2, <2>3, <2>5, <3>1 DEF Window
    <3>3. (l + 1) - m <= WholeWindow
      <4>1. (l + 1) - m = b.failures + 1
        BY <1>3, <1>4, <2>2
      <4> QED
        BY <1>0, <1>4, <2>5, <4>1, Limits
    <3> QED
      BY <3>1, <3>2, <3>3
  <2> QED
    BY <1>4, <2>4, <2>5, Limits
<1>8. ASSUME b.until # 0 PROVE Counted
  <2>1. a = [b EXCEPT !.touched = now]
    BY <1>5, <1>8 DEF Failed, BlocksAt
  <2> DEFINE p == m + AccountFailureLimit
  <2>2. /\ p <= l /\ T[p] + BlockDuration <= b.until + MaxLag
        /\ (l - m) + c <= WholeWindow
    BY <1>1, <1>8 DEF Window
  <2> HIDE DEF a, U, l
  <2>3. p \in 1..l /\ p <= l + 1
    BY <1>3, <2>2, Limits
  <2>4. U[p] = T[p]
    BY <1>3, <2>3
  <2>5. a \in BucketRecord /\ a.until = b.until
    BY <1>2, <2>1 DEF BucketRecord
  <2>6. a # NoBucket
    BY <1>8, <2>5 DEF NoBucket
  <2>7. ((l + 1) - m) + (c - 1) <= WholeWindow
    BY <1>3, <2>2, Limits
  <2>8. Window(a, U, c - 1, m)
    BY <1>3, <1>8, <2>2, <2>3, <2>4, <2>5, <2>6, <2>7 DEF Window
  <2>9. (l + 1) - m <= WholeWindow
    BY <1>0, <1>3, <2>7
  <2> QED
    BY <2>5, <2>6, <2>8, <2>9
<1>9. Counted
  BY <1>6, <1>7, <1>8
<1> HIDE DEF a, U, l
<1>10. Sorted(U) /\ \A i \in 1..Len(U) : U[i] <= n
  <2>1. \A i \in 1..Len(U) : U[i] \in Nat /\ U[i] <= n
    <3>1. \A i \in 1..Len(U) : i \in 1..l \/ i = l + 1
      BY <1>3
    <3> QED
      BY <1>2, <1>3, <3>1
  <2>2. ASSUME NEW i \in 1..Len(U), NEW j \in 1..Len(U), i <= j PROVE U[i] <= U[j]
    <3>1. CASE j = l + 1
      BY <1>3, <2>1, <3>1
    <3>2. CASE j # l + 1
      <4>1. i \in 1..l /\ j \in 1..l
        BY <1>3, <2>2, <3>2
      <4>2. T[i] <= T[j]
        BY <1>2, <2>2, <4>1 DEF Sorted, l
      <4> QED
        BY <1>3, <4>1, <4>2
    <3> QED
      BY <3>1, <3>2
  <2> QED
    BY <2>1, <2>2 DEF Sorted
<1>11. Earlier(U, m, R)
  <2>1. \A j \in 1..Len(U) : m < j => R <= U[j]
    <3> SUFFICES ASSUME NEW j \in 1..Len(U), m < j PROVE R <= U[j]
      OBVIOUS
    <3>1. CASE j = l + 1
      BY <1>3, <3>1
    <3>2. CASE j # l + 1
      <4>1. j \in 1..l
        BY <1>3, <3>2
      <4>2. R <= T[j]
        BY <1>1, <4>1 DEF Earlier, l
      <4> QED
        BY <1>3, <4>1, <4>2
    <3> QED
      BY <3>1, <3>2
  <2>2. \A i \in 1..m : U[i] = T[i]
    BY <1>3
  <2> QED
    BY <1>1, <2>1, <2>2 DEF Earlier
<1>12. Slow(U)
  <2> SUFFICES ASSUME NEW i \in 1..Len(U), NEW j \in 1..Len(U),
                      i <= j, U[j] - U[i] < Span
               PROVE  j - i + 1 <= WindowEnd + WholeWindow
    BY DEF Slow
  <2>1. CASE j <= l
    <3>1. i \in 1..l /\ j \in 1..l
      BY <1>3, <2>1
    <3>2. T[j] - T[i] < Span
      BY <1>3, <3>1
    <3> QED
      BY <1>2, <3>1, <3>2 DEF Slow, l
  <2>0. /\ WindowEnd \in Nat /\ WholeWindow \in Int /\ l \in Nat
        /\ (l + 1) - m <= WholeWindow /\ i \in Nat
    BY <1>3, <1>9, Limits
  <2>2. CASE j = l + 1 /\ i > m
    BY <2>0, <2>2
  <2>3. CASE j = l + 1 /\ i <= m
    <3>1. U[i] = T[i] /\ T[i] \in Nat /\ U[j] = n
      BY <1>3, <2>3
    <3>2. R - T[i] < Span
      BY <3>1, Spans
    <3>3. m - i + 1 <= WindowEnd
      BY <1>1, <2>3, <3>2 DEF Earlier
    <3> QED
      BY <2>0, <2>3, <3>3
  <2> QED
    BY <1>3, <2>1, <2>2, <2>3
<1>13. m \in 0..Len(U)
  BY <1>3
<1>14. Guarded(a, U, c - 1, n)
  BY <1>3, <1>9, <1>10, <1>11, <1>12, <1>13 DEF Guarded
<1> QED
  BY <1>9, <1>14 DEF a, U

-----------------------------------------------------------------------------
(* The map of the protector.                                               *)

LEMMA KeysAreFinite == IsFiniteSet(Keys)
<1> DEFINE A == {<<"account", u>> : u \in Accounts}
           S == {<<"source", i>> : i \in Sources}
           f == [u \in Accounts |-> <<"account", u>>]
           g == [i \in Sources |-> <<"source", i>>]
<1>1. f \in Surjection(Accounts, A) /\ g \in Surjection(Sources, S)
  BY DEF Surjection
<1> HIDE DEF f, g
<1>2. IsFiniteSet(A) /\ IsFiniteSet(S)
  BY <1>1, FS_Surjection, LoginGuardAssumption
<1> QED
  BY <1>2, FS_Union DEF Keys

LEMMA TrackedAreFinite ==
  ASSUME NEW map PROVE IsFiniteSet(Tracked(map)) /\ Cardinality(Tracked(map)) \in Nat
BY KeysAreFinite, FS_Subset, FS_CardinalityType DEF Tracked

LEMMA AccountKeys ==
  ASSUME NEW u \in Accounts, NEW v \in Accounts, NEW i \in Sources
  PROVE  /\ <<"account", u>> \in Keys /\ <<"source", i>> \in Keys
         /\ <<"account", u>> # <<"source", i>>
         /\ u # v => <<"account", u>> # <<"account", v>>
BY DEF Keys

(* blockedLocked on one key.                                               *)
LEMMA LookedFacts ==
  ASSUME NEW map \in [Keys -> BucketRecord], NEW key \in Keys, NEW now \in Nat
  PROVE  LET after == Looked(map, key, now) IN
         /\ after \in [Keys -> BucketRecord]
         /\ Tracked(after) \subseteq Tracked(map)
         /\ \A k \in Keys \ {key} : after[k] = map[k]
         /\ \/ normalizeBucket(map[key], now) = NoBucket /\ after[key] = NoBucket
            \/ /\ normalizeBucket(map[key], now) = map[key] /\ map[key] # NoBucket
               /\ after[key] = [map[key] EXCEPT !.touched = now]
<1> DEFINE after == Looked(map, key, now)
           b == normalizeBucket(map[key], now)
           new == IF b = NoBucket THEN NoBucket ELSE [b EXCEPT !.touched = now]
<1>1. b = NoBucket \/ (b = map[key] /\ b # NoBucket)
  BY DEF normalizeBucket
<1>2. after = [map EXCEPT ![key] = new]
  BY DEF Looked
<1>3. map[key] \in BucketRecord
  OBVIOUS
<1> HIDE DEF b
<1>4. new \in BucketRecord
  BY <1>1, <1>3, BucketIsRecord DEF BucketRecord
<1> HIDE DEF new, after
<1>5. after \in [Keys -> BucketRecord] /\ after[key] = new
      /\ \A k \in Keys \ {key} : after[k] = map[k]
  BY <1>2, <1>4
<1>6. new # NoBucket => map[key] # NoBucket
  BY <1>1 DEF new
<1>7. Tracked(after) \subseteq Tracked(map)
  BY <1>5, <1>6 DEF Tracked
<1>8. \/ b = NoBucket /\ after[key] = NoBucket
      \/ b = map[key] /\ map[key] # NoBucket /\ after[key] = [map[key] EXCEPT !.touched = now]
  BY <1>1, <1>5 DEF new
<1> QED
  BY <1>5, <1>7, <1>8 DEF after, b

(* putBucketLocked: one key is written, others may be evicted, and the     *)
(* limit of tracked keys is kept.                                          *)
LEMMA PutFacts ==
  ASSUME NEW map \in [Keys -> BucketRecord], NEW key \in Keys,
         NEW bucket \in BucketRecord,
         Cardinality(Tracked(map)) <= MaxTrackedKeys,
         NEW after \in Put(map, key, bucket)
  PROVE  /\ after \in [Keys -> BucketRecord] /\ after[key] = bucket
         /\ \A k \in Keys \ {key} : after[k] \in {map[k], NoBucket}
         /\ Cardinality(Tracked(after)) <= MaxTrackedKeys
<1> DEFINE t == Tracked(map)
<1>1. IsFiniteSet(t) /\ Cardinality(t) \in Nat /\ MaxTrackedKeys \in Nat
  BY TrackedAreFinite, LoginGuardAssumption
<1>2. Cardinality(Tracked(after)) \in Nat
  BY TrackedAreFinite
<1>3. CASE map[key] # NoBucket \/ Cardinality(t) < MaxTrackedKeys
  <2>1. after = [map EXCEPT ![key] = bucket]
    BY <1>3 DEF Put
  <2>2. /\ after \in [Keys -> BucketRecord] /\ after[key] = bucket
        /\ \A k \in Keys \ {key} : after[k] = map[k]
    BY <2>1
  <2>3. Tracked(after) \in SUBSET (t \cup {key})
    BY <2>2 DEF Tracked
  <2>4. IsFiniteSet(t \cup {key})
        /\ Cardinality(t \cup {key}) = IF key \in t THEN Cardinality(t) ELSE Cardinality(t) + 1
    BY <1>1, FS_AddElement
  <2>5. Cardinality(Tracked(after)) <= Cardinality(t \cup {key})
    BY <2>3, <2>4, FS_Subset
  <2>6. map[key] # NoBucket => key \in t
    BY DEF Tracked
  <2> QED
    BY <1>1, <1>2, <1>3, <2>2, <2>4, <2>5, <2>6
<1>4. CASE ~(map[key] # NoBucket \/ Cardinality(t) < MaxTrackedKeys)
  <2>1. PICK victim \in Oldest(map) :
          after = [map EXCEPT ![victim] = NoBucket, ![key] = bucket]
    BY <1>4 DEF Put
  <2>2. victim \in t /\ victim \in Keys /\ victim # key /\ key \notin t
    BY <1>4 DEF Oldest, Tracked
  <2>3. /\ after \in [Keys -> BucketRecord] /\ after[key] = bucket
        /\ after[victim] = NoBucket
        /\ \A k \in Keys \ {key, victim} : after[k] = map[k]
    BY <2>1, <2>2, BucketIsRecord
  <2> DEFINE rest == t \ {victim}
  <2>4. Tracked(after) \in SUBSET (rest \cup {key})
    BY <2>3 DEF Tracked
  <2>5. IsFiniteSet(rest) /\ Cardinality(rest) = Cardinality(t) - 1
    BY <1>1, <2>2, FS_RemoveElement
  <2>6. key \notin rest
    BY <2>2
  <2> HIDE DEF rest
  <2>7. IsFiniteSet(rest \cup {key}) /\ Cardinality(rest \cup {key}) = Cardinality(rest) + 1
    BY <2>5, <2>6, FS_AddElement
  <2>8. Cardinality(Tracked(after)) <= Cardinality(rest \cup {key})
    BY <2>4, <2>7, FS_Subset
  <2>9. Cardinality(Tracked(after)) <= MaxTrackedKeys
    BY <1>1, <1>2, <2>5, <2>7, <2>8
  <2> QED
    BY <2>2, <2>3, <2>9
<1> QED
  BY <1>3, <1>4

-----------------------------------------------------------------------------
(* The protector and its requests: every account is guarded, with the      *)
(* requests of the account that have passed the check.                     *)

LoginRecord ==
  [pc : {"idle", "checking", "verifying", "auditing"},
   account : Accounts \cup {0}, source : Sources \cup {0}, now : Nat]

ServingOK(w) ==
  logins[w].pc \in {"checking", "verifying"} =>
    /\ logins[w].account \in Accounts /\ logins[w].source \in Sources
    /\ 0 < logins[w].now /\ logins[w].now <= instant
    /\ instant <= logins[w].now + MaxLag

RequestsOK ==
  /\ instant \in Nat /\ 0 < instant
  /\ logins \in [Writers -> LoginRecord]
  /\ \A w \in Writers : ServingOK(w)

Verifying(u) == {w \in Writers : logins[w].pc = "verifying" /\ logins[w].account = u}

AccountOK(u) ==
  Guarded(buckets[<<"account", u>>], tries[u], Cardinality(Verifying(u)), instant)

ProtectorOK ==
  /\ RequestsOK
  /\ buckets \in [Keys -> BucketRecord]
  /\ Cardinality(Tracked(buckets)) <= MaxTrackedKeys
  /\ DOMAIN tries = Accounts
  /\ \A u \in Accounts : AccountOK(u)

LEMMA VerifyingCount ==
  ASSUME NEW u
  PROVE  /\ IsFiniteSet(Verifying(u))
         /\ Cardinality(Verifying(u)) \in Nat
         /\ Cardinality(Verifying(u)) <= Cardinality(Writers)
BY LoginGuardAssumption, FS_Subset, FS_CardinalityType DEF Verifying

LEMMA VerifyingCountNext ==
  ASSUME NEW u
  PROVE  IsFiniteSet(Verifying(u)') /\ Cardinality(Verifying(u)') \in Nat
BY LoginGuardAssumption, FS_Subset, FS_CardinalityType DEF Verifying

LEMMA FewerVerify ==
  ASSUME NEW u, Verifying(u)' \subseteq Verifying(u)
  PROVE  Cardinality(Verifying(u)') <= Cardinality(Verifying(u))
BY VerifyingCount, FS_Subset

LEMMA ProtectorStarts == ASSUME LoginInit PROVE ProtectorOK
<1>1. RequestsOK
  BY Spans DEF LoginInit, RequestsOK, ServingOK, NoLogin, LoginRecord
<1>2. buckets \in [Keys -> BucketRecord] /\ DOMAIN tries = Accounts
  BY BucketIsRecord DEF LoginInit
<1>3. Tracked(buckets) = {}
  BY DEF Tracked, LoginInit
<1>4. Cardinality(Tracked(buckets)) <= MaxTrackedKeys
  BY <1>3, FS_EmptySet, LoginGuardAssumption
<1>5. ASSUME NEW u \in Accounts PROVE AccountOK(u)
  <2>1. buckets[<<"account", u>>] = NoBucket /\ tries[u] = <<>> /\ instant \in Nat
    BY DEF LoginInit, Keys
  <2> QED
    BY <2>1, VerifyingCount, Deleted DEF AccountOK
<1> QED
  BY <1>1, <1>2, <1>4, <1>5 DEF ProtectorOK

(* A request is decided: what is left to it is the audit record.           *)
LEMMA Decides ==
  ASSUME RequestsOK, NEW w \in Writers, Decide(w), instant' = instant
  PROVE  RequestsOK' /\ \A u : Verifying(u)' = Verifying(u) \ {w}
<1>1. /\ logins'[w] = [NoLogin EXCEPT !.pc = "auditing"]
      /\ \A v \in Writers \ {w} : logins'[v] = logins[v]
      /\ DOMAIN logins' = Writers
  BY DEF Decide, RequestsOK
<1>2. logins'[w] \in LoginRecord /\ logins'[w].pc = "auditing"
  BY <1>1 DEF LoginRecord, NoLogin
<1>3. logins' \in [Writers -> LoginRecord]
  BY <1>1, <1>2 DEF RequestsOK, Decide
<1>4. \A v \in Writers : ServingOK(v)'
  BY <1>1, <1>2 DEF RequestsOK, ServingOK
<1>5. RequestsOK'
  BY <1>3, <1>4 DEF RequestsOK
<1>6. ASSUME NEW u PROVE Verifying(u)' = Verifying(u) \ {w}
  BY <1>1, <1>2 DEF Verifying
<1> QED
  BY <1>5, <1>6

(* Steps that leave the protector alone and let no request pass the check. *)
LEMMA Idles ==
  ASSUME ProtectorOK, RequestsOK', UNCHANGED <<buckets, tries>>, instant <= instant',
         \A u \in Accounts : Verifying(u)' \subseteq Verifying(u)
  PROVE  ProtectorOK'
<1>1. ASSUME NEW u \in Accounts PROVE AccountOK(u)'
  <2> DEFINE c == Cardinality(Verifying(u))
             d == Cardinality(Verifying(u)')
             b == buckets[<<"account", u>>]
  <2>1. c \in Nat /\ d \in Nat /\ d <= c /\ instant \in Nat /\ instant' \in Nat
    BY VerifyingCount, VerifyingCountNext, FewerVerify DEF RequestsOK, ProtectorOK
  <2>2. Guarded(b, tries[u], c, instant)
    BY DEF ProtectorOK, AccountOK
  <2> HIDE DEF c, d, b
  <2>3. Guarded(b, tries[u], d, instant')
    BY <2>1, <2>2, Kept
  <2> QED
    BY <2>3 DEF AccountOK, b, d
<1> QED
  BY <1>1 DEF ProtectorOK, Tracked

LEMMA InstantPassesOK == ASSUME ProtectorOK, InstantPasses PROVE ProtectorOK'
<1>1. RequestsOK'
  BY Spans DEF ProtectorOK, RequestsOK, InstantPasses, ServingOK, LoginRecord
<1> QED
  BY <1>1, Idles DEF InstantPasses, ProtectorOK, RequestsOK, Verifying

LEMMA LoginArrivesOK ==
  ASSUME ProtectorOK, NEW w \in Writers, NEW u \in Accounts, NEW i \in Sources,
         LoginArrives(w, u, i)
  PROVE  ProtectorOK'
<1>1. /\ logins'[w] = [pc |-> "checking", account |-> u, source |-> i, now |-> instant]
      /\ \A v \in Writers \ {w} : logins'[v] = logins[v]
      /\ DOMAIN logins' = Writers /\ instant' = instant /\ instant \in Nat
      /\ logins' \in [Writers -> LoginRecord]
  BY DEF LoginArrives, ProtectorOK, RequestsOK, LoginRecord
<1>2. \A v \in Writers : ServingOK(v)'
  BY <1>1, Spans DEF ProtectorOK, RequestsOK, ServingOK
<1>3. RequestsOK'
  BY <1>1, <1>2 DEF ProtectorOK, RequestsOK
<1>4. \A v \in Accounts : Verifying(v)' \subseteq Verifying(v)
  BY <1>1 DEF Verifying
<1> QED
  BY <1>1, <1>3, <1>4, Idles DEF LoginArrives

(* The steps on the audit log.                                             *)
LEMMA AuditedOK ==
  ASSUME ProtectorOK, NEW w \in Writers, AuditStep(w) \/ AuditUnavailable(w)
  PROVE  ProtectorOK'
<1>1. /\ UNCHANGED logins \/ logins' = [logins EXCEPT ![w] = NoLogin]
      /\ UNCHANGED <<instant, buckets, tries>>
  BY DEF AuditStep, AuditUnavailable
<1>2. CASE UNCHANGED logins
  <2>1. RequestsOK'
    BY <1>1, <1>2 DEF ProtectorOK, RequestsOK, ServingOK
  <2> QED
    BY <1>1, <1>2, <2>1, Idles DEF ProtectorOK, RequestsOK, Verifying
<1>3. CASE logins' = [logins EXCEPT ![w] = NoLogin]
  <2>1. NoLogin \in LoginRecord
    BY DEF NoLogin, LoginRecord
  <2>2. logins' \in [Writers -> LoginRecord] /\ logins'[w].pc = "idle"
        /\ \A v \in Writers \ {w} : logins'[v] = logins[v]
    BY <1>3, <2>1 DEF ProtectorOK, RequestsOK, NoLogin
  <2>3. RequestsOK'
    BY <1>1, <2>2 DEF ProtectorOK, RequestsOK, ServingOK
  <2>4. \A v \in Accounts : Verifying(v)' \subseteq Verifying(v)
    BY <2>2 DEF Verifying
  <2> QED
    BY <1>1, <2>3, <2>4, Idles DEF ProtectorOK, RequestsOK
<1> QED
  BY <1>1, <1>2, <1>3

LEMMA SuccessOK ==
  ASSUME ProtectorOK, NEW w \in Writers, RecordSuccess(w)
  PROVE  ProtectorOK'
<1> DEFINE x == logins[w].account
<1>1. /\ x \in Accounts /\ logins[w].source \in Sources /\ instant' = instant
      /\ instant \in Nat
  BY DEF RecordSuccess, ProtectorOK, RequestsOK, ServingOK
<1>2. RequestsOK' /\ \A u : Verifying(u)' = Verifying(u) \ {w}
  BY <1>1, Decides DEF RecordSuccess, ProtectorOK
<1>3. /\ buckets' \in [Keys -> BucketRecord] /\ buckets'[<<"account", x>>] = NoBucket
      /\ \A k \in Keys \ {<<"account", x>>} : buckets'[k] = buckets[k]
      /\ DOMAIN tries' = Accounts /\ tries'[x] = <<>>
      /\ \A u \in Accounts \ {x} : tries'[u] = tries[u]
  BY <1>1, AccountKeys, BucketIsRecord DEF RecordSuccess, ProtectorOK, AccountKey
<1>4. Cardinality(Tracked(buckets')) <= MaxTrackedKeys
  <2>1. Tracked(buckets') \in SUBSET Tracked(buckets)
    BY <1>3 DEF Tracked
  <2>2. Cardinality(Tracked(buckets')) <= Cardinality(Tracked(buckets))
    BY <2>1, TrackedAreFinite, FS_Subset
  <2> QED
    BY <2>2, TrackedAreFinite, LoginGuardAssumption DEF ProtectorOK
<1>5. ASSUME NEW u \in Accounts PROVE AccountOK(u)'
  <2> DEFINE c == Cardinality(Verifying(u))
             d == Cardinality(Verifying(u)')
             b == buckets[<<"account", u>>]
  <2>1. c \in Nat /\ d \in Nat /\ d <= c /\ instant <= instant
    BY <1>1, <1>2, VerifyingCount, VerifyingCountNext, FewerVerify
  <2>2. Guarded(b, tries[u], c, instant)
    BY DEF ProtectorOK, AccountOK
  <2>3. CASE u = x
    BY <1>1, <1>3, <2>1, <2>3, Deleted DEF AccountOK
  <2>4. CASE u # x
    <3>1. buckets'[<<"account", u>>] = b /\ tries'[u] = tries[u]
      BY <1>1, <1>3, <2>4, AccountKeys
    <3> HIDE DEF b, c, d
    <3>2. Guarded(b, tries[u], d, instant)
      BY <1>1, <2>1, <2>2, Kept
    <3> QED
      BY <1>1, <3>1, <3>2 DEF AccountOK, d
  <2> QED
    BY <2>3, <2>4
<1> QED
  BY <1>2, <1>3, <1>4, <1>5 DEF ProtectorOK

(* A request is checked.  It passes on an account that is blocked only     *)
(* when the block is over, and then the bucket is gone.                    *)
LEMMA BlockedOK ==
  ASSUME ProtectorOK, NEW w \in Writers, Blocked(w)
  PROVE  ProtectorOK'
<1> DEFINE x == logins[w].account
           now == logins[w].now
           ka == <<"account", x>>
           ks == <<"source", logins[w].source>>
           one == Looked(buckets, ka, now)
<1>1. /\ x \in Accounts /\ logins[w].source \in Sources /\ instant' = instant
      /\ instant \in Nat /\ now \in Nat /\ now <= instant /\ 0 < now
      /\ logins[w].pc = "checking" /\ tries' = tries
  BY DEF Blocked, ProtectorOK, RequestsOK, ServingOK, LoginRecord
<1>2. ka \in Keys /\ ks \in Keys /\ ka # ks
  BY <1>1, AccountKeys
<1>3. buckets' = Looked(one, ks, now)
  BY DEF Blocked, AccountKey, SourceKey
<1>4. buckets \in [Keys -> BucketRecord]
  BY DEF ProtectorOK
<1> HIDE DEF one, ka, ks, now
<1>5. /\ one \in [Keys -> BucketRecord] /\ Tracked(one) \subseteq Tracked(buckets)
      /\ \A k \in Keys \ {ka} : one[k] = buckets[k]
      /\ \/ normalizeBucket(buckets[ka], now) = NoBucket /\ one[ka] = NoBucket
         \/ /\ normalizeBucket(buckets[ka], now) = buckets[ka] /\ buckets[ka] # NoBucket
            /\ one[ka] = [buckets[ka] EXCEPT !.touched = now]
  BY <1>1, <1>2, <1>4, LookedFacts DEF one
<1>6. /\ buckets' \in [Keys -> BucketRecord] /\ Tracked(buckets') \subseteq Tracked(one)
      /\ \A k \in Keys \ {ks} : buckets'[k] = one[k]
  <2> DEFINE two == Looked(one, ks, now)
  <2>1. one \in [Keys -> BucketRecord]
    BY <1>5
  <2>2. /\ two \in [Keys -> BucketRecord] /\ Tracked(two) \subseteq Tracked(one)
        /\ \A k \in Keys \ {ks} : two[k] = one[k]
        /\ \/ normalizeBucket(one[ks], now) = NoBucket /\ two[ks] = NoBucket
           \/ /\ normalizeBucket(one[ks], now) = one[ks] /\ one[ks] # NoBucket
              /\ two[ks] = [one[ks] EXCEPT !.touched = now]
    BY <1>1, <1>2, <2>1, LookedFacts
  <2> QED
    BY <1>3, <2>2
<1>7. Cardinality(Tracked(buckets')) <= MaxTrackedKeys
  <2>1. Tracked(buckets') \in SUBSET Tracked(buckets)
    BY <1>5, <1>6
  <2>2. Cardinality(Tracked(buckets')) <= Cardinality(Tracked(buckets))
    BY <2>1, TrackedAreFinite, FS_Subset
  <2> QED
    BY <2>2, TrackedAreFinite, LoginGuardAssumption DEF ProtectorOK
<1>8. /\ RequestsOK'
      /\ \A u \in Accounts :
           u # x \/ BlocksAt(buckets[ka], now) => Verifying(u)' \subseteq Verifying(u)
  <2>1. CASE Decide(w)
    <3>1. RequestsOK' /\ \A u : Verifying(u)' = Verifying(u) \ {w}
      BY <1>1, <2>1, Decides DEF ProtectorOK
    <3> QED
      BY <3>1
  <2>2. CASE ~Decide(w)
    <3>1. logins' = [logins EXCEPT ![w].pc = "verifying"] /\ ~BlocksAt(buckets[ka], now)
      BY <2>2 DEF Blocked, AccountKey, ka, now
    <3>2. logins[w] \in LoginRecord /\ ServingOK(w)
      BY DEF ProtectorOK, RequestsOK
    <3>3. /\ logins'[w] \in LoginRecord /\ logins'[w].account = x
          /\ logins'[w].source = logins[w].source /\ logins'[w].now = logins[w].now
          /\ \A v \in Writers \ {w} : logins'[v] = logins[v]
          /\ logins' \in [Writers -> LoginRecord]
      BY <3>1, <3>2 DEF ProtectorOK, RequestsOK, LoginRecord
    <3>4. \A v \in Writers : ServingOK(v)'
      BY <1>1, <3>2, <3>3 DEF ProtectorOK, RequestsOK, ServingOK
    <3>5. RequestsOK'
      BY <1>1, <3>3, <3>4 DEF ProtectorOK, RequestsOK
    <3>6. \A u \in Accounts \ {x} : Verifying(u)' \subseteq Verifying(u)
      BY <3>3 DEF Verifying
    <3> QED
      BY <3>1, <3>5, <3>6
  <2> QED
    BY <2>1, <2>2
<1>9. ASSUME NEW u \in Accounts PROVE AccountOK(u)'
  <2> DEFINE c == Cardinality(Verifying(u))
             d == Cardinality(Verifying(u)')
             b == buckets[<<"account", u>>]
             T == tries[u]
  <2>1. c \in Nat /\ d \in Nat /\ instant <= instant
    BY <1>1, VerifyingCount, VerifyingCountNext
  <2>2. Guarded(b, T, c, instant)
    BY DEF ProtectorOK, AccountOK
  <2>3. CASE u # x
    <3>1. d <= c
      BY <1>8, <2>3, FewerVerify
    <3>2. buckets'[<<"account", u>>] = b
      BY <1>1, <1>2, <1>5, <1>6, <2>3, AccountKeys DEF ka, ks
    <3> HIDE DEF b, c, d, T
    <3>3. Guarded(b, T, d, instant)
      BY <1>1, <2>1, <2>2, <3>1, Kept
    <3> QED
      BY <1>1, <3>2, <3>3 DEF AccountOK, d, T
  <2>4. CASE u = x
    <3>1. b = buckets[ka] /\ buckets'[<<"account", u>>] = one[ka] /\ b \in BucketRecord
      BY <1>2, <1>4, <1>6, <2>4 DEF ka
    <3>2. BlocksAt(b, now) => d <= c
      BY <1>8, <2>4, <3>1, FewerVerify
    <3> HIDE DEF b, c, d, T
    <3>3. CASE normalizeBucket(b, now) = NoBucket /\ one[ka] = NoBucket
      <4>1. Guarded(NoBucket, T, d, instant)
        BY <1>1, <2>1, <2>2, <3>3, Ends
      <4> QED
        BY <1>1, <3>1, <3>3, <4>1 DEF AccountOK, d, T
    <3>4. CASE normalizeBucket(b, now) = b /\ b # NoBucket
               /\ one[ka] = [b EXCEPT !.touched = now]
      <4> DEFINE a == [b EXCEPT !.touched = now]
      <4>1. a \in BucketRecord /\ a.start = b.start /\ a.failures = b.failures
            /\ a.until = b.until /\ b.until \in Nat
        BY <1>1, <3>1 DEF BucketRecord
      <4>2. b.until # 0 => BlocksAt(b, now)
        BY <1>1, <3>4, <4>1 DEF normalizeBucket, BlocksAt
      <4>3. Guarded(b, T, d, instant)
        BY <1>1, <2>1, <2>2, <3>2, <4>2, Kept
      <4>4. a # NoBucket
        <5>1. CASE b.until # 0
          BY <4>1, <5>1 DEF NoBucket
        <5>2. CASE b.until = 0
          <6>1. b.start # 0
            BY <2>2, <3>4, <5>2 DEF Guarded, Window
          <6> QED
            BY <4>1, <6>1 DEF NoBucket
        <5> QED
          BY <5>1, <5>2
      <4> HIDE DEF a
      <4>5. Guarded(a, T, d, instant)
        BY <1>1, <2>1, <3>4, <4>1, <4>3, <4>4, KeptIfTouched
      <4> QED
        BY <1>1, <3>1, <3>4, <4>5 DEF AccountOK, d, T, a
    <3> QED
      BY <1>5, <3>1, <3>3, <3>4
  <2> QED
    BY <2>3, <2>4
<1> QED
  BY <1>1, <1>6, <1>7, <1>8, <1>9 DEF ProtectorOK

LEMMA FailedIsRecord ==
  ASSUME NEW b \in BucketRecord, NEW limit \in Nat, NEW now \in Nat
  PROVE  Failed(normalizeBucket(b, now), limit, now) \in BucketRecord
<1> DEFINE a == normalizeBucket(b, now)
<1>1. a \in BucketRecord
  BY BucketIsRecord DEF normalizeBucket
<1> HIDE DEF a
<1>2. Failed(a, limit, now) \in BucketRecord
  BY <1>1, Spans DEF Failed, BucketRecord
<1> QED
  BY <1>2 DEF a

(* The account's own bucket after a failure that it survives.              *)
LEMMA FailureCounts ==
  ASSUME NEW b, NEW T, NEW c \in Nat, NEW n \in Nat, Guarded(b, T, c, n),
         0 < c, c <= Cardinality(Writers),
         NEW now \in Nat, 0 < now, now <= n, n <= now + MaxLag
  PROVE  LET a == Failed(normalizeBucket(b, now), AccountFailureLimit, now)
         IN  a # NoBucket /\ Guarded(a, Append(T, n), c - 1, n)
<1>1. CASE normalizeBucket(b, now) = NoBucket
  <2>1. Guarded(NoBucket, T, c, n)
    BY <1>1, Ends
  <2>2. normalizeBucket(NoBucket, now) = NoBucket
    BY DEF normalizeBucket, NoBucket
  <2> QED
    BY <1>1, <2>1, <2>2, Counts
<1>2. CASE normalizeBucket(b, now) = b
  BY <1>2, Counts
<1> QED
  BY <1>1, <1>2 DEF normalizeBucket

(* A failure is recorded for the account and for the source; either of     *)
(* them may evict another key, and the second may evict the first.         *)
LEMMA FailureOK ==
  ASSUME ProtectorOK, NEW w \in Writers, RecordFailure(w)
  PROVE  ProtectorOK'
<1> DEFINE x == logins[w].account
           now == logins[w].now
           ka == <<"account", x>>
           ks == <<"source", logins[w].source>>
           fa == Failed(normalizeBucket(buckets[ka], now), AccountFailureLimit, now)
<1>1. /\ x \in Accounts /\ logins[w].source \in Sources /\ instant' = instant
      /\ instant \in Nat /\ now \in Nat /\ now <= instant /\ 0 < now
      /\ instant <= now + MaxLag /\ logins[w].pc = "verifying"
  BY DEF RecordFailure, ProtectorOK, RequestsOK, ServingOK, LoginRecord
<1>2. ka \in Keys /\ ks \in Keys /\ ka # ks
  BY <1>1, AccountKeys
<1>3. buckets \in [Keys -> BucketRecord] /\ Cardinality(Tracked(buckets)) <= MaxTrackedKeys
  BY DEF ProtectorOK
<1>4. RequestsOK' /\ \A u : Verifying(u)' = Verifying(u) \ {w}
  BY <1>1, Decides DEF RecordFailure, ProtectorOK
<1>5. PICK one \in Put(buckets, ka, fa) :
      \E two \in recordFailureLocked(one, ks, SourceFailureLimit, now) :
        /\ buckets' = two
        /\ tries' = [StillCounted(two) EXCEPT ![x] =
                       IF two[ka] = NoBucket THEN <<>> ELSE Append(@, instant)]
  BY DEF RecordFailure, recordFailureLocked, AccountKey, SourceKey
<1> DEFINE fs == Failed(normalizeBucket(one[ks], now), SourceFailureLimit, now)
<1>6. PICK two \in Put(one, ks, fs) :
        /\ buckets' = two
        /\ tries' = [StillCounted(two) EXCEPT ![x] =
                       IF two[ka] = NoBucket THEN <<>> ELSE Append(@, instant)]
  BY <1>5 DEF recordFailureLocked
<1>7. AccountFailureLimit \in Nat /\ SourceFailureLimit \in Nat
  BY LoginGuardAssumption
<1> HIDE DEF now, ka, ks
<1>8. fa \in BucketRecord
  BY <1>1, <1>2, <1>3, <1>7, FailedIsRecord
<1> HIDE DEF fa
<1>9. /\ one \in [Keys -> BucketRecord] /\ one[ka] = fa
      /\ \A k \in Keys \ {ka} : one[k] \in {buckets[k], NoBucket}
      /\ Cardinality(Tracked(one)) <= MaxTrackedKeys
  BY <1>2, <1>3, <1>8, PutFacts
<1>10. fs \in BucketRecord
  BY <1>1, <1>2, <1>7, <1>9, FailedIsRecord
<1> HIDE DEF fs
<1>11. /\ two \in [Keys -> BucketRecord] /\ two[ks] = fs
       /\ \A k \in Keys \ {ks} : two[k] \in {one[k], NoBucket}
       /\ Cardinality(Tracked(two)) <= MaxTrackedKeys
  BY <1>2, <1>9, <1>10, PutFacts
<1>12. /\ DOMAIN tries' = Accounts
       /\ tries'[x] = IF two[ka] = NoBucket THEN <<>>
                      ELSE Append(StillCounted(two)[x], instant)
       /\ \A u \in Accounts \ {x} : tries'[u] = StillCounted(two)[u]
  BY <1>1, <1>6 DEF StillCounted
<1>13. ASSUME NEW u \in Accounts PROVE AccountOK(u)'
  <2> DEFINE c == Cardinality(Verifying(u))
             d == Cardinality(Verifying(u)')
             b == buckets[<<"account", u>>]
             T == tries[u]
             k == <<"account", u>>
  <2>1. c \in Nat /\ d \in Nat /\ instant <= instant /\ c <= Cardinality(Writers)
    BY <1>1, VerifyingCount, VerifyingCountNext
  <2>2. Guarded(b, T, c, instant)
    BY DEF ProtectorOK, AccountOK
  <2>3. d <= c
    BY <1>4, FewerVerify
  <2>4. CASE two[k] = NoBucket /\ tries'[u] = <<>>
    BY <1>1, <1>6, <2>1, <2>4, Deleted DEF AccountOK
  <2>5. CASE u # x
    <3>1. two[k] \in {b, NoBucket}
      <4>1. k \in Keys /\ k # ka /\ k # ks
        BY <1>1, <2>5, AccountKeys DEF ka, ks
      <4> QED
        BY <1>9, <1>11, <4>1
    <3>2. tries'[u] = IF b # NoBucket /\ two[k] = NoBucket THEN <<>> ELSE T
      BY <1>12, <2>5 DEF StillCounted
    <3>3. CASE two[k] = b /\ tries'[u] = T
      <4> HIDE DEF b, c, d, T
      <4>1. Guarded(b, T, d, instant)
        BY <1>1, <2>1, <2>2, <2>3, Kept
      <4> QED
        BY <1>1, <1>6, <3>3, <4>1 DEF AccountOK, d
    <3> QED
      BY <2>4, <3>1, <3>2, <3>3
  <2>6. CASE u = x
    <3>1. k = ka /\ b = buckets[ka] /\ two[ka] \in {fa, NoBucket}
      BY <1>2, <1>9, <1>11, <2>6 DEF ka
    <3>2. w \in Verifying(u)
      BY <1>1, <2>6 DEF Verifying
    <3>3. d = c - 1 /\ 0 < c
      <4>1. Verifying(u)' = Verifying(u) \ {w} /\ IsFiniteSet(Verifying(u))
        BY <1>4, VerifyingCount
      <4>2. Cardinality(Verifying(u) \ {w}) = c - 1
        BY <3>2, <4>1, FS_RemoveElement
      <4> QED
        BY <2>1, <4>1, <4>2
    <3>4. CASE two[ka] = NoBucket
      BY <1>12, <2>4, <2>6, <3>1, <3>4
    <3>5. CASE two[ka] # NoBucket
      <4>1. tries'[u] = Append(T, instant) /\ two[k] = fa
        BY <1>12, <2>6, <3>1, <3>5 DEF StillCounted, ka
      <4> HIDE DEF b, c, d, T
      <4>2. Guarded(fa, Append(T, instant), c - 1, instant)
        BY <1>1, <2>1, <2>2, <3>1, <3>3, FailureCounts DEF fa
      <4> QED
        BY <1>1, <1>6, <3>3, <4>1, <4>2 DEF AccountOK, d
    <3> QED
      BY <3>4, <3>5
  <2> QED
    BY <2>5, <2>6
<1> QED
  BY <1>4, <1>6, <1>11, <1>12, <1>13 DEF ProtectorOK

LEMMA ProtectorInvariance == LoginSpec => []ProtectorOK
<1>1. LoginInit => ProtectorOK
  BY ProtectorStarts
<1>2. ProtectorOK /\ [LoginNext]_loginVars => ProtectorOK'
  <2> SUFFICES ASSUME ProtectorOK, [LoginNext]_loginVars PROVE ProtectorOK'
    OBVIOUS
  <2>1. CASE UNCHANGED loginVars
    <3>1. RequestsOK'
      BY <2>1 DEF ProtectorOK, RequestsOK, ServingOK, loginVars, guardVars
    <3> QED
      BY <2>1, <3>1, Idles DEF ProtectorOK, RequestsOK, Verifying, loginVars, guardVars
  <2>2. CASE LoginNext
    BY <2>2, InstantPassesOK, LoginArrivesOK, BlockedOK, FailureOK, SuccessOK, AuditedOK
       DEF LoginNext
  <2> QED
    BY <2>1, <2>2
<1> QED
  BY <1>1, <1>2, PTL DEF LoginSpec

(* Guessing the password of an account is slow, for any number of          *)
(* concurrent requests, any policy the service may be given and whatever   *)
(* order the calls to the protector come in; and the protector tracks no   *)
(* more keys than it may.                                                  *)
THEOREM GuessingIsAlwaysSlow == LoginSpec => []GuessingIsSlow
<1>1. ProtectorOK => GuessingIsSlow
  <2> SUFFICES ASSUME ProtectorOK PROVE GuessingIsSlow
    OBVIOUS
  <2>1. \A u \in Accounts : Slow(tries[u]) /\ tries[u] \in Seq(Nat)
    BY DEF ProtectorOK, AccountOK, Guarded
  <2>2. \A u \in Accounts : DOMAIN tries[u] = 1..Len(tries[u])
    BY <2>1
  <2>3. Cardinality(Tracked(buckets)) <= MaxTrackedKeys
    BY DEF ProtectorOK
  <2> QED
    BY <2>1, <2>2, <2>3 DEF GuessingIsSlow, Slow, Span
<1> QED
  BY <1>1, ProtectorInvariance, PTL
=============================================================================
