---------------------------- MODULE AuthSessions ----------------------------
(***************************************************************************)
(* Local authentication: Service (internal/identity/auth/service.go) over  *)
(* the identity store (persistence/postgres/identity.go) for one account.  *)
(* Each request runs the store calls of its method one after the other,    *)
(* and requests interleave.                                                *)
(*                                                                         *)
(* A password change is a transaction of three steps: the row of the user, *)
(* the open sessions, the commit.  Until the commit the others see the old *)
(* password, and a session inserted after the second step escapes it.      *)
(* Passwords are numbered; a change sets hash and password_changed_at      *)
(* together, so the number stands for both.                                *)
(***************************************************************************)
EXTENDS Integers

CONSTANTS
  Calls,        \* requests being served
  Sessions,     \* session identifiers (token and id are drawn together)
  NoSession,    \* a call without a session
  TTL,          \* Service.sessionTTL
  IdleTimeout,  \* Service.sessionIdleTimeout
  MaxClock,     \* bound: the last instant
  MaxPassword   \* bound: password changes

VARIABLES
  clock,
  password,   \* the committed password of the account
  sessions,   \* cc_auth_sessions: session -> row
  calls,      \* call -> what it does and has read
  doomed,     \* sessions the open password change has marked revoked
  audit,      \* what the audit log records, of interest here
  tokens      \* sessions whose token was handed to the client

authVars == <<clock, password, sessions, calls, doomed, audit, tokens>>

ASSUME AuthAssumption ==
  /\ {TTL, IdleTimeout, MaxPassword} \subseteq Nat \ {0} /\ MaxClock \in Nat
  /\ IdleTimeout <= TTL
  /\ NoSession \notin Sessions

(* A row: credential_version, times, and what revoked it: "no" if nothing, *)
(* "user" or "all" for a request of its user, else "other".                *)
Row(credential, at) ==
  [credential |-> credential, created |-> at, last |-> at, expires |-> at + TTL,
   revoked |-> "no"]
Free == [credential |-> 0, created |-> 0, last |-> 0,
         expires |-> 0, revoked |-> "no"]

Idle == [pc |-> "idle", session |-> NoSession, seen |-> 0, now |-> 0,
         begun |-> 0]

AuthInit ==
  /\ clock = 0 /\ password = 1
  /\ sessions = [s \in Sessions |-> Free]
  /\ calls = [c \in Calls |-> Idle]
  /\ doomed = {} /\ audit = {} /\ tokens = {}

Exists(s) == sessions[s].credential # 0

(* Session.activeAt: not revoked, not expired, not idle.                   *)
ActiveAt(row, now) ==
  row.revoked = "no" /\ now < row.expires /\ now < row.last + IdleTimeout

(* The password change whose transaction is open.                          *)
InTransaction(c) == calls[c].pc \in {"revoking", "committing"}

GoTo(c, pc) == calls' = [calls EXCEPT ![c].pc = pc]
End(c) == calls' = [calls EXCEPT ![c] = Idle]

(* The rows of a set that are still open become revoked.                   *)
Revoke(set, how) ==
  sessions' = [s \in Sessions |->
    IF s \in set /\ Exists(s) /\ sessions[s].revoked = "no"
    THEN [sessions[s] EXCEPT !.revoked = how]
    ELSE sessions[s]]

-----------------------------------------------------------------------------
(* Login.  A wrong password changes nothing here.                          *)

LoginStart(c) ==
  /\ calls[c].pc = "idle"
  /\ calls' = [calls EXCEPT ![c] = [Idle EXCEPT !.pc = "creating", !.seen = password,
                                                !.now = clock]]
  /\ UNCHANGED <<clock, password, sessions, doomed, audit, tokens>>

(* The insertion selects the user by the password hash that was verified.  *)
CreateSession(c, s) ==
  /\ calls[c].pc = "creating" /\ ~Exists(s)
  /\ IF password = calls[c].seen
     THEN /\ sessions' = [sessions EXCEPT ![s] = Row(calls[c].seen, calls[c].now)]
          /\ calls' = [calls EXCEPT ![c] = [Idle EXCEPT !.pc = "auditing login",
                                                       !.session = s]]
     ELSE End(c) /\ UNCHANGED sessions
  /\ UNCHANGED <<clock, password, doomed, audit, tokens>>

(* Without an audit record no token: the session is to be revoked.         *)
AuditLogin(c) ==
  /\ calls[c].pc = "auditing login"
  /\ \/ /\ audit' = audit \cup {<<"login", calls[c].session>>}
        /\ tokens' = tokens \cup {calls[c].session}
        /\ End(c)
     \/ GoTo(c, "withdrawing") /\ UNCHANGED <<audit, tokens>>
  /\ UNCHANGED <<clock, password, sessions, doomed>>

(* RevokeSessionByDigest, as every statement on a session row, waits for   *)
(* the transaction that holds the row.                                     *)
Withdraw(c) ==
  /\ calls[c].pc = "withdrawing" /\ calls[c].session \notin doomed
  /\ Revoke({calls[c].session}, "other")
  /\ End(c)
  /\ UNCHANGED <<clock, password, doomed, audit, tokens>>

-----------------------------------------------------------------------------
(* Authenticate.                                                           *)

AuthenticateStart(c, s) ==
  /\ calls[c].pc = "idle" /\ s \in tokens
  /\ ActiveAt(sessions[s], clock)
  /\ calls' = [calls EXCEPT ![c] =
       [Idle EXCEPT !.pc = "reading user", !.session = s, !.now = clock,
                    !.begun = password]]
  /\ UNCHANGED <<clock, password, sessions, doomed, audit, tokens>>

(* Mutant of CredentialCurrent: revocation is relied on alone.             *)
CredentialIgnored(s) == TRUE

CredentialCurrent(s) == sessions[s].credential = password

ReadUser(c) ==
  /\ calls[c].pc = "reading user"
  /\ IF CredentialCurrent(calls[c].session) THEN GoTo(c, "touching") ELSE End(c)
  /\ UNCHANGED <<clock, password, sessions, doomed, audit, tokens>>

(* Mutant of Touched: the last activity is set, not raised.                *)
TouchedBack(row, now) == [row EXCEPT !.last = now]

Touched(row, now) == [row EXCEPT !.last = IF now > @ THEN now ELSE @]

(* TouchSessionByDigest waits for a transaction that holds the row.        *)
Touch(c) ==
  LET s == calls[c].session
  IN  /\ calls[c].pc = "touching" /\ s \notin doomed
      /\ IF sessions[s].revoked = "no" /\ calls[c].now < sessions[s].expires
         THEN /\ sessions' = [sessions EXCEPT ![s] = Touched(sessions[s], calls[c].now)]
              /\ calls' = [calls EXCEPT ![c].pc = "accepted", ![c].now = 0]
         ELSE End(c) /\ UNCHANGED sessions
      /\ UNCHANGED <<clock, password, doomed, audit, tokens>>

Accepted(c) ==
  /\ calls[c].pc = "accepted"
  /\ End(c)
  /\ UNCHANGED <<clock, password, sessions, doomed, audit, tokens>>

-----------------------------------------------------------------------------
(* ChangePassword.                                                         *)

ChangeStart(c) ==
  /\ calls[c].pc = "idle" /\ password < MaxPassword
  /\ calls' = [calls EXCEPT ![c] = [Idle EXCEPT !.pc = "changing", !.seen = password]]
  /\ UNCHANGED <<clock, password, sessions, doomed, audit, tokens>>

(* Mutant of Unchanged: the last change wins.                              *)
UnchangedNotAsked(c) == TRUE

(* The row still has the hash the call has verified.                       *)
Unchanged(c) == password = calls[c].seen

(* UPDATE of the user row: waits for another one's transaction.            *)
UpdateUser(c) ==
  /\ calls[c].pc = "changing"
  /\ \A d \in Calls : ~InTransaction(d)
  /\ IF Unchanged(c) THEN GoTo(c, "revoking") ELSE End(c)
  /\ UNCHANGED <<clock, password, sessions, doomed, audit, tokens>>

(* UPDATE of the sessions that are visible and open now.                   *)
RevokeOpen(c) ==
  /\ calls[c].pc = "revoking"
  /\ doomed' = {s \in Sessions : Exists(s) /\ sessions[s].revoked = "no"}
  /\ GoTo(c, "committing")
  /\ UNCHANGED <<clock, password, sessions, audit, tokens>>

Commit(c) ==
  /\ calls[c].pc = "committing"
  /\ password' = password + 1
  /\ Revoke(doomed, "other")
  /\ doomed' = {}
  /\ End(c)
  /\ UNCHANGED <<clock, audit, tokens>>

(* A store call fails, or the client is gone: the request ends, and its    *)
(* transaction, if one is open, is rolled back.                            *)
Fail(c) ==
  /\ calls[c].pc \notin {"idle", "auditing login", "requesting", "accepted"}
  /\ doomed' = IF InTransaction(c) THEN {} ELSE doomed
  /\ End(c)
  /\ UNCHANGED <<clock, password, sessions, audit, tokens>>

-----------------------------------------------------------------------------
(* RevokeSession, RevokeAllSessions and Logout, by the holder of a token.  *)

RevokeStart(c, s) ==
  /\ calls[c].pc = "idle" /\ tokens # {}
  /\ Exists(s) /\ ActiveAt(sessions[s], clock) /\ CredentialCurrent(s)
  /\ calls' = [calls EXCEPT ![c] = [Idle EXCEPT !.pc = "requesting", !.session = s,
                                                !.now = clock]]
  /\ UNCHANGED <<clock, password, sessions, doomed, audit, tokens>>

(* Mutant of RequestRecorded: the request is not stopped when the log is   *)
(* unavailable.                                                            *)
RequestUnrecorded(c) == UNCHANGED audit /\ GoTo(c, "removing")

(* The request is audited first; without the record nothing is revoked.    *)
RequestRecorded(c) ==
  \/ audit' = audit \cup {<<"revoke", calls[c].session>>} /\ GoTo(c, "removing")
  \/ UNCHANGED audit /\ End(c)

AuditRequest(c) ==
  /\ calls[c].pc = "requesting"
  /\ RequestRecorded(c)
  /\ UNCHANGED <<clock, password, sessions, doomed, tokens>>

RevokeAllStart(c) ==
  /\ calls[c].pc = "idle" /\ tokens # {}
  /\ calls' = [calls EXCEPT ![c] = [Idle EXCEPT !.pc = "requesting"]]
  /\ UNCHANGED <<clock, password, sessions, doomed, audit, tokens>>

(* One session, or (no session named) every open one.  Rows of an open     *)
(* transaction are waited for.                                             *)
Remove(c) ==
  LET s == calls[c].session
  IN  /\ calls[c].pc = "removing"
      /\ IF s = NoSession THEN doomed = {} ELSE s \notin doomed
      /\ IF s = NoSession THEN Revoke(Sessions, "all")
         ELSE IF calls[c].now < sessions[s].expires THEN Revoke({s}, "user")
         ELSE UNCHANGED sessions
      /\ End(c)
      /\ UNCHANGED <<clock, password, doomed, audit, tokens>>

Logout(c, s) ==
  /\ calls[c].pc = "idle" /\ s \in tokens \ doomed
  /\ Revoke({s}, "other")
  /\ UNCHANGED <<clock, password, calls, doomed, audit, tokens>>

Tick ==
  /\ clock < MaxClock
  /\ clock' = clock + 1
  /\ UNCHANGED <<password, sessions, calls, doomed, audit, tokens>>

AuthNext ==
  \/ Tick
  \/ \E c \in Calls :
       \/ LoginStart(c)
       \/ \E s \in Sessions : CreateSession(c, s)
       \/ AuditLogin(c)
       \/ Withdraw(c)
       \/ \E s \in Sessions : AuthenticateStart(c, s)
       \/ ReadUser(c)
       \/ Touch(c)
       \/ Accepted(c)
       \/ ChangeStart(c)
       \/ UpdateUser(c)
       \/ RevokeOpen(c)
       \/ Commit(c)
       \/ Fail(c)
       \/ \E s \in Sessions : RevokeStart(c, s)
       \/ RevokeAllStart(c)
       \/ AuditRequest(c)
       \/ Remove(c)
       \/ \E s \in Sessions : Logout(c, s)

AuthSpec == AuthInit /\ [][AuthNext]_authVars

-----------------------------------------------------------------------------
(***************************************************************************)
(* Once a password change is committed, no request that begins afterwards  *)
(* is accepted on the strength of an older password: neither on a session  *)
(* from before, nor on one that was verified before the change and         *)
(* inserted while it was under way or after it.                            *)
(***************************************************************************)
OldPasswordIsDead ==
  \A c \in Calls : calls[c].pc = "accepted" =>
    sessions[calls[c].session].credential >= calls[c].begun

(***************************************************************************)
(* Of two password changes that verified the same password only one takes  *)
(* effect; the other one is refused instead of overwriting it.             *)
(***************************************************************************)
NoLostPasswordChange ==
  [][password' # password =>
       \A c \in Calls : calls[c].pc = "committing" => calls[c].seen = password]_authVars

(* A token is handed out, and a session revoked on request of its user,    *)
(* only when the audit log already says so.                                *)
AuditedFirst ==
  \A s \in Sessions :
    /\ s \in tokens => <<"login", s>> \in audit
    /\ sessions[s].revoked = "user" => <<"revoke", s>> \in audit
    /\ sessions[s].revoked = "all" => <<"revoke", NoSession>> \in audit

(***************************************************************************)
(* A session left alone for the idle timeout is over: its activity moves   *)
(* only forward and never by the timeout or more, even when requests that  *)
(* read the clock earlier finish late.                                     *)
(***************************************************************************)
IdleSessionsEnd ==
  [][\A s \in Sessions : Exists(s) /\ sessions'[s].last # sessions[s].last =>
       /\ sessions'[s].last > sessions[s].last
       /\ sessions'[s].last < sessions[s].last + IdleTimeout]_authVars
=============================================================================
