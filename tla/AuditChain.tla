----------------------------- MODULE AuditChain -----------------------------
(***************************************************************************)
(* The audit log: AuditLog.Append and InspectChain                         *)
(* (persistence/postgres/audit.go, audit_integrity.go).                    *)
(*                                                                         *)
(* Append is a transaction of four statements under READ COMMITTED: the    *)
(* advisory lock, the hash of the newest row, the insertion, which draws   *)
(* the next sequence_id, and the commit.  Other transactions see a row     *)
(* when it is committed; a rolled back one leaves a gap in the sequence.   *)
(* Every event gets a random id, so that its hash stands for the event and *)
(* its predecessors; here the hash of a row is its sequence_id.            *)
(***************************************************************************)
EXTENDS Naturals, FiniteSetsExt

CONSTANTS
  Writers,     \* transactions that may be open at a time
  NoWriter,
  MaxEvents    \* bound on the sequence numbers drawn

ASSUME AuditAssumption == NoWriter \notin Writers /\ MaxEvents \in Nat

VARIABLES
  auditRows,  \* the committed rows of cc_audit_events
  sequence,   \* the last sequence_id drawn
  holder,     \* who holds the advisory lock
  tx          \* writer -> [pc, previous, row] of its transaction

auditVars == <<auditRows, sequence, holder, tx>>

NoTx == [pc |-> "none", previous |-> 0, row |-> 0]

AuditInit ==
  /\ auditRows = {}
  /\ sequence = 0
  /\ holder = NoWriter
  /\ tx = [w \in Writers |-> NoTx]

(* The hash of the newest of some rows, 0 (no hash) if there is none.      *)
NewestHash(set) == Max({0} \cup {r.hash : r \in set})

(* An event with its link and its hash, and the check of both.  The hash   *)
(* of a stored event is never altered (a trigger refuses it).              *)
Prepare(number, previous) ==
  [sequence |-> number, hash |-> number, previous |-> previous]
Verify(row, expected) == row.previous = expected

-----------------------------------------------------------------------------
(* Mutant of Lock: the transaction does not wait for the lock.             *)
LockNotAwaited(w) ==
  /\ tx[w].pc = "none"
  /\ sequence < MaxEvents
  /\ holder' = w
  /\ tx' = [tx EXCEPT ![w].pc = "reading"]
  /\ UNCHANGED <<auditRows, sequence>>

(* BEGIN and pg_advisory_xact_lock; the lock is kept until the transaction *)
(* ends.                                                                   *)
Lock(w) ==
  /\ tx[w].pc = "none"
  /\ sequence < MaxEvents
  /\ holder = NoWriter
  /\ holder' = w
  /\ tx' = [tx EXCEPT ![w].pc = "reading"]
  /\ UNCHANGED <<auditRows, sequence>>

ReadHead(w) ==
  /\ tx[w].pc = "reading"
  /\ tx' = [tx EXCEPT ![w].pc = "inserting", ![w].previous = NewestHash(auditRows)]
  /\ UNCHANGED <<auditRows, sequence, holder>>

(* The INSERT, which draws a sequence_id.                                  *)
Insert(w) ==
  /\ tx[w].pc = "inserting"
  /\ sequence' = sequence + 1
  /\ tx' = [tx EXCEPT ![w].pc = "committing", ![w].row = sequence + 1]
  /\ UNCHANGED <<auditRows, holder>>

Finish(w) ==
  /\ tx' = [tx EXCEPT ![w] = NoTx]
  /\ holder' = IF holder = w THEN NoWriter ELSE holder

CommitRow(w) ==
  /\ tx[w].pc = "committing"
  /\ auditRows' = auditRows \cup {Prepare(tx[w].row, tx[w].previous)}
  /\ Finish(w)
  /\ UNCHANGED sequence

(* A statement fails or the caller is gone.                                *)
Rollback(w) ==
  /\ tx[w].pc # "none"
  /\ Finish(w)
  /\ UNCHANGED <<auditRows, sequence>>

-----------------------------------------------------------------------------
(* InspectChain: every row, in the order of the numbers, extends the one   *)
(* before it.                                                              *)
InspectChain ==
  \A r \in auditRows :
    Verify(r, NewestHash({q \in auditRows : q.sequence < r.sequence}))

(***************************************************************************)
(* However many transactions append, wait, fail and are rolled back at the *)
(* same time, an inspection of the chain accepts what is committed: no two *)
(* rows extend the same row and the order of the numbers is the order of   *)
(* the chain.  An event that a transaction holds back never shows.         *)
(***************************************************************************)
ChainVerifies == InspectChain
=============================================================================
