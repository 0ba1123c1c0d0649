--------------------------- MODULE MigrationProofs ---------------------------
(***************************************************************************)
(* A store that is open is of the latest schema, and redacted, and what is  *)
(* recorded in it stays, for any number of processes, captures, migrations  *)
(* and retries. What makes it inductive is what the lock's holder has       *)
(* reached: a transaction that has not come past the migration that redacts *)
(* was begun on a store where nothing can have been recorded since.         *)
(***************************************************************************)
EXTENDS Migration, TLAPS

USE MigrationAssumption

\* Whoever is between taking the lock and giving it back holds it.
LockInv == \A p \in Openers : pc[p] \in Holding <=> lock = p

\* The write-ahead log is on once the transaction may begin.
WalInv == \A p \in Openers : pc[p] \in {"beginning", "committed"} \cup InTransaction => wal

\* A transaction is ahead of the store, and has redacted what its version says.
TxInv ==
  \A p \in Openers : pc[p] \in InTransaction =>
    /\ version <= tx.version
    /\ tx.version > SCRUB => ~tx.plain /\ files \cap OldCaptures = {}
    /\ pc[p] = "scrubbing" => tx.version = SCRUB /\ ~tx.plain

\* Who has committed or opened found the latest version.
CurrentInv ==
  \A p \in Openers : pc[p] \in {"committed", "opened"} => version >= Latest /\ wal

\* Runs are recorded in a store of the latest version only.
RecordedInv == recorded # {} => version >= Latest

IInv ==
  /\ TypeOK
  /\ LockInv
  /\ WalInv
  /\ TxInv
  /\ CurrentInv
  /\ RecordedInv
  /\ RedactedForGood
  /\ NewCapturesKept

\* The invariant holds of a store that no one has opened yet.
LEMMA InitInv == Init => IInv
  BY SMT DEF Init, IInv, TypeOK, LockInv, WalInv, TxInv, CurrentInv, RecordedInv,
    RedactedForGood, NewCapturesKept, Waiting, Holding, InTransaction

\* Waiting for the lock, taking it, and what is outside of the transaction.
LEMMA OutsideInv ==
  ASSUME IInv, NEW p \in Openers,
         Open(p) \/ TakeLock(p) \/ LockHeld(p) \/ Poll(p) \/ SetWal(p) \/ Unlock(p) \/ Fail(p) \/ Again(p)
  PROVE  IInv'
<1> USE DEF IInv, TypeOK, LockInv, WalInv, TxInv, CurrentInv, RecordedInv,
      RedactedForGood, NewCapturesKept, Waiting, Holding, InTransaction, disk, Goto
<1>1. CASE Open(p)
  BY <1>1, SMTT(30) DEF Open, Checks, IsCurrent
<1>2. CASE TakeLock(p)
  BY <1>2, SMTT(30) DEF TakeLock
<1>3. CASE LockHeld(p)
  BY <1>3, SMTT(30) DEF LockHeld
<1>4. CASE Poll(p)
  BY <1>4, SMTT(30) DEF Poll, Checks, IsCurrent
<1>5. CASE SetWal(p)
  BY <1>5, SMTT(30) DEF SetWal
<1>6. CASE Unlock(p)
  BY <1>6, SMTT(30) DEF Unlock
<1>7. CASE Fail(p)
  BY <1>7, SMTT(30) DEF Fail
<1>8. CASE Again(p)
  BY <1>8, SMTT(30) DEF Again
<1> QED
  BY <1>1, <1>2, <1>3, <1>4, <1>5, <1>6, <1>7, <1>8

\* The transaction, from the version it finds to the commit.
LEMMA InsideInv ==
  ASSUME IInv, NEW p \in Openers,
         Begin(p) \/ Apply(p) \/ RemoveCapture(p) \/ Scrubbed(p) \/ Commit(p)
  PROVE  IInv'
<1> USE DEF IInv, TypeOK, LockInv, WalInv, TxInv, CurrentInv, RecordedInv,
      RedactedForGood, NewCapturesKept, Waiting, Holding, InTransaction, disk, Goto
<1>1. CASE Begin(p)
  BY <1>1, SMTT(30) DEF Begin
<1>2. CASE Apply(p)
  <2>1. CASE tx.version = SCRUB
    <3>1. tx' = [version |-> SCRUB, plain |-> FALSE] /\ Goto(p, "scrubbing")
      BY <1>2, <2>1, SMT DEF Apply, rewrite
    <3>2. version <= SCRUB
      BY <1>2, <2>1, SMT DEF Apply
    <3>3. TypeOK' /\ TxInv'
      BY <1>2, <2>1, <3>1, <3>2, SMTT(30) DEF Apply
    <3> QED
      BY <1>2, <2>1, <3>1, <3>2, <3>3, SMTT(30) DEF Apply
  <2>2. CASE tx.version # SCRUB
    <3>1. tx' = [version |-> tx.version + 1, plain |-> tx.plain] /\ UNCHANGED pc
      BY <1>2, <2>2, SMT DEF Apply
    <3>2. tx.version \in Nat /\ tx.version < Latest /\ version <= tx.version
      BY <1>2, SMT DEF Apply
    <3>3. TypeOK' /\ TxInv'
      BY <1>2, <2>2, <3>1, <3>2, SMTT(30) DEF Apply
    <3> QED
      BY <1>2, <3>1, <3>3, SMTT(30) DEF Apply
  <2> QED
    BY <2>1, <2>2
<1>3. CASE RemoveCapture(p)
  \* Nothing was recorded: the store is not past the migration that redacts.
  <2>1. version <= SCRUB /\ recorded = {}
    BY <1>3, SMT DEF RemoveCapture
  <2> QED
    BY <1>3, <2>1, SMTT(30) DEF RemoveCapture
<1>4. CASE Scrubbed(p)
  BY <1>4, SMTT(30) DEF Scrubbed
<1>5. CASE Commit(p)
  BY <1>5, SMTT(30) DEF Commit
<1> QED
  BY <1>1, <1>2, <1>3, <1>4, <1>5

\* Recording, and a newer siftr.
LEMMA RecordInv == ASSUME IInv, NEW p \in Openers, Record(p) PROVE IInv'
  BY SMTT(30) DEF Record, IInv, TypeOK, LockInv, WalInv, TxInv, CurrentInv, RecordedInv,
    RedactedForGood, NewCapturesKept, Waiting, Holding, InTransaction, disk

LEMMA UpgradeInv == ASSUME IInv, Upgrade PROVE IInv'
  BY SMTT(30) DEF Upgrade, IInv, TypeOK, LockInv, WalInv, TxInv, CurrentInv, RecordedInv,
    RedactedForGood, NewCapturesKept, Waiting, Holding, InTransaction, disk

LEMMA StutterInv == ASSUME IInv, UNCHANGED vars PROVE IInv'
  BY SMTT(30) DEF vars, IInv, TypeOK, LockInv, WalInv, TxInv, CurrentInv, RecordedInv,
    RedactedForGood, NewCapturesKept, Waiting, Holding, InTransaction, disk

\* Every reachable state satisfies the inductive invariant.
THEOREM Inductive == Spec => []IInv
<1>1. IInv /\ [Next]_vars => IInv'
  BY OutsideInv, InsideInv, RecordInv, UpgradeInv, StutterInv
  DEF Next, Step, Wait, Migrate
<1> QED
  BY InitInv, <1>1, PTL DEF Spec

\* The variables keep their types.
THEOREM TypeCorrect == Spec => []TypeOK
<1>1. IInv => TypeOK
  BY DEF IInv
<1> QED
  BY Inductive, <1>1, PTL

\* A siftr works on a store of the latest schema or a newer one, in write-ahead
\* mode, with nothing left of what had to be redacted, whichever process migrated
\* it and whatever failed before.
THEOREM WorksOnCurrent == Spec => []OpenedIsCurrent
<1>1. IInv => OpenedIsCurrent
  BY SMT DEF IInv, TypeOK, CurrentInv, RedactedForGood, OpenedIsCurrent
<1> QED
  BY Inductive, <1>1, PTL

\* A store whose version says it was redacted was.
THEOREM Redacts == Spec => []RedactedForGood
<1>1. IInv => RedactedForGood
  BY DEF IInv
<1> QED
  BY Inductive, <1>1, PTL

\* No migration deletes a capture recorded since redaction.
THEOREM KeepsNewCaptures == Spec => []NewCapturesKept
<1>1. IInv => NewCapturesKept
  BY DEF IInv
<1> QED
  BY Inductive, <1>1, PTL
=============================================================================
