------------------------------ MODULE Migration ------------------------------
(***************************************************************************)
(* Opening a store (store/schema.rs, store/scrub.rs). Each siftr that opens *)
(* a database of an older schema brings it to the latest one, under a lock  *)
(* file, in one transaction; the others wait for it, though not for ever.   *)
(* One of the migrations redacts the credentials that older versions        *)
(* stored, and deletes the captures they left, which no transaction undoes. *)
(*                                                                         *)
(* A siftr newer than this one, which knows one more migration, is          *)
(* external. Older ones that opened the store before are left out.          *)
(***************************************************************************)
EXTENDS Naturals

CONSTANTS
  Openers,      \* processes that open the store
  OldCaptures,  \* capture files recorded before redaction
  Latest,       \* migrations this siftr knows
  SCRUB,        \* how many come before the one that redacts
  MaxPolls,     \* how often a waiting process looks before BUSY_WAIT is over
  MaxOpens,     \* bound: how often a process opens the store
  NoOne         \* the holder of a free lock

ASSUME MigrationAssumption ==
  /\ Latest \in Nat /\ SCRUB \in Nat /\ SCRUB < Latest
  /\ MaxPolls \in Nat /\ MaxOpens \in Nat
  /\ NoOne \notin Openers
  /\ OldCaptures \cap Openers = {}

VARIABLES
  version,   \* PRAGMA user_version, as committed
  wal,       \* PRAGMA journal_mode
  plain,     \* whether committed rows hold credentials
  files,     \* the captures on disk; a new one goes by the process that wrote it
  lock,      \* who holds siftr.lock
  tx,        \* the holder's transaction: its version, and whether its rows do
  pc,        \* what each process does next
  seen,      \* the version each process last read
  polls,     \* how often it has looked for the lock
  opens,     \* how often it has opened the store
  recorded   \* history: the processes that recorded a run

disk == <<version, wal, plain, files>>
vars == <<disk, lock, tx, pc, seen, polls, opens, recorded>>

Waiting == {"waiting", "polled"}
InTransaction == {"migrating", "scrubbing"}
Holding == {"holding", "beginning", "committed"} \cup InTransaction

Init ==
  /\ version \in 0..(Latest + 1)
  /\ wal \in BOOLEAN /\ (version >= Latest => wal)
  /\ plain \in BOOLEAN /\ (version > SCRUB => ~plain)
  /\ files \in {{}, OldCaptures} /\ (version > SCRUB => files = {})
  /\ lock = NoOne
  /\ tx = [version |-> 0, plain |-> FALSE]
  /\ pc = [p \in Openers |-> "closed"]
  /\ seen = [p \in Openers |-> 0]
  /\ polls = [p \in Openers |-> 0]
  /\ opens = [p \in Openers |-> 0]
  /\ recorded = {}

Goto(p, next) == pc' = [pc EXCEPT ![p] = next]

-----------------------------------------------------------------------------

\* The version is read first, the journal mode after it. Neither ever goes back,
\* so that reading both in one step sees as much.
IsCurrent == version = Latest /\ wal

\* Reads the version: a newer one is refused, the latest one needs nothing.
Checks(p, otherwise) ==
  /\ seen' = [seen EXCEPT ![p] = version]
  /\ \/ version > Latest /\ Goto(p, "failed")
     \/ version <= Latest /\ IsCurrent /\ Goto(p, "opened")
     \/ version <= Latest /\ ~IsCurrent /\ Goto(p, otherwise)

Open(p) ==
  /\ pc[p] = "closed"
  /\ opens[p] < MaxOpens
  /\ opens' = [opens EXCEPT ![p] = @ + 1]
  /\ polls' = [polls EXCEPT ![p] = 0]
  /\ Checks(p, "waiting")
  /\ UNCHANGED <<disk, lock, tx, recorded>>

TakeLock(p) ==
  /\ pc[p] = "waiting"
  /\ lock = NoOne
  /\ lock' = p
  /\ Goto(p, "holding")
  /\ UNCHANGED <<disk, tx, seen, polls, opens, recorded>>

\* The lock was held for as long as one try takes.
LockHeld(p) ==
  /\ pc[p] = "waiting"
  /\ lock # NoOne
  /\ Goto(p, "polled")
  /\ UNCHANGED <<disk, lock, tx, seen, polls, opens, recorded>>

\* Mutant: it waits for as long as the lock is held.
Poll_Forever(p) ==
  /\ pc[p] = "polled"
  /\ Checks(p, "waiting")
  /\ UNCHANGED <<disk, lock, tx, polls, opens, recorded>>

\* Mutant: a free lock is taken for a store that is current.
Poll_Free(p) ==
  /\ pc[p] = "polled"
  /\ polls' = [polls EXCEPT ![p] = @ + 1]
  /\ IF lock = NoOne THEN Goto(p, "opened") /\ UNCHANGED seen
     ELSE Checks(p, IF polls[p] < MaxPolls THEN "waiting" ELSE "failed")
  /\ UNCHANGED <<disk, lock, tx, opens, recorded>>

\* The holder may have finished; if not, there is a deadline.
Poll(p) ==
  /\ pc[p] = "polled"
  /\ polls' = [polls EXCEPT ![p] = @ + 1]
  /\ Checks(p, IF polls[p] < MaxPolls THEN "waiting" ELSE "failed")
  /\ UNCHANGED <<disk, lock, tx, opens, recorded>>

\* The write-ahead log is switched on outside of the transaction, and stays.
SetWal(p) ==
  /\ pc[p] = "holding"
  /\ wal' = TRUE
  /\ Goto(p, "beginning")
  /\ UNCHANGED <<version, plain, files, lock, tx, seen, polls, opens, recorded>>

\* Mutant: the version is not read again under the lock.
Begin_Stale(p) ==
  /\ pc[p] = "beginning"
  /\ tx' = [version |-> seen[p], plain |-> plain]
  /\ Goto(p, "migrating")
  /\ UNCHANGED <<disk, lock, seen, polls, opens, recorded>>

\* The transaction starts from the version it finds, which may be the latest by
\* now, or a newer one.
Begin(p) ==
  /\ pc[p] = "beginning"
  /\ seen' = [seen EXCEPT ![p] = version]
  /\ \/ /\ version > Latest
        /\ Goto(p, "failed")
        /\ lock' = NoOne
        /\ UNCHANGED tx
     \/ /\ version <= Latest
        /\ Goto(p, "migrating")
        /\ tx' = [version |-> version, plain |-> plain]
        /\ UNCHANGED lock
  /\ UNCHANGED <<disk, polls, opens, recorded>>

\* Every row's text is redacted, but the deletion of captures is still to come.
rewrite(store) == [store EXCEPT !.plain = FALSE]

\* One migration. The one that redacts rewrites the rows, in the transaction.
Apply(p) ==
  /\ pc[p] = "migrating"
  /\ tx.version < Latest
  /\ IF tx.version = SCRUB
     THEN tx' = rewrite(tx) /\ Goto(p, "scrubbing")
     ELSE tx' = [tx EXCEPT !.version = @ + 1] /\ UNCHANGED pc
  /\ UNCHANGED <<disk, lock, seen, polls, opens, recorded>>

RemoveCapture(p) ==
  /\ pc[p] = "scrubbing"
  /\ \E f \in files : files' = files \ {f}
  /\ UNCHANGED <<version, wal, plain, lock, tx, pc, seen, polls, opens, recorded>>

\* Mutant: a capture that could not be deleted is passed over.
Scrubbed_Anyway(p) ==
  /\ pc[p] = "scrubbing"
  /\ tx' = [tx EXCEPT !.version = @ + 1]
  /\ Goto(p, "migrating")
  /\ UNCHANGED <<disk, lock, seen, polls, opens, recorded>>

\* The migration counts as applied once every capture is gone.
Scrubbed(p) ==
  /\ pc[p] = "scrubbing"
  /\ files = {}
  /\ tx' = [tx EXCEPT !.version = @ + 1]
  /\ Goto(p, "migrating")
  /\ UNCHANGED <<disk, lock, seen, polls, opens, recorded>>

Commit(p) ==
  /\ pc[p] = "migrating"
  /\ tx.version = Latest
  /\ version' = tx.version
  /\ plain' = tx.plain
  /\ Goto(p, "committed")
  /\ UNCHANGED <<wal, files, lock, tx, seen, polls, opens, recorded>>

Unlock(p) ==
  /\ pc[p] = "committed"
  /\ lock' = NoOne
  /\ Goto(p, "opened")
  /\ UNCHANGED <<disk, tx, seen, polls, opens, recorded>>

\* An error or a crash, anywhere: the transaction is rolled back and the lock
\* free, but what was deleted is gone and the journal mode is what it is.
Fail(p) ==
  /\ pc[p] \in Waiting \cup Holding
  /\ Goto(p, "failed")
  /\ lock' = IF lock = p THEN NoOne ELSE lock
  /\ UNCHANGED <<disk, tx, seen, polls, opens, recorded>>

\* A run is recorded in a store that is open, with its capture; whoever is in a
\* transaction holds it up.
Record(p) ==
  /\ pc[p] = "opened"
  /\ p \notin recorded
  /\ \A q \in Openers : pc[q] \notin InTransaction
  /\ files' = files \cup {p}
  /\ recorded' = recorded \cup {p}
  /\ UNCHANGED <<version, wal, plain, lock, tx, pc, seen, polls, opens>>

\* The next command of a user.
Again(p) ==
  /\ pc[p] \in {"opened", "failed"}
  /\ Goto(p, "closed")
  /\ UNCHANGED <<disk, lock, tx, seen, polls, opens, recorded>>

\* A newer siftr takes its turn.
Upgrade ==
  /\ lock = NoOne
  /\ version = Latest
  /\ version' = Latest + 1
  /\ UNCHANGED <<wal, plain, files, lock, tx, pc, seen, polls, opens, recorded>>

\* A process that waits for the lock.
Wait(p) == TakeLock(p) \/ LockHeld(p) \/ Poll(p)

Migrate(p) ==
  SetWal(p) \/ Begin(p) \/ Apply(p) \/ RemoveCapture(p) \/ Scrubbed(p) \/ Commit(p) \/ Unlock(p)

Step(p) == Open(p) \/ Wait(p) \/ Migrate(p) \/ Fail(p) \/ Record(p) \/ Again(p)

Next == Upgrade \/ \E p \in Openers : Step(p)

Spec == Init /\ [][Next]_vars

\* Only those who wait are known to go on: whoever holds the lock may be suspended.
FairSpec == Spec /\ \A p \in Openers : WF_vars(Wait(p))

-----------------------------------------------------------------------------
(* Properties.                                                              *)

TypeOK ==
  /\ version \in 0..(Latest + 1)
  /\ wal \in BOOLEAN /\ plain \in BOOLEAN
  /\ files \subseteq OldCaptures \cup Openers
  /\ lock \in Openers \cup {NoOne}
  /\ tx \in [version : 0..Latest, plain : BOOLEAN]
  /\ pc \in [Openers -> {"closed", "opened", "failed"} \cup Waiting \cup Holding]
  /\ seen \in [Openers -> 0..(Latest + 1)]
  /\ polls \in [Openers -> Nat] /\ opens \in [Openers -> Nat]
  /\ recorded \subseteq Openers

\* No siftr works on a store of an older schema or without its write-ahead log,
\* whoever migrated it, whatever failed on the way; nor on one that still holds
\* what the migration that redacts has to remove.
OpenedIsCurrent ==
  \A p \in Openers : pc[p] = "opened" =>
    version >= Latest /\ wal /\ ~plain /\ files \cap OldCaptures = {}

\* A store whose version says that it was redacted holds no row or capture from
\* before: a crash or an error between the two kinds of removal leaves a version
\* that has it tried again.
RedactedForGood == version > SCRUB => ~plain /\ files \cap OldCaptures = {}

\* The migration that deletes captures never meets one recorded since, although
\* processes that waited for it come to the lock with a version read before.
NewCapturesKept == recorded \subseteq files

\* A process waits for the lock only so long, even if its holder never moves.
NoStall == \A p \in Openers : pc[p] \in Waiting ~> pc[p] \notin Waiting
=============================================================================
