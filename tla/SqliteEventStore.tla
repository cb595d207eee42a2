-------------------------- MODULE SqliteEventStore ---------------------------
(***************************************************************************)
(* The steps of the SQLite event store (kernel/sqlite-event-store.js):     *)
(* append, transaction, savepoint, rollback with reload, closing and       *)
(* reopening. AuthenticatedCommands is its caller.                         *)
(*                                                                         *)
(* Every SQL statement may fail, as a full disk or an I/O error makes it.  *)
(* SQLite itself is external: a transaction that was not committed is gone *)
(* when the connection is closed or the process ends, and a COMMIT that    *)
(* reports an error may have left the transaction open, have rolled it     *)
(* back, or have made it durable.                                          *)
(*                                                                         *)
(* An event is its sequence number, its transaction, its time and what it  *)
(* says; that its hash links it to the event before is here that sequence  *)
(* numbers have no gap.                                                    *)
(***************************************************************************)
EXTENDS Naturals, Sequences, FiniteSets

CONSTANTS
  TxId,      \* identifiers of transactions
  None,
  MaxTime,         \* bound on the clock
  ClockMovesBack   \* the wall clock may be set back

ASSUME StoreAssumption ==
  None \notin TxId \cup Nat /\ MaxTime \in Nat /\ ClockMovesBack \in BOOLEAN

VARIABLES
  open,              \* a process has the store open
  file,              \* the database file: committed rows
  db,                \* what the connection reads
  inSql,             \* a SQL transaction is open on the connection
  savepoint,         \* what ROLLBACK TO restores, or None
  memory,            \* #events
  active,            \* #activeTransaction
  recoveryRequired,  \* #recoveryRequired
  now                \* #clock

sqlVars == <<open, file, inSql, savepoint, recoveryRequired, now>>

storeVars == <<sqlVars, db, memory, active>>

(* Rows of fdos_events, of what its caller says, and of fdos_transactions. *)
Event(Says) == [seq : Nat \ {0}, tx : TxId \cup {None}, at : Nat, says : Says]

TxRow ==
  [id : TxId, started : Nat, committed : Nat \cup {None},
   first : Nat, last : Nat, count : Nat]

Rows(Says) == [events : SUBSET Event(Says), txs : SUBSET TxRow]

ActiveTx == [id : TxId, base : Nat, failed : BOOLEAN]

NoRows == [events |-> {}, txs |-> {}]

StoreInit ==
  /\ open = TRUE
  /\ file = NoRows /\ db = NoRows
  /\ inSql = FALSE /\ savepoint = None
  /\ memory = <<>> /\ active = None
  /\ recoveryRequired = FALSE /\ now = 0

StoreTypeOK(Says) ==
  /\ {open, inSql, recoveryRequired} \subseteq BOOLEAN
  /\ {file, db} \subseteq Rows(Says)
  /\ savepoint = None \/ savepoint \in [rows : Rows(Says), base : Nat]
  /\ memory \in Seq(Event(Says))
  /\ active \in ActiveTx \cup {None}
  /\ now \in 0..MaxTime

-----------------------------------------------------------------------------
(* Reading the rows *)

GroupOf(rows, id) == {e.seq : e \in {f \in rows.events : f.tx = id}}

(* parseEventRows: the chain has no gap and no group is split. *)
Chained(rows) ==
  /\ {e.seq : e \in rows.events} = 1..Cardinality(rows.events)
  /\ \A id \in TxId : \A m, n \in GroupOf(rows, id) : m..n \subseteq GroupOf(rows, id)

(* verifyTransactionRows, with no active transaction. *)
Verified(rows) ==
  /\ Chained(rows)
  /\ {e.tx : e \in rows.events} \subseteq {t.id : t \in rows.txs} \cup {None}
  /\ \A t \in rows.txs :
       /\ t.committed # None /\ t.started <= t.committed
       /\ t.count > 0
       /\ GroupOf(rows, t.id) = t.first..t.last
       /\ t.count = Cardinality(GroupOf(rows, t.id))

(* What parseEventRows returns. *)
EventsOf(rows) ==
  [i \in 1..Cardinality(rows.events) |-> CHOOSE e \in rows.events : e.seq = i]

-----------------------------------------------------------------------------
(* append() *)

Writable == open /\ ~recoveryRequired

\* Mutant: sequence numbers start at zero.
NextEvent_FromZero(tx, says) ==
  [seq |-> Len(memory), tx |-> tx, at |-> now, says |-> says]

NextEvent(tx, says) ==
  [seq |-> Len(memory) + 1, tx |-> tx, at |-> now, says |-> says]

(* sequence is the primary key, transaction_id a foreign key. Outside a    *)
(* SQL transaction the INSERT is durable at once.                          *)
Insert(tx, says) ==
  LET e == NextEvent(tx, says)
  IN  /\ \A f \in db.events : f.seq # e.seq
      /\ tx # None => \E t \in db.txs : t.id = tx
      /\ db' = [db EXCEPT !.events = @ \cup {e}]
      /\ file' = IF inSql THEN file ELSE db'
      /\ memory' = Append(memory, e)
      /\ UNCHANGED <<open, inSql, savepoint, active, recoveryRequired, now>>

(* The INSERT throws; the transaction that owned it remembers. *)
InsertFails(tx) ==
  /\ active' = IF active # None /\ active.id = tx
                 THEN [active EXCEPT !.failed = TRUE] ELSE active
  /\ UNCHANGED <<sqlVars, db, memory>>

-----------------------------------------------------------------------------
(* transaction() *)

NewTx(id) ==
  [id |-> id, started |-> now, committed |-> None,
   first |-> 0, last |-> 0, count |-> 0]

(* BEGIN IMMEDIATE and the row of the transaction. *)
Begin(id) ==
  /\ ~inSql /\ active = None
  /\ \A t \in db.txs : t.id # id
  /\ inSql' = TRUE
  /\ db' = [db EXCEPT !.txs = @ \cup {NewTx(id)}]
  /\ active' = [id |-> id, base |-> Len(memory), failed |-> FALSE]
  /\ UNCHANGED <<open, file, savepoint, memory, recoveryRequired, now>>

(* One of the two fails. The ROLLBACK that follows may fail as well: with  *)
(* nothing to roll back, or leaving the SQL transaction open.              *)
BeginFails ==
  /\ inSql' \in BOOLEAN
  /\ db' = file
  /\ UNCHANGED <<open, file, savepoint, memory, active, recoveryRequired, now>>

(* The metadata of the transaction. *)
Finalise(t) ==
  [t EXCEPT !.committed = now, !.first = active.base + 1,
            !.last = Len(memory), !.count = Len(memory) - active.base]

Finalised ==
  [db EXCEPT !.txs = {IF t.id = active.id THEN Finalise(t) ELSE t : t \in @}]

MayFinalise == ~active.failed /\ Len(memory) > active.base

(* Metadata and COMMIT. *)
Commit ==
  /\ MayFinalise
  /\ file' = Finalised /\ db' = Finalised
  /\ inSql' = FALSE /\ active' = None
  /\ UNCHANGED <<open, savepoint, memory, recoveryRequired, now>>

(* One of them throws. *)
CommitFails ==
  /\ MayFinalise
  /\ \/ db' \in {db, Finalised} /\ UNCHANGED <<file, inSql>>
     \/ db' = file /\ inSql' = FALSE /\ UNCHANGED file
     \/ file' = Finalised /\ db' = Finalised /\ inSql' = FALSE
  /\ UNCHANGED <<open, savepoint, memory, active, recoveryRequired, now>>

(* The catch block: ROLLBACK, then #reload, which needs verified rows. If  *)
(* either is not confirmed, nothing more is written before a reopen.       *)
Abort(rolledBack, reloaded) ==
  /\ rolledBack => inSql
  /\ inSql' = (inSql /\ ~rolledBack)
  /\ db' = IF rolledBack THEN file ELSE db
  /\ active' = None /\ savepoint' = None
  /\ reloaded => Verified(db')
  /\ \/ Chained(db') /\ memory' = EventsOf(db')
     \/ ~reloaded /\ UNCHANGED memory
  /\ recoveryRequired' = ~(rolledBack /\ reloaded)
  /\ UNCHANGED <<open, file, now>>

-----------------------------------------------------------------------------
(* control.savepoint() *)

Savepoint ==
  /\ inSql
  /\ savepoint' = [rows |-> db, base |-> Len(memory)]
  /\ UNCHANGED <<open, file, db, inSql, memory, active, recoveryRequired, now>>

(* SAVEPOINT throws, and so does ROLLBACK TO in the catch block. *)
SavepointFails ==
  /\ active' = [active EXCEPT !.failed = TRUE]
  /\ UNCHANGED <<sqlVars, db, memory>>

Release ==
  /\ ~active.failed
  /\ savepoint' = None
  /\ UNCHANGED <<open, file, db, inSql, memory, active, recoveryRequired, now>>

(* ROLLBACK TO restores the rows; memory is cut back even if it throws. *)
RollbackTo(restored) ==
  /\ db' = IF restored THEN savepoint.rows ELSE db
  /\ active' = IF restored THEN active ELSE [active EXCEPT !.failed = TRUE]
  /\ memory' = SubSeq(memory, 1, savepoint.base)
  /\ savepoint' = None
  /\ UNCHANGED <<open, file, inSql, recoveryRequired, now>>

-----------------------------------------------------------------------------
(* close(), the end of the process, open() *)

Disconnected ==
  /\ open' = FALSE
  /\ db' = file /\ inSql' = FALSE /\ savepoint' = None
  /\ memory' = <<>> /\ active' = None /\ recoveryRequired' = FALSE
  /\ UNCHANGED <<file, now>>

CloseStore == open /\ active = None /\ Disconnected

EndProcess == open /\ Disconnected

OpenStore ==
  /\ ~open /\ Verified(file)
  /\ open' = TRUE
  /\ memory' = EventsOf(file)
  /\ UNCHANGED <<file, db, inSql, savepoint, active, recoveryRequired, now>>

(* Time passes; whoever sets the wall clock may set it back. *)
Tick ==
  /\ now' \in 0..MaxTime \ {now}
  /\ ClockMovesBack \/ now' > now
  /\ UNCHANGED <<open, file, db, inSql, savepoint, memory, active,
                 recoveryRequired>>

=============================================================================
