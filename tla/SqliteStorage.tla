---------------------------- MODULE SqliteStorage ----------------------------
(***************************************************************************)
(* What the framework keeps in SQLite: schema migrations and their         *)
(* journal, the counters, the message log of a transaction.  All of it     *)
(* shares one NativePortSqliteConnection, which queues transactions one    *)
(* behind the other but lets single statements through at any time, into   *)
(* the transaction that happens to be open.  The process may die anywhere. *)
(***************************************************************************)
EXTENDS SequencesExt

CONSTANTS
  Migrations,  \* number of registered migrations, in id order
  Maximum,     \* of incrementWrapped
  MaxCalls,    \* bound: transactional calls
  Plain,       \* single-statement writes
  MaxStorageFaults   \* bound: deaths of the process and refused statements

ASSUME StorageAssumption == Migrations \in Nat /\ Maximum \in Nat /\ MaxCalls \in Nat

Absent == -1
StorageOps == {"incrementWrapped", "incrementBy", "getOrCreate", "reset", "append"}
StorageCalls == 1..MaxCalls
Closed == [counter |-> Absent, seq |-> 0, rows |-> {}]

VARIABLES
  schema,   \* of each migration: what of its batch the database has
  journal,  \* framework_schema_migration
  boot,     \* runPending: [step, at], ready when it has returned
  db,       \* the counter, the last message sequence, rows of plain writes
  saved,    \* the database as BEGIN found it
  holder,   \* the call whose transaction is open, 0 for none
  queue,    \* transactionQueue
  calls,    \* of each call: its operation, its next statement, its result
  storageFaults,  \* deaths of the process and refused statements
  serial,   \* history: the counter and sequence of the committed calls
  durable   \* history: plain writes no transaction can take back

storageVars == <<schema, journal, boot, db, saved, holder, queue, calls, storageFaults, serial, durable>>

-----------------------------------------------------------------------------
bootVars == <<schema, journal, boot>>
callVars == <<db, saved, holder, queue, calls, serial, durable>>

BootAt(step, at) == [step |-> step, at |-> at]
pending(from) == {m \in from..Migrations : m \notin journal}
NextMigration(from) ==
  IF pending(from) = {} THEN BootAt("ready", 0)
  ELSE BootAt("up", CHOOSE m \in pending(from) : \A n \in pending(from) : m <= n)

\* listApplied, then the first migration the journal does not have.
RunPending ==
  /\ boot.step = "down" /\ boot' = NextMigration(1)
  /\ UNCHANGED <<schema, journal, storageFaults, callVars>>

\* A statement of the batch; what a run before left half done is completed.
Up ==
  /\ boot.step = "up"
  /\ schema' = [schema EXCEPT ![boot.at] = IF @ = "none" THEN "partial" ELSE "full"]
  /\ boot' = IF schema'[boot.at] = "full" THEN BootAt("mark", boot.at) ELSE boot
  /\ UNCHANGED <<journal, storageFaults, callVars>>

MarkApplied ==
  /\ boot.step = "mark"
  /\ journal' = journal \cup {boot.at} /\ boot' = NextMigration(boot.at + 1)
  /\ UNCHANGED <<schema, storageFaults, callVars>>

\* A statement fails: runPending rejects, the next start tries again.
MigrationFails ==
  /\ boot.step \in {"up", "mark"} /\ storageFaults < MaxStorageFaults
  /\ storageFaults' = storageFaults + 1 /\ boot' = BootAt("down", 0)
  /\ UNCHANGED <<schema, journal, callVars>>
-----------------------------------------------------------------------------
\* The upserts of SqliteCounterService.
Upsert(op, v) ==
  CASE op = "incrementWrapped" -> IF v = Absent THEN 1 ELSE IF v >= Maximum THEN 0 ELSE v + 1
    [] op = "incrementBy" -> IF v = Absent THEN 1 ELSE v + 1
    [] op = "getOrCreate" -> IF v = Absent THEN 0 ELSE v
    [] op = "reset" -> 0
    [] OTHER -> v

\* A call enters transaction(): atomic() puts it behind the ones before it.
Call(c, op) ==
  /\ boot.step = "ready" /\ calls[c].step = "new" /\ \A d \in 1..(c - 1) : calls[d].step # "new"
  /\ calls' = [calls EXCEPT ![c] = [op |-> op, step |-> "queued", result |-> Absent]]
  /\ queue' = Append(queue, c)
  /\ UNCHANGED <<bootVars, db, saved, holder, storageFaults, serial, durable>>

BeginTransaction(c) ==
  /\ queue # <<>> /\ Head(queue) = c /\ calls[c].step = "queued"
  /\ saved' = db /\ holder' = c
  /\ calls' = [calls EXCEPT ![c].step = "first"]
  /\ UNCHANGED <<bootVars, db, queue, storageFaults, serial, durable>>

\* The upsert, or the read of the next message sequence.
FirstStatement(c) ==
  /\ calls[c].step = "first"
  /\ db' = [db EXCEPT !.counter = Upsert(calls[c].op, @)]
  /\ calls' = [calls EXCEPT ![c].step = "second",
       ![c].result = IF calls[c].op = "append" THEN db.seq + 1 ELSE Absent]
  /\ UNCHANGED <<bootVars, saved, holder, queue, storageFaults, serial, durable>>

\* requireCounter, or the insert of the message.
SecondStatement(c) ==
  /\ calls[c].step = "second"
  /\ IF calls[c].op = "append"
       THEN db' = [db EXCEPT !.seq = calls[c].result] /\ calls' = [calls EXCEPT ![c].step = "commit"]
       ELSE calls' = [calls EXCEPT ![c].step = "commit", ![c].result = db.counter] /\ UNCHANGED db
  /\ UNCHANGED <<bootVars, saved, holder, queue, storageFaults, serial, durable>>

Ended(c, step) ==
  /\ calls' = [calls EXCEPT ![c].step = step]
  /\ queue' = Tail(queue)
  /\ holder' = 0 /\ saved' = Closed

Commit(c) ==
  /\ calls[c].step = "commit" /\ Ended(c, "resolved")
  /\ serial' = [counter |-> Upsert(calls[c].op, serial.counter),
                seq |-> IF calls[c].op = "append" THEN serial.seq + 1 ELSE serial.seq]
  /\ durable' = db.rows
  /\ UNCHANGED <<bootVars, db, storageFaults>>

\* Mutant: the error is passed on and the transaction left open.
RollbackForgotten(c) ==
  /\ calls[c].step \in {"first", "second", "commit"} /\ storageFaults < MaxStorageFaults
  /\ Ended(c, "rejected") /\ storageFaults' = storageFaults + 1
  /\ UNCHANGED <<bootVars, db, serial, durable>>

\* A statement or COMMIT fails: the catch rolls everything since BEGIN back.
Rollback(c) ==
  /\ calls[c].step \in {"first", "second", "commit"} /\ storageFaults < MaxStorageFaults
  /\ db' = saved /\ Ended(c, "rejected") /\ storageFaults' = storageFaults + 1
  /\ UNCHANGED <<bootVars, serial, durable>>

\* run() outside transaction(): create, updateStatus and the like.
RunPlain(w) ==
  /\ boot.step = "ready" /\ w \notin db.rows
  /\ db' = [db EXCEPT !.rows = @ \cup {w}]
  /\ durable' = IF holder = 0 THEN durable \cup {w} ELSE durable
  /\ UNCHANGED <<bootVars, saved, holder, queue, calls, storageFaults, serial>>

\* The process dies: SQLite forgets what was not committed.
StorageCrash ==
  /\ storageFaults < MaxStorageFaults /\ storageFaults' = storageFaults + 1
  /\ boot' = BootAt("down", 0) /\ queue' = <<>>
  /\ db' = IF holder = 0 THEN db ELSE saved
  /\ holder' = 0 /\ saved' = Closed
  /\ calls' = [c \in StorageCalls |-> IF calls[c].step \in {"new", "resolved", "rejected"} THEN calls[c]
                               ELSE [calls[c] EXCEPT !.step = "rejected"]]
  /\ UNCHANGED <<schema, journal, serial, durable>>

NothingCalled ==
  /\ db = Closed /\ saved = Closed /\ holder = 0 /\ queue = <<>>
  /\ calls = [c \in StorageCalls |-> [op |-> "none", step |-> "new", result |-> Absent]]
  /\ storageFaults = 0 /\ serial = [counter |-> Absent, seq |-> 0] /\ durable = {}

\* The first start on an empty database file.
StorageInit ==
  /\ schema = [m \in 1..Migrations |-> "none"] /\ journal = {} /\ boot = BootAt("down", 0)
  /\ NothingCalled

\* Migrated, and nobody has called yet.
StorageAtRest ==
  /\ schema = [m \in 1..Migrations |-> "full"] /\ journal = 1..Migrations
  /\ boot = BootAt("ready", 0) /\ NothingCalled

CallTurn(c) == BeginTransaction(c) \/ FirstStatement(c) \/ SecondStatement(c) \/ Commit(c)

StorageNext ==
  \/ RunPending \/ Up \/ MarkApplied \/ MigrationFails
  \/ \E c \in StorageCalls : CallTurn(c) \/ Rollback(c) \/ \E op \in StorageOps : Call(c, op)
  \/ \E w \in Plain : RunPlain(w)
  \/ StorageCrash

\* The database answers, and somebody starts the process.
StorageFairness ==
  /\ WF_storageVars(RunPending \/ Up \/ MarkApplied)
  /\ \A c \in StorageCalls : WF_storageVars(CallTurn(c))
-----------------------------------------------------------------------------
\* Every part of the storage has its type.
StorageTypeOK ==
  /\ schema \in [1..Migrations -> {"none", "partial", "full"}] /\ journal \subseteq 1..Migrations
  /\ holder # 0 => queue # <<>> /\ holder = Head(queue)
  /\ holder \in 0..MaxCalls /\ db.rows \subseteq Plain /\ durable \subseteq Plain
  /\ \A c \in StorageCalls : calls[c].op \in StorageOps \cup {"none"}

(* Whatever the process died in before, runPending returns only when every *)
(* migration's whole batch is in the database: a half-run one is run again *)
(* and none is skipped because the journal already has it.                 *)
ReadyIsMigrated == boot.step = "ready" => \A m \in 1..Migrations : schema[m] = "full"

(* Counters and message sequences are those of the committed calls alone,  *)
(* executed one after the other: no value is lost, repeated or left behind *)
(* by a call that was rolled back or by a crash.                           *)
CallsAreSerial ==
  holder = 0 => db.counter = serial.counter /\ db.seq = serial.seq

(* A write made while no transaction was open, or committed with one that  *)
(* was, is never rolled back with somebody else's transaction.             *)
DurableRowsStay == durable \subseteq db.rows

\* incrementWrapped hands out no more than Maximum; a new counter starts at 1 even so.
WrappedStaysInRange ==
  \A c \in StorageCalls : calls[c].step = "resolved" /\ calls[c].op = "incrementWrapped"
    => calls[c].result <= Maximum \/ calls[c].result = 1

(* Every transactional call ends, also behind calls that failed, and the   *)
(* storage becomes ready again after every crash.                          *)
StorageRecovers ==
  /\ \A c \in StorageCalls : []<>(calls[c].step \in {"new", "resolved", "rejected"})
  /\ <>[](boot.step = "ready")

(* SqliteStorage, runPending: calls take effect one after the other or not *)
(* at all, on a schema that is complete.                                   *)
StorageIsSerial ==
  /\ StorageTypeOK /\ ReadyIsMigrated /\ CallsAreSerial
  /\ DurableRowsStay /\ WrappedStaysInRange
=============================================================================
