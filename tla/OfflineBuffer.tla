---------------------------- MODULE OfflineBuffer ----------------------------
(***************************************************************************)
(* The store-and-forward buffer for telemetry: gateway/offline_buffer.cpp, *)
(* a SQLite table of messages with a ceiling on those not yet sent.        *)
(*                                                                         *)
(* Every statement commits on its own.  The database runs in WAL mode with *)
(* synchronous=NORMAL: a killed process loses no commit, a power loss      *)
(* those since the log last reached the disk, so it goes back to some      *)
(* earlier commit.  disk is the one it would go back to; it moves up to    *)
(* the present whenever SQLite syncs, at moments of its own choice.        *)
(*                                                                         *)
(* No component calls the buffer yet.  The caller modelled here keeps to   *)
(* the schema's "sent: ACK'd by broker": one thread that stores messages,  *)
(* drains rows, publishes them and marks what the broker acknowledged.     *)
(* Message n is the n-th one it stores.                                    *)
(***************************************************************************)
EXTENDS Naturals, FiniteSets

CONSTANTS
    MaxRows,      \* max_rows_
    Limit,        \* the argument of drain()
    Unreadable,   \* messages whose JSON from_json() refuses, as with a value NaN
    MaxStores,    \* bound on calls of store()
    MaxFailures   \* bound on evictions that are skipped because of an error

ASSUME ConstantsAssumption ==
    /\ MaxRows \in Nat \ {0}
    /\ Limit \in Nat
    /\ MaxStores \in Nat
    /\ MaxFailures \in Nat

VARIABLES
    open,       \* db_ is not null
    rows,       \* the table
    seq,        \* SQLite's record of the largest id ever used in the table
    disk,       \* rows and seq as a power loss would leave them
    pc,         \* where store() stands, "idle" outside of it
    msg,        \* the message store() works on
    batch,      \* rows the caller has drained and not yet dealt with
    delivered,  \* messages the broker has received
    stores,     \* calls of store() so far
    failures    \* history: evictions skipped

table == <<rows, seq>>
caller == <<batch, delivered>>
vars == <<open, table, disk, pc, msg, caller, stores, failures>>

Messages == 1..MaxStores
Row == [id : 1..MaxStores, msg : Messages, sent : BOOLEAN]

Pending == {r \in rows : ~r.sent}
Readable(r) == r.msg \notin Unreadable

\* Types, and drain() hands out no more rows than it was asked for.
TypeOK ==
    /\ open \in BOOLEAN
    /\ rows \in SUBSET Row
    /\ seq \in 0..MaxStores
    /\ disk \in [rows : SUBSET Row, seq : 0..MaxStores]
    /\ pc \in {"idle", "evict", "insert"}
    /\ msg \in 0..MaxStores
    /\ batch \in SUBSET [id : 1..MaxStores, msg : Messages]
    /\ Cardinality(batch) <= Limit
    /\ delivered \in SUBSET Messages
    /\ stores \in 0..MaxStores
    /\ failures \in 0..MaxFailures

Init ==
    /\ open = FALSE
    /\ rows = {}
    /\ seq = 0
    /\ disk = [rows |-> {}, seq |-> 0]
    /\ pc = "idle"
    /\ msg = 0
    /\ batch = {}
    /\ delivered = {}
    /\ stores = 0
    /\ failures = 0

-----------------------------------------------------------------------------
(* open() and close() *)

\* Without a database file nothing changes.  When only the schema cannot be created
\* db_ stays set although open() answers false, and the statements below fail.
Open ==
    /\ ~open
    /\ open' = TRUE
    /\ UNCHANGED <<table, disk, pc, msg, caller, stores, failures>>

Close ==
    /\ open
    /\ pc = "idle"
    /\ open' = FALSE
    /\ UNCHANGED <<table, disk, pc, msg, caller, stores, failures>>

-----------------------------------------------------------------------------
(* store() *)

Goto(from, to) == pc = from /\ pc' = to

FullOnceExceeded == Cardinality(Pending) > MaxRows      \* mutation

Full == Cardinality(Pending) >= MaxRows

SkipEviction == failures < MaxFailures /\ failures' = failures + 1

\* pending_count() answers 0 when its query fails.
Store ==
    /\ open
    /\ stores < MaxStores
    /\ stores' = stores + 1
    /\ msg' = stores + 1
    /\ \/ Full /\ Goto("idle", "evict") /\ UNCHANGED failures
       \/ ~Full /\ Goto("idle", "insert") /\ UNCHANGED failures
       \/ Full /\ Goto("idle", "insert") /\ SkipEviction
    /\ UNCHANGED <<open, table, disk, caller>>

NewestPending == {r \in Pending : \A q \in Pending : q.id <= r.id}      \* mutation

\* SELECT id ... WHERE sent=0 ORDER BY id ASC LIMIT 1
OldestPending == {r \in Pending : \A q \in Pending : r.id <= q.id}

\* Nobody looks at the result of the DELETE.
Evict ==
    /\ Goto("evict", "insert")
    /\ \/ rows' = rows \ OldestPending /\ UNCHANGED failures
       \/ UNCHANGED rows /\ SkipEviction
    /\ UNCHANGED <<open, seq, disk, msg, caller, stores>>

\* AUTOINCREMENT: an id that was never used in this table.
InsertRow ==
    /\ Goto("insert", "idle")
    /\ seq' = seq + 1
    /\ rows' = rows \cup {[id |-> seq + 1, msg |-> msg, sent |-> FALSE]}
    /\ UNCHANGED <<open, disk, msg, caller, stores, failures>>

\* store() answers false; what was evicted for the new row stays evicted.
InsertFails ==
    /\ Goto("insert", "idle")
    /\ UNCHANGED <<open, table, disk, msg, caller, stores, failures>>

-----------------------------------------------------------------------------
(* drain() and mark_sent() *)

FirstPendingOneMore(n) ==      \* mutation
    {r \in Pending : Cardinality({q \in Pending : q.id < r.id}) <= n}

FirstRows(n) ==      \* mutation
    {r \in rows : Cardinality({q \in rows : q.id < r.id}) < n}

\* WHERE sent = 0 ORDER BY id ASC LIMIT n
FirstPending(n) == {r \in Pending : Cardinality({q \in Pending : q.id < r.id}) < n}

DrainedUpToUnreadable(n) ==      \* mutation
    {r \in FirstPending(n) : \A q \in FirstPending(n) : q.id <= r.id => Readable(q)}

\* Rows that do not parse are left out of the result and stay in the table.
Drained(n) == {r \in FirstPending(n) : Readable(r)}

\* The query may end early, with an error.
Drain ==
    /\ open
    /\ pc = "idle"
    /\ \E n \in 0..Limit : batch' = {[id |-> r.id, msg |-> r.msg] : r \in Drained(n)}
    /\ UNCHANGED <<open, table, disk, pc, msg, delivered, stores, failures>>

\* The caller publishes a drained row, and the broker has it.
Publish(b) ==
    /\ pc = "idle"
    /\ b \in batch
    /\ delivered' = delivered \cup {b.msg}
    /\ UNCHANGED <<open, table, disk, pc, msg, batch, stores, failures>>

MarkedUpTo(id) ==      \* mutation
    {IF r.id <= id THEN [r EXCEPT !.sent = TRUE] ELSE r : r \in rows}

\* UPDATE telemetry SET sent=1 WHERE id=?
Marked(id) == {IF r.id = id THEN [r EXCEPT !.sent = TRUE] ELSE r : r \in rows}

\* mark_sent() of an acknowledged row: the UPDATE may fail, or find no row because
\* the row was evicted since.
MarkSent(b) ==
    /\ open
    /\ pc = "idle"
    /\ b \in batch
    /\ b.msg \in delivered
    /\ rows' \in {rows, Marked(b.id)}
    /\ batch' = batch \ {b}
    /\ UNCHANGED <<open, seq, disk, pc, msg, delivered, stores, failures>>

-----------------------------------------------------------------------------
(* SQLite, the process and the power *)

Sync ==
    /\ disk' = [rows |-> rows, seq |-> seq]
    /\ UNCHANGED <<open, table, pc, msg, caller, stores, failures>>

ProcessGone ==
    /\ open' = FALSE
    /\ pc' = "idle"
    /\ batch' = {}
    /\ UNCHANGED <<disk, msg, delivered, stores, failures>>

\* Also between the statements of store().
Crash == ProcessGone /\ UNCHANGED table

PowerLoss ==
    /\ ProcessGone
    /\ rows' = disk.rows
    /\ seq' = disk.seq

Next ==
    \/ Open \/ Close
    \/ Store \/ Evict \/ InsertRow \/ InsertFails
    \/ Drain
    \/ \E b \in batch : Publish(b) \/ MarkSent(b)
    \/ Sync \/ Crash \/ PowerLoss

Spec == Init /\ [][Next]_vars

-----------------------------------------------------------------------------
(* Safety *)

\* "oldest row evicted when full": of the rows ever inserted the newest
\* MaxRows - 1 are in the table, whatever failed and wherever the process
\* died.  (Not MaxRows: the insert may fail after the eviction.)
NewestKept ==
    \A id \in 1..seq : id + MaxRows > seq + 1 => \E r \in rows : r.id = id

\* The capacity ceiling is exceeded only by evictions that were skipped because
\* of an error.
CeilingHeld == Cardinality(Pending) <= MaxRows + failures

\* A row is marked "ACK'd by broker" only if the broker has its message, also when
\* rows were evicted, added and rolled back between the drain and the mark.
SentWereDelivered == \A r \in rows : r.sent => r.msg \in delivered

\* Rows that do not parse do not hold up the rows behind them, as long as there
\* are fewer of them than drain() looks at: the oldest readable one is handed out.
ReadableNotBlocked ==
    LET readable == {r \in Pending : Readable(r)} IN
    readable # {} /\ Cardinality(Pending \ readable) < Limit
       => \E r \in Drained(Limit) : \A q \in readable : r.id <= q.id

-----------------------------------------------------------------------------
(* Refinement *)

Entries(rs) == {[id |-> r.id, msg |-> r.msg] : r \in rs}

Abstract == INSTANCE ReplayStore WITH
    Numbers <- 1..MaxStores,
    Capacity <- MaxRows,
    pending <- Entries(Pending),
    saved <- Entries({r \in disk.rows : ~r.sent}),
    out <- batch

\* The table, its statements and its file keep what the buffer promises: a message
\* leaves the pending ones only when it was delivered and acknowledged itself, as
\* the oldest of a full table, or with a power loss, however calls, errors and
\* crashes follow each other; and none comes in over the ceiling, but for evictions that failed.
Implements == Abstract!Spec
=============================================================================
