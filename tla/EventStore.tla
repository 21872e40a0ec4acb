----------------------------- MODULE EventStore -----------------------------
(***************************************************************************)
(* The durable event store: EventLog (phase8_events.py) over SqliteBackend *)
(* or JsonlBackend (phase8_storage.py), shared by several processes, and   *)
(* the checkpoints PersistentStore (phase8_service.py) derives from it.    *)
(*                                                                         *)
(* A process's in-memory log is the sequence of ids in append order: its   *)
(* _seq is the length, the seq of an event its place, and the running      *)
(* watermark, a hash chain over the ids in that order, is the sequence     *)
(* itself (the hash is taken to be injective).  A stored row carries the   *)
(* seq and the watermark its writer had.                                   *)
(***************************************************************************)
EXTENDS EventLog

CONSTANTS
  Proc,             \* processes that open the same database
  Deployments,      \* how the store may be deployed, one per behaviour
  KeepCheckpoints   \* compact(keep_checkpoints)

VARIABLES
  deploy,   \* the deployment this behaviour runs in
  up,       \* up[p]: p runs
  log,      \* log[p]: p's in-memory EventLog, ids in append order
  rows,     \* the backend's event rows, in insertion order
  cps,      \* the backend's checkpoint rows
  work,     \* work[p]: the checkpoint p is deriving
  acked     \* events some append call has returned for without raising

vars == <<deploy, up, log, rows, cps, work, acked>>

\* exclusive: one process at a time; failing: an INSERT may raise (a lock
\* timeout, a full disk); shared: several threads use one PersistentStore;
\* checkpoints: bound on the checkpoints held at once.
Deployment == [backend : {"sqlite", "jsonl"}, exclusive : BOOLEAN,
               failing : BOOLEAN, shared : BOOLEAN, checkpoints : Nat]

Row == [ev : Event, seq : Nat, wm : Seq(Event)]
Checkpoint == [asOf : AsOf, wm : Seq(Event), seen : SUBSET Event,
               created : Nat]
Idle == [phase |-> "idle"]
Work == {Idle}
        \cup [phase : {"replayed"}, asOf : AsOf, seen : SUBSET Event]
        \cup [phase : {"sealed"}, asOf : AsOf, seen : SUBSET Event,
              wm : Seq(Event)]

ASSUME StoreAssumption ==
  /\ Deployments \subseteq Deployment
  /\ KeepCheckpoints \in Nat \ {0}

-----------------------------------------------------------------------------
RowEvents(r) == {r[i].ev : i \in 1..Len(r)}

\* The rows _load takes an event from; a later row of the same id is skipped.
First(r) == {i \in 1..Len(r) : \A j \in 1..Len(r) : r[j].ev = r[i].ev => i <= j}

\* Load order: ORDER BY seq ASC, rows of equal seq in insertion order; or the
\* order of the lines.
NotAfter(r, i, j) ==
  IF deploy.backend = "sqlite"
  THEN r[i].seq < r[j].seq \/ (r[i].seq = r[j].seq /\ i <= j)
  ELSE i <= j

\* The place of row i among those that load.
Place(r, i) == Cardinality({j \in First(r) : NotAfter(r, j, i)})

\* A mutant of Loads: events are keyed by their row's seq, so of rows that
\* share one only the first is loaded.
LoadsBySeq(r) ==
  LET fst == {i \in First(r) : \A j \in First(r) : r[j].seq = r[i].seq => i <= j}
  IN  {s \in [1..Cardinality(fst) -> Event] :
         \A i \in fst :
           s[Cardinality({j \in fst : NotAfter(r, j, i)})] = r[i].ev}

\* load_events and EventLog._load: the logs that hold each loaded row's event
\* at that row's place (there is exactly one); seqs are assigned afresh.
Loads(r) ==
  {s \in [1..Cardinality(First(r)) -> Event] :
     \A i \in First(r) : s[Place(r, i)] = r[i].ev}

\* Mutants of Insert: a plain INSERT, and a table keyed by the writer's seq.
InsertAlways(r, row) == Append(r, row)
InsertBySeq(r, row) ==
  IF \E i \in 1..Len(r) : r[i].seq = row.seq THEN r ELSE Append(r, row)

\* append_event: INSERT OR IGNORE on the event id, or one more line.  The _seen
\* set of a JsonlBackend never holds an event its own process's log does not.
Insert(r, row) ==
  IF deploy.backend = "sqlite" /\ row.ev \in RowEvents(r)
  THEN r
  ELSE Append(r, row)

-----------------------------------------------------------------------------
Init ==
  /\ deploy \in Deployments
  /\ up = [p \in Proc |-> FALSE]
  /\ log = [p \in Proc |-> <<>>]
  /\ rows = <<>>
  /\ cps = {}
  /\ work = [p \in Proc |-> Idle]
  /\ acked = {}

\* A mutant of Start: the log opens empty, without _load.
StartEmpty(p) ==
  /\ ~up[p]
  /\ deploy.exclusive => \A q \in Proc : ~up[q]
  /\ up' = [up EXCEPT ![p] = TRUE]
  /\ log' = [log EXCEPT ![p] = <<>>]
  /\ UNCHANGED <<deploy, rows, cps, work, acked>>

\* A process opens the database: EventLog.__post_init__ loads what is stored.
Start(p) ==
  /\ ~up[p]
  /\ deploy.exclusive => \A q \in Proc : ~up[q]
  /\ up' = [up EXCEPT ![p] = TRUE]
  /\ \E s \in Loads(rows) : log' = [log EXCEPT ![p] = s]
  /\ UNCHANGED <<deploy, rows, cps, work, acked>>

\* A mutant of Stop: a checkpoint outlives the process that derived it.
StopKeepsWork(p) ==
  /\ up[p]
  /\ up' = [up EXCEPT ![p] = FALSE]
  /\ log' = [log EXCEPT ![p] = <<>>]
  /\ UNCHANGED <<deploy, rows, cps, work, acked>>

\* A process ends, by a crash or otherwise: only the backend is left.
Stop(p) ==
  /\ up[p]
  /\ up' = [up EXCEPT ![p] = FALSE]
  /\ log' = [log EXCEPT ![p] = <<>>]
  /\ work' = [work EXCEPT ![p] = Idle]
  /\ UNCHANGED <<deploy, rows, cps, acked>>

\* A mutant of CanAppend: revisions of events the log does not hold pass.
CanAppendUnknown(p, e) ==
  /\ up[p]
  /\ e \notin Ids(log[p])
  /\ work[p].phase = "replayed" => deploy.shared

\* An observation may be ingested at any time; correct, retract and
\* relink_identity raise HistoryError unless their original is in the log.
\* Between the two halves of a checkpoint only another thread can append.
CanAppend(p, e) ==
  /\ up[p]
  /\ e \notin Ids(log[p])
  /\ Revises[e] # NoEvent => Revises[e] \in Ids(log[p])
  /\ work[p].phase = "replayed" => deploy.shared

\* Mutants of NewRow: the watermark is passed before it is advanced; the seq
\* is passed before it is incremented.
RowStaleMark(p, e) == [ev |-> e, seq |-> Len(log[p]) + 1, wm |-> log[p]]
RowStaleSeq(p, e) == [ev |-> e, seq |-> Len(log[p]), wm |-> Append(log[p], e)]

\* The row append passes to the backend, after the memory took the event.
NewRow(p, e) == [ev |-> e, seq |-> Len(log[p]) + 1, wm |-> Append(log[p], e)]

\* EventLog.append of a new event: the memory first, the backend second.
AppendNew(p, e) ==
  /\ CanAppend(p, e)
  /\ log' = [log EXCEPT ![p] = Append(@, e)]
  /\ rows' = Insert(rows, NewRow(p, e))
  /\ acked' = acked \cup {e}
  /\ UNCHANGED <<deploy, up, cps, work>>

\* The same when the backend raises: the memory keeps the event.
AppendFails(p, e) ==
  /\ deploy.failing
  /\ CanAppend(p, e)
  /\ log' = [log EXCEPT ![p] = Append(@, e)]
  /\ UNCHANGED <<deploy, up, rows, cps, work, acked>>

\* append of an event the log already holds returns it, is_new false.
AppendAgain(p, e) ==
  /\ up[p]
  /\ e \in Ids(log[p])
  /\ e \notin acked
  /\ acked' = acked \cup {e}
  /\ UNCHANGED <<deploy, up, log, rows, cps, work>>

-----------------------------------------------------------------------------
\* A mutant of Replay: the as_of boundary is off by one.
ReplayLate(p, t) ==
  /\ up[p]
  /\ work[p].phase = "idle"
  /\ Cardinality(cps) < deploy.checkpoints
  /\ work' = [work EXCEPT ![p] = [phase |-> "replayed", asOf |-> t,
                                  seen |-> KnownAsOf(Ids(log[p]), t + 1)]]
  /\ UNCHANGED <<deploy, up, log, rows, cps, acked>>

\* PersistentStore.checkpoint, first half: replay the as-of view.  A posterior
\* is a function of the replayed stream: its events, in the log's order.
Replay(p, t) ==
  /\ up[p]
  /\ work[p].phase = "idle"
  /\ Cardinality(cps) < deploy.checkpoints
  /\ work' = [work EXCEPT ![p] = [phase |-> "replayed", asOf |-> t,
                                  seen |-> KnownAsOf(Ids(log[p]), t)]]
  /\ UNCHANGED <<deploy, up, log, rows, cps, acked>>

\* checkpoint, second half: read the log's watermark, now, and seal.
Seal(p) ==
  /\ up[p]
  /\ work[p].phase = "replayed"
  /\ work' = [work EXCEPT ![p] = [phase |-> "sealed", asOf |-> work[p].asOf,
                                  seen |-> work[p].seen, wm |-> log[p]]]
  /\ UNCHANGED <<deploy, up, log, rows, cps, acked>>

\* commit_checkpoint: one row in one transaction.  Checkpoints of one as_of,
\* watermark and posterior have one integrity hash: sqlite replaces the older.
\* created_seq is the log's _seq at commit time.
Commit(p) ==
  /\ up[p]
  /\ work[p].phase = "sealed"
  /\ LET Sealed(n) == [asOf |-> work[p].asOf, wm |-> work[p].wm,
                       seen |-> work[p].seen, created |-> n]
         old == IF deploy.backend = "sqlite"
                THEN {c \in cps : c = Sealed(c.created)} ELSE {}
     IN  cps' = (cps \ old) \cup {Sealed(Len(log[p]))}
  /\ work' = [work EXCEPT ![p] = Idle]
  /\ UNCHANGED <<deploy, up, log, rows, acked>>

\* compact of the sqlite backend: the newest KeepCheckpoints by created_seq
\* stay, any of those that tie.
Compact(p) ==
  /\ up[p]
  /\ deploy.backend = "sqlite"
  /\ Cardinality(cps) > KeepCheckpoints
  /\ \E keep \in SUBSET cps :
       /\ Cardinality(keep) = KeepCheckpoints
       /\ \A c \in keep, d \in cps \ keep : c.created >= d.created
       /\ cps' = keep
  /\ UNCHANGED <<deploy, up, log, rows, work, acked>>

Next ==
  \E p \in Proc :
    \/ Start(p)
    \/ Stop(p)
    \/ \E e \in Event : AppendNew(p, e)
    \/ \E e \in Event : AppendFails(p, e)
    \/ \E e \in Event : AppendAgain(p, e)
    \/ \E t \in AsOf : Replay(p, t)
    \/ Seal(p)
    \/ Commit(p)
    \/ Compact(p)

Spec == Init /\ [][Next]_vars

-----------------------------------------------------------------------------
\* Every variable keeps its type, and a process that is down holds nothing.
TypeOK ==
  /\ deploy \in Deployments
  /\ up \in [Proc -> BOOLEAN]
  /\ log \in [Proc -> Seq(Event)]
  /\ rows \in Seq(Row)
  /\ cps \subseteq Checkpoint
  /\ work \in [Proc -> Work]
  /\ acked \subseteq Event
  /\ \A p \in Proc : ~up[p] => log[p] = <<>> /\ work[p] = Idle

\* The deployment the single-writer claims are about.
Orderly == deploy.exclusive /\ ~deploy.failing

\* Whatever the retries, restarts and concurrent writers, no log and no sqlite
\* database holds an event twice (phase8_events.py:9: a retry after a crash
\* cannot double-apply).
NoDoubleApply ==
  /\ \A p \in Proc : \A i, j \in 1..Len(log[p]) :
       log[p][i] = log[p][j] => i = j
  /\ deploy.backend = "sqlite" =>
       \A i, j \in 1..Len(rows) : rows[i].ev = rows[j].ev => i = j

\* An append that returned without raising is in the database for good, unless
\* the backend can fail between the memory write and the row.
AckedIsDurable == ~deploy.failing => acked \subseteq RowEvents(rows)

\* A stored revision has its original stored, whoever wrote which, so a later
\* process never loads a correction of an event nobody knows.
RevisedIsDurable ==
  ~deploy.failing =>
    \A e \in RowEvents(rows) :
      Revises[e] # NoEvent => Revises[e] \in RowEvents(rows)

\* With one process at a time, a running process's memory is, event by event
\* and seq by seq, what a restart would rebuild from the rows.
MemoryIsDisk ==
  Orderly =>
    \A p \in Proc : up[p] =>
      /\ Len(log[p]) = Len(rows)
      /\ \A i \in 1..Len(rows) : rows[i].ev = log[p][i] /\ rows[i].seq = i

\* SqliteBackend.verify_integrity, first half: the chain recomputed in seq
\* order meets the watermark of every row.
ChainOK ==
  \A i \in 1..Len(rows) :
    /\ Len(rows[i].wm) = Place(rows, i)
    /\ \A j \in 1..Len(rows) :
         NotAfter(rows, j, i) => rows[i].wm[Place(rows, j)] = rows[j].ev

\* Second half: the newest checkpoint's watermark is empty or some row's.
CheckpointOK ==
  \A c \in cps :
    (\A d \in cps : d.created <= c.created) =>
      c.wm = <<>> \/ \E i \in 1..Len(rows) : rows[i].wm = c.wm

\* With one process at a time and no failed insert, the production backend's
\* integrity check passes at every moment, across every crash and restart.
OrderlyVerifies ==
  Orderly /\ deploy.backend = "sqlite" => ChainOK /\ CheckpointOK

\* With one process at a time a committed checkpoint's watermark is that of a
\* prefix of the stored history: it never certifies what no restart can replay.
CheckpointIsHistory ==
  Orderly =>
    \A c \in cps :
      /\ Len(c.wm) <= Len(rows)
      /\ \A k \in 1..Len(c.wm) : c.wm[k] = rows[k].ev

\* A checkpoint's posteriors are those its watermark and as_of replay to
\* (phase8_service.py:16: identical log, as_of and seed give identical
\* posteriors), unless threads share the store.
CheckpointIsReplay ==
  ~deploy.shared => \A c \in cps : c.seen = KnownAsOf(Ids(c.wm), c.asOf)

\* A process that starts knows every stored event, whatever seqs the rows that
\* concurrent writers left carry.
StartKnowsAll ==
  [][\A p \in Proc : ~up[p] /\ up'[p] => Ids(log'[p]) = RowEvents(rows)]_vars

-----------------------------------------------------------------------------
\* What the documentation says and the code does not do.

\* phase8_storage.py:10 claims multi-process writers and integrity verification
\* of one database: two processes appending to it keep it verifiable.
ConcurrentVerifies ==
  deploy.backend = "sqlite" /\ ~deploy.failing => ChainOK /\ CheckpointOK

\* phase8_storage.py:35 calls an append retry-safe: when it returns the event
\* is in the database, also after an attempt the backend failed.
RetryIsDurable == acked \subseteq RowEvents(rows)

\* phase8_events.py:249: events whose chain of revisions ends in a retraction
\* are not effective.
RetractedStaysOut == \A p \in Proc : NoRetractedLineage(Ids(log[p]))

\* phase8_events.py:17: the filtering view shows only what was knowable then,
\* so what became known later does not change it.
AsOfIsKnowable ==
  \A p \in Proc, t \in AsOf : OnlyKnowable(Ids(log[p]), t)
=============================================================================
