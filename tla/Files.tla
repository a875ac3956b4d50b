------------------------------- MODULE Files -------------------------------
(***************************************************************************)
(* Stored files: the rows of `stored_files` in Postgres and their bytes on *)
(* the volume, services/file_service.py.  Sessions put, supersede, delete  *)
(* and mark files inside transactions with savepoints; the bytes follow    *)
(* the transaction through the pending entries of session.info.  A thread  *)
(* writes the bytes; the files.gc Job (session gc) collects superseded     *)
(* files and entries without a row.                                        *)
(*                                                                         *)
(* One Campaign.  A file's id and its storage key are one, made by its put *)
(* and used once.  Statements see committed rows and their own session's   *)
(* work (READ COMMITTED), and wait for the rows another session changed.   *)
(***************************************************************************)
EXTENDS Naturals, FiniteSets

CONSTANTS
    File, Session,
    gc,         \* the session of the files.gc Job
    Key,        \* the cache_key (with kind and owner) of each file, or NoKey
    NoKey, None,
    MaxTxn,     \* bound on the transactions one root transaction opens
    Faults, MaxFaults

ASSUME FilesAssumption ==
    /\ gc \notin Session
    /\ None \notin File
    /\ MaxTxn \in Nat \ {0} /\ MaxFaults \in Nat

VARIABLES
    row,       \* the committed row of each file
    disk,      \* its bytes: none, under a temporary name, or in place
    old,       \* files whose bytes are older than GC_GRACE
    threads,   \* files whose thread is writing
    \* each session
    pc, cur,
    open,      \* its open transactions, numbered in order; 1 is the root
    txns,      \* how many the root transaction has opened
    work,      \* its uncommitted changes of rows
    pend,      \* the entries of _PUT_KEY and _DELETE_KEY
    \* history
    used,      \* files that a put has named
    doubt,     \* files whose commit was reported as failed and was not
    stored,    \* cache keys for which a file has committed
    dropped,   \* cache keys of which a user deleted a file
    faults

volume   == <<disk, old, threads>>
session  == <<pc, cur, open, txns, work, pend>>
history  == <<used, doubt, stored, dropped>>
vars     == <<row, volume, session, history, faults>>

AnySession == Session \cup {gc}
Txn        == 1..MaxTxn

\* A change or an entry carries the transactions that were open around it:
\* undoing any of them undoes it.
Change == [file : File, op : {"insert", "stale", "delete"}, path : SUBSET Txn]
Entry  == [file : File, op : {"put", "delete"}, path : SUBSET Txn]

TypeOK ==
    /\ row \in [File -> {"none", "fresh", "stale"}]
    /\ disk \in [File -> {"none", "tmp", "there"}]
    /\ {f \in File : disk[f] # "none"} \subseteq used
    /\ old \subseteq used /\ threads \subseteq used /\ used \subseteq File
    /\ pc \in [AnySession -> {"idle", "run", "write", "failed", "unlink", "orphan"}]
    /\ cur \in [AnySession -> File \cup {None}]
    /\ \A s \in AnySession : cur[s] # None <=> pc[s] \in {"write", "orphan"}
    /\ open \in [AnySession -> SUBSET Txn]
    /\ \A s \in AnySession : pc[s] = "idle" <=> open[s] = {}
    /\ txns \in [AnySession -> 0..MaxTxn]
    /\ work \in [AnySession -> SUBSET Change]
    /\ pend \in [AnySession -> SUBSET Entry]
    /\ \A s \in AnySession : pc[s] \in {"idle", "unlink"} => work[s] = {}
    /\ \A s \in AnySession : pc[s] = "idle" => pend[s] = {}
    /\ \A s \in AnySession : pc[s] = "unlink" => open[s] = {1}
    /\ doubt \subseteq File
    /\ faults \in 0..MaxFaults

Init ==
    /\ row = [f \in File |-> "none"] /\ disk = [f \in File |-> "none"]
    /\ old = {} /\ threads = {} /\ used = {} /\ doubt = {} /\ stored = {} /\ dropped = {}
    /\ pc = [s \in AnySession |-> "idle"] /\ cur = [s \in AnySession |-> None]
    /\ open = [s \in AnySession |-> {}] /\ txns = [s \in AnySession |-> 0]
    /\ work = [s \in AnySession |-> {}] /\ pend = [s \in AnySession |-> {}]
    /\ faults = 0

Disturb(kind) ==
    /\ kind \in Faults
    /\ faults < MaxFaults
    /\ faults' = faults + 1

-----------------------------------------------------------------------------
(* Transactions                                                            *)

\* The innermost open transaction.
Top(s) == CHOOSE t \in open[s] : \A u \in open[s] : u <= t

\* t is the transaction of the entry, or one around it.
Within(path, t) == t \in path

\* The changes of s to f.
Made(s, f) == {w.op : w \in {v \in work[s] : v.file = f}}

\* The row of f as s reads it, and as its commit leaves it.
Seen(s, f) ==
    IF "delete" \in Made(s, f) \/ (row[f] = "none" /\ "insert" \notin Made(s, f)) THEN "none"
    ELSE IF "stale" \in Made(s, f) THEN "stale"
    ELSE IF "insert" \in Made(s, f) THEN "fresh" ELSE row[f]

\* Another session holds the lock of f's row.
Locked(s, f) == \E t \in AnySession \ {s} : Made(t, f) \cap {"stale", "delete"} # {}

\* What s does to the rows of files now.
Changes(s, files, op) == [file : files, op : {op}, path : {open[s]}]

\* mutant: an entry belongs to the root transaction
RootOnly(s) == {1}

\* An entry belongs to the innermost transaction, and to those around it.
Innermost(s) == open[s]

Recorded(s, f, op) == [file |-> f, op |-> op, path |-> Innermost(s)]

\* The bytes of a set of files are removed.
Without(files) == [f \in File |-> IF f \in files THEN "none" ELSE disk[f]]

FilesOf(entries, op) == {p.file : p \in {q \in entries : q.op = op}}

Begin(s) ==
    /\ pc[s] = "idle"
    /\ pc' = [pc EXCEPT ![s] = "run"]
    /\ open' = [open EXCEPT ![s] = {1}]
    /\ txns' = [txns EXCEPT ![s] = 1]
    /\ UNCHANGED <<row, volume, cur, work, pend, history, faults>>

Savepoint(s) ==
    /\ pc[s] = "run"
    /\ txns[s] < MaxTxn
    /\ open' = [open EXCEPT ![s] = @ \cup {txns[s] + 1}]
    /\ txns' = [txns EXCEPT ![s] = @ + 1]
    /\ UNCHANGED <<row, volume, pc, cur, work, pend, history, faults>>

\* mutant: a savepoint release is taken for the commit
DurableAlways(s) == TRUE

\* The commit of s is durable: it is not the release of a savepoint.
Durable(s) == open[s] = {1}

\* The after_commit handler.
FilesCommitted(s) ==
    IF Durable(s)
    THEN /\ disk' = Without(FilesOf(pend[s], "delete"))
         /\ pend' = [pend EXCEPT ![s] = {}]
    ELSE UNCHANGED <<disk, pend>>

Release(s) ==
    /\ pc[s] = "run"
    /\ Cardinality(open[s]) > 1
    /\ FilesCommitted(s)
    /\ open' = [open EXCEPT ![s] = @ \ {Top(s)}]
    /\ UNCHANGED <<row, old, threads, pc, cur, txns, work, history, faults>>

\* A savepoint rolls back: its changes, and the entries recorded within it.
RollbackSavepoint(s) ==
    /\ pc[s] \in {"run", "failed"}
    /\ Cardinality(open[s]) > 1
    /\ LET gone == {p \in pend[s] : Within(p.path, Top(s))} IN
       /\ pend' = [pend EXCEPT ![s] = @ \ gone]
       /\ disk' = Without(FilesOf(gone, "put"))
    /\ work' = [work EXCEPT ![s] = {w \in @ : Top(s) \notin w.path}]
    /\ open' = [open EXCEPT ![s] = @ \ {Top(s)}]
    /\ pc' = [pc EXCEPT ![s] = "run"]
    /\ UNCHANGED <<row, old, threads, cur, txns, history, faults>>

\* The session has no transaction and no pending entry any more.
Ends(s) ==
    /\ pc' = [pc EXCEPT ![s] = "idle"]
    /\ cur' = [cur EXCEPT ![s] = None]
    /\ open' = [open EXCEPT ![s] = {}]
    /\ txns' = [txns EXCEPT ![s] = 0]
    /\ work' = [work EXCEPT ![s] = {}]
    /\ pend' = [pend EXCEPT ![s] = {}]

\* The root rolls back, or the session is closed without a commit.
Rollback(s) ==
    /\ pc[s] \in {"run", "failed"}
    /\ disk' = Without(FilesOf(pend[s], "put"))
    /\ Ends(s)
    /\ UNCHANGED <<row, old, threads, history, faults>>

\* The database executes COMMIT; the handler of the session is still to run.
Committed(s) ==
    /\ row' = [f \in File |-> Seen(s, f)]
    /\ work' = [work EXCEPT ![s] = {}]
    /\ stored' = stored \cup {Key[f] : f \in {g \in File : Seen(s, g) # "none" /\ row[g] = "none"}}
    /\ dropped' = IF s = gc THEN dropped
                  ELSE dropped \cup {Key[f] : f \in {g \in File : "delete" \in Made(s, g)}}

Commit(s) ==
    /\ pc[s] = "run"
    /\ open[s] = {1}
    /\ Committed(s)
    /\ pc' = [pc EXCEPT ![s] = "unlink"]
    /\ UNCHANGED <<volume, cur, open, txns, pend, used, doubt, faults>>

AfterCommit(s) ==
    /\ pc[s] = "unlink"
    /\ FilesCommitted(s)
    /\ pc' = [pc EXCEPT ![s] = "idle"]
    /\ open' = [open EXCEPT ![s] = {}]
    /\ txns' = [txns EXCEPT ![s] = 0]
    /\ UNCHANGED <<row, old, threads, cur, work, history, faults>>

\* The connection is lost after the database has committed: the session
\* reports an error and will roll back.
CommitInDoubt(s) ==
    /\ pc[s] = "run"
    /\ open[s] = {1}
    /\ Disturb("doubt")
    /\ Committed(s)
    /\ doubt' = doubt \cup FilesOf(pend[s], "put")
    /\ pc' = [pc EXCEPT ![s] = "failed"]
    /\ UNCHANGED <<volume, cur, open, txns, pend, used>>

\* A statement of s fails: the database undoes the innermost transaction at
\* once; the entries stay until the session rolls it back.
Fails(s) ==
    /\ work' = [work EXCEPT ![s] = {w \in @ : Top(s) \notin w.path}]
    /\ pc' = [pc EXCEPT ![s] = "failed"]

StatementFails(s) ==
    /\ pc[s] = "run"
    /\ Fails(s)
    /\ UNCHANGED <<row, volume, cur, open, txns, pend, history, faults>>

-----------------------------------------------------------------------------
(* put, delete and the stale marker                                        *)

\* put names a file and a thread begins to write it.
StartPut(s, f) ==
    /\ pc[s] = "run"
    /\ f \notin used
    /\ used' = used \cup {f}
    /\ threads' = threads \cup {f}
    /\ disk' = [disk EXCEPT ![f] = "tmp"]
    /\ pc' = [pc EXCEPT ![s] = "write"]
    /\ cur' = [cur EXCEPT ![s] = f]
    /\ UNCHANGED <<row, old, open, txns, work, pend, doubt, stored, dropped, faults>>

\* The thread has written all and renames.
Rename(f) ==
    /\ f \in threads
    /\ threads' = threads \ {f}
    /\ disk' = [disk EXCEPT ![f] = "there"]
    /\ UNCHANGED <<row, old, session, history, faults>>

\* s's call of put has ended: its outcome is in pc.
PutEnds(s, outcome) ==
    /\ pc' = [pc EXCEPT ![s] = outcome]
    /\ cur' = [cur EXCEPT ![s] = None]

\* The write fails: the thread removes what it wrote and put raises.
WriteFails(s) ==
    /\ pc[s] = "write"
    /\ cur[s] \in threads
    /\ Disturb("disk")
    /\ threads' = threads \ {cur[s]}
    /\ disk' = Without({cur[s]})
    /\ PutEnds(s, "run")
    /\ UNCHANGED <<row, old, open, txns, work, pend, history>>

\* The caller is cancelled while the thread writes: the thread goes on.
Cancel(s) ==
    /\ pc[s] = "write"
    /\ cur[s] \in threads
    /\ Disturb("cancel")
    /\ PutEnds(s, "failed")
    /\ UNCHANGED <<row, volume, open, txns, work, pend, history>>

\* The fresh files of f's cache key, which f supersedes.
Holders(s, f) == {g \in File : Key[f] # NoKey /\ Key[g] = Key[f] /\ Seen(s, g) = "fresh"}

\* The UPDATE waits for the holders' rows, the INSERT for an uncommitted row
\* of the same key.
PutWaits(s, f) ==
    \/ \E g \in Holders(s, f) : Locked(s, g)
    \/ /\ Key[f] # NoKey
       /\ \E t \in AnySession \ {s} : \E g \in File : Key[g] = Key[f] /\ "insert" \in Made(t, g)

\* The fresh holder goes stale and the new row is inserted; the bytes are
\* recorded under the transaction that is open now.
Insert(s) ==
    /\ pc[s] = "write"
    /\ cur[s] \notin threads
    /\ ~PutWaits(s, cur[s])
    /\ work' = [work EXCEPT ![s] = @ \cup Changes(s, {cur[s]}, "insert")
                                     \cup Changes(s, Holders(s, cur[s]), "stale")]
    /\ pend' = [pend EXCEPT ![s] = @ \cup {Recorded(s, cur[s], "put")}]
    /\ PutEnds(s, "run")
    /\ UNCHANGED <<row, volume, open, txns, history, faults>>

\* The unique index, a deadlock, a cancellation or an error ends the insert:
\* the bytes are removed and put raises.
InsertFails(s) ==
    /\ pc[s] = "write"
    /\ cur[s] \notin threads
    /\ disk' = Without({cur[s]})
    /\ work' = [work EXCEPT ![s] = {w \in @ : Top(s) \notin w.path}]
    /\ PutEnds(s, "failed")
    /\ UNCHANGED <<row, old, threads, open, txns, pend, history, faults>>

\* delete: the row goes with the transaction, the bytes after the commit.
RemoveRow(s, f) ==
    /\ pc[s] = "run"
    /\ Seen(s, f) # "none"
    /\ ~Locked(s, f)
    /\ work' = [work EXCEPT ![s] = @ \cup Changes(s, {f}, "delete")]
    /\ pend' = [pend EXCEPT ![s] = @ \cup {Recorded(s, f, "delete")}]
    /\ UNCHANGED <<row, volume, pc, cur, open, txns, history, faults>>

Delete(s, f) == RemoveRow(s, f)

MarkStale(s, f) ==
    /\ pc[s] = "run"
    /\ Seen(s, f) = "fresh"
    /\ ~Locked(s, f)
    /\ work' = [work EXCEPT ![s] = @ \cup Changes(s, {f}, "stale")]
    /\ UNCHANGED <<row, volume, pc, cur, open, txns, pend, history, faults>>

-----------------------------------------------------------------------------
(* The collection                                                          *)

\* mutant: whatever is stale
AnyStale(f) == Seen(gc, f) = "stale" /\ Key[f] # NoKey

\* A stale file whose cache key a fresh file holds.
Superseded(f) ==
    /\ Seen(gc, f) = "stale"
    /\ Key[f] # NoKey
    /\ \E g \in File : Key[g] = Key[f] /\ Seen(gc, g) = "fresh"

GcDelete(f) == Superseded(f) /\ RemoveRow(gc, f)

\* mutant: temporary names are passed over
InPlaceOnly(f) == disk[f] = "there" /\ Seen(gc, f) = "none" /\ f \in old

\* An entry without a row that is older than the grace period.
Orphan(f) == disk[f] # "none" /\ Seen(gc, f) = "none" /\ f \in old

\* gc_one looks an orphan up.  A step's orphans come before its deletions.
GcCheck(f) ==
    /\ pc[gc] = "run"
    /\ work[gc] = {}
    /\ Orphan(f)
    /\ pc' = [pc EXCEPT ![gc] = "orphan"]
    /\ cur' = [cur EXCEPT ![gc] = f]
    /\ UNCHANGED <<row, volume, open, txns, work, pend, history, faults>>

\* A thread unlinks it, without waiting for the commit of the step.
GcUnlink ==
    /\ pc[gc] = "orphan"
    /\ disk' = Without({cur[gc]})
    /\ PutEnds(gc, "run")
    /\ UNCHANGED <<row, old, threads, open, txns, work, pend, history, faults>>

-----------------------------------------------------------------------------
(* The environment                                                         *)

\* Files a session has named in a transaction that is still open.
Holding(s) == {f \in File : cur[s] = f \/ "insert" \in Made(s, f)}

\* 24 hours pass for the bytes of f.  No transaction and no write is open for
\* that long: Jobs and requests have timeouts far below GC_GRACE.
Age(f) ==
    /\ disk[f] # "none"
    /\ f \notin old \cup threads
    /\ \A s \in Session : f \notin Holding(s)
    /\ old' = old \cup {f}
    /\ UNCHANGED <<row, disk, threads, session, history, faults>>

\* The process of s dies, with the thread it waits for and perhaps with
\* threads nobody waits for.
Crash(s) ==
    /\ pc[s] # "idle"
    /\ Disturb("crash")
    /\ \E dead \in SUBSET {f \in threads : \A t \in AnySession \ {s} : cur[t] # f} :
         /\ cur[s] \in threads => cur[s] \in dead
         /\ threads' = threads \ dead
    /\ Ends(s)
    /\ UNCHANGED <<row, disk, old, history>>

SessionStep(s) ==
    \/ Begin(s) \/ Rollback(s) \/ Commit(s) \/ AfterCommit(s) \/ CommitInDoubt(s)
    \/ StatementFails(s) \/ Crash(s)

UserStep(s) ==
    \/ Savepoint(s) \/ Release(s) \/ RollbackSavepoint(s)
    \/ WriteFails(s) \/ Cancel(s) \/ Insert(s) \/ InsertFails(s)
    \/ \E f \in File : StartPut(s, f) \/ Delete(s, f) \/ MarkStale(s, f)

Next ==
    \/ \E s \in AnySession : SessionStep(s)
    \/ \E s \in Session : UserStep(s)
    \/ \E f \in File : Rename(f) \/ GcDelete(f) \/ GcCheck(f) \/ Age(f)
    \/ GcUnlink

Spec == Init /\ [][Next]_vars

\* Threads end, time passes, the daily Job runs and its walk comes to every
\* candidate.  Callers of the service owe nothing.
FairSpec ==
    /\ Spec
    /\ \A f \in File : WF_vars(Rename(f)) /\ WF_vars(Age(f)) /\ SF_vars(GcCheck(f))
    /\ WF_vars(GcUnlink)
    /\ WF_vars(Begin(gc)) /\ WF_vars(Rollback(gc) /\ pc[gc] = "failed")
    /\ WF_vars(Commit(gc)) /\ WF_vars(AfterCommit(gc))

-----------------------------------------------------------------------------
(* Properties                                                              *)

\* A committed row has its bytes, in place and complete, whatever is rolled
\* back, released, superseded, collected or killed; only a commit that was
\* reported as failed leaves a row without them, which open answers with 404.
BytesForRows == \A f \in File : row[f] # "none" => disk[f] = "there" \/ f \in doubt

\* As long as no process is killed or cancelled, no session at rest leaves
\* bytes without a row: each undoing of a put, at any depth, removes them.
NoLitter ==
    (faults = 0 /\ \A s \in AnySession : pc[s] = "idle") =>
        \A f \in File : disk[f] # "none" => row[f] # "none"

\* The collection never takes the last file of a cache key: once a file of a
\* key has committed, one is there until a user deletes one.
KeysKept ==
    \A k \in stored \ (dropped \cup {NoKey}) : \E f \in File : Key[f] = k /\ row[f] # "none"

\* Bytes that no row and no open transaction holds.
Litter(f) ==
    /\ disk[f] # "none" /\ row[f] = "none"
    /\ \A s \in Session : f \notin Holding(s)

\* Litter, which only a kill, a cancellation or a lost commit leaves, is
\* collected in the end, temporary names included.
LitterCollected == \A f \in File : Litter(f) ~> disk[f] = "none"
=============================================================================
