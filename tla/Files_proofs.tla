---------------------------- MODULE Files_proofs ----------------------------
(***************************************************************************)
(* Theorems about Files for every set of files, sessions and cache keys,   *)
(* every depth of savepoints and every number of disturbances.             *)
(***************************************************************************)
EXTENDS Files, FiniteSetTheorems, TLAPS

\* Statements and entries are well typed, and removing bytes keeps the volume so.
LEMMA RecordTypes ==
    ASSUME TypeOK, NEW s \in AnySession
    PROVE  /\ \A F \in SUBSET File, op \in {"insert", "stale", "delete"} :
                Changes(s, F, op) \subseteq Change
           /\ \A f \in File, op \in {"put", "delete"} : Recorded(s, f, op) \in Entry
BY DEF TypeOK, Changes, Recorded, Innermost, Change, Entry

\* Removing bytes keeps the type of the directory.
LEMMA WithoutTypes ==
    ASSUME TypeOK, NEW F
    PROVE  /\ Without(F) \in [File -> {"none", "tmp", "there"}]
           /\ {f \in File : Without(F)[f] # "none"} \subseteq used
BY DEF TypeOK, Without

\* A row is seen as one of its three forms.
LEMMA SeenTypes ==
    ASSUME TypeOK, NEW s \in AnySession, NEW f \in File
    PROVE  Seen(s, f) \in {"none", "fresh", "stale"}
BY DEF TypeOK, Seen

\* Closing one of several transactions leaves one open.
LEMMA StillOpen ==
    ASSUME NEW S, NEW t, IsFiniteSet(S), Cardinality(S) > 1
    PROVE  S \ {t} # {} /\ S # {1}
<1>1. Cardinality({1}) = 1
  BY FS_Singleton
<1>2. ASSUME S \ {t} = {} PROVE FALSE
  <2>1. S \subseteq {t} /\ IsFiniteSet({t}) /\ Cardinality({t}) = 1
    BY <1>2, FS_Singleton
  <2>2. Cardinality(S) <= 1
    BY <2>1, FS_Subset
  <2>3. Cardinality(S) \in Nat
    BY FS_CardinalityType
  <2>4. QED
    BY <2>2, <2>3
<1>3. QED
  BY <1>1, <1>2

\* A session has finitely many transactions open.
LEMMA OpenFinite ==
    ASSUME TypeOK, NEW s \in AnySession
    PROVE  IsFiniteSet(open[s])
<1>1. IsFiniteSet(1..MaxTxn)
  BY FilesAssumption, FS_Interval
<1>2. QED
  BY <1>1, FS_Subset DEF TypeOK, Txn

\* Every variable keeps its type, and a session that is over has no
\* transaction, no changes and no entries left.
THEOREM TypeCorrect == Spec => []TypeOK
<1>1. Init => TypeOK
  BY FilesAssumption DEF Init, TypeOK
<1>2. TypeOK /\ [Next]_vars => TypeOK'
  <2> SUFFICES ASSUME TypeOK, [Next]_vars PROVE TypeOK'
    OBVIOUS
  <2> USE FilesAssumption DEF Disturb
  <2>1. ASSUME NEW s \in AnySession, Begin(s) PROVE TypeOK'
    BY <2>1 DEF Begin, TypeOK, volume, history, Txn
  <2>2. ASSUME NEW s \in AnySession, Savepoint(s) PROVE TypeOK'
    BY <2>2 DEF Savepoint, TypeOK, volume, history, Txn
  <2>3. ASSUME NEW s \in AnySession, Release(s) PROVE TypeOK'
    <3>1. open[s] \ {Top(s)} # {} /\ ~Durable(s)
      BY <2>3, OpenFinite, StillOpen DEF Release, Durable
    <3>2. QED
      BY <2>3, <3>1 DEF Release, FilesCommitted, TypeOK, history
  <2>4. ASSUME NEW s \in AnySession, RollbackSavepoint(s) PROVE TypeOK'
    <3>1. open[s] \ {Top(s)} # {}
      BY <2>4, OpenFinite, StillOpen DEF RollbackSavepoint
    <3>2. disk' \in [File -> {"none", "tmp", "there"}] /\ {f \in File : disk'[f] # "none"} \subseteq used
      BY <2>4, WithoutTypes DEF RollbackSavepoint
    <3>3. pend' \in [AnySession -> SUBSET Entry] /\ work' \in [AnySession -> SUBSET Change]
      BY <2>4 DEF RollbackSavepoint, TypeOK
    <3>4. QED
      BY <2>4, <3>1, <3>2, <3>3 DEF RollbackSavepoint, TypeOK, history
  <2>5. ASSUME NEW s \in AnySession, Rollback(s) PROVE TypeOK'
    <3>1. disk' \in [File -> {"none", "tmp", "there"}] /\ {f \in File : disk'[f] # "none"} \subseteq used
      BY <2>5, WithoutTypes DEF Rollback
    <3>2. QED
      BY <2>5, <3>1 DEF Rollback, Ends, TypeOK, history
  <2>6. ASSUME NEW s \in AnySession, Commit(s) \/ CommitInDoubt(s) PROVE TypeOK'
    <3>1. row' \in [File -> {"none", "fresh", "stale"}]
      BY <2>6, SeenTypes DEF Commit, CommitInDoubt, Committed
    <3>2. doubt' \subseteq File
      BY <2>6 DEF Commit, CommitInDoubt, TypeOK, FilesOf, Entry
    <3>3. QED
      BY <2>6, <3>1, <3>2 DEF Commit, CommitInDoubt, Committed, TypeOK, volume
  <2>7. ASSUME NEW s \in AnySession, AfterCommit(s) PROVE TypeOK'
    <3>1. Durable(s)
      BY <2>7 DEF AfterCommit, Durable, TypeOK
    <3>2. disk' \in [File -> {"none", "tmp", "there"}] /\ {f \in File : disk'[f] # "none"} \subseteq used
      BY <2>7, <3>1, WithoutTypes DEF AfterCommit, FilesCommitted
    <3>3. QED
      BY <2>7, <3>1, <3>2 DEF AfterCommit, FilesCommitted, TypeOK, history
  <2>8. ASSUME NEW s \in AnySession, StatementFails(s) PROVE TypeOK'
    BY <2>8 DEF StatementFails, Fails, TypeOK, volume, history
  <2>9. ASSUME NEW s \in AnySession, NEW f \in File, StartPut(s, f) PROVE TypeOK'
    BY <2>9 DEF StartPut, TypeOK
  <2>10. ASSUME NEW f \in File, Rename(f) PROVE TypeOK'
    BY <2>10 DEF Rename, TypeOK, session, history
  <2>11. ASSUME NEW s \in AnySession, WriteFails(s) \/ InsertFails(s) PROVE TypeOK'
    <3>1. disk' \in [File -> {"none", "tmp", "there"}] /\ {f \in File : disk'[f] # "none"} \subseteq used
      BY <2>11, WithoutTypes DEF WriteFails, InsertFails
    <3>2. QED
      BY <2>11, <3>1 DEF WriteFails, InsertFails, PutEnds, TypeOK, history
  <2>12. ASSUME NEW s \in AnySession, Cancel(s) PROVE TypeOK'
    BY <2>12 DEF Cancel, PutEnds, TypeOK, volume, history
  <2>13. ASSUME NEW s \in AnySession, Insert(s) PROVE TypeOK'
    <3>1. cur[s] \in File /\ Holders(s, cur[s]) \subseteq File
      BY <2>13 DEF Insert, TypeOK, Holders
    <3>2. /\ Changes(s, {cur[s]}, "insert") \subseteq Change
          /\ Changes(s, Holders(s, cur[s]), "stale") \subseteq Change
          /\ Recorded(s, cur[s], "put") \in Entry
      BY <3>1, RecordTypes
    <3>3. work' \in [AnySession -> SUBSET Change] /\ pend' \in [AnySession -> SUBSET Entry]
      BY <2>13, <3>2 DEF Insert, TypeOK
    <3>4. QED
      BY <2>13, <3>3 DEF Insert, PutEnds, TypeOK, volume, history
  <2>14. ASSUME NEW s \in AnySession, NEW f \in File, RemoveRow(s, f) PROVE TypeOK'
    <3>1. Changes(s, {f}, "delete") \subseteq Change /\ Recorded(s, f, "delete") \in Entry
      BY RecordTypes
    <3>2. work' \in [AnySession -> SUBSET Change] /\ pend' \in [AnySession -> SUBSET Entry]
      BY <2>14, <3>1 DEF RemoveRow, TypeOK
    <3>3. QED
      BY <2>14, <3>2 DEF RemoveRow, TypeOK, volume, history
  <2>15. ASSUME NEW s \in AnySession, NEW f \in File, MarkStale(s, f) PROVE TypeOK'
    <3>1. Changes(s, {f}, "stale") \subseteq Change
      BY RecordTypes
    <3>2. work' \in [AnySession -> SUBSET Change]
      BY <2>15, <3>1 DEF MarkStale, TypeOK
    <3>3. QED
      BY <2>15, <3>2 DEF MarkStale, TypeOK, volume, history
  <2>16. ASSUME NEW f \in File, GcCheck(f) PROVE TypeOK'
    BY <2>16 DEF GcCheck, TypeOK, volume, history, AnySession
  <2>17. CASE GcUnlink
    <3>1. disk' \in [File -> {"none", "tmp", "there"}] /\ {f \in File : disk'[f] # "none"} \subseteq used
      BY <2>17, WithoutTypes DEF GcUnlink
    <3>2. QED
      BY <2>17, <3>1 DEF GcUnlink, PutEnds, TypeOK, history, AnySession
  <2>18. ASSUME NEW f \in File, Age(f) PROVE TypeOK'
    BY <2>18 DEF Age, TypeOK, session, history
  <2>19. ASSUME NEW s \in AnySession, Crash(s) PROVE TypeOK'
    BY <2>19 DEF Crash, Ends, TypeOK, history
  <2>20. CASE UNCHANGED vars
    BY <2>20 DEF vars, volume, session, history, TypeOK
  <2>21. QED
    BY <2>1, <2>2, <2>3, <2>4, <2>5, <2>6, <2>7, <2>8, <2>9, <2>10, <2>11, <2>12, <2>13,
       <2>14,
       <2>15, <2>16, <2>17, <2>18, <2>19, <2>20
    DEF Next, SessionStep, UserStep, Delete, GcDelete, AnySession
<1>3. QED
  BY <1>1, <1>2, PTL DEF Spec

-----------------------------------------------------------------------------
\* s waits for the thread that writes f, or is about to insert its row.
Putting(s, f) == pc[s] = "write" /\ cur[s] = f

\* A file that is being put has no trace but its bytes.
PutsAreNew ==
    \A s \in AnySession, f \in File : Putting(s, f) =>
        /\ s # gc
        /\ f \in used \ old
        /\ row[f] = "none"
        /\ f \notin threads => disk[f] = "there"
        /\ \A t \in AnySession :
             /\ Putting(t, f) => t = s
             /\ \A w \in work[t] : w.file # f
             /\ \A p \in pend[t] : p.file # f

\* A row that is not committed belongs to one session, and is undone together
\* with the entry for its bytes.
InsertsAreOwn ==
    \A s \in AnySession : \A w \in work[s] : w.op = "insert" =>
        /\ s # gc
        /\ w.file \notin old
        /\ row[w.file] = "none"
        /\ disk[w.file] = "there"
        /\ \A t \in AnySession :
             /\ \A v \in work[t] : v.file = w.file => t = s
             /\ \A p \in pend[t] : p.file = w.file =>
                  t = s /\ (p.op = "put" => p.path = w.path)

\* The row of an entry of _PUT_KEY is durable only when the commit is.
PutsAreUndone ==
    \A s \in AnySession : \A p \in pend[s] : p.op = "put" =>
        pc[s] = "unlink" \/ row[p.file] = "none" \/ p.file \in doubt

\* An entry of _DELETE_KEY has its deletion, which the commit makes durable,
\* unless a failure has undone it and the rollback will drop both.
DeletesAreDone ==
    \A s \in AnySession : \A p \in pend[s] : p.op = "delete" =>
        /\ pc[s] = "unlink" => row[p.file] = "none"
        /\ pc[s] # "unlink" =>
             \/ \E w \in work[s] : w.op = "delete" /\ w.file = p.file /\ w.path = p.path
             \/ pc[s] = "failed" /\ (open[s] = {1} \/ Top(s) \in p.path)

\* What the collector is about to unlink has no row and will get none.
OrphansStayOrphans ==
    pc[gc] = "orphan" =>
        /\ cur[gc] \in used
        /\ row[cur[gc]] = "none"
        /\ \A s \in AnySession :
             /\ ~Putting(s, cur[gc])
             /\ \A w \in work[s] : ~(w.op = "insert" /\ w.file = cur[gc])

\* Names are used once.
NamesAreUsed ==
    /\ \A f \in File : row[f] # "none" => f \in used
    /\ \A s \in AnySession : /\ \A w \in work[s] : w.file \in used
                             /\ \A p \in pend[s] : p.file \in used

FilesInv ==
    /\ BytesForRows /\ PutsAreNew /\ InsertsAreOwn /\ PutsAreUndone /\ DeletesAreDone
    /\ OrphansStayOrphans /\ NamesAreUsed

\* The row of f is there for s only when it is committed or s has inserted it.
LEMMA SeenRow ==
    ASSUME NEW s \in AnySession, NEW f \in File
    PROVE  /\ Seen(s, f) # "none" =>
                \/ row[f] # "none"
                \/ \E w \in work[s] : w.op = "insert" /\ w.file = f
           /\ (\E w \in work[s] : w.op = "delete" /\ w.file = f) => Seen(s, f) = "none"
BY DEF Seen, Made

\* A committed row always has its bytes, whatever is rolled back, released,
\* superseded, collected or killed (or its commit was reported as failed).
THEOREM BytesForRowsHolds == Spec => []BytesForRows
<1>1. Init => FilesInv
  BY FilesAssumption DEF Init, FilesInv, BytesForRows, PutsAreNew, InsertsAreOwn,
     PutsAreUndone,
     DeletesAreDone, OrphansStayOrphans, NamesAreUsed, Putting, AnySession
<1>2. TypeOK /\ FilesInv /\ [Next]_vars => FilesInv'
  <2> SUFFICES ASSUME TypeOK, FilesInv, [Next]_vars PROVE FilesInv'
    OBVIOUS
  <2> USE FilesAssumption DEF FilesInv, Putting, TypeOK, Change, Entry
  <2>0. ASSUME NEW t \in AnySession, open'[t] = open[t] PROVE Top(t)' = Top(t)
    BY <2>0 DEF Top
  <2>1. ASSUME NEW s \in AnySession, Begin(s) PROVE FilesInv'
    BY <2>0, <2>1 DEF Begin, volume, history, BytesForRows, PutsAreNew, InsertsAreOwn,
       PutsAreUndone, DeletesAreDone, OrphansStayOrphans, NamesAreUsed
  <2>2. ASSUME NEW s \in AnySession, Savepoint(s) PROVE FilesInv'
    BY <2>0, <2>2 DEF Savepoint, volume, history, BytesForRows, PutsAreNew,
       InsertsAreOwn, PutsAreUndone, DeletesAreDone, OrphansStayOrphans, NamesAreUsed
  <2>3. ASSUME NEW s \in AnySession, Release(s) PROVE FilesInv'
    <3>1. open[s] # {1} /\ ~Durable(s)
      BY <2>3, OpenFinite, StillOpen DEF Release, RollbackSavepoint, Durable
    <3>2. BytesForRows'
      BY <2>3, <3>1 DEF Release, FilesCommitted, history, BytesForRows
    <3>3. PutsAreNew'
      BY <2>3, <3>1 DEF Release, FilesCommitted, history, PutsAreNew
    <3>4. InsertsAreOwn'
      BY <2>3, <3>1 DEF Release, FilesCommitted, history, InsertsAreOwn
    <3>5. PutsAreUndone'
      BY <2>3, <3>1 DEF Release, FilesCommitted, history, PutsAreUndone
    <3>6. DeletesAreDone'
      BY <2>0, <2>3, <3>1 DEF Release, FilesCommitted, history, DeletesAreDone
    <3>7. OrphansStayOrphans'
      BY <2>3, <3>1 DEF Release, FilesCommitted, history, OrphansStayOrphans
    <3>8. NamesAreUsed'
      BY <2>3, <3>1 DEF Release, FilesCommitted, history, NamesAreUsed
    <3>9. QED
      BY <3>2, <3>3, <3>4, <3>5, <3>6, <3>7, <3>8
  <2>4. ASSUME NEW s \in AnySession, RollbackSavepoint(s) PROVE FilesInv'
    <3>1. open[s] # {1} /\ ~Durable(s)
      BY <2>4, OpenFinite, StillOpen DEF Release, RollbackSavepoint, Durable
    <3>2. BytesForRows'
      BY <2>4, <3>1 DEF RollbackSavepoint, history, Without, FilesOf, Within,
         BytesForRows, PutsAreUndone
    <3>3. PutsAreNew'
      BY <2>4, <3>1 DEF RollbackSavepoint, history, Without, FilesOf, Within, PutsAreNew
    <3>4. InsertsAreOwn'
      BY <2>4, <3>1 DEF RollbackSavepoint, history, Without, FilesOf, Within,
         InsertsAreOwn
    <3>5. PutsAreUndone'
      BY <2>4, <3>1 DEF RollbackSavepoint, history, Without, FilesOf, Within,
         PutsAreUndone
    <3>6. DeletesAreDone'
      BY <2>0, <2>4, <3>1 DEF RollbackSavepoint, history, Without, FilesOf, Within,
         DeletesAreDone
    <3>7. OrphansStayOrphans'
      BY <2>4, <3>1 DEF RollbackSavepoint, history, Without, FilesOf, Within,
         OrphansStayOrphans
    <3>8. NamesAreUsed'
      BY <2>4, <3>1 DEF RollbackSavepoint, history, Without, FilesOf, Within,
         NamesAreUsed
    <3>9. QED
      BY <3>2, <3>3, <3>4, <3>5, <3>6, <3>7, <3>8
  <2>5. ASSUME NEW s \in AnySession, Rollback(s) PROVE FilesInv'
    <3>1. BytesForRows'
      BY <2>5 DEF Rollback, Ends, history, Without, FilesOf, BytesForRows, PutsAreUndone
    <3>2. PutsAreNew'
      BY <2>5 DEF Rollback, Ends, history, Without, FilesOf, PutsAreNew
    <3>3. InsertsAreOwn'
      BY <2>5 DEF Rollback, Ends, history, Without, FilesOf, InsertsAreOwn
    <3>4. PutsAreUndone'
      BY <2>5 DEF Rollback, Ends, history, Without, FilesOf, PutsAreUndone
    <3>5. DeletesAreDone'
      BY <2>0, <2>5 DEF Rollback, Ends, history, Without, FilesOf, DeletesAreDone
    <3>6. OrphansStayOrphans'
      BY <2>5 DEF Rollback, Ends, history, Without, FilesOf, OrphansStayOrphans
    <3>7. NamesAreUsed'
      BY <2>5 DEF Rollback, Ends, history, Without, FilesOf, NamesAreUsed
    <3>8. QED
      BY <3>1, <3>2, <3>3, <3>4, <3>5, <3>6, <3>7
  <2>6. ASSUME NEW s \in AnySession, Commit(s) \/ CommitInDoubt(s) PROVE FilesInv'
    <3>1. \A g \in File : row'[g] = Seen(s, g)
      BY <2>6 DEF Commit, CommitInDoubt, Committed
    <3>2. BytesForRows'
      BY <2>6, <3>1, SeenRow DEF Commit, CommitInDoubt, Committed, volume, FilesOf,
         BytesForRows, InsertsAreOwn
    <3>3. PutsAreNew'
      BY <2>6, <3>1, SeenRow DEF Commit, CommitInDoubt, Committed, volume, FilesOf,
         PutsAreNew
    <3>4. InsertsAreOwn'
      <4>1. /\ work' = [work EXCEPT ![s] = {}]
            /\ UNCHANGED <<disk, old, threads, pend>>
        BY <2>6 DEF Commit, CommitInDoubt, Committed, volume
      <4>2. ASSUME NEW t \in AnySession, NEW w \in work'[t], w.op = "insert"
            PROVE  t # s /\ w \in work[t] /\ w \in Change
        BY <4>1, <4>2
      <4>3. ASSUME NEW t \in AnySession, NEW w \in work'[t], w.op = "insert"
            PROVE  row'[w.file] = "none"
        BY <3>1, <4>2, <4>3, SeenRow DEF InsertsAreOwn
      <4>4. QED
        BY <4>1, <4>2, <4>3 DEF InsertsAreOwn
    <3>5. PutsAreUndone'
      BY <2>6, <3>1, SeenRow DEF Commit, CommitInDoubt, Committed, volume, FilesOf,
         InsertsAreOwn, PutsAreUndone
    <3>6. DeletesAreDone'
      BY <2>0, <2>6, <3>1, SeenRow DEF Commit, CommitInDoubt, Committed, volume,
         FilesOf, InsertsAreOwn, DeletesAreDone
    <3>7. OrphansStayOrphans'
      BY <2>6, <3>1, SeenRow DEF Commit, CommitInDoubt, Committed, volume, AnySession,
         FilesOf, OrphansStayOrphans
    <3>8. NamesAreUsed'
      BY <2>6, <3>1, SeenRow DEF Commit, CommitInDoubt, Committed, volume, FilesOf,
         NamesAreUsed
    <3>9. QED
      BY <3>2, <3>3, <3>4, <3>5, <3>6, <3>7, <3>8
  <2>7. ASSUME NEW s \in AnySession, AfterCommit(s) PROVE FilesInv'
    <3>1. Durable(s)
      BY <2>7 DEF AfterCommit, Durable
    <3>2. BytesForRows'
      BY <2>7, <3>1 DEF AfterCommit, FilesCommitted, history, Without, FilesOf,
         BytesForRows, DeletesAreDone
    <3>3. PutsAreNew'
      BY <2>7, <3>1 DEF AfterCommit, FilesCommitted, history, Without, FilesOf,
         PutsAreNew
    <3>4. InsertsAreOwn'
      BY <2>7, <3>1 DEF AfterCommit, FilesCommitted, history, Without, FilesOf,
         InsertsAreOwn
    <3>5. PutsAreUndone'
      BY <2>7, <3>1 DEF AfterCommit, FilesCommitted, history, Without, FilesOf,
         PutsAreUndone
    <3>6. DeletesAreDone'
      BY <2>0, <2>7, <3>1 DEF AfterCommit, FilesCommitted, history, Without, FilesOf,
         DeletesAreDone
    <3>7. OrphansStayOrphans'
      BY <2>7, <3>1 DEF AfterCommit, FilesCommitted, history, Without, FilesOf,
         OrphansStayOrphans
    <3>8. NamesAreUsed'
      BY <2>7, <3>1 DEF AfterCommit, FilesCommitted, history, Without, FilesOf,
         NamesAreUsed
    <3>9. QED
      BY <3>2, <3>3, <3>4, <3>5, <3>6, <3>7, <3>8
  <2>8. ASSUME NEW s \in AnySession, StatementFails(s) PROVE FilesInv'
    <3>1. BytesForRows'
      BY <2>8 DEF StatementFails, Fails, volume, history, BytesForRows
    <3>2. PutsAreNew'
      BY <2>8 DEF StatementFails, Fails, volume, history, PutsAreNew
    <3>3. InsertsAreOwn'
      BY <2>8 DEF StatementFails, Fails, volume, history, InsertsAreOwn
    <3>4. PutsAreUndone'
      BY <2>8 DEF StatementFails, Fails, volume, history, PutsAreUndone
    <3>5. DeletesAreDone'
      BY <2>0, <2>8 DEF StatementFails, Fails, volume, history, DeletesAreDone
    <3>6. OrphansStayOrphans'
      BY <2>8 DEF StatementFails, Fails, volume, history, OrphansStayOrphans
    <3>7. NamesAreUsed'
      BY <2>8 DEF StatementFails, Fails, volume, history, NamesAreUsed
    <3>8. QED
      BY <3>1, <3>2, <3>3, <3>4, <3>5, <3>6, <3>7
  <2>9. ASSUME NEW s \in Session, NEW g \in File, StartPut(s, g) PROVE FilesInv'
    <3>1. BytesForRows'
      BY <2>9 DEF StartPut, AnySession, BytesForRows
    <3>2. PutsAreNew'
      BY <2>9 DEF StartPut, AnySession, PutsAreNew, NamesAreUsed
    <3>3. InsertsAreOwn'
      BY <2>9 DEF StartPut, AnySession, InsertsAreOwn
    <3>4. PutsAreUndone'
      BY <2>9 DEF StartPut, AnySession, PutsAreUndone
    <3>5. DeletesAreDone'
      BY <2>0, <2>9 DEF StartPut, AnySession, DeletesAreDone
    <3>6. OrphansStayOrphans'
      BY <2>9 DEF StartPut, AnySession, OrphansStayOrphans
    <3>7. NamesAreUsed'
      BY <2>9 DEF StartPut, AnySession, NamesAreUsed
    <3>8. QED
      BY <3>1, <3>2, <3>3, <3>4, <3>5, <3>6, <3>7
  <2>10. ASSUME NEW g \in File, Rename(g) PROVE FilesInv'
    <3>1. BytesForRows'
      BY <2>10 DEF Rename, session, history, BytesForRows
    <3>2. PutsAreNew'
      BY <2>10 DEF Rename, session, history, PutsAreNew
    <3>3. InsertsAreOwn'
      BY <2>10 DEF Rename, session, history, InsertsAreOwn
    <3>4. PutsAreUndone'
      BY <2>10 DEF Rename, session, history, PutsAreUndone
    <3>5. DeletesAreDone'
      BY <2>0, <2>10 DEF Rename, session, history, DeletesAreDone
    <3>6. OrphansStayOrphans'
      BY <2>10 DEF Rename, session, history, OrphansStayOrphans
    <3>7. NamesAreUsed'
      BY <2>10 DEF Rename, session, history, NamesAreUsed
    <3>8. QED
      BY <3>1, <3>2, <3>3, <3>4, <3>5, <3>6, <3>7
  <2>11. ASSUME NEW s \in Session, WriteFails(s) \/ InsertFails(s) PROVE FilesInv'
    <3>1. BytesForRows'
      BY <2>11 DEF WriteFails, InsertFails, PutEnds, Without, history, AnySession,
         BytesForRows, PutsAreNew
    <3>2. PutsAreNew'
      BY <2>11 DEF WriteFails, InsertFails, PutEnds, Without, history, AnySession,
         PutsAreNew
    <3>3. InsertsAreOwn'
      BY <2>11 DEF WriteFails, InsertFails, PutEnds, Without, history, AnySession,
         PutsAreNew, InsertsAreOwn
    <3>4. PutsAreUndone'
      BY <2>11 DEF WriteFails, InsertFails, PutEnds, Without, history, AnySession,
         PutsAreUndone
    <3>5. DeletesAreDone'
      BY <2>0, <2>11 DEF WriteFails, InsertFails, PutEnds, Without, history, AnySession,
         DeletesAreDone
    <3>6. OrphansStayOrphans'
      BY <2>11 DEF WriteFails, InsertFails, PutEnds, Without, history, AnySession,
         OrphansStayOrphans
    <3>7. NamesAreUsed'
      BY <2>11 DEF WriteFails, InsertFails, PutEnds, Without, history, AnySession,
         NamesAreUsed
    <3>8. QED
      BY <3>1, <3>2, <3>3, <3>4, <3>5, <3>6, <3>7
  <2>12. ASSUME NEW s \in Session, Cancel(s) PROVE FilesInv'
    <3>1. BytesForRows'
      BY <2>12 DEF Cancel, PutEnds, volume, history, AnySession, BytesForRows
    <3>2. PutsAreNew'
      BY <2>12 DEF Cancel, PutEnds, volume, history, AnySession, PutsAreNew
    <3>3. InsertsAreOwn'
      BY <2>12 DEF Cancel, PutEnds, volume, history, AnySession, InsertsAreOwn
    <3>4. PutsAreUndone'
      BY <2>12 DEF Cancel, PutEnds, volume, history, AnySession, PutsAreUndone
    <3>5. DeletesAreDone'
      BY <2>0, <2>12 DEF Cancel, PutEnds, volume, history, AnySession, DeletesAreDone
    <3>6. OrphansStayOrphans'
      BY <2>12 DEF Cancel, PutEnds, volume, history, AnySession, OrphansStayOrphans
    <3>7. NamesAreUsed'
      BY <2>12 DEF Cancel, PutEnds, volume, history, AnySession, NamesAreUsed
    <3>8. QED
      BY <3>1, <3>2, <3>3, <3>4, <3>5, <3>6, <3>7
  <2>13. ASSUME NEW s \in Session, Insert(s) PROVE FilesInv'
    <3>1. \A g \in Holders(s, cur[s]) : g \in File /\ (row[g] # "none" \/ \E w \in work[s] : w.op = "insert" /\ w.file = g)
      BY <2>13, SeenRow DEF Holders, AnySession
    <3>2. BytesForRows'
      BY <2>13, <3>1 DEF Insert, PutEnds, volume, history, AnySession, Changes,
         Recorded, Innermost, BytesForRows
    <3>3. PutsAreNew'
      BY <2>13, <3>1 DEF Insert, PutEnds, volume, history, AnySession, Changes,
         Recorded, Innermost, PutsAreNew
    <3>4. InsertsAreOwn'
      BY <2>13, <3>1 DEF Insert, PutEnds, volume, history, AnySession, Changes,
         Recorded, Innermost, PutsAreNew, InsertsAreOwn
    <3>5. PutsAreUndone'
      BY <2>13, <3>1 DEF Insert, PutEnds, volume, history, AnySession, Changes,
         Recorded, Innermost, PutsAreNew, PutsAreUndone
    <3>6. DeletesAreDone'
      BY <2>0, <2>13, <3>1 DEF Insert, PutEnds, volume, history, AnySession, Changes,
         Recorded, Innermost, DeletesAreDone
    <3>7. OrphansStayOrphans'
      BY <2>13, <3>1 DEF Insert, PutEnds, volume, history, AnySession, Changes,
         Recorded, Innermost, OrphansStayOrphans
    <3>8. NamesAreUsed'
      BY <2>13, <3>1 DEF Insert, PutEnds, volume, history, AnySession, Changes,
         Recorded, Innermost, PutsAreNew, NamesAreUsed
    <3>9. QED
      BY <3>2, <3>3, <3>4, <3>5, <3>6, <3>7, <3>8
  <2>14. ASSUME NEW s \in AnySession, NEW g \in File, RemoveRow(s, g) PROVE FilesInv'
    <3>1. \/ row[g] # "none"
          \/ \E w \in work[s] : w.op = "insert" /\ w.file = g
      BY <2>14, SeenRow DEF RemoveRow, MarkStale
    <3>2. BytesForRows'
      BY <2>14, <3>1 DEF RemoveRow, volume, history, Changes, Recorded, Innermost,
         BytesForRows
    <3>3. PutsAreNew'
      BY <2>14, <3>1 DEF RemoveRow, volume, history, Changes, Recorded, Innermost,
         PutsAreNew
    <3>4. InsertsAreOwn'
      BY <2>14, <3>1 DEF RemoveRow, volume, history, Changes, Recorded, Innermost,
         InsertsAreOwn
    <3>5. PutsAreUndone'
      BY <2>14, <3>1 DEF RemoveRow, volume, history, Changes, Recorded, Innermost,
         PutsAreUndone
    <3>6. DeletesAreDone'
      BY <2>0, <2>14, <3>1 DEF RemoveRow, volume, history, Changes, Recorded, Innermost,
         DeletesAreDone
    <3>7. OrphansStayOrphans'
      BY <2>14, <3>1 DEF RemoveRow, volume, history, Changes, Recorded, Innermost,
         OrphansStayOrphans
    <3>8. NamesAreUsed'
      BY <2>14, <3>1 DEF RemoveRow, volume, history, Changes, Recorded, Innermost,
         NamesAreUsed
    <3>9. QED
      BY <3>2, <3>3, <3>4, <3>5, <3>6, <3>7, <3>8
  <2>15. ASSUME NEW s \in AnySession, NEW g \in File, MarkStale(s, g) PROVE FilesInv'
    <3>1. \/ row[g] # "none"
          \/ \E w \in work[s] : w.op = "insert" /\ w.file = g
      BY <2>15, SeenRow DEF RemoveRow, MarkStale
    <3>2. BytesForRows'
      BY <2>15, <3>1 DEF MarkStale, volume, history, Changes, BytesForRows
    <3>3. PutsAreNew'
      BY <2>15, <3>1 DEF MarkStale, volume, history, Changes, PutsAreNew
    <3>4. InsertsAreOwn'
      BY <2>15, <3>1 DEF MarkStale, volume, history, Changes, InsertsAreOwn
    <3>5. PutsAreUndone'
      BY <2>15, <3>1 DEF MarkStale, volume, history, Changes, PutsAreUndone
    <3>6. DeletesAreDone'
      BY <2>0, <2>15, <3>1 DEF MarkStale, volume, history, Changes, DeletesAreDone
    <3>7. OrphansStayOrphans'
      BY <2>15, <3>1 DEF MarkStale, volume, history, Changes, OrphansStayOrphans
    <3>8. NamesAreUsed'
      BY <2>15, <3>1 DEF MarkStale, volume, history, Changes, NamesAreUsed
    <3>9. QED
      BY <3>2, <3>3, <3>4, <3>5, <3>6, <3>7, <3>8
  <2>16. ASSUME NEW g \in File, GcCheck(g) PROVE FilesInv'
    <3>1. BytesForRows'
      BY <2>16 DEF GcCheck, volume, history, BytesForRows
    <3>2. PutsAreNew'
      BY <2>16 DEF GcCheck, volume, history, PutsAreNew
    <3>3. InsertsAreOwn'
      BY <2>16 DEF GcCheck, volume, history, InsertsAreOwn
    <3>4. PutsAreUndone'
      BY <2>16 DEF GcCheck, volume, history, PutsAreUndone
    <3>5. DeletesAreDone'
      BY <2>0, <2>16 DEF GcCheck, volume, history, DeletesAreDone
    <3>6. OrphansStayOrphans'
      BY <2>16 DEF GcCheck, Orphan, Seen, Made, AnySession, volume, history, PutsAreNew,
         InsertsAreOwn, OrphansStayOrphans
    <3>7. NamesAreUsed'
      BY <2>16 DEF GcCheck, volume, history, NamesAreUsed
    <3>8. QED
      BY <3>1, <3>2, <3>3, <3>4, <3>5, <3>6, <3>7
  <2>17. CASE GcUnlink
    <3>1. BytesForRows'
      BY <2>17 DEF GcUnlink, PutEnds, history, Without, AnySession, BytesForRows,
         OrphansStayOrphans
    <3>2. PutsAreNew'
      BY <2>17 DEF GcUnlink, PutEnds, history, Without, AnySession, PutsAreNew,
         OrphansStayOrphans
    <3>3. InsertsAreOwn'
      BY <2>17 DEF GcUnlink, PutEnds, history, Without, AnySession, InsertsAreOwn,
         OrphansStayOrphans
    <3>4. PutsAreUndone'
      BY <2>17 DEF GcUnlink, PutEnds, history, Without, AnySession, PutsAreUndone
    <3>5. DeletesAreDone'
      BY <2>0, <2>17 DEF GcUnlink, PutEnds, history, Without, AnySession, DeletesAreDone
    <3>6. OrphansStayOrphans'
      BY <2>17 DEF GcUnlink, PutEnds, history, Without, AnySession, OrphansStayOrphans
    <3>7. NamesAreUsed'
      BY <2>17 DEF GcUnlink, PutEnds, history, Without, AnySession, NamesAreUsed
    <3>8. QED
      BY <3>1, <3>2, <3>3, <3>4, <3>5, <3>6, <3>7
  <2>18. ASSUME NEW g \in File, Age(g) PROVE FilesInv'
    <3>1. BytesForRows'
      BY <2>18 DEF Age, session, history, Holding, Made, AnySession, BytesForRows
    <3>2. PutsAreNew'
      BY <2>18 DEF Age, session, history, Holding, Made, AnySession, PutsAreNew
    <3>3. InsertsAreOwn'
      BY <2>18 DEF Age, session, history, Holding, Made, AnySession, InsertsAreOwn
    <3>4. PutsAreUndone'
      BY <2>18 DEF Age, session, history, Holding, Made, AnySession, PutsAreUndone
    <3>5. DeletesAreDone'
      BY <2>0, <2>18 DEF Age, session, history, Holding, Made, AnySession,
         DeletesAreDone
    <3>6. OrphansStayOrphans'
      BY <2>18 DEF Age, session, history, Holding, Made, AnySession, OrphansStayOrphans
    <3>7. NamesAreUsed'
      BY <2>18 DEF Age, session, history, Holding, Made, AnySession, NamesAreUsed
    <3>8. QED
      BY <3>1, <3>2, <3>3, <3>4, <3>5, <3>6, <3>7
  <2>19. ASSUME NEW s \in AnySession, Crash(s) PROVE FilesInv'
    <3>1. BytesForRows'
      BY <2>19 DEF Crash, Ends, history, BytesForRows
    <3>2. PutsAreNew'
      BY <2>19 DEF Crash, Ends, history, PutsAreNew
    <3>3. InsertsAreOwn'
      BY <2>19 DEF Crash, Ends, history, InsertsAreOwn
    <3>4. PutsAreUndone'
      BY <2>19 DEF Crash, Ends, history, PutsAreUndone
    <3>5. DeletesAreDone'
      BY <2>0, <2>19 DEF Crash, Ends, history, DeletesAreDone
    <3>6. OrphansStayOrphans'
      BY <2>19 DEF Crash, Ends, history, OrphansStayOrphans
    <3>7. NamesAreUsed'
      BY <2>19 DEF Crash, Ends, history, NamesAreUsed
    <3>8. QED
      BY <3>1, <3>2, <3>3, <3>4, <3>5, <3>6, <3>7
  <2>20. CASE UNCHANGED vars
    BY <2>0, <2>20 DEF vars, volume, session, history, BytesForRows, PutsAreNew,
       InsertsAreOwn, PutsAreUndone, DeletesAreDone, OrphansStayOrphans, NamesAreUsed
  <2>21. QED
    BY <2>1, <2>2, <2>3, <2>4, <2>5, <2>6, <2>7, <2>8, <2>9, <2>10, <2>11, <2>12, <2>13,
       <2>14, <2>15, <2>16, <2>17, <2>18, <2>19, <2>20
    DEF Next, SessionStep, UserStep, Delete, GcDelete, AnySession
<1>3. QED
  BY <1>1, <1>2, TypeCorrect, PTL DEF Spec, FilesInv

-----------------------------------------------------------------------------
(* No litter                                                               *)

\* An entry of _PUT_KEY has its uncommitted row, unless a failure has undone
\* it and the rollback will drop both.
PutsAreInserted ==
    \A s \in AnySession : \A p \in pend[s] : (p.op = "put" /\ pc[s] # "unlink") =>
        \/ \E w \in work[s] : w.op = "insert" /\ w.file = p.file /\ w.path = p.path
        \/ pc[s] = "failed" /\ (open[s] = {1} \/ Top(s) \in p.path)

\* A deletion that may become durable has its entry.
DeletesAreRecorded ==
    \A s \in AnySession : \A w \in work[s] : w.op = "delete" =>
        \E p \in pend[s] : p.op = "delete" /\ p.file = w.file /\ p.path = w.path

\* Bytes have a row, a put that runs, or an entry by which they will be
\* removed or kept.
BytesAreHeld ==
    faults = 0 =>
        /\ \A f \in threads : \E s \in AnySession : Putting(s, f)
        /\ \A f \in File : disk[f] # "none" =>
             \/ row[f] # "none"
             \/ \E s \in AnySession :
                  \/ Putting(s, f)
                  \/ \E p \in pend[s] :
                       p.file = f /\ p.op = (IF pc[s] = "unlink" THEN "delete" ELSE "put")

LitterInv == PutsAreInserted /\ DeletesAreRecorded /\ BytesAreHeld

\* Without kills and cancellations, no session at rest leaves bytes without a
\* row.
THEOREM NoLitterHolds == Spec => []NoLitter
<1>1. Init => LitterInv
  BY FilesAssumption DEF Init, LitterInv, PutsAreInserted, DeletesAreRecorded,
     BytesAreHeld
<1>2. TypeOK /\ LitterInv /\ [Next]_vars => LitterInv'
  <2> SUFFICES ASSUME TypeOK, LitterInv, [Next]_vars PROVE LitterInv'
    OBVIOUS
  <2> USE FilesAssumption DEF LitterInv, Putting, TypeOK, Change, Entry
  <2>0. ASSUME NEW t \in AnySession, open'[t] = open[t] PROVE Top(t)' = Top(t)
    BY <2>0 DEF Top
  <2>1. ASSUME NEW s \in AnySession, Begin(s) PROVE LitterInv'
    <3>1. PutsAreInserted'
      BY <2>0, <2>1 DEF Begin, volume, history, PutsAreInserted
    <3>2. DeletesAreRecorded'
      BY <2>1 DEF Begin, volume, history, DeletesAreRecorded
    <3>3. BytesAreHeld'
      BY <2>1 DEF Begin, volume, history, BytesAreHeld
    <3>4. QED
      BY <3>1, <3>2, <3>3 DEF LitterInv
  <2>2. ASSUME NEW s \in AnySession, Savepoint(s) PROVE LitterInv'
    <3>1. PutsAreInserted'
      BY <2>0, <2>2 DEF Savepoint, volume, history, PutsAreInserted
    <3>2. DeletesAreRecorded'
      BY <2>2 DEF Savepoint, volume, history, DeletesAreRecorded
    <3>3. BytesAreHeld'
      BY <2>2 DEF Savepoint, volume, history, BytesAreHeld
    <3>4. QED
      BY <3>1, <3>2, <3>3 DEF LitterInv
  <2>3. ASSUME NEW s \in AnySession, Release(s) PROVE LitterInv'
    <3>1. open[s] # {1} /\ ~Durable(s)
      BY <2>3, OpenFinite, StillOpen DEF Release, RollbackSavepoint, Durable
    <3>2. PutsAreInserted'
      BY <2>0, <2>3, <3>1 DEF Release, FilesCommitted, history, PutsAreInserted
    <3>3. DeletesAreRecorded'
      BY <2>3, <3>1 DEF Release, FilesCommitted, history, DeletesAreRecorded
    <3>4. BytesAreHeld'
      BY <2>3, <3>1 DEF Release, FilesCommitted, history, BytesAreHeld
    <3>5. QED
      BY <3>2, <3>3, <3>4 DEF LitterInv
  <2>4. ASSUME NEW s \in AnySession, RollbackSavepoint(s) PROVE LitterInv'
    <3>1. open[s] # {1} /\ ~Durable(s)
      BY <2>4, OpenFinite, StillOpen DEF Release, RollbackSavepoint, Durable
    <3>2. PutsAreInserted'
      BY <2>0, <2>4, <3>1 DEF RollbackSavepoint, history, Without, FilesOf, Within,
         PutsAreInserted
    <3>3. DeletesAreRecorded'
      BY <2>4, <3>1 DEF RollbackSavepoint, history, Without, FilesOf, Within,
         DeletesAreRecorded
    <3>4. BytesAreHeld'
      BY <2>4, <3>1 DEF RollbackSavepoint, history, Without, FilesOf, Within,
         BytesAreHeld
    <3>5. QED
      BY <3>2, <3>3, <3>4 DEF LitterInv
  <2>5. ASSUME NEW s \in AnySession, Rollback(s) PROVE LitterInv'
    <3>1. PutsAreInserted'
      BY <2>0, <2>5 DEF Rollback, Ends, history, Without, FilesOf, PutsAreInserted
    <3>2. DeletesAreRecorded'
      BY <2>5 DEF Rollback, Ends, history, Without, FilesOf, DeletesAreRecorded
    <3>3. BytesAreHeld'
      BY <2>5 DEF Rollback, Ends, history, Without, FilesOf, BytesAreHeld
    <3>4. QED
      BY <3>1, <3>2, <3>3 DEF LitterInv
  <2>6. ASSUME NEW s \in AnySession, Commit(s) PROVE LitterInv'
    <3>1. PutsAreInserted'
      BY <2>0, <2>6, SeenRow DEF Commit, Committed, volume, Seen, Made, PutsAreInserted
    <3>2. DeletesAreRecorded'
      BY <2>6, SeenRow DEF Commit, Committed, volume, Seen, Made, DeletesAreRecorded
    <3>3. BytesAreHeld'
      BY <2>6, SeenRow DEF Commit, Committed, volume, Seen, Made, PutsAreInserted,
         DeletesAreRecorded, BytesAreHeld
    <3>4. QED
      BY <3>1, <3>2, <3>3 DEF LitterInv
  <2>7. ASSUME NEW s \in AnySession, CommitInDoubt(s) PROVE LitterInv'
    <3>1. PutsAreInserted'
      BY <2>0, <2>7, SeenRow DEF CommitInDoubt, Committed, Disturb, volume, FilesOf,
         PutsAreInserted
    <3>2. DeletesAreRecorded'
      BY <2>7, SeenRow DEF CommitInDoubt, Committed, Disturb, volume, FilesOf,
         DeletesAreRecorded
    <3>3. BytesAreHeld'
      BY <2>7, SeenRow DEF CommitInDoubt, Committed, Disturb, volume, FilesOf,
         BytesAreHeld
    <3>4. QED
      BY <3>1, <3>2, <3>3 DEF LitterInv
  <2>8. ASSUME NEW s \in AnySession, AfterCommit(s) PROVE LitterInv'
    <3>1. Durable(s)
      BY <2>8 DEF AfterCommit, Durable
    <3>2. PutsAreInserted'
      BY <2>0, <2>8, <3>1 DEF AfterCommit, FilesCommitted, history, Without, FilesOf,
         PutsAreInserted
    <3>3. DeletesAreRecorded'
      BY <2>8, <3>1 DEF AfterCommit, FilesCommitted, history, Without, FilesOf,
         DeletesAreRecorded
    <3>4. BytesAreHeld'
      BY <2>8, <3>1 DEF AfterCommit, FilesCommitted, history, Without, FilesOf,
         BytesAreHeld
    <3>5. QED
      BY <3>2, <3>3, <3>4 DEF LitterInv
  <2>9. ASSUME NEW s \in AnySession, StatementFails(s) PROVE LitterInv'
    <3>1. PutsAreInserted'
      BY <2>0, <2>9 DEF StatementFails, Fails, volume, history, PutsAreInserted
    <3>2. DeletesAreRecorded'
      BY <2>9 DEF StatementFails, Fails, volume, history, DeletesAreRecorded
    <3>3. BytesAreHeld'
      BY <2>9 DEF StatementFails, Fails, volume, history, BytesAreHeld
    <3>4. QED
      BY <3>1, <3>2, <3>3 DEF LitterInv
  <2>10. ASSUME NEW s \in Session, NEW g \in File, StartPut(s, g) PROVE LitterInv'
    <3>1. PutsAreInserted'
      BY <2>0, <2>10 DEF StartPut, AnySession, PutsAreInserted
    <3>2. DeletesAreRecorded'
      BY <2>10 DEF StartPut, AnySession, DeletesAreRecorded
    <3>3. BytesAreHeld'
      BY <2>10 DEF StartPut, AnySession, BytesAreHeld
    <3>4. QED
      BY <3>1, <3>2, <3>3 DEF LitterInv
  <2>11. ASSUME NEW g \in File, Rename(g) PROVE LitterInv'
    <3>1. PutsAreInserted'
      BY <2>0, <2>11 DEF Rename, session, history, PutsAreInserted
    <3>2. DeletesAreRecorded'
      BY <2>11 DEF Rename, session, history, DeletesAreRecorded
    <3>3. BytesAreHeld'
      BY <2>11 DEF Rename, session, history, BytesAreHeld
    <3>4. QED
      BY <3>1, <3>2, <3>3 DEF LitterInv
  <2>12. ASSUME NEW s \in Session, WriteFails(s) PROVE LitterInv'
    <3>1. PutsAreInserted'
      BY <2>0, <2>12 DEF WriteFails, Disturb, PutEnds, Without, history, AnySession,
         PutsAreInserted
    <3>2. DeletesAreRecorded'
      BY <2>12 DEF WriteFails, Disturb, PutEnds, Without, history, AnySession,
         DeletesAreRecorded
    <3>3. BytesAreHeld'
      BY <2>12 DEF WriteFails, Disturb, PutEnds, Without, history, AnySession,
         BytesAreHeld
    <3>4. QED
      BY <3>1, <3>2, <3>3 DEF LitterInv
  <2>13. ASSUME NEW s \in Session, InsertFails(s) PROVE LitterInv'
    <3>1. PutsAreInserted'
      BY <2>0, <2>13 DEF InsertFails, PutEnds, Without, history, AnySession,
         PutsAreInserted
    <3>2. DeletesAreRecorded'
      BY <2>13 DEF InsertFails, PutEnds, Without, history, AnySession,
         DeletesAreRecorded
    <3>3. BytesAreHeld'
      BY <2>13 DEF InsertFails, PutEnds, Without, history, AnySession, BytesAreHeld
    <3>4. QED
      BY <3>1, <3>2, <3>3 DEF LitterInv
  <2>14. ASSUME NEW s \in Session, Cancel(s) PROVE LitterInv'
    <3>1. PutsAreInserted'
      BY <2>0, <2>14 DEF Cancel, Disturb, PutEnds, volume, history, AnySession,
         PutsAreInserted
    <3>2. DeletesAreRecorded'
      BY <2>14 DEF Cancel, Disturb, PutEnds, volume, history, AnySession,
         DeletesAreRecorded
    <3>3. BytesAreHeld'
      BY <2>14 DEF Cancel, Disturb, PutEnds, volume, history, AnySession, BytesAreHeld
    <3>4. QED
      BY <3>1, <3>2, <3>3 DEF LitterInv
  <2>15. ASSUME NEW s \in Session, Insert(s) PROVE LitterInv'
    <3>1. /\ [file |-> cur[s], op |-> "insert", path |-> open[s]] \in work'[s]
          /\ work[s] \subseteq work'[s] /\ \A w \in work'[s] \ work[s] : w.op # "delete"
          /\ pend'[s] = pend[s] \cup {[file |-> cur[s], op |-> "put", path |-> open[s]]}
      BY <2>15 DEF Insert, Changes, Recorded, Innermost, AnySession
    <3>2. /\ \A t \in AnySession : t # s => work'[t] = work[t] /\ pend'[t] = pend[t]
          /\ pc' = [pc EXCEPT ![s] = "run"] /\ cur' = [cur EXCEPT ![s] = None] /\ pc[s] = "write"
          /\ cur[s] \notin threads
          /\ UNCHANGED <<row, volume, open, faults>>
      BY <2>15 DEF Insert, PutEnds, AnySession
    <3>3. PutsAreInserted'
      BY <2>0, <3>1, <3>2 DEF PutsAreInserted, AnySession
    <3>4. DeletesAreRecorded'
      BY <3>1, <3>2 DEF DeletesAreRecorded, AnySession
    <3>5. BytesAreHeld'
      <4> DEFINE p == [file |-> cur[s], op |-> "put", path |-> open[s]]
      <4>1. p \in pend'[s] /\ p.file = cur[s] /\ p.op = "put" /\ pend[s] \subseteq pend'[s] /\ pc'[s] = "run"
        BY <3>1, <3>2 DEF AnySession
      <4>2. ASSUME NEW f \in File, Putting(s, f)
            PROVE  f \notin threads /\ \E q \in pend'[s] : q.file = f /\ q.op = "put"
        BY <3>2, <4>1, <4>2
      <4>3. \A t \in AnySession : t # s =>
               pc'[t] = pc[t] /\ cur'[t] = cur[t] /\ pend'[t] = pend[t]
        BY <3>2 DEF AnySession
      <4> HIDE DEF p
      <4>4. QED
        BY <3>2, <4>1, <4>2, <4>3 DEF BytesAreHeld, volume, AnySession
    <3>6. QED
      BY <3>3, <3>4, <3>5 DEF LitterInv
  <2>16. ASSUME NEW s \in Session, NEW g \in File, Delete(s, g) PROVE LitterInv'
    <3>1. PutsAreInserted'
      BY <2>0, <2>16 DEF Delete, RemoveRow, volume, history, Changes, Recorded,
         Innermost, AnySession, PutsAreInserted
    <3>2. DeletesAreRecorded'
      BY <2>16 DEF Delete, RemoveRow, volume, history, Changes, Recorded, Innermost,
         AnySession, DeletesAreRecorded
    <3>3. BytesAreHeld'
      BY <2>16 DEF Delete, RemoveRow, volume, history, Changes, Recorded, Innermost,
         AnySession, BytesAreHeld
    <3>4. QED
      BY <3>1, <3>2, <3>3 DEF LitterInv
  <2>17. ASSUME NEW g \in File, GcDelete(g) PROVE LitterInv'
    <3>1. PutsAreInserted'
      BY <2>0, <2>17 DEF GcDelete, RemoveRow, volume, history, Changes, Recorded,
         Innermost, AnySession, PutsAreInserted
    <3>2. DeletesAreRecorded'
      BY <2>17 DEF GcDelete, RemoveRow, volume, history, Changes, Recorded, Innermost,
         AnySession, DeletesAreRecorded
    <3>3. BytesAreHeld'
      BY <2>17 DEF GcDelete, RemoveRow, volume, history, Changes, Recorded, Innermost,
         AnySession, BytesAreHeld
    <3>4. QED
      BY <3>1, <3>2, <3>3 DEF LitterInv
  <2>18. ASSUME NEW s \in Session, NEW g \in File, MarkStale(s, g) PROVE LitterInv'
    <3>1. PutsAreInserted'
      BY <2>0, <2>18 DEF MarkStale, volume, history, Changes, AnySession,
         PutsAreInserted
    <3>2. DeletesAreRecorded'
      BY <2>18 DEF MarkStale, volume, history, Changes, AnySession, DeletesAreRecorded
    <3>3. BytesAreHeld'
      BY <2>18 DEF MarkStale, volume, history, Changes, AnySession, BytesAreHeld
    <3>4. QED
      BY <3>1, <3>2, <3>3 DEF LitterInv
  <2>19. ASSUME NEW g \in File, GcCheck(g) PROVE LitterInv'
    <3>1. PutsAreInserted'
      BY <2>0, <2>19 DEF GcCheck, volume, history, AnySession, PutsAreInserted
    <3>2. DeletesAreRecorded'
      BY <2>19 DEF GcCheck, volume, history, AnySession, DeletesAreRecorded
    <3>3. BytesAreHeld'
      BY <2>19 DEF GcCheck, volume, history, AnySession, BytesAreHeld
    <3>4. QED
      BY <3>1, <3>2, <3>3 DEF LitterInv
  <2>20. CASE GcUnlink
    <3>1. PutsAreInserted'
      BY <2>0, <2>20 DEF GcUnlink, PutEnds, history, Without, AnySession,
         PutsAreInserted
    <3>2. DeletesAreRecorded'
      BY <2>20 DEF GcUnlink, PutEnds, history, Without, AnySession, DeletesAreRecorded
    <3>3. BytesAreHeld'
      BY <2>20 DEF GcUnlink, PutEnds, history, Without, AnySession, BytesAreHeld
    <3>4. QED
      BY <3>1, <3>2, <3>3 DEF LitterInv
  <2>21. ASSUME NEW g \in File, Age(g) PROVE LitterInv'
    <3>1. PutsAreInserted'
      BY <2>0, <2>21 DEF Age, session, history, PutsAreInserted
    <3>2. DeletesAreRecorded'
      BY <2>21 DEF Age, session, history, DeletesAreRecorded
    <3>3. BytesAreHeld'
      BY <2>21 DEF Age, session, history, BytesAreHeld
    <3>4. QED
      BY <3>1, <3>2, <3>3 DEF LitterInv
  <2>22. ASSUME NEW s \in AnySession, Crash(s) PROVE LitterInv'
    <3>1. PutsAreInserted'
      BY <2>0, <2>22 DEF Crash, Disturb, Ends, history, PutsAreInserted
    <3>2. DeletesAreRecorded'
      BY <2>22 DEF Crash, Disturb, Ends, history, DeletesAreRecorded
    <3>3. BytesAreHeld'
      BY <2>22 DEF Crash, Disturb, Ends, history, BytesAreHeld
    <3>4. QED
      BY <3>1, <3>2, <3>3 DEF LitterInv
  <2>23. CASE UNCHANGED vars
    BY <2>0, <2>23 DEF vars, volume, session, history, LitterInv, PutsAreInserted,
       DeletesAreRecorded, BytesAreHeld
  <2>24. QED
    BY <2>1, <2>2, <2>3, <2>4, <2>5, <2>6, <2>7, <2>8, <2>9, <2>10, <2>11, <2>12, <2>13,
       <2>14, <2>15, <2>16, <2>17, <2>18, <2>19, <2>20, <2>21, <2>22, <2>23
    DEF Next, SessionStep, UserStep, Delete, AnySession
<1>3. TypeOK /\ LitterInv => NoLitter
  BY DEF TypeOK, LitterInv, BytesAreHeld, NoLitter, Putting
<1>4. QED
  BY <1>1, <1>2, <1>3, TypeCorrect, PTL DEF Spec

-----------------------------------------------------------------------------
(* The keys                                                                *)

\* For each file the collector deletes, another of its cache key stays.
OthersStay ==
    \A w \in work[gc] : w.op = "delete" /\ Key[w.file] # NoKey =>
        \/ Key[w.file] \in dropped
        \/ \E g \in File : /\ Key[g] = Key[w.file] /\ row[g] # "none"
                          /\ ~\E v \in work[gc] : v.op = "delete" /\ v.file = g

\* The collector inserts nothing, and deletes only what has a cache key.
CollectorOnlyDeletes ==
    \A w \in work[gc] : w.op = "delete" /\ Key[w.file] # NoKey

KeysInv == KeysKept /\ OthersStay /\ CollectorOnlyDeletes

\* The collection never takes the last file of a cache key.
THEOREM KeysKeptHolds == Spec => []KeysKept
<1>1. Init => KeysInv
  BY FilesAssumption DEF Init, KeysInv, KeysKept, OthersStay, CollectorOnlyDeletes,
     AnySession
<1>2. TypeOK /\ KeysInv /\ [Next]_vars => KeysInv'
  <2> SUFFICES ASSUME TypeOK, KeysInv, [Next]_vars PROVE KeysInv'
    OBVIOUS
  <2> USE FilesAssumption DEF KeysInv, TypeOK, Change, AnySession
  <2>1. ASSUME NEW s \in AnySession, Commit(s) \/ CommitInDoubt(s) PROVE KeysInv'
    <3>1. Committed(s)
      BY <2>1 DEF Commit, CommitInDoubt
    <3>2. \A g \in File :
             /\ row'[g] = Seen(s, g)
             /\ row'[g] = "none" => row[g] = "none" \/ "delete" \in Made(s, g)
             /\ "delete" \in Made(s, g) <=> \E w \in work[s] : w.op = "delete" /\ w.file = g
      BY <3>1 DEF Committed, Seen, Made
    <3>3. CASE s = gc
      <4>1. \A g \in File : row[g] = "none" => row'[g] = "none"
        BY <3>2, <3>3 DEF CollectorOnlyDeletes, Seen, Made
      <4>2. stored' = stored /\ dropped' = dropped /\ work'[gc] = {}
        BY <3>1, <3>2, <3>3, <4>1 DEF Committed
      <4>3. KeysKept'
        BY <3>2, <3>3, <4>2 DEF KeysKept, OthersStay
      <4>4. QED
        BY <4>2, <4>3 DEF OthersStay, CollectorOnlyDeletes
    <3>4. CASE s # gc
      <4>1. /\ work'[gc] = work[gc] /\ dropped \subseteq dropped'
            /\ \A g \in File : row[g] # "none" /\ row'[g] = "none" => Key[g] \in dropped'
        BY <3>1, <3>2, <3>4 DEF Committed
      <4>2. \A k \in stored' \ stored : \E g \in File : Key[g] = k /\ row'[g] # "none"
        BY <3>1 DEF Committed
      <4>3. KeysKept'
        BY <4>1, <4>2 DEF KeysKept
      <4>4. OthersStay' /\ CollectorOnlyDeletes'
        BY <4>1 DEF OthersStay, CollectorOnlyDeletes
      <4>5. QED
        BY <4>3, <4>4
    <3>5. QED
      BY <3>3, <3>4
  <2>2. ASSUME NEW f \in File, GcDelete(f) PROVE KeysInv'
    <3>1. PICK g \in File : Key[g] = Key[f] /\ Seen(gc, g) = "fresh"
      BY <2>2 DEF GcDelete, Superseded
    <3>2. /\ row[g] # "none"
          /\ ~\E w \in work[gc] : w.op = "delete" /\ w.file = g
          /\ g # f
      BY <2>2, <3>1, SeenRow DEF GcDelete, Superseded, CollectorOnlyDeletes
    <3>3. work'[gc] = work[gc] \cup {[file |-> f, op |-> "delete", path |-> open[gc]]}
      BY <2>2 DEF GcDelete, RemoveRow, Changes
    <3>4. Key[f] # NoKey /\ UNCHANGED <<row, stored, dropped>>
      BY <2>2 DEF GcDelete, Superseded, RemoveRow, history
    <3>5. CollectorOnlyDeletes'
      BY <3>3, <3>4 DEF CollectorOnlyDeletes
    <3>6. OthersStay'
      BY <3>1, <3>2, <3>3, <3>4 DEF OthersStay
    <3>7. QED
      BY <3>4, <3>5, <3>6 DEF KeysKept
  <2>3. ASSUME UNCHANGED <<row, stored, dropped>>, work'[gc] \subseteq work[gc] PROVE KeysInv'
    BY <2>3 DEF KeysKept, OthersStay, CollectorOnlyDeletes
  <2>4. ASSUME NEW s \in AnySession,
               \/ Begin(s) \/ Savepoint(s) \/ Release(s) \/ RollbackSavepoint(s) \/ Rollback(s)
               \/ AfterCommit(s) \/ StatementFails(s) \/ Crash(s)
        PROVE  UNCHANGED <<row, stored, dropped>> /\ work'[gc] \subseteq work[gc]
    BY <2>4 DEF Begin, Savepoint, Release, RollbackSavepoint, Rollback, Ends,
       AfterCommit,
                StatementFails, Fails, Crash, history
  <2>5. ASSUME NEW s \in Session,
               \/ WriteFails(s) \/ Cancel(s) \/ Insert(s) \/ InsertFails(s)
               \/ \E f \in File : StartPut(s, f) \/ Delete(s, f) \/ MarkStale(s, f)
        PROVE  UNCHANGED <<row, stored, dropped>> /\ work'[gc] \subseteq work[gc]
    BY <2>5 DEF WriteFails, Cancel, Insert, InsertFails, StartPut, Delete, RemoveRow,
       MarkStale,
                history
  <2>6. ASSUME NEW f \in File, Rename(f) \/ GcCheck(f) \/ Age(f)
        PROVE  UNCHANGED <<row, stored, dropped>> /\ work'[gc] \subseteq work[gc]
    BY <2>6 DEF Rename, GcCheck, Age, session, history
  <2>7. ASSUME GcUnlink \/ UNCHANGED vars
        PROVE  UNCHANGED <<row, stored, dropped>> /\ work'[gc] \subseteq work[gc]
    BY <2>7 DEF GcUnlink, vars, session, history
  <2>8. QED
    BY <2>1, <2>2, <2>3, <2>4, <2>5, <2>6, <2>7 DEF Next, SessionStep, UserStep
<1>3. QED
  BY <1>1, <1>2, TypeCorrect, PTL DEF Spec, KeysInv
=============================================================================
