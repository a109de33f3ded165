----------------------------- MODULE EthCleaner -----------------------------
(***************************************************************************)
(* DBCleaner (pkg/eth/cleaner.go): Clean(rngs, t) and                      *)
(* ResetValidation(rngs).                                                  *)
(*                                                                         *)
(* Clean runs one transaction over every range: for each range, the       *)
(* statement list of clean() in order, then Commit, then the VACUUM       *)
(* ANALYZE statements of vacuumAnalyze() outside the transaction.  Each    *)
(* statement is a step: at read committed a statement sees the rows other  *)
(* transactions have committed when it starts, minus the rows this         *)
(* transaction has already deleted.  Deletions are pending until Commit.   *)
(***************************************************************************)
EXTENDS EthSchema

CONSTANTS
    RangeLists,     \* the rngs arguments an operator may pass
    CleanTypes      \* the t arguments an operator may pass (within DataTypes)

VARIABLES
    rows, blobs, timesValidated,
    cleanerState,   \* "idle" | "running" (in the transaction) | "vacuuming"
    cleanRanges,    \* rngs of the current Clean
    cleanType,      \* t of the current Clean
    rangeIdx,       \* index of the range being cleaned
    stepIdx,        \* index of the next statement (or VACUUM)
    pendingRows,    \* rows deleted by the open transaction
    pendingBlobs,   \* blobs deleted by the open transaction
    touched,        \* tables this Clean has deleted from
    vacuumed        \* tables this Clean has vacuumed

cleanerVars == <<cleanerState, cleanRanges, cleanType, rangeIdx, stepIdx,
                 pendingRows, pendingBlobs, touched, vacuumed>>

\* Clean returns: its locals are gone (an idle cleaner keeps no arguments).
ToIdle ==
    /\ cleanerState' = "idle"
    /\ cleanRanges' = << >>
    /\ cleanType' = "Full"
    /\ rangeIdx' = 1
    /\ stepIdx' = 1
    /\ touched' = {}
    /\ vacuumed' = {}

\* Rows as this transaction sees them.
Visible == rows \ pendingRows

(***************************************************************************)
(* The two statement shapes of clean():                                    *)
(*   cleanXIPLDs: DELETE FROM public.blocks A USING <kind table, parents>  *)
(*     WHERE A.key = B.mh_key AND ... block_number BETWEEN $1 AND $2       *)
(*   cleanXMetaData: DELETE FROM <kind table> USING <parents> WHERE ...    *)
(*     block_number BETWEEN $1 AND $2 (the foreign keys cascade).          *)
(* The joins through parent rows are implied by the foreign keys: a child  *)
(* row exists only under its parents.                                      *)
(***************************************************************************)
DeleteIPLDs(k, rng) ==
    pendingBlobs \cup (KeysOf(RowsIn(Visible, {k}, rng)) \cap blobs)

DeleteMetaData(k, rng) ==
    pendingRows \cup RowsIn(Visible, Cascade(k), rng)

\* Clean: c.db.Beginx() succeeds and the range loop starts.
CleanBegin(rngs, t) ==
    /\ cleanerState = "idle"
    /\ cleanerState' = "running"
    /\ cleanRanges' = rngs
    /\ cleanType' = t
    /\ rangeIdx' = 1
    /\ stepIdx' = 1
    /\ touched' = {}
    /\ vacuumed' = {}
    /\ UNCHANGED <<rows, blobs, timesValidated, pendingRows, pendingBlobs>>

\* One statement of clean(tx, rng, t) succeeds.  After the last statement
\* of a range the loop moves to the next range.
CleanStatement ==
    LET steps == CleanSteps(cleanType)
        s     == steps[stepIdx]
        rng   == cleanRanges[rangeIdx]
    IN
    /\ cleanerState = "running"
    /\ rangeIdx <= Len(cleanRanges)
    /\ cleanType \in KnownTypes
    /\ IF s.op = "ipld"
       THEN /\ pendingBlobs' = DeleteIPLDs(s.kind, rng)
            /\ UNCHANGED pendingRows
       ELSE /\ pendingRows' = DeleteMetaData(s.kind, rng)
            /\ UNCHANGED pendingBlobs
    /\ touched' = touched \cup StmtTables(s)
    /\ IF stepIdx = Len(steps)
       THEN rangeIdx' = rangeIdx + 1 /\ stepIdx' = 1
       ELSE stepIdx' = stepIdx + 1 /\ UNCHANGED rangeIdx
    /\ UNCHANGED <<rows, blobs, timesValidated, cleanerState, cleanRanges,
                   cleanType, vacuumed>>

\* Abandoning the transaction: shared.Rollback(tx) and return the error.
Rollback ==
    /\ ToIdle
    /\ pendingRows' = {}
    /\ pendingBlobs' = {}
    /\ UNCHANGED <<rows, blobs, timesValidated>>

\* Mutated: the error path returns without shared.Rollback(tx); the open
\* transaction, with the row and blob locks of its deletes, is abandoned.
CleanStatementFailsNoRollback ==
    /\ cleanerState = "running"
    /\ rangeIdx <= Len(cleanRanges)
    /\ ToIdle
    /\ UNCHANGED <<rows, blobs, timesValidated, pendingRows, pendingBlobs>>

\* A statement of clean() fails, or clean() reaches its default branch
\* (unrecognized type): rollback, and the remaining ranges are skipped.
CleanStatementFails ==
    /\ cleanerState = "running"
    /\ rangeIdx <= Len(cleanRanges)
    /\ Rollback

\* Fault (mutation analysis): the commit applies the deletes but the
\* transaction's row and blob locks outlive it.
CleanCommitKeepsLocks ==
    /\ cleanerState = "running"
    /\ rangeIdx > Len(cleanRanges)
    /\ rows' = rows \ pendingRows
    /\ blobs' = blobs \ pendingBlobs
    /\ timesValidated' = [h \in Headers |->
                            IF <<h, "header">> \in pendingRows THEN 0
                            ELSE timesValidated[h]]
    /\ cleanerState' = "vacuuming"
    /\ stepIdx' = 1
    /\ UNCHANGED <<pendingRows, pendingBlobs, cleanRanges, cleanType,
                   rangeIdx, touched, vacuumed>>

\* tx.Commit() after the last range: the deletions become visible at once.
\* A purged header row takes its times_validated with it.
CleanCommit ==
    /\ cleanerState = "running"
    /\ rangeIdx > Len(cleanRanges)
    /\ rows' = rows \ pendingRows
    /\ blobs' = blobs \ pendingBlobs
    /\ timesValidated' = [h \in Headers |->
                            IF <<h, "header">> \in pendingRows THEN 0
                            ELSE timesValidated[h]]
    /\ pendingRows' = {}
    /\ pendingBlobs' = {}
    /\ cleanerState' = "vacuuming"
    /\ stepIdx' = 1
    /\ UNCHANGED <<cleanRanges, cleanType, rangeIdx, touched, vacuumed>>

\* tx.Commit() fails: the transaction is gone, the error is returned.
CleanCommitFails ==
    /\ cleanerState = "running"
    /\ rangeIdx > Len(cleanRanges)
    /\ Rollback

\* vacuumAnalyze(t): the next VACUUM ANALYZE succeeds.
Vacuum ==
    /\ cleanerState = "vacuuming"
    /\ stepIdx <= Len(VacuumSteps(cleanType))
    /\ vacuumed' = vacuumed \cup {VacuumSteps(cleanType)[stepIdx]}
    /\ stepIdx' = stepIdx + 1
    /\ UNCHANGED <<rows, blobs, timesValidated, cleanerState, cleanRanges,
                   cleanType, rangeIdx, pendingRows, pendingBlobs, touched>>

\* vacuumAnalyze returns nil after the last VACUUM: Clean returns nil.
VacuumDone ==
    /\ cleanerState = "vacuuming"
    /\ cleanType \in KnownTypes
    /\ stepIdx > Len(VacuumSteps(cleanType))
    /\ ToIdle
    /\ UNCHANGED <<rows, blobs, timesValidated, pendingRows, pendingBlobs>>

\* A VACUUM fails, or vacuumAnalyze reaches its unrecognized-type branch:
\* Clean returns an error although its deletes are committed.
VacuumFails ==
    /\ cleanerState = "vacuuming"
    /\ \/ cleanType \in KnownTypes /\ stepIdx <= Len(VacuumSteps(cleanType))
       \/ cleanType \notin KnownTypes
    /\ ToIdle
    /\ UNCHANGED <<rows, blobs, timesValidated, pendingRows, pendingBlobs>>

(***************************************************************************)
(* ResetValidation(rngs): one transaction of UPDATE ... SET                *)
(* times_validated = 0 WHERE block_number BETWEEN per range.  A failing   *)
(* statement rolls back and changes nothing, so only success is a step.    *)
(* The UPDATE waits on header rows an open Clean has deleted.              *)
(***************************************************************************)
ResetValidation(rngs) ==
    LET inRanges(h) == \E i \in 1..Len(rngs) : InRange(BlockNumber[h], rngs[i])
    IN
    /\ \A h \in Headers : inRanges(h) => <<h, "header">> \notin pendingRows
    /\ timesValidated' = [h \in Headers |->
                            IF <<h, "header">> \in rows /\ inRanges(h) THEN 0
                            ELSE timesValidated[h]]
    /\ UNCHANGED <<rows, blobs>>
    /\ UNCHANGED cleanerVars

\* The steps of a Clean in progress (what the cleaner goroutine does next).
CleanProgress ==
    \/ CleanStatement \/ CleanStatementFails
    \/ CleanCommit \/ CleanCommitFails
    \/ Vacuum \/ VacuumDone \/ VacuumFails

Init ==
    /\ cleanerState = "idle"
    /\ cleanRanges = << >>
    /\ cleanType = "Full"
    /\ rangeIdx = 1
    /\ stepIdx = 1
    /\ pendingRows = {}
    /\ pendingBlobs = {}
    /\ touched = {}
    /\ vacuumed = {}

Next ==
    \/ \E rngs \in RangeLists, t \in CleanTypes : CleanBegin(rngs, t)
    \/ CleanProgress
    \/ \E rngs \in RangeLists : ResetValidation(rngs)
=============================================================================
