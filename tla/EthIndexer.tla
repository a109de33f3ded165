----------------------------- MODULE EthIndexer -----------------------------
(***************************************************************************)
(* The indexer's write path and the cleaner against one database: the      *)
(* worker pool of CIDIndexer and the DBCleaner of EthCleaner share eth.*,  *)
(* public.blocks and times_validated.  The rows and blobs the cleaner's    *)
(* open transaction has deleted are the locks an ingest step waits on.     *)
(*                                                                         *)
(* PauseIngestDuringClean is the operating policy the spec suggests for   *)
(* its open question: no Clean starts while a payload is between publish  *)
(* and index, and no payload is published while a Clean runs.             *)
(***************************************************************************)
EXTENDS EthSchema

CONSTANTS Workers, NoPayload, MaxValidated, RangeLists, CleanTypes,
          PauseIngestDuringClean

VARIABLES
    rows, blobs, timesValidated, payloadOf,
    cleanerState, cleanRanges, cleanType, rangeIdx, stepIdx,
    pendingRows, pendingBlobs, touched, vacuumed

cleanerVars == <<cleanerState, cleanRanges, cleanType, rangeIdx, stepIdx,
                 pendingRows, pendingBlobs, touched, vacuumed>>
vars == <<rows, blobs, timesValidated, payloadOf, cleanerVars>>

Idx == INSTANCE CIDIndexer WITH lockedRows <- pendingRows, lockedBlobs <- pendingBlobs
Cl  == INSTANCE EthCleaner

IngestIdle == \A w \in Workers : payloadOf[w] = NoPayload

PublishStep(w, h) ==
    /\ PauseIngestDuringClean => cleanerState = "idle"
    /\ Idx!Publish(w, h)
    /\ UNCHANGED <<cleanerVars, pendingRows, pendingBlobs>>

IndexStep(w) ==
    /\ Idx!Index(w) \/ Idx!IndexFails(w)
    /\ UNCHANGED <<cleanerVars, pendingRows, pendingBlobs>>

CleanStart(rngs, t) ==
    /\ PauseIngestDuringClean => IngestIdle
    /\ Cl!CleanBegin(rngs, t)
    /\ UNCHANGED payloadOf

CleanerStep ==
    /\ \/ Cl!CleanProgress
       \/ \E rngs \in RangeLists : Cl!ResetValidation(rngs)
    /\ UNCHANGED payloadOf

Init == Idx!Init /\ Cl!Init

Next ==
    \/ \E w \in Workers, h \in Headers : PublishStep(w, h)
    \/ \E w \in Workers : IndexStep(w)
    \/ \E rngs \in RangeLists, t \in CleanTypes : CleanStart(rngs, t)
    \/ CleanerStep

\* The cleaner goroutine issues its statements one after another and every
\* database call returns, with a result or an error, within its deadline:
\* a Clean in progress keeps taking steps.  No fairness is assumed of the
\* workers, so a worker may hold its payload for as long as it likes.
Fairness ==
    WF_vars(Cl!CleanProgress /\ UNCHANGED payloadOf)

Spec == Init /\ [][Next]_vars /\ Fairness

-----------------------------------------------------------------------------
(***************************************************************************)
(* Properties                                                              *)
(***************************************************************************)

TypeOK ==
    /\ rows \subseteq Row
    /\ blobs \subseteq {MhKey(r[1], r[2]) : r \in Row}
    /\ timesValidated \in [Headers -> 0..(MaxValidated + Cardinality(Workers))]
    /\ payloadOf \in [Workers -> Headers \cup {NoPayload}]
    /\ cleanerState \in {"idle", "running", "vacuuming"}
    /\ cleanType \in DataTypes
    /\ pendingRows \subseteq rows
    /\ pendingBlobs \subseteq blobs

\* Spec invariant 3.1 / property 8.2: every mh_key a committed metadata row
\* references resolves in public.blocks.  The cleaner deletes blobs by
\* joining on the rows it is about to delete, and the publisher and the
\* indexer write a payload in two transactions.
BlobBeforeRow ==
    \A r \in rows : MhKey(r[1], r[2]) \in blobs

\* The statement-by-statement Clean transaction, with its failures, is an
\* atomic Clean of the abstract store: its commit removes exactly the rows of
\* its kind and their descendants in range, and exactly the blobs no
\* surviving row references (spec 8.3, 8.4); a failure removes nothing.
Store == INSTANCE EthStore
StoreRefinement == Store!Spec

\* A worker whose index transaction waits on rows the cleaner's open
\* transaction deleted is not blocked forever: however the Clean ends
\* (commit, failed statement, failed commit), its row locks are released
\* and the index step can run.
IndexNotBlockedForever ==
    \A w \in Workers :
        payloadOf[w] # NoPayload ~> (payloadOf[w] = NoPayload \/ ENABLED Idx!Index(w))

\* Clean's comment: after the commit it vacuum-analyzes the cleaned tables.
\* When Clean returns nil, every table it deleted from has been vacuumed.
CleanedTablesVacuumed ==
    [][Cl!VacuumDone => touched \subseteq vacuumed]_vars

\* Spec 4.6: Clean deletes "inside one transaction per range", and an error
\* rolls back "the current range's transaction" and aborts the remaining
\* ranges.  So when a statement of a later range fails, the ranges before
\* it stay cleaned: none of the rows Clean targets remain there.
EarlierRangesStayCleaned ==
    [][(Cl!CleanStatementFails /\ cleanType \in KnownTypes /\ rangeIdx > 1)
         => \A i \in 1..(rangeIdx - 1) :
               RowsIn(rows', Cascade(TargetKind(cleanType)), cleanRanges[i]) = {}]_vars
=============================================================================
