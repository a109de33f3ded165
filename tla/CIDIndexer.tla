----------------------------- MODULE CIDIndexer -----------------------------
(***************************************************************************)
(* The ingest pipeline of one worker pool (spec 4.2-4.4): a worker takes a *)
(* payload, the publisher puts its blobs into public.blocks, and the       *)
(* indexer writes its rows into eth.* in one transaction.  Publishing and  *)
(* indexing are separate transactions, so other transactions may commit   *)
(* between them.  The code of the publisher and the indexer is not part of *)
(* this repository's sources: these actions follow the spec and the        *)
(* behaviour cleaner_test.go exercises through CIDIndexer.Index.           *)
(*                                                                         *)
(* lockedRows and lockedBlobs are the rows and blobs another, uncommitted  *)
(* transaction has deleted: an INSERT ... ON CONFLICT on such a row, or a  *)
(* foreign-key check against it, waits until that transaction ends, so     *)
(* the steps that would touch them are not enabled.                        *)
(***************************************************************************)
EXTENDS EthSchema

CONSTANTS
    Workers,        \* the worker pool (model values)
    NoPayload,      \* a worker holding no payload
    MaxValidated    \* bound: a header is not re-ingested past this count

VARIABLES
    rows,           \* committed rows of eth.*
    blobs,          \* committed keys of public.blocks
    timesValidated, \* header_cids.times_validated, per header
    payloadOf,      \* the payload a worker has published and not yet indexed
    lockedRows,     \* rows deleted by an uncommitted transaction
    lockedBlobs     \* blobs deleted by an uncommitted transaction

ingestVars == <<rows, blobs, timesValidated, payloadOf>>

(***************************************************************************)
(* Publisher: a payload arrives (live stream or back-fill, so the same     *)
(* header may arrive again) and every blob is upserted; a blob that is     *)
(* already there is left alone (ON CONFLICT DO NOTHING).  The bound        *)
(* MaxValidated stops re-ingest of one header from growing the state.      *)
(***************************************************************************)
Publish(w, h) ==
    /\ payloadOf[w] = NoPayload
    /\ timesValidated[h] < MaxValidated
    /\ KeysOf(PayloadRows(h)) \cap lockedBlobs = {}
    /\ blobs' = blobs \cup KeysOf(PayloadRows(h))
    /\ payloadOf' = [payloadOf EXCEPT ![w] = h]
    /\ UNCHANGED <<rows, timesValidated>>

\* Step 1 of the indexer's transaction: upsert the header row; on conflict
\* times_validated is incremented, a new row starts at 1.
UpsertHeader(h) ==
    [timesValidated EXCEPT ![h] = IF <<h, "header">> \in rows THEN @ + 1 ELSE 1]

(***************************************************************************)
(* Indexer: one transaction writes the header upsert and every child row  *)
(* (ON CONFLICT DO NOTHING) and commits.  It waits while any of those rows *)
(* is deleted by an uncommitted transaction.                               *)
(***************************************************************************)
Index(w) ==
    LET h == payloadOf[w] IN
    /\ h # NoPayload
    /\ PayloadRows(h) \cap lockedRows = {}
    /\ rows' = rows \cup PayloadRows(h)
    /\ timesValidated' = UpsertHeader(h)
    /\ payloadOf' = [payloadOf EXCEPT ![w] = NoPayload]
    /\ UNCHANGED blobs

\* Any statement of the indexer's transaction fails: it rolls back and the
\* payload is dropped by this worker, to be delivered again later.
IndexFails(w) ==
    /\ payloadOf[w] # NoPayload
    /\ payloadOf' = [payloadOf EXCEPT ![w] = NoPayload]
    /\ UNCHANGED <<rows, blobs, timesValidated>>

Init ==
    /\ rows = {}
    /\ blobs = {}
    /\ timesValidated = [h \in Headers |-> 0]
    /\ payloadOf = [w \in Workers |-> NoPayload]

Next ==
    \/ \E w \in Workers, h \in Headers : Publish(w, h)
    \/ \E w \in Workers : Index(w) \/ IndexFails(w)
=============================================================================
