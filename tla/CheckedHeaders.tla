--------------------------- MODULE CheckedHeaders ---------------------------
(***************************************************************************)
(* A Maker event transformer and its repository                            *)
(* (cat_file/chop_lump/repository.go), run by several transformer          *)
(* processes against one database.  Execute (its behaviour is the one      *)
(* vat_move/transformer_test.go fixes) asks the repository for the headers *)
(* not yet checked for this event, fetches and converts each header's      *)
(* logs, and either stores the events and marks the header checked in one  *)
(* transaction (Create) or, when there are no logs, only marks it          *)
(* (MarkHeaderChecked).  Any error ends Execute.                           *)
(*                                                                         *)
(* Postgres behaviour the model keeps: an INSERT whose unique key another  *)
(* open transaction has inserted waits until that transaction ends, then  *)
(* fails with a duplicate key if it committed; the upsert of a             *)
(* checked_headers row waits on the row lock of an open transaction that  *)
(* upserted the same row.                                                  *)
(***************************************************************************)
EXTENDS Naturals, Sequences, FiniteSets, SequencesExt

CONSTANTS
    Header,         \* rows of public.headers (model values)
    HeaderBlock(_), \* headers.block_number
    HeaderNode(_),  \* headers.eth_node_fingerprint
    ThisNode,       \* repository.db.Node.ID
    Logs(_),        \* the event logs of a header, in the order fetched
    StartingBlock, EndingBlock, \* the transformer config's block range
    Column,         \* this transformer's checked_headers column
    OtherColumns,   \* the columns of the other transformers
    Runners,        \* transformer processes sharing the database
    NoRow,          \* a header with no checked_headers row
    NoHeader,
    MaxErrors       \* bound: fetch, convert or DB errors per runner

Columns == {Column} \cup OtherColumns
EventKey == UNION {{<<h, l>> : l \in ToSet(Logs(h))} : h \in Header}

VARIABLES
    events,     \* maker.cat_file_chop_lump: number of rows per (header, log)
    checkedRow, \* public.checked_headers: header -> column values, or NoRow
    pc,         \* where each runner's Execute is
    todo,       \* the headers MissingHeaders returned, not yet handled
    cur,        \* the header whose Create transaction is open
    pending,    \* events the open Create transaction has inserted
    ckLocked,   \* the open Create transaction has upserted checkedRow[cur]
    errors      \* errors each runner has met

vars == <<events, checkedRow, pc, todo, cur, pending, ckLocked, errors>>

(* Mutated: a new row gets only the inserted column; the others are NULL.  *)
UpsertCheckedOwnColumn(row, c) ==
    IF row = NoRow THEN [x \in {c} |-> TRUE]
                   ELSE [row EXCEPT ![c] = TRUE]

(* Mutated: on conflict the whole row is replaced by the inserted one     *)
(* (DO UPDATE SET every column = EXCLUDED.column), so the other columns    *)
(* fall back to their default, false.                                      *)
UpsertCheckedReplacesRow(row, c) ==
    [x \in Columns |-> x = c]

(* INSERT ... ON CONFLICT (header_id) DO UPDATE SET <column> = true        *)
UpsertChecked(row, c) ==
    IF row = NoRow THEN [x \in Columns |-> x = c]
                   ELSE [row EXCEPT ![c] = TRUE]

IsChecked(h) == checkedRow[h] # NoRow /\ checkedRow[h][Column]

(* MissingHeaders, mutated: the "OR ... IS FALSE" of the WHERE is dropped. *)
MissingHeadersNoRowOnly ==
    {h \in Header : /\ checkedRow[h] = NoRow
                    /\ StartingBlock <= HeaderBlock(h)
                    /\ HeaderBlock(h) <= EndingBlock
                    /\ HeaderNode(h) = ThisNode}

(* LEFT JOIN checked_headers WHERE (header_id ISNULL OR col IS FALSE) and  *)
(* the block range and node fingerprint.                                   *)
MissingHeaders ==
    {h \in Header : /\ ~IsChecked(h)
                    /\ StartingBlock <= HeaderBlock(h)
                    /\ HeaderBlock(h) <= EndingBlock
                    /\ HeaderNode(h) = ThisNode}

(* Another transaction holds a lock this runner's statement waits on.      *)
RowLockedBy(h, S) ==
    \E s \in S : pc[s] = "create" /\ cur[s] = h /\ ckLocked[s]
RowLockedByOther(h, r) == RowLockedBy(h, Runners \ {r})
KeyLockedByOther(k, r) == \E s \in Runners \ {r} : k \in pending[s]

EndTx(r, next) ==
    /\ pc' = [pc EXCEPT ![r] = next]
    /\ cur' = [cur EXCEPT ![r] = NoHeader]
    /\ pending' = [pending EXCEPT ![r] = {}]
    /\ ckLocked' = [ckLocked EXCEPT ![r] = FALSE]

(* Execute starts: one MissingHeaders query, read committed.               *)
ExecuteBegin(r) ==
    /\ pc[r] = "idle"
    /\ todo' = [todo EXCEPT ![r] = MissingHeaders]
    /\ pc' = [pc EXCEPT ![r] = "loop"]
    /\ UNCHANGED <<events, checkedRow, cur, pending, ckLocked, errors>>

ExecuteDone(r) ==
    /\ pc[r] = "loop" /\ todo[r] = {}
    /\ pc' = [pc EXCEPT ![r] = "idle"]
    /\ UNCHANGED <<events, checkedRow, todo, cur, pending, ckLocked, errors>>

(* The fetcher, the converter, db.Begin or MarkHeaderChecked returns an    *)
(* error: Execute returns it and the remaining headers are left.           *)
ExecuteFails(r) ==
    /\ pc[r] = "loop" /\ todo[r] # {}
    /\ errors[r] < MaxErrors
    /\ pc' = [pc EXCEPT ![r] = "idle"]
    /\ errors' = [errors EXCEPT ![r] = @ + 1]
    /\ UNCHANGED <<events, checkedRow, todo, cur, pending, ckLocked>>

(* No logs for the header: MarkHeaderChecked, one autocommit upsert.       *)
MarkHeaderChecked(r, h) ==
    /\ pc[r] = "loop" /\ h \in todo[r] /\ Logs(h) = << >>
    /\ ~RowLockedByOther(h, r)
    /\ checkedRow' = [checkedRow EXCEPT ![h] = UpsertChecked(@, Column)]
    /\ todo' = [todo EXCEPT ![r] = @ \ {h}]
    /\ UNCHANGED <<events, pc, cur, pending, ckLocked, errors>>

(* Logs were converted to models: Create opens its transaction.            *)
CreateBegin(r, h) ==
    /\ pc[r] = "loop" /\ h \in todo[r] /\ Logs(h) # << >>
    /\ pc' = [pc EXCEPT ![r] = "create"]
    /\ cur' = [cur EXCEPT ![r] = h]
    /\ UNCHANGED <<events, checkedRow, todo, pending, ckLocked, errors>>

NextModel(r) == Logs(cur[r])[Cardinality(pending[r]) + 1]

(* Mutated: the models are inserted in no fixed order.                     *)
CreateInsertAnyOrder(r) ==
    /\ pc[r] = "create" /\ Cardinality(pending[r]) < Len(Logs(cur[r]))
    /\ \E l \in ToSet(Logs(cur[r])) :
          LET k == <<cur[r], l>> IN
          /\ k \notin pending[r]
          /\ ~KeyLockedByOther(k, r) /\ events[k] = 0
          /\ pending' = [pending EXCEPT ![r] = @ \cup {k}]
    /\ UNCHANGED <<events, checkedRow, pc, todo, cur, ckLocked, errors>>

(* The loop over models: INSERT the next one into the event table.         *)
CreateInsert(r) ==
    /\ pc[r] = "create" /\ Cardinality(pending[r]) < Len(Logs(cur[r]))
    /\ LET k == <<cur[r], NextModel(r)>> IN
       /\ ~KeyLockedByOther(k, r) /\ events[k] = 0
       /\ pending' = [pending EXCEPT ![r] = @ \cup {k}]
    /\ UNCHANGED <<events, checkedRow, pc, todo, cur, ckLocked, errors>>

(* The INSERT meets a committed row with the same key: duplicate key,      *)
(* Rollback, and Execute returns the error.                                *)
CreateDuplicate(r) ==
    /\ pc[r] = "create" /\ Cardinality(pending[r]) < Len(Logs(cur[r]))
    /\ LET k == <<cur[r], NextModel(r)>> IN
       ~KeyLockedByOther(k, r) /\ events[k] > 0
    /\ EndTx(r, "idle")
    /\ UNCHANGED <<events, checkedRow, todo, errors>>

(* Mutated: the checked_headers upsert goes through repository.db instead  *)
(* of tx, so it commits at once, outside the Create transaction.           *)
CreateMarkCheckedOutsideTx(r) ==
    /\ pc[r] = "create" /\ Cardinality(pending[r]) = Len(Logs(cur[r]))
    /\ ~ckLocked[r] /\ ~RowLockedByOther(cur[r], r)
    /\ checkedRow' = [checkedRow EXCEPT ![cur[r]] = UpsertChecked(@, Column)]
    /\ ckLocked' = [ckLocked EXCEPT ![r] = TRUE]
    /\ UNCHANGED <<events, pc, todo, cur, pending, errors>>

(* After the loop: the checked_headers upsert inside the transaction; it   *)
(* takes the row lock, and its effect is visible to others at Commit.      *)
CreateMarkChecked(r) ==
    /\ pc[r] = "create" /\ Cardinality(pending[r]) = Len(Logs(cur[r]))
    /\ ~ckLocked[r] /\ ~RowLockedByOther(cur[r], r)
    /\ ckLocked' = [ckLocked EXCEPT ![r] = TRUE]
    /\ UNCHANGED <<events, checkedRow, pc, todo, cur, pending, errors>>

(* tx.Commit(): the events and the checked flag become visible together.   *)
CreateCommit(r) ==
    /\ pc[r] = "create" /\ ckLocked[r]
    /\ events' = [k \in EventKey |-> IF k \in pending[r] THEN events[k] + 1
                                                         ELSE events[k]]
    /\ checkedRow' = [checkedRow EXCEPT ![cur[r]] = UpsertChecked(@, Column)]
    /\ todo' = [todo EXCEPT ![r] = @ \ {cur[r]}]
    /\ EndTx(r, "loop")
    /\ UNCHANGED errors

(* A model of the wrong type, a failing INSERT, upsert or Commit:          *)
(* tx.Rollback() and the error ends Execute.                               *)
CreateFails(r) ==
    /\ pc[r] = "create" /\ errors[r] < MaxErrors
    /\ errors' = [errors EXCEPT ![r] = @ + 1]
    /\ EndTx(r, "idle")
    /\ UNCHANGED <<events, checkedRow, todo>>

(* Another transformer marks its own column for a header.                  *)
OtherMarkHeaderChecked(h, c) ==
    /\ ~RowLockedBy(h, Runners)
    /\ checkedRow' = [checkedRow EXCEPT ![h] = UpsertChecked(@, c)]
    /\ UNCHANGED <<events, pc, todo, cur, pending, ckLocked, errors>>

CreateStep(r) ==
    CreateInsert(r) \/ CreateDuplicate(r) \/ CreateMarkChecked(r)
    \/ CreateCommit(r)

Init ==
    /\ events = [k \in EventKey |-> 0]
    /\ checkedRow = [h \in Header |-> NoRow]
    /\ pc = [r \in Runners |-> "idle"]
    /\ todo = [r \in Runners |-> {}]
    /\ cur = [r \in Runners |-> NoHeader]
    /\ pending = [r \in Runners |-> {}]
    /\ ckLocked = [r \in Runners |-> FALSE]
    /\ errors = [r \in Runners |-> 0]

Next ==
    \/ \E r \in Runners :
          \/ ExecuteBegin(r) \/ ExecuteDone(r) \/ ExecuteFails(r)
          \/ \E h \in Header : MarkHeaderChecked(r, h) \/ CreateBegin(r, h)
          \/ CreateStep(r) \/ CreateFails(r)
    \/ \E h \in Header, c \in OtherColumns : OtherMarkHeaderChecked(h, c)

Spec == Init /\ [][Next]_vars

-----------------------------------------------------------------------------
TypeOK ==
    /\ events \in [EventKey -> Nat]
    /\ checkedRow \in [Header -> {NoRow} \cup [Columns -> BOOLEAN]]
    /\ pc \in [Runners -> {"idle", "loop", "create"}]
    /\ todo \in [Runners -> SUBSET Header]
    /\ cur \in [Runners -> Header \cup {NoHeader}]
    /\ pending \in [Runners -> SUBSET EventKey]
    /\ ckLocked \in [Runners -> BOOLEAN]
    /\ errors \in [Runners -> 0..MaxErrors]

StoredLogs(h) == {l \in ToSet(Logs(h)) : events[<<h, l>>] > 0}

(* Create stores a header's events and marks it checked all or nothing,    *)
(* under failures at any statement and runners working from stale          *)
(* MissingHeaders results: no event row is stored twice, a header's events *)
(* are all there or none, and the chop_lump column is true exactly when    *)
(* they are all there (for a header with logs).                            *)
CheckedIffStored ==
    /\ \A k \in EventKey : events[k] <= 1
    /\ \A h \in Header :
          /\ StoredLogs(h) \in {{}, ToSet(Logs(h))}
          /\ IsChecked(h) => StoredLogs(h) = ToSet(Logs(h))
          /\ StoredLogs(h) # {} => IsChecked(h)

(* Two Create transactions never wait on each other: while any is open,    *)
(* one of them can take its next step (Create inserts its models in the    *)
(* order of the logs, so two runners on one header queue on the first).    *)
NoCircularWait ==
    (\E r \in Runners : pc[r] = "create")
        => \E r \in Runners : pc[r] = "create" /\ ENABLED CreateStep(r)

(* Create, MarkHeaderChecked and the other transformers' upserts, with    *)
(* their statement-by-statement transactions, lock waits, duplicate-key    *)
(* errors and rollbacks, implement the repository's promise: each commit   *)
(* or autocommit is one atomic step of CheckedHeadersStore and nothing     *)
(* else changes the event table or checked_headers.                        *)
Store == INSTANCE CheckedHeadersStore
StoreRefinement == Store!Spec

InScope ==
    {h \in Header : /\ StartingBlock <= HeaderBlock(h)
                    /\ HeaderBlock(h) <= EndingBlock
                    /\ HeaderNode(h) = ThisNode}

(* When Execute returns nil, every header of this node in the configured   *)
(* range is checked for this event, also when another transformer created *)
(* its checked_headers row first or another runner handled it.             *)
ExecuteNilCoversRange ==
    [][\A r \in Runners : ExecuteDone(r) => \A h \in InScope : IsChecked(h)]_vars
=============================================================================
