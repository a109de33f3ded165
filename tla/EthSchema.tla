----------------------------- MODULE EthSchema -----------------------------
(***************************************************************************)
(* The relational schema the indexer and the cleaner share (eth.* tables   *)
(* and public.blocks), abstracted for model checking.                      *)
(*                                                                         *)
(* A header is a model value standing for one (block_hash,                 *)
(* eth_node_fingerprint) pair; BlockNumber gives its height, so two        *)
(* headers with one number are competing forks.  A metadata row is the    *)
(* pair <<h, k>>: the row of kind k that the payload of header h writes.   *)
(* The payload of h has at most one row of each kind: siblings of one kind *)
(* (two transactions, two state nodes) are deleted by the same statements  *)
(* and differ only in their mh_key, which MhKey covers by letting keys be  *)
(* shared between rows.  A blob is its mh_key.                             *)
(***************************************************************************)
EXTENDS Naturals, Sequences, FiniteSets

CONSTANTS
    Headers,        \* header identities (model values)
    BlockNumber,    \* [Headers -> Nat]: header_cids.block_number
    Present(_),     \* the kinds of row the payload of a header carries
    MhKey(_, _)     \* MhKey(h, k): mh_key of the row of kind k of header h

Kinds == {"header", "uncle", "tx", "rct", "state", "storage"}

Row == Headers \X Kinds

\* The kinds whose rows go when a row of kind k is deleted: the foreign
\* keys are ON DELETE CASCADE (a header delete empties every eth table).
Cascade(k) ==
    CASE k = "header" -> Kinds
      [] k = "tx"     -> {"tx", "rct"}
      [] k = "state"  -> {"state", "storage"}
      [] OTHER        -> {k}

\* The rows and blobs a payload of header h produces.
PayloadRows(h) == {<<h, k>> : k \in Present(h)}
KeysOf(rs) == {MhKey(r[1], r[2]) : r \in rs}

\* `block_number BETWEEN $1 AND $2` for one range rng = <<lo, hi>>.
InRange(n, rng) == rng[1] <= n /\ n <= rng[2]

\* The rows of V whose kind is in ks and whose header lies in rng.
RowsIn(V, ks, rng) == {r \in V : r[2] \in ks /\ InRange(BlockNumber[r[1]], rng)}

(***************************************************************************)
(* shared.DataType, and the statement list clean() runs for each: a        *)
(* statement is [op |-> "ipld", kind |-> k] (DELETE FROM public.blocks     *)
(* USING the rows of kind k in range) or [op |-> "meta", kind |-> k]       *)
(* (DELETE FROM the table of kind k, cascading).  A type outside           *)
(* KnownTypes reaches the default branch.                                  *)
(***************************************************************************)
KnownTypes == {"Full", "Headers", "Uncles", "Transactions", "Receipts",
               "State", "Storage"}
DataTypes == KnownTypes \cup {"Unknown"}

Ipld(k) == [op |-> "ipld", kind |-> k]
Meta(k) == [op |-> "meta", kind |-> k]

\* Fault (mutation analysis): cleanFull deletes the header rows first, so the
\* cascade removes the rows the IPLD deletes would have joined on.
CleanFullStepsMetaFirst ==
    << Meta("header"), Ipld("storage"), Ipld("state"), Ipld("rct"),
       Ipld("tx"), Ipld("uncle"), Ipld("header") >>

CleanFullSteps ==
    << Ipld("storage"), Ipld("state"), Ipld("rct"), Ipld("tx"),
       Ipld("uncle"), Ipld("header"), Meta("header") >>

\* Fault (mutation analysis): the Transactions case returns after deleting
\* the IPLDs, without cleanTransactionMetaData.
CleanStepsNoTxMeta(t) ==
    CASE t \in {"Full", "Headers"} -> CleanFullSteps
      [] t = "Uncles"       -> << Ipld("uncle"), Meta("uncle") >>
      [] t = "Transactions" -> << Ipld("rct"), Ipld("tx") >>
      [] t = "Receipts"     -> << Ipld("rct"), Meta("rct") >>
      [] t = "State"        -> << Ipld("storage"), Ipld("state"), Meta("state") >>
      [] t = "Storage"      -> << Ipld("storage"), Meta("storage") >>
      [] OTHER              -> << >>

CleanSteps(t) ==
    CASE t \in {"Full", "Headers"} -> CleanFullSteps
      [] t = "Uncles"       -> << Ipld("uncle"), Meta("uncle") >>
      [] t = "Transactions" -> << Ipld("rct"), Ipld("tx"), Meta("tx") >>
      [] t = "Receipts"     -> << Ipld("rct"), Meta("rct") >>
      [] t = "State"        -> << Ipld("storage"), Ipld("state"), Meta("state") >>
      [] t = "Storage"      -> << Ipld("storage"), Meta("storage") >>
      [] OTHER              -> << >>

\* The kind of row each DataType targets: its rows, and by cascade their
\* descendants, are what a Clean of that type removes.
TargetKind(t) ==
    CASE t \in {"Full", "Headers"} -> "header"
      [] t = "Uncles"       -> "uncle"
      [] t = "Transactions" -> "tx"
      [] t = "Receipts"     -> "rct"
      [] t = "State"        -> "state"
      [] t = "Storage"      -> "storage"
      [] OTHER              -> "none"

(***************************************************************************)
(* Tables, for the VACUUM ANALYZE that follows a Clean.                    *)
(***************************************************************************)
TableOf == [header |-> "header_cids", uncle |-> "uncle_cids",
            tx |-> "transaction_cids", rct |-> "receipt_cids",
            state |-> "state_cids", storage |-> "storage_cids"]

\* The tables a statement deletes rows from (state_accounts hangs off
\* state_cids by a cascading foreign key).
StmtTables(s) ==
    IF s.op = "ipld"
    THEN {"blocks"}
    ELSE {TableOf[k] : k \in Cascade(s.kind)}
         \cup (IF "state" \in Cascade(s.kind) THEN {"state_accounts"} ELSE {})

VacuumFull ==
    << "header_cids", "uncle_cids", "transaction_cids", "receipt_cids",
       "state_cids", "state_accounts", "storage_cids" >>

\* vacuumAnalyze(t): the VACUUM statements in order; a Full or Headers
\* clean returns vacuumFull() without reaching vacuumIPLDs().
VacuumSteps(t) ==
    CASE t \in {"Full", "Headers"} -> VacuumFull
      [] t = "Uncles"       -> << "uncle_cids", "blocks" >>
      [] t = "Transactions" -> << "transaction_cids", "receipt_cids", "blocks" >>
      [] t = "Receipts"     -> << "receipt_cids", "blocks" >>
      [] t = "State"        -> << "state_cids", "state_accounts", "storage_cids", "blocks" >>
      [] t = "Storage"      -> << "storage_cids", "blocks" >>
      [] OTHER              -> << >>
=============================================================================
