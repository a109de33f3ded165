--------------------------- MODULE MC_EthIndexer ---------------------------
(***************************************************************************)
(* Instances of EthIndexer for TLC.  The headers and their payloads mirror *)
(* the fixture of cleaner_test.go: block 0 carries every kind of row,      *)
(* block 1 a header, a transaction, its receipt and a state node.          *)
(***************************************************************************)
EXTENDS EthIndexer, TLC

CONSTANTS h1, h2

MCHeaders == {h1, h2}
MCBlockNumber == (h1 :> 0) @@ (h2 :> 1)

MCPresent(h) ==
    IF h = h1 THEN Kinds ELSE {"header", "tx", "rct", "state"}

\* Content addressing with no two rows sharing bytes.
DisjointMhKey(h, k) == <<h, k>>

\* The state node at path 0x01 has the same bytes at both blocks (an account
\* changed and changed back), so both state rows reference one blob.
SharedMhKey(h, k) == IF k = "state" THEN <<"state", "0x01">> ELSE <<h, k>>

MCRangeLists ==
    { << >>, << <<0, 0>> >>, << <<0, 1>> >>, << <<0, 0>>, <<1, 1>> >> }

\* A smaller operator repertoire for the liveness run: two ranges, so a
\* statement of the second range can fail while the first range's rows are
\* deleted and locked, and a Clean that removes whole payloads or one leaf
\* kind.
MCProgressRangeLists == { << <<0, 0>>, <<1, 1>> >> }
MCProgressTypes == {"Full", "Transactions"}
=============================================================================
