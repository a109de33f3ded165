------------------------- MODULE MC_CheckedHeaders -------------------------
(***************************************************************************)
(* Three headers, as in the repository test of vat_move/transformer_test: *)
(* one with two event logs, one with none (marked checked without a        *)
(* Create), and one fetched by another node in the same block range.       *)
(***************************************************************************)
EXTENDS CheckedHeaders, TLC

CONSTANTS hA, hB, hC, l1, l2, node1, node2

MCHeader == {hA, hB, hC}
MCHeaderBlock(h) == IF h = hA THEN 0 ELSE 1
MCHeaderNode(h) == IF h = hC THEN node2 ELSE node1
MCLogs(h) == IF h = hA THEN <<l1, l2>> ELSE << >>
=============================================================================
