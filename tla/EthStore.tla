------------------------------ MODULE EthStore ------------------------------
(***************************************************************************)
(* What the store promises its users (spec 3, 4.6, 8): the committed       *)
(* content of eth.* and public.blocks, changed only by whole operations.   *)
(* A Clean is one atomic step that removes the rows of its kind (and       *)
(* their descendants) in its ranges, and exactly the blobs that no         *)
(* surviving row references any more.  A failed operation is no step.      *)
(***************************************************************************)
EXTENDS EthSchema

CONSTANTS RangeLists, CleanTypes

VARIABLES rows, blobs, timesValidated

vars == <<rows, blobs, timesValidated>>

\* The rows a Clean of type t over rngs removes from R.
CleanTarget(R, rngs, t) ==
    UNION {RowsIn(R, Cascade(TargetKind(t)), rngs[i]) : i \in 1..Len(rngs)}

PublishBlobs(h) ==
    /\ blobs' = blobs \cup KeysOf(PayloadRows(h))
    /\ UNCHANGED <<rows, timesValidated>>

IndexPayload(h) ==
    /\ rows' = rows \cup PayloadRows(h)
    /\ timesValidated' = [timesValidated EXCEPT
                            ![h] = IF <<h, "header">> \in rows THEN @ + 1 ELSE 1]
    /\ UNCHANGED blobs

CleanAtomically(rngs, t) ==
    LET gone == CleanTarget(rows, rngs, t) IN
    /\ t \in KnownTypes
    /\ rows' = rows \ gone
    /\ blobs' = blobs \ (KeysOf(gone) \ KeysOf(rows \ gone))
    /\ timesValidated' = [h \in Headers |->
                            IF <<h, "header">> \in gone THEN 0 ELSE timesValidated[h]]

ResetAll(rngs) ==
    /\ timesValidated' = [h \in Headers |->
                            IF /\ <<h, "header">> \in rows
                               /\ \E i \in 1..Len(rngs) : InRange(BlockNumber[h], rngs[i])
                            THEN 0 ELSE timesValidated[h]]
    /\ UNCHANGED <<rows, blobs>>

Init ==
    /\ rows = {}
    /\ blobs = {}
    /\ timesValidated = [h \in Headers |-> 0]

Next ==
    \/ \E h \in Headers : PublishBlobs(h) \/ IndexPayload(h)
    \/ \E rngs \in RangeLists, t \in CleanTypes : CleanAtomically(rngs, t)
    \/ \E rngs \in RangeLists : ResetAll(rngs)

Spec == Init /\ [][Next]_vars
=============================================================================
