------------------------- MODULE CheckedHeadersStore -------------------------
(***************************************************************************)
(* What an event repository promises the transformers that share the      *)
(* database: a header's events of this type are stored once, all          *)
(* together and in the same step that marks the header checked for this   *)
(* event; a header without such logs is only marked; and a column, once    *)
(* true, stays true, whoever marks another column of the same row.         *)
(* Runners, transactions, locks and failures are not visible here: a      *)
(* failed Create is no step.                                                *)
(***************************************************************************)
EXTENDS Naturals, Sequences, SequencesExt

CONSTANTS Header, Logs(_), Column, OtherColumns, NoRow

VARIABLES events, checkedRow

vars == <<events, checkedRow>>

AllColumns == {Column} \cup OtherColumns

\* The row after column c is set: a new row has every other column false.
SetColumn(row, c) ==
    IF row = NoRow THEN [x \in AllColumns |-> x = c]
                   ELSE [row EXCEPT ![c] = TRUE]

LogKeys(h) == {<<h, l>> : l \in ToSet(Logs(h))}

\* A header's events are stored, each once, and it is marked checked.
RecordEvents(h) ==
    /\ Logs(h) # << >>
    /\ \A k \in LogKeys(h) : events[k] = 0
    /\ events' = [k \in DOMAIN events |-> IF k \in LogKeys(h) THEN 1 ELSE events[k]]
    /\ checkedRow' = [checkedRow EXCEPT ![h] = SetColumn(@, Column)]

\* A header with no logs of this event is marked checked.
MarkChecked(h) ==
    /\ Logs(h) = << >>
    /\ checkedRow' = [checkedRow EXCEPT ![h] = SetColumn(@, Column)]
    /\ UNCHANGED events

\* Another transformer marks its own column.
MarkOther(h, c) ==
    /\ checkedRow' = [checkedRow EXCEPT ![h] = SetColumn(@, c)]
    /\ UNCHANGED events

Init ==
    /\ events = [k \in UNION {LogKeys(h) : h \in Header} |-> 0]
    /\ checkedRow = [h \in Header |-> NoRow]

Next ==
    \E h \in Header :
        \/ RecordEvents(h) \/ MarkChecked(h)
        \/ \E c \in OtherColumns : MarkOther(h, c)

Spec == Init /\ [][Next]_vars
==============================================================================
