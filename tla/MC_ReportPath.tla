--------------------------- MODULE MC_ReportPath ---------------------------
(* Instances of ReportPath for TLC. *)
EXTENDS ReportPath

CONSTANTS mouse, combo

A(type, notify, id) == [type |-> type, notify |-> notify, id |-> id]

Chr(type, notify, descriptors) ==
    <<A(type, notify, 0), A("value", FALSE, 0)>> \o descriptors

Input(id) == Chr("report", TRUE, <<A("ref", FALSE, id), A("ccc", FALSE, 0)>>)
Head2 == <<A("service", FALSE, 0)>> \o Chr("map", FALSE, <<>>)

(* mouse: one report, ID 1.  combo: a keyboard report, ID 2, ahead of the    *)
(* pointer's, which has ID 1 as well.                                        *)
MCDB ==
    [p \in Peers |-> IF p = mouse THEN Head2 \o Input(1)
                     ELSE Head2 \o Input(2) \o Input(1)]

MCMapLen == [p \in Peers |-> 1]

MCPointerId == [p \in Peers |-> 1]
=============================================================================
