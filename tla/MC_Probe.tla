----------------------------- MODULE MC_Probe -----------------------------
(* An instance of Probe for TLC. *)
EXTENDS Probe

CONSTANTS mouse, combo

A(type, notify) == [type |-> type, notify |-> notify]

Service == <<A("service", FALSE)>>
Report(notify) == <<A("report", notify), A("value", FALSE)>>
Ccc == <<A("ccc", FALSE)>>

(* mouse: two input reports around an output report.  combo: an input report *)
(* without a CCC, and two with one, the last past MAX_REPORTS.               *)
MCDB ==
    [p \in Peers |-> Service \o
       IF p = mouse
       THEN Report(TRUE) \o Ccc \o Report(FALSE) \o Report(TRUE) \o Ccc
       ELSE Report(TRUE) \o Report(TRUE) \o Ccc \o Report(TRUE) \o Ccc]

(* mouse says what it is, and its name in a scan response.  combo has the    *)
(* HID service but is no pointer: only a bond makes it a target.             *)
MCAds ==
    [p \in Peers |->
       IF p = mouse THEN {{"connectable", "hids", "mouse"}, {"pointer name"}}
       ELSE {{"connectable", "hids"}}]
=============================================================================
