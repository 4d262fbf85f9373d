--------------------------- MODULE MC_Discovery ---------------------------
(* Instances of Discovery for TLC: peers and their attribute tables. *)
EXTENDS Discovery

CONSTANTS mouse, combo, keyboard, bare, odd

A(type, notify, id) == [type |-> type, notify |-> notify, id |-> id]

(* A characteristic with its value and descriptors. *)
Chr(type, notify, descriptors) ==
    <<A(type, notify, 0), A("value", FALSE, 0)>> \o descriptors

Service == <<A("service", FALSE, 0)>>
Ref(id) == <<A("ref", FALSE, id)>>
Ccc == <<A("ccc", FALSE, 0)>>
Map == Chr("map", FALSE, <<>>)

(* mouse: one report, no ID.  combo: a pointer, an output report and two     *)
(* more input reports, one past MAX_REPORTS.  keyboard: an input report      *)
(* without a CCC before one whose CCC precedes its reference, and the map    *)
(* last.  bare: a service with neither a map nor reports.  odd: an input     *)
(* report without a reference, before an output report that has one.         *)
MCDB ==
    [p \in Peers |->
       CASE p = mouse -> Service \o Map \o Chr("report", TRUE, Ref(0) \o Ccc)
         [] p = combo -> Service \o Map \o Chr("report", TRUE, Ref(1) \o Ccc)
                           \o Chr("report", FALSE, Ref(9)) \o Chr("report", TRUE, Ref(2) \o Ccc)
                           \o Chr("report", TRUE, Ref(3) \o Ccc) \o Chr("other", FALSE, <<>>)
         [] p = keyboard -> Service \o Chr("report", TRUE, Ref(1))
                              \o Chr("report", TRUE, Ccc \o Ref(2)) \o Map
         [] p = bare -> Service
         [] p = odd -> Service \o Map \o Chr("report", TRUE, Ccc)
                         \o Chr("report", FALSE, Ref(7))]

MCMapLen ==
    [p \in Peers |-> CASE p = combo -> 2 [] OTHER -> 1]

MCPointerId ==
    [p \in Peers |-> CASE p = mouse -> 0 [] p = combo -> 1 [] p = odd -> 3
                       [] OTHER -> NoPointer]
=============================================================================
