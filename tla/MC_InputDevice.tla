-------------------------- MODULE MC_InputDevice --------------------------
(* Instances of InputDevice for TLC. *)
EXTENDS InputDevice

(* Wheel and tilt ticks with the buttons; bit 2 is one publish ignores. *)
MCReports ==
    [buttons : {{}, {0}, {0, 1}, {1, 2}}, dx : {0}, dy : {0},
     hwheel : {-1, 0}, wheel : {0, 1}]

(* One button and a tick of the wheel with every report. *)
MCOneWheelReports ==
    [buttons : SUBSET {0}, dx : {0}, dy : {0}, hwheel : {0}, wheel : {-1, 1}]

(* The buttons alone. *)
MCButtonReports ==
    [buttons : SUBSET {0, 1}, dx : {0}, dy : {0}, hwheel : {0}, wheel : {0}]
=============================================================================
