----------------------------- MODULE Reconnect -----------------------------
(***************************************************************************)
(* What the dongle promises about connections, without saying how: once it *)
(* is up it is searching, attempting one peer, or linked to one peer; it   *)
(* is linked only to the peer it attempted; and it goes back to searching, *)
(* never to anything else, when an attempt fails or a link is lost.        *)
(* ScanConnect implements it.                                              *)
(***************************************************************************)
CONSTANTS Peers, None

VARIABLES
    phase,      \* "down", "searching", "attempting" or "linked"
    peer        \* the peer attempted or linked to, else None

PowerUp == phase = "down" /\ phase' = "searching" /\ UNCHANGED peer

Attempt(p) ==
    /\ phase = "searching"
    /\ phase' = "attempting" /\ peer' = p

Succeed == phase = "attempting" /\ phase' = "linked" /\ UNCHANGED peer

SearchAgain ==
    /\ phase \in {"attempting", "linked"}
    /\ phase' = "searching" /\ peer' = None

Init == phase = "down" /\ peer = None

Next == PowerUp \/ (\E p \in Peers : Attempt(p)) \/ Succeed \/ SearchAgain

Spec == Init /\ [][Next]_<<phase, peer>>
=============================================================================
