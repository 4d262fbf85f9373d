--------------------------- MODULE Subscriptions ---------------------------
(***************************************************************************)
(* What discovery promises of a link, without its passes, its requests and *)
(* the slots: the layout is learnt at most once, and before anything is    *)
(* subscribed to; then the peer's reports are subscribed to one by one,    *)
(* upwards in their handles; any of them may be lost again; and with the   *)
(* link the layout and all subscriptions go, so that the next peer starts  *)
(* with none.  Discovery implements it, and so does Probe, which never     *)
(* learns a layout.                                                        *)
(***************************************************************************)
EXTENDS Naturals

CONSTANTS
    None,
    Sources     \* for each peer the value handles of its reports that notify

VARIABLES
    owner,      \* the peer linked to, else None
    known,      \* the peer whose layout is in use, else None
    live        \* the value handles subscribed to

Connect(p) ==
    /\ owner = None
    /\ owner' = p
    /\ UNCHANGED <<known, live>>

Learn ==
    /\ owner # None /\ known = None /\ live = {}
    /\ known' = owner
    /\ UNCHANGED <<owner, live>>

Subscribe(h) ==
    /\ \A g \in live : g < h
    /\ h \in live' /\ live' \subseteq live \union {h}
    /\ UNCHANGED <<owner, known>>

Shed == live' \subseteq live /\ UNCHANGED <<owner, known>>

Lose ==
    /\ owner # None
    /\ owner' = None /\ known' = None /\ live' = {}

Init == owner = None /\ known = None /\ live = {}

Next ==
    \/ Shed \/ Lose \/ Learn
    \/ \E p \in DOMAIN Sources : Connect(p)
    \/ owner # None /\ \E h \in Sources[owner] : Subscribe(h)

Spec == Init /\ [][Next]_<<owner, known, live>>
=============================================================================
