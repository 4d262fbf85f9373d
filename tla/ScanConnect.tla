---------------------------- MODULE ScanConnect ----------------------------
(***************************************************************************)
(* The connection side of drivers/input/hog_central.c: bring-up, scanning  *)
(* and its retry, target selection with the failed-pairing cooldown, and   *)
(* the connected / security_changed / disconnected callbacks.              *)
(*                                                                         *)
(* The callbacks run on the Bluetooth receive thread, the bring-up and the *)
(* scan retry on the system work queue.  Both threads are cooperative.  A  *)
(* handler may wait for the controller inside a call, but nothing that     *)
(* runs meanwhile changes what it has read: a retry is pending only while  *)
(* nothing is scanned or connected (ScanOnlyIdle), and no callback comes   *)
(* before the scan starts.  So each handler is one action.                 *)
(*                                                                         *)
(* External: the controller (scanning, link), the bond store (bonds), the  *)
(* peers, and the outcome of every call into the Bluetooth host.  What a   *)
(* link carries once it is secured is module Discovery's.                  *)
(***************************************************************************)
EXTENDS Integers, FiniteSets

CONSTANTS
    Peers,              \* the peripherals in range
    Pointers,           \* those whose advertising matches ad_parse_cb
    None,               \* no peer
    MAX_PAIRED,         \* CONFIG_BT_MAX_PAIRED
    FAIL_COOLDOWN,      \* FAIL_COOLDOWN_MS, in clock ticks
    Wrap,               \* the number of values of k_uptime_get_32()
    AgeMax              \* bound: ages from here on are not told apart

ASSUME PeersAssumption == Pointers \subseteq Peers /\ None \notin Peers
ASSUME PairedAssumption == MAX_PAIRED \in Nat
ASSUME ClockAssumption ==
    /\ FAIL_COOLDOWN \in Nat \ {0}
    /\ Wrap \in Nat /\ FAIL_COOLDOWN < Wrap
    /\ AgeMax \in Nat /\ FAIL_COOLDOWN < AgeMax

VARIABLES
    bt,                 \* bring-up: "off", "up", or "dead" after bt_enable failed
    scanning,           \* the controller scans and reports to device_found
    scan_retry,         \* scan_retry_work is scheduled
    default_conn,       \* the peer of the connection object, or None
    link,               \* how far that connection is
    bonds,              \* bonded peers
    last_failed_addr,
    last_failed_ms,
    now,                \* k_uptime_get_32()
    age                 \* history: ticks since each peer last failed security

radio == <<scanning, scan_retry>>
conn == <<default_conn, link>>
cooldown == <<last_failed_addr, last_failed_ms>>
clock == <<now, age>>
vars == <<bt, radio, conn, bonds, cooldown, clock>>

(* "creating": bt_conn_le_create was accepted; "open": connected, security   *)
(* could not be requested; "securing": it was; "refused": security failed    *)
(* and the disconnect was requested.                                         *)
Links == {"none", "creating", "open", "securing", "secured", "refused"}

-----------------------------------------------------------------------------
start_scan_NoRetry(s, r) ==                         \* faulty: for mutation
    scanning' \in {TRUE, s} /\ scan_retry' = r

start_scan_Reschedules(s, r) ==                     \* faulty: for mutation
    scanning' \in {TRUE, s} /\ scan_retry' = TRUE

(* start_scan: already scanning, started, or failed and to be retried in a   *)
(* second.  s and r are the scanner and the retry timer when it is called.   *)
start_scan(s, r) ==
    \/ scanning' = TRUE /\ scan_retry' = r
    \/ ~s /\ scanning' = FALSE /\ scan_retry' = TRUE

(* start_work_handler: bt_enable fails, or the scanner is started. *)
StartWork ==
    /\ bt = "off"
    /\ \/ bt' = "dead" /\ UNCHANGED radio
       \/ bt' = "up" /\ start_scan(scanning, scan_retry)
    /\ UNCHANGED <<conn, bonds, cooldown, clock>>

(* scan_retry_handler; the timer has fired, start_scan may set it again. *)
ScanRetry ==
    /\ scan_retry
    /\ IF default_conn = None THEN start_scan(scanning, FALSE)
       ELSE scan_retry' = FALSE /\ UNCHANGED scanning
    /\ UNCHANGED <<bt, conn, bonds, cooldown, clock>>

-----------------------------------------------------------------------------
(* k_uptime_get_32() - last_failed_ms, in unsigned arithmetic. *)
Since(t) == IF now >= t THEN now - t ELSE now - t + Wrap

InCooldown_Deadline(p) ==                           \* faulty: for mutation
    p = last_failed_addr /\ now < (last_failed_ms + FAIL_COOLDOWN) % Wrap

InCooldown(p) == p = last_failed_addr /\ Since(last_failed_ms) < FAIL_COOLDOWN

(* device_found goes on to connect to p: a bonded peer, or a pointer that    *)
(* has not just failed.                                                      *)
Target(p) == p \in bonds \/ (p \in Pointers /\ ~InCooldown(p))

(* device_found for connectable advertising.  Its early returns, and a       *)
(* bt_le_scan_stop that fails, change nothing and are no step.               *)
DeviceFound(p) ==
    /\ scanning
    /\ default_conn = None
    /\ Target(p)
    /\ \/ /\ scanning' = FALSE
          /\ default_conn' = p /\ link' = "creating"
          /\ UNCHANGED scan_retry
       \/ start_scan(FALSE, scan_retry) /\ UNCHANGED conn   \* create failed
    /\ UNCHANGED <<bt, bonds, cooldown, clock>>

(* connected with an error. *)
ConnectFailed ==
    /\ link = "creating"
    /\ default_conn' = None /\ link' = "none"
    /\ start_scan(scanning, scan_retry)
    /\ UNCHANGED <<bt, bonds, cooldown, clock>>

(* connected; an error of bt_conn_set_security is only logged. *)
Connected ==
    /\ link = "creating"
    /\ link' \in {"securing", "open"}
    /\ UNCHANGED <<bt, radio, default_conn, bonds, cooldown, clock>>

(* security_changed to level 2; a first pairing may leave a bond. *)
Secured ==
    /\ link \in {"open", "securing"}
    /\ link' = "secured"
    /\ \/ UNCHANGED bonds
       \/ /\ Cardinality(bonds) < MAX_PAIRED
          /\ bonds' = bonds \union {default_conn}
    /\ UNCHANGED <<bt, radio, default_conn, cooldown, clock>>

(* security_changed with an error or too low a level. *)
SecurityFailed ==
    /\ link \in {"open", "securing"}
    /\ link' = "refused"
    /\ last_failed_addr' = default_conn
    /\ last_failed_ms' = now
    /\ age' = [age EXCEPT ![default_conn] = 0]
    /\ UNCHANGED <<bt, radio, default_conn, bonds, now>>

Disconnected_KeepsConn ==                           \* faulty: for mutation
    /\ link \in {"open", "securing", "secured", "refused"}
    /\ link' = "none"
    /\ start_scan(scanning, scan_retry)
    /\ UNCHANGED <<bt, default_conn, bonds, cooldown, clock>>

Disconnected_NoScan ==                              \* faulty: for mutation
    /\ link \in {"open", "securing", "secured", "refused"}
    /\ default_conn' = None /\ link' = "none"
    /\ UNCHANGED <<bt, radio, bonds, cooldown, clock>>

(* disconnected, for whatever reason.  What it clears of the discovery and   *)
(* report state is in modules Discovery and ReportPath.                      *)
Disconnected ==
    /\ link \in {"open", "securing", "secured", "refused"}
    /\ default_conn' = None /\ link' = "none"
    /\ start_scan(scanning, scan_retry)
    /\ UNCHANGED <<bt, bonds, cooldown, clock>>

(* Time passes. *)
Tick ==
    /\ now' = IF now = Wrap - 1 THEN 0 ELSE now + 1
    /\ age' = [p \in Peers |-> IF age[p] = AgeMax THEN AgeMax ELSE age[p] + 1]
    /\ UNCHANGED <<bt, radio, conn, bonds, cooldown>>

-----------------------------------------------------------------------------
(* The dongle boots with the bonds of its settings and no failure on record. *)
Init ==
    /\ bt = "off" /\ scanning = FALSE /\ scan_retry = FALSE
    /\ default_conn = None /\ link = "none"
    /\ bonds \in {B \in SUBSET Peers : Cardinality(B) <= MAX_PAIRED}
    /\ last_failed_addr = None /\ last_failed_ms = 0
    /\ now = 0 /\ age = [p \in Peers |-> AgeMax]

Next ==
    \/ StartWork \/ ScanRetry
    \/ \E p \in Peers : DeviceFound(p)
    \/ ConnectFailed \/ Connected \/ Secured \/ SecurityFailed \/ Disconnected
    \/ Tick

Spec == Init /\ [][Next]_vars

(* The dongle's own part: bring-up and a scheduled retry happen. *)
Scheduling == WF_vars(StartWork) /\ WF_vars(ScanRetry)

(* The radio's and the peers' part: a scanner asked to start again and again *)
(* starts in the end; a bonded peer that is listened for again and again is  *)
(* connected to, asked for security and secured in the end.  A pairing that  *)
(* runs has the host's timeout, and a disconnect that was requested comes;   *)
(* nobody has promised anything about a link that is left "open".            *)
Environment ==
    /\ SF_vars(ScanRetry /\ scanning')
    /\ \A p \in Peers :
         /\ SF_vars(p \in bonds /\ DeviceFound(p) /\ default_conn' = p)
         /\ SF_vars(default_conn = p /\ p \in bonds /\ Connected /\ link' = "securing")
         /\ SF_vars(default_conn = p /\ p \in bonds /\ link = "securing" /\ Secured)
    /\ WF_vars(ConnectFailed)
    /\ WF_vars(link \in {"securing", "refused"} /\ Disconnected)

FairSpec == Spec /\ Scheduling /\ Environment

-----------------------------------------------------------------------------
(* The types, and which parts of the connection state go together. *)
TypeOK ==
    /\ bt \in {"off", "up", "dead"}
    /\ scanning \in BOOLEAN /\ scan_retry \in BOOLEAN
    /\ default_conn \in Peers \union {None} /\ link \in Links
    /\ default_conn = None <=> link = "none"
    /\ bonds \subseteq Peers
    /\ last_failed_addr \in Peers \union {None}
    /\ last_failed_ms \in 0 .. Wrap - 1 /\ now \in 0 .. Wrap - 1
    /\ age \in [Peers -> 0 .. AgeMax]

(* Once up, the dongle is never deaf: with no connection it scans, or a      *)
(* retry that will start the scan is scheduled (the A1 fix of start_scan).   *)
(* ImplementsReconnect, which the runs check, includes it.                   *)
NeverDeaf == bt = "up" /\ default_conn = None => scanning \/ scan_retry

(* The scanner never runs beside a connection (start_scan's comment), and a  *)
(* retry is pending beside neither: it cannot start a scan that disturbs an  *)
(* established link, whatever happened in the second it waited.              *)
ScanOnlyIdle ==
    /\ default_conn # None => ~scanning
    /\ scan_retry => ~scanning /\ default_conn = None

(* The peer that failed last is left alone for the whole cooldown, unless it *)
(* is bonded, also when the clock wraps meanwhile.                           *)
LastRefusedSkipped ==
    [][ \A p \in Peers :
          p = last_failed_addr /\ age[p] < FAIL_COOLDOWN /\ p \notin bonds
          => ~(default_conn = None /\ default_conn' = p) ]_vars

(* A bonded peer in range ends in a secured link (its own, or that of        *)
(* another peer), whatever other peers refuse and however often links drop.  *)
(* There is one way out: a request for security that fails is only logged    *)
(* (connected), and that link may stay open, unsecured, for good.            *)
ReconnectsUnlessLeftOpen ==
    \A p \in Peers :
      bt = "up" /\ p \in bonds ~> link = "secured" \/ [](link = "open")

(* The connection state implements Reconnect.  A state without a connection, *)
(* a scan or a retry would be a phase that Reconnect does not have.          *)
Phase ==
    IF bt # "up" THEN "down"
    ELSE IF default_conn = None
         THEN IF scanning \/ scan_retry THEN "searching" ELSE "deaf"
    ELSE IF link = "secured" THEN "linked" ELSE "attempting"

Abstract == INSTANCE Reconnect WITH phase <- Phase, peer <- default_conn

(* Every step of the connection side is a step of Reconnect or changes       *)
(* neither the phase nor the peer.                                           *)
ImplementsReconnect == Abstract!Spec
=============================================================================
