------------------------------- MODULE Probe -------------------------------
(***************************************************************************)
(* probe/src/main.c: the receive-only firmware that hog_central.c grew out *)
(* of.  It scans, connects to a pointer or a bonded peer, secures the link *)
(* and subscribes to every report that notifies.  It has neither the retry *)
(* of a failed scan start nor the Report Map and Report Reference passes.  *)
(*                                                                         *)
(* main() ends before the first callback comes, and the callbacks run one  *)
(* at a time on the Bluetooth receive thread: each is one action.          *)
(*                                                                         *)
(* External: the Bluetooth host and the peers.  Attributes are numbered by *)
(* handle; indices start at 1 here and at 0 in the code.                   *)
(***************************************************************************)
EXTENDS Integers, Sequences, FiniteSets, FiniteSetsExt

CONSTANTS
    Peers,
    None,           \* no peer
    Ads,            \* Ads[p]: the advertising and scan responses p sends
    DB,             \* DB[p]: the attributes of p, by handle
    MAX_PAIRED,
    MAX_REPORTS,
    MAX_SEEN,
    MaxFaults       \* bound: failing discovery calls and requests of one link

Fields == {"connectable", "hids", "mouse", "name", "pointer name"}
Attr == [type : {"service", "report", "value", "ccc", "other"}, notify : BOOLEAN]

ASSUME PeersAssumption == None \notin Peers
ASSUME AdsAssumption == Ads \in [Peers -> SUBSET SUBSET Fields]
ASSUME TablesAssumption ==
    /\ DB \in [Peers -> Seq(Attr)]
    (* A characteristic's declaration is followed by its value. *)
    /\ \A p \in Peers : \A h \in DOMAIN DB[p] :
          DB[p][h].type = "report" =>
              h + 1 \in DOMAIN DB[p] /\ DB[p][h + 1].type = "value"
ASSUME BoundsAssumption ==
    {MAX_PAIRED, MAX_REPORTS, MAX_SEEN, MaxFaults} \subseteq Nat

VARIABLES
    bt,                 \* "off", "up", or "dead" after bt_enable failed
    scanning,
    default_conn,       \* the peer of the connection object, or None
    link,               \* how far that connection is
    bonds,
    last_failed_addr,
    cooling,            \* k_uptime_get_32() is within the cooldown
    disc_state,
    req,                \* the outstanding discovery, or NoReq
    hids_end_handle,
    pending_reports,    \* its first pending_count entries
    pending_idx,
    sub_params,         \* the subscription slots, each with its holder: the peer
                        \*   in whose list the host has the slot, or None
    sub_count,
    seen,               \* the addresses in seen[]
    named,              \* those of them logged with a name
    faults              \* failures injected on this link

connection == <<default_conn, link>>
cooldown == <<last_failed_addr, cooling>>
pending == <<pending_reports, pending_idx>>
wired == <<sub_params, sub_count>>
discovery == <<disc_state, req, hids_end_handle, pending, wired, faults>>
sightings == <<seen, named>>
vars == <<bt, scanning, connection, bonds, cooldown, discovery, sightings>>

(* A slot in nobody's list.  What is left in its fields no one reads. *)
EmptySlot == [value_handle |-> 0, ccc_handle |-> 0, holder |-> None]

NoReq == [want |-> "none", from |-> 0, to |-> 0]
Discover(want, from, to) == [want |-> want, from |-> from, to |-> to]

-----------------------------------------------------------------------------
(* start_scan, with the scanner in state s.  A failure is only logged. *)
start_scan(s) == scanning' \in {TRUE, s}

Main ==
    /\ bt = "off"
    /\ \/ bt' = "dead" /\ UNCHANGED scanning
       \/ bt' = "up" /\ start_scan(scanning)
    /\ UNCHANGED <<connection, bonds, cooldown, discovery, sightings>>

(* ad_parse_cb. *)
Match(ad) == ad \intersect {"mouse", "pointer name"} # {}
Named(ad) == ad \intersect {"name", "pointer name"} # {}
Interesting(ad) == Match(ad) \/ Named(ad) \/ "hids" \in ad

Enters_Unbounded(p) == p \notin seen                \* faulty: for mutation

(* The first sighting takes an entry of seen[] while there is one. *)
Enters(p) == p \notin seen /\ Cardinality(seen) < MAX_SEEN

Name(p, ad) ==
    IF Named(ad) /\ (p \in seen \/ Enters(p)) THEN named \union {p} ELSE named

(* should_log. *)
should_log(p, ad) == p \notin seen \/ (Named(ad) /\ p \notin named)

Sight(p, ad) ==
    IF Interesting(ad) /\ should_log(p, ad)
    THEN /\ seen' = IF Enters(p) THEN seen \union {p} ELSE seen
         /\ named' = Name(p, ad)
    ELSE UNCHANGED sightings

Target(p, ad) ==
    /\ "connectable" \in ad
    /\ p \in bonds \/ (Match(ad) /\ ~(p = last_failed_addr /\ cooling))

(* device_found.  The scan is stopped before the connection is created; if   *)
(* that fails nothing changes, if the creation fails the scan starts again.  *)
DeviceFound(p, ad) ==
    /\ scanning
    /\ Sight(p, ad)
    /\ \/ UNCHANGED <<scanning, connection>>
       \/ /\ default_conn = None /\ Target(p, ad)
          /\ \/ scanning' = FALSE /\ default_conn' = p /\ link' = "creating"
             \/ start_scan(FALSE) /\ UNCHANGED connection
    /\ UNCHANGED <<bt, bonds, cooldown, discovery>>

ConnectFailed_NoScan ==                             \* faulty: for mutation
    /\ link = "creating"
    /\ default_conn' = None /\ link' = "none"
    /\ UNCHANGED <<bt, scanning, bonds, cooldown, discovery, sightings>>

(* connected with an error. *)
ConnectFailed ==
    /\ link = "creating"
    /\ default_conn' = None /\ link' = "none"
    /\ start_scan(scanning)
    /\ UNCHANGED <<bt, bonds, cooldown, discovery, sightings>>

(* connected; an error of bt_conn_set_security is only logged, and the link  *)
(* stays as it is until the peer secures or closes it.                       *)
Connected ==
    /\ link = "creating"
    /\ link' \in {"securing", "open"}
    /\ UNCHANGED <<bt, scanning, default_conn, bonds, cooldown, discovery, sightings>>

(* security_changed with an error or too low a level. *)
SecurityFailed ==
    /\ link \in {"open", "securing"}
    /\ link' = "refused"
    /\ last_failed_addr' = default_conn /\ cooling' = TRUE
    /\ UNCHANGED <<bt, scanning, default_conn, bonds, discovery, sightings>>

(* The clock: the cooldown is over, or its 32 bits have come round to it.    *)
Clock ==
    /\ last_failed_addr # None
    /\ cooling' = ~cooling
    /\ UNCHANGED <<bt, scanning, connection, bonds, last_failed_addr, discovery, sightings>>

-----------------------------------------------------------------------------
(* GATT discovery.  A call of bt_gatt_discover or bt_gatt_subscribe, after k *)
(* that have failed in the same callback; all fail once the link is gone.    *)
Fault(k) ==
    IF link = "secured" THEN faults + k <= MaxFaults /\ faults' = faults + k
    ELSE UNCHANGED faults

Starts(k) == link = "secured" /\ Fault(k)
Fails(k) == Fault(k + 1)

subscribe_pending_SkipsOne(n, k) ==                 \* faulty: for mutation
    \/ n >= Len(pending_reports) /\ Fault(k) /\ disc_state' = "IDLE" /\ req' = NoReq
    \/ /\ n < Len(pending_reports) /\ Starts(k) /\ disc_state' = "CCC"
       /\ req' = Discover("ccc", pending_reports[n + 1] + 2, hids_end_handle)
    \/ n < Len(pending_reports) /\ Fails(k) /\ disc_state' = "IDLE" /\ req' = NoReq

(* subscribe_pending, with pending_idx = n: the search for a report's CCC    *)
(* goes on to the end of the service, past the reports that follow it.       *)
subscribe_pending(n, k) ==
    \/ /\ n >= Len(pending_reports)
       /\ Fault(k)
       /\ disc_state' = "IDLE" /\ req' = NoReq
    \/ /\ n < Len(pending_reports)
       /\ \/ /\ Starts(k)
             /\ disc_state' = "CCC"
             /\ req' = Discover("ccc", pending_reports[n + 1] + 1, hids_end_handle)
          \/ Fails(k) /\ disc_state' = "IDLE" /\ req' = NoReq

(* security_changed to level 2: start_discovery.  A first pairing may leave  *)
(* a bond.  hids_end_handle keeps its value from the link before.            *)
Secured ==
    /\ link \in {"open", "securing"} /\ req = NoReq
    /\ link' = "secured"
    /\ \/ UNCHANGED bonds
       \/ Cardinality(bonds) < MAX_PAIRED /\ bonds' = bonds \union {default_conn}
    /\ pending_reports' = <<>> /\ pending_idx' = 0 /\ sub_count' = 0
    /\ disc_state' = "HIDS_PRIMARY"
    /\ \/ req' = Discover("service", 1, Len(DB[default_conn])) /\ faults' = 0
       \/ MaxFaults > 0 /\ req' = NoReq /\ faults' = 1
    /\ UNCHANGED <<bt, scanning, default_conn, cooldown, hids_end_handle, sub_params, sightings>>

(* The handles in the range of the request whose attribute it asks for. *)
Matches ==
    {h \in req.from .. req.to : h \in DOMAIN DB[default_conn] /\ DB[default_conn][h].type = req.want}

(* discover_func with an attribute: the first one left in the range. *)
Found(state) ==
    /\ link = "secured"
    /\ req # NoReq /\ Matches # {}
    /\ disc_state = state

(* A failure to go on leaves disc_state where it is. *)
HidsFound ==
    /\ Found("HIDS_PRIMARY")
    /\ hids_end_handle' = Len(DB[default_conn])
    /\ disc_state' = "REPORT_CHRC"
    /\ \/ Starts(0) /\ req' = Discover("report", Min(Matches) + 1, Len(DB[default_conn]))
       \/ Fails(0) /\ req' = NoReq
    /\ UNCHANGED <<pending, wired>>

ReportFound_All ==                                  \* faulty: for mutation
    /\ Found("REPORT_CHRC")
    /\ pending_reports' =
         IF Len(pending_reports) < MAX_REPORTS
         THEN Append(pending_reports, Min(Matches) + 1) ELSE pending_reports
    /\ req' = [req EXCEPT !.from = Min(Matches) + 1]
    /\ UNCHANGED <<disc_state, hids_end_handle, pending_idx, wired, faults>>

(* The value follows its declaration; the pass goes on after it. *)
ReportFound ==
    /\ Found("REPORT_CHRC")
    /\ pending_reports' =
         IF DB[default_conn][Min(Matches)].notify /\ Len(pending_reports) < MAX_REPORTS
         THEN Append(pending_reports, Min(Matches) + 1) ELSE pending_reports
    /\ req' = [req EXCEPT !.from = Min(Matches) + 1]
    /\ UNCHANGED <<disc_state, hids_end_handle, pending_idx, wired, faults>>

(* The slot in the list of p, or in nobody's. *)
Slot(h, p) ==
    IF p = None THEN EmptySlot
    ELSE [value_handle |-> pending_reports[pending_idx + 1], ccc_handle |-> h, holder |-> p]

CccFound_NoAdvance ==                               \* faulty: for mutation
    /\ Found("CCC") /\ sub_count < MAX_REPORTS
    /\ sub_params' = [sub_params EXCEPT ![sub_count + 1] = Slot(Min(Matches), default_conn)]
    /\ sub_count' = sub_count + 1
    /\ subscribe_pending(pending_idx, 0)
    /\ UNCHANGED <<hids_end_handle, pending>>

(* The slot is written before the subscription is asked for, whoever has it. *)
(* The host has it in the list of this peer when that is accepted: anew, or  *)
(* (-EALREADY) from an earlier link.  Only then is it counted.  A slot is    *)
(* left here: there are no more pending reports than slots.                  *)
CccFound ==
    /\ Found("CCC") /\ sub_count < MAX_REPORTS
    /\ \E ok \in BOOLEAN :
         /\ sub_params' = [sub_params EXCEPT
                ![sub_count + 1] = Slot(Min(Matches), IF ok THEN default_conn ELSE @.holder)]
         /\ sub_count' = IF ok THEN sub_count + 1 ELSE sub_count
         /\ pending_idx' = pending_idx + 1
         /\ subscribe_pending(pending_idx + 1, IF ok THEN 0 ELSE 1)
    /\ UNCHANGED <<hids_end_handle, pending_reports>>

(* discover_func without an attribute.  Only the end of the characteristic   *)
(* pass does anything; a report without a CCC ends the discovery.            *)
PassEnds(k) ==
    \/ /\ disc_state = "REPORT_CHRC" /\ pending_reports = <<>>
       /\ Fault(k) /\ disc_state' = "IDLE" /\ req' = NoReq
       /\ UNCHANGED pending_idx
    \/ /\ disc_state = "REPORT_CHRC" /\ pending_reports # <<>>
       /\ pending_idx' = 0 /\ subscribe_pending(0, k)
    \/ /\ disc_state # "REPORT_CHRC"
       /\ Fault(k) /\ req' = NoReq
       /\ UNCHANGED <<disc_state, pending_idx>>

(* The range is exhausted, or the request failed or was aborted. *)
NothingFound ==
    /\ req # NoReq
    /\ IF link = "secured" THEN PassEnds(1) \/ (Matches = {} /\ PassEnds(0)) ELSE PassEnds(0)
    /\ UNCHANGED <<hids_end_handle, pending_reports, wired>>

Respond ==
    /\ HidsFound \/ ReportFound \/ CccFound \/ NothingFound
    /\ UNCHANGED <<bt, scanning, connection, bonds, cooldown, sightings>>

(* notify_cb without data, for the slots in I that the host has for p. *)
Dropped(p, I) ==
    /\ \E i \in I : sub_params[i].holder = p
    /\ sub_params' = [i \in DOMAIN sub_params |->
                        IF i \in I /\ sub_params[i].holder = p
                        THEN EmptySlot ELSE sub_params[i]]

(* The peer rejects the CCC write of a subscription; or the host tears the   *)
(* subscriptions of a peer down when its link is lost.  It need not: those   *)
(* of a bonded peer it can keep for the next link.                           *)
TornDown ==
    /\ \/ /\ link = "secured" /\ Fault(1)
          /\ \E i \in DOMAIN sub_params : Dropped(default_conn, {i})
       \/ /\ link # "secured" /\ UNCHANGED faults
          /\ \E p \in Peers : Dropped(p, DOMAIN sub_params)
    /\ UNCHANGED <<bt, scanning, connection, bonds, cooldown, disc_state, req,
                   hids_end_handle, pending, sub_count, sightings>>

LinkLost ==
    /\ link \in {"open", "securing", "secured", "refused"}
    /\ link' = "lost"
    /\ UNCHANGED <<bt, scanning, default_conn, bonds, cooldown, discovery, sightings>>

Disconnected_KeepsConn ==                           \* faulty: for mutation
    /\ link = "lost" /\ link' = "none"
    /\ pending_reports' = <<>> /\ pending_idx' = 0 /\ sub_count' = 0
    /\ disc_state' = "IDLE" /\ faults' = 0
    /\ start_scan(scanning)
    /\ UNCHANGED <<bt, default_conn, bonds, cooldown, req, hids_end_handle, sub_params, sightings>>

Disconnected ==
    /\ link = "lost"
    /\ default_conn' = None /\ link' = "none"
    /\ pending_reports' = <<>> /\ pending_idx' = 0 /\ sub_count' = 0
    /\ disc_state' = "IDLE" /\ faults' = 0
    /\ start_scan(scanning)
    /\ UNCHANGED <<bt, bonds, cooldown, req, hids_end_handle, sub_params, sightings>>

-----------------------------------------------------------------------------
(* The probe boots with the bonds of its settings. *)
Init ==
    /\ bt = "off" /\ scanning = FALSE
    /\ default_conn = None /\ link = "none"
    /\ bonds \in {B \in SUBSET Peers : Cardinality(B) <= MAX_PAIRED}
    /\ last_failed_addr = None /\ cooling = FALSE
    /\ disc_state = "IDLE" /\ req = NoReq /\ hids_end_handle = 0
    /\ pending_reports = <<>> /\ pending_idx = 0
    /\ sub_params = [i \in 1 .. MAX_REPORTS |-> EmptySlot] /\ sub_count = 0
    /\ faults = 0
    /\ seen = {} /\ named = {}

Next ==
    \/ Main
    \/ \E p \in Peers : \E ad \in Ads[p] : DeviceFound(p, ad)
    \/ ConnectFailed \/ Connected \/ Secured \/ SecurityFailed \/ Clock
    \/ Respond \/ TornDown \/ LinkLost \/ Disconnected

Spec == Init /\ [][Next]_vars

(* The host: requests and attempts to connect are answered or time out, a    *)
(* link whose pairing was asked for is secured, refused or lost, one whose   *)
(* disconnection was asked for is lost, and a lost one is reported.  Nothing *)
(* is assumed of a link on which pairing could not be asked for ("open").    *)
(* The radio: if bonded peers are listened for again and again, one of them  *)
(* is connected to and secured in the end.                                   *)
Environment ==
    /\ WF_vars(Respond) /\ WF_vars(ConnectFailed)
    /\ WF_vars(link \in {"securing", "refused"} /\ LinkLost) /\ WF_vars(Disconnected)
    /\ SF_vars(\E p \in bonds : \E ad \in Ads[p] : DeviceFound(p, ad) /\ default_conn' = p)
    /\ SF_vars(default_conn \in bonds /\ Connected /\ link' = "securing")
    /\ SF_vars(default_conn \in bonds /\ link = "securing" /\ Secured)

FairSpec == Spec /\ WF_vars(Main) /\ Environment

-----------------------------------------------------------------------------
Handles == {0} \union UNION {1 .. Len(DB[p]) : p \in Peers}

(* The types, and the capacity of the tables. *)
TypeOK ==
    /\ bt \in {"off", "up", "dead"} /\ scanning \in BOOLEAN
    /\ default_conn \in Peers \union {None}
    /\ link \in {"none", "creating", "open", "securing", "secured", "refused", "lost"}
    /\ bonds \subseteq Peers
    /\ last_failed_addr \in Peers \union {None} /\ cooling \in BOOLEAN
    /\ disc_state \in {"IDLE", "HIDS_PRIMARY", "REPORT_CHRC", "CCC"}
    /\ req \in [want : {"none", "service", "report", "ccc"},
                from : Handles \union {h + 1 : h \in Handles}, to : Handles]
    /\ hids_end_handle \in Handles
    /\ pending_reports \in Seq(Handles) /\ Len(pending_reports) <= MAX_REPORTS
    /\ pending_idx \in 0 .. MAX_REPORTS /\ sub_count \in 0 .. MAX_REPORTS
    /\ sub_params \in [1 .. MAX_REPORTS ->
          [value_handle : Handles, ccc_handle : Handles, holder : Peers \union {None}]]
    /\ seen \subseteq Peers /\ Cardinality(seen) <= MAX_SEEN /\ named \subseteq seen
    /\ faults \in 0 .. MaxFaults

(* The connection object lives as long as its link, and the scanner never    *)
(* runs beside it.  A stale object would make device_found ignore every peer.*)
ConnMatchesLink ==
    /\ default_conn = None <=> link = "none"
    /\ default_conn # None => ~scanning

(* The CCCs of the report whose value handle is h, and those its search can  *)
(* reach.                                                                    *)
Reachable(p, h) == {d \in h + 1 .. Len(DB[p]) : DB[p][d].type = "ccc"}
Own(p, h) == {d \in Reachable(p, h) : \A e \in h + 1 .. d : DB[p][e].type \notin {"report", "other"}}

Notifiable(p) ==
    {h \in DOMAIN DB[p] : h > 1 /\ DB[p][h].type = "value"
                          /\ DB[p][h - 1].type = "report" /\ DB[p][h - 1].notify}
Kept(p) == {h \in Notifiable(p) : Cardinality({g \in Notifiable(p) : g < h}) < MAX_REPORTS}

(* The subscriptions of this link: counted, and not lost again. *)
Live == {i \in 1 .. sub_count : sub_params[i].holder = default_conn}

(* A report that has a CCC is subscribed through it, and none is subscribed  *)
(* twice: a hexdump would otherwise lack a report or show it twice.          *)
WiredOwn ==
    link = "secured" =>
        \A i \in Live :
            LET v == sub_params[i].value_handle IN
            /\ v \in Notifiable(default_conn)
            /\ Own(default_conn, v) # {} => sub_params[i].ccc_handle \in Own(default_conn, v)
            /\ \A j \in 1 .. sub_count :
                 j # i => sub_params[j].value_handle # v

(* When nothing failed, discovery ends with a subscription for exactly the   *)
(* kept reports that have a CCC anywhere behind them: a report without one   *)
(* ends the discovery, but then no later report has one either.              *)
Complete ==
    link = "secured" /\ req = NoReq /\ faults = 0 =>
        {sub_params[i].value_handle : i \in 1 .. sub_count}
          = {h \in Kept(default_conn) : Reachable(default_conn, h) # {}}

(* Nothing will happen any more: no connection, no scan, no retry. *)
Deaf == bt = "up" /\ default_conn = None /\ ~scanning

(* A bonded peer in range ends in a secured link (its own or another's),     *)
(* with two exceptions that the code does nothing about: a start of the      *)
(* scanner has failed (the call in disconnected is the whole of the          *)
(* reconnection, and nothing repeats it), or a link stays up on which        *)
(* bt_conn_set_security has failed.                                          *)
ReconnectsUnlessStuck ==
    bt = "up" /\ bonds # {} ~> link = "secured" \/ Deaf \/ [](link = "open")

(* Discovery ends on every link, however its requests fail. *)
DiscoveryEnds == link = "secured" ~> req = NoReq

-----------------------------------------------------------------------------
(* Refinement.  The probe parses no Report Map, so no layout is ever known.  *)
LinkOwner == IF link = "secured" THEN default_conn ELSE None

LiveHandles ==
    IF link = "secured" THEN {sub_params[i].value_handle : i \in Live} ELSE {}

AsSubscriptions == INSTANCE Subscriptions
    WITH owner <- LinkOwner, known <- None, live <- LiveHandles,
         Sources <- [p \in Peers |-> Notifiable(p)]

(* The earlier program makes the same promise as the dongle's discovery: a   *)
(* secured link begins with no subscription counted, whatever slots the host *)
(* has kept, then the peer's reports that notify are subscribed to in turn   *)
(* (start_discovery, subscribe_pending, notify_cb).                          *)
ImplementsSubscriptions == AsSubscriptions!Spec
=============================================================================
