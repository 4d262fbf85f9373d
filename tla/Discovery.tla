----------------------------- MODULE Discovery -----------------------------
(***************************************************************************)
(* GATT discovery of drivers/input/hog_central.c: from an encrypted link   *)
(* to the HID service, its Report Map, its notifiable reports, and for     *)
(* each of these its Report Reference, its CCC and a subscription.         *)
(*                                                                         *)
(* Everything here runs on the Bluetooth receive thread, one callback at a *)
(* time, so a callback with all it calls is one action.  Every call that   *)
(* starts a request can fail at once (-ENOMEM has been seen on the device) *)
(* and the fall-backs then run inside the same callback.  Every request    *)
(* can fail later, and ends early when the link is lost; the host reports  *)
(* that before or after it calls disconnected().                           *)
(*                                                                         *)
(* External: the Bluetooth host (the outstanding request, subscriptions)   *)
(* and the peers' attribute tables.  Attributes are numbered by handle.    *)
(***************************************************************************)
EXTENDS Integers, Sequences, FiniteSets, FiniteSetsExt

CONSTANTS
    Peers,
    None,           \* no peer
    DB,             \* DB[p]: the attributes of p's HID service, by handle
    MapLen,         \* MapLen[p]: PDUs that p's Report Map takes
    PointerId,      \* PointerId[p]: report ID of its pointer, or NoPointer
    NoPointer,
    RM_MAX,         \* PDUs that rm_buf holds (REPORT_MAP_MAX)
    MAX_REPORTS,
    MaxFaults       \* bound: failing calls and requests of one link

Ids == 0 .. 255
Attr == [type : {"service", "map", "report", "other", "value", "ccc", "ref"},
         notify : BOOLEAN, id : Ids]

ASSUME PeersAssumption == None \notin Peers /\ NoPointer \notin Ids
ASSUME TablesAssumption ==
    /\ DB \in [Peers -> Seq(Attr)]
    (* A characteristic's declaration is followed by its value. *)
    /\ \A p \in Peers : \A h \in DOMAIN DB[p] :
          DB[p][h].type = "report" =>
              h + 1 \in DOMAIN DB[p] /\ DB[p][h + 1].type = "value"
    /\ MapLen \in [Peers -> Nat]
    /\ PointerId \in [Peers -> Ids \union {NoPointer}]
ASSUME BoundsAssumption == {RM_MAX, MAX_REPORTS, MaxFaults} \subseteq Nat

VARIABLES
    link,               \* "down", "secured", or "lost": disconnected() is due
    peer,               \* the peer of the link, None when it is down
    disc_state,
    req,                \* the outstanding discovery or read, or NoReq
    hids_end_handle,
    rm_len,             \* PDUs in rm_buf
    layout,             \* the parsed layout: whose, its report ID or NoPointer
    layout_valid,
    pending_reports,    \* its first pending_count entries
    pending_idx,
    cur_report_id,
    subs,               \* the subscription slots, each with its holder: the peer
                        \*   in whose list the host has the slot, or None
    sub_count,
    faults              \* failures injected on this link

map == <<rm_len, layout, layout_valid>>
pending == <<pending_reports, pending_idx, cur_report_id>>
wired == <<subs, sub_count>>
connection == <<link, peer>>
discVars == <<connection, disc_state, req, hids_end_handle, map, pending, wired, faults>>

(* hids_end_handle, pending and slot indices are the code's; indices start   *)
(* at 0 there, so entry n of the code is entry n + 1 of a sequence here.     *)
NoReq == [op |-> "none", want |-> "none", from |-> 0, to |-> 0]
Discover(want, from, to) == [op |-> "discover", want |-> want, from |-> from, to |-> to]
Read(want, from) == [op |-> "read", want |-> want, from |-> from, to |-> 0]

EmptySlot == [report_id |-> 0, value_handle |-> 0, ccc_handle |-> 0, holder |-> None]
NoLayout == [of |-> None, report_id |-> NoPointer]

(* The handles in the range of the request whose attribute it asks for. *)
Matches ==
    {h \in req.from .. req.to : h \in DOMAIN DB[peer] /\ DB[peer][h].type = req.want}

-----------------------------------------------------------------------------
(* The outcome of the calls a handler makes.  k of them have failed before   *)
(* this one; on a link that is gone every call fails.                        *)
Fault(k) ==
    IF link = "secured" THEN faults + k <= MaxFaults /\ faults' = faults + k
    ELSE UNCHANGED faults

Starts(k) == link = "secured" /\ Fault(k)
Fails(k) == Fault(k + 1)

(* A request that ends without an answer: an error of the peer, or the link. *)
Broken == IF link = "secured" THEN 1 ELSE 0

-----------------------------------------------------------------------------
report_end_OfService(n) == hids_end_handle          \* faulty: for mutation

(* cur_report_end_handle, with pending_idx = n. *)
report_end(n) ==
    IF n + 1 < Len(pending_reports) THEN pending_reports[n + 2] - 1
    ELSE hids_end_handle

Descriptor_SkipsOne(want, n) ==                     \* faulty: for mutation
    Discover(want, pending_reports[n + 1] + 2, report_end(n))

Descriptor(want, n) == Discover(want, pending_reports[n + 1] + 1, report_end(n))

discover_ccc_KeepsState(n, k) ==                    \* faulty: for mutation
    \/ Starts(k) /\ UNCHANGED disc_state /\ req' = Descriptor("ccc", n)
    \/ Fails(k) /\ disc_state' = "IDLE" /\ req' = NoReq

discover_ccc_StaysOpen(n, k) ==                     \* faulty: for mutation
    /\ disc_state' = "CCC"
    /\ \/ Starts(k) /\ req' = Descriptor("ccc", n)
       \/ Fails(k) /\ req' = NoReq

(* discover_ccc, with pending_idx = n. *)
discover_ccc(n, k) ==
    \/ /\ Starts(k)
       /\ disc_state' = "CCC" /\ req' = Descriptor("ccc", n)
    \/ /\ Fails(k)
       /\ disc_state' = "IDLE" /\ req' = NoReq

subscribe_pending_KeepsId(n, k) ==                  \* faulty: for mutation
    /\ UNCHANGED cur_report_id
    /\ \/ n >= Len(pending_reports) /\ Fault(k) /\ disc_state' = "IDLE" /\ req' = NoReq
       \/ /\ n < Len(pending_reports)
          /\ \/ Starts(k) /\ disc_state' = "REPORT_REF" /\ req' = Descriptor("ref", n)
             \/ discover_ccc(n, k + 1)

subscribe_pending_MapLast(n, k) ==                  \* faulty: for mutation
    \/ /\ n >= Len(pending_reports)
       /\ Starts(k) /\ disc_state' = "REPORT_MAP_CHRC" /\ req' = Read("map", 0)
       /\ UNCHANGED cur_report_id
    \/ /\ n < Len(pending_reports)
       /\ cur_report_id' = 0
       /\ \/ Starts(k) /\ disc_state' = "REPORT_REF" /\ req' = Descriptor("ref", n)
          \/ discover_ccc(n, k + 1)

(* subscribe_pending, with pending_idx = n. *)
subscribe_pending(n, k) ==
    \/ /\ n >= Len(pending_reports)
       /\ Fault(k)
       /\ disc_state' = "IDLE" /\ req' = NoReq
       /\ UNCHANGED cur_report_id
    \/ /\ n < Len(pending_reports)
       /\ cur_report_id' = 0
       /\ \/ /\ Starts(k)
             /\ disc_state' = "REPORT_REF" /\ req' = Descriptor("ref", n)
          \/ discover_ccc(n, k + 1)

start_report_discovery(k) ==
    /\ pending_reports' = <<>> /\ pending_idx' = 0 /\ sub_count' = 0
    /\ \/ /\ Starts(k)
          /\ disc_state' = "REPORT_CHRC"
          /\ req' = Discover("report", 1, hids_end_handle)
       \/ /\ Fails(k)
          /\ disc_state' = "IDLE" /\ req' = NoReq
    /\ UNCHANGED <<cur_report_id, subs>>

(* security_changed to level 2: start_discovery.  When the first request     *)
(* cannot be started, disc_state keeps the value set just before.            *)
Secured(p) ==
    /\ link = "down" /\ req = NoReq
    /\ link' = "secured" /\ peer' = p
    /\ layout_valid' = FALSE
    /\ hids_end_handle' = 0
    /\ disc_state' = "HIDS_PRIMARY"
    /\ \/ req' = Discover("service", 1, Len(DB[p])) /\ faults' = 0
       \/ MaxFaults > 0 /\ req' = NoReq /\ faults' = 1
    /\ UNCHANGED <<rm_len, layout, pending, wired>>

-----------------------------------------------------------------------------
(* discover_func with an attribute: the first one left in the range.         *)
Found(state) ==
    /\ link = "secured"
    /\ req.op = "discover" /\ Matches # {}
    /\ disc_state = state

HidsFound ==
    /\ Found("HIDS_PRIMARY")
    /\ hids_end_handle' = Len(DB[peer])
    /\ \/ /\ Starts(0)
          /\ disc_state' = "REPORT_MAP_CHRC"
          /\ req' = Discover("map", Min(Matches) + 1, Len(DB[peer]))
       \/ Fails(0) /\ disc_state' = "IDLE" /\ req' = NoReq
    /\ UNCHANGED <<connection, map, pending, wired>>

(* read_report_map. *)
MapFound ==
    /\ Found("REPORT_MAP_CHRC")
    /\ rm_len' = 0
    /\ \/ /\ Starts(0)
          /\ req' = Read("map", 0)
          /\ UNCHANGED <<disc_state, pending, wired>>
       \/ start_report_discovery(1)
    /\ UNCHANGED <<connection, hids_end_handle, layout, layout_valid>>

Collected_Unbounded(h) ==                           \* faulty: for mutation
    IF DB[peer][h].notify THEN Append(pending_reports, h + 1) ELSE pending_reports

Collected_Any(h) ==                                 \* faulty: for mutation
    IF Len(pending_reports) < MAX_REPORTS
    THEN Append(pending_reports, h + 1) ELSE pending_reports

(* The value follows its declaration; the pass goes on after it. *)
Collected(h) ==
    IF DB[peer][h].notify /\ Len(pending_reports) < MAX_REPORTS
    THEN Append(pending_reports, h + 1) ELSE pending_reports

ReportFound ==
    /\ Found("REPORT_CHRC")
    /\ pending_reports' = Collected(Min(Matches))
    /\ req' = [req EXCEPT !.from = Min(Matches) + 1]
    /\ UNCHANGED <<connection, disc_state, hids_end_handle, map, pending_idx,
                   cur_report_id, wired, faults>>

(* read_report_ref. *)
RefFound ==
    /\ Found("REPORT_REF")
    /\ \/ /\ Starts(0)
          /\ req' = Read("ref", Min(Matches))
          /\ UNCHANGED <<disc_state, cur_report_id>>
       \/ cur_report_id' = 0 /\ discover_ccc(pending_idx, 1)
    /\ UNCHANGED <<connection, hids_end_handle, map, pending_reports, pending_idx, wired>>

(* The slot is written before the subscription is asked for.  The host has   *)
(* it in the list of this peer when that is accepted: anew, or (-EALREADY)   *)
(* from an earlier link.  When it is refused, whoever had it still has it.   *)
Slot(h, ok) ==
    [report_id |-> cur_report_id, value_handle |-> pending_reports[pending_idx + 1],
     ccc_handle |-> h, holder |-> IF ok THEN peer ELSE subs[sub_count + 1].holder]

(* The memset clears the node by which the host's list goes on: the other    *)
(* slots of the list, or some of them, may be cut off it.                    *)
Cleared(cut) ==
    [i \in DOMAIN subs |-> IF i \in cut THEN [subs[i] EXCEPT !.holder = None] ELSE subs[i]]

Neighbours(n) ==
    {i \in DOMAIN subs \ {n} : subs[i].holder # None /\ subs[i].holder = subs[n].holder}

CccFound_ByIndex ==                                 \* faulty: for mutation
    /\ Found("CCC") /\ sub_count < MAX_REPORTS
    /\ subs' = [subs EXCEPT ![pending_idx + 1] = Slot(Min(Matches), TRUE)]
    /\ sub_count' = sub_count + 1
    /\ pending_idx' = pending_idx + 1
    /\ subscribe_pending(pending_idx + 1, 0)
    /\ UNCHANGED <<connection, hids_end_handle, map, pending_reports>>

CccFound_Repeats ==                                 \* faulty: for mutation
    /\ Found("CCC") /\ sub_count < MAX_REPORTS
    /\ subs' = [subs EXCEPT ![sub_count + 1] = Slot(Min(Matches), TRUE)]
    /\ subscribe_pending(pending_idx, 0)
    /\ UNCHANGED <<connection, hids_end_handle, map, pending_reports, pending_idx, sub_count>>

CccFound_NoAdvance ==                               \* faulty: for mutation
    /\ Found("CCC") /\ sub_count < MAX_REPORTS
    /\ subs' = [subs EXCEPT ![sub_count + 1] = Slot(Min(Matches), TRUE)]
    /\ sub_count' = sub_count + 1
    /\ subscribe_pending(pending_idx, 0)
    /\ UNCHANGED <<connection, hids_end_handle, map, pending_reports, pending_idx>>

(* A slot is left here: pending_reports is no longer than subs.  It counts   *)
(* only if the subscription was accepted.                                    *)
CccFound ==
    /\ Found("CCC") /\ sub_count < MAX_REPORTS
    /\ \E ok \in BOOLEAN, cut \in SUBSET Neighbours(sub_count + 1) :
         /\ subs' = [Cleared(cut) EXCEPT
                       ![sub_count + 1] = Slot(Min(Matches), ok)]
         /\ sub_count' = IF ok THEN sub_count + 1 ELSE sub_count
         /\ pending_idx' = pending_idx + 1
         /\ subscribe_pending(pending_idx + 1, IF ok THEN 0 ELSE 1)
    /\ UNCHANGED <<connection, hids_end_handle, map, pending_reports>>

(* discover_func without an attribute: the pass is over, or broke off.       *)
PassEnds(k) ==
    \/ /\ disc_state = "REPORT_MAP_CHRC"
       /\ start_report_discovery(k)
    \/ /\ disc_state = "REPORT_CHRC" /\ pending_reports = <<>>
       /\ Fault(k) /\ disc_state' = "IDLE" /\ req' = NoReq
       /\ UNCHANGED <<pending, wired>>
    \/ /\ disc_state = "REPORT_CHRC" /\ pending_reports # <<>>
       /\ pending_idx' = 0 /\ subscribe_pending(0, k)
       /\ UNCHANGED <<pending_reports, wired>>
    \/ /\ disc_state = "REPORT_REF"
       /\ discover_ccc(pending_idx, k)
       /\ UNCHANGED <<pending, wired>>
    \/ /\ disc_state = "CCC"
       /\ pending_idx' = pending_idx + 1 /\ subscribe_pending(pending_idx + 1, k)
       /\ UNCHANGED <<pending_reports, wired>>
    \/ /\ disc_state \in {"HIDS_PRIMARY", "IDLE"}
       /\ Fault(k) /\ req' = NoReq
       /\ UNCHANGED <<disc_state, pending, wired>>

NothingFound ==
    /\ req.op = "discover"
    /\ IF link = "secured" /\ Matches = {} THEN PassEnds(0) ELSE PassEnds(Broken)
    /\ UNCHANGED <<connection, hids_end_handle, map>>

-----------------------------------------------------------------------------
(* report_map_read_cb.  req.from counts the PDUs delivered. *)
Reading(want) == req.op = "read" /\ req.want = want

MapChunk ==
    /\ link = "secured" /\ Reading("map")
    /\ req.from < MapLen[peer]
    /\ rm_len' = IF rm_len < RM_MAX THEN rm_len + 1 ELSE rm_len
    /\ req' = [req EXCEPT !.from = req.from + 1]
    /\ UNCHANGED <<connection, disc_state, hids_end_handle, layout, layout_valid,
                   pending, wired, faults>>

(* What zmk_hid_parse_report_map makes of rm_buf: the peer's layout from a   *)
(* whole map, that or nothing from a truncated one.                          *)
Parsed ==
    LET whole == [of |-> peer, report_id |-> PointerId[peer]]
    IN  IF rm_len = MapLen[peer] THEN {whole} ELSE {whole, NoLayout}

MapComplete ==
    /\ link = "secured" /\ Reading("map")
    /\ req.from = MapLen[peer]
    /\ layout' \in Parsed
    /\ layout_valid' = (layout_valid \/ layout'.report_id # NoPointer)
    /\ start_report_discovery(0)
    /\ UNCHANGED <<connection, hids_end_handle, rm_len>>

MapFailed ==
    /\ Reading("map")
    /\ start_report_discovery(Broken)
    /\ UNCHANGED <<connection, hids_end_handle, map>>

(* report_ref_read_cb. *)
RefRead ==
    /\ link = "secured" /\ Reading("ref")
    /\ cur_report_id' = DB[peer][req.from].id
    /\ discover_ccc(pending_idx, 0)
    /\ UNCHANGED <<connection, hids_end_handle, map, pending_reports, pending_idx, wired>>

RefFailed ==
    /\ Reading("ref")
    /\ cur_report_id' = 0
    /\ discover_ccc(pending_idx, Broken)
    /\ UNCHANGED <<connection, hids_end_handle, map, pending_reports, pending_idx, wired>>

-----------------------------------------------------------------------------
(* The peer rejects the CCC write of a subscription: notify_cb without data. *)
(* sub_count still counts the slot.                                          *)
Rejected ==
    /\ link = "secured" /\ Fault(1)
    /\ \E i \in DOMAIN subs :
         /\ subs[i].holder = peer
         /\ subs' = [subs EXCEPT ![i].holder = None, ![i].value_handle = 0]
    /\ UNCHANGED <<connection, disc_state, req, hids_end_handle, map, pending, sub_count>>

LinkLost ==
    /\ link = "secured"
    /\ link' = "lost"
    /\ UNCHANGED <<peer, disc_state, req, hids_end_handle, map, pending, wired, faults>>

(* The host may tear the subscriptions of a peer down when its link is lost. *)
(* It need not: those of a bonded peer it can keep for the next link.        *)
TornDown(p) ==
    /\ link # "secured"
    /\ \E i \in DOMAIN subs : subs[i].holder = p
    /\ subs' = [i \in DOMAIN subs |->
                  IF subs[i].holder = p
                  THEN [subs[i] EXCEPT !.holder = None, !.value_handle = 0]
                  ELSE subs[i]]
    /\ UNCHANGED <<connection, disc_state, req, hids_end_handle, map, pending,
                   sub_count, faults>>

Disconnected_KeepsLayout ==                         \* faulty: for mutation
    /\ link = "lost"
    /\ link' = "down" /\ peer' = None
    /\ sub_count' = 0
    /\ pending_reports' = <<>> /\ pending_idx' = 0
    /\ disc_state' = "IDLE" /\ rm_len' = 0 /\ faults' = 0
    /\ UNCHANGED <<req, hids_end_handle, layout, layout_valid, cur_report_id, subs>>

Disconnected_KeepsCount ==                          \* faulty: for mutation
    /\ link = "lost"
    /\ link' = "down" /\ peer' = None
    /\ pending_reports' = <<>> /\ pending_idx' = 0
    /\ disc_state' = "IDLE"
    /\ layout_valid' = FALSE /\ rm_len' = 0
    /\ faults' = 0
    /\ UNCHANGED <<req, hids_end_handle, layout, cur_report_id, wired>>

(* disconnected, as far as it concerns discovery. *)
Disconnected ==
    /\ link = "lost"
    /\ link' = "down" /\ peer' = None
    /\ sub_count' = 0
    /\ pending_reports' = <<>> /\ pending_idx' = 0
    /\ disc_state' = "IDLE"
    /\ layout_valid' = FALSE /\ rm_len' = 0
    /\ faults' = 0
    /\ UNCHANGED <<req, hids_end_handle, layout, cur_report_id, subs>>

Respond ==
    \/ HidsFound \/ MapFound \/ ReportFound \/ RefFound \/ CccFound \/ NothingFound
    \/ MapChunk \/ MapComplete \/ MapFailed \/ RefRead \/ RefFailed

DiscInit ==
    /\ link = "down" /\ peer = None
    /\ disc_state = "IDLE" /\ req = NoReq /\ hids_end_handle = 0
    /\ rm_len = 0 /\ layout = NoLayout /\ layout_valid = FALSE
    /\ pending_reports = <<>> /\ pending_idx = 0 /\ cur_report_id = 0
    /\ subs = [i \in 1 .. MAX_REPORTS |-> EmptySlot] /\ sub_count = 0
    /\ faults = 0

DiscNext ==
    \/ \E p \in Peers : Secured(p) \/ TornDown(p)
    \/ Respond
    \/ Rejected \/ LinkLost \/ Disconnected

DiscSpec == DiscInit /\ [][DiscNext]_discVars

(* The host answers or aborts every request (the ATT transaction timeout):   *)
(* none stays outstanding and as it is for good.  Respond is enabled exactly *)
(* while a request is outstanding, and only Respond moves it on, so this is  *)
(* weak fairness of Respond, in a form that TLC checks faster.               *)
FairDiscSpec == DiscSpec /\ ([]<>(req = NoReq) \/ []<><<TRUE>>_req)

-----------------------------------------------------------------------------
States == {"IDLE", "HIDS_PRIMARY", "REPORT_MAP_CHRC", "REPORT_CHRC", "REPORT_REF", "CCC"}
Handles == {0} \union UNION {1 .. Len(DB[p]) : p \in Peers}

(* The types. *)
DiscTypeOK ==
    /\ link \in {"down", "secured", "lost"} /\ peer \in Peers \union {None}
    /\ link = "down" <=> peer = None
    /\ disc_state \in States
    /\ \/ req = NoReq
       \/ req.op \in {"discover", "read"} /\ req.from \in Nat /\ req.to \in Handles
    /\ hids_end_handle \in Handles
    /\ rm_len \in 0 .. RM_MAX
    /\ layout \in [of : Peers \union {None}, report_id : Ids \union {NoPointer}]
    /\ layout_valid \in BOOLEAN
    /\ pending_reports \in Seq(Handles \ {0}) /\ Len(pending_reports) <= MAX_REPORTS
    /\ pending_idx \in 0 .. MAX_REPORTS /\ cur_report_id \in Ids
    /\ subs \in [1 .. MAX_REPORTS ->
          [report_id : Ids, value_handle : Handles, ccc_handle : Handles,
           holder : Peers \union {None}]]
    /\ sub_count \in 0 .. MAX_REPORTS
    /\ faults \in 0 .. MaxFaults

(* discover_func tells passes apart by disc_state alone: whatever failed, an *)
(* answer on a live link always finds the state of the pass that asked for   *)
(* it.                                                                       *)
StateOf(want) ==
    CASE want = "service" -> "HIDS_PRIMARY" [] want = "map" -> "REPORT_MAP_CHRC"
      [] want = "report" -> "REPORT_CHRC"   [] want = "ref" -> "REPORT_REF"
      [] want = "ccc" -> "CCC"

AnswerFindsItsState ==
    link = "secured" /\ req # NoReq => disc_state = StateOf(req.want)

(* The attributes of the characteristic whose value handle is h. *)
Own(p, h, type) ==
    {d \in h + 1 .. Len(DB[p]) :
        /\ DB[p][d].type = type
        /\ \A e \in h + 1 .. d : DB[p][e].type \notin {"map", "report", "other"}}

OwnIds(p, v) == {DB[p][d].id : d \in Own(p, v, "ref")}

(* The subscriptions of this link: counted, and not lost again. *)
Live == {i \in 1 .. sub_count : subs[i].holder = peer}

(* Each live subscription is wired to one notifiable report, on any peer: to *)
(* that report's own CCC if it has one, and to the report ID of its own      *)
(* reference, or 0 if that could not be read (discover_ccc, read_report_ref, *)
(* cur_report_end_handle).                                                   *)
WiredRight ==
    \A i \in Live :
        link = "secured" =>
            LET v == subs[i].value_handle IN
            /\ DB[peer][v - 1].type = "report" /\ DB[peer][v - 1].notify
            /\ Own(peer, v, "ccc") # {} => subs[i].ccc_handle \in Own(peer, v, "ccc")
            /\ OwnIds(peer, v) # {} => subs[i].report_id \in {0} \union OwnIds(peer, v)

(* No report has two live slots: its notifications would be published twice. *)
NoTwoAlike == \A i, j \in Live : i # j => subs[i].value_handle # subs[j].value_handle

(* The slots are sound, also those used again after a failed subscription or *)
(* on a later link: no two live ones are alike, and once a discovery has run *)
(* without a failure, none that the host may have kept from earlier links of *)
(* this peer is left beyond sub_count, where nothing was written anew.       *)
SlotsSound ==
    /\ NoTwoAlike
    /\ link = "secured" /\ req = NoReq /\ faults = 0 /\ hids_end_handle > 0 =>
         \A i \in DOMAIN subs : subs[i].holder = peer => i <= sub_count

(* The searches stay apart, on any peer: a report that is subscribed to has  *)
(* no other's CCC, not even where it has none of its own, since that of a    *)
(* report behind it lies beyond that report's value.  Enabling it twice      *)
(* would leave one of the two reports silent (cur_report_end_handle).        *)
DescriptorsApart ==
    \A i, j \in Live :
        LET s == subs[i]  t == subs[j] IN
        s.value_handle < t.value_handle
        => s.ccc_handle \in s.value_handle + 1 .. t.value_handle - 1

(* A layout is used only on the link whose Report Map it was parsed from.    *)
(* That it is this peer's, and the next property, are included in            *)
(* ImplementsSubscriptions below.                                            *)
LayoutIsThisPeers ==
    layout_valid => /\ layout.of = peer /\ peer # None
                    /\ layout.report_id = PointerId[peer]

(* The layout is written before any notification of this link's              *)
(* subscriptions can flow: none is made yet (the comment on layout).         *)
LayoutBeforeSubscriptions ==
    [][layout' # layout => sub_count = 0 /\ ~layout_valid]_discVars

(* The notifiable reports of p, in handle order, and those with a CCC. *)
Notifiable(p) ==
    {h \in DOMAIN DB[p] : DB[p][h].type = "value" /\ h > 1
                          /\ DB[p][h - 1].type = "report" /\ DB[p][h - 1].notify}
Kept(p) == {h \in Notifiable(p) : Cardinality({g \in Notifiable(p) : g < h}) < MAX_REPORTS}
Subscribable(p) == {h \in Kept(p) : Own(p, h, "ccc") # {}}

(* When nothing failed, discovery ends with every subscribable report        *)
(* subscribed, up to the size of the table, each with its own report ID.     *)
Complete ==
    link = "secured" /\ req = NoReq /\ faults = 0 /\ hids_end_handle > 0 =>
        /\ {subs[i].value_handle : i \in 1 .. sub_count} = Subscribable(peer)
        /\ \A i \in 1 .. sub_count :
             LET own == Own(peer, subs[i].value_handle, "ref") IN
             own # {} => subs[i].report_id = DB[peer][Min(own)].id

(* With no request outstanding on a live link discovery is not waiting for   *)
(* one, except in the state of the first pass.                               *)
OnlyFirstPassIsLeftOpen ==
    link = "secured" /\ req = NoReq => disc_state \in {"IDLE", "HIDS_PRIMARY"}

(* Discovery comes to an end on every link, however its requests fail.       *)
DiscoveryEnds == link = "secured" ~> req = NoReq

(* hog_central.c:269-271: "so a report that lacks a 0x2908/0x2902 can't      *)
(* accidentally pick up the following report's".                             *)
NoForeignDescriptor ==
    \A i \in Live :
        link = "secured" =>
            LET v == subs[i].value_handle IN
            /\ subs[i].ccc_handle \in Own(peer, v, "ccc")
            /\ subs[i].report_id \in {0} \union OwnIds(peer, v)

-----------------------------------------------------------------------------
(* Refinement.  Whose layout decodes, and which reports notify. *)
LayoutOwner == IF layout_valid THEN layout.of ELSE None

LiveHandles == {subs[i].value_handle : i \in Live}

AsSubscriptions == INSTANCE Subscriptions
    WITH owner <- peer, known <- LayoutOwner, live <- LiveHandles,
         Sources <- [p \in Peers |-> Notifiable(p)]

(* However the requests of a link fail, it goes the way the firmware counts  *)
(* on: the layout first, then each subscription in turn to a report of this  *)
(* peer that notifies, none twice, and no count of them for the next peer.   *)
ImplementsSubscriptions == AsSubscriptions!Spec
=============================================================================
