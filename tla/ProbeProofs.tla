----------------------------- MODULE ProbeProofs -----------------------------
(***************************************************************************)
(* Proofs about Probe for every set of peers, their advertisements and     *)
(* attribute tables, and every size of the probe's tables.                 *)
(***************************************************************************)
EXTENDS Probe, Arithmetic, TLAPS, SequenceTheorems, FiniteSetTheorems

(* Nothing happens before main() has brought Bluetooth up. *)
ConnInv ==
    /\ ConnMatchesLink
    /\ bt # "up" => ~scanning /\ default_conn = None
    /\ scanning \in BOOLEAN

LEMMA ConnInit == Init => ConnInv
BY DEF Init, ConnInv, ConnMatchesLink

LEMMA ConnStep == ConnInv /\ [Next]_vars => ConnInv'
<1> SUFFICES ASSUME ConnInv, [Next]_vars PROVE ConnInv'
  OBVIOUS
<1> USE DEF ConnInv, ConnMatchesLink
<1>1. CASE Main
  <2>1. /\ scanning = FALSE /\ default_conn = None /\ link = "none"
        /\ UNCHANGED <<default_conn, link>>
    BY <1>1 DEF Main, connection
  <2>2. scanning' \in BOOLEAN /\ (bt' # "up" => scanning' = FALSE)
    BY <1>1, <2>1 DEF Main, start_scan
  <2> QED
    BY <2>1, <2>2
<1>2. ASSUME NEW p \in Peers, NEW ad \in Ads[p], DeviceFound(p, ad) PROVE ConnInv'
  <2>1. scanning /\ UNCHANGED bt
    BY <1>2 DEF DeviceFound
  <2>2. CASE UNCHANGED <<scanning, connection>>
    BY <2>1, <2>2 DEF connection
  <2>3. CASE scanning' = FALSE /\ default_conn' = p /\ link' = "creating"
    BY <2>1, <2>3, PeersAssumption
  <2>4. CASE default_conn = None /\ start_scan(FALSE) /\ UNCHANGED connection
    BY <2>1, <2>4 DEF start_scan, connection
  <2> QED
    BY <1>2, <2>2, <2>3, <2>4 DEF DeviceFound
<1>3. CASE ConnectFailed
  BY <1>3 DEF ConnectFailed, start_scan
<1>4. CASE Connected
  BY <1>4 DEF Connected
<1>5. CASE Secured
  BY <1>5 DEF Secured
<1>6. CASE SecurityFailed
  BY <1>6 DEF SecurityFailed
<1>7. CASE Clock
  BY <1>7 DEF Clock, connection
<1>8. CASE Respond
  BY <1>8 DEF Respond, connection
<1>9. CASE TornDown
  BY <1>9 DEF TornDown, connection
<1>10. CASE LinkLost
  BY <1>10 DEF LinkLost
<1>11. CASE Disconnected
  BY <1>11 DEF Disconnected, start_scan
<1>12. CASE UNCHANGED vars
  BY <1>12 DEF vars, connection
<1> QED
  BY <1>1, <1>2, <1>3, <1>4, <1>5, <1>6, <1>7, <1>8, <1>9, <1>10, <1>11, <1>12 DEF Next

(* The connection object lives exactly as long as its link, and the scanner  *)
(* is off beside it, however calls fail and links are lost.                  *)
THEOREM ConnCorrect == Spec => []ConnMatchesLink
<1>1. ConnInv => ConnMatchesLink
  BY DEF ConnInv
<1> QED
  BY <1>1, ConnInit, ConnStep, PTL DEF Spec

-----------------------------------------------------------------------------
(* Types.  The search for a CCC has a report whose CCC it is.                *)
Requests == [want : {"none", "service", "report", "ccc"},
             from : Handles \union {h + 1 : h \in Handles}, to : Handles]
Slots == [value_handle : Handles, ccc_handle : Handles, holder : Peers \union {None}]

(* The pass that asks for an attribute. *)
StateOf(want) ==
    CASE want = "service" -> "HIDS_PRIMARY" [] want = "report" -> "REPORT_CHRC"
      [] want = "ccc" -> "CCC" [] OTHER -> "IDLE"

Types ==
    /\ TypeOK
    /\ IsFiniteSet(seen)
    /\ disc_state = "CCC" => pending_idx < Len(pending_reports)
    /\ link = "secured" => default_conn \in Peers
    /\ link = "secured" /\ req # NoReq => disc_state = StateOf(req.want)

LEMMA Bounds == MAX_REPORTS \in Nat /\ MaxFaults \in Nat /\ MAX_SEEN \in Nat
BY BoundsAssumption

LEMMA Handle ==
    /\ 0 \in Handles /\ Handles \subseteq Nat
    /\ \A p \in Peers : /\ Len(DB[p]) \in Handles /\ Len(DB[p]) \in Nat
                        /\ DOMAIN DB[p] = 1 .. Len(DB[p])
                        /\ \A h \in DOMAIN DB[p] : h \in Handles /\ h \in Nat
                        /\ \A h \in DOMAIN DB[p] : DB[p][h].type = "report" => h + 1 \in DOMAIN DB[p]
<1>1. \A p \in Peers : Len(DB[p]) \in Nat /\ DOMAIN DB[p] = 1 .. Len(DB[p])
  BY TablesAssumption
<1>2. \A h : h \in Handles <=> h = 0 \/ \E p \in Peers : h \in 1 .. Len(DB[p])
  BY DEF Handles
<1>3. \A p \in Peers : Len(DB[p]) = 0 \/ Len(DB[p]) \in 1 .. Len(DB[p])
  BY <1>1
<1>4. Handles \subseteq Nat
  BY <1>1, <1>2
<1>5. \A p \in Peers : Len(DB[p]) \in Handles
  BY <1>2, <1>3
<1>6. \A p \in Peers : \A h \in DOMAIN DB[p] : h \in Handles /\ h \in Nat
  BY <1>1, <1>2
<1>7. \A p \in Peers : \A h \in DOMAIN DB[p] : DB[p][h].type = "report" => h + 1 \in DOMAIN DB[p]
  BY TablesAssumption
<1> QED
  BY <1>1, <1>2, <1>4, <1>5, <1>6, <1>7

LEMMA FaultType ==
    ASSUME Types, NEW k \in Nat, Fault(k) PROVE faults' \in 0 .. MaxFaults
BY Bounds DEF Types, TypeOK, Fault

LEMMA FoundHandle ==
    ASSUME Types, NEW state, Found(state)
    PROVE  /\ default_conn \in Peers /\ link = "secured" /\ disc_state = state
           /\ Min(Matches) \in Matches /\ (\A x \in Matches : Min(Matches) <= x)
           /\ Min(Matches) \in DOMAIN DB[default_conn]
           /\ Min(Matches) \in Handles /\ Min(Matches) \in Nat
<1>1. default_conn \in Peers /\ link = "secured" /\ disc_state = state
  BY DEF Found, Types
<1>2. Matches \in SUBSET Nat /\ Matches # {}
  BY <1>1, Handle DEF Matches, Found
<1>3. Min(Matches) \in Matches /\ \A x \in Matches : Min(Matches) <= x
  BY <1>2, MinOfNats
<1>4. \A h \in Matches : h \in DOMAIN DB[default_conn]
  BY DEF Matches
<1> QED
  BY <1>1, <1>3, <1>4, Handle

LEMMA PendingMoves ==
    ASSUME Types, NEW n \in Nat, NEW k \in Nat, subscribe_pending(n, k)
    PROVE  /\ req' \in Requests /\ faults' \in 0 .. MaxFaults
           /\ disc_state' \in {"IDLE", "CCC"}
           /\ disc_state' = "CCC" => n < Len(pending_reports)
           /\ req' # NoReq => disc_state' = StateOf(req'.want)
<1>1. faults' \in 0 .. MaxFaults
  <2>1. Fault(k) \/ Fault(k + 1)
    BY DEF subscribe_pending, Starts, Fails
  <2> QED
    BY <2>1, FaultType
<1>2. pending_reports \in Seq(Handles) /\ hids_end_handle \in Handles
  BY DEF Types, TypeOK
<1>3. n < Len(pending_reports) =>
        Discover("ccc", pending_reports[n + 1] + 1, hids_end_handle) \in Requests
  <2> SUFFICES ASSUME n < Len(pending_reports)
               PROVE  Discover("ccc", pending_reports[n + 1] + 1, hids_end_handle) \in Requests
    OBVIOUS
  <2>1. pending_reports[n + 1] \in Handles
    BY <1>2
  <2> QED
    BY <1>2, <2>1 DEF Discover, Requests
<1>4. NoReq \in Requests
  BY Handle DEF NoReq, Requests
<1> QED
  BY <1>1, <1>3, <1>4 DEF subscribe_pending, Discover, StateOf

(* The slot that is filled for a report, whether or not the host takes it.   *)
LEMMA SlotWritten ==
    ASSUME Types, CccFound
    PROVE  \E ok \in BOOLEAN :
             /\ sub_count + 1 \in DOMAIN sub_params /\ DOMAIN sub_params' = DOMAIN sub_params
             /\ sub_params' \in [1 .. MAX_REPORTS -> Slots]
             /\ ok = TRUE =>
                  /\ sub_params'[sub_count + 1].value_handle = pending_reports[pending_idx + 1]
                  /\ sub_params'[sub_count + 1].ccc_handle = Min(Matches)
                  /\ sub_params'[sub_count + 1].holder = default_conn
             /\ \A i \in DOMAIN sub_params \ {sub_count + 1} : sub_params'[i] = sub_params[i]
             /\ sub_count' = IF ok THEN sub_count + 1 ELSE sub_count
             /\ pending_idx' = pending_idx + 1
             /\ subscribe_pending(pending_idx + 1, IF ok THEN 0 ELSE 1)
<1> DEFINE n == sub_count + 1
<1>1. PICK ok \in BOOLEAN :
        /\ sub_params' = [sub_params EXCEPT
               ![n] = Slot(Min(Matches), IF ok THEN default_conn ELSE sub_params[n].holder)]
        /\ sub_count' = IF ok THEN sub_count + 1 ELSE sub_count
        /\ pending_idx' = pending_idx + 1
        /\ subscribe_pending(pending_idx + 1, IF ok THEN 0 ELSE 1)
  BY DEF CccFound
<1>2. /\ sub_count < MAX_REPORTS /\ default_conn \in Peers /\ pending_idx < Len(pending_reports)
      /\ Min(Matches) \in Handles
  BY FoundHandle DEF CccFound, Types
<1>3. /\ sub_count \in 0 .. MAX_REPORTS /\ pending_idx \in 0 .. MAX_REPORTS
      /\ pending_reports \in Seq(Handles) /\ sub_params \in [1 .. MAX_REPORTS -> Slots]
  BY DEF Types, TypeOK, Slots
<1>4. n \in 1 .. MAX_REPORTS /\ pending_reports[pending_idx + 1] \in Handles
  BY <1>2, <1>3, Bounds
<1> DEFINE q == IF ok THEN default_conn ELSE sub_params[n].holder
<1>5. q \in Peers \union {None}
  <2>1. sub_params[n] \in Slots
    BY <1>3, <1>4
  <2>2. sub_params[n].holder \in Peers \union {None}
    BY <2>1 DEF Slots
  <2> QED
    BY <1>2, <2>2
<1>6. Slot(Min(Matches), q) \in Slots
  <2> HIDE DEF q
  <2> QED
    BY <1>2, <1>4, <1>5, Handle DEF Slot, EmptySlot, Slots
<1>7. /\ DOMAIN sub_params' = DOMAIN sub_params /\ sub_params' \in [1 .. MAX_REPORTS -> Slots]
      /\ sub_params'[n] = Slot(Min(Matches), q)
      /\ \A i \in DOMAIN sub_params \ {n} : sub_params'[i] = sub_params[i]
  <2> HIDE DEF Slots
  <2>1. sub_params' = [sub_params EXCEPT ![n] = Slot(Min(Matches), q)]
    BY <1>1
  <2> HIDE DEF n, q
  <2> QED
    BY <1>3, <1>4, <1>6, <2>1
<1>8. ok = TRUE => sub_params'[n].value_handle = pending_reports[pending_idx + 1]
                   /\ sub_params'[n].ccc_handle = Min(Matches)
                   /\ sub_params'[n].holder = default_conn
  <2>1. default_conn # None /\ (ok = TRUE => q = default_conn)
    BY <1>2, PeersAssumption
  <2> HIDE DEF n, q
  <2> QED
    BY <1>7, <2>1 DEF Slot
<1> QED
  BY <1>1, <1>3, <1>4, <1>7, <1>8

LEMMA RespondTypes == ASSUME Types, Respond PROVE Types'
<1>0. /\ UNCHANGED <<bt, scanning, default_conn, link, bonds, last_failed_addr, cooling, seen, named>>
      /\ hids_end_handle \in Handles /\ pending_reports \in Seq(Handles)
      /\ Len(pending_reports) <= MAX_REPORTS /\ MAX_REPORTS \in Nat
      /\ pending_idx \in 0 .. MAX_REPORTS /\ sub_count \in 0 .. MAX_REPORTS
      /\ sub_params \in [1 .. MAX_REPORTS -> Slots]
      /\ req \in Requests /\ disc_state \in {"IDLE", "HIDS_PRIMARY", "REPORT_CHRC", "CCC"}
  BY Bounds DEF Respond, connection, cooldown, sightings, Types, TypeOK, Requests, Slots
<1>1. SUFFICES /\ disc_state' \in {"IDLE", "HIDS_PRIMARY", "REPORT_CHRC", "CCC"}
               /\ req' \in Requests /\ hids_end_handle' \in Handles
               /\ pending_reports' \in Seq(Handles) /\ Len(pending_reports') <= MAX_REPORTS
               /\ pending_idx' \in 0 .. MAX_REPORTS /\ sub_count' \in 0 .. MAX_REPORTS
               /\ sub_params' \in [1 .. MAX_REPORTS -> Slots]
               /\ faults' \in 0 .. MaxFaults
               /\ disc_state' = "CCC" => pending_idx' < Len(pending_reports')
               /\ req' # NoReq => disc_state' = StateOf(req'.want)
  <2>1. /\ bt \in {"off", "up", "dead"} /\ default_conn \in Peers \union {None}
        /\ link \in {"none", "creating", "open", "securing", "secured", "refused", "lost"}
        /\ bonds \subseteq Peers /\ last_failed_addr \in Peers \union {None}
        /\ seen \subseteq Peers /\ Cardinality(seen) <= MAX_SEEN /\ named \subseteq seen
        /\ IsFiniteSet(seen) /\ (link = "secured" => default_conn \in Peers)
    BY DEF Types, TypeOK
  <2>2. scanning \in BOOLEAN /\ cooling \in BOOLEAN
    BY DEF Types, TypeOK
  <2> QED
    BY <1>0, <2>1, <2>2 DEF Types, TypeOK, Requests, Slots
<1>2. NoReq \in Requests /\ 0 \in 0 .. MAX_REPORTS
  BY <1>0, Handle DEF NoReq, Requests
<1>3. CASE HidsFound
  <2>1. Len(DB[default_conn]) \in Handles /\ Min(Matches) \in Handles
    BY <1>3, FoundHandle, Handle DEF HidsFound
  <2>2. Discover("report", Min(Matches) + 1, Len(DB[default_conn])) \in Requests
    BY <2>1 DEF Discover, Requests
  <2>3. faults' \in 0 .. MaxFaults
    BY <1>3, FaultType DEF HidsFound, Starts, Fails
  <2> QED
    BY <1>0, <1>2, <1>3, <2>1, <2>2, <2>3 DEF HidsFound, pending, wired, Discover, StateOf
<1>4. CASE ReportFound
  <2> DEFINE m == Min(Matches)
  <2>1. m \in Matches /\ m \in Handles /\ m \in DOMAIN DB[default_conn]
        /\ default_conn \in Peers /\ req # NoReq /\ disc_state = "REPORT_CHRC"
    BY <1>4, FoundHandle DEF ReportFound, Found
  <2> HIDE DEF m
  <2>2. req' \in Requests /\ req'.want = req.want
    <3>1. m + 1 \in {h + 1 : h \in Handles}
      BY <2>1
    <3>2. req' = [req EXCEPT !.from = m + 1]
      BY <1>4 DEF ReportFound, m
    <3> QED
      BY <1>0, <3>1, <3>2 DEF Requests
  <2>3. pending_reports' = pending_reports
        \/ (Len(pending_reports) < MAX_REPORTS /\ pending_reports' = Append(pending_reports, m + 1))
    BY <1>4 DEF ReportFound, m
  <2>4. req.want = "report"
    <3>1. link = "secured"
      BY <1>4, FoundHandle DEF ReportFound
    <3>2. disc_state = StateOf(req.want)
      BY <2>1, <3>1 DEF Types
    <3> QED
      BY <2>1, <3>2 DEF StateOf
  <2>5. m + 1 \in Handles
    <3>1. DB[default_conn][m].type = "report"
      BY <2>1, <2>4 DEF Matches
    <3> QED
      BY <2>1, <3>1, Handle
  <2>6. pending_reports' \in Seq(Handles) /\ Len(pending_reports') <= MAX_REPORTS
    <3> DEFINE v == m + 1
    <3>1. v \in Handles /\ (pending_reports' = pending_reports \/
            (Len(pending_reports) < MAX_REPORTS /\ pending_reports' = Append(pending_reports, v)))
      BY <2>3, <2>5
    <3> HIDE DEF v
    <3> QED
      BY <1>0, <3>1
  <2>7. faults' \in 0 .. MaxFaults
    BY <1>4 DEF ReportFound, Types, TypeOK
  <2> QED
    BY <1>0, <1>4, <2>1, <2>2, <2>4, <2>6, <2>7 DEF ReportFound, wired, StateOf
<1>5. CASE CccFound
  <2>1. PICK ok \in BOOLEAN :
          /\ sub_params' \in [1 .. MAX_REPORTS -> Slots]
          /\ sub_count' = IF ok THEN sub_count + 1 ELSE sub_count
          /\ pending_idx' = pending_idx + 1
          /\ subscribe_pending(pending_idx + 1, IF ok THEN 0 ELSE 1)
    BY <1>5, SlotWritten
  <2>2. /\ sub_count < MAX_REPORTS /\ pending_idx < Len(pending_reports)
        /\ UNCHANGED <<hids_end_handle, pending_reports>>
    BY <1>5, FoundHandle DEF CccFound, Types
  <2>6. pending_idx + 1 \in Nat /\ pending_idx + 1 \in 0 .. MAX_REPORTS
        /\ (IF ok THEN 0 ELSE 1) \in Nat /\ sub_count' \in 0 .. MAX_REPORTS
    BY <1>0, <2>1, <2>2
  <2>7. /\ req' \in Requests /\ faults' \in 0 .. MaxFaults /\ disc_state' \in {"IDLE", "CCC"}
        /\ disc_state' = "CCC" => pending_idx + 1 < Len(pending_reports)
        /\ req' # NoReq => disc_state' = StateOf(req'.want)
    BY <2>1, <2>6, PendingMoves
  <2> QED
    BY <1>0, <2>1, <2>2, <2>6, <2>7
<1>6. CASE NothingFound
  <2>1. PICK k \in Nat : PassEnds(k)
    BY <1>6 DEF NothingFound
  <2>2. UNCHANGED <<hids_end_handle, pending_reports, sub_params, sub_count>>
    BY <1>6 DEF NothingFound, wired
  <2>3. CASE Fault(k) /\ disc_state' \in {"IDLE", disc_state} /\ req' = NoReq /\ UNCHANGED pending_idx
    <3>1. faults' \in 0 .. MaxFaults
      BY <2>3, FaultType
    <3>2. disc_state' = "CCC" => pending_idx' < Len(pending_reports')
      BY <2>2, <2>3 DEF Types
    <3> QED
      BY <1>0, <1>2, <2>2, <2>3, <3>1, <3>2
  <2>4. CASE pending_idx' = 0 /\ subscribe_pending(0, k)
    BY <1>0, <1>2, <2>2, <2>4, PendingMoves
  <2> QED
    BY <2>1, <2>3, <2>4 DEF PassEnds
<1> QED
  BY <1>3, <1>4, <1>5, <1>6 DEF Respond

(* A handler that leaves discovery and the sightings alone. *)
LEMMA OthersTypes ==
    ASSUME Types, UNCHANGED <<discovery, sightings>>, bt' \in {"off", "up", "dead"},
           scanning' \in BOOLEAN, default_conn' \in Peers \union {None}, bonds' = bonds,
           link' \in {"none", "creating", "open", "securing", "refused", "lost"}
             \/ UNCHANGED connection,
           last_failed_addr' \in Peers \union {None}, cooling' \in BOOLEAN
    PROVE  Types'
<1>1. /\ disc_state \in {"IDLE", "HIDS_PRIMARY", "REPORT_CHRC", "CCC"}
      /\ req \in Requests /\ hids_end_handle \in Handles
      /\ pending_reports \in Seq(Handles) /\ Len(pending_reports) <= MAX_REPORTS
      /\ pending_idx \in 0 .. MAX_REPORTS /\ sub_count \in 0 .. MAX_REPORTS
      /\ sub_params \in [1 .. MAX_REPORTS -> Slots] /\ faults \in 0 .. MaxFaults
      /\ disc_state = "CCC" => pending_idx < Len(pending_reports)
      /\ seen \subseteq Peers /\ Cardinality(seen) <= MAX_SEEN /\ named \subseteq seen
      /\ IsFiniteSet(seen) /\ bonds \subseteq Peers
  BY DEF Types, TypeOK, Requests, Slots
<1>2. UNCHANGED <<disc_state, req, hids_end_handle, pending_reports, pending_idx, sub_count,
                  sub_params, faults, seen, named>>
  BY DEF discovery, pending, wired, sightings
<1>3. link' \in {"none", "creating", "open", "securing", "secured", "refused", "lost"}
  BY DEF Types, TypeOK, connection
<1>4. /\ link' = "secured" => default_conn' \in Peers
      /\ link' = "secured" /\ req' # NoReq => disc_state' = StateOf(req'.want)
  BY <1>2 DEF Types, connection
<1>5. scanning' \in BOOLEAN /\ cooling' \in BOOLEAN
  OBVIOUS
<1>6. TypeOK'
  BY <1>1, <1>2, <1>3, <1>5 DEF TypeOK, Requests, Slots
<1> QED
  BY <1>1, <1>2, <1>4, <1>6 DEF Types

LEMMA SightTypes ==
    ASSUME Types, NEW p \in Peers, NEW ad, Sight(p, ad)
    PROVE  /\ seen' \subseteq Peers /\ Cardinality(seen') <= MAX_SEEN
           /\ named' \subseteq seen' /\ IsFiniteSet(seen')
<1>1. /\ seen \subseteq Peers /\ Cardinality(seen) <= MAX_SEEN /\ named \subseteq seen
      /\ IsFiniteSet(seen) /\ MAX_SEEN \in Nat
  BY Bounds DEF Types, TypeOK
<1>2. CASE UNCHANGED sightings
  BY <1>1, <1>2 DEF sightings
<1>3. CASE /\ seen' = IF Enters(p) THEN seen \union {p} ELSE seen
           /\ named' = Name(p, ad)
  <2>1. Enters(p) => p \notin seen /\ Cardinality(seen) < MAX_SEEN
    BY DEF Enters
  <2>2. Cardinality(seen) \in Nat
    BY <1>1, FS_CardinalityType
  <2>3. IsFiniteSet(seen \union {p}) /\ (p \notin seen => Cardinality(seen \union {p}) = Cardinality(seen) + 1)
    BY <1>1, FS_AddElement
  <2>4. IsFiniteSet(seen') /\ Cardinality(seen') <= MAX_SEEN
    BY <1>1, <1>3, <2>1, <2>2, <2>3
  <2>5. seen' \subseteq Peers /\ named' \subseteq seen'
    BY <1>1, <1>3 DEF Name
  <2> QED
    BY <2>4, <2>5
<1> QED
  BY <1>2, <1>3 DEF Sight

LEMMA TypesInit == Init => Types
<1> SUFFICES ASSUME Init PROVE Types
  OBVIOUS
<1>1. /\ 0 \in Handles /\ 0 \in 0 .. MAX_REPORTS /\ 0 \in 0 .. MaxFaults
  BY Handle, Bounds
<1>2. NoReq \in Requests /\ EmptySlot \in Slots
  BY <1>1 DEF NoReq, Requests, EmptySlot, Slots
<1>3. sub_params \in [1 .. MAX_REPORTS -> Slots]
  BY <1>2 DEF Init
<1>4. pending_reports \in Seq(Handles) /\ Len(pending_reports) <= MAX_REPORTS
  BY Bounds DEF Init
<1>5. seen \subseteq Peers /\ Cardinality(seen) <= MAX_SEEN /\ named \subseteq seen /\ IsFiniteSet(seen)
  BY FS_EmptySet, Bounds DEF Init
<1>6. bonds \subseteq Peers /\ scanning \in BOOLEAN /\ cooling \in BOOLEAN
  BY DEF Init
<1>7. /\ bt \in {"off", "up", "dead"} /\ default_conn = None /\ link = "none"
      /\ last_failed_addr = None /\ disc_state = "IDLE" /\ req = NoReq
      /\ hids_end_handle = 0 /\ pending_idx = 0 /\ sub_count = 0 /\ faults = 0
  BY DEF Init
<1> QED
  BY <1>1, <1>2, <1>3, <1>4, <1>5, <1>6, <1>7 DEF Types, TypeOK, Requests, Slots

LEMMA TypesStep == ConnInv /\ Types /\ [Next]_vars => Types'
<1> SUFFICES ASSUME ConnInv, Types, [Next]_vars PROVE Types'
  OBVIOUS
<1>0. /\ bt \in {"off", "up", "dead"} /\ default_conn \in Peers \union {None}
      /\ last_failed_addr \in Peers \union {None}
      /\ link \in {"none", "creating", "open", "securing", "secured", "refused", "lost"}
  BY DEF Types, TypeOK
<1>b. scanning \in BOOLEAN /\ cooling \in BOOLEAN
  BY DEF Types, TypeOK
<1>1. CASE Main
  <2>1. scanning' \in BOOLEAN /\ cooling' = cooling
    BY <1>1, <1>b DEF Main, start_scan, cooldown
  <2>2. bt' \in {"off", "up", "dead"}
    BY <1>1 DEF Main
  <2>3. UNCHANGED <<connection, default_conn, link, bonds, last_failed_addr, discovery, sightings>>
    BY <1>1 DEF Main, connection, cooldown
  <2> QED
    BY <1>0, <1>b, <2>1, <2>2, <2>3, OthersTypes
<1>2. ASSUME NEW p \in Peers, NEW ad \in Ads[p], DeviceFound(p, ad) PROVE Types'
  <2>1. /\ seen' \subseteq Peers /\ Cardinality(seen') <= MAX_SEEN
        /\ named' \subseteq seen' /\ IsFiniteSet(seen')
    BY <1>2, SightTypes DEF DeviceFound
  <2>2. UNCHANGED <<bt, bonds, last_failed_addr, cooling, disc_state, req, hids_end_handle,
                    pending_reports, pending_idx, sub_params, sub_count, faults>>
    BY <1>2 DEF DeviceFound, cooldown, discovery, pending, wired
  <2>3. scanning' \in BOOLEAN
    BY <1>2, <1>b DEF DeviceFound, start_scan
  <2>4. UNCHANGED connection \/ (default_conn' = p /\ link' = "creating")
    BY <1>2 DEF DeviceFound
  <2>5. default_conn' \in Peers \union {None}
        /\ link' \in {"none", "creating", "open", "securing", "secured", "refused", "lost"}
        /\ (link' = "secured" => link = "secured" /\ default_conn' = default_conn)
    BY <1>0, <2>4 DEF connection
  <2>6. TypeOK'
    BY <1>b, <2>1, <2>2, <2>3, <2>5 DEF Types, TypeOK
  <2> QED
    BY <2>1, <2>2, <2>5, <2>6 DEF Types
<1>3. CASE ConnectFailed
  BY <1>0, <1>b, <1>3, OthersTypes DEF ConnectFailed, start_scan, cooldown
<1>4. CASE Connected
  BY <1>0, <1>b, <1>4, OthersTypes DEF Connected, cooldown
<1>5. CASE Secured
  <2>1. default_conn \in Peers
    BY <1>0, <1>5 DEF Secured, ConnInv, ConnMatchesLink
  <2>2. /\ pending_reports' = <<>> /\ pending_idx' = 0 /\ sub_count' = 0
        /\ disc_state' = "HIDS_PRIMARY" /\ link' = "secured" /\ bonds' \subseteq Peers
        /\ UNCHANGED <<bt, default_conn, last_failed_addr, hids_end_handle,
                       sub_params, seen, named>>
    BY <1>5, <2>1 DEF Secured, cooldown, sightings, Types, TypeOK
  <2>8. scanning' = scanning /\ cooling' = cooling
    BY <1>5 DEF Secured, cooldown
  <2>3. req' = Discover("service", 1, Len(DB[default_conn])) \/ req' = NoReq
    BY <1>5 DEF Secured
  <2>4. req' \in Requests /\ (req' # NoReq => req'.want = "service")
    <3>1. 1 \in {h + 1 : h \in Handles} /\ 0 \in Handles /\ Len(DB[default_conn]) \in Handles
      BY <2>1, Handle
    <3> QED
      BY <2>3, <3>1 DEF Discover, NoReq, Requests
  <2>5. faults' \in 0 .. MaxFaults /\ 0 \in 0 .. MAX_REPORTS
    BY <1>5, Bounds DEF Secured
  <2>6. pending_reports' \in Seq(Handles) /\ Len(pending_reports') <= MAX_REPORTS
    BY <2>2, Bounds
  <2>7. TypeOK'
    BY <1>b, <2>2, <2>4, <2>5, <2>6, <2>8 DEF Types, TypeOK, Requests
  <2> QED
    BY <2>1, <2>2, <2>4, <2>7 DEF Types, StateOf
<1>6. CASE SecurityFailed
  BY <1>0, <1>b, <1>6, OthersTypes DEF SecurityFailed
<1>7. CASE Clock
  <2>1. cooling' \in BOOLEAN /\ UNCHANGED <<scanning, connection>>
    BY <1>7 DEF Clock
  <2>2. UNCHANGED <<bt, default_conn, link, bonds, last_failed_addr, discovery, sightings>>
    BY <1>7 DEF Clock, connection
  <2> QED
    BY <1>0, <1>b, <2>1, <2>2, OthersTypes
<1>8. CASE Respond
  BY <1>8, RespondTypes
<1>9. CASE TornDown
  <2>1. sub_params \in [1 .. MAX_REPORTS -> Slots] /\ EmptySlot \in Slots
    BY Handle DEF Types, TypeOK, Slots, EmptySlot
  <2>2. sub_params' \in [1 .. MAX_REPORTS -> Slots]
    <3> HIDE DEF Slots
    <3> QED
      BY <1>9, <2>1 DEF TornDown, Dropped
  <2>3. faults' \in 0 .. MaxFaults
    BY <1>9, FaultType DEF TornDown, Types, TypeOK
  <2>4. UNCHANGED <<bt, default_conn, link, bonds, last_failed_addr, disc_state,
                    req, hids_end_handle, pending_reports, pending_idx, sub_count, seen, named>>
        /\ scanning' = scanning /\ cooling' = cooling
    BY <1>9 DEF TornDown, connection, cooldown, pending, sightings
  <2>5. TypeOK'
    BY <1>b, <2>2, <2>3, <2>4 DEF Types, TypeOK, Slots
  <2> QED
    BY <2>4, <2>5 DEF Types
<1>10. CASE LinkLost
  BY <1>0, <1>b, <1>10, OthersTypes DEF LinkLost, cooldown
<1>11. CASE Disconnected
  <2>1. /\ default_conn' = None /\ link' = "none" /\ pending_reports' = <<>> /\ pending_idx' = 0
        /\ sub_count' = 0 /\ disc_state' = "IDLE" /\ faults' = 0
        /\ UNCHANGED <<bt, bonds, last_failed_addr, req, hids_end_handle, sub_params, seen, named>>
        /\ cooling' = cooling
    BY <1>11 DEF Disconnected, cooldown, sightings
  <2>2. scanning' \in BOOLEAN
    BY <1>11, <1>b DEF Disconnected, start_scan
  <2>3. /\ pending_reports' \in Seq(Handles) /\ Len(pending_reports') <= MAX_REPORTS
        /\ 0 \in 0 .. MAX_REPORTS /\ 0 \in 0 .. MaxFaults
    BY <2>1, Bounds
  <2>4. TypeOK'
    BY <1>b, <2>1, <2>2, <2>3 DEF Types, TypeOK
  <2> QED
    BY <2>1, <2>4 DEF Types
<1>12. CASE UNCHANGED vars
  <2>1. UNCHANGED <<bt, connection, default_conn, link, bonds, last_failed_addr, discovery,
                    sightings>>
        /\ scanning' = scanning /\ cooling' = cooling
    BY <1>12 DEF vars, connection, cooldown
  <2> QED
    BY <1>0, <1>b, <2>1, OthersTypes
<1> QED
  BY <1>1, <1>2, <1>3, <1>4, <1>5, <1>6, <1>7, <1>8, <1>9, <1>10, <1>11, <1>12 DEF Next

(* The probe's tables hold, whatever is seen, found or fails: seen[] and the *)
(* slots stay within their sizes, and no report is asked for beyond them.    *)
THEOREM TypeCorrect == Spec => []TypeOK
<1>1. Types => TypeOK
  BY DEF Types
<1> QED
  BY <1>1, ConnInit, ConnStep, TypesInit, TypesStep, PTL DEF Spec

-----------------------------------------------------------------------------
(* The subscriptions.  Reports are found and subscribed in the order of      *)
(* their handles.  The search for a CCC is not kept from the reports behind, *)
(* but a report's own comes first.                                           *)
(* A slot counted on this link is live, or has been let go of. *)
LiveOrEmpty == \A i \in 1 .. sub_count : i \in Live \/ sub_params[i] = EmptySlot

Fine(p, s) ==
    /\ s.value_handle \in Notifiable(p)
    /\ Own(p, s.value_handle) # {} => s.ccc_handle \in Own(p, s.value_handle)

Ahead(i) ==
    \A k \in pending_idx + 1 .. Len(pending_reports) :
        sub_params[i].value_handle < pending_reports[k]

Increasing ==
    \A k, l \in 1 .. Len(pending_reports) : k < l => pending_reports[k] < pending_reports[l]

NoTwoAlike ==
    \A i, j \in Live : i # j => sub_params[i].value_handle # sub_params[j].value_handle

Wiring ==
    /\ disc_state = "HIDS_PRIMARY" => pending_reports = <<>>
    /\ disc_state \in {"HIDS_PRIMARY", "REPORT_CHRC"} => sub_count = 0
    /\ disc_state # "HIDS_PRIMARY" => hids_end_handle = Len(DB[default_conn])
    /\ \A k \in 1 .. Len(pending_reports) : pending_reports[k] \in Notifiable(default_conn)
    /\ Increasing
    /\ disc_state = "REPORT_CHRC" /\ req # NoReq =>
         \A k \in 1 .. Len(pending_reports) : pending_reports[k] <= req.from
    /\ disc_state = "CCC" /\ req # NoReq =>
         req = Discover("ccc", pending_reports[pending_idx + 1] + 1, hids_end_handle)
    /\ \A i \in Live : Fine(default_conn, sub_params[i]) /\ Ahead(i)
    /\ NoTwoAlike
    /\ LiveOrEmpty

WireInv == link = "secured" => Wiring

LEMMA NotifyHandle ==
    ASSUME NEW p \in Peers, NEW v \in Notifiable(p)
    PROVE  v \in Nat /\ v > 1 /\ v <= Len(DB[p]) /\ DOMAIN DB[p] = 1 .. Len(DB[p])
<1>1. v \in DOMAIN DB[p] /\ v > 1
  BY DEF Notifiable
<1> QED
  BY <1>1, TablesAssumption

LEMMA DeclaredNotifies ==
    ASSUME NEW p \in Peers, NEW h \in DOMAIN DB[p], DB[p][h].type = "report", DB[p][h].notify
    PROVE  h + 1 \in Notifiable(p)
<1>1. h \in 1 .. Len(DB[p]) /\ h + 1 \in DOMAIN DB[p] /\ DB[p][h + 1].type = "value"
  BY TablesAssumption
<1>2. h + 1 > 1 /\ (h + 1) - 1 = h
  BY <1>1
<1> QED
  BY <1>1, <1>2 DEF Notifiable

LEMMA PendingTypes ==
    ASSUME Types
    PROVE  /\ pending_reports \in Seq(Nat) /\ pending_idx \in Nat /\ sub_count \in Nat
           /\ sub_count <= MAX_REPORTS /\ DOMAIN sub_params = 1 .. MAX_REPORTS
           /\ \A i \in 1 .. MAX_REPORTS : sub_params[i].value_handle \in Nat
           /\ req.from \in Nat
<1>1. pending_reports \in Seq(Nat)
  <2>1. pending_reports \in Seq(Handles) /\ Handles \subseteq Nat
    BY Handle DEF Types, TypeOK
  <2> QED
    BY <2>1, SeqMonotonic
<1>2. \A i \in 1 .. MAX_REPORTS : sub_params[i].value_handle \in Handles
  BY DEF Types, TypeOK
<1>3. req.from \in Handles \union {h + 1 : h \in Handles}
  BY DEF Types, TypeOK
<1>4. req.from \in Nat /\ \A i \in 1 .. MAX_REPORTS : sub_params[i].value_handle \in Nat
  <2>1. \A h \in Handles : h \in Nat /\ h + 1 \in Nat
    BY Handle
  <2> QED
    BY <1>2, <1>3, <2>1
<1>5. /\ pending_idx \in 0 .. MAX_REPORTS /\ sub_count \in 0 .. MAX_REPORTS
      /\ DOMAIN sub_params = 1 .. MAX_REPORTS /\ MAX_REPORTS \in Nat
  BY Bounds DEF Types, TypeOK
<1> QED
  BY <1>1, <1>4, <1>5

(* The first CCC behind a report's value is the report's own, if it has one. *)
LEMMA CccIsOwn ==
    ASSUME Types, WireInv, Found("CCC")
    PROVE  LET v == pending_reports[pending_idx + 1] IN
           /\ v \in Notifiable(default_conn)
           /\ Own(default_conn, v) # {} => Min(Matches) \in Own(default_conn, v)
<1> DEFINE v == pending_reports[pending_idx + 1]
           m == Min(Matches)
           p == default_conn
<1>1. /\ p \in Peers /\ link = "secured" /\ disc_state = "CCC" /\ m \in Matches
      /\ req # NoReq /\ \A x \in Matches : m <= x
  BY FoundHandle DEF Found
<1>2. pending_idx + 1 \in 1 .. Len(pending_reports)
  BY <1>1, PendingTypes DEF Types
<1>3. v \in Notifiable(p) /\ req = Discover("ccc", v + 1, Len(DB[p]))
  BY <1>1, <1>2 DEF WireInv, Wiring
<1>4. req.from = v + 1 /\ req.to = Len(DB[p]) /\ req.want = "ccc"
  BY <1>3 DEF Discover
<1>5. v \in Nat /\ Len(DB[p]) \in Nat /\ DOMAIN DB[p] = 1 .. Len(DB[p])
  BY <1>1, <1>3, NotifyHandle, Handle
<1>6. \A x : x \in Matches <=> x \in v + 1 .. Len(DB[p]) /\ DB[p][x].type = "ccc"
  BY <1>4, <1>5 DEF Matches
<1>7. ASSUME NEW d \in Own(p, v) PROVE m \in Own(p, v)
  <2>1. /\ d \in v + 1 .. Len(DB[p]) /\ DB[p][d].type = "ccc"
        /\ \A e \in v + 1 .. d : DB[p][e].type \notin {"report", "other"}
    BY DEF Own, Reachable
  <2>2. m <= d /\ m \in v + 1 .. Len(DB[p]) /\ DB[p][m].type = "ccc"
    BY <1>1, <1>6, <2>1
  <2>3. \A e \in v + 1 .. m : e \in v + 1 .. d
    BY <1>5, <2>1, <2>2
  <2> HIDE DEF m, v, p
  <2> QED
    BY <2>1, <2>2, <2>3 DEF Own, Reachable
<1> QED
  BY <1>3, <1>7

(* A handler that leaves the reports and the slots as they are. *)
LEMMA WiredMoves ==
    ASSUME Types, WireInv, link = "secured", NEW n \in Nat, NEW k \in Nat,
           UNCHANGED <<link, default_conn, hids_end_handle, pending_reports>>,
           hids_end_handle = Len(DB[default_conn]),
           pending_idx' = n, subscribe_pending(n, k),
           \A i \in Live' : Fine(default_conn, sub_params'[i]) /\ Ahead(i)',
           NoTwoAlike', LiveOrEmpty'
    PROVE  WireInv'
<1>1. /\ disc_state' \in {"IDLE", "CCC"}
      /\ req' = NoReq
         \/ req' = Discover("ccc", pending_reports[n + 1] + 1, hids_end_handle)
  BY DEF subscribe_pending
<1>2. \A i \in Live' : Fine(default_conn', sub_params'[i])
  OBVIOUS
<1>3. Increasing' /\ \A l \in 1 .. Len(pending_reports') : pending_reports'[l] \in Notifiable(default_conn')
  BY DEF WireInv, Wiring, Increasing
<1>4. Wiring'
  BY <1>1, <1>2, <1>3 DEF Wiring
<1> QED
  BY <1>4 DEF WireInv

LEMMA WiredRespond == ASSUME Types, WireInv, Respond, link = "secured" PROVE WireInv'
<1> DEFINE P == pending_reports
           p == default_conn
<1>0. /\ UNCHANGED <<link, default_conn>> /\ p \in Peers
      /\ P \in Seq(Nat) /\ pending_idx \in Nat /\ sub_count \in Nat
      /\ DOMAIN sub_params = 1 .. MAX_REPORTS
  BY PendingTypes DEF Respond, connection, Types
<1>1. CASE HidsFound
  <2>1. /\ P = <<>> /\ P' = P /\ sub_count' = 0 /\ disc_state' = "REPORT_CHRC"
        /\ hids_end_handle' = Len(DB[p])
    BY <1>1 DEF HidsFound, Found, WireInv, Wiring, pending, wired
  <2>2. Live' = {} /\ Len(P') = 0
    BY <2>1 DEF Live
  <2>3. Wiring'
    BY <1>0, <2>1, <2>2 DEF Wiring, Increasing, NoTwoAlike, LiveOrEmpty
  <2> QED
    BY <2>3 DEF WireInv
<1>2. CASE ReportFound
  <2> DEFINE m == Min(Matches)
             h == m + 1
  <2>1. /\ disc_state = "REPORT_CHRC" /\ disc_state' = disc_state /\ sub_count' = sub_count
        /\ sub_count = 0 /\ hids_end_handle' = Len(DB[p]) /\ req # NoReq
    BY <1>2 DEF ReportFound, Found, WireInv, Wiring, wired
  <2>2. m \in Matches /\ m \in DOMAIN DB[p] /\ m \in Nat /\ req.want = "report"
    <3>1. disc_state = StateOf(req.want)
      BY <2>1 DEF Types
    <3> QED
      BY <1>2, <2>1, <3>1, FoundHandle DEF ReportFound, StateOf
  <2>3. DB[p][m].type = "report" /\ req.from <= m
    BY <2>2, PendingTypes DEF Matches
  <2>4. h \in Nat /\ (DB[p][m].notify => h \in Notifiable(p)) /\ req'.from = h
    <3>1. req' = [req EXCEPT !.from = h]
      BY <1>2 DEF ReportFound
    <3>2. req'.from = h
      BY <3>1 DEF Types, TypeOK
    <3> QED
      BY <1>0, <2>2, <2>3, <3>2, DeclaredNotifies
  <2>5. \A k \in 1 .. Len(P) : P[k] \in Notifiable(p) /\ P[k] \in Nat /\ P[k] < h
    <3>1. \A k \in 1 .. Len(P) : P[k] \in Notifiable(p) /\ P[k] <= req.from
      BY <2>1 DEF WireInv, Wiring
    <3> QED
      BY <1>0, <2>2, <2>3, <3>1, PendingTypes
  <2>6. P' = P \/ (h \in Notifiable(p) /\ P' = Append(P, h))
    BY <1>2, <2>4 DEF ReportFound
  <2>7. \A k, l \in 1 .. Len(P) : k < l => P[k] < P[l]
    BY DEF WireInv, Wiring, Increasing
  <2> HIDE DEF h, P
  <2> DEFINE Q == P'
  <2>8. Q = P \/ (Len(Q) = Len(P) + 1 /\ Q[Len(P) + 1] = h /\ h \in Notifiable(p)
                  /\ \A k \in 1 .. Len(P) : Q[k] = P[k])
    BY <1>0, <2>4, <2>6
  <2> HIDE DEF Q
  <2>9. \A k \in 1 .. Len(Q) : Q[k] \in Notifiable(p) /\ Q[k] <= h
    BY <1>0, <2>4, <2>5, <2>8
  <2>10. \A k, l \in 1 .. Len(Q) : k < l => Q[k] < Q[l]
    BY <1>0, <2>4, <2>5, <2>7, <2>8
  <2>11. Increasing' /\ \A k \in 1 .. Len(pending_reports') :
           pending_reports'[k] \in Notifiable(p) /\ pending_reports'[k] <= req'.from
    BY <2>4, <2>9, <2>10 DEF Increasing, Q, P
  <2>12. Live' = {}
    BY <2>1 DEF Live
  <2>13. Wiring'
    BY <1>0, <2>1, <2>11, <2>12 DEF Wiring, NoTwoAlike, LiveOrEmpty
  <2> QED
    BY <2>13 DEF WireInv
<1>3. CASE CccFound
  <2> DEFINE n == sub_count + 1
             v == P[pending_idx + 1]
  <2>1. PICK ok \in BOOLEAN :
          /\ n \in DOMAIN sub_params /\ DOMAIN sub_params' = DOMAIN sub_params
          /\ ok = TRUE => /\ sub_params'[n].value_handle = v
                          /\ sub_params'[n].ccc_handle = Min(Matches)
                          /\ sub_params'[n].holder = p
          /\ \A i \in DOMAIN sub_params \ {n} : sub_params'[i] = sub_params[i]
          /\ sub_count' = IF ok THEN sub_count + 1 ELSE sub_count
          /\ pending_idx' = pending_idx + 1
          /\ subscribe_pending(pending_idx + 1, IF ok THEN 0 ELSE 1)
    BY <1>3, SlotWritten
  <2>2. /\ sub_count < MAX_REPORTS /\ UNCHANGED <<hids_end_handle, pending_reports>>
        /\ disc_state = "CCC" /\ hids_end_handle = Len(DB[p]) /\ pending_idx < Len(P)
    BY <1>3 DEF CccFound, Found, WireInv, Wiring, Types
  <2>3. Found("CCC")
    BY <1>3 DEF CccFound
  <2>4. v \in Notifiable(p) /\ (Own(p, v) # {} => Min(Matches) \in Own(p, v))
    BY <2>3, CccIsOwn
  <2>6. ok = TRUE => Fine(p, sub_params'[n])
    <3> HIDE DEF n, v, p
    <3> QED
      BY <2>1, <2>4 DEF Fine
  <2>7. \A i \in 1 .. sub_count' :
          \/ i \in 1 .. sub_count /\ i # n /\ sub_params'[i] = sub_params[i]
          \/ i = n /\ ok = TRUE
    <3>1. \A i \in 1 .. sub_count' : (i \in 1 .. sub_count /\ i # n) \/ (i = n /\ ok = TRUE)
      BY <1>0, <2>1
    <3>2. 1 .. sub_count \subseteq DOMAIN sub_params
      BY <1>0, <2>2, Bounds
    <3> HIDE DEF n
    <3> QED
      BY <2>1, <3>1, <3>2
  <2>8. \A i \in Live' : \/ i \in Live /\ i # n /\ sub_params'[i] = sub_params[i]
                         \/ i = n /\ ok = TRUE
    <3> HIDE DEF n
    <3> QED
      BY <1>0, <2>7 DEF Live
  <2>9. v \in Nat /\ \A i \in Live : sub_params[i].value_handle \in Nat /\ sub_params[i].value_handle < v
    <3>1. pending_idx + 1 \in pending_idx + 1 .. Len(P)
      BY <1>0, <2>2
    <3>2. \A i \in Live : sub_params[i].value_handle < v
      BY <1>0, <3>1 DEF WireInv, Wiring, Ahead
    <3>3. Live \subseteq 1 .. MAX_REPORTS
      BY <1>0, PendingTypes, Bounds DEF Live
    <3> QED
      BY <1>0, <2>4, <3>2, <3>3, NotifyHandle, PendingTypes
  <2>10. \A k \in pending_idx + 2 .. Len(P) : v < P[k] /\ k \in pending_idx + 1 .. Len(P)
    <3>1. \A k \in pending_idx + 2 .. Len(P) :
            /\ k \in 1 .. Len(P) /\ pending_idx + 1 \in 1 .. Len(P) /\ pending_idx + 1 < k
            /\ k \in pending_idx + 1 .. Len(P)
      BY <1>0
    <3> QED
      BY <3>1 DEF WireInv, Wiring, Increasing
  <2>11. pending_idx' + 1 = pending_idx + 2
    BY <1>0, <2>1
  <2> HIDE DEF n, v
  <2>12. ASSUME NEW i \in Live' PROVE Fine(p, sub_params'[i]) /\ Ahead(i)'
    <3>1. CASE i \in Live /\ sub_params'[i] = sub_params[i]
      BY <2>2, <2>10, <2>11, <3>1 DEF WireInv, Wiring, Ahead
    <3>2. CASE i = n /\ ok = TRUE
      <4>1. sub_params'[i].value_handle = v
        BY <2>1, <3>2
      <4>2. Ahead(i)'
        BY <2>2, <2>10, <2>11, <4>1 DEF Ahead
      <4> QED
        BY <2>6, <3>2, <4>2
    <3> QED
      BY <2>8, <3>1, <3>2
  <2>13. NoTwoAlike'
    <3>1. \A i \in Live' : i = n => sub_params'[i].value_handle = v
      BY <2>1, <2>8
    <3>2. \A i \in Live' : i # n =>
            i \in Live /\ sub_params'[i].value_handle = sub_params[i].value_handle
              /\ sub_params'[i].value_handle < v /\ sub_params'[i].value_handle \in Nat
      BY <2>8, <2>9
    <3>3. \A i, j \in Live : i # j => sub_params[i].value_handle # sub_params[j].value_handle
      BY DEF WireInv, Wiring, NoTwoAlike
    <3> QED
      BY <2>9, <3>1, <3>2, <3>3 DEF NoTwoAlike
  <2>14. pending_idx + 1 \in Nat /\ (IF ok THEN 0 ELSE 1) \in Nat
    BY <1>0
  <2>15. LiveOrEmpty'
    <3> SUFFICES ASSUME NEW i \in 1 .. sub_count'
                 PROVE  i \in Live' \/ sub_params'[i] = EmptySlot
      BY DEF LiveOrEmpty
    <3>1. CASE i \in 1 .. sub_count /\ sub_params'[i] = sub_params[i]
      BY <1>0, <3>1 DEF WireInv, Wiring, LiveOrEmpty, Live
    <3>2. CASE i = n /\ ok = TRUE
      BY <1>0, <2>1, <3>2 DEF Live
    <3> QED
      BY <2>7, <3>1, <3>2
  <2> QED
    BY <1>0, <2>1, <2>2, <2>12, <2>13, <2>14, <2>15, WiredMoves
<1>4. CASE NothingFound
  <2>1. PICK k \in Nat : PassEnds(k)
    BY <1>4 DEF NothingFound
  <2>2. /\ UNCHANGED <<hids_end_handle, pending_reports, sub_params, sub_count>>
        /\ Live' = Live /\ NoTwoAlike' /\ LiveOrEmpty' /\ Increasing'
    BY <1>0, <1>4 DEF NothingFound, wired, Live, LiveOrEmpty, NoTwoAlike, Increasing,
                        WireInv, Wiring
  <2>3. CASE /\ disc_state' \in {"IDLE", disc_state} /\ req' = NoReq /\ UNCHANGED pending_idx
             /\ disc_state' = "IDLE" => disc_state # "HIDS_PRIMARY"
    <3>1. Wiring'
      BY <1>0, <2>2, <2>3 DEF WireInv, Wiring, Ahead
    <3> QED
      BY <3>1 DEF WireInv
  <2>4. CASE disc_state = "REPORT_CHRC" /\ pending_idx' = 0 /\ subscribe_pending(0, k)
    <3>1. Live' = {} /\ hids_end_handle = Len(DB[p])
      BY <2>2, <2>4 DEF WireInv, Wiring, Live
    <3> QED
      BY <1>0, <2>1, <2>2, <2>4, <3>1, WiredMoves
  <2> QED
    BY <2>1, <2>3, <2>4 DEF PassEnds
<1> QED
  BY <1>1, <1>2, <1>3, <1>4 DEF Respond

(* Slots that the host lets go of. *)
LEMMA WiredTornDown ==
    ASSUME Types, WireInv, TornDown, link = "secured" PROVE WireInv'
<1>1. PICK r \in DOMAIN sub_params : Dropped(default_conn, {r})
  BY DEF TornDown
<1>2. /\ DOMAIN sub_params' = DOMAIN sub_params /\ sub_params'[r] = EmptySlot
      /\ \A i \in DOMAIN sub_params \ {r} : sub_params'[i] = sub_params[i]
      /\ default_conn \in Peers /\ 1 .. sub_count \subseteq DOMAIN sub_params
  <2>1. default_conn \in Peers /\ 1 .. sub_count \subseteq DOMAIN sub_params
    BY PendingTypes, Bounds DEF Types
  <2> QED
    BY <1>1, <2>1 DEF Dropped
<1>3. UNCHANGED <<link, default_conn, disc_state, req, hids_end_handle, pending_reports,
                  pending_idx, sub_count>>
  BY DEF TornDown, connection, pending
<1>4. \A i \in Live' : i \in Live /\ sub_params'[i] = sub_params[i]
  <2>1. EmptySlot.holder # default_conn
    BY <1>2, PeersAssumption DEF EmptySlot
  <2> QED
    BY <1>2, <1>3, <2>1 DEF Live
<1>5. LiveOrEmpty'
  BY <1>2, <1>3 DEF WireInv, Wiring, LiveOrEmpty, Live
<1>6. Increasing' /\ NoTwoAlike' /\ \A i \in Live' : Fine(default_conn, sub_params'[i]) /\ Ahead(i)'
  BY <1>3, <1>4 DEF WireInv, Wiring, Increasing, NoTwoAlike, Ahead
<1>7. Wiring'
  BY <1>3, <1>5, <1>6 DEF WireInv, Wiring
<1> QED
  BY <1>7 DEF WireInv

LEMMA WiredInit == Init => WireInv
BY DEF Init, WireInv

LEMMA WiredStep == ConnInv /\ Types /\ WireInv /\ [Next]_vars => WireInv'
<1> SUFFICES ASSUME ConnInv, Types, WireInv, [Next]_vars, link' = "secured" PROVE WireInv'
  BY DEF WireInv
<1>1. CASE UNCHANGED <<connection, discovery>>
  <2>1. Wiring => Wiring'
    BY <1>1 DEF connection, discovery, pending, wired, Wiring, Increasing, NoTwoAlike, Live,
                LiveOrEmpty, Ahead
  <2> QED
    BY <1>1, <2>1 DEF WireInv, connection
<1>2. CASE Secured
  <2>1. /\ disc_state' = "HIDS_PRIMARY" /\ pending_reports' = <<>> /\ sub_count' = 0
        /\ Len(pending_reports') = 0
    BY <1>2 DEF Secured
  <2>2. Live' = {}
    BY <2>1 DEF Live
  <2>3. Wiring'
    BY <2>1, <2>2 DEF Wiring, Increasing, NoTwoAlike, LiveOrEmpty
  <2> QED
    BY <2>3 DEF WireInv
<1>3. CASE Respond
  BY <1>3, WiredRespond DEF Respond, connection
<1>4. CASE TornDown
  BY <1>4, WiredTornDown DEF TornDown, connection
<1>5. CASE \E p \in Peers : \E ad \in Ads[p] : DeviceFound(p, ad)
  <2>1. PICK p \in Peers : \E ad \in Ads[p] : DeviceFound(p, ad)
    BY <1>5
  <2>2. UNCHANGED <<connection, discovery>> \/ link' = "creating"
    BY <2>1 DEF DeviceFound
  <2> QED
    BY <1>1, <2>1, <2>2 DEF DeviceFound
<1>6. CASE Main \/ Clock \/ UNCHANGED vars
  BY <1>1, <1>6 DEF Main, Clock, vars, connection
<1>7. CASE ConnectFailed \/ Connected \/ SecurityFailed \/ LinkLost \/ Disconnected
  BY <1>7 DEF ConnectFailed, Connected, SecurityFailed, LinkLost, Disconnected
<1> QED
  BY <1>2, <1>3, <1>4, <1>5, <1>6, <1>7 DEF Next

(* A report that has a CCC is subscribed through it, and none is subscribed  *)
(* twice, whatever fails: the search for a CCC begins behind the report's    *)
(* value, where its own comes first.                                         *)
THEOREM WiredCorrect == Spec => []WiredOwn
<1>1. Types /\ WireInv => WiredOwn
  <2> SUFFICES ASSUME Types, WireInv, link = "secured", NEW i \in Live
               PROVE  LET v == sub_params[i].value_handle IN
                      /\ v \in Notifiable(default_conn)
                      /\ Own(default_conn, v) # {} =>
                           sub_params[i].ccc_handle \in Own(default_conn, v)
                      /\ \A j \in 1 .. sub_count : j # i => sub_params[j].value_handle # v
    BY DEF WiredOwn
  <2>1. Fine(default_conn, sub_params[i]) /\ default_conn \in Peers
    BY DEF WireInv, Wiring, Types
  <2>2. sub_params[i].value_handle \in Nat /\ sub_params[i].value_handle > 1
    BY <2>1, NotifyHandle DEF Fine
  <2>3. ASSUME NEW j \in 1 .. sub_count, j # i
        PROVE  sub_params[j].value_handle # sub_params[i].value_handle
    <3>1. CASE j \in Live
      BY <2>3, <3>1 DEF WireInv, Wiring, NoTwoAlike
    <3>2. CASE sub_params[j] = EmptySlot
      BY <2>2, <3>2 DEF EmptySlot
    <3> QED
      BY <3>1, <3>2 DEF WireInv, Wiring, LiveOrEmpty
  <2> QED
    BY <2>1, <2>3 DEF Fine
<1> QED
  BY <1>1, ConnInit, ConnStep, TypesInit, TypesStep, WiredInit, WiredStep, PTL DEF Spec

-----------------------------------------------------------------------------
(* Completeness.  While nothing fails, the reports collected are those to be *)
(* kept, up to the handle searched from, and slot i is that of the i-th.     *)
Upto(p, f) == {v \in Notifiable(p) : v <= f}
Collection == {pending_reports[k] : k \in 1 .. Len(pending_reports)}

(* The reports follow the declaration of the service. *)
ServiceFirst(p) ==
    \A v \in Notifiable(p) : \E s \in DOMAIN DB[p] : s < v - 1 /\ DB[p][s].type = "service"

Gathered ==
    /\ Collection = Upto(default_conn, req.from) \intersect Kept(default_conn)
    /\ \/ /\ Len(pending_reports) = Cardinality(Upto(default_conn, req.from))
          /\ Len(pending_reports) <= MAX_REPORTS
       \/ /\ Len(pending_reports) = MAX_REPORTS
          /\ Cardinality(Upto(default_conn, req.from)) >= MAX_REPORTS
    /\ req.to = Len(DB[default_conn])

Subscribed ==
    /\ sub_count = pending_idx
    /\ \A i \in 1 .. sub_count :
         /\ sub_params[i].value_handle = pending_reports[i]
         /\ Reachable(default_conn, pending_reports[i]) # {}

Searched ==
    IF req = NoReq THEN Notifiable(default_conn) = {}
    ELSE req = Discover("service", 1, Len(DB[default_conn]))

Unfailed ==
    /\ disc_state = "HIDS_PRIMARY" => Searched /\ pending_idx = 0
    /\ disc_state = "REPORT_CHRC" => Gathered /\ pending_idx = 0 /\ req # NoReq
    /\ disc_state \in {"CCC", "IDLE"} => Collection = Kept(default_conn) /\ Subscribed
    /\ disc_state = "CCC" /\ req = NoReq =>
         Reachable(default_conn, pending_reports[pending_idx + 1]) = {}
    /\ disc_state = "IDLE" => pending_idx = Len(pending_reports) /\ req = NoReq

UnfailedInv == link = "secured" /\ faults = 0 /\ ServiceFirst(default_conn) => Unfailed

LEMMA FinitelyMany ==
    ASSUME NEW p \in Peers
    PROVE  \A f : IsFiniteSet(Upto(p, f)) /\ Cardinality(Upto(p, f)) \in Nat
<1>1. IsFiniteSet(1 .. Len(DB[p]))
  BY FS_Interval, Handle
<1>2. ASSUME NEW f PROVE IsFiniteSet(Upto(p, f)) /\ Cardinality(Upto(p, f)) \in Nat
  <2>1. Upto(p, f) \in SUBSET (1 .. Len(DB[p]))
    BY Handle DEF Upto, Notifiable
  <2> QED
    BY <1>1, <2>1, FS_Subset, FS_CardinalityType
<1> QED
  BY <1>2

(* A call that fails, or comes after one that has, leaves a mark. *)
LEMMA NoFault ==
    ASSUME Types, link = "secured", NEW k \in Nat, faults' = 0
    PROVE  /\ Fault(k) => k = 0 /\ faults = 0
           /\ ~Fails(k)
<1>1. faults \in Nat /\ k + 1 \in Nat
  BY Bounds DEF Types, TypeOK
<1> QED
  BY <1>1 DEF Fault, Fails

LEMMA PendingUnfailed ==
    ASSUME Types, link = "secured", NEW k \in Nat, faults' = 0, NEW n, subscribe_pending(n, k)
    PROVE  /\ k = 0 /\ faults = 0
           /\ \/ n >= Len(pending_reports) /\ disc_state' = "IDLE" /\ req' = NoReq
              \/ /\ n < Len(pending_reports) /\ disc_state' = "CCC" /\ req' # NoReq
BY NoFault DEF subscribe_pending, Starts, Discover, NoReq

(* A report that notifies is behind its declaration and the service. *)
LEMMA Declared ==
    ASSUME NEW p \in Peers, NEW v \in Notifiable(p)
    PROVE  /\ v \in Nat /\ v - 1 \in Nat /\ v - 1 \in 1 .. Len(DB[p])
           /\ v - 1 \in DOMAIN DB[p] /\ DB[p][v - 1].type = "report"
           /\ Len(DB[p]) \in Nat
<1>1. v \in 1 .. Len(DB[p]) /\ v > 1 /\ DB[p][v - 1].type = "report"
      /\ Len(DB[p]) \in Nat /\ DOMAIN DB[p] = 1 .. Len(DB[p])
  BY Handle DEF Notifiable
<1> QED
  BY <1>1

(* The search for reports begins behind the service: none is passed over. *)
LEMMA UnfailedHids ==
    ASSUME Types, WireInv, UnfailedInv, link = "secured", ServiceFirst(default_conn),
           faults' = 0, HidsFound, UNCHANGED connection
    PROVE  Unfailed'
<1> DEFINE p == default_conn
           m == Min(Matches)
           f == m + 1
<1>1. /\ p \in Peers /\ disc_state = "HIDS_PRIMARY" /\ m \in Matches /\ m \in Nat
      /\ (\A x \in Matches : m <= x) /\ req # NoReq /\ p' = p
  BY FoundHandle DEF HidsFound, Found, connection
<1>2. /\ faults = 0 /\ req' = Discover("report", f, Len(DB[p])) /\ disc_state' = "REPORT_CHRC"
      /\ UNCHANGED <<pending_reports, pending_idx>>
  BY NoFault DEF HidsFound, Starts, pending
<1>3. Unfailed /\ req = Discover("service", 1, Len(DB[p]))
  BY <1>1, <1>2 DEF UnfailedInv, Unfailed, Searched
<1>4. \A x \in DOMAIN DB[p] : DB[p][x].type = "service" => m <= x
  <2>1. DOMAIN DB[p] = 1 .. Len(DB[p]) /\ req.from = 1 /\ req.to = Len(DB[p])
        /\ req.want = "service"
    BY <1>1, <1>3, Handle DEF Discover
  <2>2. \A x \in DOMAIN DB[p] : DB[p][x].type = "service" => x \in Matches
    BY <2>1 DEF Matches
  <2> QED
    BY <1>1, <2>2
<1>5. \A v \in Notifiable(p) : ~(v <= f)
  <2> HIDE DEF m, p
  <2> SUFFICES ASSUME NEW v \in Notifiable(p) PROVE m + 1 < v
    BY <1>1, Declared
  <2>1. PICK s \in DOMAIN DB[p] : s < v - 1 /\ DB[p][s].type = "service"
    BY DEF ServiceFirst, p
  <2>2. m <= s /\ s \in Nat /\ v \in Nat
    BY <1>1, <1>4, <2>1, Declared, Handle
  <2> QED
    BY <1>1, <2>1, <2>2
<1>6. Upto(p, f) = {} /\ Cardinality(Upto(p, f)) = 0
  BY <1>5, FS_EmptySet DEF Upto
<1>7. pending_reports' = <<>> /\ Len(pending_reports') = 0 /\ Collection' = {}
  BY <1>1, <1>2 DEF WireInv, Wiring, Collection
<1>8. req'.from = f /\ req'.to = Len(DB[p]) /\ req' # NoReq
  BY <1>2 DEF Discover, NoReq
<1>9. Gathered'
  BY <1>1, <1>6, <1>7, <1>8, Bounds DEF Gathered
<1>10. pending_idx' = 0
  BY <1>1, <1>2, <1>3 DEF WireInv, Wiring, Unfailed
<1> QED
  BY <1>2, <1>8, <1>9, <1>10 DEF Unfailed

(* The next report found is the next that is to be kept, if there is room:   *)
(* no report that notifies lies between it and those found before.           *)
LEMMA UnfailedReport ==
    ASSUME Types, WireInv, ReportFound, Gathered, UNCHANGED connection
    PROVE  Gathered' /\ req' # NoReq
<1> DEFINE p == default_conn
           f == req.from
           m == Min(Matches)
           h == m + 1
           P == pending_reports
           U == Upto(p, f)
<1>1. /\ link = "secured" /\ disc_state = "REPORT_CHRC" /\ p \in Peers /\ p' = p
      /\ m \in Matches /\ m \in Nat /\ f \in Nat /\ req.to \in Nat /\ req # NoReq
      /\ \A x \in Matches : m <= x
  <2>1. req.to \in Handles /\ Handles \subseteq Nat
    BY Handle DEF Types, TypeOK
  <2> QED
    BY <2>1, FoundHandle, PendingTypes DEF ReportFound, Found, connection
<1>2. req.want = "report" /\ req'.want = "report" /\ req'.from = h /\ req'.to = req.to
  <2>1. disc_state = StateOf(req.want)
    BY <1>1 DEF Types
  <2>2. req.want = "report"
    BY <1>1, <2>1 DEF StateOf
  <2>3. req' = [req EXCEPT !.from = h]
    BY DEF ReportFound
  <2> HIDE DEF h
  <2> QED
    BY <2>2, <2>3 DEF Types, TypeOK
<1>3. m \in DOMAIN DB[p] /\ DB[p][m].type = "report" /\ m <= req.to /\ f <= m
  <2>1. \A x \in Matches : x \in DOMAIN DB[p] /\ DB[p][x].type = "report" /\ x <= req.to /\ f <= x
    BY <1>1, <1>2 DEF Matches
  <2> HIDE DEF m, p, f
  <2> QED
    BY <1>1, <2>1
<1>4. \A v \in Notifiable(p) : v \in Nat /\ (v <= h => v <= f \/ v = h)
  <2> HIDE DEF f, m, p
  <2> SUFFICES ASSUME NEW v \in Notifiable(p), v <= h, ~(v <= f) PROVE v = h
    BY <1>1, Declared
  <2>1. v - 1 \in Nat /\ v \in Nat /\ f <= v - 1 /\ v - 1 <= m
    BY <1>1, Declared
  <2>2. v - 1 \in f .. req.to
    BY <1>1, <1>3, <2>1
  <2>3. v - 1 \in Matches
    BY <1>1, <1>2, <2>2, Declared DEF Matches, f, p
  <2>4. m <= v - 1
    BY <1>1, <2>3
  <2> QED
    BY <1>1, <2>1, <2>4
<1>5. h \in Notifiable(p) <=> DB[p][m].notify
  <2>1. h > 1 /\ h - 1 = m
    <3>1. m \in 1 .. Len(DB[p])
      BY <1>1, <1>3, Handle
    <3> HIDE DEF m
    <3> QED
      BY <1>1, <3>1
  <2>2. h \in DOMAIN DB[p] /\ DB[p][h].type = "value"
    BY <1>1, <1>3, TablesAssumption
  <2> QED
    BY <1>3, <2>1, <2>2 DEF Notifiable
<1>6. h \in Nat /\ f < h /\ f <= h
  <2> HIDE DEF f, m
  <2> QED
    BY <1>1, <1>3
<1>7. P \in Seq(Nat) /\ MAX_REPORTS \in Nat
  BY PendingTypes, Bounds
<1>8. P' = IF DB[p][m].notify /\ Len(P) < MAX_REPORTS THEN Append(P, h) ELSE P
  BY DEF ReportFound
<1> HIDE DEF h, p
<1>9. Upto(p, h) = U \union (IF DB[p][m].notify THEN {h} ELSE {}) /\ h \notin U
  <2> HIDE DEF f, m
  <2> QED
    BY <1>1, <1>4, <1>5, <1>6 DEF Upto
<1>10. {v \in Notifiable(p) : v < h} = U
  <2> HIDE DEF f, m
  <2> QED
    BY <1>1, <1>4, <1>6 DEF Upto
<1>11. h \in Kept(p) <=> DB[p][m].notify /\ Cardinality(U) < MAX_REPORTS
  BY <1>5, <1>10 DEF Kept
<1>12. IsFiniteSet(U) /\ Cardinality(U) \in Nat
  BY <1>1, FinitelyMany
<1>13. DB[p][m].notify => Cardinality(Upto(p, h)) = Cardinality(U) + 1
  BY <1>9, <1>12, FS_AddElement
<1>14. Gathered => /\ Collection = U \intersect Kept(p) /\ req.to = Len(DB[p])
                   /\ \/ Len(P) = Cardinality(U) /\ Len(P) <= MAX_REPORTS
                      \/ Len(P) = MAX_REPORTS /\ Cardinality(U) >= MAX_REPORTS
  BY DEF Gathered, p
<1>15. SUFFICES /\ Collection' = Upto(p, h) \intersect Kept(p)
                /\ \/ Len(P') = Cardinality(Upto(p, h)) /\ Len(P') <= MAX_REPORTS
                   \/ Len(P') = MAX_REPORTS /\ Cardinality(Upto(p, h)) >= MAX_REPORTS
  BY <1>1, <1>2, <1>14 DEF Gathered, p, NoReq
<1>16. CASE ~DB[p][m].notify
  <2>1. Upto(p, h) = U /\ P' = P /\ Collection' = Collection
    BY <1>8, <1>9, <1>16 DEF Collection
  <2> QED
    BY <1>14, <2>1
<1>17. CASE DB[p][m].notify /\ Len(P) < MAX_REPORTS
  <2>1. Len(P) = Cardinality(U) /\ h \in Kept(p)
    BY <1>7, <1>11, <1>12, <1>14, <1>17
  <2>2. P' = Append(P, h) /\ Len(P') = Len(P) + 1
    BY <1>6, <1>7, <1>8, <1>17
  <2>3. Collection' = Collection \union {h}
    <3> HIDE DEF P
    <3>1. \A k \in 1 .. Len(P') : P'[k] = IF k = Len(P) + 1 THEN h ELSE P[k]
      BY <1>6, <1>7, <2>2
    <3>2. 1 .. Len(P') = (1 .. Len(P)) \union {Len(P) + 1} /\ Len(P) \in Nat
      BY <1>7, <2>2
    <3> QED
      BY <3>1, <3>2 DEF Collection, P
  <2>4. Upto(p, h) \intersect Kept(p) = (U \intersect Kept(p)) \union {h}
    BY <1>9, <1>17, <2>1
  <2>5. Len(P') = Cardinality(Upto(p, h)) /\ Len(P') <= MAX_REPORTS
    BY <1>7, <1>12, <1>13, <1>17, <2>1, <2>2
  <2> QED
    BY <1>14, <2>3, <2>4, <2>5
<1>18. CASE DB[p][m].notify /\ ~(Len(P) < MAX_REPORTS)
  <2>1. P' = P /\ Collection' = Collection
    BY <1>8, <1>18 DEF Collection
  <2>2. Len(P) = MAX_REPORTS /\ Cardinality(U) >= MAX_REPORTS
    BY <1>7, <1>12, <1>14, <1>18
  <2>3. h \notin Kept(p)
    BY <1>7, <1>11, <1>12, <2>2
  <2>4. Upto(p, h) \intersect Kept(p) = U \intersect Kept(p)
    BY <1>9, <1>18, <2>3
  <2>5. Cardinality(Upto(p, h)) >= MAX_REPORTS
    BY <1>7, <1>12, <1>13, <1>18, <2>2
  <2> QED
    BY <1>14, <2>1, <2>2, <2>4, <2>5
<1> QED
  BY <1>16, <1>17, <1>18

(* When none is left, all that are to be kept have been collected. *)
LEMMA AllCollected ==
    ASSUME Types, Gathered, link = "secured", disc_state = "REPORT_CHRC",
           req # NoReq, Matches = {}
    PROVE  Collection = Kept(default_conn)
<1> DEFINE p == default_conn
<1>1. p \in Peers /\ req.from \in Nat /\ req.to = Len(DB[p])
  BY PendingTypes DEF Types, Gathered
<1>2. req.want = "report"
  <2>1. disc_state = StateOf(req.want)
    BY DEF Types
  <2> QED
    BY <2>1 DEF StateOf
<1>3. ASSUME NEW v \in Notifiable(p) PROVE v <= req.from
  <2>1. /\ v \in Nat /\ v - 1 \in Nat /\ v - 1 \in 1 .. Len(DB[p]) /\ Len(DB[p]) \in Nat
        /\ v - 1 \in DOMAIN DB[p] /\ DB[p][v - 1].type = "report"
    BY <1>1, Declared
  <2>2. v - 1 \notin req.from .. req.to
    BY <1>2, <2>1 DEF Matches
  <2> HIDE DEF p
  <2> QED
    BY <1>1, <2>1, <2>2
<1>4. Kept(p) \subseteq Upto(p, req.from)
  BY <1>3 DEF Kept, Upto
<1> QED
  BY <1>4 DEF Gathered

(* Going on to the next report, or coming to the end of them. *)
LEMMA UnfailedMoves ==
    ASSUME Types, link = "secured", faults' = 0, NEW k \in Nat, NEW n \in Nat,
           subscribe_pending(n, k), pending_idx' = n, n <= Len(pending_reports),
           UNCHANGED <<default_conn, pending_reports>>, Collection = Kept(default_conn),
           Subscribed'
    PROVE  Unfailed'
<1>1. Collection' = Kept(default_conn')
  BY DEF Collection
<1>2. CASE n >= Len(pending_reports) /\ disc_state' = "IDLE" /\ req' = NoReq
  BY <1>1, <1>2, PendingTypes DEF Unfailed
<1>3. CASE disc_state' = "CCC" /\ req' # NoReq
  BY <1>1, <1>3 DEF Unfailed
<1> QED
  BY <1>2, <1>3, PendingUnfailed

LEMMA UnfailedCcc ==
    ASSUME Types, WireInv, UnfailedInv, link = "secured", ServiceFirst(default_conn),
           faults' = 0, CccFound, UNCHANGED connection
    PROVE  Unfailed'
<1> DEFINE n == pending_idx + 1
           v == pending_reports[n]
           p == default_conn
<1>1. PICK ok \in BOOLEAN :
        /\ sub_count + 1 \in DOMAIN sub_params
        /\ ok = TRUE => sub_params'[sub_count + 1].value_handle = v
        /\ \A i \in DOMAIN sub_params \ {sub_count + 1} : sub_params'[i] = sub_params[i]
        /\ sub_count' = IF ok THEN sub_count + 1 ELSE sub_count
        /\ pending_idx' = n /\ subscribe_pending(n, IF ok THEN 0 ELSE 1)
  BY SlotWritten
<1>2. pending_idx \in Nat /\ n \in Nat /\ (IF ok THEN 0 ELSE 1) \in Nat
      /\ Len(pending_reports) \in Nat /\ sub_count \in Nat
  BY PendingTypes
<1>3. ok = TRUE /\ faults = 0
  <2>1. subscribe_pending(n, IF ok THEN 0 ELSE 1)
    BY <1>1
  <2> HIDE DEF n
  <2> QED
    BY <1>2, <2>1, PendingUnfailed
<1>4. /\ disc_state = "CCC" /\ sub_count < MAX_REPORTS /\ req # NoReq
      /\ UNCHANGED <<default_conn, pending_reports>>
  BY DEF CccFound, Found, connection
<1>5. Collection = Kept(p) /\ Subscribed
  BY <1>3, <1>4 DEF UnfailedInv, Unfailed
<1>6. n <= Len(pending_reports)
  BY <1>2, <1>4 DEF Types
<1>7. Reachable(p, v) # {}
  <2>1. req = Discover("ccc", v + 1, Len(DB[p]))
    BY <1>4 DEF WireInv, Wiring
  <2>2. Matches # {} /\ Matches \subseteq Reachable(p, v)
    BY <2>1 DEF CccFound, Found, Matches, Reachable, Discover
  <2> QED
    BY <2>2
<1>8. Subscribed'
  <2>1. DOMAIN sub_params = 1 .. MAX_REPORTS /\ MAX_REPORTS \in Nat
    BY PendingTypes, Bounds
  <2>2. sub_count = pending_idx /\ sub_count' = n /\ n \in DOMAIN sub_params
    BY <1>1, <1>2, <1>3, <1>4, <1>5, <2>1 DEF Subscribed
  <2>3. \A i \in 1 .. sub_count : sub_params'[i] = sub_params[i]
    <3>1. \A i \in 1 .. sub_count : i \in DOMAIN sub_params \ {sub_count + 1}
      BY <1>2, <1>4, <2>1
    <3> QED
      BY <1>1, <3>1
  <2>4. sub_params'[n].value_handle = v
    BY <1>1, <1>3, <2>2
  <2>5. \A i \in 1 .. sub_count' : i = n \/ i \in 1 .. sub_count
    BY <1>2, <2>2
  <2>6. ASSUME NEW i \in 1 .. sub_count'
        PROVE  /\ sub_params'[i].value_handle = pending_reports[i]
               /\ Reachable(p, pending_reports[i]) # {}
    <3>1. CASE i = n
      BY <1>7, <2>4, <3>1
    <3>2. CASE i \in 1 .. sub_count
      BY <1>5, <2>3, <3>2 DEF Subscribed
    <3> QED
      BY <2>5, <3>1, <3>2
  <2> QED
    BY <1>1, <1>4, <2>2, <2>6 DEF Subscribed
<1> HIDE DEF n
<1> QED
  BY <1>1, <1>2, <1>4, <1>5, <1>6, <1>8, UnfailedMoves

(* A pass that ends without a failure has searched its whole range: there is *)
(* no service, no further report, or no CCC as far as the service goes.      *)
LEMMA UnfailedPassEnds ==
    ASSUME Types, WireInv, UnfailedInv, link = "secured", ServiceFirst(default_conn),
           faults' = 0, NothingFound, UNCHANGED connection
    PROVE  Unfailed'
<1> DEFINE p == default_conn
<1>0. /\ UNCHANGED <<link, default_conn, pending_reports, sub_count, sub_params>>
      /\ req # NoReq /\ p \in Peers
  BY DEF NothingFound, connection, wired, Types
<1>1. ASSUME NEW k \in Nat, PassEnds(k) PROVE k = 0 /\ faults = 0
  BY <1>1, NoFault, PendingUnfailed DEF PassEnds
<1>2. PassEnds(0) /\ Matches = {} /\ faults = 0
  <2>1. ~PassEnds(1)
    BY <1>1
  <2> QED
    BY <1>1, <2>1 DEF NothingFound
<1>3. Unfailed
  BY <1>2 DEF UnfailedInv
<1>4. CASE disc_state = "HIDS_PRIMARY"
  <2>1. req = Discover("service", 1, Len(DB[p]))
    BY <1>0, <1>3, <1>4 DEF Unfailed, Searched
  <2>2. \A s \in DOMAIN DB[p] : DB[p][s].type # "service"
    BY <1>0, <1>2, <2>1, Handle DEF Matches, Discover
  <2>3. Notifiable(p) = {}
    BY <2>2 DEF ServiceFirst
  <2>4. disc_state' = disc_state /\ req' = NoReq /\ UNCHANGED pending_idx
    BY <1>2, <1>4 DEF PassEnds
  <2> QED
    BY <1>0, <1>3, <1>4, <2>3, <2>4 DEF Unfailed, Searched
<1>5. CASE disc_state = "REPORT_CHRC"
  <2>1. Collection = Kept(p) /\ sub_count = 0 /\ pending_idx = 0
    BY <1>0, <1>2, <1>3, <1>5, AllCollected DEF Unfailed, WireInv, Wiring
  <2>2. /\ pending_idx' = 0
        /\ \/ pending_reports = <<>> /\ disc_state' = "IDLE" /\ req' = NoReq
           \/ subscribe_pending(0, 0)
    BY <1>2, <1>5, <2>1 DEF PassEnds
  <2>3. Subscribed'
    BY <1>0, <2>1, <2>2 DEF Subscribed
  <2>4. CASE pending_reports = <<>> /\ disc_state' = "IDLE" /\ req' = NoReq
    <3>1. Collection' = Kept(default_conn') /\ Len(pending_reports') = 0
      BY <1>0, <2>1, <2>4 DEF Collection
    <3> QED
      BY <2>2, <2>3, <2>4, <3>1 DEF Unfailed
  <2>5. CASE subscribe_pending(0, 0)
    <3>1. 0 <= Len(pending_reports)
      BY PendingTypes
    <3> QED
      BY <1>0, <2>1, <2>2, <2>3, <2>5, <3>1, UnfailedMoves
  <2> QED
    BY <2>2, <2>4, <2>5
<1>6. CASE disc_state = "CCC"
  <2>1. disc_state' = disc_state /\ req' = NoReq /\ UNCHANGED pending_idx
    BY <1>2, <1>6 DEF PassEnds
  <2>2. req = Discover("ccc", pending_reports[pending_idx + 1] + 1, Len(DB[p]))
    BY <1>0, <1>6 DEF WireInv, Wiring
  <2> DEFINE v == pending_reports[pending_idx + 1]
  <2>3. Reachable(p, v) = {}
    <3>1. v \in Nat /\ Len(DB[p]) \in Nat /\ DOMAIN DB[p] = 1 .. Len(DB[p])
      <4>1. pending_idx + 1 \in 1 .. Len(pending_reports)
        BY <1>6, PendingTypes DEF Types
      <4> QED
        BY <1>0, <4>1, PendingTypes, Handle
    <3>2. req.from = v + 1 /\ req.to = Len(DB[p]) /\ req.want = "ccc"
      BY <2>2 DEF Discover
    <3>3. \A d \in v + 1 .. Len(DB[p]) : d \in DOMAIN DB[p]
      BY <3>1
    <3> HIDE DEF v
    <3> QED
      BY <1>2, <3>2, <3>3 DEF Matches, Reachable
  <2>4. Collection' = Kept(default_conn') /\ Subscribed'
    BY <1>0, <1>3, <1>6, <2>1 DEF Unfailed, Collection, Subscribed
  <2> QED
    BY <1>0, <1>6, <2>1, <2>3, <2>4 DEF Unfailed
<1>7. disc_state # "IDLE"
  BY <1>0, <1>3 DEF Unfailed
<1> QED
  BY <1>4, <1>5, <1>6, <1>7 DEF Types, TypeOK

LEMMA UnfailedStep == ConnInv /\ Types /\ WireInv /\ UnfailedInv /\ [Next]_vars => UnfailedInv'
<1> SUFFICES ASSUME ConnInv, Types, WireInv, UnfailedInv, [Next]_vars,
                    link' = "secured", faults' = 0, ServiceFirst(default_conn')
             PROVE  Unfailed'
  BY DEF UnfailedInv
<1>1. CASE UNCHANGED <<connection, discovery>>
  <2>1. UNCHANGED <<link, default_conn, disc_state, req, pending_reports, pending_idx,
                    sub_params, sub_count, faults>>
    BY <1>1 DEF connection, discovery, pending, wired
  <2>2. Unfailed
    <3>1. ServiceFirst(default_conn)
      BY <2>1
    <3> QED
      BY <2>1, <3>1 DEF UnfailedInv
  <2>3. Collection' = Collection /\ (Subscribed => Subscribed') /\ (Searched => Searched')
    BY <2>1 DEF Collection, Subscribed, Searched
  <2>4. Gathered => Gathered'
    BY <2>1, <2>3 DEF Gathered
  <2> QED
    BY <2>1, <2>2, <2>3, <2>4 DEF Unfailed
<1>2. CASE Secured
  <2>1. /\ disc_state' = "HIDS_PRIMARY" /\ pending_idx' = 0 /\ UNCHANGED default_conn
        /\ req' = Discover("service", 1, Len(DB[default_conn]))
    BY <1>2 DEF Secured
  <2>2. req' # NoReq
    BY <2>1 DEF Discover, NoReq
  <2> QED
    BY <2>1, <2>2 DEF Unfailed, Searched
<1>3. CASE Respond
  <2>1. link = "secured" /\ ServiceFirst(default_conn) /\ UNCHANGED connection
    <3>1. UNCHANGED <<link, default_conn>> /\ UNCHANGED connection
      BY <1>3 DEF Respond, connection
    <3> QED
      BY <3>1
  <2>2. CASE ReportFound
    <3>1. Unfailed /\ disc_state' = "REPORT_CHRC" /\ disc_state = "REPORT_CHRC"
          /\ UNCHANGED pending_idx
      BY <2>1, <2>2 DEF UnfailedInv, ReportFound, Found
    <3>2. Gathered' /\ req' # NoReq
      BY <2>1, <2>2, <3>1, UnfailedReport DEF Unfailed
    <3> QED
      BY <3>1, <3>2 DEF Unfailed
  <2> QED
    BY <1>3, <2>1, <2>2, UnfailedHids, UnfailedCcc, UnfailedPassEnds DEF Respond
<1>4. ~TornDown
  <2> SUFFICES ASSUME TornDown PROVE FALSE
    OBVIOUS
  <2>1. link = "secured" /\ Fault(1)
    <3>1. link = "secured"
      BY DEF TornDown, connection
    <3> QED
      BY <3>1 DEF TornDown
  <2> QED
    BY <2>1, NoFault
<1>5. CASE \E p \in Peers : \E ad \in Ads[p] : DeviceFound(p, ad)
  <2>1. PICK p \in Peers : \E ad \in Ads[p] : DeviceFound(p, ad)
    BY <1>5
  <2>2. UNCHANGED <<connection, discovery>> \/ link' = "creating"
    BY <2>1 DEF DeviceFound
  <2> QED
    BY <1>1, <2>2
<1>6. CASE Main \/ Clock \/ UNCHANGED vars
  BY <1>1, <1>6 DEF Main, Clock, vars, connection
<1>7. CASE ConnectFailed \/ Connected \/ SecurityFailed \/ LinkLost \/ Disconnected
  BY <1>7 DEF ConnectFailed, Connected, SecurityFailed, LinkLost, Disconnected
<1> QED
  BY <1>2, <1>3, <1>4, <1>5, <1>6, <1>7 DEF Next

(* Where the reports follow the service's declaration, discovery that        *)
(* nothing failed ends with each of them subscribed that has a CCC behind    *)
(* it, up to MAX_REPORTS: one without ends the discovery, but then those     *)
(* behind it have none either.                                               *)
THEOREM CompleteCorrect == Spec => [](ServiceFirst(default_conn) => Complete)
<1>1. Types /\ WireInv /\ UnfailedInv => (ServiceFirst(default_conn) => Complete)
  <2> DEFINE p == default_conn
             P == pending_reports
             Got == {sub_params[i].value_handle : i \in 1 .. sub_count}
             Due == {h \in Kept(p) : Reachable(p, h) # {}}
  <2> SUFFICES ASSUME Types, WireInv, UnfailedInv, ServiceFirst(default_conn),
                      link = "secured", req = NoReq, faults = 0
               PROVE  Got = Due
    BY DEF Complete
  <2>1. Unfailed /\ Wiring /\ disc_state \in {"IDLE", "HIDS_PRIMARY", "REPORT_CHRC", "CCC"}
    BY DEF UnfailedInv, WireInv, Types, TypeOK
  <2>2. CASE disc_state = "HIDS_PRIMARY"
    <3>1. Notifiable(p) = {} /\ sub_count = 0
      BY <2>1, <2>2 DEF Unfailed, Searched, Wiring
    <3> QED
      BY <3>1 DEF Kept
  <2>3. CASE disc_state \in {"CCC", "IDLE"}
    <3>1. Collection = Kept(p) /\ Subscribed
      BY <2>1, <2>3 DEF Unfailed
    <3>2. Got = {P[i] : i \in 1 .. pending_idx}
          /\ \A i \in 1 .. pending_idx : Reachable(p, P[i]) # {}
      BY <3>1 DEF Subscribed
    <3>3. pending_idx \in Nat /\ Len(P) \in Nat /\ pending_idx <= Len(P)
      BY <2>1, <2>3, PendingTypes DEF Types, Unfailed
    <3>4. \A k \in 1 .. Len(P) : k \in 1 .. pending_idx \/ Reachable(p, P[k]) = {}
      <4>1. CASE disc_state = "IDLE"
        BY <2>1, <4>1 DEF Unfailed
      <4>2. CASE disc_state = "CCC"
        <5>1. Reachable(p, P[pending_idx + 1]) = {} /\ pending_idx + 1 \in 1 .. Len(P)
          BY <2>1, <3>3, <4>2 DEF Unfailed, Types
        <5>2. ASSUME NEW k \in 1 .. Len(P), k > pending_idx + 1
              PROVE  Reachable(p, P[k]) \subseteq Reachable(p, P[pending_idx + 1])
          <6>1. P[pending_idx + 1] < P[k] /\ P[k] \in Nat /\ P[pending_idx + 1] \in Nat
            BY <2>1, <5>1, <5>2, PendingTypes DEF Wiring, Increasing
          <6>2. Len(DB[p]) \in Nat
            BY Handle DEF Types
          <6> HIDE DEF P, p
          <6> QED
            BY <6>1, <6>2 DEF Reachable
        <5>3. \A k \in 1 .. Len(P) :
                 k \in 1 .. pending_idx \/ k = pending_idx + 1 \/ k > pending_idx + 1
          BY <3>3
        <5> HIDE DEF P, p
        <5> QED
          BY <5>1, <5>2, <5>3
      <4> QED
        BY <2>3, <4>1, <4>2
    <3>5. 1 .. pending_idx \subseteq 1 .. Len(P)
      BY <3>3
    <3>6. Kept(p) = {P[k] : k \in 1 .. Len(P)}
      BY <3>1 DEF Collection
    <3> HIDE DEF Got, P, p
    <3> QED
      BY <3>2, <3>4, <3>5, <3>6
  <2>4. disc_state # "REPORT_CHRC"
    BY <2>1 DEF Unfailed
  <2> QED
    BY <2>1, <2>2, <2>3, <2>4
<1>2. Init => UnfailedInv
  BY DEF Init, UnfailedInv
<1> QED
  BY <1>1, <1>2, ConnInit, ConnStep, TypesInit, TypesStep, WiredInit, WiredStep, UnfailedStep,
     PTL DEF Spec

-----------------------------------------------------------------------------
(* The probe implements Subscriptions: the reports of live slots lie before  *)
(* all that are still pending.                                               *)

(* A subscription made anew is to the report whose CCC is looked for, beyond *)
(* all that are live; one that fails leaves them as they are.                *)
LEMMA SubscribeStep ==
    ASSUME Types, WireInv, CccFound, UNCHANGED connection
    PROVE  AsSubscriptions!Next
<1> DEFINE n == sub_count + 1
           v == pending_reports[pending_idx + 1]
           Sent == [p \in Peers |-> Notifiable(p)]
<1>1. /\ link = "secured" /\ default_conn \in Peers /\ sub_count < MAX_REPORTS
      /\ UNCHANGED LinkOwner /\ Found("CCC")
  BY DEF CccFound, Found, Types, connection, LinkOwner
<1>2. PICK ok \in BOOLEAN :
        /\ n \in DOMAIN sub_params
        /\ ok = TRUE => /\ sub_params'[n].value_handle = v
                        /\ sub_params'[n].holder = default_conn
        /\ \A i \in DOMAIN sub_params \ {n} : sub_params'[i] = sub_params[i]
        /\ sub_count' = IF ok THEN n ELSE sub_count
  BY SlotWritten
<1>3. /\ pending_reports \in Seq(Nat) /\ pending_idx \in Nat /\ sub_count \in Nat
      /\ DOMAIN sub_params = 1 .. MAX_REPORTS
  BY PendingTypes
<1>4. v \in Notifiable(default_conn) /\ v > 1
  BY <1>1, CccIsOwn, NotifyHandle
<1>5. pending_idx + 1 \in pending_idx + 1 .. Len(pending_reports)
  BY <1>1, <1>3 DEF Found, Types
<1>6. /\ UNCHANGED <<link, default_conn>>
      /\ \A i \in 1 .. sub_count : sub_params'[i] = sub_params[i]
  <2>1. \A i \in 1 .. sub_count : i \in DOMAIN sub_params /\ i # n
    BY <1>1, <1>3, Bounds
  <2> HIDE DEF n
  <2> QED
    BY <1>2, <2>1 DEF connection
<1>7. \A g \in LiveHandles : g < v
  BY <1>1, <1>5 DEF LiveHandles, WireInv, Wiring, Ahead
<1>9. CASE ok = TRUE
  <2>1. 1 .. sub_count' = (1 .. sub_count) \union {n}
    BY <1>2, <1>3, <1>9
  <2> HIDE DEF n, v
  <2>2. Live' = Live \union {n} /\ sub_params'[n].value_handle = v
    BY <1>2, <1>6, <1>9, <2>1 DEF Live
  <2>3. \A i \in Live : sub_params'[i] = sub_params[i]
    BY <1>6 DEF Live
  <2>4. LiveHandles' = LiveHandles \union {v}
    BY <1>1, <1>6, <2>2, <2>3 DEF LiveHandles
  <2>5. v \in Sent[LinkOwner] /\ LinkOwner # None
    BY <1>1, <1>4, PeersAssumption DEF LinkOwner
  <2>6. AsSubscriptions!Subscribe(v)
    BY <1>1, <1>7, <2>4 DEF AsSubscriptions!Subscribe
  <2> QED
    BY <2>5, <2>6 DEF AsSubscriptions!Next
<1>10. CASE ok = FALSE
  <2>1. \A i \in Live' : i \in Live /\ sub_params'[i] = sub_params[i]
    BY <1>2, <1>6, <1>10 DEF Live
  <2>2. LiveHandles' \subseteq LiveHandles
    BY <1>1, <1>6, <2>1 DEF LiveHandles
  <2> QED
    BY <1>1, <2>2 DEF AsSubscriptions!Next, AsSubscriptions!Shed
<1> QED
  BY <1>9, <1>10

LEMMA SubscriptionSteps ==
    ASSUME ConnInv, Types, WireInv, [Next]_vars
    PROVE  AsSubscriptions!Next \/ UNCHANGED <<LinkOwner, None, LiveHandles>>
<1>0. ASSUME link # "secured", link' # "secured"
      PROVE  UNCHANGED <<LinkOwner, None, LiveHandles>>
  BY <1>0 DEF LinkOwner, LiveHandles
<1>1. ASSUME UNCHANGED <<connection, wired>>
      PROVE  UNCHANGED <<LinkOwner, None, LiveHandles>>
  BY <1>1 DEF LinkOwner, LiveHandles, Live, connection, wired
<1>2. CASE Secured
  <2>1. /\ LinkOwner = None /\ LinkOwner' = default_conn
        /\ LiveHandles = {} /\ LiveHandles' = {}
    <3>1. Live' = {}
      BY <1>2 DEF Secured, Live
    <3> QED
      BY <1>2, <3>1 DEF Secured, LinkOwner, LiveHandles
  <2>2. default_conn \in Peers
    BY <1>2 DEF Secured, ConnInv, ConnMatchesLink, Types, TypeOK
  <2>3. AsSubscriptions!Connect(default_conn)
    BY <2>1, <2>2 DEF AsSubscriptions!Connect
  <2> QED
    BY <2>2, <2>3 DEF AsSubscriptions!Next
<1>3. CASE Respond
  <2>1. CASE CccFound
    BY <1>3, <2>1, SubscribeStep DEF Respond
  <2>2. CASE HidsFound \/ ReportFound \/ NothingFound
    BY <1>1, <1>3, <2>2 DEF Respond, HidsFound, ReportFound, NothingFound
  <2> QED
    BY <1>3, <2>1, <2>2 DEF Respond
<1>4. CASE TornDown
  <2>0. UNCHANGED <<link, default_conn, sub_count>>
    BY <1>4 DEF TornDown, connection
  <2>1. CASE link = "secured"
    <3>1. PICK r \in DOMAIN sub_params : Dropped(default_conn, {r})
      BY <1>4, <2>1 DEF TornDown
    <3>2. EmptySlot.holder # default_conn /\ 1 .. sub_count \subseteq DOMAIN sub_params
      BY <2>1, PendingTypes, Bounds, PeersAssumption DEF Types, EmptySlot
    <3>3. \A i \in Live' : i \in Live /\ sub_params'[i] = sub_params[i]
      BY <2>0, <3>1, <3>2 DEF Dropped, Live
    <3>4. LiveHandles' \subseteq LiveHandles /\ UNCHANGED LinkOwner
      BY <2>0, <2>1, <3>3 DEF LiveHandles, LinkOwner
    <3> QED
      BY <3>4 DEF AsSubscriptions!Next, AsSubscriptions!Shed
  <2> QED
    BY <1>0, <2>0, <2>1
<1>5. CASE LinkLost
  <2>1. link' = "lost"
    BY <1>5 DEF LinkLost
  <2>2. CASE link = "secured"
    <3>1. LinkOwner # None /\ LinkOwner' = None /\ LiveHandles' = {}
      BY <2>1, <2>2, PeersAssumption DEF Types, LinkOwner, LiveHandles
    <3> QED
      BY <3>1 DEF AsSubscriptions!Next, AsSubscriptions!Lose
  <2> QED
    BY <1>0, <2>1, <2>2
<1>6. CASE Disconnected \/ ConnectFailed \/ Connected \/ SecurityFailed
  BY <1>0, <1>6 DEF Disconnected, ConnectFailed, Connected, SecurityFailed
<1>7. CASE Main \/ Clock \/ UNCHANGED vars
  BY <1>1, <1>7 DEF Main, Clock, vars, discovery
<1>8. CASE \E p \in Peers : \E ad \in Ads[p] : DeviceFound(p, ad)
  <2>1. UNCHANGED wired
    BY <1>8 DEF DeviceFound, discovery
  <2>2. UNCHANGED connection \/ (default_conn = None /\ link' = "creating")
    BY <1>8 DEF DeviceFound
  <2>3. default_conn = None => link # "secured"
    BY PeersAssumption DEF Types
  <2> QED
    BY <1>0, <1>1, <2>1, <2>2, <2>3
<1> QED
  BY <1>2, <1>3, <1>4, <1>5, <1>6, <1>7, <1>8 DEF Next

(* The probe implements Subscriptions too, for any peers, tables and         *)
(* failures, though its search for a CCC is not kept from other reports.     *)
THEOREM SubscriptionsImplemented == Spec => ImplementsSubscriptions
<1>1. Init => AsSubscriptions!Init
  BY DEF Init, AsSubscriptions!Init, LinkOwner, LiveHandles
<1>2. ConnInv /\ Types /\ WireInv /\ [Next]_vars
        => [AsSubscriptions!Next]_<<LinkOwner, None, LiveHandles>>
  BY SubscriptionSteps
<1> QED
  BY <1>1, <1>2, ConnInit, ConnStep, TypesInit, TypesStep, WiredInit, WiredStep,
     PTL DEF Spec, ImplementsSubscriptions, AsSubscriptions!Spec
=============================================================================
