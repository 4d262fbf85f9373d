--------------------------- MODULE DiscoveryProofs ---------------------------
(***************************************************************************)
(* Proofs about Discovery for every set of peers and attribute tables, any *)
(* number of failures and any table size.                                  *)
(***************************************************************************)
EXTENDS Discovery, Arithmetic, TLAPS, SequenceTheorems, FiniteSetTheorems

(* A request is a record: the steps that move its range keep what it wants. *)
RequestShape ==
    /\ req = [op |-> req.op, want |-> req.want, from |-> req.from, to |-> req.to]
    /\ req = NoReq \/ req.want \in {"service", "map", "report", "ref", "ccc"}

PeerOfLink ==
    /\ link \in {"down", "secured", "lost"}
    /\ link = "down" <=> peer = None
    /\ peer \in Peers \union {None}

(* The Report Map is read once on a link, and until it has been read there   *)
(* is no layout: that is why a failed parse cannot leave an older layout     *)
(* flagged as valid.                                                         *)
NoLayoutYet == req.want \in {"service", "map"} => ~layout_valid

Inv == /\ RequestShape /\ PeerOfLink /\ layout_valid \in BOOLEAN
       /\ AnswerFindsItsState /\ OnlyFirstPassIsLeftOpen
       /\ NoLayoutYet /\ LayoutIsThisPeers

LEMMA InitInv == DiscInit => Inv
BY PeersAssumption
   DEF DiscInit, Inv, RequestShape, PeerOfLink, AnswerFindsItsState,
       OnlyFirstPassIsLeftOpen, NoLayoutYet, LayoutIsThisPeers, NoReq

-----------------------------------------------------------------------------
(* What a handler leaves for the next answer: a request that finds its       *)
(* state, or none and the state machine idle.  No layout is asked for twice. *)
Handed ==
    \/ req' = NoReq /\ disc_state' = "IDLE"
    \/ /\ link = "secured"
       /\ req' = [op |-> req'.op, want |-> req'.want, from |-> req'.from, to |-> req'.to]
       /\ disc_state' = StateOf(req'.want)
       /\ req'.want \in {"report", "ref", "ccc"}

LEMMA ReportsHanded ==
    ASSUME NEW k, start_report_discovery(k) PROVE Handed
BY DEF start_report_discovery, Handed, Starts, Discover, StateOf

LEMMA CccHanded ==
    ASSUME NEW n, NEW k, discover_ccc(n, k) PROVE Handed
BY DEF discover_ccc, Handed, Starts, Descriptor, Discover, StateOf

LEMMA PendingHanded ==
    ASSUME NEW n, NEW k, subscribe_pending(n, k) PROVE Handed
BY CccHanded DEF subscribe_pending, Handed, Starts, Descriptor, Discover, StateOf

(* A handler that hands over and leaves the link and the layout alone keeps  *)
(* the invariant.                                                            *)
LEMMA HandedKeeps ==
    ASSUME Inv, Handed, UNCHANGED connection, UNCHANGED <<layout, layout_valid>>
    PROVE  Inv'
BY DEF Inv, Handed, connection, RequestShape, PeerOfLink, AnswerFindsItsState,
       OnlyFirstPassIsLeftOpen, NoLayoutYet, LayoutIsThisPeers, NoReq, StateOf

LEMMA PassEndsKeeps ==
    ASSUME Inv, NEW k, PassEnds(k), UNCHANGED connection, UNCHANGED map
    PROVE  Inv'
<1>1. CASE Handed
  BY <1>1, HandedKeeps DEF map
<1>2. CASE /\ disc_state \in {"HIDS_PRIMARY", "IDLE"}
           /\ req' = NoReq /\ UNCHANGED disc_state
  BY <1>2 DEF Inv, connection, map, RequestShape, PeerOfLink, AnswerFindsItsState,
              OnlyFirstPassIsLeftOpen, NoLayoutYet, LayoutIsThisPeers, NoReq
<1> QED
  BY <1>1, <1>2, ReportsHanded, CccHanded, PendingHanded DEF PassEnds, Handed

-----------------------------------------------------------------------------
LEMMA StepInv == Inv /\ [DiscNext]_discVars => Inv'
<1> SUFFICES ASSUME Inv, [DiscNext]_discVars PROVE Inv'
  OBVIOUS
<1> USE DEF Inv
<1>1. ASSUME NEW p \in Peers, Secured(p) PROVE Inv'
  <2>1. PeerOfLink' /\ layout_valid' = FALSE /\ disc_state' = "HIDS_PRIMARY"
    BY <1>1, PeersAssumption DEF Secured, PeerOfLink
  <2>2. req' = NoReq \/ req' = Discover("service", 1, Len(DB[p]))
    BY <1>1 DEF Secured
  <2>3. RequestShape' /\ (req' # NoReq => req'.want = "service")
    BY <2>2 DEF RequestShape, NoReq, Discover
  <2> QED
    BY <2>1, <2>3
       DEF AnswerFindsItsState, StateOf, OnlyFirstPassIsLeftOpen, NoLayoutYet,
           LayoutIsThisPeers
<1>2. CASE HidsFound
  <2>1. ~layout_valid
    BY <1>2 DEF HidsFound, Found, AnswerFindsItsState, NoLayoutYet, RequestShape,
           StateOf, NoReq
  <2> QED
    BY <1>2, <2>1
       DEF HidsFound, Found, connection, map, Starts, RequestShape, PeerOfLink,
           AnswerFindsItsState, OnlyFirstPassIsLeftOpen, NoLayoutYet,
           LayoutIsThisPeers, NoReq, Discover, StateOf
<1>3. CASE MapFound
  <2>1. ~layout_valid
    BY <1>3 DEF MapFound, Found, AnswerFindsItsState, NoLayoutYet, RequestShape,
           StateOf, NoReq
  <2>2. CASE start_report_discovery(1)
    BY <1>3, <2>2, ReportsHanded, HandedKeeps DEF MapFound
  <2>3. CASE Starts(0) /\ req' = Read("map", 0) /\ UNCHANGED disc_state
    BY <1>3, <2>1, <2>3
       DEF MapFound, Found, connection, Starts, RequestShape, PeerOfLink,
           AnswerFindsItsState, OnlyFirstPassIsLeftOpen, NoLayoutYet,
           LayoutIsThisPeers, NoReq, Read, StateOf
  <2> QED
    BY <1>3, <2>2, <2>3 DEF MapFound
<1>4. CASE ReportFound
  <2>1. req' = [op |-> req.op, want |-> req.want, from |-> Min(Matches) + 1, to |-> req.to]
    BY <1>4 DEF ReportFound, RequestShape
  <2>2. req # NoReq /\ req' # NoReq
    BY <1>4, <2>1 DEF ReportFound, Found, NoReq
  <2> QED
    BY <1>4, <2>1, <2>2
       DEF ReportFound, connection, map, RequestShape, PeerOfLink,
           AnswerFindsItsState, OnlyFirstPassIsLeftOpen, NoLayoutYet, LayoutIsThisPeers
<1>5. CASE RefFound
  <2>1. Handed
    BY <1>5, CccHanded DEF RefFound, Found, Handed, Starts, Read, StateOf
  <2> QED
    BY <1>5, <2>1, HandedKeeps DEF RefFound, map
<1>6. CASE CccFound
  BY <1>6, PendingHanded, HandedKeeps DEF CccFound, map
<1>7. CASE NothingFound
  BY <1>7, PassEndsKeeps DEF NothingFound
<1>8. CASE MapChunk
  <2>1. req' = [op |-> req.op, want |-> req.want, from |-> req.from + 1, to |-> req.to]
    BY <1>8 DEF MapChunk, RequestShape
  <2>2. req # NoReq /\ req' # NoReq
    BY <1>8, <2>1 DEF MapChunk, Reading, NoReq
  <2> QED
    BY <1>8, <2>1, <2>2
       DEF MapChunk, connection, RequestShape, PeerOfLink,
           AnswerFindsItsState, OnlyFirstPassIsLeftOpen, NoLayoutYet, LayoutIsThisPeers
<1>9. CASE MapComplete
  <2>1. layout_valid = FALSE
    BY <1>9 DEF MapComplete, Reading, NoLayoutYet
  <2>2. layout_valid' \in BOOLEAN
    BY <1>9, <2>1 DEF MapComplete
  <2>3. LayoutIsThisPeers'
    BY <1>9, <2>1
       DEF MapComplete, Parsed, NoLayout, LayoutIsThisPeers, PeerOfLink, connection
  <2>4. Handed
    BY <1>9, ReportsHanded DEF MapComplete
  <2> QED
    BY <1>9, <2>2, <2>3, <2>4
       DEF MapComplete, Handed, connection, RequestShape, PeerOfLink, NoReq, StateOf,
           AnswerFindsItsState, OnlyFirstPassIsLeftOpen, NoLayoutYet
<1>10. CASE MapFailed
  BY <1>10, ReportsHanded, HandedKeeps DEF MapFailed, map
<1>11. CASE RefRead \/ RefFailed
  BY <1>11, CccHanded, HandedKeeps DEF RefRead, RefFailed, map
<1>12. CASE Rejected \/ LinkLost \/ (\E p \in Peers : TornDown(p))
  <2>1. UNCHANGED <<peer, disc_state, req, map>> /\ (link' = link \/ link' = "lost")
    BY <1>12 DEF Rejected, LinkLost, TornDown, connection
  <2>2. link' = "down" <=> link = "down"
    BY <1>12 DEF Rejected, LinkLost, TornDown, connection
  <2> QED
    BY <2>1, <2>2
       DEF map, RequestShape, PeerOfLink, AnswerFindsItsState, StateOf,
           OnlyFirstPassIsLeftOpen, NoLayoutYet, LayoutIsThisPeers
<1>13. CASE Disconnected
  BY <1>13
     DEF Disconnected, RequestShape, PeerOfLink, AnswerFindsItsState,
         OnlyFirstPassIsLeftOpen, NoLayoutYet, LayoutIsThisPeers
<1>14. CASE UNCHANGED discVars
  BY <1>14
     DEF discVars, connection, map, pending, wired, RequestShape, PeerOfLink,
         AnswerFindsItsState, OnlyFirstPassIsLeftOpen, NoLayoutYet, LayoutIsThisPeers
<1> QED
  BY <1>1, <1>2, <1>3, <1>4, <1>5, <1>6, <1>7, <1>8, <1>9, <1>10, <1>11, <1>12,
     <1>13, <1>14 DEF DiscNext, Respond

LEMMA Invariant == DiscSpec => []Inv
BY InitInv, StepInv, PTL DEF DiscSpec

(* Whatever fails, an answer on a live link finds the state of its pass. *)
THEOREM AnswersFound == DiscSpec => []AnswerFindsItsState
BY Invariant, PTL DEF Inv

(* Discovery stops idle, except when the very first pass did not start or    *)
(* found no service.                                                         *)
THEOREM StopsIdle == DiscSpec => []OnlyFirstPassIsLeftOpen
BY Invariant, PTL DEF Inv

(* A layout is used only on the link whose Report Map it was parsed from. *)
THEOREM LayoutOwned == DiscSpec => []LayoutIsThisPeers
BY Invariant, PTL DEF Inv

-----------------------------------------------------------------------------
(* Types.  A pass over the descriptors of a report has a report, and a       *)
(* reference that is read is in the peer's table.                            *)
ReqType ==
    \/ req = NoReq
    \/ req.op \in {"discover", "read"} /\ req.from \in Nat /\ req.to \in Handles

Types ==
    /\ DiscTypeOK
    /\ disc_state \in {"REPORT_REF", "CCC"} => pending_idx < Len(pending_reports)
    /\ link = "secured" /\ Reading("ref") => req.from \in DOMAIN DB[peer]

LEMMA Handle ==
    /\ 0 \in Handles /\ Handles \subseteq Nat
    /\ \A h \in Handles \ {0} : h - 1 \in Handles
    /\ \A p \in Peers : /\ Len(DB[p]) \in Handles /\ DOMAIN DB[p] = 1 .. Len(DB[p])
                        /\ \A h \in DOMAIN DB[p] : h \in Handles \ {0} /\ h \in Nat
<1>1. \A p \in Peers : Len(DB[p]) \in Nat /\ DOMAIN DB[p] = 1 .. Len(DB[p])
  BY TablesAssumption
<1>2. \A h : h \in Handles <=> h = 0 \/ \E p \in Peers : h \in 1 .. Len(DB[p])
  BY DEF Handles
<1>3. ASSUME NEW h \in Handles \ {0} PROVE h - 1 \in Handles
  <2>1. PICK p \in Peers : h \in 1 .. Len(DB[p])
    BY <1>2
  <2>2. h - 1 = 0 \/ h - 1 \in 1 .. Len(DB[p])
    BY <1>1, <2>1
  <2> QED
    BY <1>2, <2>2
<1>4. \A p \in Peers : Len(DB[p]) = 0 \/ Len(DB[p]) \in 1 .. Len(DB[p])
  BY <1>1
<1>5. Handles \subseteq Nat
  BY <1>1, <1>2
<1>6. \A p \in Peers : Len(DB[p]) \in Handles
  BY <1>2, <1>4
<1>7. \A p \in Peers : \A h \in DOMAIN DB[p] : h \in Handles \ {0} /\ h \in Nat
  BY <1>1, <1>2
<1> QED
  BY <1>1, <1>2, <1>3, <1>5, <1>6, <1>7

LEMMA Bounds == MAX_REPORTS \in Nat /\ MaxFaults \in Nat /\ RM_MAX \in Nat
BY BoundsAssumption

(* The attribute of an answer is one of the peer's. *)
LEMMA FoundHandle ==
    ASSUME Types, NEW state, Found(state)
    PROVE  /\ peer \in Peers /\ Min(Matches) \in Matches
           /\ Min(Matches) \in DOMAIN DB[peer] /\ Min(Matches) \in Handles \ {0}
           /\ Min(Matches) \in Nat /\ req.from <= Min(Matches)
<1>1. peer \in Peers
  BY DEF Found, Types, DiscTypeOK
<1>2. Matches \in SUBSET Nat /\ Matches # {}
  BY <1>1, Handle DEF Matches, Found
<1>3. Min(Matches) \in Matches
  BY <1>2, MinOfNats
<1>4. req.from \in Nat /\ req.to \in Nat
  <2>1. req # NoReq
    BY DEF Found, NoReq
  <2>2. req.from \in Nat /\ req.to \in Handles
    BY <2>1 DEF Types, DiscTypeOK
  <2>3. \A h \in Handles : h \in Nat
    BY Handle
  <2> QED
    BY <2>2, <2>3
<1>5. \A h \in Matches : h \in DOMAIN DB[peer] /\ req.from <= h
  BY <1>4 DEF Matches
<1> QED
  BY <1>1, <1>3, <1>5, Handle

LEMMA FaultType ==
    ASSUME Types, NEW k \in Nat, Fault(k) PROVE faults' \in 0 .. MaxFaults
BY Bounds DEF Types, DiscTypeOK, Fault

(* The types that a handler leaves when it moves on to the n-th report. *)
Moved(n) ==
    /\ ReqType' /\ faults' \in 0 .. MaxFaults /\ disc_state' \in States
    /\ disc_state' \in {"REPORT_REF", "CCC"} => n < Len(pending_reports)
    /\ ~Reading("ref")'

LEMMA DescriptorType ==
    ASSUME Types, NEW n \in Nat, n < Len(pending_reports), NEW want
    PROVE  /\ Descriptor(want, n).op = "discover"
           /\ Descriptor(want, n).from \in Nat /\ Descriptor(want, n).to \in Handles
<1>1. pending_reports \in Seq(Handles \ {0}) /\ hids_end_handle \in Handles
  BY DEF Types, DiscTypeOK
<1>2. pending_reports[n + 1] \in Handles
  BY <1>1
<1>3. report_end(n) \in Handles
  <2>1. n + 1 < Len(pending_reports) => pending_reports[n + 2] \in Handles \ {0}
    BY <1>1
  <2> QED
    BY <1>1, <2>1, Handle DEF report_end
<1>4. pending_reports[n + 1] \in Nat
  BY <1>2, Handle
<1> QED
  BY <1>3, <1>4 DEF Descriptor, Discover

LEMMA CccMoves ==
    ASSUME Types, NEW n \in Nat, n < Len(pending_reports), NEW k \in Nat, discover_ccc(n, k)
    PROVE  Moved(n)
<1>1. faults' \in 0 .. MaxFaults
  <2>1. Fault(k) \/ Fault(k + 1)
    BY DEF discover_ccc, Starts, Fails
  <2> QED
    BY <2>1, FaultType
<1>2. disc_state' \in {"CCC", "IDLE"} /\ (req' = NoReq \/ req' = Descriptor("ccc", n))
  BY DEF discover_ccc
<1>3. ReqType' /\ ~Reading("ref")'
  BY <1>2, DescriptorType DEF ReqType, Reading, NoReq
<1> QED
  BY <1>1, <1>2, <1>3 DEF Moved, States

LEMMA PendingMoves ==
    ASSUME Types, NEW n \in Nat, NEW k \in Nat, subscribe_pending(n, k)
    PROVE  Moved(n) /\ cur_report_id' \in Ids
<1>1. cur_report_id' \in Ids
  <2>1. cur_report_id' = 0 \/ cur_report_id' = cur_report_id
    BY DEF subscribe_pending
  <2>2. cur_report_id \in Ids /\ 0 \in Ids
    BY DEF Types, DiscTypeOK, Ids
  <2> QED
    BY <2>1, <2>2
<1>2. CASE /\ n >= Len(pending_reports)
           /\ Fault(k) /\ disc_state' = "IDLE" /\ req' = NoReq
  <2>1. faults' \in 0 .. MaxFaults
    BY <1>2, FaultType
  <2>2. ReqType' /\ ~Reading("ref")'
    BY <1>2 DEF ReqType, Reading, NoReq
  <2> QED
    BY <1>1, <1>2, <2>1, <2>2 DEF Moved, States
<1>3. CASE /\ n < Len(pending_reports)
           /\ Starts(k) /\ disc_state' = "REPORT_REF" /\ req' = Descriptor("ref", n)
  <2>1. faults' \in 0 .. MaxFaults
    BY <1>3, FaultType DEF Starts
  <2>2. ReqType' /\ ~Reading("ref")'
    BY <1>3, DescriptorType DEF ReqType, Reading
  <2> QED
    BY <1>1, <1>3, <2>1, <2>2 DEF Moved, States
<1>4. CASE n < Len(pending_reports) /\ discover_ccc(n, k + 1)
  <2>1. k + 1 \in Nat
    OBVIOUS
  <2> QED
    BY <1>1, <1>4, <2>1, CccMoves
<1> QED
  BY <1>1, <1>2, <1>3, <1>4 DEF subscribe_pending

LEMMA ReportsMove ==
    ASSUME Types, NEW k \in Nat, start_report_discovery(k)
    PROVE  /\ Moved(0) /\ disc_state' \in {"REPORT_CHRC", "IDLE"}
           /\ pending_reports' = <<>> /\ pending_idx' = 0 /\ sub_count' = 0
           /\ UNCHANGED <<cur_report_id, subs>>
<1>1. faults' \in 0 .. MaxFaults
  <2>1. Fault(k) \/ Fault(k + 1)
    BY DEF start_report_discovery, Starts, Fails
  <2> QED
    BY <2>1, FaultType
<1>2. req' = NoReq \/ req' = Discover("report", 1, hids_end_handle)
  BY DEF start_report_discovery
<1>3. ReqType' /\ ~Reading("ref")'
  BY <1>2 DEF ReqType, Reading, NoReq, Discover, Types, DiscTypeOK
<1> QED
  BY <1>1, <1>3 DEF start_report_discovery, Moved, States

(* A handler that has moved on and keeps the rest well typed. *)
LEMMA MovedTypes ==
    ASSUME Types, NEW n \in Nat, Moved(n), UNCHANGED connection, UNCHANGED subs,
           hids_end_handle' \in Handles, rm_len' \in 0 .. RM_MAX,
           layout' \in [of : Peers \union {None}, report_id : Ids \union {NoPointer}],
           layout_valid' \in BOOLEAN, cur_report_id' \in Ids,
           sub_count' \in 0 .. MAX_REPORTS,
           \/ /\ UNCHANGED pending_reports /\ pending_idx' = n
              /\ n <= Len(pending_reports)
           \/ /\ pending_reports' = <<>> /\ pending_idx' = 0
              /\ disc_state' \notin {"REPORT_REF", "CCC"}
    PROVE  Types'
<1>1. /\ pending_reports' \in Seq(Handles \ {0}) /\ Len(pending_reports') <= MAX_REPORTS
      /\ pending_idx' \in 0 .. MAX_REPORTS
      /\ disc_state' \in {"REPORT_REF", "CCC"} => pending_idx' < Len(pending_reports')
  <2>1. pending_reports \in Seq(Handles \ {0}) /\ Len(pending_reports) <= MAX_REPORTS
    BY DEF Types, DiscTypeOK
  <2>2. CASE UNCHANGED pending_reports /\ pending_idx' = n /\ n <= Len(pending_reports)
    BY <2>1, <2>2, Bounds DEF Moved
  <2>3. CASE /\ pending_reports' = <<>> /\ pending_idx' = 0
             /\ disc_state' \notin {"REPORT_REF", "CCC"}
    BY <2>3, Bounds
  <2> QED
    BY <2>2, <2>3
<1>2. /\ link' \in {"down", "secured", "lost"} /\ peer' \in Peers \union {None}
      /\ link' = "down" <=> peer' = None
  BY DEF Types, DiscTypeOK, connection
<1>3. subs' \in [1 .. MAX_REPORTS ->
        [report_id : Ids, value_handle : Handles, ccc_handle : Handles, holder : Peers \union {None}]]
  BY DEF Types, DiscTypeOK
<1> QED
  BY <1>1, <1>2, <1>3 DEF Types, DiscTypeOK, Moved, ReqType

LEMMA RestTypes ==
    ASSUME Types
    PROVE  /\ rm_len \in 0 .. RM_MAX /\ hids_end_handle \in Handles
           /\ layout \in [of : Peers \union {None}, report_id : Ids \union {NoPointer}]
           /\ layout_valid \in BOOLEAN /\ cur_report_id \in Ids
           /\ sub_count \in 0 .. MAX_REPORTS /\ 0 \in 0 .. MAX_REPORTS
           /\ pending_idx \in Nat
BY Bounds DEF Types, DiscTypeOK

LEMMA PassEndsTypes ==
    ASSUME Types, NEW k \in Nat, PassEnds(k), UNCHANGED <<connection, hids_end_handle, map>>
    PROVE  Types'
<1>1. CASE disc_state = "REPORT_MAP_CHRC" /\ start_report_discovery(k)
  BY <1>1, ReportsMove, MovedTypes, RestTypes DEF map
<1>2. CASE /\ disc_state \in {"REPORT_CHRC", "HIDS_PRIMARY", "IDLE"}
           /\ Fault(k) /\ req' = NoReq /\ disc_state' \in {"IDLE", disc_state}
           /\ UNCHANGED <<pending, wired>>
  <2>1. ReqType' /\ ~Reading("ref")' /\ faults' \in 0 .. MaxFaults
    BY <1>2, FaultType DEF ReqType, Reading, NoReq
  <2> QED
    BY <1>2, <2>1
       DEF Types, DiscTypeOK, ReqType, connection, map, pending, wired, States
<1>3. CASE /\ disc_state = "REPORT_CHRC" /\ pending_idx' = 0 /\ subscribe_pending(0, k)
           /\ UNCHANGED <<pending_reports, wired>>
  <2>1. 0 <= Len(pending_reports)
    BY DEF Types, DiscTypeOK
  <2> QED
    BY <1>3, <2>1, PendingMoves, MovedTypes, RestTypes DEF map, wired
<1>4. CASE disc_state = "REPORT_REF" /\ discover_ccc(pending_idx, k) /\ UNCHANGED <<pending, wired>>
  <2>1. pending_idx < Len(pending_reports) /\ pending_idx <= Len(pending_reports)
    BY <1>4 DEF Types, DiscTypeOK
  <2>2. Moved(pending_idx)
    BY <1>4, <2>1, CccMoves, RestTypes
  <2> QED
    BY <1>4, <2>1, <2>2, MovedTypes, RestTypes DEF map, wired, pending
<1>5. CASE /\ disc_state = "CCC" /\ pending_idx' = pending_idx + 1
           /\ subscribe_pending(pending_idx + 1, k) /\ UNCHANGED <<pending_reports, wired>>
  <2>1. pending_idx + 1 \in Nat /\ pending_idx + 1 <= Len(pending_reports)
    BY <1>5, RestTypes DEF Types, DiscTypeOK
  <2>2. Moved(pending_idx + 1) /\ cur_report_id' \in Ids
    BY <1>5, <2>1, PendingMoves
  <2> QED
    BY <1>5, <2>1, <2>2, MovedTypes, RestTypes DEF map, wired
<1> QED
  BY <1>1, <1>2, <1>3, <1>4, <1>5 DEF PassEnds

LEMMA FoundTypes ==
    ASSUME Inv, Types, HidsFound \/ MapFound \/ ReportFound \/ RefFound
    PROVE  Types'
<1>1. CASE HidsFound
  <2>1. Found("HIDS_PRIMARY") /\ (Fault(0) \/ Fault(1))
    BY <1>1 DEF HidsFound, Starts, Fails
  <2>2. Len(DB[peer]) \in Handles /\ Min(Matches) + 1 \in Nat /\ faults' \in 0 .. MaxFaults
    BY <2>1, FoundHandle, FaultType, Handle
  <2>3. ReqType' /\ ~Reading("ref")'
    BY <1>1, <2>2 DEF HidsFound, ReqType, Reading, NoReq, Discover
  <2> QED
    BY <1>1, <2>2, <2>3
       DEF HidsFound, Types, DiscTypeOK, ReqType, connection, map, pending, wired, States
<1>2. CASE MapFound
  <2>1. CASE start_report_discovery(1)
    <3>1. rm_len' \in 0 .. RM_MAX
      BY <1>2, Bounds DEF MapFound
    <3> QED
      BY <1>2, <2>1, <3>1, ReportsMove, MovedTypes, RestTypes DEF MapFound
  <2>2. CASE Starts(0) /\ req' = Read("map", 0) /\ UNCHANGED <<disc_state, pending, wired>>
    <3>1. faults' \in 0 .. MaxFaults
      BY <2>2, FaultType DEF Starts
    <3>2. ReqType' /\ ~Reading("ref")'
      BY <2>2, Handle DEF ReqType, Reading, Read
    <3> QED
      BY <1>2, <2>2, <3>1, <3>2, Bounds
         DEF MapFound, Types, DiscTypeOK, ReqType, connection, pending, wired
  <2> QED
    BY <1>2, <2>1, <2>2 DEF MapFound
<1>3. CASE ReportFound
  <2>1. /\ Found("REPORT_CHRC") /\ req # NoReq
        /\ req = [op |-> req.op, want |-> req.want, from |-> req.from, to |-> req.to]
    BY <1>3 DEF ReportFound, Found, NoReq, Inv, RequestShape
  <2>2. req' = [op |-> req.op, want |-> req.want, from |-> Min(Matches) + 1, to |-> req.to]
    BY <1>3, <2>1 DEF ReportFound
  <2>3. ReqType' /\ ~Reading("ref")'
    BY <2>1, <2>2, FoundHandle DEF ReqType, Types, DiscTypeOK, Reading, Found
  <2>4. Min(Matches) + 1 \in Handles \ {0}
    <3>1. req.want = "report"
      BY <2>1 DEF Inv, AnswerFindsItsState, RequestShape, Found, StateOf
    <3>2. DB[peer][Min(Matches)].type = "report"
      <4>1. \A h \in Matches : DB[peer][h].type = req.want
        BY DEF Matches
      <4> QED
        BY <2>1, <3>1, <4>1, FoundHandle
    <3> QED
      BY <2>1, <3>2, FoundHandle, Handle, TablesAssumption
  <2>5. /\ pending_reports' \in Seq(Handles \ {0}) /\ Len(pending_reports') <= MAX_REPORTS
    <3>1. \/ UNCHANGED pending_reports
          \/ /\ Len(pending_reports) < MAX_REPORTS
             /\ pending_reports' = Append(pending_reports, Min(Matches) + 1)
      BY <1>3 DEF ReportFound, Collected
    <3>2. pending_reports \in Seq(Handles \ {0}) /\ Len(pending_reports) <= MAX_REPORTS
      BY DEF Types, DiscTypeOK
    <3> QED
      BY <2>4, <3>1, <3>2, Bounds
  <2> QED
    BY <1>3, <2>1, <2>3, <2>5
       DEF ReportFound, Found, Types, DiscTypeOK, ReqType, connection, map, wired
<1>4. CASE RefFound
  <2>1. Found("REPORT_REF") /\ pending_idx < Len(pending_reports) /\ pending_idx \in Nat
    BY <1>4, RestTypes DEF RefFound, Found, Types
  <2>2. CASE Starts(0) /\ req' = Read("ref", Min(Matches)) /\ UNCHANGED <<disc_state, cur_report_id>>
    <3>1. faults' \in 0 .. MaxFaults
      BY <2>2, FaultType DEF Starts
    <3>2. ReqType' /\ req'.from \in DOMAIN DB[peer]
      BY <2>1, <2>2, FoundHandle, Handle DEF ReqType, Read
    <3> QED
      BY <1>4, <2>2, <3>1, <3>2
         DEF RefFound, Types, DiscTypeOK, ReqType, connection, map, wired
  <2>3. CASE cur_report_id' = 0 /\ discover_ccc(pending_idx, 1)
    <3>1. Moved(pending_idx) /\ cur_report_id' \in Ids
      BY <2>1, <2>3, CccMoves DEF Ids
    <3>2. pending_idx <= Len(pending_reports)
      BY <2>1 DEF Types, DiscTypeOK
    <3> QED
      BY <1>4, <2>1, <3>1, <3>2, MovedTypes, RestTypes DEF RefFound, map, wired
  <2> QED
    BY <1>4, <2>2, <2>3 DEF RefFound
<1> QED
  BY <1>1, <1>2, <1>3, <1>4

LEMMA CccTypes ==
    ASSUME Types, CccFound PROVE Types'
<1>1. Found("CCC") /\ sub_count < MAX_REPORTS /\ pending_idx < Len(pending_reports)
  BY DEF CccFound, Found, Types
<1>2. PICK ok \in BOOLEAN, cut \in SUBSET Neighbours(sub_count + 1) :
        /\ subs' = [Cleared(cut) EXCEPT ![sub_count + 1] = Slot(Min(Matches), ok)]
        /\ sub_count' = IF ok THEN sub_count + 1 ELSE sub_count
        /\ pending_idx' = pending_idx + 1
        /\ subscribe_pending(pending_idx + 1, IF ok THEN 0 ELSE 1)
  BY DEF CccFound
<1>3. /\ pending_reports \in Seq(Handles \ {0}) /\ Len(pending_reports) <= MAX_REPORTS
      /\ pending_idx \in Nat /\ sub_count \in Nat /\ cur_report_id \in Ids
  BY Bounds DEF Types, DiscTypeOK
<1> DEFINE S == [report_id : Ids, value_handle : Handles, ccc_handle : Handles,
                 holder : Peers \union {None}]
<1>4. Slot(Min(Matches), ok) \in S
  <2>1. pending_reports[pending_idx + 1] \in Handles
    BY <1>1, <1>3
  <2>2. Min(Matches) \in Handles /\ peer \in Peers
    BY <1>1, FoundHandle
  <2>3. subs[sub_count + 1].holder \in Peers \union {None}
    BY <1>1, <1>3, Bounds DEF Types, DiscTypeOK
  <2> QED
    BY <1>3, <2>1, <2>2, <2>3 DEF Slot
<1>5. subs' \in [1 .. MAX_REPORTS -> S] /\ sub_count' \in 0 .. MAX_REPORTS
  <2>1. subs \in [1 .. MAX_REPORTS -> S]
    BY DEF Types, DiscTypeOK
  <2>2. \A s \in S : [s EXCEPT !.holder = None] \in S
    OBVIOUS
  <2> HIDE DEF S
  <2>3. Cleared(cut) \in [1 .. MAX_REPORTS -> S]
    BY <2>1, <2>2 DEF Cleared
  <2>4. subs' \in [1 .. MAX_REPORTS -> S]
    BY <1>2, <1>4, <2>3
  <2> QED
    BY <1>1, <1>2, <1>3, <2>4, Bounds
<1>6. Moved(pending_idx + 1) /\ cur_report_id' \in Ids
  BY <1>2, <1>3, PendingMoves
<1>7. pending_idx' \in 0 .. MAX_REPORTS
  BY <1>1, <1>2, <1>3, Bounds
<1> QED
  BY <1>2, <1>5, <1>6, <1>7 DEF CccFound, connection, map, Moved, ReqType, Types, DiscTypeOK

LEMMA ReadTypes ==
    ASSUME Inv, Types, MapChunk \/ MapComplete \/ MapFailed \/ RefRead \/ RefFailed
    PROVE  Types'
<1>1. CASE MapChunk
  <2>1. req # NoReq
        /\ req = [op |-> req.op, want |-> req.want, from |-> req.from, to |-> req.to]
    BY <1>1 DEF MapChunk, Reading, NoReq, Inv, RequestShape
  <2>2. req' = [op |-> req.op, want |-> req.want, from |-> req.from + 1, to |-> req.to]
    BY <1>1, <2>1 DEF MapChunk
  <2>3. ReqType' /\ ~Reading("ref")'
    BY <1>1, <2>1, <2>2 DEF ReqType, Types, DiscTypeOK, Reading, MapChunk
  <2>4. rm_len' \in 0 .. RM_MAX
    BY <1>1, Bounds DEF MapChunk, Types, DiscTypeOK
  <2> QED
    BY <1>1, <2>3, <2>4
       DEF MapChunk, Types, DiscTypeOK, ReqType, connection, pending, wired
<1>2. CASE MapComplete
  <2>1. link = "secured" /\ peer \in Peers
    BY <1>2 DEF MapComplete, Types, DiscTypeOK
  <2>2. layout' \in [of : Peers \union {None}, report_id : Ids \union {NoPointer}]
    BY <1>2, <2>1, TablesAssumption DEF MapComplete, Parsed, NoLayout
  <2>3. layout_valid' \in BOOLEAN
    BY <1>2, RestTypes DEF MapComplete
  <2> QED
    BY <1>2, <2>2, <2>3, ReportsMove, MovedTypes, RestTypes DEF MapComplete
<1>3. CASE MapFailed
  <2>1. Broken \in Nat
    BY DEF Broken
  <2> QED
    BY <1>3, <2>1, ReportsMove, MovedTypes, RestTypes DEF MapFailed, map
<1>4. CASE RefRead \/ RefFailed
  <2>1. req.op = "read" /\ req.want = "ref" /\ req # NoReq
    BY <1>4 DEF RefRead, RefFailed, Reading, NoReq
  <2>2. Broken \in Nat
    BY DEF Broken
  <2>3. PICK k \in Nat : discover_ccc(pending_idx, k)
    BY <1>4, <2>2 DEF RefRead, RefFailed
  <2>4. CASE disc_state = "REPORT_REF"
    <3>1. pending_idx < Len(pending_reports) /\ pending_idx \in Nat
          /\ pending_idx <= Len(pending_reports)
      BY <2>4, RestTypes DEF Types, DiscTypeOK
    <3>2. Moved(pending_idx)
      BY <2>3, <3>1, CccMoves
    <3>3. cur_report_id' \in Ids
      <4>1. CASE RefRead
        <5>1. peer \in Peers /\ req.from \in DOMAIN DB[peer]
          BY <4>1 DEF RefRead, Types, DiscTypeOK
        <5>2. DB[peer][req.from] \in Attr
          BY <5>1, TablesAssumption
        <5> QED
          BY <4>1, <5>2 DEF RefRead, Attr
      <4>2. CASE RefFailed
        BY <4>2 DEF RefFailed, Ids
      <4> QED
        BY <1>4, <4>1, <4>2
    <3> QED
      BY <1>4, <3>1, <3>2, <3>3, MovedTypes, RestTypes DEF RefRead, RefFailed, map, wired
  <2>5. CASE link = "secured"
    <3>1. disc_state = "REPORT_REF"
      BY <2>1, <2>5 DEF Inv, AnswerFindsItsState, StateOf
    <3> QED
      BY <2>4, <3>1
  <2>6. CASE link # "secured"
    <3>1. /\ disc_state' = "IDLE" /\ req' = NoReq /\ UNCHANGED faults
          /\ cur_report_id' = 0
      BY <1>4, <2>6 DEF RefRead, RefFailed, discover_ccc, Starts, Fails, Fault
    <3>2. ReqType' /\ ~Reading("ref")' /\ 0 \in Ids
      BY <3>1 DEF ReqType, Reading, NoReq, Ids
    <3> QED
      BY <1>4, <3>1, <3>2
         DEF RefRead, RefFailed, Types, DiscTypeOK, ReqType, connection, map, wired, States
  <2> QED
    BY <2>5, <2>6
<1> QED
  BY <1>1, <1>2, <1>3, <1>4

LEMMA TypesInit == DiscInit => Types
<1> SUFFICES ASSUME DiscInit PROVE Types
  OBVIOUS
<1>1. EmptySlot \in [report_id : Ids, value_handle : Handles, ccc_handle : Handles, holder : Peers \union {None}]
  BY Handle DEF EmptySlot, Ids
<1>2. NoLayout \in [of : Peers \union {None}, report_id : Ids \union {NoPointer}]
  BY DEF NoLayout
<1>3. subs \in [1 .. MAX_REPORTS ->
        [report_id : Ids, value_handle : Handles, ccc_handle : Handles, holder : Peers \union {None}]]
  BY <1>1 DEF DiscInit
<1> QED
  <2>1. 0 \in Ids /\ 0 \in 0 .. MAX_REPORTS /\ 0 \in 0 .. MaxFaults /\ 0 \in 0 .. RM_MAX
        /\ 0 \in Handles
    BY Handle, Bounds DEF Ids
  <2>2. pending_reports \in Seq(Handles \ {0}) /\ Len(pending_reports) = 0
    BY DEF DiscInit
  <2>3. DiscTypeOK
    <3>1. Len(pending_reports) <= MAX_REPORTS
      BY <2>2, Bounds
    <3>4. layout_valid \in BOOLEAN
      BY DEF DiscInit
    <3>2. link = "down" /\ peer = None /\ disc_state \in States /\ req = NoReq
      BY DEF DiscInit, States
    <3>3. /\ pending_idx \in 0 .. MAX_REPORTS /\ sub_count \in 0 .. MAX_REPORTS
          /\ faults \in 0 .. MaxFaults /\ rm_len \in 0 .. RM_MAX
          /\ hids_end_handle \in Handles /\ cur_report_id \in Ids
      BY <2>1 DEF DiscInit
    <3> QED
      BY <1>2, <1>3, <2>2, <3>1, <3>2, <3>3, <3>4 DEF DiscInit, DiscTypeOK
  <2> QED
    BY <2>3 DEF DiscInit, Types

LEMMA TypesStep == Inv /\ Types /\ [DiscNext]_discVars => Types'
<1> SUFFICES ASSUME Inv, Types, [DiscNext]_discVars PROVE Types'
  OBVIOUS
<1>1. ASSUME NEW p \in Peers, Secured(p) PROVE Types'
  <2>1. ReqType' /\ ~Reading("ref")'
    BY <1>1, Handle DEF Secured, ReqType, Reading, NoReq, Discover
  <2>2. faults' \in 0 .. MaxFaults
    BY <1>1, Bounds DEF Secured
  <2> QED
    BY <1>1, <2>1, <2>2, Handle, PeersAssumption
       DEF Secured, Types, DiscTypeOK, ReqType, pending, wired, States
<1>2. CASE HidsFound \/ MapFound \/ ReportFound \/ RefFound
  BY <1>2, FoundTypes
<1>3. CASE CccFound
  BY <1>3, CccTypes
<1>4. CASE NothingFound
  <2>1. Broken \in Nat
    BY DEF Broken
  <2>2. PICK k \in Nat : PassEnds(k)
    BY <1>4, <2>1 DEF NothingFound
  <2> QED
    BY <1>4, <2>2, PassEndsTypes DEF NothingFound
<1>5. CASE MapChunk \/ MapComplete \/ MapFailed \/ RefRead \/ RefFailed
  BY <1>5, ReadTypes
<1>6. CASE Rejected \/ LinkLost \/ (\E p \in Peers : TornDown(p))
  <2>1. subs' \in [1 .. MAX_REPORTS ->
          [report_id : Ids, value_handle : Handles, ccc_handle : Handles, holder : Peers \union {None}]]
    <3> DEFINE S == [report_id : Ids, value_handle : Handles, ccc_handle : Handles,
                     holder : Peers \union {None}]
    <3>1. subs \in [1 .. MAX_REPORTS -> S]
      BY DEF Types, DiscTypeOK
    <3>2. \A s \in S : [s EXCEPT !.holder = None, !.value_handle = 0] \in S
      BY Handle
    <3> HIDE DEF S
    <3>3. \A i \in 1 .. MAX_REPORTS : subs'[i] \in {subs[i],
            [subs[i] EXCEPT !.holder = None, !.value_handle = 0]}
      BY <1>6, <3>1 DEF Rejected, LinkLost, TornDown, wired
    <3>4. subs' = [i \in 1 .. MAX_REPORTS |-> subs'[i]]
      BY <1>6, <3>1 DEF Rejected, LinkLost, TornDown, wired
    <3>5. \A i \in 1 .. MAX_REPORTS : subs'[i] \in S
      BY <3>1, <3>2, <3>3
    <3>6. subs' \in [1 .. MAX_REPORTS -> S]
      BY <3>4, <3>5
    <3> QED
      BY <3>6 DEF S
  <2>2. faults' \in 0 .. MaxFaults
    BY <1>6, FaultType DEF Rejected, LinkLost, TornDown, Types, DiscTypeOK
  <2>3. /\ UNCHANGED <<peer, disc_state, req, hids_end_handle, map, pending, sub_count>>
        /\ link' = link \/ (link = "secured" /\ link' = "lost")
    BY <1>6 DEF Rejected, LinkLost, TornDown, connection, wired
  <2> QED
    BY <2>1, <2>2, <2>3 DEF Types, DiscTypeOK, map, pending, Reading
<1>7. CASE Disconnected
  <2>1. 0 \in 0 .. MAX_REPORTS /\ 0 \in 0 .. MaxFaults /\ 0 \in 0 .. RM_MAX
    BY Bounds
  <2>2. pending_reports' \in Seq(Handles \ {0}) /\ Len(pending_reports') = 0
    BY <1>7 DEF Disconnected
  <2>3. DiscTypeOK'
    <3>1. Len(pending_reports') <= MAX_REPORTS
      BY <2>2, Bounds
    <3>5. layout_valid' \in BOOLEAN
      BY <1>7 DEF Disconnected
    <3>2. link' = "down" /\ peer' = None /\ disc_state' \in States
      BY <1>7 DEF Disconnected, States
    <3>3. /\ pending_idx' \in 0 .. MAX_REPORTS /\ sub_count' \in 0 .. MAX_REPORTS
          /\ faults' \in 0 .. MaxFaults /\ rm_len' \in 0 .. RM_MAX
      BY <1>7, <2>1 DEF Disconnected
    <3>4. UNCHANGED <<req, hids_end_handle, layout, cur_report_id, subs>>
      BY <1>7 DEF Disconnected
    <3> QED
      BY <2>2, <3>1, <3>2, <3>3, <3>4, <3>5 DEF Types, DiscTypeOK
  <2> QED
    BY <1>7, <2>3 DEF Disconnected, Types
<1>8. CASE UNCHANGED discVars
  BY <1>8 DEF discVars, connection, map, pending, wired, Types, DiscTypeOK, Reading
<1> QED
  BY <1>1, <1>2, <1>3, <1>4, <1>5, <1>6, <1>7, <1>8 DEF DiscNext, Respond

(* The tables of discovery stay within their bounds and every handle in them *)
(* is one of a peer's table, whatever is found and whatever fails.           *)
THEOREM TypesCorrect == DiscSpec => []DiscTypeOK
<1>1. Types => DiscTypeOK
  BY DEF Types
<1> QED
  BY <1>1, InitInv, StepInv, TypesInit, TypesStep, PTL DEF DiscSpec

-----------------------------------------------------------------------------
(* The slots.  The reports are found and subscribed in the order of their    *)
(* handles, so that no report is ahead whose handle a live slot has.         *)
Increasing ==
    \A k, l \in 1 .. Len(pending_reports) : k < l => pending_reports[k] < pending_reports[l]

NoneYet == {"HIDS_PRIMARY", "REPORT_MAP_CHRC", "REPORT_CHRC"}

SlotInv ==
    /\ Increasing
    /\ NoTwoAlike
    /\ link = "down" => sub_count = 0
    /\ link = "secured" =>
         /\ disc_state \in NoneYet => sub_count = 0
         /\ disc_state = "REPORT_CHRC" =>
              \A k \in 1 .. Len(pending_reports) : pending_reports[k] <= req.from
         /\ \A i \in Live : \A k \in pending_idx + 1 .. Len(pending_reports) :
              subs[i].value_handle < pending_reports[k]

LEMMA SlotTypes ==
    ASSUME Types
    PROVE  /\ DOMAIN subs = 1 .. MAX_REPORTS /\ MAX_REPORTS \in Nat
           /\ sub_count \in Nat /\ pending_idx \in Nat
           /\ \A i \in DOMAIN subs : subs[i].value_handle \in Nat
           /\ Live \subseteq 1 .. sub_count /\ Live \subseteq DOMAIN subs
           /\ pending_reports \in Seq(Nat)
<1>1. pending_reports \in Seq(Nat)
  <2>1. pending_reports \in Seq(Handles \ {0})
    BY DEF Types, DiscTypeOK
  <2>2. Handles \ {0} \subseteq Nat
    BY Handle
  <2> QED
    BY <2>1, <2>2, SeqMonotonic
<1>2. \A i \in 1 .. MAX_REPORTS : subs[i].value_handle \in Handles
  BY DEF Types, DiscTypeOK
<1>3. \A i \in 1 .. MAX_REPORTS : subs[i].value_handle \in Nat
  BY <1>2, Handle
<1>4. sub_count \in 0 .. MAX_REPORTS /\ DOMAIN subs = 1 .. MAX_REPORTS
  BY DEF Types, DiscTypeOK
<1>5. Live \subseteq 1 .. sub_count /\ 1 .. sub_count \subseteq DOMAIN subs
  BY <1>4, Bounds DEF Live
<1> QED
  BY <1>1, <1>2, <1>3, <1>4, <1>5, Bounds DEF Types, DiscTypeOK

(* What is live is of the slots, their count and the peer. *)
LEMMA LiveSame ==
    ASSUME UNCHANGED <<subs, sub_count, peer>> PROVE Live' = Live
BY DEF Live

LEMMA NoneLive ==
    /\ sub_count = 0 => Live = {}
    /\ sub_count' = 0 => Live' = {}
BY DEF Live

LEMMA LiveShrinks ==
    ASSUME UNCHANGED <<subs, peer>>, sub_count' \in {sub_count, 0} PROVE Live' \subseteq Live
BY LiveSame, NoneLive

(* The host lets go of slots: fewer are live, each as it was. *)
LEMMA LiveFewer ==
    ASSUME Types, SlotInv, Rejected \/ \E p \in Peers : TornDown(p)
    PROVE  /\ \A i \in Live' : i \in Live /\ subs'[i] = subs[i]
           /\ UNCHANGED <<connection, disc_state, req, hids_end_handle, map, pending, sub_count>>
<1>1. UNCHANGED <<connection, disc_state, req, hids_end_handle, map, pending, sub_count>>
  BY DEF Rejected, TornDown
<1>2. peer' = peer /\ sub_count' = sub_count /\ Live \subseteq DOMAIN subs
  BY <1>1, SlotTypes DEF connection
<1>3. \A i \in DOMAIN subs : subs'[i] = subs[i] \/ subs'[i].holder = None
  <2>1. \A i \in DOMAIN subs :
          [subs[i] EXCEPT !.holder = None, !.value_handle = 0].holder = None
    BY DEF Types, DiscTypeOK
  <2>2. \A i \in DOMAIN subs : subs'[i] \in {subs[i],
          [subs[i] EXCEPT !.holder = None, !.value_handle = 0]}
    BY DEF Rejected, TornDown, Types, DiscTypeOK
  <2> QED
    BY <2>1, <2>2
<1>4. \A i \in Live' : i \in 1 .. sub_count /\ subs'[i].holder = peer
  BY <1>2 DEF Live
<1>5. 1 .. sub_count \subseteq DOMAIN subs
  <2>1. sub_count \in 0 .. MAX_REPORTS /\ DOMAIN subs = 1 .. MAX_REPORTS
    BY DEF Types, DiscTypeOK
  <2> QED
    BY <2>1, Bounds
<1>6. peer # None \/ Live' = {}
  BY <1>1, NoneLive DEF SlotInv, Types, DiscTypeOK
<1> QED
  BY <1>1, <1>2, <1>3, <1>4, <1>5, <1>6 DEF Live

LEMMA Later ==
    ASSUME NEW a \in Nat, NEW b \in Nat, NEW n \in Nat, a <= b
    PROVE  \A k \in b + 1 .. n : k \in a + 1 .. n
OBVIOUS

(* A handler that moves on, or back with no slot live, and takes none. *)
LEMMA SlotsMoved ==
    ASSUME Types, SlotInv, UNCHANGED <<subs, sub_count, pending_reports, connection>>,
           disc_state' \notin NoneYet \/ link # "secured",
           pending_idx' \in Nat, pending_idx <= pending_idx' \/ Live = {}
    PROVE  SlotInv'
<1>1. Live' = Live /\ pending_idx \in Nat /\ link' = link
  BY SlotTypes, LiveSame DEF connection
<1>2. Increasing' /\ NoTwoAlike'
  BY <1>1 DEF SlotInv, Increasing, NoTwoAlike
<1>3. CASE link # "secured"
  BY <1>1, <1>2, <1>3 DEF SlotInv
<1>4. CASE link = "secured"
  <2>1. disc_state' # "REPORT_CHRC" /\ disc_state' \notin NoneYet
    BY <1>4 DEF NoneYet
  <2>2. \A i \in Live : \A k \in pending_idx' + 1 .. Len(pending_reports) :
          subs[i].value_handle < pending_reports[k]
    <3>1. Len(pending_reports) \in Nat
      BY SlotTypes
    <3>2. CASE Live = {}
      BY <3>2
    <3>3. CASE pending_idx <= pending_idx'
      <4>1. \A k \in pending_idx' + 1 .. Len(pending_reports) :
              k \in pending_idx + 1 .. Len(pending_reports)
        BY <1>1, <3>1, <3>3, Later
      <4> QED
        BY <1>4, <4>1 DEF SlotInv
    <3> QED
      BY <3>2, <3>3
  <2> QED
    BY <1>1, <1>2, <1>4, <2>1, <2>2 DEF SlotInv
<1> QED
  BY <1>3, <1>4

(* Nothing is counted and nothing found: as the search for reports begins,   *)
(* and when the link is gone.                                                *)
LEMMA SlotsReset ==
    ASSUME sub_count' = 0, pending_reports' = <<>>
    PROVE  SlotInv'
<1>1. Live' = {}
  BY NoneLive
<1>2. NoTwoAlike'
  BY <1>1 DEF NoTwoAlike
<1>3. Increasing' /\ 1 .. Len(pending_reports') = {}
  BY DEF Increasing
<1> QED
  BY <1>1, <1>2, <1>3 DEF SlotInv

LEMMA PendingState ==
    ASSUME NEW n, NEW k, subscribe_pending(n, k) PROVE disc_state' \notin NoneYet
BY DEF subscribe_pending, discover_ccc, NoneYet

LEMMA SlotsPassEnds ==
    ASSUME Inv, Types, SlotInv, NEW k \in Nat, PassEnds(k), req # NoReq,
           UNCHANGED <<connection, hids_end_handle, map>>
    PROVE  SlotInv'
<1>0. UNCHANGED <<link, peer>> /\ pending_idx \in Nat
  BY SlotTypes DEF connection
<1>1. CASE disc_state = "REPORT_MAP_CHRC" /\ start_report_discovery(k)
  BY <1>1, ReportsMove, SlotsReset
<1>2. CASE disc_state = "REPORT_CHRC" /\ disc_state' = "IDLE" /\ UNCHANGED <<pending, wired>>
  BY <1>0, <1>2, SlotsMoved DEF pending, wired, NoneYet
<1>3. CASE /\ disc_state = "REPORT_CHRC" /\ pending_idx' = 0 /\ subscribe_pending(0, k)
           /\ UNCHANGED <<pending_reports, wired>>
  <2>1. CASE link = "secured"
    <3>1. Live = {}
      BY <1>3, <2>1, NoneLive DEF SlotInv, NoneYet
    <3> QED
      BY <1>0, <1>3, <3>1, SlotsMoved, PendingState DEF wired
  <2>2. CASE link # "secured"
    <3>1. Live' = Live
      BY <1>0, <1>3, LiveSame DEF wired
    <3> QED
      BY <1>0, <1>3, <2>2, <3>1 DEF SlotInv, Increasing, NoTwoAlike, wired
  <2> QED
    BY <2>1, <2>2
<1>4. CASE disc_state = "REPORT_REF" /\ discover_ccc(pending_idx, k) /\ UNCHANGED <<pending, wired>>
  <2>1. disc_state' \notin NoneYet
    BY <1>4 DEF discover_ccc, NoneYet
  <2> QED
    BY <1>0, <1>4, <2>1, SlotsMoved DEF pending, wired
<1>5. CASE /\ disc_state = "CCC" /\ pending_idx' = pending_idx + 1
           /\ subscribe_pending(pending_idx + 1, k) /\ UNCHANGED <<pending_reports, wired>>
  <2>1. pending_idx' \in Nat /\ pending_idx <= pending_idx'
    BY <1>0, <1>5
  <2> QED
    BY <1>0, <1>5, <2>1, SlotsMoved, PendingState DEF wired
<1>6. CASE /\ disc_state \in {"HIDS_PRIMARY", "IDLE"} /\ UNCHANGED <<disc_state, pending, wired>>
  <2>1. Live' = Live
    BY <1>0, <1>6, LiveSame DEF wired
  <2> QED
    BY <1>0, <1>6, <2>1 DEF SlotInv, Increasing, NoTwoAlike, pending, wired, NoneYet
<1> QED
  BY <1>1, <1>2, <1>3, <1>4, <1>5, <1>6 DEF PassEnds

(* A report is put last, behind all that were found before it. *)
LEMMA SlotsReport ==
    ASSUME Inv, Types, SlotInv, ReportFound PROVE SlotInv'
<1>1. /\ Found("REPORT_CHRC") /\ link = "secured" /\ req # NoReq
      /\ req = [op |-> req.op, want |-> req.want, from |-> req.from, to |-> req.to]
      /\ disc_state = "REPORT_CHRC" /\ disc_state' = disc_state
      /\ UNCHANGED <<link, subs, sub_count, pending_idx>>
  BY DEF ReportFound, Found, NoReq, Inv, RequestShape, connection, wired
<1>2. req'.from = Min(Matches) + 1
  BY <1>1 DEF ReportFound
<1>3. sub_count = 0 /\ Live' = {}
  BY <1>1, NoneLive DEF SlotInv, NoneYet
<1>4. Min(Matches) \in Nat /\ req.from <= Min(Matches) /\ req.from \in Nat
  BY <1>1, FoundHandle DEF Types, DiscTypeOK
<1> DEFINE P == pending_reports
           h == Min(Matches) + 1
<1>5. P \in Seq(Nat) /\ \A k \in 1 .. Len(P) : P[k] <= req.from
  BY <1>1, SlotTypes DEF SlotInv
<1>6. h \in Nat /\ \A k \in 1 .. Len(P) : P[k] < h /\ P[k] \in Nat
  BY <1>4, <1>5
<1>7. P' = P \/ P' = Append(P, h)
  BY DEF ReportFound, Collected
<1>8. \A k, l \in 1 .. Len(P) : k < l => P[k] < P[l]
  BY DEF SlotInv, Increasing
<1>9. Increasing'
  <2> HIDE DEF h
  <2>1. CASE P' = P
    BY <1>8, <2>1 DEF Increasing
  <2>2. CASE P' = Append(P, h)
    <3>1. Len(P') = Len(P) + 1 /\ P'[Len(P) + 1] = h /\ \A k \in 1 .. Len(P) : P'[k] = P[k]
      BY <1>5, <1>6, <2>2
    <3> DEFINE Q == P'
    <3> HIDE DEF P, Q
    <3>2. \A k, l \in 1 .. Len(Q) : k < l => Q[k] < Q[l]
      BY <1>5, <1>6, <1>8, <3>1 DEF Q
    <3> QED
      BY <3>2 DEF Increasing, Q, P
  <2> QED
    BY <1>7, <2>1, <2>2
<1>10. \A k \in 1 .. Len(P') : P'[k] <= h
  <2> HIDE DEF h
  <2> QED
    BY <1>5, <1>6, <1>7
<1>11. NoTwoAlike'
  BY <1>3 DEF NoTwoAlike
<1> QED
  BY <1>1, <1>2, <1>3, <1>9, <1>10, <1>11 DEF SlotInv

(* A subscription takes the slot after the last that is counted.  The others *)
(* that are still live are as they were.                                     *)
LEMMA SlotWritten ==
    ASSUME Types, CccFound
    PROVE  LET n == sub_count + 1 IN
           /\ Live' \subseteq Live \union {n} /\ n \notin Live
           /\ n \in Live' =>
                /\ subs'[n].value_handle = Slot(Min(Matches), TRUE).value_handle
                /\ subs'[n].ccc_handle = Slot(Min(Matches), TRUE).ccc_handle
                /\ subs'[n].report_id = Slot(Min(Matches), TRUE).report_id
           /\ \A i \in Live' \ {n} : subs'[i] = subs[i]
<1> DEFINE n == sub_count + 1
<1>1. PICK ok \in BOOLEAN, cut \in SUBSET Neighbours(n) :
        /\ subs' = [Cleared(cut) EXCEPT ![n] = Slot(Min(Matches), ok)]
        /\ sub_count' = IF ok THEN n ELSE sub_count
  BY DEF CccFound
<1>2. /\ sub_count \in Nat /\ n \in DOMAIN subs /\ peer \in Peers /\ peer' = peer
      /\ Live \subseteq 1 .. sub_count /\ 1 .. sub_count \subseteq DOMAIN subs
      /\ sub_count < MAX_REPORTS /\ MAX_REPORTS \in Nat
      /\ DOMAIN subs = 1 .. MAX_REPORTS
  BY SlotTypes, FoundHandle DEF CccFound, connection
<1>3. subs'[n] = Slot(Min(Matches), ok)
  BY <1>1, <1>2 DEF Cleared
<1>4. \A i \in DOMAIN subs \ {n} :
        subs'[i] = subs[i] \/ subs'[i] = [subs[i] EXCEPT !.holder = None]
  BY <1>1, <1>2 DEF Cleared
<1>5. \A i \in DOMAIN subs : [subs[i] EXCEPT !.holder = None].holder = None
  BY DEF Types, DiscTypeOK
<1>6. Live' \subseteq 1 .. n
  BY <1>1, <1>2 DEF Live
<1>7. ASSUME NEW i \in Live', i # n PROVE i \in Live /\ subs'[i] = subs[i]
  <2>1. i \in 1 .. sub_count /\ subs'[i].holder = peer
    BY <1>2, <1>6, <1>7 DEF Live
  <2>2. i \in DOMAIN subs \ {n} /\ peer # None
    BY <1>2, <1>7, <2>1, PeersAssumption
  <2>3. subs'[i] = subs[i]
    BY <1>4, <1>5, <2>1, <2>2
  <2> QED
    BY <2>1, <2>3 DEF Live
<1>8. n \notin Live
  BY <1>2
<1>9. /\ subs'[n].value_handle = Slot(Min(Matches), TRUE).value_handle
      /\ subs'[n].ccc_handle = Slot(Min(Matches), TRUE).ccc_handle
      /\ subs'[n].report_id = Slot(Min(Matches), TRUE).report_id
  BY <1>3 DEF Slot
<1> QED
  BY <1>7, <1>8, <1>9

LEMMA SlotsCcc ==
    ASSUME Inv, Types, SlotInv, CccFound PROVE SlotInv'
<1>1. link = "secured" /\ link' = link /\ sub_count < MAX_REPORTS
      /\ pending_idx < Len(pending_reports) /\ UNCHANGED pending_reports
  BY DEF CccFound, Found, Types, connection
<1> DEFINE n == sub_count + 1
           v == pending_reports[pending_idx + 1]
<1>2. /\ pending_idx' = pending_idx + 1
      /\ \E k \in Nat : subscribe_pending(pending_idx + 1, k)
  BY DEF CccFound
<1>3. /\ DOMAIN subs = 1 .. MAX_REPORTS /\ sub_count \in Nat /\ pending_idx \in Nat
      /\ pending_reports \in Seq(Nat) /\ n \in DOMAIN subs
  BY <1>1, SlotTypes
<1>5. /\ Live' \subseteq Live \union {n}
      /\ n \in Live' => subs'[n].value_handle = v
      /\ \A i \in Live' \ {n} : subs'[i].value_handle = subs[i].value_handle
  BY SlotWritten DEF Slot
<1>6. \A i \in Live : i # n /\ i \in DOMAIN subs /\ subs[i].value_handle < v
  <2>1. pending_idx + 1 \in pending_idx + 1 .. Len(pending_reports)
    BY <1>1, <1>3
  <2> QED
    BY <1>1, <1>3, <2>1, SlotTypes DEF SlotInv
<1>8. disc_state' \notin NoneYet
  BY <1>2, PendingState
<1>9. v \in Nat /\ \A i \in Live : subs[i].value_handle \in Nat
  BY <1>1, <1>3, <1>6, SlotTypes
<1> HIDE DEF n, v
<1>10. NoTwoAlike'
  BY <1>5, <1>6, <1>9 DEF SlotInv, NoTwoAlike
<1>12. Increasing'
  BY <1>1 DEF SlotInv, Increasing
<1>13. \A i \in Live' : \A k \in pending_idx' + 1 .. Len(pending_reports') :
         subs'[i].value_handle < pending_reports'[k]
  <2>1. ASSUME NEW k \in pending_idx' + 1 .. Len(pending_reports) PROVE v < pending_reports[k]
    <3>1. pending_idx + 1 \in 1 .. Len(pending_reports) /\ k \in 1 .. Len(pending_reports)
          /\ pending_idx + 1 < k
      BY <1>1, <1>2, <1>3, <2>1
    <3> QED
      BY <3>1 DEF v, SlotInv, Increasing
  <2>2. \A i \in Live : \A k \in pending_idx' + 1 .. Len(pending_reports) :
          subs[i].value_handle < pending_reports[k]
    <3>1. \A k \in pending_idx' + 1 .. Len(pending_reports) :
            k \in pending_idx + 1 .. Len(pending_reports)
      BY <1>2, <1>3
    <3> QED
      BY <1>1, <3>1 DEF SlotInv
  <2> QED
    BY <1>1, <1>5, <2>1, <2>2
<1> QED
  BY <1>1, <1>8, <1>10, <1>12, <1>13 DEF SlotInv, NoneYet

(* No slot is counted: only the order of the reports is left. *)
LEMMA SlotsBare ==
    ASSUME SlotInv, UNCHANGED pending_reports,
           sub_count' = 0, link' = "secured" => disc_state' # "REPORT_CHRC"
    PROVE  SlotInv'
<1>1. Increasing'
  BY DEF SlotInv, Increasing
<1>2. Live' = {}
  BY NoneLive
<1>3. NoTwoAlike'
  BY <1>2 DEF NoTwoAlike
<1> QED
  BY <1>1, <1>2, <1>3 DEF SlotInv

LEMMA SlotsInit == DiscInit => SlotInv
<1> SUFFICES ASSUME DiscInit PROVE SlotInv
  OBVIOUS
<1>1. Live = {}
  BY NoneLive DEF DiscInit
<1>2. Increasing
  BY DEF DiscInit, Increasing
<1> QED
  BY <1>1, <1>2 DEF DiscInit, SlotInv, NoTwoAlike

LEMMA SlotsFound ==
    ASSUME Inv, Types, SlotInv, HidsFound \/ MapFound \/ RefFound PROVE SlotInv'
<1>1. CASE HidsFound
  <2>1. sub_count' = 0
    BY <1>1 DEF HidsFound, Found, SlotInv, NoneYet, wired
  <2>2. disc_state' # "REPORT_CHRC" /\ UNCHANGED pending_reports
    BY <1>1 DEF HidsFound, pending, wired
  <2> QED
    BY <2>1, <2>2, SlotsBare
<1>2. CASE MapFound
  <2>1. disc_state = "REPORT_MAP_CHRC" /\ sub_count = 0
    BY <1>2 DEF MapFound, Found, SlotInv, NoneYet
  <2>2. CASE start_report_discovery(1)
    BY <2>2, ReportsMove, SlotsReset
  <2>3. CASE UNCHANGED <<disc_state, pending, wired>>
    <3>1. sub_count' = 0 /\ UNCHANGED pending_reports /\ disc_state' # "REPORT_CHRC"
      BY <2>1, <2>3 DEF pending, wired
    <3> QED
      BY <3>1, SlotsBare
  <2> QED
    BY <1>2, <2>2, <2>3 DEF MapFound
<1>3. CASE RefFound
  <2>1. disc_state' \notin NoneYet
    BY <1>3 DEF RefFound, Found, discover_ccc, NoneYet
  <2>2. UNCHANGED <<subs, sub_count, pending_reports, connection, pending_idx>> /\ pending_idx \in Nat
    BY <1>3, SlotTypes DEF RefFound, wired
  <2> QED
    BY <2>1, <2>2, SlotsMoved
<1> QED
  BY <1>1, <1>2, <1>3

LEMMA SlotsRead ==
    ASSUME Inv, Types, SlotInv,
           MapChunk \/ MapComplete \/ MapFailed \/ RefRead \/ RefFailed
    PROVE  SlotInv'
<1>1. CASE MapChunk
  <2>1. link = "secured" /\ disc_state = "REPORT_MAP_CHRC"
    BY <1>1 DEF MapChunk, Reading, Inv, AnswerFindsItsState, StateOf, NoReq
  <2>2. sub_count' = 0
    BY <1>1, <2>1 DEF MapChunk, SlotInv, NoneYet, wired
  <2>3. UNCHANGED pending_reports /\ disc_state' # "REPORT_CHRC"
    BY <1>1, <2>1 DEF MapChunk, pending, wired
  <2> QED
    BY <2>2, <2>3, SlotsBare
<1>2. CASE MapComplete \/ MapFailed
  <2>1. PICK k \in Nat : start_report_discovery(k)
    BY <1>2 DEF MapComplete, MapFailed, Broken
  <2> QED
    BY <2>1, ReportsMove, SlotsReset
<1>3. CASE RefRead \/ RefFailed
  <2>1. disc_state' \notin NoneYet
    BY <1>3 DEF RefRead, RefFailed, discover_ccc, NoneYet
  <2>2. UNCHANGED <<subs, sub_count, pending_reports, connection, pending_idx>> /\ pending_idx \in Nat
    BY <1>3, SlotTypes DEF RefRead, RefFailed, wired
  <2> QED
    BY <2>1, <2>2, SlotsMoved
<1> QED
  BY <1>1, <1>2, <1>3

(* Fewer live slots, each as it was. *)
LEMMA SlotsFewer ==
    ASSUME Types, SlotInv, Rejected \/ \E p \in Peers : TornDown(p) PROVE SlotInv'
<1>1. \A i \in Live' : i \in Live /\ subs'[i] = subs[i]
  BY LiveFewer
<1>2. UNCHANGED <<link, disc_state, req, sub_count, pending_reports, pending_idx>>
  BY LiveFewer DEF connection, pending
<1> QED
  BY <1>1, <1>2 DEF SlotInv, Increasing, NoTwoAlike, NoneYet

LEMMA SlotsStep == Inv /\ Types /\ SlotInv /\ [DiscNext]_discVars => SlotInv'
<1> SUFFICES ASSUME Inv, Types, SlotInv, [DiscNext]_discVars PROVE SlotInv'
  OBVIOUS
<1>1. ASSUME NEW p \in Peers, Secured(p) PROVE SlotInv'
  <2>1. sub_count' = 0 /\ UNCHANGED pending_reports /\ disc_state' # "REPORT_CHRC"
    BY <1>1 DEF Secured, SlotInv, pending, wired
  <2> QED
    BY <2>1, SlotsBare
<1>2. CASE HidsFound \/ MapFound \/ RefFound
  BY <1>2, SlotsFound
<1>3. CASE ReportFound
  BY <1>3, SlotsReport
<1>4. CASE CccFound
  BY <1>4, SlotsCcc
<1>5. CASE NothingFound
  <2>1. PICK k \in Nat : PassEnds(k)
    BY <1>5 DEF NothingFound, Broken
  <2>2. req # NoReq
    BY <1>5 DEF NothingFound, NoReq
  <2> QED
    BY <1>5, <2>1, <2>2, SlotsPassEnds DEF NothingFound
<1>6. CASE MapChunk \/ MapComplete \/ MapFailed \/ RefRead \/ RefFailed
  BY <1>6, SlotsRead
<1>7. CASE Rejected \/ \E p \in Peers : TornDown(p)
  BY <1>7, SlotsFewer
<1>8. CASE LinkLost
  <2>1. Live' = Live /\ link' = "lost" /\ UNCHANGED pending_reports
    BY <1>8, LiveSame DEF LinkLost, pending, wired
  <2> QED
    BY <1>8, <2>1 DEF SlotInv, Increasing, NoTwoAlike, LinkLost, wired
<1>9. CASE Disconnected
  BY <1>9, SlotsReset DEF Disconnected
<1>10. CASE UNCHANGED discVars
  <2>1. Live' = Live
    BY <1>10, LiveSame DEF discVars, connection, wired
  <2> QED
    BY <1>10, <2>1 DEF discVars, connection, pending, wired, SlotInv, Increasing, NoTwoAlike,
                       NoneYet
<1> QED
  BY <1>1, <1>2, <1>3, <1>4, <1>5, <1>6, <1>7, <1>8, <1>9, <1>10 DEF DiscNext, Respond

LEMMA SlotsInvariant == DiscSpec => [](Inv /\ Types /\ SlotInv)
BY InitInv, StepInv, TypesInit, TypesStep, SlotsInit, SlotsStep, PTL DEF DiscSpec

(* No report has two live slots, however subscriptions fail, whatever slots  *)
(* the host keeps from earlier links and whichever of them are used again:   *)
(* the first half of SlotsSound.                                             *)
THEOREM SlotsCorrect == DiscSpec => []NoTwoAlike
<1>1. SlotInv => NoTwoAlike
  BY DEF SlotInv
<1> QED
  BY <1>1, SlotsInvariant, PTL

(* The layout is written at most once on a link, while nothing of this link  *)
(* is subscribed to: before any notification of it can flow.                 *)
THEOREM LayoutFirst == DiscSpec => LayoutBeforeSubscriptions
<1>1. Inv /\ SlotInv /\ [DiscNext]_discVars
        => [layout' # layout => sub_count = 0 /\ ~layout_valid]_discVars
  <2> SUFFICES ASSUME Inv, SlotInv, DiscNext, layout' # layout
               PROVE  sub_count = 0 /\ ~layout_valid
    BY DEF discVars, map
  <2>1. MapComplete
    BY DEF DiscNext, Respond, Secured, HidsFound, MapFound, ReportFound, RefFound, CccFound,
           NothingFound, MapChunk, MapFailed, RefRead, RefFailed, Rejected, LinkLost,
           TornDown, Disconnected, map
  <2>2. link = "secured" /\ disc_state = "REPORT_MAP_CHRC"
    BY <2>1 DEF MapComplete, Reading, Inv, AnswerFindsItsState, StateOf, NoReq
  <2>3. ~layout_valid
    BY <2>1 DEF MapComplete, Reading, Inv, NoLayoutYet
  <2> QED
    BY <2>2, <2>3 DEF SlotInv, NoneYet
<1> QED
  BY <1>1, SlotsInvariant, PTL DEF DiscSpec, LayoutBeforeSubscriptions

-----------------------------------------------------------------------------
(* The wiring.  The search for a descriptor of a report covers all of the    *)
(* report's own, and its own come first in it: what is found is the report's *)
(* own, if it has one.                                                       *)
IdRight(p, v, id) == OwnIds(p, v) # {} => id \in {0} \union OwnIds(p, v)

Right(p, s) ==
    /\ s.value_handle \in Notifiable(p)
    /\ Own(p, s.value_handle, "ccc") # {} => s.ccc_handle \in Own(p, s.value_handle, "ccc")
    /\ IdRight(p, s.value_handle, s.report_id)

Asked ==
    LET own == Own(peer, pending_reports[pending_idx + 1], "ref") IN
    \/ \E want \in {"ref", "ccc"} : req = Descriptor(want, pending_idx)
    \/ /\ req.op = "read"
       /\ own # {} => req.from \in own

AllNotify(p, s) == \A k \in 1 .. Len(s) : s[k] \in Notifiable(p)

Wiring ==
    /\ disc_state # "HIDS_PRIMARY" => hids_end_handle = Len(DB[peer])
    /\ AllNotify(peer, pending_reports)
    /\ \A i \in Live : Right(peer, subs[i])
    /\ disc_state \in {"REPORT_REF", "CCC"} =>
         /\ req # NoReq => Asked
         /\ IdRight(peer, pending_reports[pending_idx + 1], cur_report_id)

WireInv ==
    /\ link = "down" => pending_reports = <<>>
    /\ link = "secured" => Wiring

LEMMA NotifyHandle ==
    ASSUME NEW p \in Peers, NEW v \in Notifiable(p)
    PROVE  v \in Nat /\ v - 1 \in Nat /\ v <= Len(DB[p]) /\ DB[p][v].type = "value"
           /\ DB[p][v - 1].type = "report" /\ DB[p][v - 1].notify
<1>1. v \in DOMAIN DB[p] /\ v > 1
  BY DEF Notifiable
<1>2. v \in 1 .. Len(DB[p]) /\ Len(DB[p]) \in Nat
  BY <1>1, TablesAssumption
<1> QED
  BY <1>1, <1>2 DEF Notifiable

LEMMA DeclaredNotifies ==
    ASSUME NEW p \in Peers, NEW h \in DOMAIN DB[p], DB[p][h].type = "report", DB[p][h].notify
    PROVE  h + 1 \in Notifiable(p)
<1>1. h \in 1 .. Len(DB[p]) /\ h + 1 \in DOMAIN DB[p] /\ DB[p][h + 1].type = "value"
  BY TablesAssumption
<1>2. h + 1 > 1 /\ (h + 1) - 1 = h
  BY <1>1
<1> QED
  BY <1>1, <1>2 DEF Notifiable

(* A report's own descriptors come before the declaration of the next. *)
LEMMA OwnBefore ==
    ASSUME NEW p \in Peers, NEW v \in Notifiable(p), NEW w \in Notifiable(p), v < w,
           NEW type, NEW d \in Own(p, v, type)
    PROVE  d <= w - 1
<1>1. d \in v + 1 .. Len(DB[p])
      /\ \A e \in v + 1 .. d : DB[p][e].type \notin {"map", "report", "other"}
  BY DEF Own
<1>2. v \in Nat /\ w - 1 \in Nat /\ w \in Nat /\ w - 1 # v /\ DB[p][w - 1].type = "report"
  BY NotifyHandle
<1>3. d \in Int
  BY <1>1, <1>2
<1>4. w - 1 \in v + 1 .. d => FALSE
  BY <1>1, <1>2
<1> QED
  BY <1>2, <1>3, <1>4

(* The first match from behind a report's value on is the report's own, if   *)
(* it has one in the range.                                                  *)
LEMMA FirstIsOwn ==
    ASSUME NEW p \in Peers, NEW v \in Notifiable(p), NEW type, NEW to,
           Own(p, v, type) # {}, \A d \in Own(p, v, type) : d <= to,
           NEW m \in DOMAIN DB[p], m \in v + 1 .. to, DB[p][m].type = type,
           \A x \in v + 1 .. to : x \in DOMAIN DB[p] /\ DB[p][x].type = type => m <= x
    PROVE  m \in Own(p, v, type)
<1>1. PICK d : d \in Own(p, v, type)
  OBVIOUS
<1>2. d \in v + 1 .. Len(DB[p]) /\ DB[p][d].type = type
      /\ \A e \in v + 1 .. d : DB[p][e].type \notin {"map", "report", "other"}
  BY <1>1 DEF Own
<1>3. v \in Nat /\ d \in 1 .. Len(DB[p]) /\ DOMAIN DB[p] = 1 .. Len(DB[p]) /\ d <= to
  BY <1>1, <1>2, NotifyHandle, TablesAssumption
<1>4. d \in v + 1 .. to
  BY <1>2, <1>3
<1>5. m <= d
  BY <1>2, <1>3, <1>4
<1>6. m \in v + 1 .. Len(DB[p]) /\ \A e \in v + 1 .. m : e \in v + 1 .. d
  BY <1>3, <1>5
<1> QED
  BY <1>2, <1>6 DEF Own

(* The descriptor that the current search is for. *)
Sought == IF disc_state = "CCC" THEN "ccc" ELSE "ref"

(* A search for a descriptor of the current report has all of its own within *)
(* range.                                                                    *)
LEMMA OwnMatches ==
    ASSUME Inv, Types, SlotInv, WireInv, link = "secured",
           disc_state \in {"REPORT_REF", "CCC"}, req.op = "discover"
    PROVE  LET v == pending_reports[pending_idx + 1] IN
           /\ v \in Notifiable(peer)
           /\ req.want = Sought /\ req.from = v + 1
           /\ \A d \in Own(peer, v, Sought) : d <= req.to /\ d \in Matches
           /\ Own(peer, v, Sought) \subseteq Nat
<1> DEFINE n == pending_idx
           v == pending_reports[n + 1]
<1>1. req # NoReq /\ peer \in Peers
  BY DEF NoReq, Types, DiscTypeOK
<1>2. req.want = Sought
  <2>1. disc_state = StateOf(req.want) /\ req.want \in {"service", "map", "report", "ref", "ccc"}
    BY <1>1 DEF Inv, AnswerFindsItsState, RequestShape
  <2> QED
    BY <2>1 DEF StateOf, Sought
<1>3. req = Descriptor(req.want, n)
  BY <1>1 DEF WireInv, Wiring, Asked, Descriptor, Discover
<1>4. req.from = v + 1 /\ req.to = report_end(n)
  BY <1>3 DEF Descriptor, Discover
<1>5. n \in Nat /\ pending_reports \in Seq(Nat) /\ n < Len(pending_reports)
  BY SlotTypes DEF Types
<1>6. n + 1 \in 1 .. Len(pending_reports)
  BY <1>5
<1>7. v \in Notifiable(peer)
  BY <1>6 DEF WireInv, Wiring, AllNotify
<1>8. v \in Nat /\ Len(DB[peer]) \in Nat /\ DOMAIN DB[peer] = 1 .. Len(DB[peer])
  BY <1>1, <1>7, NotifyHandle, TablesAssumption
<1>9. \A d \in Own(peer, v, Sought) : d <= req.to
  <2>1. CASE n + 1 < Len(pending_reports)
    <3>1. n + 2 \in 1 .. Len(pending_reports) /\ n + 1 < n + 2
      BY <1>5, <2>1
    <3>2. pending_reports[n + 2] \in Notifiable(peer) /\ v < pending_reports[n + 2]
      BY <1>6, <3>1 DEF WireInv, Wiring, AllNotify, SlotInv, Increasing
    <3>3. req.to = pending_reports[n + 2] - 1
      BY <1>4, <2>1 DEF report_end
    <3> HIDE DEF v, n
    <3> QED
      BY <1>1, <1>7, <3>2, <3>3, OwnBefore
  <2>2. CASE ~(n + 1 < Len(pending_reports))
    <3>1. req.to = Len(DB[peer])
      BY <1>4, <2>2 DEF report_end, WireInv, Wiring
    <3> QED
      BY <1>8, <3>1 DEF Own
  <2> QED
    BY <2>1, <2>2
<1>10. req.to \in Nat
  BY <1>1, Handle DEF Types, DiscTypeOK
<1>11. \A d \in Own(peer, v, Sought) :
          d \in v + 1 .. Len(DB[peer]) /\ DB[peer][d].type = Sought
  BY DEF Own
<1>12. \A d \in Own(peer, v, Sought) : d \in Nat /\ d \in req.from .. req.to /\ d \in DOMAIN DB[peer]
  BY <1>4, <1>8, <1>9, <1>10, <1>11
<1>13. \A d \in Own(peer, v, Sought) : d \in Matches
  BY <1>2, <1>11, <1>12 DEF Matches
<1> QED
  BY <1>2, <1>4, <1>7, <1>9, <1>12, <1>13

(* What it finds is its own, if it has one. *)
LEMMA DescriptorIsOwn ==
    ASSUME Inv, Types, SlotInv, WireInv, link = "secured",
           disc_state \in {"REPORT_REF", "CCC"}, Found(disc_state)
    PROVE  /\ pending_reports[pending_idx + 1] \in Notifiable(peer)
           /\ LET own == Own(peer, pending_reports[pending_idx + 1], Sought) IN
              own # {} => Min(Matches) \in own
<1> DEFINE v == pending_reports[pending_idx + 1]
           m == Min(Matches)
<1>1. peer \in Peers /\ req.op = "discover"
  BY FoundHandle DEF Found
<1>2. /\ v \in Notifiable(peer) /\ req.want = Sought /\ req.from = v + 1
      /\ \A d \in Own(peer, v, Sought) : d <= req.to
  BY <1>1, OwnMatches
<1>3. m \in Matches /\ \A x \in Matches : m <= x
  <2>1. Matches \in SUBSET Nat /\ Matches # {}
    BY <1>1, Handle DEF Matches, Found
  <2> QED
    BY <2>1, MinOfNats
<1>4. m \in DOMAIN DB[peer] /\ m \in v + 1 .. req.to /\ DB[peer][m].type = Sought
  BY <1>2, <1>3 DEF Matches
<1>5. \A x \in v + 1 .. req.to :
         x \in DOMAIN DB[peer] /\ DB[peer][x].type = Sought => m <= x
  BY <1>2, <1>3 DEF Matches
<1>6. ASSUME Own(peer, v, Sought) # {} PROVE m \in Own(peer, v, Sought)
  <2> HIDE DEF m, v
  <2> QED
    BY <1>1, <1>2, <1>4, <1>5, <1>6, FirstIsOwn
<1> QED
  BY <1>2, <1>6

(* And it lies behind its report and before every report that is ahead.      *)
LEMMA FoundBetween ==
    ASSUME Inv, Types, SlotInv, WireInv,
           disc_state \in {"REPORT_REF", "CCC"}, Found(disc_state)
    PROVE  /\ Min(Matches) \in Nat
           /\ pending_reports[pending_idx + 1] < Min(Matches)
           /\ \A k \in pending_idx + 2 .. Len(pending_reports) :
                Min(Matches) < pending_reports[k]
<1> DEFINE n == pending_idx
           m == Min(Matches)
<1>1. /\ link = "secured" /\ req.op = "discover" /\ req # NoReq /\ peer \in Peers
      /\ m \in Matches /\ m \in Nat /\ n < Len(pending_reports)
  BY FoundHandle DEF Found, Types, NoReq
<1>2. PICK want \in {"ref", "ccc"} : req = Descriptor(want, n)
  BY <1>1 DEF WireInv, Wiring, Asked
<1>4. req.from = pending_reports[n + 1] + 1 /\ req.to = report_end(n)
  BY <1>2 DEF Descriptor, Discover
<1>5. pending_reports \in Seq(Nat) /\ n \in Nat
  BY SlotTypes
<1>6. pending_reports[n + 1] \in Nat
  BY <1>1, <1>5
<1>7. req.from <= m /\ (req.to \in Nat => m <= req.to)
  BY <1>1, <1>4, <1>6 DEF Matches
<1>8. ASSUME NEW k \in n + 2 .. Len(pending_reports) PROVE m < pending_reports[k]
  <2>1. n + 1 < Len(pending_reports) /\ n + 2 \in 1 .. Len(pending_reports)
        /\ k \in 1 .. Len(pending_reports)
    BY <1>5, <1>8
  <2>2. pending_reports[n + 2] \in Nat /\ pending_reports[k] \in Nat
    BY <1>5, <2>1
  <2>3. pending_reports[n + 1] < pending_reports[n + 2]
    <3>1. n + 1 \in 1 .. Len(pending_reports) /\ n + 1 < n + 2
      BY <1>5, <2>1
    <3> QED
      BY <2>1, <3>1 DEF SlotInv, Increasing
  <2>4. req.to = pending_reports[n + 2] - 1 /\ req.to \in Nat
    BY <1>4, <1>6, <2>1, <2>2, <2>3 DEF report_end
  <2>5. pending_reports[n + 2] <= pending_reports[k]
    <3>1. k = n + 2 \/ n + 2 < k
      BY <1>5, <1>8
    <3> QED
      BY <2>1, <2>2, <3>1 DEF SlotInv, Increasing
  <2> QED
    BY <1>1, <1>7, <2>2, <2>4, <2>5
<1> QED
  BY <1>1, <1>4, <1>6, <1>7, <1>8

(* A handler that moves on to the n-th report, on a link that stays. *)
LEMMA WiredMoves ==
    ASSUME Types, WireInv, link = "secured", NEW n \in Nat,
           UNCHANGED <<link, peer, hids_end_handle, pending_reports>>, pending_idx' = n,
           hids_end_handle = Len(DB[peer]), disc_state' # "HIDS_PRIMARY",
           \/ req' = NoReq
           \/ \E want \in {"ref", "ccc"} : req' = Descriptor(want, n),
           \A i \in Live' : Right(peer, subs'[i]),
           disc_state' \in {"REPORT_REF", "CCC"} =>
               IdRight(peer, pending_reports[n + 1], cur_report_id')
    PROVE  WireInv'
<1>1. AllNotify(peer, pending_reports)'
  BY DEF WireInv, Wiring
<1>2. report_end(n)' = report_end(n)
  BY DEF report_end
<1>3. \A want : Descriptor(want, n)' = Descriptor(want, n)
  BY <1>2 DEF Descriptor
<1>4. req' # NoReq => Asked'
  BY <1>3 DEF Asked, NoReq, Descriptor, Discover, report_end
<1>5. disc_state' \in {"REPORT_REF", "CCC"} =>
        IdRight(peer, pending_reports[pending_idx + 1], cur_report_id)'
  BY DEF IdRight, OwnIds, Own
<1>6. \A i \in Live' : Right(peer', subs'[i])
  OBVIOUS
<1>7. Wiring'
  BY <1>1, <1>4, <1>5, <1>6 DEF Wiring
<1> QED
  BY <1>7 DEF WireInv

(* A handler of the passes before the subscriptions. *)
LEMMA WiredEarly ==
    ASSUME WireInv, link = "secured", UNCHANGED <<link, peer>>,
           disc_state' \notin {"REPORT_REF", "CCC"}, Live' = {},
           disc_state' # "HIDS_PRIMARY" => hids_end_handle' = Len(DB[peer]),
           AllNotify(peer, pending_reports')
    PROVE  WireInv'
<1>1. Wiring'
  BY DEF Wiring
<1> QED
  BY <1>1 DEF WireInv

LEMMA CccAsked ==
    ASSUME NEW n, NEW k, discover_ccc(n, k)
    PROVE  disc_state' # "HIDS_PRIMARY" /\ (req' = NoReq \/ req' = Descriptor("ccc", n))
BY DEF discover_ccc

LEMMA PendingAsked ==
    ASSUME Inv, Types, WireInv, link = "secured",
           NEW n \in Nat, NEW k \in Nat, subscribe_pending(n, k)
    PROVE  /\ disc_state' # "HIDS_PRIMARY"
           /\ req' = NoReq \/ \E want \in {"ref", "ccc"} : req' = Descriptor(want, n)
           /\ disc_state' \in {"REPORT_REF", "CCC"} =>
                IdRight(peer, pending_reports[n + 1], cur_report_id')
<1>1. disc_state' # "HIDS_PRIMARY"
      /\ (req' = NoReq \/ \E want \in {"ref", "ccc"} : req' = Descriptor(want, n))
  BY CccAsked DEF subscribe_pending
<1>2. disc_state' = "IDLE" \/ cur_report_id' = 0
  BY DEF subscribe_pending
<1>3. IdRight(peer, pending_reports[n + 1], 0)
  BY DEF IdRight
<1> QED
  BY <1>1, <1>2, <1>3

LEMMA WiredPassEnds ==
    ASSUME Inv, Types, SlotInv, WireInv, NEW k \in Nat, PassEnds(k), req # NoReq,
           UNCHANGED <<connection, hids_end_handle, map>>,
           link = "secured"
    PROVE  WireInv'
<1>0. UNCHANGED <<link, peer>> /\ pending_idx \in Nat /\ pending_idx + 1 \in Nat
  BY SlotTypes DEF connection
<1>1. CASE disc_state = "REPORT_MAP_CHRC" /\ start_report_discovery(k)
  <2>1. hids_end_handle = Len(DB[peer])
    BY <1>1 DEF WireInv, Wiring
  <2>2. Live' = {} /\ disc_state' \in {"REPORT_CHRC", "IDLE"} /\ pending_reports' = <<>>
    BY <1>1, ReportsMove, NoneLive
  <2>3. AllNotify(peer, pending_reports')
    BY <2>2 DEF AllNotify
  <2> QED
    BY <1>0, <2>1, <2>2, <2>3, WiredEarly
<1>2. CASE disc_state = "REPORT_CHRC" /\ disc_state' = "IDLE" /\ UNCHANGED <<pending, wired>>
  <2>1. Live' = {} /\ hids_end_handle = Len(DB[peer]) /\ AllNotify(peer, pending_reports')
    BY <1>2, NoneLive DEF SlotInv, NoneYet, WireInv, Wiring, pending, wired
  <2> QED
    BY <1>0, <1>2, <2>1, WiredEarly
<1>3. CASE /\ disc_state = "REPORT_CHRC" /\ pending_idx' = 0 /\ subscribe_pending(0, k)
           /\ UNCHANGED <<pending_reports, wired>>
  <2>1. hids_end_handle = Len(DB[peer]) /\ \A i \in Live' : Right(peer, subs'[i])
    BY <1>0, <1>3, LiveSame DEF WireInv, Wiring, wired
  <2> QED
    BY <1>0, <1>3, <2>1, PendingAsked, WiredMoves
<1>4. CASE disc_state = "REPORT_REF" /\ discover_ccc(pending_idx, k) /\ UNCHANGED <<pending, wired>>
  <2>1. hids_end_handle = Len(DB[peer]) /\ \A i \in Live' : Right(peer, subs'[i])
    BY <1>0, <1>4, LiveSame DEF WireInv, Wiring, wired
  <2>2. IdRight(peer, pending_reports[pending_idx + 1], cur_report_id')
    BY <1>4 DEF WireInv, Wiring, pending
  <2> QED
    BY <1>0, <1>4, <2>1, <2>2, CccAsked, WiredMoves DEF pending
<1>5. CASE /\ disc_state = "CCC" /\ pending_idx' = pending_idx + 1
           /\ subscribe_pending(pending_idx + 1, k) /\ UNCHANGED <<pending_reports, wired>>
  <2>1. hids_end_handle = Len(DB[peer]) /\ \A i \in Live' : Right(peer, subs'[i])
    BY <1>0, <1>5, LiveSame DEF WireInv, Wiring, wired
  <2> QED
    BY <1>0, <1>5, <2>1, PendingAsked, WiredMoves
<1>6. CASE /\ disc_state \in {"HIDS_PRIMARY", "IDLE"} /\ req' = NoReq
           /\ UNCHANGED <<disc_state, pending, wired>>
  <2>1. disc_state = "HIDS_PRIMARY"
    BY <1>6 DEF Inv, AnswerFindsItsState, RequestShape, StateOf
  <2>2. Live' = {}
    BY <1>6, <2>1, NoneLive DEF SlotInv, NoneYet, wired
  <2>3. AllNotify(peer, pending_reports')
    BY <1>6 DEF WireInv, Wiring, pending
  <2> QED
    BY <1>0, <1>6, <2>1, <2>2, <2>3, WiredEarly
<1> QED
  BY <1>1, <1>2, <1>3, <1>4, <1>5, <1>6 DEF PassEnds

(* Only reports that notify are collected. *)
LEMMA ReportsNotify ==
    ASSUME Inv, Types, ReportFound, AllNotify(peer, pending_reports)
    PROVE  AllNotify(peer, pending_reports')
<1>0. link = "secured" /\ peer \in Peers /\ disc_state = "REPORT_CHRC"
  BY FoundHandle DEF ReportFound, Found
<1> DEFINE m == Min(Matches)
           h == m + 1
<1>1. req.want = "report"
  <2>1. req # NoReq /\ req.want \in {"service", "map", "report", "ref", "ccc"}
    BY DEF ReportFound, Found, NoReq, Inv, RequestShape
  <2>2. StateOf(req.want) = "REPORT_CHRC"
    BY <1>0, <2>1 DEF Inv, AnswerFindsItsState
  <2> QED
    BY <2>1, <2>2 DEF StateOf
<1>2. m \in DOMAIN DB[peer] /\ DB[peer][m].type = "report"
  <2>1. m \in Matches
    BY FoundHandle DEF ReportFound
  <2> QED
    BY <1>1, <2>1 DEF Matches
<1>3. DB[peer][m].notify => h \in Notifiable(peer)
  BY <1>0, <1>2, DeclaredNotifies
<1>4. pending_reports' = pending_reports
      \/ (DB[peer][m].notify /\ pending_reports' = Append(pending_reports, h))
  BY DEF ReportFound, Collected
<1> HIDE DEF h
<1>5. ASSUME pending_reports' = Append(pending_reports, h), h \in Notifiable(peer)
      PROVE  AllNotify(peer, pending_reports')
  <2>1. pending_reports \in Seq(Nat)
    BY SlotTypes
  <2>2. \A k \in 1 .. Len(pending_reports') :
          pending_reports'[k] = h
          \/ (k \in 1 .. Len(pending_reports) /\ pending_reports'[k] = pending_reports[k])
    BY <1>5, <2>1
  <2> QED
    BY <1>5, <2>2 DEF AllNotify
<1> QED
  BY <1>3, <1>4, <1>5

LEMMA WiredFound ==
    ASSUME Inv, Types, SlotInv, WireInv,
           HidsFound \/ MapFound \/ ReportFound \/ RefFound
    PROVE  WireInv'
<1>0. link = "secured" /\ UNCHANGED <<link, peer>> /\ peer \in Peers /\ pending_idx \in Nat
  BY FoundHandle, SlotTypes DEF HidsFound, MapFound, ReportFound, RefFound, Found, connection
<1>1. CASE HidsFound
  <2>1. disc_state' \in {"REPORT_MAP_CHRC", "IDLE"} /\ hids_end_handle' = Len(DB[peer])
    BY <1>1 DEF HidsFound
  <2>2. Live' = {} /\ AllNotify(peer, pending_reports')
    BY <1>0, <1>1, NoneLive DEF HidsFound, Found, SlotInv, NoneYet, WireInv, Wiring, pending, wired
  <2> QED
    BY <1>0, <2>1, <2>2, WiredEarly
<1>2. CASE MapFound
  <2>1. sub_count = 0 /\ hids_end_handle' = Len(DB[peer]) /\ AllNotify(peer, pending_reports)
    BY <1>0, <1>2 DEF MapFound, Found, SlotInv, NoneYet, WireInv, Wiring
  <2>2. CASE start_report_discovery(1)
    <3>1. disc_state' \in {"REPORT_CHRC", "IDLE"} /\ pending_reports' = <<>> /\ sub_count' = 0
      BY <2>2, ReportsMove
    <3>2. AllNotify(peer, pending_reports') /\ Live' = {}
      BY <3>1, NoneLive DEF AllNotify
    <3> QED
      BY <1>0, <2>1, <3>1, <3>2, WiredEarly
  <2>3. CASE UNCHANGED <<disc_state, pending, wired>>
    <3>1. disc_state' = "REPORT_MAP_CHRC" /\ Live' = {} /\ AllNotify(peer, pending_reports')
      BY <1>2, <2>1, <2>3, NoneLive DEF MapFound, Found, pending, wired
    <3> QED
      BY <1>0, <2>1, <3>1, WiredEarly
  <2> QED
    BY <1>2, <2>2, <2>3 DEF MapFound
<1>3. CASE ReportFound
  <2>1. /\ disc_state = "REPORT_CHRC" /\ disc_state' = "REPORT_CHRC"
        /\ hids_end_handle' = Len(DB[peer]) /\ AllNotify(peer, pending_reports)
        /\ Live' = {}
    BY <1>0, <1>3, NoneLive DEF ReportFound, Found, SlotInv, NoneYet, WireInv, Wiring, wired
  <2>2. AllNotify(peer, pending_reports')
    BY <1>3, <2>1, ReportsNotify
  <2> QED
    BY <1>0, <2>1, <2>2, WiredEarly
<1>4. CASE RefFound
  <2>1. /\ hids_end_handle = Len(DB[peer]) /\ disc_state = "REPORT_REF"
        /\ UNCHANGED <<hids_end_handle, pending_reports, pending_idx>>
        /\ IdRight(peer, pending_reports[pending_idx + 1], cur_report_id)
        /\ AllNotify(peer, pending_reports)
        /\ \A i \in Live' : Right(peer, subs'[i])
    BY <1>0, <1>4, LiveSame DEF RefFound, Found, WireInv, Wiring, wired
  <2>2. CASE req' = Read("ref", Min(Matches)) /\ UNCHANGED <<disc_state, cur_report_id>>
    <3>1. LET own == Own(peer, pending_reports[pending_idx + 1], "ref") IN
          own # {} => Min(Matches) \in own
      BY <1>0, <1>4, <2>1, DescriptorIsOwn DEF RefFound, Sought
    <3>2. Asked'
      BY <1>0, <2>1, <2>2, <3>1 DEF Asked, Read, Own
    <3>3. AllNotify(peer, pending_reports)'
      BY <1>0, <2>1
    <3>4. IdRight(peer, pending_reports[pending_idx + 1], cur_report_id)'
      BY <1>0, <2>1, <2>2
    <3>5. Wiring'
      BY <1>0, <2>1, <2>2, <3>2, <3>3, <3>4 DEF Wiring
    <3> QED
      BY <1>0, <3>5 DEF WireInv
  <2>3. CASE cur_report_id' = 0 /\ discover_ccc(pending_idx, 1)
    <3>1. IdRight(peer, pending_reports[pending_idx + 1], cur_report_id')
      BY <2>3 DEF IdRight
    <3>2. /\ disc_state' # "HIDS_PRIMARY"
          /\ req' = NoReq \/ \E want \in {"ref", "ccc"} : req' = Descriptor(want, pending_idx)
      BY <2>3, CccAsked
    <3> QED
      BY <1>0, <2>1, <3>1, <3>2, WiredMoves
  <2> QED
    BY <1>4, <2>2, <2>3 DEF RefFound
<1> QED
  BY <1>1, <1>2, <1>3, <1>4

(* The new slot is wired to the report that was looked at. *)
LEMMA WiredCcc ==
    ASSUME Inv, Types, SlotInv, WireInv, CccFound PROVE WireInv'
<1>0. /\ link = "secured" /\ UNCHANGED <<link, peer, hids_end_handle, pending_reports>>
      /\ disc_state = "CCC" /\ sub_count < MAX_REPORTS /\ hids_end_handle = Len(DB[peer])
  BY DEF CccFound, Found, connection, WireInv, Wiring
<1>1. PICK k \in {0, 1} :
        pending_idx' = pending_idx + 1 /\ subscribe_pending(pending_idx + 1, k)
  BY DEF CccFound
<1> DEFINE n == sub_count + 1
           v == pending_reports[pending_idx + 1]
           s == Slot(Min(Matches), TRUE)
<1>2. v \in Notifiable(peer) /\ (Own(peer, v, "ccc") # {} => Min(Matches) \in Own(peer, v, "ccc"))
  BY <1>0, DescriptorIsOwn DEF CccFound, Sought
<1>3. IdRight(peer, v, cur_report_id)
  BY <1>0 DEF WireInv, Wiring
<1>4. s.value_handle = v /\ s.ccc_handle = Min(Matches) /\ s.report_id = cur_report_id
  BY DEF Slot
<1>5. Right(peer, s)
  <2> HIDE DEF s, v
  <2> QED
    BY <1>2, <1>3, <1>4 DEF Right
<1>6. /\ Live' \subseteq Live \union {n}
      /\ n \in Live' /\ Right(peer, s) => Right(peer, subs'[n])
      /\ \A i \in Live' \ {n} : subs'[i] = subs[i]
  BY SlotWritten DEF Right
<1>7. \A i \in Live' : Right(peer, subs'[i])
  <2> HIDE DEF s, n
  <2> SUFFICES ASSUME NEW i \in Live' PROVE Right(peer, subs'[i])
    OBVIOUS
  <2>1. CASE i # n
    <3>1. i \in Live /\ subs'[i] = subs[i]
      BY <1>6, <2>1
    <3> QED
      BY <1>0, <3>1 DEF WireInv, Wiring
  <2> QED
    BY <1>5, <1>6, <2>1
<1>8. pending_idx + 1 \in Nat
  BY SlotTypes
<1>9. k \in Nat
  BY <1>1
<1> HIDE DEF v, s
<1>10. /\ disc_state' # "HIDS_PRIMARY"
       /\ req' = NoReq \/ \E want \in {"ref", "ccc"} : req' = Descriptor(want, pending_idx + 1)
       /\ disc_state' \in {"REPORT_REF", "CCC"} =>
            IdRight(peer, pending_reports[(pending_idx + 1) + 1], cur_report_id')
  BY <1>0, <1>1, <1>8, <1>9, PendingAsked
<1> QED
  BY <1>0, <1>1, <1>7, <1>8, <1>10, WiredMoves

LEMMA WiredRead ==
    ASSUME Inv, Types, SlotInv, WireInv, link = "secured",
           MapChunk \/ MapComplete \/ MapFailed \/ RefRead \/ RefFailed
    PROVE  WireInv'
<1>0. UNCHANGED <<link, peer, hids_end_handle>> /\ pending_idx \in Nat
  BY SlotTypes DEF MapChunk, MapComplete, MapFailed, RefRead, RefFailed, connection
<1>1. CASE MapChunk \/ MapComplete \/ MapFailed
  <2>1. disc_state = "REPORT_MAP_CHRC"
    BY <1>1 DEF MapChunk, MapComplete, MapFailed, Reading, Inv, AnswerFindsItsState,
                StateOf, NoReq
  <2>2. sub_count = 0 /\ hids_end_handle' = Len(DB[peer]) /\ AllNotify(peer, pending_reports)
    BY <1>0, <2>1 DEF SlotInv, NoneYet, WireInv, Wiring
  <2>3. CASE MapChunk
    <3>1. disc_state' = "REPORT_MAP_CHRC" /\ Live' = {} /\ AllNotify(peer, pending_reports')
      BY <2>1, <2>2, <2>3, NoneLive DEF MapChunk, pending, wired
    <3> QED
      BY <1>0, <2>2, <3>1, WiredEarly
  <2>4. CASE MapComplete \/ MapFailed
    <3>1. PICK k \in Nat : start_report_discovery(k)
      BY <2>4 DEF MapComplete, MapFailed, Broken
    <3>2. disc_state' \in {"REPORT_CHRC", "IDLE"} /\ pending_reports' = <<>> /\ sub_count' = 0
      BY <3>1, ReportsMove
    <3>3. AllNotify(peer, pending_reports') /\ Live' = {}
      BY <3>2, NoneLive DEF AllNotify
    <3> QED
      BY <1>0, <2>2, <3>2, <3>3, WiredEarly
  <2> QED
    BY <1>1, <2>3, <2>4
<1>2. CASE RefRead \/ RefFailed
  <2>1. disc_state = "REPORT_REF" /\ req # NoReq /\ req.op = "read"
    BY <1>2 DEF RefRead, RefFailed, Reading, Inv, AnswerFindsItsState, StateOf, NoReq
  <2>2. /\ hids_end_handle = Len(DB[peer]) /\ Asked
        /\ UNCHANGED <<pending_reports, pending_idx>>
        /\ \A i \in Live' : Right(peer, subs'[i])
    BY <1>0, <1>2, <2>1, LiveSame DEF RefRead, RefFailed, WireInv, Wiring, wired
  <2>3. LET own == Own(peer, pending_reports[pending_idx + 1], "ref") IN
        own # {} => req.from \in own
    BY <2>1, <2>2 DEF Asked, Descriptor, Discover
  <2>4. IdRight(peer, pending_reports[pending_idx + 1], cur_report_id')
    BY <1>2, <2>3 DEF RefRead, RefFailed, IdRight, OwnIds
  <2>5. PICK k : discover_ccc(pending_idx, k)
    BY <1>2 DEF RefRead, RefFailed
  <2>6. /\ disc_state' # "HIDS_PRIMARY"
        /\ req' = NoReq \/ \E want \in {"ref", "ccc"} : req' = Descriptor(want, pending_idx)
    BY <2>5, CccAsked
  <2> QED
    BY <1>0, <2>2, <2>4, <2>6, WiredMoves
<1> QED
  BY <1>1, <1>2

LEMMA WiredRejected ==
    ASSUME Types, SlotInv, WireInv, link = "secured", Rejected PROVE WireInv'
<1>3. \A i \in Live' : i \in Live /\ subs'[i] = subs[i]
  BY LiveFewer
<1>4. UNCHANGED <<link, peer, disc_state, req, hids_end_handle, pending_reports, pending_idx,
                  cur_report_id>>
  BY LiveFewer DEF connection, pending
<1>5. Asked => Asked'
  BY <1>4 DEF Asked, Descriptor, report_end
<1>6. Wiring'
  BY <1>3, <1>4, <1>5 DEF WireInv, Wiring
<1> QED
  BY <1>4, <1>6 DEF WireInv

(* Reports are found only on a live link, and dropped with the link. *)
LEMMA NoneWhenDown ==
    ASSUME WireInv, Inv, Types, [DiscNext]_discVars
    PROVE  link' = "down" => pending_reports' = <<>>
<1> SUFFICES ASSUME link' = "down" PROVE pending_reports' = <<>>
  OBVIOUS
<1>1. CASE Disconnected
  BY <1>1 DEF Disconnected
<1>2. CASE UNCHANGED link
  <2>1. pending_reports = <<>>
    BY <1>2 DEF WireInv
  <2>2. UNCHANGED pending_reports \/ pending_reports' = <<>>
    <3>1. ~ReportFound
      BY <1>2 DEF ReportFound, Found
    <3> QED
      BY <3>1
         DEF DiscNext, Respond, Secured, HidsFound, MapFound, RefFound, CccFound, NothingFound,
             PassEnds, start_report_discovery, MapChunk, MapComplete, MapFailed, RefRead,
             RefFailed, Rejected, LinkLost, TornDown, Disconnected, pending, discVars
  <2> QED
    BY <2>1, <2>2
<1>3. Disconnected \/ UNCHANGED link
  BY DEF DiscNext, Respond, Secured, HidsFound, MapFound, ReportFound, RefFound, CccFound,
         NothingFound, MapChunk, MapComplete, MapFailed, RefRead, RefFailed, Rejected,
         LinkLost, TornDown, Disconnected, connection, discVars
<1> QED
  BY <1>1, <1>2, <1>3

LEMMA WiredInit == DiscInit => WireInv
BY DEF DiscInit, WireInv

LEMMA WiredStep == Inv /\ Types /\ SlotInv /\ WireInv /\ [DiscNext]_discVars => WireInv'
<1> SUFFICES ASSUME Inv, Types, SlotInv, WireInv, [DiscNext]_discVars PROVE WireInv'
  OBVIOUS
<1>1. link' = "down" => pending_reports' = <<>>
  BY NoneWhenDown
<1>2. CASE link' # "secured"
  BY <1>1, <1>2 DEF WireInv
<1>3. ASSUME NEW p \in Peers, Secured(p) PROVE WireInv'
  <2>1. disc_state' = "HIDS_PRIMARY" /\ Live' = {} /\ pending_reports' = <<>>
    BY <1>3, NoneLive DEF Secured, SlotInv, pending, wired, WireInv
  <2>2. AllNotify(peer, pending_reports)'
    BY <2>1 DEF AllNotify
  <2>3. Wiring'
    BY <2>1, <2>2 DEF Wiring
  <2> QED
    BY <2>1, <2>3 DEF WireInv
<1>4. CASE /\ link = "secured"
           /\ Respond \/ Rejected \/ UNCHANGED discVars
  <2>1. CASE HidsFound \/ MapFound \/ ReportFound \/ RefFound
    BY <1>4, <2>1, WiredFound
  <2>2. CASE CccFound
    BY <1>4, <2>2, WiredCcc
  <2>3. CASE NothingFound
    <3>1. PICK k \in Nat : PassEnds(k)
      BY <2>3 DEF NothingFound, Broken
    <3>2. req # NoReq
      BY <2>3 DEF NothingFound, NoReq
    <3> QED
      BY <1>4, <2>3, <3>1, <3>2, WiredPassEnds DEF NothingFound
  <2>4. CASE MapChunk \/ MapComplete \/ MapFailed \/ RefRead \/ RefFailed
    BY <1>4, <2>4, WiredRead
  <2>5. CASE Rejected
    BY <1>4, <2>5, WiredRejected
  <2>6. CASE UNCHANGED discVars
    <3>1. Live' = Live
      BY <2>6, LiveSame DEF discVars, connection, wired
    <3>2. Wiring'
      BY <1>4, <2>6, <3>1 DEF discVars, connection, pending, wired, WireInv, Wiring, Asked,
                              Descriptor, report_end, AllNotify
    <3> QED
      BY <1>1, <3>2 DEF WireInv
  <2> QED
    BY <1>4, <2>1, <2>2, <2>3, <2>4, <2>5, <2>6 DEF Respond
<1>5. CASE LinkLost \/ (\E p \in Peers : TornDown(p)) \/ Disconnected
  BY <1>2, <1>5 DEF LinkLost, TornDown, Disconnected, connection
<1>6. CASE Respond \/ Rejected \/ UNCHANGED discVars
  <2>1. UNCHANGED <<link, peer>>
    BY <1>6 DEF Respond, HidsFound, MapFound, ReportFound, RefFound, CccFound, NothingFound,
                MapChunk, MapComplete, MapFailed, RefRead, RefFailed, Rejected, connection,
                discVars
  <2> QED
    BY <1>2, <1>4, <1>6, <2>1
<1> QED
  BY <1>3, <1>5, <1>6 DEF DiscNext

(* On any peer, and whatever failed on the way, each live subscription is    *)
(* wired to one report: to its own CCC if it has one, and its own report ID, *)
(* or 0 (discover_ccc, read_report_ref, cur_report_end_handle).              *)
THEOREM WiredCorrect == DiscSpec => []WiredRight
<1>1. Inv /\ Types /\ SlotInv /\ WireInv => WiredRight
  <2> SUFFICES ASSUME Types, WireInv, NEW i \in Live, link = "secured"
               PROVE  LET v == subs[i].value_handle IN
                      /\ DB[peer][v - 1].type = "report" /\ DB[peer][v - 1].notify
                      /\ Own(peer, v, "ccc") # {} => subs[i].ccc_handle \in Own(peer, v, "ccc")
                      /\ OwnIds(peer, v) # {} =>
                           subs[i].report_id \in {0} \union OwnIds(peer, v)
    BY DEF WiredRight
  <2>1. peer \in Peers /\ Right(peer, subs[i])
    BY DEF WireInv, Wiring, Types, DiscTypeOK
  <2> QED
    BY <2>1, NotifyHandle DEF Right, IdRight
<1> QED
  BY <1>1, InitInv, StepInv, TypesInit, TypesStep, SlotsInit, SlotsStep, WiredInit, WiredStep,
     PTL DEF DiscSpec

-----------------------------------------------------------------------------
(* Completeness.  While nothing fails, the reports collected are those to be *)
(* kept, up to the handle searched from, and those of them that have a CCC   *)
(* are subscribed to, up to the one that is looked at.                       *)
Upto(p, f) == {v \in Notifiable(p) : v <= f}
Collection == {pending_reports[k] : k \in 1 .. Len(pending_reports)}
OwnId(p, v) == DB[p][Min(Own(p, v, "ref"))].id

Gathered ==
    /\ Collection = Upto(peer, req.from) \intersect Kept(peer)
    /\ \/ /\ Len(pending_reports) = Cardinality(Upto(peer, req.from))
          /\ Len(pending_reports) <= MAX_REPORTS
       \/ /\ Len(pending_reports) = MAX_REPORTS
          /\ Cardinality(Upto(peer, req.from)) >= MAX_REPORTS
    /\ req.to = Len(DB[peer])

HasCcc(k) == Own(peer, pending_reports[k], "ccc") # {}
Named(v, id) == Own(peer, v, "ref") # {} => id = OwnId(peer, v)

Subscribed ==
    /\ sub_count <= pending_idx
    /\ {subs[i].value_handle : i \in 1 .. sub_count}
         = {pending_reports[k] : k \in {l \in 1 .. pending_idx : HasCcc(l)}}
    /\ \A i \in 1 .. sub_count : Named(subs[i].value_handle, subs[i].report_id)

Unfailed ==
    /\ disc_state = "HIDS_PRIMARY" => hids_end_handle = 0
    /\ disc_state = "REPORT_CHRC" => Gathered /\ sub_count = 0 /\ pending_idx = 0
    /\ disc_state \in {"REPORT_REF", "CCC", "IDLE"} => Collection = Kept(peer) /\ Subscribed
    /\ disc_state = "REPORT_REF" /\ req.op = "read" =>
         LET own == Own(peer, pending_reports[pending_idx + 1], "ref") IN
         own # {} => req.from = Min(own)
    /\ disc_state = "CCC" => Named(pending_reports[pending_idx + 1], cur_report_id)
    /\ disc_state = "IDLE" => pending_idx = Len(pending_reports)

(* No report to be subscribed to lacks a CCC while one lies in the range     *)
(* searched for it: that of a report left out, or of an output report.       *)
NoneBorrowed(p) ==
    \A v \in Kept(p) : Own(p, v, "ccc") = {} =>
        \A d \in v + 1 .. Len(DB[p]) :
            DB[p][d].type = "ccc" => \E w \in Kept(p) : v < w /\ w < d

UnfailedInv == link = "secured" /\ faults = 0 /\ NoneBorrowed(peer) => Unfailed

LEMMA FinitelyMany ==
    ASSUME NEW p \in Peers
    PROVE  /\ IsFiniteSet(Notifiable(p)) /\ Notifiable(p) \subseteq 1 .. Len(DB[p])
           /\ \A f : IsFiniteSet(Upto(p, f)) /\ Cardinality(Upto(p, f)) \in Nat
<1>1. DOMAIN DB[p] = 1 .. Len(DB[p]) /\ Len(DB[p]) \in Nat
  BY TablesAssumption
<1>2. IsFiniteSet(1 .. Len(DB[p])) /\ Notifiable(p) \in SUBSET (1 .. Len(DB[p]))
  BY <1>1, FS_Interval DEF Notifiable
<1>3. IsFiniteSet(Notifiable(p))
  BY <1>2, FS_Subset
<1>4. ASSUME NEW f PROVE IsFiniteSet(Upto(p, f)) /\ Cardinality(Upto(p, f)) \in Nat
  <2>1. Upto(p, f) \in SUBSET Notifiable(p)
    BY DEF Upto
  <2> QED
    BY <1>3, <2>1, FS_Subset, FS_CardinalityType
<1> QED
  BY <1>2, <1>3, <1>4

(* A call that fails, or comes after one that has, leaves a mark. *)
LEMMA NoFault ==
    ASSUME Types, link = "secured", NEW k \in Nat, faults' = 0
    PROVE  /\ Fault(k) => k = 0 /\ faults = 0
           /\ ~Fails(k)
<1>1. faults \in Nat /\ k + 1 \in Nat
  BY Bounds DEF Types, DiscTypeOK
<1> QED
  BY <1>1 DEF Fault, Fails

LEMMA CccUnfailed ==
    ASSUME Types, link = "secured", NEW k \in Nat, faults' = 0, NEW n, discover_ccc(n, k)
    PROVE  k = 0 /\ faults = 0 /\ disc_state' = "CCC" /\ req' = Descriptor("ccc", n)
BY NoFault DEF discover_ccc, Starts

LEMMA PendingUnfailed ==
    ASSUME Types, link = "secured", NEW k \in Nat, faults' = 0, NEW n, subscribe_pending(n, k)
    PROVE  /\ k = 0 /\ faults = 0
           /\ \/ n >= Len(pending_reports) /\ disc_state' = "IDLE"
              \/ /\ n < Len(pending_reports) /\ disc_state' = "REPORT_REF"
                 /\ req' = Descriptor("ref", n)
<1>1. k + 1 \in Nat /\ k + 1 # 0
  OBVIOUS
<1>2. ~discover_ccc(n, k + 1)
  BY <1>1, CccUnfailed
<1> QED
  BY <1>2, NoFault DEF subscribe_pending, Starts

(* The search for reports begins: there is none below handle 2. *)
LEMMA UnfailedRestarts ==
    ASSUME Types, WireInv, link = "secured", faults' = 0,
           NEW k \in Nat, start_report_discovery(k), disc_state # "HIDS_PRIMARY",
           UNCHANGED <<link, peer>>
    PROVE  k = 0 /\ faults = 0 /\ Unfailed'
<1>1. /\ k = 0 /\ faults = 0 /\ disc_state' = "REPORT_CHRC"
      /\ req' = Discover("report", 1, hids_end_handle)
      /\ pending_reports' = <<>> /\ pending_idx' = 0 /\ sub_count' = 0
  BY NoFault DEF start_report_discovery, Starts
<1>2. req'.from = 1 /\ req'.to = Len(DB[peer])
  BY <1>1 DEF Discover, WireInv, Wiring
<1>3. Upto(peer, 1) = {}
  <2>1. peer \in Peers
    BY DEF Types, DiscTypeOK
  <2>2. \A v \in Notifiable(peer) : v \in Nat /\ v > 1
    BY <2>1, NotifyHandle DEF Notifiable
  <2> QED
    BY <2>2 DEF Upto
<1>4. Len(pending_reports') = 0 /\ Collection' = {} /\ Cardinality(Upto(peer, 1)) = 0
  BY <1>1, <1>3, FS_EmptySet DEF Collection
<1>5. Gathered'
  BY <1>2, <1>3, <1>4, Bounds DEF Gathered
<1> QED
  BY <1>1, <1>5 DEF Unfailed

(* The next report found is the next that is to be kept, if there is room:   *)
(* no report that notifies lies between it and those found before.           *)
LEMMA UnfailedReport ==
    ASSUME Inv, Types, SlotInv, WireInv, ReportFound, Gathered
    PROVE  Gathered'
<1> DEFINE f == req.from
           m == Min(Matches)
           h == m + 1
           P == pending_reports
           U == Upto(peer, f)
<1>1. /\ link = "secured" /\ disc_state = "REPORT_CHRC" /\ peer \in Peers
      /\ UNCHANGED peer /\ m \in Matches /\ m \in Nat /\ f <= m /\ f \in Nat
      /\ req.to \in Nat /\ req # NoReq
  <2>1. Found("REPORT_CHRC") /\ req # NoReq
    BY DEF ReportFound, Found, NoReq
  <2>2. f \in Nat /\ req.to \in Nat
    BY <2>1, Handle DEF Types, DiscTypeOK
  <2> QED
    BY <2>1, <2>2, FoundHandle DEF ReportFound, Found, connection
<1>2. req.want = "report"
  <2>1. req.want \in {"service", "map", "report", "ref", "ccc"} /\ StateOf(req.want) = "REPORT_CHRC"
    BY <1>1 DEF Inv, RequestShape, AnswerFindsItsState
  <2> QED
    BY <2>1 DEF StateOf
<1>3. m \in DOMAIN DB[peer] /\ DB[peer][m].type = "report" /\ m <= req.to
  <2>1. \A x \in Matches : x \in DOMAIN DB[peer] /\ DB[peer][x].type = "report" /\ x <= req.to
    BY <1>1, <1>2 DEF Matches
  <2> HIDE DEF m
  <2> QED
    BY <1>1, <2>1
<1>4. \A x \in Matches : m <= x
  <2>1. Matches \in SUBSET Nat /\ Matches # {}
    BY <1>1, Handle DEF Matches
  <2> QED
    BY <2>1, MinOfNats
<1>5. req'.from = h /\ req'.to = req.to
  BY <1>1 DEF ReportFound, Inv, RequestShape
<1>6. \A v \in Notifiable(peer) : v \in Nat /\ v - 1 \in DOMAIN DB[peer]
                                  /\ DB[peer][v - 1].type = "report"
  <2>1. \A v \in Notifiable(peer) : v \in 1 .. Len(DB[peer]) /\ v > 1
    BY <1>1, FinitelyMany DEF Notifiable
  <2>2. DOMAIN DB[peer] = 1 .. Len(DB[peer]) /\ Len(DB[peer]) \in Nat
    BY <1>1, TablesAssumption
  <2>3. \A v \in Notifiable(peer) : v - 1 \in 1 .. Len(DB[peer])
    BY <2>1, <2>2
  <2> QED
    BY <1>1, <2>2, <2>3, NotifyHandle
<1>7. \A v \in Notifiable(peer) : v <= h => v <= f \/ v = h
  <2> HIDE DEF f, m
  <2> SUFFICES ASSUME NEW v \in Notifiable(peer), v <= h, ~(v <= f) PROVE v = h
    OBVIOUS
  <2>1. v - 1 \in Nat /\ v \in Nat /\ f <= v - 1 /\ v - 1 <= m
    BY <1>1, <1>6
  <2>2. v - 1 \in f .. req.to
    BY <1>1, <1>3, <2>1
  <2>3. v - 1 \in Matches
    BY <1>2, <1>6, <2>2 DEF Matches, f
  <2>4. m <= v - 1
    BY <1>4, <2>3
  <2> QED
    BY <1>1, <2>1, <2>4
<1>8. h \in Notifiable(peer) <=> DB[peer][m].notify
  <2>1. h > 1 /\ h - 1 = m
    <3>1. m \in 1 .. Len(DB[peer])
      BY <1>1, <1>3, TablesAssumption
    <3> HIDE DEF m
    <3> QED
      BY <1>1, <3>1
  <2>2. h \in DOMAIN DB[peer] /\ DB[peer][h].type = "value"
    BY <1>1, <1>3, TablesAssumption
  <2> QED
    BY <1>3, <2>1, <2>2 DEF Notifiable
<1>9. h \in Nat /\ f < h /\ f <= h
  <2> HIDE DEF f, m
  <2> QED
    BY <1>1
<1> HIDE DEF h
<1>10. Upto(peer, h) = U \union (IF DB[peer][m].notify THEN {h} ELSE {}) /\ h \notin U
  <2> HIDE DEF f, m
  <2> QED
    BY <1>1, <1>6, <1>7, <1>8, <1>9 DEF Upto
<1>11. {v \in Notifiable(peer) : v < h} = U
  <2> HIDE DEF f, m
  <2> QED
    BY <1>1, <1>6, <1>7, <1>9 DEF Upto
<1>12. h \in Kept(peer) <=> DB[peer][m].notify /\ Cardinality(U) < MAX_REPORTS
  BY <1>8, <1>11 DEF Kept
<1>13. P \in Seq(Nat) /\ MAX_REPORTS \in Nat
  BY SlotTypes
<1>14. IsFiniteSet(U) /\ Cardinality(U) \in Nat
  BY <1>1, FinitelyMany
<1>15. DB[peer][m].notify => Cardinality(Upto(peer, h)) = Cardinality(U) + 1
  BY <1>10, <1>14, FS_AddElement
<1>16. P' = IF DB[peer][m].notify /\ Len(P) < MAX_REPORTS THEN Append(P, h) ELSE P
  BY DEF ReportFound, Collected, h
<1>17. CASE ~DB[peer][m].notify
  <2>1. Upto(peer, h) = U /\ P' = P /\ Collection' = Collection
    BY <1>10, <1>16, <1>17 DEF Collection
  <2> QED
    BY <1>1, <1>5, <2>1 DEF Gathered
<1>18. CASE DB[peer][m].notify /\ Len(P) < MAX_REPORTS
  <2>1. Len(P) = Cardinality(U) /\ h \in Kept(peer)
    BY <1>12, <1>13, <1>14, <1>18 DEF Gathered
  <2>2. P' = Append(P, h) /\ Len(P') = Len(P) + 1
    BY <1>9, <1>13, <1>16, <1>18
  <2>3. Collection' = Collection \union {h}
    <3> HIDE DEF P
    <3>1. \A k \in 1 .. Len(P') : P'[k] = IF k = Len(P) + 1 THEN h ELSE P[k]
      BY <1>9, <1>13, <2>2
    <3>2. 1 .. Len(P') = (1 .. Len(P)) \union {Len(P) + 1} /\ Len(P) \in Nat
      BY <1>13, <2>2
    <3> QED
      BY <3>1, <3>2 DEF Collection, P
  <2>4. Upto(peer, h) \intersect Kept(peer) = (U \intersect Kept(peer)) \union {h}
    BY <1>10, <1>18, <2>1
  <2>5. Len(P') = Cardinality(Upto(peer, h)) /\ Len(P') <= MAX_REPORTS
    BY <1>13, <1>14, <1>15, <1>18, <2>1, <2>2
  <2> QED
    BY <1>1, <1>5, <2>3, <2>4, <2>5 DEF Gathered
<1>19. CASE DB[peer][m].notify /\ ~(Len(P) < MAX_REPORTS)
  <2>1. P' = P /\ Collection' = Collection
    BY <1>16, <1>19 DEF Collection
  <2>2. Len(P) = MAX_REPORTS /\ Cardinality(U) >= MAX_REPORTS
    BY <1>13, <1>14, <1>19 DEF Gathered
  <2>3. h \notin Kept(peer)
    BY <1>12, <1>13, <1>14, <2>2
  <2>4. Upto(peer, h) \intersect Kept(peer) = U \intersect Kept(peer)
    BY <1>10, <1>19, <2>3
  <2>5. Cardinality(Upto(peer, h)) >= MAX_REPORTS
    BY <1>13, <1>14, <1>15, <1>19, <2>2
  <2> QED
    BY <1>1, <1>5, <2>1, <2>2, <2>4, <2>5 DEF Gathered
<1> QED
  BY <1>17, <1>18, <1>19

(* When none is left, all that are to be kept have been collected. *)
LEMMA AllCollected ==
    ASSUME Inv, Types, Gathered, link = "secured", disc_state = "REPORT_CHRC",
           req # NoReq, Matches = {}
    PROVE  Collection = Kept(peer)
<1>1. peer \in Peers /\ req.from \in Nat /\ req.to = Len(DB[peer])
  BY DEF Types, DiscTypeOK, Gathered
<1>2. req.want = "report"
  <2>1. req.want \in {"service", "map", "report", "ref", "ccc"} /\ StateOf(req.want) = "REPORT_CHRC"
    BY DEF Inv, RequestShape, AnswerFindsItsState
  <2> QED
    BY <2>1 DEF StateOf
<1>3. ASSUME NEW v \in Notifiable(peer) PROVE v <= req.from
  <2>1. v \in 1 .. Len(DB[peer]) /\ v > 1 /\ Len(DB[peer]) \in Nat
        /\ DOMAIN DB[peer] = 1 .. Len(DB[peer]) /\ DB[peer][v - 1].type = "report"
    BY <1>1, FinitelyMany, NotifyHandle, TablesAssumption DEF Notifiable
  <2>2. v - 1 \in 1 .. Len(DB[peer])
    BY <2>1
  <2>3. v - 1 \notin req.from .. req.to
    BY <1>2, <2>1, <2>2 DEF Matches
  <2> QED
    BY <1>1, <2>1, <2>2, <2>3
<1>4. Kept(peer) \subseteq Upto(peer, req.from)
  BY <1>3 DEF Kept, Upto
<1> QED
  BY <1>4 DEF Gathered

(* The first descriptor found is the first of the report's own. *)
LEMMA FirstFoundIsFirst ==
    ASSUME Inv, Types, SlotInv, WireInv, link = "secured",
           disc_state \in {"REPORT_REF", "CCC"}, Found(disc_state),
           Own(peer, pending_reports[pending_idx + 1], Sought) # {}
    PROVE  Min(Matches) = Min(Own(peer, pending_reports[pending_idx + 1], Sought))
<1> DEFINE O == Own(peer, pending_reports[pending_idx + 1], Sought)
<1>0. O \in SUBSET Nat /\ O # {} /\ \A d \in O : d \in Matches
  BY OwnMatches DEF Found
<1>1. Min(Matches) \in O /\ Min(Matches) \in Nat
  BY <1>0, DescriptorIsOwn, FoundHandle
<1>2. O \in SUBSET Nat /\ O # {} /\ \A d \in O : d \in Matches
  BY <1>0
<1>3. Matches \in SUBSET Nat /\ Matches # {}
  <2>1. peer \in Peers
    BY FoundHandle
  <2> QED
    BY <2>1, Handle DEF Matches, Found
<1> HIDE DEF O
<1>4. Min(O) \in O /\ \A d \in O : Min(O) <= d
  BY <1>2, MinOfNats
<1>5. \A d \in Matches : Min(Matches) <= d
  BY <1>3, MinOfNats
<1>6. Min(O) \in Nat /\ Min(O) <= Min(Matches) /\ Min(Matches) <= Min(O)
  BY <1>1, <1>2, <1>4, <1>5
<1>7. Min(Matches) = Min(O)
  BY <1>1, <1>6
<1> QED
  BY <1>7 DEF O

LEMMA UnfailedFound ==
    ASSUME Inv, Types, SlotInv, WireInv, UnfailedInv, link = "secured", NoneBorrowed(peer),
           faults' = 0, HidsFound \/ MapFound \/ ReportFound \/ RefFound
    PROVE  Unfailed'
<1>0. UNCHANGED <<link, peer>>
  BY DEF HidsFound, MapFound, ReportFound, RefFound, connection
<1>1. CASE HidsFound
  <2>1. disc_state' = "REPORT_MAP_CHRC"
    BY <1>1, NoFault DEF HidsFound
  <2> QED
    BY <2>1 DEF Unfailed
<1>2. CASE MapFound
  <2>1. ~start_report_discovery(1)
    BY <1>0, <1>2, UnfailedRestarts DEF MapFound, Found
  <2>2. disc_state' = "REPORT_MAP_CHRC"
    BY <1>2, <2>1 DEF MapFound, Found
  <2> QED
    BY <2>2 DEF Unfailed
<1>3. CASE ReportFound
  <2>1. Unfailed /\ disc_state' = "REPORT_CHRC" /\ disc_state = "REPORT_CHRC"
        /\ UNCHANGED <<sub_count, pending_idx>>
    BY <1>3 DEF UnfailedInv, ReportFound, Found, wired
  <2>2. Gathered'
    BY <1>3, <2>1, UnfailedReport DEF Unfailed
  <2> QED
    BY <2>1, <2>2 DEF Unfailed
<1>4. CASE RefFound
  <2>1. ~discover_ccc(pending_idx, 1)
    BY CccUnfailed
  <2>2. /\ Found(disc_state) /\ disc_state = "REPORT_REF" /\ faults = 0
        /\ req' = Read("ref", Min(Matches))
        /\ UNCHANGED <<disc_state, pending_reports, pending_idx, subs, sub_count>>
    BY <1>4, <2>1, NoFault DEF RefFound, Found, Starts, wired
  <2>3. Collection = Kept(peer) /\ Subscribed
    BY <2>2 DEF UnfailedInv, Unfailed
  <2>4. Collection' = Kept(peer') /\ Subscribed'
    BY <1>0, <2>2, <2>3 DEF Collection, Subscribed, HasCcc, Named, OwnId
  <2>5. LET own == Own(peer, pending_reports[pending_idx + 1], "ref") IN
        own # {} => req'.from = Min(own)
    <3>1. Sought = "ref"
      BY <2>2 DEF Sought
    <3> QED
      BY <2>2, <3>1, FirstFoundIsFirst DEF Read
  <2> QED
    BY <1>0, <2>2, <2>4, <2>5 DEF Unfailed
<1> QED
  BY <1>1, <1>2, <1>3, <1>4

(* Going on to the next report, or coming to the end of them. *)
LEMMA UnfailedMoves ==
    ASSUME Types, link = "secured", faults' = 0, NEW k \in Nat, NEW n \in Nat,
           subscribe_pending(n, k), pending_idx' = n, n <= Len(pending_reports),
           UNCHANGED <<peer, pending_reports>>, Collection = Kept(peer), Subscribed'
    PROVE  Unfailed'
<1>1. Collection' = Kept(peer')
  BY DEF Collection
<1>2. CASE n >= Len(pending_reports) /\ disc_state' = "IDLE"
  BY <1>1, <1>2, SlotTypes DEF Unfailed
<1>3. CASE disc_state' = "REPORT_REF" /\ req' = Descriptor("ref", n)
  BY <1>1, <1>3 DEF Unfailed, Descriptor, Discover
<1> QED
  BY <1>2, <1>3, PendingUnfailed

(* A CCC that is found is the report's own: another's would lie beyond a     *)
(* report that is ahead.                                                     *)
LEMMA FoundCccIsOwn ==
    ASSUME Inv, Types, SlotInv, WireInv, NoneBorrowed(peer), Collection = Kept(peer),
           Found("CCC")
    PROVE  HasCcc(pending_idx + 1)
<1> DEFINE n == pending_idx + 1
           v == pending_reports[n]
           m == Min(Matches)
<1>1. /\ link = "secured" /\ disc_state = "CCC" /\ req.op = "discover" /\ peer \in Peers
      /\ m \in Matches /\ m \in Nat
  BY FoundHandle DEF Found
<1>2. /\ n \in 1 .. Len(pending_reports) /\ pending_reports \in Seq(Nat)
      /\ Len(pending_reports) \in Nat /\ v \in Nat
  <2>1. pending_reports \in Seq(Nat) /\ pending_idx \in Nat /\ pending_idx < Len(pending_reports)
    BY <1>1, SlotTypes DEF Types
  <2> QED
    BY <2>1
<1>3. req.want = "ccc" /\ req.from = v + 1
  BY <1>1, OwnMatches DEF Sought
<1>4. m \in DOMAIN DB[peer] /\ DB[peer][m].type = "ccc" /\ v + 1 <= m
  <2> HIDE DEF m, v
  <2> QED
    BY <1>1, <1>2, <1>3 DEF Matches
<1>5. m \in v + 1 .. Len(DB[peer])
  BY <1>1, <1>2, <1>4, TablesAssumption
<1>6. v \in Kept(peer)
  BY <1>2 DEF Collection
<1> SUFFICES ASSUME Own(peer, v, "ccc") = {} PROVE FALSE
  BY DEF HasCcc
<1>7. PICK w \in Kept(peer) : v < w /\ w < m
  BY <1>4, <1>5, <1>6 DEF NoneBorrowed
<1>8. PICK k \in 1 .. Len(pending_reports) : w = pending_reports[k]
  BY <1>7 DEF Collection
<1>9. w \in Nat
  BY <1>2, <1>8
<1>10. k # n /\ ~(k < n)
  BY <1>2, <1>7, <1>8, <1>9 DEF SlotInv, Increasing
<1>11. k \in pending_idx + 2 .. Len(pending_reports)
  BY <1>2, <1>10, SlotTypes
<1>12. m < w
  BY <1>1, <1>8, <1>11, FoundBetween DEF Found
<1> QED
  BY <1>1, <1>7, <1>9, <1>12

LEMMA UnfailedCcc ==
    ASSUME Inv, Types, SlotInv, WireInv, UnfailedInv, link = "secured", NoneBorrowed(peer),
           faults' = 0, CccFound
    PROVE  Unfailed'
<1> DEFINE n == pending_idx + 1
<1>1. PICK ok \in BOOLEAN, cut \in SUBSET Neighbours(sub_count + 1) :
        /\ subs' = [Cleared(cut) EXCEPT ![sub_count + 1] = Slot(Min(Matches), ok)]
        /\ sub_count' = IF ok THEN sub_count + 1 ELSE sub_count
        /\ pending_idx' = n /\ subscribe_pending(n, IF ok THEN 0 ELSE 1)
  BY DEF CccFound
<1>2. pending_idx \in Nat /\ n \in Nat /\ (IF ok THEN 0 ELSE 1) \in Nat
      /\ Len(pending_reports) \in Nat /\ sub_count \in Nat
  BY SlotTypes
<1>3. ok = TRUE /\ faults = 0
  BY <1>1, <1>2, PendingUnfailed
<1>4. /\ disc_state = "CCC" /\ sub_count < MAX_REPORTS /\ UNCHANGED <<peer, pending_reports>>
  BY DEF CccFound, Found, connection
<1>5. /\ Collection = Kept(peer) /\ Subscribed
      /\ Named(pending_reports[n], cur_report_id)
  BY <1>3, <1>4 DEF UnfailedInv, Unfailed
<1>6. n <= Len(pending_reports)
  BY <1>2, <1>4 DEF Types
<1>7. HasCcc(n)
  BY <1>5, FoundCccIsOwn DEF CccFound
<1> DEFINE c == sub_count + 1
           handles == {subs[i].value_handle : i \in 1 .. sub_count}
<1>8. /\ sub_count' = c /\ subs'[c] = Slot(Min(Matches), TRUE) /\ 1 .. c = 1 .. sub_count \union {c}
      /\ \A i \in 1 .. sub_count : /\ subs'[i].value_handle = subs[i].value_handle
                                  /\ subs'[i].report_id = subs[i].report_id
  <2>1. DOMAIN subs = 1 .. MAX_REPORTS /\ MAX_REPORTS \in Nat
    BY SlotTypes
  <2>2. subs' = [Cleared(cut) EXCEPT ![c] = Slot(Min(Matches), TRUE)] /\ sub_count' = c
    BY <1>1, <1>3
  <2>3. c \in DOMAIN subs /\ \A i \in 1 .. sub_count : i \in DOMAIN subs /\ i # c
    BY <1>2, <1>4, <2>1
  <2>4. 1 .. c = 1 .. sub_count \union {c}
    BY <1>2
  <2>5. /\ DOMAIN Cleared(cut) = DOMAIN subs
        /\ \A i \in DOMAIN subs :
             Cleared(cut)[i] = subs[i] \/ Cleared(cut)[i] = [subs[i] EXCEPT !.holder = None]
    BY DEF Cleared
  <2>6. \A i \in DOMAIN subs : Cleared(cut)[i].value_handle = subs[i].value_handle
                            /\ Cleared(cut)[i].report_id = subs[i].report_id
    BY <2>5 DEF Types, DiscTypeOK
  <2> HIDE DEF c
  <2> QED
    BY <2>2, <2>3, <2>4, <2>5, <2>6
<1>9. subs'[c].value_handle = pending_reports[n] /\ subs'[c].report_id = cur_report_id
  BY <1>8 DEF Slot
<1>10. {subs'[i].value_handle : i \in 1 .. sub_count'} = handles \union {pending_reports[n]}
  <2> DEFINE new == {subs'[i].value_handle : i \in 1 .. sub_count'}
  <2> HIDE DEF n, c
  <2>1. handles \subseteq new /\ pending_reports[n] \in new
    BY <1>8, <1>9
  <2>2. ASSUME NEW i \in 1 .. sub_count' PROVE subs'[i].value_handle \in handles \union {pending_reports[n]}
    BY <1>8, <1>9, <2>2
  <2> QED
    BY <2>1, <2>2
<1>11. {pending_reports[k] : k \in {l \in 1 .. n : HasCcc(l)}} = handles \union {pending_reports[n]}
  <2>1. 1 .. n = 1 .. pending_idx \union {n}
    BY <1>2
  <2>2. handles = {pending_reports[k] : k \in {l \in 1 .. pending_idx : HasCcc(l)}}
    BY <1>5 DEF Subscribed
  <2> HIDE DEF n, handles
  <2> QED
    BY <1>7, <2>1, <2>2
<1>12. \A i \in 1 .. sub_count' : Named(subs'[i].value_handle, subs'[i].report_id)
  <2> HIDE DEF n, c
  <2> QED
    BY <1>5, <1>8, <1>9 DEF Subscribed
<1>13. Subscribed'
  <2>1. \A l : HasCcc(l)' = HasCcc(l)
    BY <1>4 DEF HasCcc
  <2>2. \A w, id : Named(w, id)' = (Own(peer, w, "ref") # {} => id = OwnId(peer, w))
    BY <1>4 DEF Named, OwnId
  <2>3. sub_count' <= n
    BY <1>2, <1>5, <1>8 DEF Subscribed
  <2>4. pending_idx' = n /\ pending_reports' = pending_reports /\ peer' = peer
    BY <1>1, <1>4
  <2>5. {subs'[i].value_handle : i \in 1 .. sub_count'}
          = {pending_reports'[k] : k \in {l \in 1 .. pending_idx' : HasCcc(l)'}}
    <3> HIDE DEF n, handles
    <3> QED
      BY <1>10, <1>11, <2>1, <2>4
  <2>6. \A i \in 1 .. sub_count' : Named(subs[i].value_handle, subs[i].report_id)'
    <3> HIDE DEF n
    <3> QED
      BY <1>4, <1>12 DEF Named, OwnId
  <2> HIDE DEF n
  <2> QED
    BY <2>3, <2>4, <2>5, <2>6 DEF Subscribed
<1> HIDE DEF n
<1> QED
  BY <1>1, <1>2, <1>4, <1>5, <1>6, <1>13, UnfailedMoves

(* A pass that ends without a failure has searched its whole range: the      *)
(* report has no descriptor of that kind.                                    *)
LEMMA UnfailedPassEnds ==
    ASSUME Inv, Types, SlotInv, WireInv, UnfailedInv, link = "secured", NoneBorrowed(peer),
           faults' = 0, NothingFound
    PROVE  Unfailed'
<1>0. UNCHANGED <<link, peer>> /\ hids_end_handle' = hids_end_handle
      /\ req # NoReq /\ req.op = "discover"
  BY DEF NothingFound, connection, NoReq
<1>1. ASSUME NEW k \in Nat, PassEnds(k) PROVE k = 0 /\ faults = 0
  BY <1>1, NoFault, CccUnfailed, PendingUnfailed
     DEF PassEnds, start_report_discovery, Starts
<1>2. PassEnds(0) /\ Matches = {} /\ faults = 0
  BY <1>1 DEF NothingFound, Broken
<1>3. Unfailed
  BY <1>2 DEF UnfailedInv
<1>4. ASSUME disc_state \in {"REPORT_REF", "CCC"}
      PROVE  /\ Own(peer, pending_reports[pending_idx + 1], Sought) = {}
             /\ Collection = Kept(peer) /\ Subscribed /\ pending_idx < Len(pending_reports)
             /\ pending_idx \in Nat
  <2>1. Own(peer, pending_reports[pending_idx + 1], Sought) = {}
    BY <1>0, <1>2, <1>4, OwnMatches
  <2> QED
    BY <1>3, <1>4, <2>1, SlotTypes DEF Unfailed, Types
<1>5. CASE disc_state = "REPORT_MAP_CHRC"
  <2>1. start_report_discovery(0)
    BY <1>2, <1>5 DEF PassEnds
  <2> QED
    BY <1>0, <1>5, <2>1, UnfailedRestarts
<1>6. CASE disc_state = "REPORT_CHRC"
  <2>1. Collection = Kept(peer) /\ sub_count = 0 /\ pending_idx = 0
    BY <1>0, <1>2, <1>3, <1>6, AllCollected DEF Unfailed
  <2>2. /\ UNCHANGED <<pending_reports, sub_count, subs>> /\ pending_idx' = 0
        /\ \/ pending_reports = <<>> /\ disc_state' = "IDLE"
           \/ subscribe_pending(0, 0)
    BY <1>2, <1>6, <2>1 DEF PassEnds, pending, wired
  <2>3. Subscribed'
    BY <2>1, <2>2 DEF Subscribed
  <2>4. CASE pending_reports = <<>> /\ disc_state' = "IDLE"
    <3>1. Collection' = Kept(peer') /\ Len(pending_reports') = 0
      BY <1>0, <2>1, <2>2, <2>4 DEF Collection
    <3> QED
      BY <2>2, <2>3, <2>4, <3>1 DEF Unfailed
  <2>5. CASE subscribe_pending(0, 0)
    <3>1. 0 <= Len(pending_reports)
      BY SlotTypes
    <3> QED
      BY <1>0, <2>1, <2>2, <2>3, <2>5, <3>1, UnfailedMoves
  <2> QED
    BY <2>2, <2>4, <2>5
<1>7. CASE disc_state = "HIDS_PRIMARY"
  <2>1. disc_state' = disc_state
    BY <1>2, <1>7 DEF PassEnds
  <2> QED
    BY <1>0, <1>3, <1>7, <2>1 DEF Unfailed
<1>8. disc_state # "IDLE"
  BY <1>0 DEF Inv, AnswerFindsItsState, RequestShape, StateOf
<1>9. CASE disc_state = "REPORT_REF"
  <2>1. /\ disc_state' = "CCC"
        /\ UNCHANGED <<pending_reports, pending_idx, cur_report_id, subs, sub_count>>
    BY <1>2, <1>9, CccUnfailed DEF PassEnds, pending, wired
  <2>2. Own(peer, pending_reports[pending_idx + 1], "ref") = {}
    BY <1>4, <1>9 DEF Sought
  <2>3. Collection' = Kept(peer') /\ Subscribed'
    BY <1>0, <1>4, <1>9, <2>1 DEF Collection, Subscribed, HasCcc, Named, OwnId
  <2>4. Named(pending_reports[pending_idx + 1], cur_report_id)'
    BY <1>0, <2>1, <2>2 DEF Named
  <2> QED
    BY <2>1, <2>3, <2>4 DEF Unfailed
<1>10. CASE disc_state = "CCC"
  <2> DEFINE n == pending_idx + 1
  <2>1. /\ pending_idx' = n /\ subscribe_pending(n, 0)
        /\ UNCHANGED <<pending_reports, subs, sub_count>>
    BY <1>2, <1>10 DEF PassEnds, wired
  <2>2. ~HasCcc(n)
    BY <1>4, <1>10 DEF Sought, HasCcc
  <2>3. {l \in 1 .. n : HasCcc(l)} = {l \in 1 .. pending_idx : HasCcc(l)}
    <3>1. 1 .. n = 1 .. pending_idx \union {n}
      BY <1>4, <1>10
    <3> HIDE DEF n
    <3> QED
      BY <2>2, <3>1
  <2>4. sub_count <= n /\ n <= Len(pending_reports) /\ n \in Nat
    BY <1>4, <1>10, SlotTypes DEF Subscribed
  <2>5. Subscribed'
    <3>1. \A l : HasCcc(l)' = HasCcc(l)
      BY <1>0, <2>1 DEF HasCcc
    <3>2. {pending_reports'[k] : k \in {l \in 1 .. pending_idx' : HasCcc(l)'}}
            = {pending_reports[k] : k \in {l \in 1 .. pending_idx : HasCcc(l)}}
      <4> HIDE DEF n
      <4> QED
        BY <2>1, <2>3, <3>1
    <3>3. \A i \in 1 .. sub_count : Named(subs[i].value_handle, subs[i].report_id)'
      BY <1>0, <1>4, <1>10, <2>1 DEF Subscribed, Named, OwnId
    <3> HIDE DEF n
    <3> QED
      BY <1>4, <1>10, <2>1, <2>4, <3>2, <3>3 DEF Subscribed
  <2> HIDE DEF n
  <2> QED
    BY <1>0, <1>4, <1>10, <2>1, <2>4, <2>5, UnfailedMoves
<1> QED
  BY <1>5, <1>6, <1>7, <1>8, <1>9, <1>10 DEF Types, DiscTypeOK, States

LEMMA UnfailedRead ==
    ASSUME Inv, Types, SlotInv, WireInv, UnfailedInv, link = "secured", NoneBorrowed(peer),
           faults' = 0, MapChunk \/ MapComplete \/ MapFailed \/ RefRead \/ RefFailed
    PROVE  Unfailed'
<1>0. UNCHANGED <<link, peer>>
  BY DEF MapChunk, MapComplete, MapFailed, RefRead, RefFailed, connection
<1>1. CASE MapChunk \/ MapComplete \/ MapFailed
  <2>1. disc_state = "REPORT_MAP_CHRC"
    BY <1>1 DEF MapChunk, MapComplete, MapFailed, Reading, Inv, AnswerFindsItsState,
                StateOf, NoReq
  <2>2. CASE MapChunk
    <3>1. disc_state' = "REPORT_MAP_CHRC"
      BY <2>1, <2>2 DEF MapChunk
    <3> QED
      BY <3>1 DEF Unfailed
  <2>3. CASE MapComplete \/ MapFailed
    <3>1. PICK k \in Nat : start_report_discovery(k)
      BY <2>3 DEF MapComplete, MapFailed, Broken
    <3> QED
      BY <1>0, <2>1, <3>1, UnfailedRestarts
  <2> QED
    BY <1>1, <2>2, <2>3
<1>2. CASE RefRead \/ RefFailed
  <2>1. disc_state = "REPORT_REF" /\ req # NoReq /\ req.op = "read"
    BY <1>2 DEF RefRead, RefFailed, Reading, Inv, AnswerFindsItsState, StateOf, NoReq
  <2>2. RefRead
    <3>1. ~discover_ccc(pending_idx, 1)
      BY CccUnfailed
    <3> QED
      BY <1>2, <3>1 DEF RefFailed, Broken
  <2>3. /\ faults = 0 /\ disc_state' = "CCC"
        /\ cur_report_id' = DB[peer][req.from].id
        /\ UNCHANGED <<pending_reports, pending_idx, subs, sub_count>>
    BY <2>2, CccUnfailed DEF RefRead, wired
  <2>4. /\ Collection = Kept(peer) /\ Subscribed
        /\ LET own == Own(peer, pending_reports[pending_idx + 1], "ref") IN
           own # {} => req.from = Min(own)
    BY <2>1, <2>3 DEF UnfailedInv, Unfailed
  <2>5. Collection' = Kept(peer') /\ Subscribed'
    BY <1>0, <2>3, <2>4 DEF Collection, Subscribed, HasCcc, Named, OwnId
  <2>6. Named(pending_reports[pending_idx + 1], cur_report_id)'
    BY <1>0, <2>3, <2>4 DEF Named, OwnId
  <2> QED
    BY <2>3, <2>5, <2>6 DEF Unfailed
<1> QED
  BY <1>1, <1>2

LEMMA UnfailedInit == DiscInit => UnfailedInv
BY DEF DiscInit, UnfailedInv

LEMMA UnfailedStep ==
    Inv /\ Types /\ SlotInv /\ WireInv /\ UnfailedInv /\ [DiscNext]_discVars => UnfailedInv'
<1> SUFFICES ASSUME Inv, Types, SlotInv, WireInv, UnfailedInv, [DiscNext]_discVars,
                    link' = "secured", faults' = 0, NoneBorrowed(peer')
             PROVE  Unfailed'
  BY DEF UnfailedInv
<1>1. ASSUME NEW p \in Peers, Secured(p) PROVE Unfailed'
  BY <1>1 DEF Secured, Unfailed
<1>2. ~(LinkLost \/ (\E p \in Peers : TornDown(p)) \/ Disconnected)
  BY DEF LinkLost, TornDown, Disconnected, connection
<1>3. CASE Respond \/ Rejected \/ UNCHANGED discVars
  <2>1. UNCHANGED <<link, peer>>
    BY <1>3 DEF Respond, HidsFound, MapFound, ReportFound, RefFound, CccFound, NothingFound,
                MapChunk, MapComplete, MapFailed, RefRead, RefFailed, Rejected, connection,
                discVars
  <2>2. link = "secured" /\ NoneBorrowed(peer)
    BY <2>1
  <2>3. CASE Respond
    BY <2>2, <2>3, UnfailedFound, UnfailedCcc, UnfailedPassEnds, UnfailedRead DEF Respond
  <2>4. ~Rejected
    <3>1. ~Fault(1)
      BY <2>2, NoFault
    <3> QED
      BY <3>1 DEF Rejected
  <2>5. CASE UNCHANGED discVars
    <3>1. Unfailed
      BY <2>2, <2>5 DEF UnfailedInv, discVars
    <3>2. UNCHANGED <<peer, disc_state, req, hids_end_handle, pending_reports, pending_idx,
                      cur_report_id, subs, sub_count>>
      BY <2>5 DEF discVars, connection, pending, wired
    <3>3. Collection' = Collection /\ (Subscribed => Subscribed')
      BY <3>2 DEF Collection, Subscribed, HasCcc, Named, OwnId
    <3>4. Gathered => Gathered'
      BY <3>2, <3>3 DEF Gathered
    <3> QED
      BY <3>1, <3>2, <3>3, <3>4 DEF Unfailed, Named, OwnId
  <2> QED
    BY <1>3, <2>3, <2>4, <2>5
<1> QED
  BY <1>1, <1>2, <1>3 DEF DiscNext

(* Discovery that nothing failed ends with every report that notifies and    *)
(* has a CCC subscribed, up to MAX_REPORTS, and with its own report ID, on   *)
(* every peer where no report is within reach of a CCC that is not its own   *)
(* (subscribe_pending, discover_func).                                       *)
THEOREM CompleteCorrect == DiscSpec => [](NoneBorrowed(peer) => Complete)
<1>1. Inv /\ Types /\ SlotInv /\ UnfailedInv => (NoneBorrowed(peer) => Complete)
  <2> SUFFICES ASSUME Inv, Types, SlotInv, UnfailedInv, NoneBorrowed(peer),
                      link = "secured", req = NoReq, faults = 0, hids_end_handle > 0
               PROVE  /\ {subs[i].value_handle : i \in 1 .. sub_count} = Subscribable(peer)
                      /\ \A i \in 1 .. sub_count :
                           LET own == Own(peer, subs[i].value_handle, "ref") IN
                           own # {} => subs[i].report_id = DB[peer][Min(own)].id
    BY DEF Complete
  <2>1. Unfailed /\ disc_state \in {"IDLE", "HIDS_PRIMARY"}
    BY DEF UnfailedInv, Inv, OnlyFirstPassIsLeftOpen
  <2>2. disc_state = "IDLE"
    BY <2>1 DEF Unfailed
  <2>3. /\ Collection = Kept(peer) /\ Subscribed /\ pending_idx = Len(pending_reports)
    BY <2>1, <2>2 DEF Unfailed
  <2>4. {pending_reports[k] : k \in {l \in 1 .. pending_idx : HasCcc(l)}} = Subscribable(peer)
    BY <2>3 DEF Collection, Subscribable, HasCcc
  <2> QED
    BY <2>3, <2>4 DEF Subscribed, Named, OwnId
<1>2. DiscSpec => []UnfailedInv
  BY InitInv, StepInv, TypesInit, TypesStep, SlotsInit, SlotsStep, WiredInit, WiredStep,
     UnfailedInit, UnfailedStep, PTL DEF DiscSpec
<1> QED
  BY <1>1, <1>2, SlotsInvariant, PTL

-----------------------------------------------------------------------------
(* The count of subscriptions: none before the reports are known, then at    *)
(* most one for each report looked at, and all of them reports that notify.  *)
Counted ==
    /\ sub_count <= pending_idx /\ sub_count <= Len(pending_reports)
    /\ disc_state \in NoneYet => sub_count = 0
    /\ AllNotify(peer, pending_reports)

CountInv ==
    /\ link = "down" => sub_count = 0 /\ pending_reports = <<>>
    /\ link = "secured" => Counted

LEMMA CountTypes ==
    ASSUME Types
    PROVE  sub_count \in Nat /\ pending_idx \in Nat /\ Len(pending_reports) \in Nat
BY SlotTypes

LEMMA NoneNotify == ASSUME NEW p, NEW s, s = <<>> PROVE AllNotify(p, s) /\ Len(s) = 0
BY DEF AllNotify

LEMMA CountInit == DiscInit => CountInv
BY DEF DiscInit, CountInv

(* The pass for reports begins with nothing found and nothing counted. *)
LEMMA CountRestarts ==
    ASSUME Types, NEW k \in Nat, start_report_discovery(k), UNCHANGED connection, CountInv
    PROVE  CountInv'
<1>1. pending_reports' = <<>> /\ pending_idx' = 0 /\ sub_count' = 0
  BY ReportsMove
<1>2. AllNotify(peer', pending_reports') /\ Len(pending_reports') = 0
  BY <1>1, NoneNotify
<1> QED
  BY <1>1, <1>2 DEF CountInv, Counted

(* A handler that counts nothing, and moves past a report or to the first. *)
LEMMA CountMoves ==
    ASSUME Types, CountInv, UNCHANGED <<connection, pending_reports, sub_count>>,
           link = "secured" =>
              /\ disc_state' \in NoneYet => disc_state \in NoneYet
              /\ pending_idx' \in {pending_idx, pending_idx + 1}
                 \/ (disc_state \in NoneYet /\ pending_idx' \in Nat)
    PROVE  CountInv'
<1>1. CASE link = "secured"
  <2>1. Counted /\ sub_count \in Nat /\ pending_idx \in Nat
    BY <1>1, CountTypes DEF CountInv
  <2>2. sub_count <= pending_idx'
    BY <1>1, <2>1 DEF Counted
  <2>3. Counted'
    BY <1>1, <2>1, <2>2 DEF Counted, connection
  <2> QED
    BY <1>1, <2>3 DEF CountInv, connection
<1>2. CASE link # "secured"
  BY <1>2 DEF CountInv, connection
<1> QED
  BY <1>1, <1>2

LEMMA CountPassEnds ==
    ASSUME Types, CountInv, NEW k \in Nat, PassEnds(k), UNCHANGED connection
    PROVE  CountInv'
<1>1. CASE disc_state = "REPORT_MAP_CHRC" /\ start_report_discovery(k)
  BY <1>1, CountRestarts
<1>2. CASE /\ disc_state = "REPORT_CHRC" /\ pending_idx' = 0 /\ subscribe_pending(0, k)
           /\ UNCHANGED <<pending_reports, wired>>
  BY <1>2, CountMoves, PendingState DEF wired, NoneYet
<1>3. CASE /\ disc_state = "CCC" /\ pending_idx' = pending_idx + 1
           /\ subscribe_pending(pending_idx + 1, k) /\ UNCHANGED <<pending_reports, wired>>
  BY <1>3, CountMoves, PendingState DEF wired
<1>4. CASE disc_state = "REPORT_REF" /\ discover_ccc(pending_idx, k) /\ UNCHANGED <<pending, wired>>
  BY <1>4, CountMoves DEF pending, wired, discover_ccc, NoneYet
<1>5. CASE disc_state' \in {"IDLE", disc_state} /\ UNCHANGED <<pending, wired>>
  BY <1>5, CountMoves DEF pending, wired, NoneYet
<1> QED
  BY <1>1, <1>2, <1>3, <1>4, <1>5 DEF PassEnds

(* A subscription is counted for a report that is then behind. *)
LEMMA CountCcc == ASSUME Types, CountInv, CccFound PROVE CountInv'
<1>1. link = "secured" /\ disc_state = "CCC" /\ Counted
  BY DEF CccFound, Found, CountInv
<1>2. /\ sub_count \in Nat /\ pending_idx \in Nat /\ Len(pending_reports) \in Nat
      /\ pending_idx < Len(pending_reports)
  BY <1>1, CountTypes DEF Types
<1>3. /\ sub_count' \in {sub_count, sub_count + 1} /\ pending_idx' = pending_idx + 1
      /\ disc_state' \notin NoneYet /\ UNCHANGED <<connection, pending_reports>>
  BY PendingState DEF CccFound
<1>4. sub_count' <= pending_idx' /\ sub_count' <= Len(pending_reports)
  BY <1>1, <1>2, <1>3 DEF Counted
<1>5. Counted'
  BY <1>1, <1>3, <1>4 DEF Counted, connection
<1> QED
  BY <1>1, <1>3, <1>5 DEF CountInv, connection

LEMMA CountFound ==
    ASSUME Inv, Types, CountInv, HidsFound \/ MapFound \/ ReportFound \/ RefFound
    PROVE  CountInv'
<1>1. link = "secured" /\ UNCHANGED connection /\ Counted
  BY DEF HidsFound, MapFound, ReportFound, RefFound, Found, CountInv
<1>2. CASE HidsFound
  BY <1>1, <1>2, CountMoves DEF HidsFound, Found, pending, wired, NoneYet
<1>3. CASE MapFound
  <2>1. CASE start_report_discovery(1)
    BY <1>1, <2>1, CountRestarts
  <2>2. CASE UNCHANGED <<disc_state, pending, wired>>
    BY <1>1, <2>2, CountMoves DEF pending, wired
  <2> QED
    BY <1>3, <2>1, <2>2 DEF MapFound
<1>4. CASE ReportFound
  <2>1. sub_count = 0 /\ UNCHANGED <<sub_count, pending_idx, disc_state>> /\ pending_idx \in Nat
    BY <1>1, <1>4, CountTypes DEF ReportFound, Found, Counted, NoneYet, wired
  <2>2. AllNotify(peer, pending_reports')
    BY <1>1, <1>4, ReportsNotify DEF Counted
  <2>3. Len(pending_reports') \in Nat
    <3>1. pending_reports \in Seq(Nat) /\ Min(Matches) + 1 \in Nat
      BY <1>4, FoundHandle, SlotTypes DEF ReportFound
    <3> DEFINE h == Min(Matches) + 1
    <3> HIDE DEF h
    <3>2. pending_reports' \in {pending_reports, Append(pending_reports, h)} /\ h \in Nat
      BY <1>4, <3>1 DEF ReportFound, Collected, h
    <3> QED
      BY <3>1, <3>2
  <2> QED
    BY <1>1, <2>1, <2>2, <2>3 DEF CountInv, Counted, connection
<1>5. CASE RefFound
  BY <1>1, <1>5, CountMoves DEF RefFound, Found, discover_ccc, wired, NoneYet
<1> QED
  BY <1>2, <1>3, <1>4, <1>5

LEMMA CountRead ==
    ASSUME Inv, Types, CountInv,
           MapChunk \/ MapComplete \/ MapFailed \/ RefRead \/ RefFailed
    PROVE  CountInv'
<1>1. CASE MapChunk
  BY <1>1, CountMoves DEF MapChunk, pending, wired
<1>2. CASE MapComplete \/ MapFailed
  <2>1. PICK k \in Nat : start_report_discovery(k)
    BY <1>2 DEF MapComplete, MapFailed, Broken
  <2> QED
    BY <1>2, <2>1, CountRestarts DEF MapComplete, MapFailed
<1>3. CASE RefRead \/ RefFailed
  BY <1>3, CountMoves DEF RefRead, RefFailed, discover_ccc, wired, NoneYet
<1> QED
  BY <1>1, <1>2, <1>3

LEMMA CountStep == Inv /\ Types /\ CountInv /\ [DiscNext]_discVars => CountInv'
<1> SUFFICES ASSUME Inv, Types, CountInv, [DiscNext]_discVars PROVE CountInv'
  OBVIOUS
<1>1. ASSUME NEW p \in Peers, Secured(p) PROVE CountInv'
  <2>1. pending_reports' = <<>> /\ sub_count' = 0 /\ pending_idx' \in Nat /\ link' = "secured"
    BY <1>1, CountTypes DEF Secured, CountInv, pending, wired
  <2>2. AllNotify(peer', pending_reports') /\ Len(pending_reports') = 0
    BY <2>1, NoneNotify
  <2> QED
    BY <2>1, <2>2 DEF CountInv, Counted
<1>2. CASE HidsFound \/ MapFound \/ ReportFound \/ RefFound
  BY <1>2, CountFound
<1>3. CASE CccFound
  BY <1>3, CountCcc
<1>4. CASE NothingFound
  <2>1. PICK k \in Nat : PassEnds(k)
    BY <1>4 DEF NothingFound, Broken
  <2> QED
    BY <1>4, <2>1, CountPassEnds DEF NothingFound
<1>5. CASE MapChunk \/ MapComplete \/ MapFailed \/ RefRead \/ RefFailed
  BY <1>5, CountRead
<1>6. CASE Rejected \/ (\E p \in Peers : TornDown(p)) \/ UNCHANGED discVars
  BY <1>6, CountMoves DEF Rejected, TornDown, discVars, pending, wired
<1>7. CASE LinkLost \/ Disconnected
  BY <1>7 DEF LinkLost, Disconnected, CountInv
<1> QED
  BY <1>1, <1>2, <1>3, <1>4, <1>5, <1>6, <1>7 DEF DiscNext, Respond

-----------------------------------------------------------------------------
(* Discovery implements Subscriptions.  A subscription made anew is to the   *)
(* report whose descriptors are looked at, above all that are live (SlotInv).*)
LEMMA SubscribeStep ==
    ASSUME Types, SlotInv, CountInv, CccFound PROVE AsSubscriptions!Next
<1> DEFINE n == sub_count + 1
           v == pending_reports[pending_idx + 1]
           Sent == [p \in Peers |-> Notifiable(p)]
<1>1. /\ link = "secured" /\ disc_state = "CCC" /\ Counted /\ sub_count < MAX_REPORTS
      /\ UNCHANGED <<peer, LayoutOwner>>
  BY DEF CccFound, Found, CountInv, connection, map, LayoutOwner
<1>3. pending_idx \in Nat /\ pending_reports \in Seq(Nat)
  BY <1>1, SlotTypes
<1>4. /\ pending_idx + 1 \in 1 .. Len(pending_reports)
      /\ pending_idx + 1 \in pending_idx + 1 .. Len(pending_reports)
  BY <1>1, <1>3 DEF Types
<1>5. \A i \in Live : subs[i].value_handle < v
  BY <1>1, <1>3, <1>4, SlotTypes DEF SlotInv
<1>6. v \in Sent[peer]
  BY <1>1, <1>4 DEF Counted, AllNotify, Types, DiscTypeOK
<1>7. /\ Live' \subseteq Live \union {n}
      /\ n \in Live' => subs'[n].value_handle = v
      /\ \A i \in Live' \ {n} : subs'[i] = subs[i]
  BY SlotWritten DEF Slot
<1> HIDE DEF v, n, Sent
<1>12. CASE n \in Live'
  <2>1. v \in LiveHandles' /\ LiveHandles' \subseteq LiveHandles \union {v}
    BY <1>7, <1>12 DEF LiveHandles
  <2>2. \A g \in LiveHandles : g < v
    BY <1>5 DEF LiveHandles
  <2>3. AsSubscriptions!Subscribe(v)
    BY <1>1, <2>1, <2>2 DEF AsSubscriptions!Subscribe
  <2>4. peer # None
    BY <1>1 DEF Types, DiscTypeOK
  <2> QED
    BY <1>6, <2>3, <2>4 DEF AsSubscriptions!Next, Sent
<1>13. CASE n \notin Live'
  <2>1. LiveHandles' \subseteq LiveHandles
    BY <1>7, <1>13 DEF LiveHandles
  <2> QED
    BY <1>1, <2>1 DEF AsSubscriptions!Next, AsSubscriptions!Shed
<1> QED
  BY <1>12, <1>13

LEMMA LearnStep ==
    ASSUME Inv, Types, SlotInv, MapComplete
    PROVE  AsSubscriptions!Learn \/ UNCHANGED <<peer, LayoutOwner, LiveHandles>>
<1>1. link = "secured" /\ disc_state = "REPORT_MAP_CHRC" /\ ~layout_valid
  BY DEF MapComplete, Reading, Inv, AnswerFindsItsState, StateOf, NoReq, NoLayoutYet
<1>2. Live = {} /\ Live' = {} /\ UNCHANGED peer
  BY <1>1, NoneLive DEF SlotInv, NoneYet, MapComplete, start_report_discovery, connection
<1>3. LiveHandles = {} /\ UNCHANGED LiveHandles
  BY <1>2 DEF LiveHandles
<1>4. peer # None
  BY <1>1 DEF Types, DiscTypeOK
<1>5. CASE layout'.report_id # NoPointer
  <2>1. layout'.of = peer
    <3>1. layout' \in {[of |-> peer, report_id |-> PointerId[peer]], NoLayout}
      BY DEF MapComplete, Parsed
    <3>2. layout' # NoLayout
      BY <1>5 DEF NoLayout
    <3> QED
      BY <3>1, <3>2
  <2>2. layout_valid'
    BY <1>5 DEF MapComplete
  <2>3. LayoutOwner = None /\ LayoutOwner' = peer
    BY <1>1, <2>1, <2>2 DEF LayoutOwner
  <2> QED
    BY <1>2, <1>3, <1>4, <2>3 DEF AsSubscriptions!Learn
<1>6. CASE layout'.report_id = NoPointer
  <2>1. layout_valid' = FALSE
    BY <1>1, <1>6 DEF MapComplete
  <2> QED
    BY <1>1, <1>2, <1>3, <2>1 DEF LayoutOwner
<1> QED
  BY <1>5, <1>6

LEMMA SubscriptionSteps ==
    ASSUME Inv, Types, SlotInv, CountInv, [DiscNext]_discVars
    PROVE  [AsSubscriptions!Next]_<<peer, LayoutOwner, LiveHandles>>
<1>1. ASSUME NEW p \in Peers, Secured(p) PROVE AsSubscriptions!Next
  <2>1. peer = None /\ peer' = p /\ ~layout_valid /\ layout_valid' = FALSE
    BY <1>1 DEF Secured, Types, DiscTypeOK, Inv, LayoutIsThisPeers
  <2>2. Live = {} /\ Live' = {}
    BY <1>1, NoneLive DEF Secured, SlotInv, wired
  <2>3. UNCHANGED <<LiveHandles, LayoutOwner>>
    BY <2>1, <2>2 DEF LiveHandles, LayoutOwner
  <2> QED
    BY <2>1, <2>3 DEF AsSubscriptions!Next, AsSubscriptions!Connect
<1>2. CASE CccFound
  BY <1>2, SubscribeStep
<1>3. CASE MapComplete
  BY <1>3, LearnStep DEF AsSubscriptions!Next
<1>4. CASE Rejected \/ \E p \in Peers : TornDown(p)
  <2>1. \A i \in Live' : i \in Live /\ subs'[i] = subs[i]
    BY <1>4, LiveFewer
  <2>2. LiveHandles' \subseteq LiveHandles
    BY <2>1 DEF LiveHandles
  <2>3. UNCHANGED <<peer, layout, layout_valid>>
    BY <1>4, LiveFewer DEF connection, map
  <2> QED
    BY <2>2, <2>3 DEF LayoutOwner, AsSubscriptions!Next, AsSubscriptions!Shed
<1>5. CASE Disconnected
  <2>1. peer # None /\ peer' = None /\ LayoutOwner' = None /\ LiveHandles' = {}
    BY <1>5, NoneLive DEF Disconnected, Types, DiscTypeOK, LayoutOwner, LiveHandles
  <2> QED
    BY <2>1 DEF AsSubscriptions!Next, AsSubscriptions!Lose
<1>6. CASE \/ HidsFound \/ MapFound \/ ReportFound \/ RefFound \/ NothingFound
           \/ MapChunk \/ MapFailed \/ RefRead \/ RefFailed \/ LinkLost \/ UNCHANGED discVars
  <2>1. UNCHANGED <<peer, subs, layout, layout_valid>> /\ sub_count' \in {sub_count, 0}
    BY <1>6 DEF HidsFound, MapFound, ReportFound, RefFound, NothingFound, MapChunk, MapFailed,
                RefRead, RefFailed, LinkLost, PassEnds, start_report_discovery, connection,
                map, wired, discVars
  <2>2. LiveHandles' \subseteq LiveHandles
    BY <2>1, LiveShrinks DEF LiveHandles
  <2> QED
    BY <2>1, <2>2 DEF LayoutOwner, AsSubscriptions!Next, AsSubscriptions!Shed
<1> QED
  BY <1>1, <1>2, <1>3, <1>4, <1>5, <1>6 DEF DiscNext, Respond

(* Discovery implements Subscriptions, for any peers, tables and failures:   *)
(* the layout once and first, then the peer's reports in turn, none of them  *)
(* twice, and neither a layout nor a count left over for the next peer.      *)
THEOREM SubscriptionsImplemented == DiscSpec => ImplementsSubscriptions
<1> DEFINE I == Inv /\ Types /\ SlotInv /\ CountInv
<1>1. DiscInit => I /\ AsSubscriptions!Init
  <2>1. DiscInit => AsSubscriptions!Init
    BY NoneLive DEF DiscInit, AsSubscriptions!Init, LayoutOwner, LiveHandles
  <2> QED
    BY <2>1, InitInv, TypesInit, SlotsInit, CountInit
<1>2. I /\ [DiscNext]_discVars => I'
  BY StepInv, TypesStep, SlotsStep, CountStep
<1>3. I /\ [DiscNext]_discVars => [AsSubscriptions!Next]_<<peer, LayoutOwner, LiveHandles>>
  BY SubscriptionSteps
<1> QED
  BY <1>1, <1>2, <1>3, PTL DEF DiscSpec, ImplementsSubscriptions, AsSubscriptions!Spec

-----------------------------------------------------------------------------
(* The CCCs of two live slots stay apart: a CCC is searched for between its  *)
(* report and the next one, and the reports that are ahead lie beyond every  *)
(* CCC that is taken.  Nothing is asked of the peer.                         *)
ApartInv ==
    /\ DescriptorsApart
    /\ \A i \in Live : subs[i].value_handle < subs[i].ccc_handle
    /\ link = "secured" =>
         \A i \in Live : \A k \in pending_idx + 1 .. Len(pending_reports) :
            subs[i].ccc_handle < pending_reports[k]

LEMMA ApartInit == DiscInit => ApartInv
<1> SUFFICES ASSUME DiscInit PROVE ApartInv
  OBVIOUS
<1>1. Live = {}
  BY NoneLive DEF DiscInit
<1> QED
  BY <1>1 DEF DiscInit, ApartInv, DescriptorsApart

(* A handler that leaves the slots alone, and moves on or has none live. *)
LEMMA ApartMoves ==
    ASSUME Types, ApartInv, UNCHANGED subs, Live' \subseteq Live,
           link' = "secured" =>
             \/ Live' = {}
             \/ /\ link = "secured" /\ UNCHANGED pending_reports
                /\ pending_idx' \in Nat /\ pending_idx <= pending_idx'
    PROVE  ApartInv'
<1>2. DescriptorsApart' /\ \A i \in Live' : subs'[i].value_handle < subs'[i].ccc_handle
  BY DEF ApartInv, DescriptorsApart
<1>3. ASSUME link = "secured", UNCHANGED pending_reports,
             pending_idx' \in Nat, pending_idx <= pending_idx'
      PROVE  \A i \in Live : \A k \in pending_idx' + 1 .. Len(pending_reports) :
               subs[i].ccc_handle < pending_reports[k]
  <2>1. pending_idx \in Nat /\ Len(pending_reports) \in Nat
    BY SlotTypes
  <2>2. \A k \in pending_idx' + 1 .. Len(pending_reports) :
          k \in pending_idx + 1 .. Len(pending_reports)
    BY <1>3, <2>1, Later
  <2> QED
    BY <1>3, <2>2 DEF ApartInv
<1> QED
  BY <1>2, <1>3 DEF ApartInv

LEMMA ApartPassEnds ==
    ASSUME Types, SlotInv, ApartInv, NEW k \in Nat, PassEnds(k),
           UNCHANGED <<connection, hids_end_handle>>
    PROVE  ApartInv'
<1>1. /\ UNCHANGED <<link, peer, subs>> /\ pending_idx \in Nat
      /\ sub_count' \in {sub_count, 0} /\ Live' \subseteq Live
  <2>1. UNCHANGED <<link, peer, subs>> /\ sub_count' \in {sub_count, 0}
    BY DEF PassEnds, start_report_discovery, wired, connection
  <2> QED
    BY <2>1, SlotTypes, LiveShrinks
<1>2. link = "secured" /\ disc_state \in NoneYet => Live' = {}
  BY <1>1, NoneLive DEF SlotInv
<1>3. CASE disc_state = "REPORT_MAP_CHRC" /\ start_report_discovery(k)
  BY <1>1, <1>2, <1>3, ApartMoves DEF NoneYet
<1>4. CASE req' = NoReq /\ UNCHANGED <<pending, wired>>
  BY <1>1, <1>4, ApartMoves DEF pending
<1>5. CASE /\ disc_state = "REPORT_CHRC" /\ pending_idx' = 0 /\ subscribe_pending(0, k)
           /\ UNCHANGED <<pending_reports, wired>>
  BY <1>1, <1>2, <1>5, ApartMoves DEF NoneYet
<1>6. CASE discover_ccc(pending_idx, k) /\ UNCHANGED <<pending, wired>>
  BY <1>1, <1>6, ApartMoves DEF pending
<1>7. CASE /\ pending_idx' = pending_idx + 1 /\ subscribe_pending(pending_idx + 1, k)
           /\ UNCHANGED <<pending_reports, wired>>
  <2>1. pending_idx' \in Nat /\ pending_idx <= pending_idx'
    BY <1>1, <1>7
  <2> QED
    BY <1>1, <1>7, <2>1, ApartMoves
<1> QED
  BY <1>3, <1>4, <1>5, <1>6, <1>7 DEF PassEnds

LEMMA ApartCcc ==
    ASSUME Inv, Types, SlotInv, WireInv, ApartInv, CccFound PROVE ApartInv'
<1> DEFINE n == sub_count + 1
           m == Min(Matches)
           v == pending_reports[pending_idx + 1]
<1>1. /\ link = "secured" /\ link' = link /\ sub_count < MAX_REPORTS /\ Found("CCC")
      /\ pending_idx < Len(pending_reports) /\ UNCHANGED <<pending_reports, hids_end_handle>>
  BY DEF CccFound, Found, Types, connection
<1>2. pending_idx' = pending_idx + 1
  BY DEF CccFound
<1>3. /\ DOMAIN subs = 1 .. MAX_REPORTS /\ Live \subseteq DOMAIN subs
      /\ pending_idx \in Nat /\ pending_reports \in Seq(Nat)
  BY SlotTypes
<1>4. pending_idx + 1 \in 1 .. Len(pending_reports) /\ v \in Nat
  BY <1>1, <1>3
<1>5. \A i \in Live' : \/ i = n /\ subs'[i].value_handle = v /\ subs'[i].ccc_handle = m
                       \/ i \in Live /\ subs'[i] = subs[i]
  BY SlotWritten DEF Slot
<1>6. \A i \in Live : /\ subs[i].value_handle \in Nat
                      /\ subs[i].value_handle < v /\ subs[i].ccc_handle < v
                      /\ subs[i].value_handle < subs[i].ccc_handle
                      /\ subs[i].ccc_handle \in Nat
  <2>1. ASSUME NEW i \in Live
        PROVE  subs[i].ccc_handle \in Nat /\ subs[i].value_handle \in Nat
    <3>1. subs[i].ccc_handle \in Handles /\ subs[i].value_handle \in Handles
      BY <1>3 DEF Types, DiscTypeOK
    <3> QED
      BY <3>1, Handle
  <2>2. pending_idx + 1 \in pending_idx + 1 .. Len(pending_reports)
    BY <1>3, <1>4
  <2> QED
    BY <1>1, <2>1, <2>2 DEF ApartInv, SlotInv
<1>7. m \in Nat /\ v < m /\ \A k \in pending_idx + 2 .. Len(pending_reports) : m < pending_reports[k]
  BY <1>1, FoundBetween DEF Found
<1>9. \A i \in Live' : \A k \in pending_idx' + 1 .. Len(pending_reports') :
        subs'[i].ccc_handle < pending_reports'[k]
  <2> SUFFICES ASSUME NEW i \in Live', NEW k \in pending_idx' + 1 .. Len(pending_reports)
               PROVE  subs'[i].ccc_handle < pending_reports[k]
    BY <1>1
  <2>1. k \in pending_idx + 2 .. Len(pending_reports) /\ k \in pending_idx + 1 .. Len(pending_reports)
    BY <1>2, <1>3
  <2> QED
    BY <1>1, <1>5, <1>7, <2>1 DEF ApartInv
<1> HIDE DEF n, m, v
<1>10. \A i \in Live' : subs'[i].value_handle < subs'[i].ccc_handle
  BY <1>5, <1>6, <1>7
<1>11. ASSUME NEW i \in Live', NEW j \in Live',
              subs'[i].value_handle < subs'[j].value_handle
       PROVE  subs'[i].ccc_handle \in
                subs'[i].value_handle + 1 .. subs'[j].value_handle - 1
  <2>1. CASE i \in Live /\ j \in Live /\ subs'[i] = subs[i] /\ subs'[j] = subs[j]
    BY <1>11, <2>1 DEF ApartInv, DescriptorsApart
  <2>2. CASE /\ i \in Live /\ subs'[i] = subs[i]
             /\ subs'[j].value_handle = v
    BY <1>4, <1>6, <2>2
  <2>3. CASE /\ subs'[i].value_handle = v
             /\ subs'[j].value_handle = v \/ (j \in Live /\ subs'[j] = subs[j])
    BY <1>4, <1>6, <1>11, <2>3
  <2> QED
    BY <1>5, <2>1, <2>2, <2>3
<1>12. DescriptorsApart'
  BY <1>11 DEF DescriptorsApart
<1> QED
  BY <1>9, <1>10, <1>12 DEF ApartInv

LEMMA ApartStep ==
    Inv /\ Types /\ SlotInv /\ WireInv /\ ApartInv /\ [DiscNext]_discVars => ApartInv'
<1> SUFFICES ASSUME Inv, Types, SlotInv, WireInv, ApartInv, [DiscNext]_discVars PROVE ApartInv'
  OBVIOUS
<1>0. pending_idx \in Nat
  BY SlotTypes
<1>1. ASSUME NEW p \in Peers, Secured(p) PROVE ApartInv'
  <2>1. Live' = {} /\ UNCHANGED subs
    BY <1>1, NoneLive DEF Secured, SlotInv, wired
  <2> QED
    BY <2>1, ApartMoves
<1>2. CASE HidsFound \/ MapFound \/ ReportFound \/ MapChunk
  <2>1. link = "secured" /\ disc_state \in NoneYet
    BY <1>2 DEF HidsFound, MapFound, ReportFound, MapChunk, Found, Reading, NoneYet,
                Inv, AnswerFindsItsState, StateOf, NoReq
  <2>2. sub_count = 0
    BY <2>1 DEF SlotInv
  <2>3. UNCHANGED subs /\ Live' = {}
    BY <1>2, <2>2, ReportsMove, NoneLive DEF HidsFound, MapFound, ReportFound, MapChunk, wired
  <2> QED
    BY <2>3, ApartMoves
<1>3. CASE MapComplete \/ MapFailed
  <2>1. PICK k \in Nat : start_report_discovery(k)
    BY <1>3 DEF MapComplete, MapFailed, Broken
  <2>2. Live' = {} /\ UNCHANGED subs
    BY <2>1, ReportsMove, NoneLive
  <2> QED
    BY <2>2, ApartMoves
<1>4. CASE RefFound \/ RefRead \/ RefFailed
  <2>1. UNCHANGED <<link, peer, wired, pending_reports, pending_idx>>
    BY <1>4 DEF RefFound, RefRead, RefFailed, connection
  <2> QED
    BY <1>0, <2>1, LiveSame, ApartMoves DEF wired
<1>5. CASE CccFound
  BY <1>5, ApartCcc
<1>6. CASE NothingFound
  <2>1. PICK k \in Nat : PassEnds(k)
    BY <1>6 DEF NothingFound, Broken
  <2> QED
    BY <1>6, <2>1, ApartPassEnds DEF NothingFound
<1>7. CASE Rejected \/ \E p \in Peers : TornDown(p)
  <2>1. \A i \in Live' : i \in Live /\ subs'[i] = subs[i]
    BY <1>7, LiveFewer
  <2>2. UNCHANGED <<link, pending_reports, pending_idx>>
    BY <1>7, LiveFewer DEF connection, pending
  <2>3. DescriptorsApart'
    BY <2>1 DEF ApartInv, DescriptorsApart
  <2> QED
    BY <2>1, <2>2, <2>3 DEF ApartInv
<1>8. CASE LinkLost \/ Disconnected
  <2>1. UNCHANGED subs /\ link' # "secured" /\ Live' \subseteq Live
    BY <1>8, LiveSame, NoneLive DEF LinkLost, Disconnected, wired
  <2> QED
    BY <2>1, ApartMoves
<1>9. CASE UNCHANGED discVars
  <2>1. UNCHANGED <<link, peer, wired, pending_reports, pending_idx>>
    BY <1>9 DEF discVars, pending, connection
  <2> QED
    BY <1>0, <2>1, LiveSame, ApartMoves DEF wired
<1> QED
  BY <1>1, <1>2, <1>3, <1>4, <1>5, <1>6, <1>7, <1>8, <1>9 DEF DiscNext, Respond

(* No report that is subscribed to is given the CCC of another, whatever the *)
(* tables of the peers leave out and whatever fails (cur_report_end_handle). *)
THEOREM ApartCorrect == DiscSpec => []DescriptorsApart
<1>1. ApartInv => DescriptorsApart
  BY DEF ApartInv
<1> QED
  BY <1>1, InitInv, StepInv, TypesInit, TypesStep, SlotsInit, SlotsStep,
     WiredInit, WiredStep, ApartInit, ApartStep, PTL DEF DiscSpec
=============================================================================
