-------------------------- MODULE ReportPathProofs --------------------------
(***************************************************************************)
(* Proofs about ReportPath for every set of peers, every capacity of the   *)
(* queue and any number of failures.  That no report is stranded holds for *)
(* both ways of scheduling the two threads; that a report is decoded with  *)
(* its own peer's layout, and that nothing stays held without a link, for  *)
(* the cooperative one.                                                    *)
(***************************************************************************)
EXTENDS ReportPath, DiscoveryProofs

(* NoReportStranded is inductive as it stands: the handler leaves only when  *)
(* it has found the queue empty, and whoever fills it submits the handler.   *)
LEMMA StrandedStep == NoReportStranded /\ [Next]_vars => NoReportStranded'
<1> SUFFICES ASSUME NoReportStranded, [Next]_vars PROVE NoReportStranded'
  OBVIOUS
<1> USE DEF NoReportStranded
<1>1. ASSUME NEW i \in DOMAIN subs, Notify(i) PROVE NoReportStranded'
  BY <1>1 DEF Notify
<1>2. CASE LinkDown
  BY <1>2 DEF LinkDown
<1>3. CASE Discovering
  BY <1>3 DEF Discovering, pathVars
<1>4. CASE HandlerStep
  BY <1>4 DEF HandlerStep, Start, Get, Leave, CheckValid, CheckId, Publish
<1>5. CASE UNCHANGED vars
  BY <1>5 DEF vars, pathVars
<1> QED
  BY <1>1, <1>2, <1>3, <1>4, <1>5 DEF Next

(* A queued report always has a handler coming for it, preempted or not. *)
THEOREM NoneStranded == Spec => []NoReportStranded
<1>1. Init => NoReportStranded
  BY DEF Init, NoReportStranded
<1> QED
  BY <1>1, StrandedStep, PTL DEF Spec

-----------------------------------------------------------------------------
(* Discovery's invariant holds beside the report path. *)
LEMMA PathSteps == [Next]_vars => [DiscNext]_discVars
<1> SUFFICES ASSUME [Next]_vars PROVE [DiscNext]_discVars
  OBVIOUS
<1>1. ASSUME NEW i \in DOMAIN subs, Notify(i) PROVE UNCHANGED discVars
  BY <1>1 DEF Notify
<1>2. CASE LinkDown
  BY <1>2 DEF LinkDown, DiscNext
<1>3. CASE Discovering
  BY <1>3 DEF Discovering, DiscNext
<1>4. CASE HandlerStep
  BY <1>4 DEF HandlerStep, Start, Get, Leave, CheckValid, CheckId, Publish
<1>5. CASE UNCHANGED vars
  BY <1>5 DEF vars
<1> QED
  BY <1>1, <1>2, <1>3, <1>4, <1>5 DEF Next

(* The queue is a sequence; of what, its capacity and the peers decide. *)
QueueShape == \E S : report_msgq \in Seq(S)

(* Every report that is queued or being handled is the present peer's. *)
OwnReports ==
    /\ \A n \in 1 .. Len(report_msgq) : report_msgq[n].from = peer
    /\ hpc \in {"valid", "match", "publish"} => evt.from = peer
    /\ hpc \in {"match", "publish"} => layout_valid

(* Without a link the path is empty: disconnected left it so. *)
QuietWithoutLink ==
    link = "down" =>
        /\ report_msgq = <<>> /\ held = FALSE
        /\ hpc \notin {"valid", "match", "publish"}

PathInv == QueueShape /\ OwnReports /\ QuietWithoutLink /\ OwnLayoutDecodes

LEMMA PathInit == Init => PathInv
<1> SUFFICES ASSUME Init PROVE PathInv
  OBVIOUS
<1>1. report_msgq \in Seq({}) /\ Len(report_msgq) = 0
  BY DEF Init
<1> QED
  BY <1>1 DEF Init, PathInv, QueueShape, OwnReports, QuietWithoutLink,
              OwnLayoutDecodes, NoOut, NoEvt

LEMMA Appended ==
    ASSUME NEW S, NEW q \in Seq(S), NEW e
    PROVE  /\ Append(q, e) \in Seq(S \union {e})
           /\ \A n \in 1 .. Len(Append(q, e)) :
                 Append(q, e)[n] = e \/ (n \in 1 .. Len(q) /\ Append(q, e)[n] = q[n])
<1>1. q \in Seq(S \union {e})
  OBVIOUS
<1> QED
  BY <1>1

LEMMA Taken ==
    ASSUME NEW S, NEW q \in Seq(S), q # <<>>
    PROVE  /\ Tail(q) \in Seq(S) /\ 1 \in 1 .. Len(q) /\ Head(q) = q[1]
           /\ \A n \in 1 .. Len(Tail(q)) : n + 1 \in 1 .. Len(q) /\ Tail(q)[n] = q[n + 1]
OBVIOUS

(* While the handler runs no other thread does, so what it has checked stays *)
(* true until it publishes.                                                  *)
LEMMA PathStep ==
    ASSUME Cooperative = TRUE, Inv, PathInv, [Next]_vars PROVE PathInv'
<1> USE DEF PathInv
<1>1. ASSUME NEW i \in DOMAIN subs, Notify(i) PROVE PathInv'
  <2>1. PICK S : report_msgq \in Seq(S)
    BY DEF QueueShape
  <2>2. report_msgq' = Append(report_msgq, Evt(i)) /\ Evt(i).from = peer
    BY <1>1 DEF Notify, Evt
  <2>3. QueueShape' /\ \A n \in 1 .. Len(report_msgq') : report_msgq'[n].from = peer
    <3>1. /\ report_msgq' \in Seq(S \union {Evt(i)})
          /\ \A n \in 1 .. Len(report_msgq') :
                report_msgq'[n] = Evt(i)
                  \/ (n \in 1 .. Len(report_msgq) /\ report_msgq'[n] = report_msgq[n])
      BY <2>1, <2>2, Appended
    <3>2. QueueShape'
      BY <3>1 DEF QueueShape
    <3>3. ASSUME NEW n \in 1 .. Len(report_msgq') PROVE report_msgq'[n].from = peer
      BY <3>1, <2>2 DEF OwnReports
    <3> QED
      BY <3>2, <3>3
  <2>4. hpc = "idle" /\ link # "down" /\ UNCHANGED <<discVars, hpc, evt, out, held>>
    BY <1>1 DEF Notify, Dispatched, RxRuns, handlerVars
  <2> QED
    BY <2>3, <2>4 DEF discVars, connection, OwnReports, QuietWithoutLink, OwnLayoutDecodes
<1>2. CASE LinkDown
  <2>1. hpc' = "idle" /\ report_msgq' = <<>> /\ held' = FALSE /\ UNCHANGED out
    BY <1>2 DEF LinkDown, RxRuns, handlerVars
  <2>2. QueueShape' /\ Len(report_msgq') = 0
    <3>1. report_msgq' \in Seq({})
      BY <2>1
    <3> QED
      BY <2>1, <3>1 DEF QueueShape
  <2> QED
    BY <2>1, <2>2 DEF OwnReports, QuietWithoutLink, OwnLayoutDecodes
<1>3. CASE Discovering
  <2>1. hpc = "idle" /\ UNCHANGED pathVars
    BY <1>3 DEF Discovering, RxRuns
  <2>2. CASE \E p \in Peers : Secured(p)
    <3>1. report_msgq = <<>> /\ Len(report_msgq) = 0 /\ link' = "secured"
      BY <2>2 DEF Secured, QuietWithoutLink
    <3> QED
      BY <2>1, <3>1 DEF pathVars, QueueShape, OwnReports, QuietWithoutLink, OwnLayoutDecodes
  <2>3. CASE Respond \/ Rejected \/ LinkLost \/ \E p \in Peers : TornDown(p)
    <3>1. peer' = peer /\ (link' = "down" => link = "down")
      BY <2>3 DEF Respond, HidsFound, MapFound, ReportFound, RefFound, CccFound,
                  NothingFound, MapChunk, MapComplete, MapFailed, RefRead, RefFailed,
                  Rejected, LinkLost, TornDown, connection
    <3> QED
      BY <2>1, <3>1 DEF pathVars, QueueShape, OwnReports, QuietWithoutLink, OwnLayoutDecodes
  <2> QED
    BY <1>3, <2>2, <2>3 DEF Discovering
<1>4. CASE Get
  <2>1. UNCHANGED <<link, peer, layout_valid, held>> /\ OwnLayoutDecodes'
    BY <1>4 DEF Get, discVars, connection, map, OwnLayoutDecodes, NoOut, NoEvt
  <2>2. CASE report_msgq = <<>>
    BY <1>4, <2>1, <2>2
       DEF Get, QueueShape, OwnReports, QuietWithoutLink
  <2>3. CASE report_msgq # <<>>
    <3>1. PICK S : report_msgq \in Seq(S)
      BY DEF QueueShape
    <3>2. evt' = report_msgq[1] /\ report_msgq' = Tail(report_msgq) /\ hpc' = "valid"
      BY <1>4, <2>3, <3>1, Taken DEF Get
    <3>3. QueueShape' /\ \A n \in 1 .. Len(report_msgq') : report_msgq'[n].from = peer
      BY <2>3, <3>1, <3>2, Taken DEF OwnReports, QueueShape
    <3>4. evt'.from = peer
      BY <2>3, <3>1, <3>2, Taken DEF OwnReports
    <3> QED
      BY <2>1, <2>3, <3>2, <3>3, <3>4 DEF OwnReports, QuietWithoutLink
  <2> QED
    BY <2>2, <2>3
<1>5. CASE Start \/ Leave \/ CheckValid \/ CheckId
  <2>1. UNCHANGED <<link, peer, layout_valid, report_msgq, evt, out, held>>
    BY <1>5 DEF Start, Leave, CheckValid, CheckId, discVars, connection, map
  <2>2. /\ hpc' \in {"valid", "match", "publish"} => hpc \in {"valid", "match", "publish"}
        /\ hpc' \in {"match", "publish"} => layout_valid
    BY <1>5 DEF Start, Leave, CheckValid, CheckId, OwnReports
  <2> QED
    BY <2>1, <2>2 DEF QueueShape, OwnReports, QuietWithoutLink, OwnLayoutDecodes
<1>6. CASE Publish
  <2>1. evt.from = peer /\ layout.of = peer /\ link # "down"
    BY <1>6 DEF Publish, OwnReports, QuietWithoutLink, Inv, LayoutIsThisPeers
  <2>2. OwnLayoutDecodes'
    BY <1>6, <2>1 DEF Publish, OwnLayoutDecodes
  <2>3. hpc' = "get" /\ UNCHANGED <<link, peer, layout_valid, report_msgq, evt>>
    BY <1>6 DEF Publish, discVars, connection, map
  <2> QED
    BY <2>1, <2>2, <2>3 DEF QueueShape, OwnReports, QuietWithoutLink
<1>7. CASE UNCHANGED vars
  BY <1>7 DEF vars, discVars, connection, map, pathVars, QueueShape, OwnReports,
              QuietWithoutLink, OwnLayoutDecodes
<1> QED
  BY <1>1, <1>2, <1>3, <1>4, <1>5, <1>6, <1>7 DEF Next, HandlerStep

LEMMA PathInvariant == Cooperative = TRUE => (Spec => [](Inv /\ PathInv))
<1> SUFFICES ASSUME Cooperative = TRUE PROVE Spec => [](Inv /\ PathInv)
  OBVIOUS
<1>1. Init => Inv /\ PathInv
  BY InitInv, PathInit DEF Init
<1>2. Inv /\ PathInv /\ [Next]_vars => (Inv /\ PathInv)'
  BY PathSteps, StepInv, PathStep
<1> QED
  BY <1>1, <1>2, PTL DEF Spec

(* No report is decoded with another peer's layout, whichever peer connects  *)
(* next and however late the handler runs.                                   *)
THEOREM OwnDecodes == Cooperative = TRUE => (Spec => []OwnLayoutDecodes)
BY PathInvariant, PTL DEF PathInv

(* Nothing stays held once disconnected() has returned. *)
THEOREM NothingHeld == Cooperative = TRUE => (Spec => []NothingHeldWithoutLink)
<1>1. PathInv => NothingHeldWithoutLink
  BY DEF PathInv, QuietWithoutLink, NothingHeldWithoutLink
<1> QED
  BY <1>1, PathInvariant, PTL

-----------------------------------------------------------------------------
LEMMA EvtCounted == ASSUME NEW i PROVE Evt(i).counted <=> i <= sub_count
BY DEF Evt

(* What is counted stays so as long as the link. *)
LEMMA CountKeeps ==
    ASSUME Inv, Types, CountInv, link = "secured", Respond \/ Rejected
    PROVE  sub_count <= sub_count'
<1>1. Counted /\ sub_count \in Nat
  BY CountTypes DEF CountInv
<1>2. disc_state = "REPORT_MAP_CHRC" => sub_count = 0
  BY <1>1 DEF Counted, NoneYet
<1>3. CASE CccFound
  BY <1>1, <1>3 DEF CccFound
<1>4. CASE NothingFound
  <2>1. PICK k \in Nat : PassEnds(k)
    BY <1>4 DEF NothingFound, Broken
  <2> QED
    BY <1>1, <1>2, <2>1 DEF PassEnds, start_report_discovery, wired
<1>5. CASE MapFound \/ MapComplete \/ MapFailed
  <2>1. disc_state = "REPORT_MAP_CHRC"
    BY <1>5 DEF MapFound, MapComplete, MapFailed, Found, Reading, Inv, AnswerFindsItsState,
                StateOf, NoReq
  <2>2. sub_count' \in {0, sub_count}
    BY <1>5 DEF MapFound, MapComplete, MapFailed, start_report_discovery, wired
  <2> QED
    BY <1>2, <2>1, <2>2
<1>6. CASE \/ HidsFound \/ ReportFound \/ RefFound \/ MapChunk \/ RefRead \/ RefFailed
           \/ Rejected
  <2>1. UNCHANGED sub_count
    BY <1>6 DEF HidsFound, ReportFound, RefFound, MapChunk, RefRead, RefFailed, Rejected, wired
  <2> QED
    BY <1>1, <2>1
<1> QED
  BY <1>3, <1>4, <1>5, <1>6 DEF Respond

(* While a report that came by a counted subscription is on its way and the  *)
(* link is live, one is counted.                                             *)
CountedOnTheWay ==
    \/ \E n \in 1 .. Len(report_msgq) : report_msgq[n].counted
    \/ hpc \in {"valid", "match"} /\ evt.counted

FromCounted == link = "secured" /\ CountedOnTheWay => sub_count >= 1

LEMMA FromCountedStep ==
    ASSUME Cooperative = TRUE, Inv, Types, SlotInv, CountInv, PathInv, FromCounted, [Next]_vars
    PROVE  FromCounted'
<1> USE DEF FromCounted
<1>0. /\ sub_count \in Nat
      /\ \E S : report_msgq \in Seq(S)
  BY CountTypes DEF PathInv, QueueShape
<1>1. ASSUME NEW i \in DOMAIN subs, Notify(i) PROVE FromCounted'
  <2>1. /\ UNCHANGED <<link, sub_count>> /\ hpc' = "idle"
        /\ report_msgq' = Append(report_msgq, Evt(i))
    BY <1>1 DEF Notify, RxRuns, handlerVars, discVars, connection, wired
  <2>2. Evt(i).counted => sub_count >= 1
    <3>1. i \in 1 .. MAX_REPORTS /\ MAX_REPORTS \in Nat
      BY <1>1, SlotTypes
    <3> QED
      BY <1>0, <3>1, EvtCounted
  <2>3. \A n \in 1 .. Len(report_msgq') :
           report_msgq'[n] = Evt(i)
             \/ (n \in 1 .. Len(report_msgq) /\ report_msgq'[n] = report_msgq[n])
    BY <1>0, <2>1, Appended
  <2> QED
    BY <2>1, <2>2, <2>3 DEF CountedOnTheWay
<1>2. CASE LinkDown
  BY <1>2 DEF LinkDown, Disconnected
<1>3. CASE Discovering
  <2>1. hpc' = "idle" /\ UNCHANGED report_msgq
    BY <1>3 DEF Discovering, RxRuns, pathVars
  <2>2. CASE \E p \in Peers : Secured(p)
    <3>1. Len(report_msgq') = 0
      BY <2>1, <2>2 DEF Secured, PathInv, QuietWithoutLink
    <3> QED
      BY <2>1, <3>1 DEF CountedOnTheWay
  <2>3. CASE Respond \/ Rejected
    <3>1. UNCHANGED link
      BY <2>3 DEF Respond, HidsFound, MapFound, ReportFound, RefFound, CccFound, NothingFound,
                  MapChunk, MapComplete, MapFailed, RefRead, RefFailed, Rejected, connection
    <3>2. sub_count' \in Nat
      <4>1. [DiscNext]_discVars
        BY <2>3 DEF DiscNext
      <4>2. sub_count' \in 0 .. MAX_REPORTS
        BY <4>1, TypesStep DEF Types, DiscTypeOK
      <4> QED
        BY <4>2, Bounds
    <3>3. link = "secured" => sub_count <= sub_count'
      BY <2>3, CountKeeps
    <3>4. CountedOnTheWay' => CountedOnTheWay
      BY <2>1 DEF CountedOnTheWay
    <3> QED
      BY <1>0, <3>1, <3>2, <3>3, <3>4
  <2>4. CASE LinkLost \/ \E p \in Peers : TornDown(p)
    BY <2>4 DEF LinkLost, TornDown, connection
  <2> QED
    BY <1>3, <2>2, <2>3, <2>4 DEF Discovering
<1>4. CASE HandlerStep \/ UNCHANGED vars
  <2>1. UNCHANGED <<link, sub_count>>
    BY <1>4 DEF HandlerStep, Start, Get, Leave, CheckValid, CheckId, Publish, vars, discVars,
                connection, wired
  <2>2. CountedOnTheWay' => CountedOnTheWay
    <3>1. CASE Get /\ report_msgq # <<>>
      BY <1>0, <3>1, Taken DEF Get, CountedOnTheWay
    <3>2. CASE Get /\ report_msgq = <<>>
      BY <3>2 DEF Get, CountedOnTheWay
    <3>3. CASE Start \/ Leave \/ CheckValid \/ CheckId \/ Publish \/ UNCHANGED vars
      BY <3>3 DEF Start, Leave, CheckValid, CheckId, Publish, vars, pathVars, CountedOnTheWay
    <3> QED
      BY <1>4, <3>1, <3>2, <3>3 DEF HandlerStep
  <2> QED
    BY <2>1, <2>2
<1> QED
  BY <1>1, <1>2, <1>3, <1>4 DEF Next

(* With a single report that notifies, no more than one is counted. *)
LEMMA OneAtMost ==
    ASSUME Types, SlotInv, Counted, link = "secured", Cardinality(Notifiable(peer)) = 1
    PROVE  sub_count <= 1
<1>1. peer \in Peers
  BY DEF Types, DiscTypeOK
<1>2. IsFiniteSet(Notifiable(peer))
  BY <1>1, FinitelyMany
<1>3. PICK v : Notifiable(peer) = {v}
  BY <1>2, FS_Singleton
<1>4. \A k \in 1 .. Len(pending_reports) : pending_reports[k] = v
  BY <1>3 DEF Counted, AllNotify
<1>5. \A k, l \in 1 .. Len(pending_reports) : ~(k < l)
  <2>1. \A k, l \in 1 .. Len(pending_reports) : k < l => v < v
    BY <1>4 DEF SlotInv, Increasing
  <2>2. \A k \in 1 .. Len(pending_reports) : v \in Nat
    BY <1>4, SlotTypes
  <2> QED
    BY <2>1, <2>2
<1>6. sub_count \in Nat /\ Len(pending_reports) \in Nat /\ sub_count <= Len(pending_reports)
  BY CountTypes DEF Counted
<1> QED
  BY <1>5, <1>6

(* A mouse with a single report that notifies is never silenced, whatever    *)
(* has failed: each report that comes by a subscription of this link and     *)
(* finds a layout is published.                                              *)
THEOREM LonePublished == Cooperative = TRUE => (Spec => LoneReportPublished)
<1> SUFFICES ASSUME Cooperative = TRUE PROVE Spec => LoneReportPublished
  OBVIOUS
<1> DEFINE I == Inv /\ Types /\ SlotInv /\ CountInv /\ PathInv /\ FromCounted
<1>1. Init => I
  <2>1. Init => FromCounted
    BY DEF Init, DiscInit, FromCounted
  <2> QED
    BY <2>1, InitInv, TypesInit, SlotsInit, CountInit, PathInit DEF Init
<1>2. I /\ [Next]_vars => I'
  BY PathSteps, StepInv, TypesStep, SlotsStep, CountStep, PathStep, FromCountedStep
<1>3. I /\ [Next]_vars =>
        [ CheckId /\ evt.counted /\ link = "secured" /\ Cardinality(Notifiable(peer)) = 1
          => hpc' = "publish" ]_vars
  <2> SUFFICES ASSUME I, CheckId, evt.counted, link = "secured",
                      Cardinality(Notifiable(peer)) = 1
               PROVE  hpc' = "publish"
    OBVIOUS
  <2>1. sub_count \in Nat /\ sub_count >= 1
    BY CountTypes DEF CheckId, FromCounted, CountedOnTheWay
  <2>2. sub_count <= 1
    BY OneAtMost DEF CountInv
  <2>3. sub_count = 1
    BY <2>1, <2>2
  <2> QED
    BY <2>3 DEF CheckId, Passes
<1> QED
  BY <1>1, <1>2, <1>3, PTL DEF Spec, LoneReportPublished

-----------------------------------------------------------------------------
(* Whose report is published.  While nothing has failed, a report on its way *)
(* that came by a counted subscription carries the ID of its own reference;  *)
(* and what the handler has checked is still so when it publishes, as no     *)
(* other thread has run.                                                     *)
Identified(p, e) ==
    e.counted =>
        e.value_handle \in Subscribable(p) /\ e.report_id = TableId(p, e.value_handle)

AllIdentified(p) ==
    /\ \A n \in 1 .. Len(report_msgq) : Identified(p, report_msgq[n])
    /\ hpc \in {"valid", "match", "publish"} => Identified(p, evt)

(* Each report that is subscribed to has a reference of its own. *)
Referenced(p) ==
    NoneBorrowed(p) /\ \A v \in Subscribable(p) : Own(p, v, "ref") # {}

IdentifiedInv == link = "secured" /\ faults = 0 /\ Referenced(peer) => AllIdentified(peer)

Checked == hpc = "publish" => Passes

(* A peer that has but one report to subscribe to, and a pointer, has no     *)
(* other report for a pointer.                                               *)
LoneIsPointer ==
    \A p \in Peers : \A v \in Subscribable(p) :
        Subscribable(p) = {v} /\ PointerId[p] # NoPointer => TableId(p, v) = PointerId[p]

(* A layout that is flagged valid is that of a pointer. *)
LayoutHasPointer == layout_valid => layout.report_id # NoPointer

LEMMA PointerStep == Inv /\ LayoutHasPointer /\ [DiscNext]_discVars => LayoutHasPointer'
<1> SUFFICES ASSUME Inv, LayoutHasPointer, [DiscNext]_discVars PROVE LayoutHasPointer'
  OBVIOUS
<1> USE DEF LayoutHasPointer
<1>1. CASE MapComplete
  <2>1. ~layout_valid
    BY <1>1 DEF MapComplete, Reading, Inv, NoLayoutYet
  <2> QED
    BY <1>1, <2>1 DEF MapComplete, Inv
<1>2. CASE (UNCHANGED layout_valid \/ layout_valid' = FALSE) /\ UNCHANGED layout
  BY <1>2
<1>3. MapComplete \/ ((UNCHANGED layout_valid \/ layout_valid' = FALSE) /\ UNCHANGED layout)
  BY DEF DiscNext, Respond, Secured, HidsFound, MapFound, ReportFound, RefFound, CccFound,
         NothingFound, MapChunk, MapFailed, RefRead, RefFailed, Rejected, LinkLost, TornDown,
         Disconnected, map, discVars
<1> QED
  BY <1>1, <1>2, <1>3

(* What has failed on a link is not forgotten while it lasts. *)
LEMMA FaultsStay ==
    ASSUME Types, [DiscNext]_discVars, link = "secured", link' = "secured", faults' = 0
    PROVE  faults = 0 /\ UNCHANGED peer
<1>1. CASE HidsFound \/ MapFound \/ ReportFound \/ RefFound
  BY <1>1, NoFault, CccUnfailed
     DEF HidsFound, MapFound, ReportFound, RefFound, start_report_discovery, Starts, connection
<1>2. CASE CccFound
  <2>1. PICK k \in Nat : subscribe_pending(pending_idx + 1, k)
    BY <1>2 DEF CccFound
  <2> QED
    BY <1>2, <2>1, PendingUnfailed DEF CccFound, connection
<1>3. CASE NothingFound
  <2>1. PICK k \in Nat : PassEnds(k)
    BY <1>3 DEF NothingFound, Broken
  <2> QED
    BY <1>3, <2>1, NoFault, CccUnfailed, PendingUnfailed
       DEF NothingFound, PassEnds, start_report_discovery, Starts, connection
<1>4. CASE MapChunk \/ MapComplete \/ MapFailed \/ RefRead \/ RefFailed
  <2>1. Broken \in Nat
    BY DEF Broken
  <2> QED
    BY <1>4, <2>1, NoFault, CccUnfailed
       DEF MapChunk, MapComplete, MapFailed, RefRead, RefFailed, start_report_discovery,
           Starts, connection
<1>5. CASE \/ Rejected \/ LinkLost \/ Disconnected
           \/ (\E p \in Peers : TornDown(p)) \/ UNCHANGED discVars
  BY <1>5, NoFault DEF Rejected, LinkLost, TornDown, Disconnected, connection, discVars
<1>6. CASE \E p \in Peers : Secured(p)
  BY <1>6 DEF Secured
<1> QED
  BY <1>1, <1>2, <1>3, <1>4, <1>5, <1>6 DEF DiscNext, Respond

(* A subscription that is live names its report and has its own ID. *)
LEMMA LiveIdentified ==
    ASSUME Types, SlotInv, UnfailedInv, link = "secured", faults = 0, Referenced(peer),
           NEW i \in Live
    PROVE  Identified(peer, Evt(i))
<1>1. i \in 1 .. sub_count /\ disc_state \notin NoneYet
  BY SlotTypes, NoneLive DEF SlotInv
<1>2. Collection = Kept(peer) /\ Subscribed
  BY <1>1 DEF UnfailedInv, Unfailed, Referenced, NoneYet, Types, DiscTypeOK, States
<1>3. pending_idx <= Len(pending_reports)
  <2>1. disc_state \in {"REPORT_REF", "CCC", "IDLE"}
    BY <1>1 DEF NoneYet, Types, DiscTypeOK, States
  <2>2. Len(pending_reports) \in Nat /\ pending_idx \in Nat
    BY SlotTypes
  <2> QED
    BY <2>1, <2>2 DEF Types, UnfailedInv, Unfailed, Referenced
<1>4. /\ \E k \in 1 .. Len(pending_reports) :
           subs[i].value_handle = pending_reports[k] /\ HasCcc(k)
      /\ Named(subs[i].value_handle, subs[i].report_id)
  <2>1. pending_idx \in Nat /\ Len(pending_reports) \in Nat
    BY SlotTypes
  <2>2. subs[i].value_handle \in {pending_reports[k] : k \in {l \in 1 .. pending_idx : HasCcc(l)}}
    BY <1>1, <1>2 DEF Subscribed
  <2>3. 1 .. pending_idx \subseteq 1 .. Len(pending_reports)
    BY <1>3, <2>1
  <2> QED
    BY <1>1, <1>2, <2>2, <2>3 DEF Subscribed
<1>5. subs[i].value_handle \in Subscribable(peer)
  BY <1>2, <1>4 DEF Collection, Subscribable, HasCcc
<1> QED
  BY <1>4, <1>5 DEF Identified, Evt, TableId, OwnId, Named, Referenced

LEMMA IdentifiedStep ==
    ASSUME Cooperative = TRUE, Types, SlotInv, UnfailedInv, PathInv, IdentifiedInv, [Next]_vars
    PROVE  IdentifiedInv'
<1> SUFFICES ASSUME link' = "secured", faults' = 0, Referenced(peer')
             PROVE  AllIdentified(peer)'
  BY DEF IdentifiedInv
<1>1. ASSUME NEW p \in Peers, Secured(p), Discovering PROVE AllIdentified(peer)'
  <2>1. report_msgq = <<>> /\ UNCHANGED <<report_msgq, hpc>> /\ hpc = "idle"
    BY <1>1 DEF Secured, PathInv, QuietWithoutLink, Discovering, pathVars, RxRuns
  <2>2. Len(report_msgq') = 0 /\ hpc' = "idle"
    BY <2>1
  <2> QED
    BY <2>2 DEF AllIdentified
<1>2. CASE link = "secured"
  <2>1. faults = 0 /\ peer' = peer /\ Referenced(peer) /\ AllIdentified(peer)
    <3>1. faults = 0 /\ UNCHANGED peer
      BY <1>2, PathSteps, FaultsStay
    <3> QED
      BY <1>2, <3>1 DEF IdentifiedInv
  <2>2. PICK S : report_msgq \in Seq(S)
    BY DEF PathInv, QueueShape
  <2>3. ASSUME NEW i \in DOMAIN subs, Notify(i) PROVE AllIdentified(peer)'
    <3>1. Identified(peer, Evt(i))
      <4>1. i \in 1 .. MAX_REPORTS /\ MAX_REPORTS \in Nat /\ sub_count \in Nat
        BY <2>3, SlotTypes
      <4>2. Evt(i).counted => i \in Live
        BY <2>3, <4>1, EvtCounted DEF Live, Notify, Dispatched
      <4> QED
        BY <1>2, <2>1, <4>2, LiveIdentified DEF Identified
    <3>2. report_msgq' = Append(report_msgq, Evt(i)) /\ hpc' = "idle"
      BY <2>3 DEF Notify, RxRuns, handlerVars
    <3>3. \A n \in 1 .. Len(report_msgq') :
             report_msgq'[n] = Evt(i)
               \/ (n \in 1 .. Len(report_msgq) /\ report_msgq'[n] = report_msgq[n])
      BY <2>2, <3>2, Appended
    <3>4. \A n \in 1 .. Len(report_msgq') : Identified(peer, report_msgq'[n])
      BY <2>1, <3>1, <3>3 DEF AllIdentified
    <3> QED
      BY <2>1, <3>2, <3>4 DEF AllIdentified
  <2>4. CASE Get
    <3>1. CASE report_msgq = <<>>
      BY <2>1, <2>4, <3>1 DEF Get, AllIdentified
    <3>2. CASE report_msgq # <<>>
      <4>1. evt' = report_msgq[1] /\ report_msgq' = Tail(report_msgq) /\ 1 \in 1 .. Len(report_msgq)
        BY <2>2, <2>4, <3>2, Taken DEF Get
      <4>2. \A n \in 1 .. Len(report_msgq') :
               n + 1 \in 1 .. Len(report_msgq) /\ report_msgq'[n] = report_msgq[n + 1]
        BY <2>2, <3>2, <4>1, Taken
      <4> QED
        BY <2>1, <4>1, <4>2 DEF AllIdentified
    <3> QED
      BY <3>1, <3>2
  <2>5. CASE Start \/ Leave \/ CheckValid \/ CheckId \/ Publish
    <3>1. UNCHANGED <<report_msgq, evt>>
          /\ (hpc' \in {"valid", "match", "publish"} => hpc \in {"valid", "match", "publish"})
      BY <2>5 DEF Start, Leave, CheckValid, CheckId, Publish
    <3> QED
      BY <2>1, <3>1 DEF AllIdentified
  <2>6. CASE Discovering \/ LinkDown \/ UNCHANGED vars
    <3>1. UNCHANGED <<report_msgq, hpc, evt>>
      BY <1>2, <2>6 DEF Discovering, LinkDown, Disconnected, vars, pathVars
    <3> QED
      BY <2>1, <3>1 DEF AllIdentified
  <2> QED
    BY <2>3, <2>4, <2>5, <2>6 DEF Next, HandlerStep
<1>3. link = "secured" \/ (Discovering /\ \E p \in Peers : Secured(p))
  <2>1. [DiscNext]_discVars
    BY PathSteps
  <2>2. ASSUME \/ Respond \/ Rejected \/ LinkLost \/ Disconnected
               \/ (\E p \in Peers : TornDown(p)) \/ UNCHANGED discVars
        PROVE  link = "secured"
    BY <2>2 DEF Respond, HidsFound, MapFound, ReportFound, RefFound, CccFound, NothingFound,
                MapChunk, MapComplete, MapFailed, RefRead, RefFailed, Rejected, LinkLost,
                TornDown, Disconnected, connection, discVars
  <2>3. ASSUME link # "secured" PROVE Discovering
    <3>1. link' # link
      BY <2>3
    <3>2. CASE HandlerStep \/ UNCHANGED vars
      BY <3>1, <3>2 DEF HandlerStep, Start, Get, Leave, CheckValid, CheckId, Publish, vars,
                        discVars, connection
    <3>3. ASSUME NEW i \in DOMAIN subs, Notify(i) PROVE FALSE
      BY <3>1, <3>3 DEF Notify, discVars, connection
    <3>4. ~LinkDown
      BY DEF LinkDown, Disconnected
    <3> QED
      BY <3>2, <3>3, <3>4 DEF Next
  <2>4. ASSUME NEW q \in Peers, Secured(q) PROVE Discovering
    BY <2>3, <2>4 DEF Secured
  <2> QED
    BY <2>1, <2>2, <2>4 DEF DiscNext
<1> QED
  BY <1>1, <1>2, <1>3

LEMMA CheckedStep == ASSUME Cooperative = TRUE, Checked, [Next]_vars PROVE Checked'
<1>1. CASE hpc' # "publish"
  BY <1>1 DEF Checked
<1>2. CASE CheckId \/ UNCHANGED vars
  BY <1>2 DEF CheckId, Checked, Passes, vars, pathVars, discVars, wired, map
<1>3. hpc' # "publish" \/ CheckId \/ UNCHANGED vars
  BY DEF Next, Notify, LinkDown, Discovering, RxRuns, HandlerStep, Start, Get, Leave,
         CheckValid, Publish, pathVars, handlerVars
<1> QED
  BY <1>1, <1>2, <1>3

(* Once discovery has ended without a failure, only the pointer's reports    *)
(* become motion (report_work_handler), of those that come by a subscription *)
(* of this link: one of several subscriptions is told by its own ID, and a   *)
(* subscription that is alone is that of the pointer.                        *)
THEOREM PointerOnly ==
    Cooperative = TRUE /\ LoneIsPointer
        => (Spec => [](Referenced(peer) => OnlyPointerOnceWired))
<1> SUFFICES ASSUME Cooperative = TRUE, LoneIsPointer
             PROVE  Spec => [](Referenced(peer) => OnlyPointerOnceWired)
  OBVIOUS
<1> DEFINE I == /\ Inv /\ Types /\ SlotInv /\ WireInv /\ UnfailedInv
                /\ PathInv /\ IdentifiedInv /\ Checked /\ LayoutHasPointer
<1>1. Init => I
  <2>1. Init => IdentifiedInv /\ Checked /\ LayoutHasPointer
    BY DEF Init, DiscInit, IdentifiedInv, Checked, LayoutHasPointer
  <2> QED
    BY <2>1, InitInv, TypesInit, SlotsInit, WiredInit, UnfailedInit, PathInit DEF Init
<1>2. I /\ [Next]_vars => I'
  BY PathSteps, StepInv, TypesStep, SlotsStep, WiredStep, UnfailedStep, PathStep,
     IdentifiedStep, CheckedStep, PointerStep
<1>3. I => (Referenced(peer) => OnlyPointerOnceWired)
  <2> SUFFICES ASSUME I, Referenced(peer), link = "secured", disc_state = "IDLE",
                      faults = 0, hpc = "publish", evt.counted
               PROVE  TableId(evt.from, evt.value_handle) = PointerId[evt.from]
    BY DEF OnlyPointerOnceWired
  <2>1. /\ evt.from = peer /\ peer \in Peers
        /\ layout_valid /\ layout.report_id = PointerId[peer]
    BY DEF PathInv, OwnReports, Inv, LayoutIsThisPeers, Types, DiscTypeOK
  <2>2. Identified(peer, evt)
    BY DEF IdentifiedInv, AllIdentified
  <2>3. CASE evt.report_id = layout.report_id
    BY <2>1, <2>2, <2>3 DEF Identified
  <2>4. CASE sub_count = 1
    <3>1. Subscribable(peer) = {subs[k].value_handle : k \in 1 .. 1}
      <4>1. /\ Collection = Kept(peer) /\ pending_idx = Len(pending_reports)
            /\ {subs[k].value_handle : k \in 1 .. 1}
                 = {pending_reports[k] : k \in {l \in 1 .. pending_idx : HasCcc(l)}}
        BY <2>4 DEF UnfailedInv, Unfailed, Subscribed, Referenced
      <4> QED
        BY <4>1 DEF Collection, Subscribable, HasCcc
    <3>2. Subscribable(peer) = {evt.value_handle}
      <4>1. 1 .. 1 = {1}
        OBVIOUS
      <4> QED
        BY <2>2, <3>1, <4>1 DEF Identified
    <3> QED
      BY <2>1, <3>2 DEF LoneIsPointer, LayoutHasPointer
  <2> QED
    BY <2>3, <2>4 DEF Checked, Passes
<1> QED
  BY <1>1, <1>2, <1>3, PTL DEF Spec

-----------------------------------------------------------------------------
(* ReportPath implements Delivery. *)

(* What is on its way, step by step: the handler passes the oldest report on *)
(* from the queue to its local without a change.                             *)
LEMMA TakenFirst ==
    ASSUME NEW S, NEW q \in Seq(S), q # <<>>
    PROVE  <<Head(q)>> \o Tail(q) = q
OBVIOUS

LEMMA OldestGone ==
    ASSUME NEW S, NEW q \in Seq(S), NEW e
    PROVE  /\ <<e>> \o q # <<>>
           /\ Head(<<e>> \o q) = e
           /\ Tail(<<e>> \o q) = q
<1>1. q \in Seq(S \union {e}) /\ <<e>> \in Seq(S \union {e})
  OBVIOUS
<1> QED
  BY <1>1

LEMMA NewestAdded ==
    ASSUME NEW S, NEW q \in Seq(S), NEW e
    PROVE  Len(q) + 1 \in DOMAIN Append(q, e) /\ Append(q, e)[Len(q) + 1] = e
<1>1. q \in Seq(S \union {e})
  OBVIOUS
<1> QED
  BY <1>1

(* The steps of Delivery, each with the action of ReportPath that takes it.  *)
LEMMA DeliverySteps ==
    ASSUME Cooperative = TRUE, Inv, Types, PathInv, [Next]_vars
    PROVE  [AsDelivery!Next]_<<peer, OnTheWay, out, held>>
<1> DEFINE Sent == [p \in Peers |-> Notifiable(p)]
<1>0. PICK S : report_msgq \in Seq(S)
  BY DEF PathInv, QueueShape
<1>1. link = "down" <=> peer = None
  BY DEF Types, DiscTypeOK
<1>2. ASSUME NEW i \in DOMAIN subs, Notify(i) PROVE AsDelivery!Arrive
  <2>1. /\ OnTheWay = report_msgq /\ OnTheWay' = Append(report_msgq, Evt(i))
        /\ Len(report_msgq) < MsgqMax /\ UNCHANGED <<peer, out, held>>
    BY <1>2 DEF Notify, RxRuns, OnTheWay, handlerVars, discVars, connection
  <2>2. link # "down" /\ subs[i].value_handle \in Notifiable(peer)
    BY <1>2 DEF Notify, Dispatched
  <2>3. peer # None /\ peer \in Peers
    BY <1>1, <2>2 DEF Types, DiscTypeOK
  <2>4. Evt(i).from = peer /\ Evt(i).value_handle \in Sent[peer]
    BY <2>2, <2>3 DEF Evt
  <2>5. \E n \in DOMAIN OnTheWay' : OnTheWay'[n] = Evt(i)
    BY <1>0, <2>1, NewestAdded
  <2> HIDE DEF Sent
  <2>6. \E n \in DOMAIN OnTheWay' :
          /\ OnTheWay' = Append(OnTheWay, OnTheWay'[n])
          /\ OnTheWay'[n].from = peer
          /\ OnTheWay'[n].value_handle \in Sent[peer]
    BY <2>1, <2>4, <2>5
  <2> QED
    BY <2>1, <2>3, <2>6 DEF AsDelivery!Arrive, Sent
<1>3. CASE LinkDown
  <2>1. peer # None /\ peer' = None /\ held' = FALSE /\ UNCHANGED out
    BY <1>1, <1>3 DEF LinkDown, Disconnected
  <2>2. OnTheWay' = <<>>
    BY <1>3 DEF LinkDown, RxRuns, OnTheWay, handlerVars
  <2> QED
    BY <2>1, <2>2 DEF AsDelivery!Next, AsDelivery!Lose
<1>4. CASE Discovering
  <2>1. UNCHANGED <<OnTheWay, out, held>>
    BY <1>4 DEF Discovering, OnTheWay, pathVars
  <2>2. ASSUME NEW p \in Peers, Secured(p) PROVE AsDelivery!Connect(p)
    BY <1>1, <2>1, <2>2 DEF Secured, AsDelivery!Connect
  <2>3. CASE Respond \/ Rejected \/ LinkLost \/ \E p \in Peers : TornDown(p)
    BY <2>1, <2>3 DEF Respond, HidsFound, MapFound, ReportFound, RefFound, CccFound,
                      NothingFound, MapChunk, MapComplete, MapFailed, RefRead, RefFailed,
                      Rejected, LinkLost, TornDown, connection
  <2>4. DOMAIN Sent = Peers
    OBVIOUS
  <2> QED
    BY <1>4, <2>2, <2>3, <2>4 DEF Discovering, AsDelivery!Next
<1>5. CASE HandlerStep
  <2>1. UNCHANGED peer
    BY <1>5 DEF HandlerStep, Start, Get, Leave, CheckValid, CheckId, Publish, discVars,
                connection
  <2>2. CASE Get
    <3>1. UNCHANGED OnTheWay
      <4>1. CASE report_msgq = <<>>
        BY <2>2, <4>1 DEF Get, OnTheWay
      <4>2. CASE report_msgq # <<>>
        BY <1>0, <2>2, <4>2, TakenFirst DEF Get, OnTheWay
      <4> QED
        BY <4>1, <4>2
    <3>2. out'.of = None /\ UNCHANGED held
      BY <2>2 DEF Get, NoOut
    <3> QED
      BY <2>1, <3>1, <3>2 DEF AsDelivery!Next, AsDelivery!Settle
  <2>3. CASE Start \/ Leave
    BY <2>1, <2>3 DEF Start, Leave, OnTheWay
  <2>4. CASE CheckValid \/ CheckId
    <3>1. OnTheWay = <<evt>> \o report_msgq /\ UNCHANGED <<out, held>>
      BY <2>4 DEF CheckValid, CheckId, OnTheWay
    <3>2. OnTheWay' \in {OnTheWay, report_msgq}
      BY <2>4, <3>1 DEF CheckValid, CheckId, OnTheWay
    <3>3. OnTheWay' = report_msgq => AsDelivery!Refuse
      BY <1>0, <2>1, <3>1, OldestGone DEF AsDelivery!Refuse
    <3> QED
      BY <2>1, <3>1, <3>2, <3>3 DEF AsDelivery!Next
  <2>5. CASE Publish
    <3>1. OnTheWay = <<evt>> \o report_msgq /\ OnTheWay' = report_msgq
      BY <2>5 DEF Publish, OnTheWay
    <3>2. layout.of = peer
      BY <2>5 DEF Publish, PathInv, OwnReports, Inv, LayoutIsThisPeers
    <3>3. OnTheWay # <<>> /\ Head(OnTheWay) = evt /\ OnTheWay' = Tail(OnTheWay)
      BY <1>0, <3>1, OldestGone
    <3>4. \/ out' = [evt |-> evt, of |-> layout.of] /\ held' \in BOOLEAN
          \/ UNCHANGED <<out, held>>
      BY <2>5 DEF Publish
    <3> QED
      BY <2>1, <3>2, <3>3, <3>4 DEF AsDelivery!Next, AsDelivery!Publish, AsDelivery!Refuse
  <2> QED
    BY <1>5, <2>2, <2>3, <2>4, <2>5 DEF HandlerStep
<1>6. CASE UNCHANGED vars
  BY <1>6 DEF vars, discVars, connection, pathVars, handlerVars, OnTheWay
<1> QED
  BY <1>2, <1>3, <1>4, <1>5, <1>6 DEF Next, AsDelivery!Next

(* The report path implements Delivery for any peers, tables and capacity of *)
(* the queue: a peer's reports are published at most once each and in order, *)
(* as its own, and none survives its link.                                   *)
THEOREM DeliveryImplemented == Cooperative = TRUE => (Spec => ImplementsDelivery)
<1> SUFFICES ASSUME Cooperative = TRUE PROVE Spec => ImplementsDelivery
  OBVIOUS
<1> DEFINE I == Inv /\ Types /\ PathInv
<1>1. Init => I /\ AsDelivery!Init
  <2>1. Init => AsDelivery!Init
    BY DEF Init, DiscInit, AsDelivery!Init, OnTheWay, NoOut
  <2> QED
    BY <2>1, InitInv, TypesInit, PathInit DEF Init
<1>2. I /\ [Next]_vars => I'
  BY PathSteps, StepInv, TypesStep, PathStep
<1>3. I /\ [Next]_vars => [AsDelivery!Next]_<<peer, OnTheWay, out, held>>
  BY DeliverySteps
<1> QED
  BY <1>1, <1>2, <1>3, PTL DEF Spec, ImplementsDelivery, AsDelivery!Spec
=============================================================================
