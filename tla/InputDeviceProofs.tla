-------------------------- MODULE InputDeviceProofs --------------------------
(***************************************************************************)
(* Proofs about InputDevice for every queue capacity, every set of buttons *)
(* and reports, every configuration, and both ways of scheduling publish   *)
(* and reset.                                                              *)
(***************************************************************************)
EXTENDS InputDevice, Arithmetic

-----------------------------------------------------------------------------
(* What type correctness needs to know of the sets in play. *)
LEMMA Indices == Published \subseteq Nat /\ DpadIdx \subseteq Nat
<1>1. Published \subseteq Nat
  BY ButtonsAssumption DEF Published
<1>2. DpadIdx \subseteq Nat
  BY DEF DpadIdx, LEFT, DOWN
<1> QED
  BY <1>1, <1>2

(* Posting an event keeps the queue well typed and within its capacity. *)
LEMMA EnqueueType ==
    ASSUME TypeOK, NEW e \in Event, Enqueue(e)
    PROVE  input_msgq' \in Seq(Event) /\ Len(input_msgq') <= QueueMax
BY QueueAssumption DEF TypeOK, Enqueue, Accepts

(* A button edge leaves every typed component it writes typed. *)
LEMMA ReportBtnType ==
    ASSUME TypeOK, NEW i \in Published, NEW v \in {0, 1}, NEW s \in BOOLEAN,
           report_btn(i, v, s)
    PROVE  /\ input_msgq' \in Seq(Event) /\ Len(input_msgq') <= QueueMax
           /\ btn_down' \subseteq Published /\ dpad_down' \subseteq DpadIdx
<1>1. [kind |-> "btn", n |-> i, value |-> v, sync |-> s] \in Event
  BY Indices DEF Event
<1>2. input_msgq' \in Seq(Event) /\ Len(input_msgq') <= QueueMax
  BY <1>1, EnqueueType DEF report_btn
<1>3. btn_down' \subseteq Published /\ dpad_down' \subseteq DpadIdx
  BY DEF report_btn, TypeOK, Edge
<1> QED
  BY <1>2, <1>3

(* So does a DPAD edge. *)
LEMMA ReportDpadType ==
    ASSUME TypeOK, NEW i \in DpadIdx, NEW v \in {0, 1}, report_dpad(i, v)
    PROVE  /\ input_msgq' \in Seq(Event) /\ Len(input_msgq') <= QueueMax
           /\ btn_down' \subseteq Published /\ dpad_down' \subseteq DpadIdx
<1>1. [kind |-> "dpad", n |-> i, value |-> v, sync |-> FALSE] \in Event
  BY Indices DEF Event
<1>2. input_msgq' \in Seq(Event) /\ Len(input_msgq') <= QueueMax
  BY <1>1, EnqueueType DEF report_dpad
<1>3. btn_down' \subseteq Published /\ dpad_down' \subseteq DpadIdx
  BY DEF report_dpad, TypeOK, Edge
<1> QED
  BY <1>2, <1>3

(* So does a relative event. *)
LEMMA ReportRelType ==
    ASSUME TypeOK, NEW s \in BOOLEAN, report_rel(s)
    PROVE  /\ input_msgq' \in Seq(Event) /\ Len(input_msgq') <= QueueMax
           /\ btn_down' \subseteq Published /\ dpad_down' \subseteq DpadIdx
<1>1. [kind |-> "rel", n |-> 0, value |-> 0, sync |-> s] \in Event
  BY DEF Event
<1>2. input_msgq' \in Seq(Event) /\ Len(input_msgq') <= QueueMax
  BY <1>1, EnqueueType DEF report_rel
<1>3. btn_down' \subseteq Published /\ dpad_down' \subseteq DpadIdx
  BY DEF report_rel, TypeOK
<1> QED
  BY <1>2, <1>3

LEMMA ReportAxisType ==
    ASSUME TypeOK, NEW value, ReportAxis(value)
    PROVE  /\ input_msgq' \in Seq(Event) /\ Len(input_msgq') <= QueueMax
           /\ btn_down' \subseteq Published /\ dpad_down' \subseteq DpadIdx
BY ReportRelType DEF ReportAxis, queue, TypeOK

LEMMA TapIdx == HIdx \in DpadIdx /\ VIdx \in DpadIdx
BY DEF HIdx, VIdx, DpadIdx, LEFT, RIGHT, UP, DOWN

-----------------------------------------------------------------------------
(* Every step keeps the types. *)
LEMMA TypeStep == TypeOK /\ [Next]_vars => TypeOK'
<1> SUFFICES ASSUME TypeOK, [Next]_vars PROVE TypeOK'
  OBVIOUS
<1> USE DEF TypeOK
<1>1. ASSUME NEW rep \in Reports, Publish(rep) PROVE TypeOK'
  BY <1>1, ReportsAssumption
     DEF Publish, data, resetting, queue, listener, Report
<1>2. CASE PublishFlush
  <2>1. Min(todo) \in todo
    BY <1>2, MinOfNats, Indices DEF PublishFlush, At
  <2>2. Min(todo) \in DpadIdx
    BY <1>2, <2>1 DEF PublishFlush, At
  <2> QED
    BY <1>2, <2>2, ReportDpadType
       DEF PublishFlush, At, flush_one, StillOwed, resetting, listener
<1>3. CASE PublishDiff
  BY <1>3 DEF PublishDiff, At, Changed, data, resetting, queue, listener
<1>4. CASE PublishEdge
  <2> DEFINE i == Min(todo)
             v == IF i \in r.buttons THEN 1 ELSE 0
  <2>1. i \in todo
    BY <1>4, MinOfNats, Indices DEF PublishEdge, At
  <2>2. i \in Published /\ v \in {0, 1}
    BY <1>4, <2>1 DEF PublishEdge, At
  <2>3. report_btn(i, v, FALSE)
    BY <1>4 DEF PublishEdge
  <2> HIDE DEF v
  <2>4. /\ input_msgq' \in Seq(Event) /\ Len(input_msgq') <= QueueMax
        /\ btn_down' \subseteq Published /\ dpad_down' \subseteq DpadIdx
    BY <2>2, <2>3, ReportBtnType
  <2> QED
    BY <1>4, <2>2, <2>4
       DEF PublishEdge, At, EdgeApplied, data, resetting, listener
<1>5. CASE PublishAdvance
  BY <1>5 DEF PublishAdvance, At, Goto, Advanced, resetting, queue, listener
<1>6. CASE PublishDx
  BY <1>6, ReportAxisType DEF PublishDx, At, Goto, data, resetting, listener
<1>7. CASE PublishDy
  BY <1>7, ReportAxisType DEF PublishDy, At, Goto, data, resetting, listener
<1>8. CASE PublishHWheel
  BY <1>8, ReportAxisType DEF PublishHWheel, At, Goto, data, resetting, listener
<1>9. CASE PublishHTap \/ PublishVTap
  BY <1>9, ReportDpadType, TapIdx
     DEF PublishHTap, PublishVTap, TapPress, At, Goto, data, resetting, queue, listener
<1>10. CASE PublishHRelease \/ PublishVRelease
  BY <1>10, ReportDpadType, TapIdx
     DEF PublishHRelease, PublishVRelease, TapRelease, At, Goto, Owed,
         resetting, listener
<1>11. CASE PublishSync
  <2>1. pc \in {"sync", "wheel"}
    BY <1>11 DEF PublishSync, At
  <2>2. NoReport \in Report
    BY DEF NoReport, Report
  <2>3. /\ input_msgq' \in Seq(Event) /\ Len(input_msgq') <= QueueMax
        /\ btn_down' \subseteq Published /\ dpad_down' \subseteq DpadIdx
    BY <1>11, ReportRelType DEF PublishSync
  <2> QED
    BY <1>11, <2>1, <2>2, <2>3 DEF PublishSync, data, resetting, listener
<1>12. CASE Reset
  BY <1>12 DEF Reset, data, publishing, queue, listener
<1>13. CASE ResetFlush
  <2>1. Min(rtodo) \in rtodo
    BY <1>13, MinOfNats, Indices DEF ResetFlush
  <2> QED
    BY <1>13, <2>1, ReportDpadType DEF ResetFlush, flush_one, StillOwed, publishing, listener
<1>14. CASE ResetHeld
  BY <1>14 DEF ResetHeld, data, publishing, queue, listener
<1>15. CASE ResetRelease
  <2>1. Min(rtodo) \in rtodo
    BY <1>15, MinOfNats, Indices DEF ResetRelease
  <2> QED
    BY <1>15, <2>1, ReportBtnType DEF ResetRelease, data, publishing, listener
<1>16. CASE ResetClear
  BY <1>16 DEF ResetClear, Cleared, publishing, queue, listener
<1>17. CASE Listen
  <2>1. Head(input_msgq) \in Event /\ Tail(input_msgq) \in Seq(Event)
        /\ Len(Tail(input_msgq)) <= QueueMax
    BY <1>17, QueueAssumption DEF Listen
  <2> QED
    BY <1>17, <2>1 DEF Listen, Edge, Event, data, publishing, resetting
<1>18. CASE UNCHANGED vars
  BY <1>18 DEF vars, data, publishing, resetting, queue, listener
<1> QED
  BY <1>1, <1>2, <1>3, <1>4, <1>5, <1>6, <1>7, <1>8, <1>9, <1>10, <1>11, <1>12,
     <1>13, <1>14, <1>15, <1>16, <1>17, <1>18 DEF Next, PublishStep, ResetStep

LEMMA TypeInit == Init => TypeOK
BY QueueAssumption DEF Init, TypeOK, NoReport, Report

(* The driver's state, the queue and the listener keep their types, and the  *)
(* queue its capacity, whatever the reports and however full the queue runs. *)
THEOREM TypeCorrect == Spec => []TypeOK
BY TypeInit, TypeStep, PTL DEF Spec

-----------------------------------------------------------------------------
(* Dropped tap releases.  DpadTracked is inductive as it stands: the index   *)
(* of an accepted press is carried by the program counter until its release  *)
(* is posted, and by pending_dpad_release when that post is dropped.         *)
LEMMA FlushOneTracked ==
    ASSUME NEW i, flush_one(i), DpadTracked, Tapping' = Tapping
    PROVE  DpadTracked'
BY DEF flush_one, StillOwed, report_dpad, Edge, DpadTracked

LEMMA DpadStep == TypeOK /\ DpadTracked /\ [Next]_vars => DpadTracked'
<1> SUFFICES ASSUME TypeOK, DpadTracked, [Next]_vars PROVE DpadTracked'
  OBVIOUS
<1>1. ASSUME NEW rep \in Reports, Publish(rep) PROVE DpadTracked'
  BY <1>1 DEF Publish, DpadTracked, Tapping, data, queue
<1>2. CASE PublishFlush
  <2>1. Tapping' = Tapping
    BY <1>2 DEF PublishFlush, At, Tapping
  <2> QED
    BY <1>2, <2>1, FlushOneTracked DEF PublishFlush
<1>3. CASE PublishDiff \/ PublishEdge \/ PublishAdvance
  BY <1>3 DEF PublishDiff, PublishEdge, PublishAdvance, At, Goto, report_btn,
              DpadTracked, Tapping, data, queue
<1>4. CASE PublishDx \/ PublishDy \/ PublishHWheel
  BY <1>4 DEF PublishDx, PublishDy, PublishHWheel, At, Goto, ReportAxis,
              report_rel, DpadTracked, Tapping, data, queue
<1>5. CASE PublishHTap
  BY <1>5 DEF PublishHTap, TapPress, At, Goto, report_dpad, Edge,
              DpadTracked, Tapping, HIdx, data, queue
<1>6. CASE PublishVTap
  BY <1>6 DEF PublishVTap, TapPress, At, Goto, report_dpad, Edge,
              DpadTracked, Tapping, VIdx, data, queue
<1>7. CASE PublishHRelease \/ PublishVRelease
  BY <1>7 DEF PublishHRelease, PublishVRelease, TapRelease, At, Goto, Owed,
              report_dpad, Edge, DpadTracked, Tapping
<1>8. CASE PublishSync
  BY <1>8 DEF PublishSync, At, report_rel, DpadTracked, Tapping, data
<1>9. CASE Reset \/ ResetHeld \/ ResetRelease \/ ResetClear
  <2>1. Tapping' = Tapping
    BY <1>9 DEF Reset, ResetHeld, ResetRelease, ResetClear, publishing, Tapping,
                HIdx, VIdx
  <2> QED
    BY <1>9, <2>1 DEF Reset, ResetHeld, ResetRelease, ResetClear, report_btn,
                      DpadTracked, data, queue
<1>10. CASE ResetFlush
  <2>1. Tapping' = Tapping
    BY <1>10 DEF ResetFlush, publishing, Tapping, HIdx, VIdx
  <2> QED
    BY <1>10, <2>1, FlushOneTracked DEF ResetFlush
<1>11. CASE Listen \/ UNCHANGED vars
  <2>1. Tapping' = Tapping
    BY <1>11 DEF Listen, vars, publishing, Tapping, HIdx, VIdx
  <2> QED
    BY <1>11, <2>1 DEF Listen, vars, data, queue, DpadTracked
<1> QED
  BY <1>1, <1>2, <1>3, <1>4, <1>5, <1>6, <1>7, <1>8, <1>9, <1>10, <1>11
     DEF Next, PublishStep, ResetStep

(* A wheel tap that was pressed is released in the end or owed: no number of *)
(* full queues, reports or resets makes the driver forget it.                *)
THEOREM TapsTracked == Spec => []DpadTracked
<1>1. Init => DpadTracked
  BY DEF Init, DpadTracked
<1> QED
  BY <1>1, TypeInit, TypeStep, DpadStep, PTL DEF Spec

-----------------------------------------------------------------------------
(* Button edges.  While publish visits the edges, one it has applied or has  *)
(* still to post is a press only of a button that was up; a reset, which may *)
(* interrupt it, releases none but the buttons that were down.               *)
EdgesApart ==
    /\ pc = "flush" => applied = {}
    /\ pc = "buttons" => (todo \union applied) \intersect r.buttons
                           \intersect prev_buttons = {}
    /\ rpc = "release" => rtodo \subseteq prev_buttons

(* What each step does to the buttons the queue was told are down and to     *)
(* those the driver believes down.                                           *)
EdgeRule ==
    \/ /\ btn_down' = btn_down
       /\ Believed' = Believed
    \/ \E i : btn_down' = btn_down \union {i} /\ Believed' = Believed \union {i}
    \/ \E i : btn_down' = btn_down \ {i} /\ Believed' = Believed \ {i}
    \/ /\ rpc = "release" /\ ~Accepts
       /\ btn_down' = btn_down
       /\ Believed' \subseteq Believed

LEMMA EdgeStep ==
    TypeOK /\ EdgesApart /\ [Next]_vars => EdgesApart' /\ EdgeRule
<1> SUFFICES ASSUME TypeOK, EdgesApart, [Next]_vars
             PROVE  EdgesApart' /\ EdgeRule
  OBVIOUS
<1>1. ASSUME NEW rep \in Reports, Publish(rep) PROVE EdgesApart' /\ EdgeRule
  BY <1>1 DEF Publish, EdgesApart, EdgeRule, Believed, data, resetting, queue
<1>2. CASE PublishFlush
  BY <1>2 DEF PublishFlush, At, flush_one, report_dpad, EdgesApart, EdgeRule,
              Believed, resetting
<1>3. CASE PublishDiff
  BY <1>3 DEF PublishDiff, At, Changed, EdgesApart, EdgeRule, Believed,
              data, resetting, queue
<1>4. CASE PublishEdge
  <2> DEFINE i == Min(todo)
  <2>1. i \in todo
    BY <1>4, MinOfNats, Indices DEF PublishEdge, At, TypeOK
  <2>2. /\ pc = "buttons" /\ pc' = pc /\ rpc = "idle" /\ rpc' = rpc
        /\ r' = r /\ prev_buttons' = prev_buttons /\ rtodo' = rtodo
        /\ report_btn(i, IF i \in r.buttons THEN 1 ELSE 0, FALSE)
        /\ applied' = EdgeApplied(i)
        /\ todo' = todo \ {i}
    BY <1>4 DEF PublishEdge, At, data, resetting
  <2> HIDE DEF i
  <2>3. EdgesApart'
    BY <2>1, <2>2 DEF EdgesApart, EdgeApplied
  <2>4. Believed = (prev_buttons \ applied) \union (r.buttons \intersect applied)
    BY <2>2 DEF Believed
  <2>5. Believed' = (prev_buttons \ applied') \union (r.buttons \intersect applied')
    BY <2>2 DEF Believed
  <2>6. ASSUME ~Accepts PROVE EdgeRule
    BY <2>2, <2>4, <2>5, <2>6 DEF EdgeApplied, report_btn, EdgeRule, Believed
  <2>7. ASSUME Accepts, i \in r.buttons PROVE EdgeRule
    <3>1. btn_down' = btn_down \union {i} /\ applied' = applied \union {i}
      BY <2>2, <2>7 DEF EdgeApplied, report_btn, Edge
    <3>2. i \notin prev_buttons
      BY <2>1, <2>2, <2>7 DEF EdgesApart
    <3>3. Believed' = Believed \union {i}
      BY <2>4, <2>5, <2>7, <3>1, <3>2
    <3> QED
      BY <3>1, <3>3 DEF EdgeRule
  <2>8. ASSUME Accepts, i \notin r.buttons PROVE EdgeRule
    <3>1. btn_down' = btn_down \ {i} /\ applied' = applied \union {i}
      BY <2>2, <2>8 DEF EdgeApplied, report_btn, Edge
    <3>2. Believed' = Believed \ {i}
      BY <2>4, <2>5, <2>8, <3>1
    <3> QED
      BY <3>1, <3>2 DEF EdgeRule
  <2> QED
    BY <2>3, <2>6, <2>7, <2>8
<1>5. CASE PublishAdvance
  BY <1>5 DEF PublishAdvance, At, Goto, Advanced, EdgesApart, EdgeRule,
              Believed, resetting, queue
<1>6. CASE PublishDx \/ PublishDy \/ PublishHWheel
  BY <1>6 DEF PublishDx, PublishDy, PublishHWheel, At, Goto, ReportAxis,
              report_rel, EdgesApart, EdgeRule, Believed, data, resetting, queue
<1>7. CASE PublishHTap \/ PublishVTap
  BY <1>7 DEF PublishHTap, PublishVTap, TapPress, At, Goto, report_dpad,
              EdgesApart, EdgeRule, Believed, data, resetting, queue
<1>8. CASE PublishHRelease \/ PublishVRelease
  BY <1>8 DEF PublishHRelease, PublishVRelease, TapRelease, At, Goto,
              report_dpad, EdgesApart, EdgeRule, Believed, resetting
<1>9. CASE PublishSync
  BY <1>9 DEF PublishSync, At, report_rel, EdgesApart, EdgeRule, Believed,
              data, resetting
<1>10. CASE Reset
  BY <1>10 DEF Reset, EdgesApart, EdgeRule, Believed, data, publishing, queue
<1>11. CASE ResetFlush
  BY <1>11 DEF ResetFlush, flush_one, report_dpad, EdgesApart, EdgeRule,
               Believed, publishing
<1>12. CASE ResetHeld
  BY <1>12 DEF ResetHeld, EdgesApart, EdgeRule, Believed, data, publishing, queue
<1>13. CASE ResetRelease
  <2> DEFINE i == Min(rtodo)
  <2>1. i \in rtodo
    BY <1>13, MinOfNats, Indices DEF ResetRelease, TypeOK
  <2>2. /\ rpc = "release" /\ rpc' = rpc /\ rtodo' = rtodo \ {i}
        /\ pc' = pc /\ r' = r /\ todo' = todo /\ applied' = applied
        /\ prev_buttons' = prev_buttons
        /\ report_btn(i, 0, rtodo = {i})
    BY <1>13 DEF ResetRelease, data, publishing
  <2> HIDE DEF i
  <2>3. EdgesApart'
    BY <2>2 DEF EdgesApart
  <2>4. ~(pc = "buttons" /\ i \in r.buttons \intersect applied)
    BY <2>1, <2>2 DEF EdgesApart
  <2>5. Believed' = Believed \ {i}
    BY <2>2, <2>4 DEF Believed
  <2>6. ASSUME Accepts PROVE EdgeRule
    BY <2>2, <2>5, <2>6 DEF report_btn, Edge, EdgeRule
  <2>7. ASSUME ~Accepts PROVE EdgeRule
    BY <2>2, <2>5, <2>7 DEF report_btn, EdgeRule
  <2> QED
    BY <2>3, <2>6, <2>7
<1>14. CASE ResetClear
  BY <1>14 DEF ResetClear, Cleared, EdgesApart, EdgeRule, Believed,
               publishing, queue
<1>15. CASE Listen \/ UNCHANGED vars
  BY <1>15 DEF Listen, vars, EdgesApart, EdgeRule, Believed,
               data, publishing, resetting, queue
<1> QED
  BY <1>1, <1>2, <1>3, <1>4, <1>5, <1>6, <1>7, <1>8, <1>9, <1>10, <1>11, <1>12,
     <1>13, <1>14, <1>15 DEF Next, PublishStep, ResetStep

(* The driver never believes a button down that the queue was last told is   *)
(* up, even when the receive thread interrupts publish between two edges.    *)
THEOREM NoPhantom == Spec => []NoPhantomPress
<1>1. Init => EdgesApart /\ NoPhantomPress
  BY DEF Init, EdgesApart, NoPhantomPress, Believed
<1>2. NoPhantomPress /\ EdgeRule => NoPhantomPress'
  BY DEF NoPhantomPress, EdgeRule
<1> QED
  BY <1>1, <1>2, TypeInit, TypeStep, EdgeStep, PTL DEF Spec

(* A button can be left down that the driver no longer believes down by one  *)
(* step only: the release of a reset that finds the queue full.              *)
THEOREM LatchOnly == Spec => LatchOnlyByReset
<1> DEFINE Rule == (btn_down \ Believed)' \subseteq (btn_down \ Believed)
                   \/ (rpc = "release" /\ ~Accepts)
<1>1. Init => EdgesApart
  BY DEF Init, EdgesApart
<1>2. EdgeRule => Rule
  BY DEF EdgeRule
<1> QED
  BY <1>1, <1>2, TypeInit, TypeStep, EdgeStep, PTL DEF Spec, LatchOnlyByReset

-----------------------------------------------------------------------------
(* Driver and listener.  What the listener holds of a code is what the last  *)
(* event that is still queued for it will change it to, or has changed it to *)
(* if none is.                                                               *)
LastSays(q, base, kind, down) ==
    /\ \A i : (\A n \in 1 .. Len(q) : ~(q[n].kind = kind /\ q[n].n = i))
              => (i \in base <=> i \in down)
    /\ \A n \in 1 .. Len(q) :
          q[n].kind = kind
            /\ (\A m \in n + 1 .. Len(q) : ~(q[m].kind = kind /\ q[m].n = q[n].n))
          => (q[n].value = 1 <=> q[n].n \in down)

QueueTells ==
    LastSays(input_msgq, acc, "btn", btn_down) /\ LastSays(input_msgq, keys, "dpad", dpad_down)

(* One more event changes only what the queue says of its own code. *)
LEMMA OneMore ==
    ASSUME NEW q \in Seq(Event), NEW e \in Event, NEW base, NEW kind, NEW down, NEW downAfter,
           LastSays(q, base, kind, down),
           downAfter = IF e.kind = kind THEN Edge(down, e.n, e.value) ELSE down
    PROVE  LastSays(Append(q, e), base, kind, downAfter)
<1> DEFINE a == Append(q, e)
           L == Len(q)
<1>1. /\ L \in Nat /\ Len(a) = L + 1 /\ a[L + 1] = e
      /\ \A n \in 1 .. L : a[n] = q[n]
  OBVIOUS
<1>2. e.value \in {0, 1} /\ \A j : j # e.n => (j \in downAfter <=> j \in down)
  BY DEF Edge, Event
<1>3. e.kind = kind => (e.value = 1 <=> e.n \in downAfter)
  BY <1>2 DEF Edge
<1>4. e.kind # kind => downAfter = down
  OBVIOUS
<1> HIDE DEF a, L
<1>5. ASSUME NEW i, \A n \in 1 .. Len(a) : ~(a[n].kind = kind /\ a[n].n = i)
      PROVE  i \in base <=> i \in downAfter
  <2>1. \A n \in 1 .. L : ~(q[n].kind = kind /\ q[n].n = i)
    BY <1>1, <1>5
  <2>2. ~(e.kind = kind /\ e.n = i)
    BY <1>1, <1>5
  <2>3. i \in base <=> i \in down
    BY <2>1 DEF LastSays, L
  <2> QED
    BY <1>2, <1>4, <2>2, <2>3
<1>6. ASSUME NEW n \in 1 .. Len(a), a[n].kind = kind,
             \A m \in n + 1 .. Len(a) : ~(a[m].kind = kind /\ a[m].n = a[n].n)
      PROVE  a[n].value = 1 <=> a[n].n \in downAfter
  <2>1. CASE n = L + 1
    BY <1>1, <1>3, <1>6, <2>1
  <2>2. CASE n \in 1 .. L
    <3>1. a[n] = q[n] /\ ~(e.kind = kind /\ e.n = q[n].n)
      BY <1>1, <1>6, <2>2
    <3>2. \A m \in n + 1 .. L : ~(q[m].kind = kind /\ q[m].n = q[n].n)
      BY <1>1, <1>6, <2>2
    <3>3. q[n].value = 1 <=> q[n].n \in down
      BY <1>6, <2>2, <3>1, <3>2 DEF LastSays, L
    <3> QED
      BY <1>2, <1>4, <3>1, <3>3
  <2> QED
    BY <1>1, <2>1, <2>2
<1> QED
  BY <1>5, <1>6 DEF LastSays, a

(* The oldest event moves from the queue to the listener. *)
LEMMA OneLess ==
    ASSUME NEW q \in Seq(Event), q # <<>>, NEW base, NEW kind, NEW down, NEW baseAfter,
           LastSays(q, base, kind, down),
           baseAfter = IF Head(q).kind = kind THEN Edge(base, Head(q).n, Head(q).value)
                       ELSE base
    PROVE  LastSays(Tail(q), baseAfter, kind, down)
<1> DEFINE t == Tail(q)
           L == Len(q)
           e == q[1]
<1>1. /\ L \in Nat \ {0} /\ Len(t) = L - 1 /\ Head(q) = e /\ e \in Event
      /\ \A n \in 1 .. L - 1 : t[n] = q[n + 1]
  OBVIOUS
<1>2. e.value \in {0, 1} /\ \A j : j # e.n => (j \in baseAfter <=> j \in base)
  BY <1>1 DEF Edge, Event
<1>3. e.kind = kind => (e.value = 1 <=> e.n \in baseAfter)
  BY <1>1, <1>2 DEF Edge
<1>4. e.kind # kind => baseAfter = base
  BY <1>1
<1> HIDE DEF t, L, e
<1>5. ASSUME NEW i, \A n \in 1 .. Len(t) : ~(t[n].kind = kind /\ t[n].n = i)
      PROVE  i \in baseAfter <=> i \in down
  <2>1. \A m \in 2 .. L : ~(q[m].kind = kind /\ q[m].n = i)
    <3>1. ASSUME NEW m \in 2 .. L PROVE ~(q[m].kind = kind /\ q[m].n = i)
      <4>1. m - 1 \in 1 .. L - 1 /\ t[m - 1] = q[(m - 1) + 1] /\ (m - 1) + 1 = m
        BY <1>1
      <4> QED
        BY <1>1, <1>5, <4>1
    <3> QED
      BY <3>1
  <2>2. CASE e.kind = kind /\ e.n = i
    <3>1. 1 \in 1 .. L
      BY <1>1
    <3>2. q[1].value = 1 <=> q[1].n \in down
      BY <2>1, <2>2, <3>1 DEF LastSays, L, e
    <3> QED
      BY <1>3, <2>2, <3>2 DEF e
  <2>3. CASE ~(e.kind = kind /\ e.n = i)
    <3>1. \A n \in 1 .. L : ~(q[n].kind = kind /\ q[n].n = i)
      <4>1. \A n \in 1 .. L : n = 1 \/ n \in 2 .. L
        BY <1>1
      <4> QED
        BY <2>1, <2>3, <4>1 DEF e
    <3>2. i \in base <=> i \in down
      BY <3>1 DEF LastSays, L
    <3> QED
      BY <1>2, <1>4, <2>3, <3>2
  <2> QED
    BY <2>2, <2>3
<1>6. ASSUME NEW n \in 1 .. Len(t), t[n].kind = kind,
             \A m \in n + 1 .. Len(t) : ~(t[m].kind = kind /\ t[m].n = t[n].n)
      PROVE  t[n].value = 1 <=> t[n].n \in down
  <2>1. n + 1 \in 1 .. L /\ t[n] = q[n + 1]
    BY <1>1
  <2>2. ASSUME NEW m \in (n + 1) + 1 .. L PROVE ~(q[m].kind = kind /\ q[m].n = q[n + 1].n)
    <3>1. m - 1 \in n + 1 .. Len(t) /\ m - 1 \in 1 .. L - 1 /\ (m - 1) + 1 = m
      BY <1>1
    <3> QED
      BY <1>1, <1>6, <2>1, <3>1
  <2> QED
    BY <1>6, <2>1, <2>2 DEF LastSays, L
<1> QED
  BY <1>5, <1>6 DEF LastSays, t

LEMMA Posted ==
    ASSUME TypeOK, QueueTells, NEW e \in Event, Enqueue(e), UNCHANGED <<acc, keys>>,
           btn_down' = IF Accepts /\ e.kind = "btn" THEN Edge(btn_down, e.n, e.value)
                       ELSE btn_down,
           dpad_down' = IF Accepts /\ e.kind = "dpad" THEN Edge(dpad_down, e.n, e.value)
                        ELSE dpad_down
    PROVE  QueueTells'
<1>1. CASE Accepts
  <2>1. input_msgq' = Append(input_msgq, e) /\ input_msgq \in Seq(Event)
    BY <1>1 DEF Enqueue, TypeOK
  <2>2. LastSays(Append(input_msgq, e), acc, "btn", btn_down')
    BY <1>1, <2>1, OneMore DEF QueueTells
  <2>3. LastSays(Append(input_msgq, e), keys, "dpad", dpad_down')
    BY <1>1, <2>1, OneMore DEF QueueTells
  <2> QED
    BY <2>1, <2>2, <2>3 DEF QueueTells
<1>2. CASE ~Accepts
  BY <1>2 DEF Enqueue, QueueTells
<1> QED
  BY <1>1, <1>2

LEMMA PostedBtn ==
    ASSUME TypeOK, QueueTells, NEW i \in Published, NEW v \in {0, 1}, NEW s \in BOOLEAN,
           report_btn(i, v, s), UNCHANGED listener
    PROVE  QueueTells'
<1> DEFINE e == [kind |-> "btn", n |-> i, value |-> v, sync |-> s]
<1>1. e \in Event
  BY Indices DEF Event
<1>2. e.kind = "btn" /\ e.n = i /\ e.value = v
  OBVIOUS
<1>3. Enqueue(e) /\ UNCHANGED <<acc, keys>>
  BY DEF report_btn, listener
<1> HIDE DEF e
<1>4. /\ btn_down' = IF Accepts /\ e.kind = "btn" THEN Edge(btn_down, e.n, e.value)
                     ELSE btn_down
      /\ dpad_down' = IF Accepts /\ e.kind = "dpad" THEN Edge(dpad_down, e.n, e.value)
                      ELSE dpad_down
  BY <1>2 DEF report_btn
<1> QED
  BY <1>1, <1>3, <1>4, Posted

LEMMA PostedDpad ==
    ASSUME TypeOK, QueueTells, NEW i \in DpadIdx, NEW v \in {0, 1}, report_dpad(i, v),
           UNCHANGED listener
    PROVE  QueueTells'
<1> DEFINE e == [kind |-> "dpad", n |-> i, value |-> v, sync |-> FALSE]
<1>1. e \in Event
  BY Indices DEF Event
<1>2. e.kind = "dpad" /\ e.n = i /\ e.value = v
  OBVIOUS
<1>3. Enqueue(e) /\ UNCHANGED <<acc, keys>>
  BY DEF report_dpad, listener
<1> HIDE DEF e
<1>4. /\ btn_down' = IF Accepts /\ e.kind = "btn" THEN Edge(btn_down, e.n, e.value)
                     ELSE btn_down
      /\ dpad_down' = IF Accepts /\ e.kind = "dpad" THEN Edge(dpad_down, e.n, e.value)
                      ELSE dpad_down
  BY <1>2 DEF report_dpad
<1> QED
  BY <1>1, <1>3, <1>4, Posted

LEMMA PostedRel ==
    ASSUME TypeOK, QueueTells, NEW s \in BOOLEAN, report_rel(s), UNCHANGED listener
    PROVE  QueueTells'
<1> DEFINE e == [kind |-> "rel", n |-> 0, value |-> 0, sync |-> s]
<1>1. e \in Event
  BY DEF Event
<1>2. e.kind = "rel"
  OBVIOUS
<1>3. Enqueue(e) /\ UNCHANGED <<acc, keys, btn_down, dpad_down>>
  BY DEF report_rel, listener
<1> HIDE DEF e
<1> QED
  BY <1>1, <1>2, <1>3, Posted

LEMMA TellsStep == TypeOK /\ QueueTells /\ [Next]_vars => QueueTells'
<1> SUFFICES ASSUME TypeOK, QueueTells, [Next]_vars PROVE QueueTells'
  OBVIOUS
<1>1. CASE PublishFlush \/ ResetFlush
  <2>1. PICK i \in DpadIdx : flush_one(i)
    <3>1. CASE PublishFlush
      <4>1. Min(todo) \in DpadIdx
        BY <3>1, MinOfNats, Indices DEF PublishFlush, At, TypeOK
      <4> QED
        BY <3>1, <4>1 DEF PublishFlush
    <3>2. CASE ResetFlush
      <4>1. Min(rtodo) \in DpadIdx
        BY <3>2, MinOfNats, Indices DEF ResetFlush, TypeOK
      <4> QED
        BY <3>2, <4>1 DEF ResetFlush
    <3> QED
      BY <1>1, <3>1, <3>2
  <2>2. UNCHANGED listener
    BY <1>1 DEF PublishFlush, ResetFlush
  <2> QED
    BY <2>1, <2>2, PostedDpad DEF flush_one
<1>2. CASE PublishEdge
  <2>1. Min(todo) \in Published
    BY <1>2, MinOfNats, Indices DEF PublishEdge, At, TypeOK
  <2>2. PICK v \in {0, 1} : report_btn(Min(todo), v, FALSE)
    BY <1>2 DEF PublishEdge
  <2> QED
    BY <1>2, <2>1, <2>2, PostedBtn DEF PublishEdge
<1>3. CASE ResetRelease
  <2>1. Min(rtodo) \in Published
    BY <1>3, MinOfNats, Indices DEF ResetRelease, TypeOK
  <2>2. PICK s \in BOOLEAN : report_btn(Min(rtodo), 0, s)
    BY <1>3 DEF ResetRelease
  <2> QED
    BY <1>3, <2>1, <2>2, PostedBtn DEF ResetRelease
<1>4. CASE PublishDx \/ PublishDy \/ PublishHWheel \/ PublishSync
  <2>1. UNCHANGED listener /\ ((\E s \in BOOLEAN : report_rel(s)) \/ UNCHANGED queue)
    BY <1>4 DEF PublishDx, PublishDy, PublishHWheel, PublishSync, ReportAxis
  <2> QED
    BY <2>1, PostedRel DEF queue, listener, QueueTells
<1>5. CASE PublishHTap \/ PublishVTap \/ PublishHRelease \/ PublishVRelease
  <2>1. UNCHANGED listener
        /\ ((\E i \in DpadIdx, v \in {0, 1} : report_dpad(i, v)) \/ UNCHANGED queue)
    BY <1>5, TapIdx DEF PublishHTap, PublishVTap, PublishHRelease, PublishVRelease, TapPress,
                        TapRelease
  <2> QED
    BY <2>1, PostedDpad DEF queue, listener, QueueTells
<1>6. CASE Listen
  <2>1. /\ input_msgq \in Seq(Event) /\ input_msgq # <<>> /\ input_msgq' = Tail(input_msgq)
        /\ UNCHANGED <<btn_down, dpad_down>>
    BY <1>6 DEF Listen, TypeOK
  <2>2. acc' = IF Head(input_msgq).kind = "btn"
               THEN Edge(acc, Head(input_msgq).n, Head(input_msgq).value) ELSE acc
    BY <1>6 DEF Listen
  <2>3. keys' = IF Head(input_msgq).kind = "dpad"
                THEN Edge(keys, Head(input_msgq).n, Head(input_msgq).value) ELSE keys
    BY <1>6 DEF Listen
  <2>4. LastSays(Tail(input_msgq), acc', "btn", btn_down)
    BY <2>1, <2>2, OneLess DEF QueueTells
  <2>5. LastSays(Tail(input_msgq), keys', "dpad", dpad_down)
    BY <2>1, <2>3, OneLess DEF QueueTells
  <2> QED
    BY <2>1, <2>4, <2>5 DEF QueueTells
<1>7. CASE UNCHANGED <<queue, listener>>
  BY <1>7 DEF queue, listener, QueueTells
<1>8. \/ \E rep \in Reports : Publish(rep)
      \/ PublishDiff \/ PublishAdvance \/ Reset \/ ResetHeld \/ ResetClear \/ UNCHANGED vars
      => UNCHANGED <<queue, listener>>
  BY DEF Publish, PublishDiff, PublishAdvance, Reset, ResetHeld, ResetClear, vars
<1> QED
  BY <1>1, <1>2, <1>3, <1>4, <1>5, <1>6, <1>7, <1>8 DEF Next, PublishStep, ResetStep

(* Once the queue is drained the listener holds every button that the driver *)
(* believes down, and no wheel code whose release is not owed, also when     *)
(* publish and reset are interrupted.                                        *)
THEOREM Drained == Spec => []DrainedAgrees
<1> DEFINE I == TypeOK /\ EdgesApart /\ NoPhantomPress /\ DpadTracked /\ QueueTells
<1>1. Init => I
  <2>1. Init => EdgesApart /\ NoPhantomPress /\ DpadTracked
    BY DEF Init, EdgesApart, NoPhantomPress, Believed, DpadTracked
  <2>2. Init => QueueTells
    <3> SUFFICES ASSUME Init PROVE QueueTells
      OBVIOUS
    <3>1. input_msgq = <<>> /\ Len(input_msgq) = 0
      BY DEF Init
    <3> QED
      BY <3>1 DEF Init, QueueTells, LastSays
  <2> QED
    BY <2>1, <2>2, TypeInit
<1>2. I /\ [Next]_vars => I'
  <2>1. NoPhantomPress /\ EdgeRule => NoPhantomPress'
    BY DEF NoPhantomPress, EdgeRule
  <2> QED
    BY <2>1, TypeStep, EdgeStep, DpadStep, TellsStep
<1>3. I => DrainedAgrees
  <2> SUFFICES ASSUME I, input_msgq = <<>> PROVE DrainedAgrees
    BY DEF DrainedAgrees
  <2>1. Len(input_msgq) = 0
    OBVIOUS
  <2>2. \A i : (i \in acc <=> i \in btn_down) /\ (i \in keys <=> i \in dpad_down)
    BY <2>1 DEF QueueTells, LastSays
  <2> QED
    BY <2>2 DEF DrainedAgrees, NoPhantomPress, DpadTracked
<1> QED
  BY <1>1, <1>2, <1>3, PTL DEF Spec
=============================================================================
