---------------------------- MODULE InputDevice ----------------------------
(***************************************************************************)
(* The Zephyr input device of the dongle, drivers/input/ble_hid_host.c.    *)
(*                                                                         *)
(* ble_hid_host_publish turns one decoded pointer report into input events *)
(* and ble_hid_host_reset releases what is held when the BLE link drops.   *)
(* Both post to the input queue without waiting: a full queue drops the    *)
(* event, so each event is posted in a step of its own, between which the  *)
(* thread that drains the queue may run.                                   *)
(*                                                                         *)
(* Publish runs on the system work queue, Reset on the Bluetooth receive   *)
(* thread, the listener on the input thread.  The first two are            *)
(* cooperative in the shipped configuration, which Cooperative = TRUE      *)
(* states: no other thread runs until publish or reset returns.            *)
(* Cooperative = FALSE lets the receive thread (the highest priority of    *)
(* the three) interrupt publish, and publish alternate with the listener.  *)
(*                                                                         *)
(* External: the queue (Zephyr input subsystem) and the ZMK listener,      *)
(* which applies button edges when an event with sync = TRUE arrives and   *)
(* runs a DPAD code's behaviour as soon as its event arrives.              *)
(***************************************************************************)
EXTENDS Integers, FiniteSets, Sequences, FiniteSetsExt

CONSTANTS
    ButtonBits,     \* the bits a report's button mask can carry
    PUBLISH_BTNS,   \* how many of them publish reports (8 in the code)
    Reports,        \* the decoded reports the peer can send
    QueueMax,       \* capacity of the input queue
    HWheelAsKeys,   \* CONFIG_ZMK_BLE_HID_HOST_HWHEEL_AS_KEYS
    WheelAsKeys,    \* CONFIG_ZMK_BLE_HID_HOST_WHEEL_AS_KEYS
    Cooperative     \* TRUE iff publish and reset run to completion

Report == [buttons : SUBSET ButtonBits, dx : Int, dy : Int,
           hwheel : Int, wheel : Int]

ASSUME ButtonsAssumption ==
    /\ ButtonBits \subseteq Nat
    /\ PUBLISH_BTNS \in Nat
ASSUME ReportsAssumption == Reports \subseteq Report
ASSUME QueueAssumption == QueueMax \in Nat \ {0}
ASSUME ConfigAssumption == {HWheelAsKeys, WheelAsKeys, Cooperative} \subseteq BOOLEAN

(* enum dpad_idx *)
LEFT == 0
RIGHT == 1
UP == 2
DOWN == 3
DpadIdx == LEFT .. DOWN

(* The bits the publish loop looks at. *)
Published == {i \in ButtonBits : i < PUBLISH_BTNS}

NoReport == [buttons |-> {}, dx |-> 0, dy |-> 0, hwheel |-> 0, wheel |-> 0]

VARIABLES
    prev_buttons,           \* data->prev_buttons, as the set of its bits
    pending_dpad_release,   \* data->pending_dpad_release, likewise
    pc,                     \* where publish is, "idle" when it is not running
    r,                      \* its argument
    todo,                   \* the indices its current loop has still to visit
    applied,                \* its local of that name
    rpc,                    \* where reset is
    rtodo,                  \* the indices its current loop has still to visit
    input_msgq,             \* the input queue
    acc,                    \* listener: buttons, unflushed edges included
    host,                   \* the buttons the PC was last told are pressed
    keys,                   \* DPAD codes whose behaviour is pressed
    btn_down,               \* history: buttons whose last queued edge is a press
    dpad_down               \* history: DPAD codes whose last queued edge is a press

data == <<prev_buttons, pending_dpad_release>>
publishing == <<pc, r, todo, applied>>
resetting == <<rpc, rtodo>>
queue == <<input_msgq, btn_down, dpad_down>>
listener == <<acc, host, keys>>
vars == <<data, publishing, resetting, queue, listener>>

Event == [kind : {"btn", "dpad", "rel"}, n : Nat, value : {0, 1}, sync : BOOLEAN]

-----------------------------------------------------------------------------
(* input_report_key and input_report_rel with K_NO_WAIT. *)

Accepts_OffByOne == Len(input_msgq) <= QueueMax     \* faulty: for mutation

Accepts == Len(input_msgq) < QueueMax

Edge(S, i, v) == IF v = 1 THEN S \union {i} ELSE S \ {i}

Enqueue(e) == input_msgq' = IF Accepts THEN Append(input_msgq, e) ELSE input_msgq

report_btn(i, v, s) ==
    /\ Enqueue([kind |-> "btn", n |-> i, value |-> v, sync |-> s])
    /\ btn_down' = IF Accepts THEN Edge(btn_down, i, v) ELSE btn_down
    /\ UNCHANGED dpad_down

report_dpad(i, v) ==
    /\ Enqueue([kind |-> "dpad", n |-> i, value |-> v, sync |-> FALSE])
    /\ dpad_down' = IF Accepts THEN Edge(dpad_down, i, v) ELSE dpad_down
    /\ UNCHANGED btn_down

(* The values of relative axes are not told apart. *)
report_rel(s) ==
    /\ Enqueue([kind |-> "rel", n |-> 0, value |-> 0, sync |-> s])
    /\ UNCHANGED <<btn_down, dpad_down>>

-----------------------------------------------------------------------------
(* flush_pending_dpad_releases, one index per step. *)

StillOwed_Cleared(i) == pending_dpad_release \ {i}  \* faulty: for mutation

(* The bit clears only once its release is accepted. *)
StillOwed(i) == IF Accepts THEN pending_dpad_release \ {i}
                ELSE pending_dpad_release

flush_one(i) == report_dpad(i, 0) /\ pending_dpad_release' = StillOwed(i)

-----------------------------------------------------------------------------
(* ble_hid_host_publish. *)

Publish(rep) ==
    /\ pc = "idle"
    /\ rpc = "idle"
    /\ pc' = "flush"
    /\ r' = rep
    /\ todo' = pending_dpad_release
    /\ applied' = {}
    /\ UNCHANGED <<data, resetting, queue, listener>>

(* A step of the publishing thread; the receive thread has priority. *)
At(label) == pc = label /\ rpc = "idle"
Goto(label) == pc' = label /\ UNCHANGED <<r, todo, applied>>

PublishFlush ==
    /\ At("flush")
    /\ todo # {}
    /\ flush_one(Min(todo))
    /\ todo' = todo \ {Min(todo)}
    /\ UNCHANGED <<prev_buttons, pc, r, applied, resetting, listener>>

Changed_PressesOnly ==                              \* faulty: for mutation
    {i \in Published : i \in r.buttons \ prev_buttons}

Changed == {i \in Published : i \in r.buttons <=> i \notin prev_buttons}

PublishDiff ==
    /\ At("flush")
    /\ todo = {}
    /\ pc' = "buttons"
    /\ todo' = Changed
    /\ UNCHANGED <<r, applied, data, resetting, queue, listener>>

EdgeApplied_Always(i) == applied \union {i}         \* faulty: for mutation

(* Only an edge the queue accepted is applied; a dropped one stays a         *)
(* difference and is posted again with the next report.                      *)
EdgeApplied(i) == IF Accepts THEN applied \union {i} ELSE applied

PublishEdge ==
    /\ At("buttons")
    /\ todo # {}
    /\ LET i == Min(todo) IN
         /\ report_btn(i, IF i \in r.buttons THEN 1 ELSE 0, FALSE)
         /\ applied' = EdgeApplied(i)
         /\ todo' = todo \ {i}
    /\ UNCHANGED <<pc, r, data, resetting, listener>>

Advanced_ToReport == r.buttons \intersect Published \* faulty: for mutation

Advanced == (prev_buttons \ applied) \union (r.buttons \intersect applied)

PublishAdvance ==
    /\ At("buttons")
    /\ todo = {}
    /\ prev_buttons' = Advanced
    /\ Goto("dx")
    /\ UNCHANGED <<pending_dpad_release, resetting, queue, listener>>

(* A relative event for a non-zero value, nothing for zero. *)
ReportAxis(value) == IF value # 0 THEN report_rel(FALSE) ELSE UNCHANGED queue

PublishDx ==
    /\ At("dx")
    /\ ReportAxis(r.dx)
    /\ Goto("dy")
    /\ UNCHANGED <<data, resetting, listener>>

PublishDy ==
    /\ At("dy")
    /\ ReportAxis(r.dy)
    /\ Goto("hwheel")
    /\ UNCHANGED <<data, resetting, listener>>

HIdx == IF r.hwheel < 0 THEN LEFT ELSE RIGHT
VIdx == IF r.wheel > 0 THEN UP ELSE DOWN

PublishHWheel ==
    /\ At("hwheel")
    /\ ~HWheelAsKeys
    /\ ReportAxis(r.hwheel)
    /\ Goto("wheel")
    /\ UNCHANGED <<data, resetting, listener>>

(* tap_btn: a dropped press ends the tap, there is nothing to release. *)
TapPress(here, keyed, tick, idx, release, done) ==
    /\ At(here)
    /\ keyed
    /\ IF tick # 0
         THEN report_dpad(idx, 1) /\ Goto(IF Accepts THEN release ELSE done)
         ELSE UNCHANGED queue /\ Goto(done)
    /\ UNCHANGED <<data, resetting, listener>>

Owed_Forgotten(idx) == pending_dpad_release         \* faulty: for mutation

(* tap_btn: a dropped release is remembered. *)
Owed(idx) == IF Accepts THEN pending_dpad_release
             ELSE pending_dpad_release \union {idx}

TapRelease(here, idx, done) ==
    /\ At(here)
    /\ report_dpad(idx, 0)
    /\ pending_dpad_release' = Owed(idx)
    /\ Goto(done)
    /\ UNCHANGED <<prev_buttons, resetting, listener>>

PublishHTap == TapPress("hwheel", HWheelAsKeys, r.hwheel, HIdx, "hrelease", "wheel")
PublishHRelease == TapRelease("hrelease", HIdx, "wheel")
PublishVTap == TapPress("wheel", WheelAsKeys, r.wheel, VIdx, "vrelease", "sync")
PublishVRelease == TapRelease("vrelease", VIdx, "sync")

(* The terminator is posted for every report, wheel or not; the locals die.  *)
PublishSync ==
    /\ At(IF WheelAsKeys THEN "sync" ELSE "wheel")
    /\ report_rel(TRUE)
    /\ pc' = "idle" /\ r' = NoReport /\ applied' = {}
    /\ UNCHANGED <<todo, data, resetting, listener>>

PublishStep ==
    \/ PublishFlush \/ PublishDiff \/ PublishEdge \/ PublishAdvance
    \/ PublishDx \/ PublishDy
    \/ PublishHWheel \/ PublishHTap \/ PublishHRelease
    \/ PublishVTap \/ PublishVRelease \/ PublishSync

-----------------------------------------------------------------------------
(* ble_hid_host_reset. *)

Reset ==
    /\ rpc = "idle"
    /\ Cooperative => pc = "idle"
    /\ rpc' = "flush"
    /\ rtodo' = pending_dpad_release
    /\ UNCHANGED <<data, publishing, queue, listener>>

ResetFlush ==
    /\ rpc = "flush"
    /\ rtodo # {}
    /\ flush_one(Min(rtodo))
    /\ rtodo' = rtodo \ {Min(rtodo)}
    /\ UNCHANGED <<prev_buttons, rpc, publishing, listener>>

ResetHeld ==
    /\ rpc = "flush"
    /\ rtodo = {}
    /\ rpc' = IF prev_buttons = {} THEN "idle" ELSE "release"
    /\ rtodo' = prev_buttons
    /\ UNCHANGED <<data, publishing, queue, listener>>

(* The outcome of the post is ignored: a dropped release is not owed.        *)
(* rtodo is in ascending order, so the last one carries sync.                *)
ResetRelease ==
    /\ rpc = "release"
    /\ rtodo # {}
    /\ LET i == Min(rtodo) IN
         /\ report_btn(i, 0, rtodo = {i})
         /\ rtodo' = rtodo \ {i}
    /\ UNCHANGED <<rpc, data, publishing, listener>>

Cleared == {}

ResetClear ==
    /\ rpc = "release"
    /\ rtodo = {}
    /\ rpc' = "idle"
    /\ prev_buttons' = Cleared
    /\ UNCHANGED <<pending_dpad_release, rtodo, publishing, queue, listener>>

ResetStep == ResetFlush \/ ResetHeld \/ ResetRelease \/ ResetClear

-----------------------------------------------------------------------------
(* The listener takes one event. *)

Listen ==
    /\ rpc = "idle"
    /\ Cooperative => pc = "idle"
    /\ input_msgq # <<>>
    /\ LET e == Head(input_msgq) IN
         /\ acc' = IF e.kind = "btn" THEN Edge(acc, e.n, e.value) ELSE acc
         /\ host' = IF e.sync THEN acc' ELSE host
         /\ keys' = IF e.kind = "dpad" THEN Edge(keys, e.n, e.value) ELSE keys
    /\ input_msgq' = Tail(input_msgq)
    /\ UNCHANGED <<data, publishing, resetting, btn_down, dpad_down>>

-----------------------------------------------------------------------------
Init ==
    /\ prev_buttons = {}
    /\ pending_dpad_release = {}
    /\ pc = "idle" /\ r = NoReport /\ todo = {} /\ applied = {}
    /\ rpc = "idle" /\ rtodo = {}
    /\ input_msgq = <<>> /\ btn_down = {} /\ dpad_down = {}
    /\ acc = {} /\ host = {} /\ keys = {}

Next ==
    \/ \E rep \in Reports : Publish(rep)
    \/ PublishStep
    \/ Reset
    \/ ResetStep
    \/ Listen

(* A publish or a reset that has begun runs on: neither waits for anything.  *)
Fairness == WF_vars(PublishStep) /\ WF_vars(ResetStep)

Spec == Init /\ [][Next]_vars
FairSpec == Spec /\ Fairness

-----------------------------------------------------------------------------
(* The types, and the capacity of the queue. *)
TypeOK ==
    /\ prev_buttons \subseteq Published
    /\ pending_dpad_release \subseteq DpadIdx
    /\ pc \in {"idle", "flush", "buttons", "dx", "dy", "hwheel", "hrelease",
               "wheel", "vrelease", "sync"}
    /\ r \in Report
    /\ todo \subseteq IF pc = "flush" THEN DpadIdx ELSE Published
    /\ applied \subseteq Published
    /\ rpc \in {"idle", "flush", "release"}
    /\ rtodo \subseteq IF rpc = "flush" THEN DpadIdx ELSE Published
    /\ input_msgq \in Seq(Event) /\ Len(input_msgq) <= QueueMax
    /\ btn_down \subseteq Published /\ dpad_down \subseteq DpadIdx
    /\ acc \subseteq Nat /\ host \subseteq Nat /\ keys \subseteq Nat

(* The DPAD code whose tap is between its press and its release. *)
Tapping == CASE pc = "hrelease" -> {HIdx}
             [] pc = "vrelease" -> {VIdx}
             [] OTHER -> {}

(* A wheel tap whose press got through can never be forgotten: until its     *)
(* release is queued, either publish is about to post it or the index is in  *)
(* pending_dpad_release, across any number of full queues and resets         *)
(* (tap_btn, flush_pending_dpad_releases).                                   *)
DpadTracked == dpad_down \subseteq pending_dpad_release \union Tapping

(* What the driver believes the host holds, taking the edges of the publish  *)
(* or reset in progress into account.                                        *)
Believed ==
    LET base == IF rpc = "release" THEN rtodo ELSE prev_buttons IN
    IF pc = "buttons" THEN (base \ applied) \union (r.buttons \intersect applied)
    ELSE base

(* The driver never believes a button down that the queue was last told is   *)
(* up: such a button's next press would make no edge and never reach the PC  *)
(* (the accept-gated update of prev_buttons in publish).                     *)
NoPhantomPress == Believed \subseteq btn_down

(* End to end, where only the queue is between the two: once it is drained,  *)
(* the listener holds every button that the driver believes down, so that a  *)
(* press is never taken for delivered when it was not, and each wheel code   *)
(* it holds pressed is one whose release publish or the driver still owes.   *)
DrainedAgrees ==
    input_msgq = <<>> =>
        /\ Believed \subseteq acc
        /\ keys \subseteq pending_dpad_release \union Tapping

(* The other direction is lost in one way only: a reset whose release finds  *)
(* the queue full.  No other step makes a button that is down one the driver *)
(* no longer believes down.                                                  *)
LatchOnlyByReset ==
    [][ (btn_down \ Believed)' \subseteq (btn_down \ Believed)
        \/ (rpc = "release" /\ ~Accepts) ]_vars

(* A peer that keeps reporting the buttons S, again and again with the queue *)
(* drained when publish begins.                                              *)
KeepsReporting(S) ==
    /\ <>[](pc # "idle" => r.buttons \intersect Published = S)
    /\ []<>(pc = "flush" /\ input_msgq = <<>>)

(* Every press reaches the PC: whatever was dropped, latched or merged on    *)
(* this link or an earlier one, S ends up pressed (the retry comment in      *)
(* publish).                                                                 *)
PressesReach ==
    \A S \in SUBSET Published :
        KeepsReporting(S) /\ <>[](rpc = "idle") => <>[](S \subseteq host)

(* On a link that never dropped every release reaches it too: the PC ends    *)
(* with exactly S.  (After a reset a latched button may stay.)               *)
ReleasesReach ==
    \A S \in SUBSET Published :
        KeepsReporting(S) /\ [](rpc = "idle") => <>[](host = S)

(* A key or layer a wheel tick pressed never latches: as long as publish     *)
(* begins again and again with the queue drained, every DPAD code that is    *)
(* pressed is released, through dropped releases and through resets.         *)
TapsReach ==
    []<>(pc = "flush" /\ rpc = "idle" /\ input_msgq = <<>>)
    => \A i \in DpadIdx : i \in keys ~> i \notin keys

(* ble_hid_host.c:212-213: "so a button held at disconnect ... does not      *)
(* latch on the PC".  When reset returns, no button's last queued edge is a  *)
(* press.                                                                    *)
ResetReleasesAll ==
    [][rpc = "release" /\ rpc' = "idle" => btn_down' = {}]_vars


=============================================================================
