----------------------------- MODULE ReportPath -----------------------------
(***************************************************************************)
(* The way of a report through drivers/input/hog_central.c, composed with  *)
(* discovery: a notification (notify_cb, Bluetooth receive thread) is put  *)
(* into report_msgq and submits report_work; report_work_handler (system   *)
(* work queue) takes the reports one by one, checks each against the       *)
(* layout and publishes it; disconnected() empties the queue and resets    *)
(* the input device.                                                       *)
(*                                                                         *)
(* The handler is a thread with a program counter.  Cooperative = TRUE is  *)
(* the shipped configuration: nothing on the receive thread runs until the *)
(* handler returns.  Cooperative = FALSE lets it in between any two steps. *)
(*                                                                         *)
(* What publishing does is module InputDevice's; here it is the record of  *)
(* what was just published, and whether it left a button held.             *)
(***************************************************************************)
EXTENDS Discovery

CONSTANTS
    MsgqMax,        \* capacity of report_msgq (16 in the code)
    Cooperative

ASSUME MsgqAssumption == MsgqMax \in Nat \ {0} /\ Cooperative \in BOOLEAN

VARIABLES
    report_msgq,    \* reports: whose, from which value handle, tagged with which
                    \*   ID; history: by a subscription that this link counts
    work,           \* report_work is submitted and has not started
    hpc,            \* report_work_handler: "idle", "get", "valid", "match",
                    \*   "publish", "leave"
    evt,            \* its local of that name
    out,            \* history: what the handler has just published, the report
                    \*   and the layout used, until it looks at the queue again
    held            \* the input device believes a button is pressed

pathVars == <<report_msgq, work, hpc, evt, out, held>>
handlerVars == <<hpc, evt>>
vars == <<discVars, pathVars>>

NoEvt == [from |-> None, value_handle |-> 0, report_id |-> 0, counted |-> FALSE]
NoOut == [evt |-> NoEvt, of |-> None]

-----------------------------------------------------------------------------
(* The receive thread may run. *)
RxRuns == Cooperative => hpc = "idle"

(* notify_cb's copy of a notification: what the slot says at that moment. *)
Evt(i) == [from |-> peer, value_handle |-> subs[i].value_handle,
           report_id |-> subs[i].report_id, counted |-> i <= sub_count]

(* The peer notifies a value and the host looks the handle up in its list: a *)
(* slot that it has kept from an earlier link will do.                       *)
Dispatched(i) ==
    link # "down" /\ subs[i].holder = peer /\ subs[i].value_handle \in Notifiable(peer)

Notify_Purges(i) ==                                 \* faulty: for mutation
    /\ RxRuns
    /\ Dispatched(i)
    /\ report_msgq' = IF Len(report_msgq) < MsgqMax THEN Append(report_msgq, Evt(i))
                      ELSE <<Evt(i)>>
    /\ work' = TRUE
    /\ UNCHANGED <<discVars, handlerVars, out, held>>

(* notify_cb with data; a full queue drops the report and submits nothing.   *)
(* A notification may still be on its way when the link is lost.             *)
Notify(i) ==
    /\ RxRuns
    /\ Dispatched(i)
    /\ Len(report_msgq) < MsgqMax
    /\ report_msgq' = Append(report_msgq, Evt(i))
    /\ work' = TRUE
    /\ UNCHANGED <<discVars, handlerVars, out, held>>

LinkDown_NoPurge ==                                 \* faulty: for mutation
    /\ RxRuns
    /\ Disconnected
    /\ held' = FALSE
    /\ UNCHANGED <<report_msgq, work, handlerVars, out>>

LinkDown_NoReset ==                                 \* faulty: for mutation
    /\ RxRuns
    /\ Disconnected
    /\ report_msgq' = <<>>
    /\ UNCHANGED <<work, handlerVars, out, held>>

(* disconnected, all of it up to start_scan: the queue is purged and the     *)
(* input device reset.                                                       *)
LinkDown ==
    /\ RxRuns
    /\ Disconnected
    /\ report_msgq' = <<>>
    /\ held' = FALSE
    /\ UNCHANGED <<work, handlerVars, out>>

(* Discovery's other steps leave the report path alone. *)
Discovering ==
    /\ RxRuns
    /\ \/ \E p \in Peers : Secured(p) \/ TornDown(p)
       \/ Respond
       \/ Rejected \/ LinkLost
    /\ UNCHANGED pathVars

-----------------------------------------------------------------------------
(* report_work_handler. *)
Start ==
    /\ hpc = "idle" /\ work
    /\ work' = FALSE /\ hpc' = "get"
    /\ UNCHANGED <<discVars, report_msgq, evt, out, held>>

Get ==
    /\ hpc = "get"
    /\ IF report_msgq = <<>>
         THEN hpc' = "leave" /\ evt' = NoEvt /\ UNCHANGED report_msgq
         ELSE hpc' = "valid" /\ evt' = Head(report_msgq) /\ report_msgq' = Tail(report_msgq)
    /\ out' = NoOut
    /\ UNCHANGED <<discVars, work, held>>

Leave ==
    /\ hpc = "leave"
    /\ hpc' = "idle"
    /\ UNCHANGED <<discVars, report_msgq, work, evt, out, held>>

CheckValid_Leaves ==                                \* faulty: for mutation
    /\ hpc = "valid"
    /\ hpc' = IF layout_valid THEN "match" ELSE "leave"
    /\ UNCHANGED <<discVars, report_msgq, work, evt, out, held>>

CheckValid ==
    /\ hpc = "valid"
    /\ hpc' = IF layout_valid THEN "match" ELSE "get"
    /\ UNCHANGED <<discVars, report_msgq, work, evt, out, held>>

Passes_Strict == evt.report_id = layout.report_id   \* faulty: for mutation
Passes_All == sub_count <= MAX_REPORTS              \* faulty: for mutation

(* With one subscription there is nothing to tell apart. *)
Passes == sub_count = 1 \/ evt.report_id = layout.report_id

CheckId ==
    /\ hpc = "match"
    /\ hpc' = IF Passes THEN "publish" ELSE "get"
    /\ UNCHANGED <<discVars, report_msgq, work, evt, out, held>>

(* zmk_hid_decode_report with the layout as it is now; a report too short    *)
(* for the layout is not published.                                          *)
Publish ==
    /\ hpc = "publish"
    /\ hpc' = "get"
    /\ \/ out' = [evt |-> evt, of |-> layout.of] /\ held' \in BOOLEAN
       \/ UNCHANGED <<out, held>>
    /\ UNCHANGED <<discVars, report_msgq, work, evt>>

HandlerStep == Start \/ Get \/ Leave \/ CheckValid \/ CheckId \/ Publish

-----------------------------------------------------------------------------
Init ==
    /\ DiscInit
    /\ report_msgq = <<>> /\ work = FALSE
    /\ hpc = "idle" /\ evt = NoEvt /\ out = NoOut /\ held = FALSE

Next ==
    \/ \E i \in DOMAIN subs : Notify(i)
    \/ LinkDown
    \/ Discovering
    \/ HandlerStep

Spec == Init /\ [][Next]_vars

-----------------------------------------------------------------------------
(* No report is decoded with another peer's layout, however late the handler *)
(* runs and whichever peer connects next (the purge in disconnected).  This  *)
(* and NothingHeldWithoutLink are included in ImplementsDelivery below.      *)
OwnLayoutDecodes == out.evt.from = out.of

(* A queued report always has a handler coming for it, however the two       *)
(* threads interleave and whatever becomes of the reports before it: the     *)
(* work item is submitted, or the handler has yet to look at the queue.      *)
NoReportStranded == report_msgq # <<>> => work \/ hpc \notin {"leave", "idle"}

(* Nothing stays pressed without a link: what is published after the link    *)
(* is lost is released before the next peer can connect.                     *)
NothingHeldWithoutLink == link = "down" => ~held

(* The report ID that the peer's table gives the report of value handle h. *)
TableId(p, h) == DB[p][Min(Own(p, h, "ref"))].id

(* Once discovery is over without a failure, only the pointer's reports are  *)
(* published, on peers whose reports all have a reference, of those that     *)
(* come by the subscriptions of this link.                                   *)
OnlyPointerOnceWired ==
    /\ link = "secured" /\ disc_state = "IDLE" /\ faults = 0
    /\ hpc = "publish" /\ evt.counted
    => TableId(evt.from, evt.value_handle) = PointerId[evt.from]

(* A mouse with a single notifiable report is never silenced: each report    *)
(* that its subscription brings and that finds a layout on its own link is   *)
(* published, its reference read or not (the exception in                    *)
(* report_work_handler).                                                     *)
LoneReportPublished ==
    [][ /\ CheckId /\ evt.counted
        /\ link = "secured" /\ Cardinality(Notifiable(peer)) = 1
        => hpc' = "publish" ]_vars

(* hog_central.c:153-156: "Only the report whose Report Reference (0x2908)   *)
(* report-ID matches the parsed pointer layout becomes motion.  A peer that  *)
(* multiplexes several reports (keyboard/consumer) on one connection would   *)
(* otherwise have its non-pointer reports injected as bogus movement."       *)
OnlyPointerBecomesMotion ==
    hpc = "publish" => TableId(evt.from, evt.value_handle) = PointerId[evt.from]

-----------------------------------------------------------------------------
(* Refinement.  On its way is what is queued and, before it, what the        *)
(* handler has taken and not yet disposed of.                                *)
OnTheWay ==
    IF hpc \in {"valid", "match", "publish"} THEN <<evt>> \o report_msgq ELSE report_msgq

AsDelivery == INSTANCE Delivery
    WITH owner <- peer, pending <- OnTheWay, Capacity <- MsgqMax,
         Sources <- [p \in Peers |-> Notifiable(p)]

(* With the two threads, the queue and the checks between them, a peer's     *)
(* reports are still published at most once each, in the order in which they *)
(* came, from a characteristic of the peer that is linked, with its layout;  *)
(* a full queue costs the newest report and no other (notify_cb).            *)
ImplementsDelivery == AsDelivery!Spec
=============================================================================
