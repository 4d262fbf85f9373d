# TLA+ models of zmk-ble-hid-host

A ZMK module that turns a board with a USB port into a dongle for Bluetooth
pointing devices: it connects to a BLE HID peer as a central, discovers its
reports, decodes them with the layout parsed from the peer's Report Map, and
republishes them into Zephyr's input subsystem, where ZMK's listener turns them
into HID reports for the PC. These modules model that program, TLC checks them on
small instances, and TLAPS proves theorems about them for every instance.

Paths below are relative to the repository root; `ble_hid_host.c`,
`hog_central.c`, `hid_report_parser.c` and `hid_report_decode.c` are in
`drivers/input/`, `hid_report_parser.h` in `include/zmk_ble_hid_host/`.

## 1. The system

### Parts, their state and their operations

| Part | State | Operations | Runs on |
|---|---|---|---|
| input device (`ble_hid_host.c`) | `prev_buttons`, `pending_dpad_release` | `ble_hid_host_publish`, `tap_btn`, `flush_pending_dpad_releases`, `ble_hid_host_reset` | publish: system work queue; reset: Bluetooth receive thread |
| scan and connect (`hog_central.c` 541-808, 871-906) | `default_conn`, `last_failed_addr`/`_ms`, the scanner, `scan_retry_work`, the bonds | `start_work_handler`, `start_scan`, `scan_retry_handler`, `device_found`, `connected`, `security_changed`, `disconnected` | callbacks: receive thread; bring-up and retry: system work queue |
| GATT discovery (`hog_central.c` 205-539) | `disc_state`, `discover_params`, `hids_end_handle`, `rm_buf`/`rm_len`, `layout`/`layout_valid`, `pending_*`, `cur_report_id`, `subs`/`sub_count` | `start_discovery`, `discover_func`, `report_map_read_cb`, `report_ref_read_cb`, `subscribe_pending`, `discover_ccc`, `start_report_discovery` | receive thread |
| report path (`hog_central.c` 128-203, 801-805) | `report_msgq`, `report_work` | `notify_cb`, `report_work_handler`, the clean-up in `disconnected` | `notify_cb`: receive thread; handler: system work queue |
| report map parser (`hid_report_parser.c`) | within a call: global and local items, the stack, `bit_cursor`, the collection levels, the layout so far | `zmk_hid_parse_report_map`, `zmk_hid_parse_keyboard_report_map` | receive thread, inside `report_map_read_cb` |
| report decoder (`hid_report_decode.c`) | none | `zmk_hid_decode_report`, `zmk_hid_decode_keyboard_report` | system work queue, inside the handler |
| M1 probe (`probe/src/main.c`) | a connection, a discovery and a cooldown like those above, and `seen[]`, the table of advertisers already logged | `start_scan`, `device_found`, `connected`, `security_changed`, `disconnected`, `discover_func`, `subscribe_pending`, `notify_cb` | a firmware of its own: `main`, then the receive thread |
| pairing callbacks (`hog_central.c`) | none | each confirms or logs a request of the host | receive thread |
| tests, shield, Kconfig, docs, workflows | - | - | - |

The keyboard half of the parser and of the decoder is tested by the repository and
not called by the dongle yet. The probe shares no code with the dongle: it is the
earlier program `hog_central.c` grew out of.

### How they interact

    advertising -> device_found -> connect -> security_changed -> start_discovery
                                                                     |
       Report Map -> parser -> layout, layout_valid  <---------------+
                                       |                             |
    notification -> notify_cb -> report_msgq -> report_work_handler  subs, sub_count
                                                     | decode
                                                     v
                     ble_hid_host_publish -> input queue -> listener -> PC
    link lost -> disconnected -> purge report_msgq, ble_hid_host_reset, start_scan

The receive thread and the system work queue share `layout`, `layout_valid`,
`sub_count`, `report_msgq` and the input device's state. No lock guards any of
it. Both threads are cooperative in the configuration the repository ships
(a handler runs until it returns), which the code relies on without saying so.

### What is hard

- *A full input queue.* Every event is posted with `K_NO_WAIT`: any event of a
  report can be dropped, and only what is repaired later may be consumed.
- *Order between threads.* The link can drop while reports are queued, the next
  peer can connect before the handler has run, and notifications arrive while
  discovery is still adding subscriptions.
- *Failing requests.* Discovery is a chain of requests to the peer, each of which
  can fail when it is started or later; every fall-back runs inside the callback
  that failed, and the next answer is told apart by `disc_state` alone.
- *Failing starts.* The scanner may not start; without a retry the dongle is deaf.
- *Time.* The cooldown after a failed pairing is measured with a 32-bit clock.
- *Foreign input.* A Report Map is whatever the peer sends. The parser keeps the
  offset of a field in a cursor of its own, across nested collections, saved states,
  several reports and padding; one bit off and every report decodes to something
  plausible and wrong.
- *Slots.* Subscription parameters belong to the host until it lets go of them, and
  those of a bonded peer it may keep from one link to the next (`hog_central.c:419` takes
  -EALREADY for success). The code counts its slots anew on every link, and clears and
  fills them whoever has them.

PROJECT.json lists each such hazard at its line, with the properties that catch
it, and the ones no property covers yet.

### What makes each part correct

- *Input device*: an edge is either accepted by the queue or repeated later; no
  button or DPAD code stays pressed for ever; no press is swallowed; the PC ends
  with the buttons the peer reports.
- *Scan and connect*: without a connection the dongle scans or is about to; it
  never scans beside one; a peer that refuses is left alone for the cooldown; a
  bonded peer in range ends in a secured link, unless a link stays up on which security
  could not be requested.
- *Discovery*: it always ends; every answer finds the state of the pass that asked
  for it; each subscription is wired to the descriptors of its own report and never
  to another's, none is made twice on a link, whatever the host has kept of earlier ones;
  without a failure every report is subscribed, and no slot kept from an earlier link of
  the peer is left out of the count; a layout is never used on another peer's link.
- *Report path*: reports are published in order and at most once, each decoded with its
  own peer's layout; only the
  pointer's reports become motion; a mouse with a single report, once subscribed, is
  never silenced;
  nothing is left in the queue; nothing stays pressed without a link.
- *Parser*: on every map it means to follow, each field is the first of its kind and
  where HID puts it; on every map, no field lies beyond the offsets a layout can hold,
  and the first usable layout is kept to the end.
- *Decoder*: a report too short is refused; otherwise the values are those HID gives
  the bits.
- *Probe*: the connection object and the link exist together; discovery ends and each
  subscription is the report's own; a bonded peer is reached again unless a start of
  the scanner has failed or a link stays up on which security could not be requested.

## 2. The modules

| Module | Models | State machine |
|---|---|---|
| `InputDevice` | `ble_hid_host.c` | yes |
| `ScanConnect` | the connection side of `hog_central.c` | yes |
| `Reconnect` | abstract: what the connection side promises | yes |
| `Subscriptions` | abstract: what discovery promises of a link | yes |
| `Delivery` | abstract: what becomes of a peer's reports | yes |
| `Discovery` | GATT discovery | yes |
| `ReportPath` | notifications, queue and handler, composed with `Discovery` | yes |
| `Decode` | `hid_report_decode.c`, as operators | |
| `ReportMap` | `hid_report_parser.c`, and by EXTENDS what the decoder reads with the layouts | yes |
| `Probe` | `probe/src/main.c` | yes |
| `InputDeviceProofs`, `ScanConnectProofs`, `DiscoveryProofs`, `ReportPathProofs`, `ReportMapProofs`, `PlacesProofs`, `ProbeProofs` | theorems about them | |
| `Arithmetic` | lemmas on `Min` and `Max` of the sets the models take them of, on powers of two, and induction up to a number | |
| `MC_InputDevice`, `MC_Discovery`, `MC_ReportPath`, `MC_ReportMap`, `MC_Probe` | the instances TLC checks | |

Definitions whose comment says *faulty: for mutation* are wrong on purpose: each
is a plausible bug in the definition that follows it, and a property is kept only
if replacing the right definition by the wrong one makes TLC find it violated
(the pairs are in PROJECT.json). No specification uses them.

### InputDevice

One action per call that posts an event, because the queue may be full for one
event of a report and not for the next, and per loop of the code. `pc` is
`ble_hid_host_publish`'s program counter, `r`, `todo` and `applied` its argument, the
rest of its current loop and its local; `rpc` and `rtodo` are those of
`ble_hid_host_reset`. `prev_buttons` and `pending_dpad_release` are the bit masks as
sets. `input_msgq`, `acc`, `host` and `keys` are external: Zephyr's queue and ZMK's
listener, which applies button edges when an event with `sync` arrives (186-189 and
202-209 post it) and runs the behaviour of a DPAD code as soon as its event comes. `btn_down` and
`dpad_down` are history: what the queue was last told about each code.

`Cooperative = TRUE` is the shipped configuration: publish and reset run without
interruption. `Cooperative = FALSE` lets reset interrupt publish between any two
events and the listener drain meanwhile; the theorems hold for both values, so they
say what does not depend on the scheduling.

The values of relative axes are not told apart; that an axis is zero or not, and
its sign, are.

### ScanConnect and Reconnect

One action per handler: the threads are cooperative, and while a handler waits for
the controller inside a call, nothing runs that changes what it has read (a retry is
pending only while nothing is scanned or connected, `ScanOnlyIdle`). `link` says how far the host's connection object is.
`start_scan` is an operator of the scanner and the retry timer that other handlers
end with, as they do in the code. Every call into the host may fail. `bonds` is the
settings store after boot. `now` is the wrapping clock and `age` the history it
cannot hold: how long ago each peer really failed. `Reconnect` has three phases;
`ScanConnect!Phase` maps onto it, with a fourth value `"deaf"` that `Reconnect` does
not have, so that a state without connection, scan or retry refutes the refinement.

### Discovery

Handles are positions in the peer's attribute table `DB[p]`, `req` is the one
request outstanding, and each callback with everything it calls is one action.
`Starts(k)` and `Fails(k)` are the two outcomes of a call to `bt_gatt_discover`,
`bt_gatt_read` or `bt_gatt_subscribe` when `k` calls have failed before it in this
callback; `MaxFaults` bounds the failures of a link. On a lost link every call
fails, at no charge, since the host aborts the outstanding request before or after
it calls `disconnected`. A slot of `subs` is the parameters given to the host, and its
`holder` the peer in whose list of subscriptions the host has it, or `None`. A lost link's
slots may be torn down (`TornDown`) at any time before the next or never: then the next
link finds them kept. `CccFound` clears the slot and fills it whether it is in a list or
not, as the code does. The `memset` clears the node the host's list goes on by, so other
slots of the same list may be cut off it (`Cleared`): they stay counted and are silent.
A subscription that is accepted, anew or with -EALREADY, puts the slot in the list of the
present peer; one that fails leaves it where it was. The subscriptions of this link are
its `Live` slots, counted and held for its peer. That a slot has one holder is an
abstraction: a slot whose node is in the lists of two peers at once is not modelled.
The Report Map is counted in PDUs, and what the parser makes of a truncated one is
left open.

`Subscriptions` forgets the passes, the requests and the slots. `LayoutOwner` and
`LiveHandles` map onto it: whose layout is in use, and the reports of the live slots. A
subscription may cost others, which the clearing of its slot cuts off; `Shed` covers one
that is rejected or fails. None of its steps puts a report into use that the peer does
not notify, one that is already in use, or one that belongs to the peer before, and with
the link all go: a slot the host keeps is not live on the next link until it is
subscribed again.

### ReportPath

EXTENDS `Discovery` with the queue, the work item and the handler's program
counter. The state `"leave"` is the handler after `k_msgq_get` has found the queue
empty and before it has returned. What publishing does belongs to `InputDevice`;
here `out` records which report was decoded with whose layout, until the handler looks at
the queue again, and `held` whether the input device believes a button pressed.

A notification goes to any slot the host has for the peer and the handle (`Dispatched`),
one kept from an earlier link included, which may come before discovery has counted
anything. `counted` in a queued report is history: it came by a subscription of this link.

`Delivery` has no queue, no handler and no layout, only reports on their way.
`OnTheWay` maps onto it: the report the handler has taken and not yet published or
refused, then those in the queue. A report dropped by a full queue never arrives, and
one refused by the checks or the decoder leaves when its turn has come.

### Decode

The two decoders as operators on a layout and a payload, the sequence of its bits. A
decoder is the *set* of its possible results: empty for a report that is refused,
one element as a rule, and any value where a field is wider than the accumulator,
because the shift is then undefined. A sum over a field's bits is a recursive function
(`Total`), and so is the walk over a keyboard's slots (`Held`), which a proof can
unfold. `BYTE` and `WORD` are the widths, 8 and 32 in
the code.

### ReportMap

One action per item. An item is its tag, the size of its data and their unsigned value;
how it is cut out of the bytes is abstracted, and a map may end after any item, as the
walk stops at one that is cut off. A behaviour parses one map after another, so that
what an earlier map left behind would show. The items of a map come in *phrases*,
short sequences such as size, count, usage and Input; `Phrases[d]` are those a map of
*dialect* `d` is made of. With phrases of one item these are all maps, and the theorems
hold for any phrases; the instance uses longer ones so that maps get far within the
bound.

`out` and `out_kbd` are the two layouts, `g`, `stack`, `usages`, `range`, `bit_cursor`
and the levels the fields of `struct parser`. A level is -1 before its collection, the
depth it opened at, and -2 once it has closed.

`hid` is history: HID's own reading of the same items, told another way. Each
report ID has its own stream of bits, `declared` says how long it is so far, `open` is
the stack of collections by kind, `listed` holds the local items by tag, and `place` is
the first place each field was given, with its report ID and count. `followed` says
that nothing has come that the parser documents or shows it does not follow: a report
ID taken up again, a Pop that changes the ID, a size or count beyond a byte, more pushes
than the stack holds, empty fields, more usages than are kept, half a range or a range
beside a list, a page that is not the current one where the parser looks at the
current one only. `RightPlaces` is about maps with `followed`; `ReadsInside`,
`FirstUsableKept` and the levels in `CursorFollows` are about all maps.

### Probe

One action per callback, as in `ScanConnect` and `Discovery`, whose shape it shares and
whose differences are the point: a failed start of the scanner is only logged,
there is no Report Map or reference pass, the search for a CCC runs to the end of the
service, and `seen[]` decides what is logged. It implements `Subscriptions` too, with
no layout. Slots have holders as in `Discovery`; the probe clears none of them by hand, it
overwrites their fields in place, so nothing is cut off a list. What is left in
the fields of a slot in nobody's list is never read, so such slots are alike (`EmptySlot`).
`connected`, `disconnected` and `security_changed` come for the present connection only:
a callback for one dropped before is not modelled.

## 3. The runs

Bounds are the CONSTANTs of each `.cfg`; nothing else is limited. The actions of a
component are in one state machine, so one run asks all that one instance can answer;
a second run is there where liveness needs a smaller instance.

| Run | Question | Bounds, and why they are enough |
|---|---|---|
| `id_coop` | `publish` and `reset` with a full queue at every point | a queue of 3, two published bits and one that is not, both wheels keyed: a report posts up to six events, so every event can be the dropped one |
| `id_live` | presses, releases and tap releases reach the PC | one button and a wheel tick in either direction with every report; a queue of 5, which two reports posted before the listener runs overfill |
| `sc` | scanning, connecting, cooldown, refinement, retry, reconnection | two peers and one bond at most, so that a bonded and an unbonded peer compete for one connection; a clock of 4 values with a cooldown of 2, so that it wraps within and after a cooldown |
| `d` | what discovery leaves behind, and that it ends | four kinds of peer: one report; more reports than slots and a map of two PDUs for a buffer of one; a report without a CCC before one that has it, descriptors in the other order and the map last; nothing but the service. Three failures per link, so that a fall-back's own fall-back fails too |
| `rp` | what gets published, and that nothing is stranded | a mouse with one report and a peer with a keyboard report first, two slots, a queue of 2 (one report handled, one behind it, one dropped), one failure per link |
| `hid` | the walk over every map of six dialects, and every payload decoded with each layout | bytes of 3 bits and words of 4, so that a field can be as wide as a word and wider, a size or count can be narrowed, and offsets end at 7; two local usages and one saved state, so that both overflow; reports of 8 bits, two collections deep; payloads of up to 3 bytes, one more than the longest layout needs. Six dialects: buttons, padding and nesting; widths and signs; report IDs; Push and Pop; wheels, ranges and repeated usages; a keyboard beside a mouse |
| `probe` | the probe's connection, discovery and table of advertisers | a pointer with its name in the scan response, and a peer that only a bond makes a target; one bond, two slots for three reports, one entry in `seen[]`, two failing calls per link |

`CHECK_DEADLOCK` is off in `probe` alone: after `bt_enable` or a start of the scanner
has failed, the probe really stops.

Runs that end in a violation show a disagreement between the code and what the
repository says of it (each is a finding in PROJECT.json, with the line quoted):

| Run | What the counterexample shows |
|---|---|
| `id_reset_latch` | `reset` posts a release into a full queue, ignores the result and forgets the button: it stays pressed on the PC |
| `id_unflushed` | the terminator of a report is dropped: its edges were accepted but wait at the listener for the next report |
| `d_foreign` | a report without a Report Reference takes that of the Output report behind it, whose declaration does not bound the search |
| `rp_motion` | a keyboard report, subscribed first, passes as the only report until the second is subscribed |
| `hid_one` | the mouse's collection holds two reports, and its one layout takes fields of both |

Read off the models, without a run of their own:

- the comment on `struct ble_hid_host_data` (`ble_hid_host.c:48-50`) says that its
  fields are touched by the work handler only; `disconnected` resets them on the
  receive thread (`hog_central.c:803-805`, `ReportPath!LinkDown`);
- when the first pass does not start or finds no HID service, `disc_state` stays
  `DISC_HIDS_PRIMARY` with nothing outstanding until the next link
  (`OnlyFirstPassIsLeftOpen` is the exact statement);
- without a layout every report is dropped (`ReportPath!CheckValid`): there is no
  boot-protocol fall-back;
- two peers that refuse evict each other from the one cooldown slot and are tried in
  turn without a pause (`hog_central.c:766` against 111); a failure 49.7 days old counts
  as recent again, because the slot is never cleared (637 against 635);
- the terminator of a report can be dropped after its edges were accepted
  (`id_unflushed`); if the link is then lost with `prev_buttons` back at 0, the reset
  has nothing to release and the listener keeps the edges until the next report;
- a layout is taken from the first mouse collection, usable or not: on a map whose first
  one has no X and Y the parser finds no pointer, where `hid_report_parser.h:114-118`,
  `hid_report_parser.c:10-11` and `tests/parser/test_runner.c:301` speak of the first
  usable one. `FirstUsableKept` claims only what both agree on: a usable layout once
  found is not replaced;
- the host may keep a bonded peer's slots from one link to the next: `hog_central.c:419`
  provides for it, and `boards/shields/ble_hid_host_receiver/ble_hid_host_receiver.conf:66-71`
  quotes a log of it, though it goes on (72-75) that with automatic resubscription off a clean
  disconnect tears them down. If it does keep them three things follow, none of which
  a property excludes: a report can be in the host's list by two slots after a
  discovery that failed, the one of this link and a kept one beyond `sub_count`, so that each
  of its notifications is queued twice (101 allots one subscription to a report);
  clearing a kept slot (410) may cut its list, and a report whose slot is cut off stays
  counted and silent; and a kept slot delivers before discovery has counted
  anything, with the report ID of the earlier link (`ReportPath!Dispatched`);
- a report ID that is taken up again restarts at bit 0 (`hid_report_parser.c:371-374`), and
  a Pop restores an ID and leaves the cursor where it was (`ReportId`, `Pop`);
- buttons declared by several items count only as far as the first of them; keys wider
  than a byte are cut to their low byte, so that code 0x100 becomes key 0
  (`hid_report_parser.h:52-53`);
- a range of usages beside a list is told apart differently for modifiers (the range
  first) and for slots (the list first): `kbd_usages_are_modifiers`, `usage_for_slot`;
- the sum `set_field` compares with the largest offset is of 32 bits
  (`hid_report_parser.c:193`) and wraps when the cursor has saturated, which takes a map of
  more than 66 kB; the firmware keeps 512 bytes, and the model is of maps that never
  saturate it (`CursorAssumption`);
- the probe is deaf after one failed start of the scanner (`probe/src/main.c:470`; `Deaf`),
  and gives a report without a CCC that of the report behind it (204 against 163).

With `Cooperative = FALSE`, `OwnLayoutDecodes` and `NothingHeldWithoutLink` of
`ReportPath` do not hold: a handler interrupted between its checks and its decoding
publishes for a link that is gone. They rest on the cooperative priorities, as does
`ImplementsDelivery`, and their theorems assume `Cooperative = TRUE`. `NoReportStranded` does not, nor do the theorems
about `InputDevice`.

### Fairness

- `InputDevice!Fairness`: a publish or a reset that has begun runs to its end;
  nothing in either waits. The listener is *not* assumed to keep up; the liveness
  properties say instead that the queue is found drained again and again.
- `ScanConnect!Scheduling`: the bring-up work and a scheduled retry run, which
  is what the work queue promises. `Environment`: the controller starts a scan it is
  asked for again and again, a bonded peer in range is found, connected to and
  secured if tried again and again; a link on which pairing runs (`"securing"`) is
  secured, refused or closed, by the pairing timeout at the latest, and one the dongle has
  asked to disconnect (`"refused"`) goes. Nothing is assumed of a link on which
  `bt_conn_set_security` has failed (`"open"`): the code only logs that
  (`hog_central.c:755-758`), and only the peer or the radio can end it. So
  `ReconnectsUnlessLeftOpen` has an escape for a link that stays so for good.
- `FairDiscSpec`: the host answers or aborts every request (ATT's 30 s
  transaction timeout): again and again none is outstanding, or the outstanding one
  changes. That is weak fairness of `Respond`, in a form that TLC checks faster.
- `Probe!Environment`: the same of the host and of the radio, with "a bonded peer" in the
  place of each one, and that a lost link is reported. Nothing makes a start of the
  scanner succeed, and nothing ends a link left `"open"`, so `ReconnectsUnlessStuck` has an
  escape for each (`Deaf` is the first).

The other runs assume none.

## 4. The proofs

For every value of the constants that satisfies the `ASSUME`s of the module.

| Theorem | Statement | Argument |
|---|---|---|
| `InputDeviceProofs!TypeCorrect` | `Spec => []TypeOK` | inductive; needs that the minimum of a set of indices is in the set (`Arithmetic!MinOfNats`, from the well-foundedness of `<`) |
| `InputDeviceProofs!TapsTracked` | `Spec => []DpadTracked` | inductive with `TypeOK`: the pressed index is carried by the program counter, then by `pending_dpad_release` |
| `InputDeviceProofs!NoPhantom` | `Spec => []NoPhantomPress` | not inductive: `EdgesApart` adds that while publish visits the edges, an edge it has applied or has still to post is a press only of a button that was up. Each step then moves `Believed` no further than the queue (`EdgeRule`) |
| `InputDeviceProofs!LatchOnly` | `Spec => LatchOnlyByReset` | the other half of `EdgeRule` |
| `InputDeviceProofs!Drained` | `Spec => []DrainedAgrees` | `QueueTells`: of each code, what the listener ends up with when it has drained the queue is what `btn_down` and `dpad_down` say; an event put last changes that of its own code only. With `NoPhantom` and `TapsTracked` an empty queue then gives the claim, for either scheduling |
| `ScanConnectProofs!TypeCorrect` | `Spec => []TypeOK` | inductive |
| `ScanConnectProofs!NotDeaf` | `Spec => []NeverDeaf` | every handler that drops the connection ends in `start_scan` |
| `ScanConnectProofs!ScanIsIdle` | `Spec => []ScanOnlyIdle` | `start_scan` either starts the scanner or schedules a retry, and runs only without a connection; a retry is used up before the next; needs `bt = "off"` to mean no connection |
| `ScanConnectProofs!CooldownHolds` | `Spec => LastRefusedSkipped` | the clock's distance to `last_failed_ms` equals `age` while `age` is below the cooldown, the wrap included |
| `ScanConnectProofs!Refinement` | `Spec => Abstract!Spec` | step simulation: each action is a step of `Reconnect` or a stutter |
| `DiscoveryProofs!AnswersFound` | `DiscSpec => []AnswerFindsItsState` | inductive with `RequestShape` and `PeerOfLink`: whatever a callback's fall-backs try, the last call that started left `disc_state` at its own pass (`Handed`) |
| `DiscoveryProofs!StopsIdle` | `DiscSpec => []OnlyFirstPassIsLeftOpen` | the same invariant: every other way to end a pass resets the state |
| `DiscoveryProofs!LayoutOwned` | `DiscSpec => []LayoutIsThisPeers` | a layout appears only from the map of the present link, and `disconnected` invalidates it before the next (`NoLayoutYet`) |
| `DiscoveryProofs!TypesCorrect` | `DiscSpec => []DiscTypeOK` | inductive with two facts that keep indices in range: while a descriptor is sought, `pending_idx` is that of a pending report, and a reference is read at a handle of the table (`Types`) |
| `DiscoveryProofs!SlotsCorrect` | `DiscSpec => []NoTwoAlike` | `SlotInv`: the pending reports are in increasing order of handles, and the report of every live slot lies before all that are still pending, so a new slot differs from all. Nothing is assumed of the slots of earlier links. The second half of `SlotsSound` is model-checked only |
| `DiscoveryProofs!LayoutFirst` | `DiscSpec => LayoutBeforeSubscriptions` | from the same: up to the characteristic pass nothing of this link is counted |
| `DiscoveryProofs!WiredCorrect` | `DiscSpec => []WiredRight` | `WireInv`: the range of a search ends before the next report that notifies, all of a report's own descriptors lie in it (`OwnMatches`) and come first (`FirstIsOwn`), so a report that has a descriptor is given its own. No premise: what a report without one is given is left to `ApartCorrect` and to the counterexample `d_foreign` |
| `DiscoveryProofs!CompleteCorrect` | `DiscSpec => [](NoneBorrowed(peer) => Complete)` | `UnfailedInv`: a call that fails leaves its mark in `faults`, so without one each pass ended because nothing was left to find. Up to the handle searched from, the reports collected are those to be kept (`Gathered`, by their number); then those of them with a CCC are subscribed to, up to the one looked at (`Subscribed`). `NoneBorrowed`: between a kept report without a CCC and the next kept one lies no CCC. It is needed: the search would find that CCC and subscribe to the wrong report |
| `DiscoveryProofs!SubscriptionsImplemented` | `DiscSpec => ImplementsSubscriptions` | step simulation. `SlotInv` makes a new subscription's handle higher than all live ones, `CountInv` makes it one of the present peer's reports that notify, and `LayoutFirst`'s argument that nothing is live when the layout is learnt. `sub_count` is 0 before the next link is secured, so that whatever is kept is not live on it |
| `DiscoveryProofs!ApartCorrect` | `DiscSpec => []DescriptorsApart` | `ApartInv`: a CCC that is taken lies behind its report and before every report still pending, because the search ends before the next one (`FoundBetween`). No premise about the tables: what is missing is missing, and never taken from a report that is subscribed to |
| `ReportPathProofs!NoneStranded` | `Spec => []NoReportStranded` | inductive by itself, in both schedulings: whatever becomes of a report, the handler looks at the queue again |
| `ReportPathProofs!OwnDecodes` | `Cooperative = TRUE => (Spec => []OwnLayoutDecodes)` | `PathInv`: all queued reports and the one being handled are the present peer's (`OwnReports`), and without a link there are none (`QuietWithoutLink`); with `LayoutIsThisPeers` the layout is that peer's too |
| `ReportPathProofs!NothingHeld` | `Cooperative = TRUE => (Spec => []NothingHeldWithoutLink)` | a conjunct of `QuietWithoutLink` |
| `ReportPathProofs!LonePublished` | `Cooperative = TRUE => (Spec => LoneReportPublished)` | `CountInv`: none is counted before the reports are known, then at most one for each looked at, all of which notify; a report that came by a subscription of this link finds at least that one counted. With one report that notifies `sub_count` is then 1, and the IDs are not compared |
| `ReportPathProofs!PointerOnly` | `Cooperative = TRUE /\ LoneIsPointer => (Spec => [](Referenced(peer) => OnlyPointerOnceWired))` | with `UnfailedInv`: a report on its way carries the ID of its own reference (`IdentifiedInv`), and what the handler checked is still so when it publishes (`Checked`). `Referenced`: `NoneBorrowed`, and each report that is subscribed to has a reference. `LoneIsPointer`: a peer with a pointer and one report to subscribe to has no other report for it |
| `ReportPathProofs!DeliveryImplemented` | `Cooperative = TRUE => (Spec => ImplementsDelivery)` | step simulation: `PathInv` makes what is on its way the present peer's and published with its layout, `Dispatched` makes a notification come from one of its reports, and the purge in `disconnected` with `QuietWithoutLink` takes the rest with the link |
| `ReportMapProofs!TypeCorrect` | `Spec => []MapTypeOK` | inductive; the cursor saturates, the collection depth stops at 0, sizes and counts are remainders |
| `ReportMapProofs!CursorCorrect` | `Spec => []CursorFollows` | `Walking`: the parser's list of usages is the listed ones up to its capacity, each level is the depth of the first open collection of its kind (`LevelOf`), and the cursor is the length declared for the current ID |
| `ReportMapProofs!FirstUsableCorrect` | `Spec => FirstUsableKept` | from `Walking`: once closed, a level is -2 and no item assigns |
| `ReportMapProofs!ReadsCorrect` | `Spec => []ReadsInside` | `LayoutsInside`: `set_field` and the two `assign` functions record a field only if its end is within the largest offset; the bits of a field then lie below the length the decoder asks for |
| `PlacesProofs!PlacesCorrect` | `Spec => []RightPlaces` | `PlaceInv`: `Walking`, and the usage range is the last one listed (`RangeKept`). Then the usage the parser finds for a slot is HID's (`SlotUsage`), and the first slot it takes is the earliest place HID gives, since places grow with the slot (`EarliestSlot`) |
| `PlacesProofs!PointerCorrect` | `Spec => []PointerMeaning` | `PlaceInv` and `LayoutShape`: a field of a layout is HID's field, and ends within a report that is long enough (`PayloadEnds`). That the sum over its bits is the number HID means, with the sign, is an induction over the bits (`TotalStep`, `WordValue`, `SignedValue`), carried by the lemma `UpTo`: a least counterexample does not exist |
| `PlacesProofs!KeyboardCorrect` | `Spec => []KeyboardMeaning` | the same for the modifiers and the slots, and an induction over the slots for the keys that are kept (`HeldRight`) |
| `ProbeProofs!ConnCorrect` | `Spec => []ConnMatchesLink` | inductive with: nothing runs before `main` has returned |
| `ProbeProofs!TypeCorrect` | `Spec => []TypeOK` | as for `Discovery`; `seen[]` is finite and grows only while it has room |
| `ProbeProofs!WiredCorrect` | `Spec => []WiredOwn` | as for `Discovery`: increasing handles, and a report's own CCC comes first behind its value, where the search starts |
| `ProbeProofs!CompleteCorrect` | `Spec => [](ServiceFirst(default_conn) => Complete)` | `UnfailedInv`, as for `Discovery`; a report without a CCC ends the discovery, but the search for its CCC went to the end of the service, so the reports behind it have none either. `ServiceFirst`: the reports follow the service's declaration, behind which the search for them begins |
| `ProbeProofs!SubscriptionsImplemented` | `Spec => ImplementsSubscriptions` | step simulation onto the same abstract specification, with no layout ever learnt. The reports of live slots lie before all that are pending (`Wiring`), so a new subscription is behind all of them, whatever slots the host keeps |

`DiscNext` occurs in `ReportPath` as `Discovering` and `LinkDown`, so the invariants of
`DiscoveryProofs` are carried over to the composition before its own is proved.

The theorems about `ScanConnect`, `Discovery` and `Probe` take each handler as one step, which is
what the code's callbacks are on one cooperative thread; they do not claim more.

What the theorems assume, besides the constants being of their kinds: in an attribute
table the declaration of a characteristic is followed by its value (GATT,
`TablesAssumption`); a map of the length the firmware keeps never saturates the cursor
(`CursorAssumption`); the page of buttons is neither of the axes', and the modifiers'
first usage is not 0 (`KindsAssumption`); a byte is narrower than a word
(`WidthsAssumption`: the widths are parameters, 8 and 32 in the code).

`NeverDeaf`, `LayoutIsThisPeers`, `LayoutBeforeSubscriptions`, `OwnLayoutDecodes` and
`NothingHeldWithoutLink` have theorems of their own and no run: the refinements that
the runs `sc`, `d` and `rp` check include them.

On peers for which `NoneBorrowed` or `Referenced` does not hold nothing is claimed: there
a report can be given the CCC or the ID of another that is not subscribed to
(`d_foreign`), so that `Complete` is false and `OnlyPointerOnceWired` can be.

Model-checked only is all liveness, whose fairness and ENABLED are beyond the prover:
`PressesReach`, `ReleasesReach` and `TapsReach` of `InputDevice`,
`ReconnectsUnlessLeftOpen` of `ScanConnect`, `DiscoveryEnds` of `Discovery` and of `Probe`,
and `ReconnectsUnlessStuck`; and the second half of `SlotsSound`.

## 5. Not modelled

- The callbacks that only log or confirm: pairing, connection parameters, PHY, the
  heartbeat. They keep no state; whether a pairing succeeds is a choice in
  `ScanConnect`.
- How an item of a Report Map is cut out of its bytes (prefix, little-endian data, long
  items): the item is the unit.
- The unit tests, which check the two pure algorithms, and the shield, devicetree,
  Kconfig, docs and workflows. Options that change behaviour (wheels as keys, thread
  priorities) are constants.
- `security_changed` reported twice on one link, which would restart discovery over
  outstanding parameters; whether the host does so is not visible in this code.
- A slot whose node is in the host's lists of two peers at once: after a slot of one
  bonded peer has been filled for another, the models have it in the list of the latter
  alone. What the host does to a corrupted list is not visible in this code.
- A callback for a connection that has been dropped before: the host reports one link at
  a time, in order.
- A report longer than the 32 bytes a queue entry holds, which is cut off
  (`hog_central.c:192-194`) and then refused by the decoder if the layout needs more.
- What a compiler makes of a shift past the word: any value.
- Wording of log lines.

## 6. What is left

The plan was the core (`InputDevice`, `ScanConnect`, `Discovery`, `ReportPath`), then the
parser and the decoder, then the probe, each proved about after it was checked; it is
done. The proofs cover every safety property the passing runs check but the second half of
`SlotsSound`, five of them with a
premise named above (both `Complete`, `OnlyPointerOnceWired`, `LoneReportPublished`,
`ImplementsDelivery`). A composition of `ReportPath` with `InputDevice` was weighed and dropped: the
two meet in one call on one thread, and `InputDevice` is checked over every sequence of
reports and links, which is all the other side can bring about.
