----------------------------- MODULE ReportMap -----------------------------
(***************************************************************************)
(* drivers/input/hid_report_parser.c: the walk over a peer's HID Report    *)
(* Map that yields the pointer layout and the keyboard layout.             *)
(*                                                                         *)
(* One action handles one item of the map, so a behaviour is a map: any    *)
(* sequence of the phrases of one dialect, well-formed or not, that may    *)
(* end at any item (the walk stops at a truncated one).  With phrases of   *)
(* one item these are all maps.  Both entry points share the walk; each    *)
(* keeps one of the two layouts, here both are kept.  Long items, reserved *)
(* types and tags without a case change nothing.                           *)
(*                                                                         *)
(* hid is history: what HID 1.11 says of the same items, told from streams *)
(* of bits per report ID, a stack of collections and the list of local     *)
(* items, and whether the map is one that the parser means to follow.      *)
(***************************************************************************)
EXTENDS Decode

CONSTANTS
    Dialects,               \* the kinds of map
    None,                   \* no map is being walked
    Phrases,                \* the sequences of items that a map of each kind is made of
    MAX_LOCAL_USAGES,       \* 16 in the code
    GLOBAL_STACK_DEPTH,     \* 8
    BIT_OFFSET_MAX,         \* 0xFFFF
    PAGE_GENERIC_DESKTOP, PAGE_KEYBOARD, PAGE_BUTTON, PAGE_CONSUMER,
    USAGE_GD_MOUSE, USAGE_GD_KEYBOARD, USAGE_GD_X, USAGE_GD_Y, USAGE_GD_WHEEL,
    USAGE_KBD_MOD_MIN, USAGE_CONSUMER_AC_PAN,
    MaxBits,                \* bound: bits of one report
    MaxDepth,               \* bound: collections open at once
    MaxBytes                \* bound: bytes of a payload that is decoded

U8 == 2 ^ BYTE
U16 == 2 ^ (2 * BYTE)
U32 == 2 ^ (4 * BYTE)

(* An item: its kind, the bytes of its data, and their unsigned value. *)
Values == [size \in {0, 1, 2, 4} |->
             CASE size = 0 -> 1 [] size = 1 -> U8 [] size = 2 -> U16 [] size = 4 -> U32]
Item == {it \in [tag : STRING, size : {0, 1, 2, 4}, v : Nat] : it.v < Values[it.size]}

ASSUME DialectsAssumption == None \notin Dialects /\ \A d \in Dialects : Phrases[d] \subseteq Seq(Item) \ {<<>>}
ASSUME LimitsAssumption ==
    /\ MAX_LOCAL_USAGES \in Nat \ {0} /\ GLOBAL_STACK_DEPTH \in Nat
    /\ {BIT_OFFSET_MAX, MaxBits, MaxDepth, MaxBytes} \subseteq Nat
(* A map as long as the firmware keeps, 512 bytes, never saturates the cursor. *)
ASSUME CursorAssumption == MaxBits < U32
ASSUME UsagesAssumption ==
    {PAGE_GENERIC_DESKTOP, PAGE_KEYBOARD, PAGE_BUTTON, PAGE_CONSUMER, USAGE_GD_MOUSE,
     USAGE_GD_KEYBOARD, USAGE_GD_X, USAGE_GD_Y, USAGE_GD_WHEEL, USAGE_KBD_MOD_MIN,
     USAGE_CONSUMER_AC_PAN} \subseteq Nat
ASSUME KindsAssumption ==
    /\ USAGE_GD_MOUSE # USAGE_GD_KEYBOARD
    /\ PAGE_BUTTON \notin {PAGE_GENERIC_DESKTOP, PAGE_CONSUMER}
    /\ USAGE_KBD_MOD_MIN # 0

VARIABLES
    dialect,        \* that of the map being walked, None between two parses
    rest,           \* the items to come of the phrase that has begun
    g, stack,       \* global item state, and what Push saved
    usages,         \* local: <<page, id>> in order
    range,          \* local: usage_min, usage_max, has_usage_range
    bit_cursor,
    depth, mouse_level, kbd_level,
    out, out_kbd,   \* the layouts
    hid             \* history

globals == <<g, stack>>
locals == <<usages, range>>
levels == <<depth, mouse_level, kbd_level>>
layouts == <<out, out_kbd>>
vars == <<dialect, rest, globals, locals, bit_cursor, levels, layouts, hid>>

-----------------------------------------------------------------------------
(* What memset leaves. *)
NoGlobals == [usage_page |-> 0, negative |-> FALSE, report_size |-> 0,
              report_count |-> 0, report_id |-> 0]
NoRange == [has |-> FALSE, min |-> 0, max |-> 0]
NoLayout == [report_id |-> 0, x |-> NoField, y |-> NoField, wheel |-> NoField,
             hwheel |-> NoField, buttons |-> NoField, button_count |-> 0,
             valid |-> FALSE]
NoKbdLayout == [report_id |-> 0, modifiers |-> NoField, keys |-> NoField,
                key_count |-> 0, valid |-> FALSE]

(* Whether item_s is negative: only that is asked of logical_min. *)
item_s_negative(it) == it.size > 0 /\ it.v \div 2 ^ (BYTE * it.size - 2) >= 2

IsConstant(flags) == flags % 2 = 1
IsVariable(flags) == (flags \div 2) % 2 = 1

HID_COLLECTION_APPLICATION == 1

in_mouse == mouse_level >= 0
in_keyboard == kbd_level >= 0

kbd_usages_are_modifiers ==
    IF range.has THEN range.min = USAGE_KBD_MOD_MIN
    ELSE usages # <<>> /\ usages[1][2] = USAGE_KBD_MOD_MIN

clear_local == usages' = <<>> /\ range' = NoRange

(* The last usage repeats past the end of the list, as does the last of a range. *)
usage_for_slot(i) ==
    IF usages # <<>> THEN usages[Min({i + 1, Len(usages)})]
    ELSE <<g.usage_page, IF range.has THEN Min({(range.min + i) % U32, range.max}) % U16 ELSE 0>>

Fits(offset, bits) == offset + bits <= BIT_OFFSET_MAX

Slots == 0 .. g.report_count - 1
SlotOffset(i) == bit_cursor + i * g.report_size

(* The first slot of usage u that fits, if the field has none yet. *)
set_field(f, u) ==
    LET fitting == {i \in Slots : usage_for_slot(i) = u /\ Fits(SlotOffset(i), g.report_size)}
    IN  IF Present(f) \/ fitting = {} \/ g.report_size = 0 THEN f
        ELSE Field(SlotOffset(Min(fitting)), g.report_size, g.negative)

(* A zero report size is taken as the usual width. *)
Per(width) == IF g.report_size = 0 THEN width ELSE g.report_size

LockedId(o, fresh) == IF o.report_id = 0 /\ fresh THEN g.report_id ELSE o.report_id

assign_input(o) ==
    LET locked == [o EXCEPT !.report_id =
                      LockedId(o, ~Present(o.buttons) /\ ~Present(o.x) /\ ~Present(o.y))]
        count == Min({g.report_count, ZMK_HID_MAX_BUTTONS})
    IN  IF g.usage_page # PAGE_BUTTON
        THEN [locked EXCEPT !.x = set_field(@, <<PAGE_GENERIC_DESKTOP, USAGE_GD_X>>),
                            !.y = set_field(@, <<PAGE_GENERIC_DESKTOP, USAGE_GD_Y>>),
                            !.wheel = set_field(@, <<PAGE_GENERIC_DESKTOP, USAGE_GD_WHEEL>>),
                            !.hwheel = set_field(@, <<PAGE_CONSUMER, USAGE_CONSUMER_AC_PAN>>)]
        ELSE IF Present(o.buttons) \/ ~Fits(bit_cursor, count * Per(1)) THEN locked
        ELSE [locked EXCEPT !.buttons = Field(bit_cursor, Per(1), FALSE),
                            !.button_count = count]

assign_kbd_input(o, flags) ==
    LET locked == [o EXCEPT !.report_id =
                      LockedId(o, ~Present(o.modifiers) /\ ~Present(o.keys))]
        count == g.report_count
        modifiers == /\ IsVariable(flags) /\ ~Present(o.modifiers)
                     /\ kbd_usages_are_modifiers
                     /\ Per(1) = 1 /\ count \in 1 .. BYTE /\ Fits(bit_cursor, count)
        keys == /\ ~IsVariable(flags) /\ ~Present(o.keys)
                /\ count > 0 /\ Fits(bit_cursor, count * Per(BYTE))
    IN  IF g.usage_page # PAGE_KEYBOARD THEN locked
        ELSE IF modifiers THEN [locked EXCEPT !.modifiers = Field(bit_cursor, count, FALSE)]
        ELSE IF keys THEN [locked EXCEPT !.keys = Field(bit_cursor, Per(BYTE), FALSE),
                                         !.key_count = count]
        ELSE locked

-----------------------------------------------------------------------------
(* The HID reading of a map (history).                                       *)
Names == {"x", "y", "wheel", "hwheel", "buttons", "modifiers", "keys"}
Axes == [x |-> <<PAGE_GENERIC_DESKTOP, USAGE_GD_X>>,
         y |-> <<PAGE_GENERIC_DESKTOP, USAGE_GD_Y>>,
         wheel |-> <<PAGE_GENERIC_DESKTOP, USAGE_GD_WHEEL>>,
         hwheel |-> <<PAGE_CONSUMER, USAGE_CONSUMER_AC_PAN>>]

(* Where a field is: in which report, where in it, how often in a row. *)
Place(offset, size, signed, count) ==
    [id |-> g.report_id, field |-> Field(offset, size, signed), count |-> count]
NoPlace == [id |-> 0, field |-> NoField, count |-> 0]

(* Usages by the tag of the item that lists them. *)
NoneListed == [Usage |-> <<>>, UsageMin |-> <<>>, UsageMax |-> <<>>]

NoReading ==
    [declared |-> [id \in 0 .. U8 - 1 |-> 0],   \* bits of each report so far
     listed |-> NoneListed,                     \* local items since the last main item
     open |-> <<>>,                             \* the collections
     closed |-> {},                             \* applications that have come and gone
     place |-> [n \in Names |-> NoPlace],       \* the first of each field
     followed |-> TRUE]                         \* nothing irregular so far

(* A usage's page is in a 4-byte item, the current one otherwise. *)
ItemUsage(it) == IF it.size = 4 THEN <<it.v \div U16, it.v % U16>> ELSE <<g.usage_page, it.v % U16>>

Local(it) == [hid EXCEPT !.listed[it.tag] = Append(@, ItemUsage(it))]

Listed(tag) == hid.listed[tag]
LastOf(tag) == IF Listed(tag) = <<>> THEN <<g.usage_page, 0>> ELSE Listed(tag)[Len(Listed(tag))]

(* The usage of the i-th field of an Input item. *)
HidUsage(i) ==
    LET list == Listed("Usage") IN
    IF list # <<>> THEN list[Min({i + 1, Len(list)})]
    ELSE <<LastOf("UsageMin")[1], Min({LastOf("UsageMin")[2] + i, LastOf("UsageMax")[2]})>>

(* Inside the first application collection of a kind. *)
Within(kind) == kind \notin hid.closed /\ \E n \in DOMAIN hid.open : hid.open[n] = kind

(* The places an Input item gives field n. *)
Places(n, flags) ==
    LET base == hid.declared[g.report_id]
        size == g.report_size
        run(count, width, when) ==
            IF when /\ Fits(base, count * width) THEN {Place(base, width, FALSE, count)} ELSE {}
        data(kind) == ~IsConstant(flags) /\ Slots # {} /\ Within(kind)
    IN  CASE n \in DOMAIN Axes ->
               {Place(base + i * size, size, g.negative, 1) :
                  i \in {j \in Slots : /\ data("mouse") /\ IsVariable(flags)
                                       /\ HidUsage(j) = Axes[n]
                                       /\ Fits(base + j * size, size)}}
          [] n = "buttons" ->
               run(Min({g.report_count, ZMK_HID_MAX_BUTTONS}), size,
                   data("mouse") /\ IsVariable(flags) /\ HidUsage(0)[1] = PAGE_BUTTON)
          [] n = "modifiers" ->
               run(1, g.report_count,
                   /\ data("keyboard") /\ IsVariable(flags) /\ size = 1
                   /\ HidUsage(0) = <<PAGE_KEYBOARD, USAGE_KBD_MOD_MIN>>
                   /\ g.report_count <= BYTE)
          [] n = "keys" ->
               run(g.report_count, size,
                   data("keyboard") /\ ~IsVariable(flags) /\ HidUsage(0)[1] = PAGE_KEYBOARD)

(* The earliest of some places. *)
Earliest(places) ==
    CHOOSE p \in places : \A q \in places : p.field.bit_offset <= q.field.bit_offset

(* What the parser does not mean to follow in a data item of a mouse or a    *)
(* keyboard: empty fields, usages beyond its list, half a range, a range     *)
(* beside a list, and a page other than the current one where it decides.    *)
Irregular(flags) ==
    /\ ~IsConstant(flags) /\ (Within("mouse") \/ Within("keyboard"))
    /\ \/ g.report_size = 0 \/ g.report_count = 0
       \/ Len(Listed("Usage")) > MAX_LOCAL_USAGES
       \/ LastOf("UsageMin")[2] > LastOf("UsageMax")[2]
       \/ /\ Listed("Usage") # <<>>
          /\ Listed("UsageMin") # <<>> \/ Listed("UsageMax") # <<>>
       \/ \E i \in Slots :
            /\ HidUsage(i)[1] # g.usage_page
            /\ \/ Listed("Usage") = <<>>
               \/ {HidUsage(i)[1], g.usage_page} \intersect {PAGE_BUTTON, PAGE_KEYBOARD} # {}

Reading(flags) ==
    [hid EXCEPT
       !.declared[g.report_id] = @ + g.report_size * g.report_count,
       !.listed = NoneListed,
       !.place = [n \in Names |-> IF Present(@[n].field) \/ Places(n, flags) = {} THEN @[n]
                                  ELSE Earliest(Places(n, flags))],
       !.followed = @ /\ ~Irregular(flags)]

(* A collection is of the last of the usages ahead of it. *)
KindOf(it) ==
    LET list == Listed("Usage")
        is(usage) == /\ it.v = HID_COLLECTION_APPLICATION /\ list # <<>>
                     /\ list[Min({Len(list), MAX_LOCAL_USAGES})] = <<PAGE_GENERIC_DESKTOP, usage>>
    IN  IF is(USAGE_GD_MOUSE) THEN "mouse"
        ELSE IF is(USAGE_GD_KEYBOARD) THEN "keyboard" ELSE "other"

Opened(it) == [hid EXCEPT !.open = Append(@, KindOf(it)), !.listed = NoneListed]

(* The collection opened last ends; an application is gone with its outermost. *)
Closed ==
    LET n == Len(hid.open)
        gone(kind) == n > 0 /\ hid.open[n] = kind /\ \A k \in 1 .. n - 1 : hid.open[k] # kind
    IN  [hid EXCEPT !.listed = NoneListed,
                    !.open = IF n > 0 THEN SubSeq(@, 1, n - 1) ELSE @,
                    !.closed = @ \union {kind \in {"mouse", "keyboard"} : gone(kind)}]

-----------------------------------------------------------------------------
(* handle_main; every main item clears the local state.                      *)
(* The cursor saturates rather than wraps. *)
Advanced(bits) == Min({bit_cursor + bits, U32 - 1})

Input_NoPadding(it) ==                              \* faulty: for mutation
    LET bits == g.report_size * g.report_count
        data == ~IsConstant(it.v)
    IN  /\ it.tag = "Input" /\ hid.declared[g.report_id] + bits <= MaxBits
        /\ out' = IF in_mouse /\ data /\ IsVariable(it.v) THEN assign_input(out) ELSE out
        /\ out_kbd' = IF in_keyboard /\ data THEN assign_kbd_input(out_kbd, it.v) ELSE out_kbd
        /\ bit_cursor' = IF data THEN Advanced(bits) ELSE bit_cursor
        /\ clear_local
        /\ hid' = Reading(it.v)
        /\ UNCHANGED <<globals, levels>>

(* Constant padding takes up bits as well. *)
Input(it) ==
    LET bits == g.report_size * g.report_count
        data == ~IsConstant(it.v)
    IN  /\ it.tag = "Input" /\ hid.declared[g.report_id] + bits <= MaxBits
        /\ out' = IF in_mouse /\ data /\ IsVariable(it.v) THEN assign_input(out) ELSE out
        /\ out_kbd' = IF in_keyboard /\ data THEN assign_kbd_input(out_kbd, it.v) ELSE out_kbd
        /\ bit_cursor' = Advanced(bits)
        /\ clear_local
        /\ hid' = Reading(it.v)
        /\ UNCHANGED <<globals, levels>>

(* Output and Feature: reports of their own. *)
OtherReport(it) ==
    /\ it.tag = "Output"
    /\ clear_local
    /\ hid' = [hid EXCEPT !.listed = NoneListed]
    /\ UNCHANGED <<globals, bit_cursor, levels, layouts>>

(* The collection is an application of the last usage ahead of it. *)
Opens(it, usage) ==
    /\ it.v = HID_COLLECTION_APPLICATION /\ usages # <<>>
    /\ usages[Len(usages)] = <<PAGE_GENERIC_DESKTOP, usage>>

Collection(it) ==
    /\ it.tag = "Collection" /\ depth < MaxDepth
    /\ mouse_level' = IF Opens(it, USAGE_GD_MOUSE) /\ mouse_level = -1 THEN depth ELSE mouse_level
    /\ kbd_level' = IF Opens(it, USAGE_GD_KEYBOARD) /\ kbd_level = -1 THEN depth ELSE kbd_level
    /\ depth' = depth + 1
    /\ clear_local
    /\ hid' = Opened(it)
    /\ UNCHANGED <<globals, bit_cursor, layouts>>

Closes_Never(level) == FALSE                        \* faulty: for mutation

(* The collection that opened at this level ends. *)
Closes(level) == level >= 0 /\ Max({depth - 1, 0}) <= level

EndCollection(it) ==
    /\ it.tag = "EndCollection"
    /\ depth' = Max({depth - 1, 0})
    /\ mouse_level' = IF Closes(mouse_level) THEN -2 ELSE mouse_level
    /\ kbd_level' = IF Closes(kbd_level) THEN -2 ELSE kbd_level
    /\ clear_local
    /\ hid' = Closed
    /\ UNCHANGED <<globals, bit_cursor, layouts>>

-----------------------------------------------------------------------------
(* handle_global. *)
Set(it, field, value) ==
    /\ g' = [g EXCEPT ![field] = value]
    /\ UNCHANGED <<stack, locals, bit_cursor, levels, layouts>>

UsagePage(it) ==
    /\ it.tag = "UsagePage" /\ Set(it, "usage_page", it.v % U16)
    /\ UNCHANGED hid

LogicalMin(it) ==
    /\ it.tag = "LogicalMin" /\ Set(it, "negative", item_s_negative(it))
    /\ UNCHANGED hid

(* A size or a count is narrowed to a byte. *)
Unnarrowed(it) == [hid EXCEPT !.followed = @ /\ it.v < U8]

ReportSize(it) ==
    /\ it.tag = "ReportSize" /\ Set(it, "report_size", it.v % U8)
    /\ hid' = Unnarrowed(it)

ReportCount(it) ==
    /\ it.tag = "ReportCount" /\ Set(it, "report_count", it.v % U8)
    /\ hid' = Unnarrowed(it)

Restart_Never(id) == bit_cursor                     \* faulty: for mutation

(* Each report ID has its own bit stream. *)
Restart(id) == IF id # g.report_id THEN 0 ELSE bit_cursor

(* A report that is taken up again is not followed: its stream restarts. *)
ReportId(it) ==
    LET id == it.v % U8 IN
    /\ it.tag = "ReportId"
    /\ bit_cursor' = Restart(id)
    /\ g' = [g EXCEPT !.report_id = id]
    /\ hid' = [hid EXCEPT !.followed = @ /\ (id = g.report_id \/ hid.declared[id] = 0)]
    /\ UNCHANGED <<stack, locals, levels, layouts>>

Push_NoLimit(it) ==                                 \* faulty: for mutation
    /\ it.tag = "Push"
    /\ stack' = Append(stack, g)
    /\ hid' = [hid EXCEPT !.followed = @ /\ Len(stack) < GLOBAL_STACK_DEPTH]
    /\ UNCHANGED <<g, locals, bit_cursor, levels, layouts>>

Push(it) ==
    /\ it.tag = "Push"
    /\ stack' = IF Len(stack) < GLOBAL_STACK_DEPTH THEN Append(stack, g) ELSE stack
    /\ hid' = [hid EXCEPT !.followed = @ /\ Len(stack) < GLOBAL_STACK_DEPTH]
    /\ UNCHANGED <<g, locals, bit_cursor, levels, layouts>>

(* The ID comes back with the rest, the cursor does not. *)
Pop(it) ==
    /\ it.tag = "Pop" /\ stack # <<>>
    /\ g' = stack[Len(stack)]
    /\ stack' = SubSeq(stack, 1, Len(stack) - 1)
    /\ hid' = [hid EXCEPT !.followed = @ /\ g'.report_id = g.report_id]
    /\ UNCHANGED <<locals, bit_cursor, levels, layouts>>

-----------------------------------------------------------------------------
(* handle_local. *)
LocalItem(it, tag) ==
    /\ it.tag = tag
    /\ UNCHANGED <<globals, bit_cursor, levels, layouts>>

Usage(it) ==
    /\ LocalItem(it, "Usage")
    /\ usages' = IF Len(usages) < MAX_LOCAL_USAGES THEN Append(usages, ItemUsage(it)) ELSE usages
    /\ UNCHANGED range
    /\ hid' = Local(it)

UsageMin(it) ==
    /\ LocalItem(it, "UsageMin")
    /\ range' = [range EXCEPT !.has = TRUE, !.min = it.v]
    /\ UNCHANGED usages
    /\ hid' = [Local(it) EXCEPT !.followed = @ /\ it.size # 4]

UsageMax(it) ==
    /\ LocalItem(it, "UsageMax")
    /\ range' = [range EXCEPT !.has = TRUE, !.max = it.v]
    /\ UNCHANGED usages
    /\ hid' = [Local(it) EXCEPT !.followed = @ /\ it.size # 4]

HandleItem(it) ==
    \/ Input(it) \/ OtherReport(it) \/ Collection(it) \/ EndCollection(it)
    \/ UsagePage(it) \/ LogicalMin(it) \/ ReportSize(it) \/ ReportCount(it)
    \/ ReportId(it) \/ Push(it) \/ Pop(it)
    \/ Usage(it) \/ UsageMin(it) \/ UsageMax(it)

(* run_parser's loop: the next item, of the phrase that has begun or of any  *)
(* other.                                                                    *)
Walk ==
    /\ dialect # None
    /\ \E s \in IF rest = <<>> THEN Phrases[dialect] ELSE {rest} :
         HandleItem(Head(s)) /\ rest' = Tail(s)
    /\ UNCHANGED dialect

-----------------------------------------------------------------------------
(* zmk_hid_parse_report_map and zmk_hid_parse_keyboard_report_map.           *)
(* Both structures are zeroed, the layout left by an earlier map included. *)
Parse(d) ==
    /\ dialect = None /\ dialect' = d
    /\ out' = NoLayout /\ out_kbd' = NoKbdLayout
    /\ hid' = NoReading
    /\ UNCHANGED <<rest, globals, locals, bit_cursor, levels>>

Balanced == depth = 0

(* The map ends, or an item of it is cut off; struct parser dies. *)
Return ==
    /\ dialect # None /\ dialect' = None
    /\ out' = [out EXCEPT !.valid = Present(out.x) /\ Present(out.y) /\ Balanced]
    /\ out_kbd' = [out_kbd EXCEPT !.valid = Present(out_kbd.keys) /\ Balanced]
    /\ hid' = [NoReading EXCEPT !.place = hid.place, !.followed = hid.followed]
    /\ g' = NoGlobals /\ stack' = <<>> /\ clear_local
    /\ rest' = <<>> /\ bit_cursor' = 0 /\ depth' = 0 /\ mouse_level' = -1 /\ kbd_level' = -1

Init ==
    /\ dialect = None /\ rest = <<>>
    /\ g = NoGlobals /\ stack = <<>> /\ usages = <<>> /\ range = NoRange
    /\ bit_cursor = 0 /\ depth = 0 /\ mouse_level = -1 /\ kbd_level = -1
    /\ out = NoLayout /\ out_kbd = NoKbdLayout /\ hid = NoReading

Next ==
    \/ \E d \in Dialects : Parse(d)
    \/ Walk
    \/ Return

Spec == Init /\ [][Next]_vars

-----------------------------------------------------------------------------
Fields == [bit_offset : Nat, bit_size : Nat, is_signed : BOOLEAN]
GlobalState == [usage_page : 0 .. U16 - 1, negative : BOOLEAN, report_size : 0 .. U8 - 1,
                report_count : 0 .. U8 - 1, report_id : 0 .. U8 - 1]

PointerLayouts ==
    [report_id : 0 .. U8 - 1, x : Fields, y : Fields, wheel : Fields, hwheel : Fields,
     buttons : Fields, button_count : 0 .. ZMK_HID_MAX_BUTTONS, valid : BOOLEAN]
KeyboardLayouts ==
    [report_id : 0 .. U8 - 1, modifiers : Fields, keys : Fields, key_count : 0 .. U8 - 1,
     valid : BOOLEAN]

(* The parser's types. *)
MapTypeOK ==
    /\ dialect \in Dialects \union {None}
    /\ g \in GlobalState
    /\ stack \in Seq(GlobalState) /\ Len(stack) <= GLOBAL_STACK_DEPTH
    /\ usages \in Seq(Nat \X Nat) /\ Len(usages) <= MAX_LOCAL_USAGES
    /\ range \in [has : BOOLEAN, min : Nat, max : Nat]
    /\ rest \in Seq(Item)
    /\ bit_cursor \in 0 .. U32 - 1 /\ depth \in Nat
    /\ mouse_level \in Nat \union {-1, -2} /\ kbd_level \in Nat \union {-1, -2}
    /\ out \in PointerLayouts /\ out_kbd \in KeyboardLayouts

(* On every map that the parser follows, whatever it pads, nests, pushes or   *)
(* declares besides, the layouts hold the first occurrence of each field, at *)
(* the bit of its report that HID gives it (the cursor and the levels of     *)
(* handle_main, usage_for_slot, set_field).                                  *)
RightPlaces ==
    hid.followed =>
        /\ \A n \in DOMAIN Axes : out[n] = hid.place[n].field
        /\ out.buttons = hid.place["buttons"].field
        /\ out.button_count = hid.place["buttons"].count
        /\ out_kbd.modifiers = hid.place["modifiers"].field
        /\ out_kbd.keys = hid.place["keys"].field
        /\ out_kbd.key_count = hid.place["keys"].count

(* The cursor is the length so far of the current report, on maps that the   *)
(* parser follows; and on every map the parser is inside the mouse and the   *)
(* keyboard exactly when the open collections say so, through nested         *)
(* collections and surplus ends (handle_main, ReportId).                     *)
CursorFollows ==
    dialect # None =>
        /\ hid.followed => bit_cursor = hid.declared[g.report_id]
        /\ in_mouse <=> Within("mouse")
        /\ in_keyboard <=> Within("keyboard")

(* The first usable collection wins: once a mouse's collection has closed    *)
(* that gave X and Y, or a keyboard's that gave keys, no collection, field   *)
(* or surplus end in the rest of the map changes what was read from it       *)
(* (hid_report_parser.h:114-116; the levels' value -2).                      *)
FirstUsableKept ==
    [][ dialect # None =>
          /\ "mouse" \in hid.closed /\ Present(out.x) /\ Present(out.y) =>
                out' = [out EXCEPT !.valid = out'.valid]
          /\ "keyboard" \in hid.closed /\ Present(out_kbd.keys) =>
                out_kbd' = [out_kbd EXCEPT !.valid = out_kbd'.valid] ]_vars

(* The bits a layout has the decoder read. *)
BitsOf(f, n) == f.bit_offset .. f.bit_offset + n * f.bit_size - 1
PointerBits ==
    (UNION {BitsOf(out[n], 1) : n \in DOMAIN Axes}) \union BitsOf(out.buttons, out.button_count)
KeyboardBits == BitsOf(out_kbd.modifiers, 1) \union BitsOf(out_kbd.keys, out_kbd.key_count)

(* On every map, narrowed, resumed or cut off, no field reaches beyond the   *)
(* offsets of a layout, and a report long enough to be accepted holds every  *)
(* bit that is read from it (set_field and payload_bits).                    *)
ReadsInside ==
    /\ \A b \in PointerBits \union KeyboardBits : b < BIT_OFFSET_MAX
    /\ \A b \in PointerBits : b < payload_bits(out)
    /\ \A b \in KeyboardBits : b < kbd_payload_bits(out_kbd)

(* A field's bits p as HID means them: two's complement if it is signed, or  *)
(* as wide as the word it is returned in.                                    *)
Meaning(p, f) ==
    LET weight(i) == IF i = f.bit_size - 1 /\ (f.is_signed \/ f.bit_size = WORD)
                     THEN -(2 ^ i) ELSE 2 ^ i
    IN  Total([i \in 0 .. f.bit_size - 1 |-> weight(i) * p[f.bit_offset + i + 1]], f.bit_size)

Payloads == UNION {[1 .. BYTE * n -> {0, 1}] : n \in 0 .. MaxBytes}

(* Every report a valid layout accepts decodes to what HID says of its bits, *)
(* on maps the parser follows and whose fields fit a word: axes with their   *)
(* sign, a button pressed iff its bits are not all zero (extract,            *)
(* zmk_hid_decode_report).                                                   *)
PointerMeaning ==
    hid.followed /\ out.valid /\ (\A n \in DOMAIN Axes : out[n].bit_size <= WORD)
        /\ out.buttons.bit_size <= WORD =>
        \A p \in Payloads : \A rep \in zmk_hid_decode_report(out, p) :
            LET at(n) == hid.place[n].field
                button(i) == [at("buttons") EXCEPT !.bit_offset = @ + i * at("buttons").bit_size]
            IN  /\ rep.dx = Meaning(p, at("x")) /\ rep.dy = Meaning(p, at("y"))
                /\ rep.wheel = Meaning(p, at("wheel")) /\ rep.hwheel = Meaning(p, at("hwheel"))
                /\ rep.buttons = {i \in 0 .. hid.place["buttons"].count - 1 :
                                    Meaning(p, button(i)) # 0}

(* Likewise a keyboard's: its keys are the codes of the array, those for no  *)
(* key and for an overflow left out, in order and the first                  *)
(* ZMK_HID_MAX_KEYS of them (zmk_hid_decode_keyboard_report).                *)
KeyboardMeaning ==
    hid.followed /\ out_kbd.valid /\ out_kbd.keys.bit_size <= BYTE =>
        \A p \in Payloads : \A rep \in zmk_hid_decode_keyboard_report(out_kbd, p) :
            LET keys == hid.place["keys"]
                code(i) == Meaning(p, [keys.field EXCEPT
                                         !.bit_offset = @ + (i - 1) * keys.field.bit_size])
                held == {i \in 1 .. keys.count : code(i) > 1}
                rank(i) == Cardinality({j \in held : j <= i})
            IN  /\ rep.modifiers = Meaning(p, hid.place["modifiers"].field)
                /\ Len(rep.keys) = Min({Cardinality(held), ZMK_HID_MAX_KEYS})
                /\ \A i \in held : rank(i) <= Len(rep.keys) => rep.keys[rank(i)] = code(i)

(* hid_report_parser.h:80: "Report ID this layout describes".  Every field   *)
(* of a layout is in the report whose ID the layout carries.                 *)
LayoutIsOneReport ==
    out.valid => \A n \in DOMAIN Axes \union {"buttons"} :
        Present(out[n]) => hid.place[n].id = out.report_id

=============================================================================
