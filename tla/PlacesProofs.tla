---------------------------- MODULE PlacesProofs ----------------------------
(***************************************************************************)
(* On every map that the parser follows, each field of the layouts is      *)
(* where HID has it (RightPlaces), and what is decoded from a report is    *)
(* what HID means by its bits (PointerMeaning, KeyboardMeaning), for any   *)
(* phrases, any widths and payloads of any length.                         *)
(*                                                                         *)
(* Walking (ReportMapProofs) says that the cursor, the levels and the list *)
(* of usages are HID's; RangeKept adds the usage range.  Then the usage of *)
(* a slot is HID's (SlotUsage), and the first slot that the parser takes   *)
(* is the earliest of the places that HID gives.                           *)
(*                                                                         *)
(* For the decoder, Total is shown to add one term at a time (TotalStep),  *)
(* so that n bits are worth less than 2^n (WordValue) and a sign bit takes *)
(* 2^n away (SignedValue); a report that is long enough holds every bit of *)
(* every field (LongEnough, PayloadEnds); and the loop over the key array  *)
(* keeps the keys in order (HeldRight).                                    *)
(***************************************************************************)
EXTENDS ReportMapProofs

Pair == Nat \X Nat

LastId(list) == IF list = <<>> THEN 0 ELSE list[Len(list)][2]

(* The parser's range is the last bounds listed. *)
RangeKept ==
    /\ range.has <=> hid.listed.UsageMin # <<>> \/ hid.listed.UsageMax # <<>>
    /\ hid.followed => /\ range.min = LastId(hid.listed.UsageMin) /\ range.min < U16
                       /\ range.max = LastId(hid.listed.UsageMax) /\ range.max < U16

FreshRange == dialect = None => range = NoRange

PointerRight(o, place) ==
    /\ o.x = place["x"].field /\ o.y = place["y"].field
    /\ o.wheel = place["wheel"].field /\ o.hwheel = place["hwheel"].field
    /\ o.buttons = place["buttons"].field /\ o.button_count = place["buttons"].count
KeyboardRight(o, place) ==
    /\ o.modifiers = place["modifiers"].field
    /\ o.keys = place["keys"].field /\ o.key_count = place["keys"].count

LayoutsRight ==
    hid.followed => PointerRight(out, hid.place) /\ KeyboardRight(out_kbd, hid.place)

PlaceInv == Walking /\ RangeKept /\ FreshRange /\ LayoutsRight

LEMMA Constants == PAGE_BUTTON # PAGE_GENERIC_DESKTOP /\ PAGE_BUTTON # PAGE_CONSUMER
                /\ USAGE_KBD_MOD_MIN # 0
BY KindsAssumption

LEMMA Widths == /\ U8 \in Nat /\ U16 \in Nat /\ U32 \in Nat
                /\ U8 <= U16 /\ U16 + U8 <= U32
BY WordSizes

LEMMA Modulo ==
    ASSUME NEW a \in Nat, NEW b \in Nat, a < b PROVE a % b = a
OBVIOUS

LEMMA LastOfId ==
    ASSUME HidType, NEW tag \in {"Usage", "UsageMin", "UsageMax"}
    PROVE  LastOf(tag)[2] = LastId(hid.listed[tag])
BY DEF LastOf, LastId, Listed

(* A data item of a mouse or a keyboard that the parser follows. *)
Data(flags) == /\ ~IsConstant(flags)
               /\ Within("mouse") \/ Within("keyboard")
               /\ ~Irregular(flags)

(* The usage of a slot is the one HID gives it. *)
LEMMA SlotUsage ==
    ASSUME Walking, RangeKept, hid.followed, NEW flags, Data(flags), NEW i \in Slots
    PROVE  usage_for_slot(i) = HidUsage(i)
<1> DEFINE L == hid.listed.Usage
           a == hid.listed.UsageMin
           b == hid.listed.UsageMax
<1>1. /\ L \in Seq(Pair) /\ a \in Seq(Pair) /\ b \in Seq(Pair)
      /\ usages \in Seq(Pair)
      /\ Listed("Usage") = L /\ Listed("UsageMin") = a /\ Listed("UsageMax") = b
  BY DEF Walking, HidType, MapTypeOK, Listed, Pair
<1>2. i \in Nat /\ i < U8
  BY GlobalsType, Widths DEF Walking, Slots, MapTypeOK, GlobalState
<1>3. CASE L # <<>>
  <2>1. ~(Len(L) > MAX_LOCAL_USAGES)
    BY <1>1 DEF Data, Irregular
  <2>2. Len(usages) = Len(L) /\ \A k \in 1 .. Len(L) : usages[k] = L[k]
    BY <2>1, <1>1, Limits DEF Walking, UsagesKept
  <2>3. Len(L) \in Nat /\ Len(L) > 0 /\ usages # <<>>
    BY <2>2, <1>1, <1>3
  <2>4. Min({i + 1, Len(L)}) \in 1 .. Len(L)
    BY <2>3, <1>2, MinPair
  <2> QED
    BY <2>2, <2>3, <2>4, <1>1, <1>3 DEF usage_for_slot, HidUsage
<1>4. CASE L = <<>>
  <2>1. usages = <<>>
    BY <1>1, <1>4, Limits DEF Walking, UsagesKept
  <2>2. HidUsage(i)[1] = g.usage_page
    BY <1>1, <1>4 DEF Data, Irregular
  <2>3. HidUsage(i) = <<LastOf("UsageMin")[1],
                        Min({LastOf("UsageMin")[2] + i, LastOf("UsageMax")[2]})>>
    BY <1>1, <1>4 DEF HidUsage
  <2>4. LastOf("UsageMin")[2] = LastId(a) /\ LastOf("UsageMax")[2] = LastId(b)
    BY LastOfId DEF Walking
  <2>5. HidUsage(i) = <<g.usage_page, Min({LastId(a) + i, LastId(b)})>>
    BY <2>2, <2>3, <2>4
  <2>6. CASE range.has
    <3>1. /\ range.min = LastId(a) /\ range.max = LastId(b)
          /\ range.min \in Nat /\ range.max \in Nat
          /\ range.min < U16 /\ range.max < U16
      BY DEF RangeKept, Walking, MapTypeOK
    <3>2. (range.min + i) % U32 = range.min + i
      <4>1. range.min + i \in Nat /\ range.min + i < U32
        BY <3>1, <1>2, Widths
      <4> QED
        BY <4>1, Widths, Modulo
    <3>3. Min({range.min + i, range.max}) \in 0 .. U16 - 1
      BY <3>1, <1>2, Widths, MinPair
    <3>4. Min({range.min + i, range.max}) % U16 = Min({range.min + i, range.max})
      BY <3>3, Widths, Modulo
    <3> QED
      BY <3>1, <3>2, <3>4, <2>1, <2>5, <2>6 DEF usage_for_slot
  <2>7. CASE ~range.has
    <3>1. LastId(a) = 0 /\ LastId(b) = 0
      BY <2>7 DEF RangeKept, LastId
    <3>2. Min({0 + i, 0}) = 0
      BY <1>2, MinPair
    <3> QED
      BY <3>1, <3>2, <2>1, <2>5, <2>7 DEF usage_for_slot
  <2> QED
    BY <2>6, <2>7
<1> QED
  BY <1>3, <1>4
-----------------------------------------------------------------------------
(* Where HID has field n after an Input item. *)
Placed(n, flags) ==
    IF Present(hid.place[n].field) \/ Places(n, flags) = {} THEN hid.place[n]
    ELSE Earliest(Places(n, flags))

LEMMA Monotone ==
    ASSUME NEW a \in Nat, NEW b \in Nat, NEW s \in Nat, a <= b PROVE a * s <= b * s
<1>1. PICK d \in Nat : b = a + d
  <2>1. b - a \in Nat /\ b = a + (b - a)
    OBVIOUS
  <2> QED
    BY <2>1
<1>2. b * s = a * s + d * s /\ a * s \in Nat /\ d * s \in Nat
  BY <1>1
<1> QED
  BY <1>2

(* The slots at which an axis' usage fits. *)
Fitting(u) == {i \in Slots : usage_for_slot(i) = u /\ Fits(SlotOffset(i), g.report_size)}

At(i) == Place(SlotOffset(i), g.report_size, g.negative, 1)

(* The earliest of the places of some slots is that of the first slot. *)
LEMMA EarliestSlot ==
    ASSUME MapTypeOK, NEW S \in SUBSET Slots, S # {}
    PROVE  /\ Min(S) \in S
           /\ Earliest({At(i) : i \in S}).field = Field(SlotOffset(Min(S)), g.report_size, g.negative)
<1> DEFINE places == {At(i) : i \in S}
           m == Min(S)
<1>1. g.report_size \in Nat /\ bit_cursor \in Nat /\ S \in SUBSET Nat
  BY GlobalsType DEF Slots
<1>2. m \in S /\ m \in Nat /\ \A y \in S : m =< y /\ y \in Nat
  BY <1>1, MinOfNats
<1> HIDE DEF m
<1>3. \A i \in S : /\ m * g.report_size =< i * g.report_size
                   /\ i * g.report_size \in Nat /\ m * g.report_size \in Nat
  BY <1>1, <1>2, Monotone, Product
<1>4. \A i \in S : /\ At(i).field.bit_offset = bit_cursor + i * g.report_size
                   /\ At(i).field = Field(SlotOffset(i), g.report_size, g.negative)
  BY DEF At, Place, Field, SlotOffset
<1>5. At(m) \in places /\ \A q \in places : At(m).field.bit_offset <= q.field.bit_offset
  BY <1>1, <1>2, <1>3, <1>4
<1>6. Earliest(places) \in places
      /\ \A q \in places : Earliest(places).field.bit_offset <= q.field.bit_offset
  BY <1>5 DEF Earliest
<1>7. PICK k \in S : Earliest(places) = At(k)
  BY <1>6
<1>8. k * g.report_size = m * g.report_size
  <2>1. bit_cursor + k * g.report_size <= bit_cursor + m * g.report_size
    BY <1>4, <1>5, <1>6, <1>7, <1>2
  <2> QED
    BY <2>1, <1>1, <1>3
<1> QED
  BY <1>2, <1>4, <1>7, <1>8 DEF m, SlotOffset

LEMMA AxisRight ==
    ASSUME Walking, RangeKept, hid.followed, NEW flags, ~Irregular(flags),
           NEW n \in {"x", "y", "wheel", "hwheel"}
    PROVE  Placed(n, flags).field =
             IF Within("mouse") /\ ~IsConstant(flags) /\ IsVariable(flags)
                /\ g.usage_page # PAGE_BUTTON
             THEN set_field(hid.place[n].field, Axes[n]) ELSE hid.place[n].field
<1> DEFINE base == hid.declared[g.report_id]
           size == g.report_size
           when(j) == /\ ~IsConstant(flags) /\ Slots # {} /\ Within("mouse")
                      /\ IsVariable(flags)
                      /\ HidUsage(j) = Axes[n] /\ Fits(base + j * size, size)
           S == {j \in Slots : when(j)}
<1>1. base = bit_cursor /\ MapTypeOK
  BY DEF Walking, CursorRight
<1>2. Places(n, flags) = {At(i) : i \in S}
  <2>1. Places(n, flags) =
          {Place(base + i * size, size, g.negative, 1) : i \in S}
    BY DEF Places, Axes
  <2> QED
    BY <2>1, <1>1 DEF At, SlotOffset
<1>3. Axes[n][1] \in {PAGE_GENERIC_DESKTOP, PAGE_CONSUMER}
  BY DEF Axes
<1>4. CASE ~(Within("mouse") /\ ~IsConstant(flags) /\ IsVariable(flags))
  <2>1. S = {}
    BY <1>4
  <2> QED
    BY <2>1, <1>2, <1>4 DEF Placed
<1>5. CASE Within("mouse") /\ ~IsConstant(flags) /\ IsVariable(flags)
  <2>1. Data(flags)
    BY <1>5 DEF Data
  <2>2. size # 0
    BY <2>1 DEF Data, Irregular
  <2>3. CASE g.usage_page = PAGE_BUTTON
    <3>1. \A j \in Slots : HidUsage(j) # Axes[n]
      BY <1>3, <2>1, <2>3, Constants DEF Data, Irregular
    <3>2. S = {}
      BY <3>1
    <3> QED
      BY <3>2, <1>2, <2>3 DEF Placed
  <2>4. CASE g.usage_page # PAGE_BUTTON
    <3>1. S = Fitting(Axes[n])
      BY <1>1, <1>5, <2>1, SlotUsage DEF Fitting, SlotOffset
    <3>2. CASE S = {}
      BY <3>1, <3>2, <1>2, <1>5, <2>4 DEF Placed, set_field, Fitting
    <3>3. CASE S # {}
      <4>1. Places(n, flags) # {}
        BY <3>3, <1>2
      <4>2. Earliest(Places(n, flags)).field = Field(SlotOffset(Min(S)), size, g.negative)
        BY <1>1, <1>2, <3>3, EarliestSlot
      <4> QED
        BY <3>1, <3>3, <4>1, <4>2, <1>5, <2>2, <2>4 DEF Placed, set_field, Fitting
    <3> QED
      BY <3>2, <3>3
  <2> QED
    BY <2>3, <2>4
<1> QED
  BY <1>4, <1>5
-----------------------------------------------------------------------------
(* Of one place, that is the earliest. *)
LEMMA EarliestOne ==
    ASSUME NEW p, p.field.bit_offset \in Nat PROVE Earliest({p}) = p
<1>1. p.field.bit_offset <= p.field.bit_offset
  OBVIOUS
<1> QED
  BY <1>1 DEF Earliest

LEMMA PlacedOne ==
    ASSUME MapTypeOK, NEW n, NEW flags, NEW size, NEW count, NEW when \in BOOLEAN,
           Places(n, flags) = IF when THEN {Place(bit_cursor, size, FALSE, count)} ELSE {}
    PROVE  Placed(n, flags) = IF when /\ ~Present(hid.place[n].field)
                              THEN Place(bit_cursor, size, FALSE, count) ELSE hid.place[n]
<1>1. Place(bit_cursor, size, FALSE, count).field.bit_offset = bit_cursor /\ bit_cursor \in Nat
  BY GlobalsType DEF Place, Field
<1>2. Earliest({Place(bit_cursor, size, FALSE, count)}) = Place(bit_cursor, size, FALSE, count)
  BY <1>1, EarliestOne
<1> QED
  BY <1>2 DEF Placed

(* The first slot of a followed data item, whose usage decides its kind. *)
LEMMA FirstSlot ==
    ASSUME Walking, NEW flags, Data(flags), HidUsage(0)[1] # g.usage_page
    PROVE  /\ HidUsage(0)[1] \notin {PAGE_BUTTON, PAGE_KEYBOARD}
           /\ g.usage_page \notin {PAGE_BUTTON, PAGE_KEYBOARD}
<1>1. g.report_count # 0 /\ g.report_count \in Nat
  BY GlobalsType DEF Data, Irregular, Walking
<1>2. 0 \in Slots
  BY <1>1 DEF Slots
<1> QED
  BY <1>2 DEF Data, Irregular

LEMMA ButtonsRight ==
    ASSUME Walking, RangeKept, hid.followed, NEW flags, ~Irregular(flags)
    PROVE  Placed("buttons", flags) =
             IF /\ Within("mouse") /\ ~IsConstant(flags) /\ IsVariable(flags)
                /\ g.usage_page = PAGE_BUTTON
                /\ Fits(bit_cursor,
                        Min({g.report_count, ZMK_HID_MAX_BUTTONS}) * g.report_size)
                /\ ~Present(hid.place["buttons"].field)
             THEN Place(bit_cursor, g.report_size, FALSE,
                        Min({g.report_count, ZMK_HID_MAX_BUTTONS}))
             ELSE hid.place["buttons"]
<1> DEFINE base == hid.declared[g.report_id]
           size == g.report_size
           count == Min({g.report_count, ZMK_HID_MAX_BUTTONS})
           when == /\ ~IsConstant(flags) /\ Slots # {} /\ Within("mouse")
                   /\ IsVariable(flags) /\ HidUsage(0)[1] = PAGE_BUTTON
                   /\ Fits(base, count * size)
<1>1. base = bit_cursor /\ MapTypeOK
  BY DEF Walking, CursorRight
<1>2. Places("buttons", flags) = IF when THEN {Place(bit_cursor, size, FALSE, count)} ELSE {}
  BY <1>1 DEF Places, Axes
<1>3. Placed("buttons", flags) = IF when /\ ~Present(hid.place["buttons"].field)
                                 THEN Place(bit_cursor, size, FALSE, count)
                                 ELSE hid.place["buttons"]
  <2> HIDE DEF when
  <2>1. when \in BOOLEAN
    BY DEF when
  <2> QED
    BY <1>1, <1>2, <2>1, PlacedOne
<1>4. ASSUME Within("mouse"), ~IsConstant(flags)
      PROVE  Slots # {} /\ (HidUsage(0)[1] = PAGE_BUTTON <=> g.usage_page = PAGE_BUTTON)
  <2>1. Data(flags)
    BY <1>4 DEF Data
  <2>2. g.report_count # 0 /\ g.report_count \in Nat
    BY <1>1, <2>1, GlobalsType DEF Data, Irregular
  <2>3. 0 \in Slots
    BY <2>2 DEF Slots
  <2> QED
    BY <2>1, <2>3, FirstSlot
<1> QED
  BY <1>1, <1>3, <1>4

(* The modifiers of a keyboard are told apart by the first usage of the item. *)
LEMMA FirstUsage ==
    ASSUME Walking, RangeKept, hid.followed, NEW flags, Data(flags),
           HidUsage(0)[1] = g.usage_page
    PROVE  kbd_usages_are_modifiers <=> HidUsage(0)[2] = USAGE_KBD_MOD_MIN
<1> DEFINE L == hid.listed.Usage
           a == hid.listed.UsageMin
           b == hid.listed.UsageMax
<1>1. /\ L \in Seq(Pair) /\ usages \in Seq(Pair)
      /\ Listed("Usage") = L /\ Listed("UsageMin") = a /\ Listed("UsageMax") = b
  BY DEF Walking, HidType, MapTypeOK, Listed, Pair
<1>2. LastOf("UsageMin")[2] = LastId(a) /\ LastOf("UsageMax")[2] = LastId(b)
  BY LastOfId DEF Walking
<1>3. CASE L # <<>>
  <2>1. a = <<>> /\ b = <<>>
    BY <1>1, <1>3 DEF Data, Irregular
  <2>2. ~range.has
    BY <2>1 DEF RangeKept
  <2>3. usages # <<>> /\ usages[1] = L[1]
    BY <1>1, <1>3, Limits DEF Walking, UsagesKept
  <2>4. Min({0 + 1, Len(L)}) = 1
    BY <1>1, <1>3, MinPair
  <2> QED
    BY <2>2, <2>3, <2>4, <1>1, <1>3 DEF kbd_usages_are_modifiers, HidUsage
<1>4. CASE L = <<>>
  <2>1. usages = <<>>
    BY <1>1, <1>4, Limits DEF Walking, UsagesKept
  <2>2. HidUsage(0)[2] = Min({LastId(a) + 0, LastId(b)})
    BY <1>1, <1>2, <1>4 DEF HidUsage
  <2>3. CASE range.has
    <3>1. /\ range.min = LastId(a) /\ range.max = LastId(b)
          /\ range.min \in Nat /\ range.max \in Nat
      BY DEF RangeKept, Walking, MapTypeOK
    <3>2. ~(LastId(a) > LastId(b))
      BY <1>2 DEF Data, Irregular
    <3>3. Min({LastId(a) + 0, LastId(b)}) = LastId(a)
      BY <3>1, <3>2, MinPair
    <3> QED
      BY <2>2, <2>3, <3>1, <3>3 DEF kbd_usages_are_modifiers
  <2>4. CASE ~range.has
    <3>1. LastId(a) = 0 /\ LastId(b) = 0
      BY <2>4 DEF RangeKept, LastId
    <3>2. Min({0 + 0, 0}) = 0
      BY MinPair
    <3> QED
      BY <2>1, <2>2, <2>4, <3>1, <3>2, Constants DEF kbd_usages_are_modifiers
  <2> QED
    BY <2>3, <2>4
<1> QED
  BY <1>3, <1>4

LEMMA PairParts ==
    ASSUME NEW p \in Pair PROVE p = <<p[1], p[2]>>
BY DEF Pair

LEMMA UsagePair ==
    ASSUME Walking, NEW i \in Slots PROVE HidUsage(i) = <<HidUsage(i)[1], HidUsage(i)[2]>>
<1> DEFINE L == hid.listed.Usage
<1>1. L \in Seq(Pair) /\ Listed("Usage") = L /\ i \in Nat
  BY GlobalsType DEF Walking, HidType, Listed, Pair, Slots
<1>2. CASE L # <<>>
  <2>1. Len(L) \in Nat /\ Len(L) > 0
    BY <1>1, <1>2
  <2>2. Min({i + 1, Len(L)}) \in 1 .. Len(L)
    BY <2>1, <1>1, MinPair
  <2>3. HidUsage(i) = L[Min({i + 1, Len(L)})]
    BY <1>1, <1>2 DEF HidUsage
  <2>4. \A k \in 1 .. Len(L) : L[k] \in Pair
    BY <1>1
  <2>5. L[Min({i + 1, Len(L)})] \in Pair
    BY <2>2, <2>4
  <2> QED
    BY <2>3, <2>5, PairParts
<1>3. CASE L = <<>>
  <2>1. HidUsage(i) = <<LastOf("UsageMin")[1],
                        Min({LastOf("UsageMin")[2] + i, LastOf("UsageMax")[2]})>>
    BY <1>1, <1>3 DEF HidUsage
  <2> QED
    BY <2>1
<1> QED
  BY <1>2, <1>3

LEMMA ModifiersRight ==
    ASSUME Walking, RangeKept, hid.followed, NEW flags, ~Irregular(flags)
    PROVE  Placed("modifiers", flags) =
             IF /\ Within("keyboard") /\ ~IsConstant(flags) /\ IsVariable(flags)
                /\ g.usage_page = PAGE_KEYBOARD /\ kbd_usages_are_modifiers
                /\ g.report_size = 1 /\ g.report_count \in 1 .. BYTE
                /\ Fits(bit_cursor, g.report_count)
                /\ ~Present(hid.place["modifiers"].field)
             THEN Place(bit_cursor, g.report_count, FALSE, 1) ELSE hid.place["modifiers"]
<1> DEFINE base == hid.declared[g.report_id]
           count == g.report_count
           when == /\ ~IsConstant(flags) /\ Slots # {} /\ Within("keyboard")
                   /\ IsVariable(flags) /\ g.report_size = 1
                   /\ HidUsage(0) = <<PAGE_KEYBOARD, USAGE_KBD_MOD_MIN>>
                   /\ count <= BYTE
                   /\ Fits(base, 1 * count)
<1>1. base = bit_cursor /\ MapTypeOK /\ count \in Nat
  BY GlobalsType DEF Walking, CursorRight
<1>2. Places("modifiers", flags) = IF when THEN {Place(bit_cursor, count, FALSE, 1)} ELSE {}
  BY <1>1 DEF Places, Axes
<1>3. Placed("modifiers", flags) = IF when /\ ~Present(hid.place["modifiers"].field)
                                   THEN Place(bit_cursor, count, FALSE, 1)
                                   ELSE hid.place["modifiers"]
  <2> HIDE DEF when
  <2>1. when \in BOOLEAN
    BY DEF when
  <2> QED
    BY <1>1, <1>2, <2>1, PlacedOne
<1>4. ASSUME Within("keyboard"), ~IsConstant(flags)
      PROVE  /\ Slots # {} /\ count # 0
             /\ HidUsage(0) = <<PAGE_KEYBOARD, USAGE_KBD_MOD_MIN>>
                  <=> g.usage_page = PAGE_KEYBOARD /\ kbd_usages_are_modifiers
  <2>1. Data(flags)
    BY <1>4 DEF Data
  <2>2. count # 0
    BY <2>1 DEF Data, Irregular
  <2>3. 0 \in Slots
    BY <1>1, <2>2 DEF Slots
  <2>4. HidUsage(0)[1] = PAGE_KEYBOARD <=> g.usage_page = PAGE_KEYBOARD
    BY <2>1, FirstSlot
  <2>5. HidUsage(0) = <<HidUsage(0)[1], HidUsage(0)[2]>>
    BY <2>1, <2>3, UsagePair
  <2> QED
    BY <2>1, <2>2, <2>3, <2>4, <2>5, FirstUsage
<1>5. 1 * count = count
  BY <1>1
<1>6. count # 0 => (count <= BYTE <=> count \in 1 .. BYTE)
  BY <1>1, WidthsAssumption
<1> QED
  BY <1>1, <1>3, <1>4, <1>5, <1>6

LEMMA KeysRight ==
    ASSUME Walking, RangeKept, hid.followed, NEW flags, ~Irregular(flags)
    PROVE  Placed("keys", flags) =
             IF /\ Within("keyboard") /\ ~IsConstant(flags) /\ ~IsVariable(flags)
                /\ g.usage_page = PAGE_KEYBOARD
                /\ Fits(bit_cursor, g.report_count * g.report_size)
                /\ ~Present(hid.place["keys"].field)
             THEN Place(bit_cursor, g.report_size, FALSE, g.report_count)
             ELSE hid.place["keys"]
<1> DEFINE base == hid.declared[g.report_id]
           size == g.report_size
           count == g.report_count
           when == /\ ~IsConstant(flags) /\ Slots # {} /\ Within("keyboard")
                   /\ ~IsVariable(flags) /\ HidUsage(0)[1] = PAGE_KEYBOARD
                   /\ Fits(base, count * size)
<1>1. base = bit_cursor /\ MapTypeOK
  BY DEF Walking, CursorRight
<1>2. Places("keys", flags) = IF when THEN {Place(bit_cursor, size, FALSE, count)} ELSE {}
  BY <1>1 DEF Places, Axes
<1>3. Placed("keys", flags) = IF when /\ ~Present(hid.place["keys"].field)
                              THEN Place(bit_cursor, size, FALSE, count) ELSE hid.place["keys"]
  <2> HIDE DEF when
  <2>1. when \in BOOLEAN
    BY DEF when
  <2> QED
    BY <1>1, <1>2, <2>1, PlacedOne
<1>4. ASSUME Within("keyboard"), ~IsConstant(flags)
      PROVE  Slots # {} /\ (HidUsage(0)[1] = PAGE_KEYBOARD <=> g.usage_page = PAGE_KEYBOARD)
  <2>1. Data(flags)
    BY <1>4 DEF Data
  <2>2. g.report_count # 0 /\ g.report_count \in Nat
    BY <1>1, <2>1, GlobalsType DEF Data, Irregular
  <2>3. 0 \in Slots
    BY <2>2 DEF Slots
  <2> QED
    BY <2>1, <2>3, FirstSlot
<1> QED
  BY <1>1, <1>3, <1>4
-----------------------------------------------------------------------------
(* What an Input item leaves in the HID reading. *)
LEMMA AfterInput ==
    ASSUME HidType, NEW it, Input(it)
    PROVE  /\ hid'.followed => hid.followed /\ ~Irregular(it.v)
           /\ \A n \in Names : hid'.place[n] = Placed(n, it.v)
<1> DEFINE place == [n \in Names |-> IF Present(hid.place[n].field) \/ Places(n, it.v) = {}
                                     THEN hid.place[n] ELSE Earliest(Places(n, it.v))]
           followed == hid.followed /\ ~Irregular(it.v)
           declared == [hid.declared EXCEPT ![g.report_id] = @ + g.report_size * g.report_count]
<1>1. hid' = [hid EXCEPT !.declared = declared, !.listed = NoneListed, !.place = place,
                         !.followed = followed]
  BY DEF Input, Reading
<1>2. hid = [declared |-> hid.declared, listed |-> hid.listed, open |-> hid.open,
             closed |-> hid.closed, place |-> hid.place, followed |-> hid.followed]
  BY DEF HidType
<1>3. \A n \in Names : place[n] = Placed(n, it.v)
  BY DEF Placed
<1> HIDE DEF place, followed, declared
<1>4. hid'.place = place /\ hid'.followed = followed
  BY <1>1, <1>2
<1> QED
  BY <1>3, <1>4 DEF followed

(* The axes and the buttons that assign_input leaves. *)
LEMMA AssignedAxes ==
    ASSUME out \in PointerLayouts, g.usage_page # PAGE_BUTTON
    PROVE  LET o == assign_input(out) IN
           /\ o.x = set_field(out.x, Axes["x"]) /\ o.y = set_field(out.y, Axes["y"])
           /\ o.wheel = set_field(out.wheel, Axes["wheel"])
           /\ o.hwheel = set_field(out.hwheel, Axes["hwheel"])
           /\ o.buttons = out.buttons /\ o.button_count = out.button_count
<1> DEFINE id == LockedId(out, ~Present(out.buttons) /\ ~Present(out.x) /\ ~Present(out.y))
           locked == [out EXCEPT !.report_id = id]
<1>1. assign_input(out) =
        [locked EXCEPT !.x = set_field(@, Axes["x"]), !.y = set_field(@, Axes["y"]),
                       !.wheel = set_field(@, Axes["wheel"]),
                       !.hwheel = set_field(@, Axes["hwheel"])]
  BY DEF assign_input, Axes
<1> HIDE DEF id
<1>2. /\ locked.x = out.x /\ locked.y = out.y /\ locked.wheel = out.wheel
      /\ locked.hwheel = out.hwheel /\ locked.buttons = out.buttons
      /\ locked.button_count = out.button_count
      /\ DOMAIN locked = {"report_id", "x", "y", "wheel", "hwheel", "buttons",
                          "button_count", "valid"}
  BY DEF PointerLayouts
<1> HIDE DEF locked
<1> QED
  BY <1>1, <1>2

LEMMA AssignedButtons ==
    ASSUME MapTypeOK, g.usage_page = PAGE_BUTTON, g.report_size # 0
    PROVE  LET o == assign_input(out)
               count == Min({g.report_count, ZMK_HID_MAX_BUTTONS})
               when == ~Present(out.buttons) /\ Fits(bit_cursor, count * g.report_size)
           IN  /\ o.x = out.x /\ o.y = out.y /\ o.wheel = out.wheel /\ o.hwheel = out.hwheel
               /\ o.buttons = IF when THEN Field(bit_cursor, g.report_size, FALSE)
                              ELSE out.buttons
               /\ o.button_count = IF when THEN count ELSE out.button_count
<1> DEFINE id == LockedId(out, ~Present(out.buttons) /\ ~Present(out.x) /\ ~Present(out.y))
           locked == [out EXCEPT !.report_id = id]
           count == Min({g.report_count, ZMK_HID_MAX_BUTTONS})
           when == ~Present(out.buttons) /\ Fits(bit_cursor, count * g.report_size)
<1>1. Per(1) = g.report_size /\ out \in PointerLayouts
  BY DEF Per, MapTypeOK
<1>2. assign_input(out) =
        IF when THEN [locked EXCEPT !.buttons = Field(bit_cursor, g.report_size, FALSE),
                                    !.button_count = count]
        ELSE locked
  BY <1>1 DEF assign_input
<1> HIDE DEF id, count, when
<1>3. /\ locked.x = out.x /\ locked.y = out.y /\ locked.wheel = out.wheel
      /\ locked.hwheel = out.hwheel /\ locked.buttons = out.buttons
      /\ locked.button_count = out.button_count
      /\ DOMAIN locked = {"report_id", "x", "y", "wheel", "hwheel", "buttons",
                          "button_count", "valid"}
  BY <1>1 DEF PointerLayouts
<1> HIDE DEF locked
<1> QED
  BY <1>2, <1>3 DEF when, count

LEMMA PointerAfter ==
    ASSUME Walking, RangeKept, dialect # None, hid.followed,
           PointerRight(out, hid.place), NEW it, Input(it), ~Irregular(it.v)
    PROVE  PointerRight(out', hid'.place)
<1> DEFINE fl == it.v
           in == Within("mouse") /\ ~IsConstant(fl) /\ IsVariable(fl)
           p == hid.place
           count == Min({g.report_count, ZMK_HID_MAX_BUTTONS})
<1>1. MapTypeOK /\ HidType /\ out \in PointerLayouts
  BY DEF Walking, MapTypeOK
<1>2. out' = IF in THEN assign_input(out) ELSE out
  BY Follows DEF Input, CursorFollows
<1>3. \A n \in Names : hid'.place[n] = Placed(n, fl)
  BY <1>1, AfterInput
<1>4. \A n \in {"x", "y", "wheel", "hwheel"} :
        hid'.place[n].field = IF in /\ g.usage_page # PAGE_BUTTON
                              THEN set_field(p[n].field, Axes[n]) ELSE p[n].field
  BY <1>3, AxisRight DEF Names
<1>5. hid'.place["buttons"] =
        IF in /\ g.usage_page = PAGE_BUTTON /\ Fits(bit_cursor, count * g.report_size)
           /\ ~Present(p["buttons"].field)
        THEN Place(bit_cursor, g.report_size, FALSE, count) ELSE p["buttons"]
  <2>1. hid'.place["buttons"] = Placed("buttons", fl)
    BY <1>3 DEF Names
  <2>2. Placed("buttons", fl) =
          IF in /\ g.usage_page = PAGE_BUTTON /\ Fits(bit_cursor, count * g.report_size)
             /\ ~Present(p["buttons"].field)
          THEN Place(bit_cursor, g.report_size, FALSE, count) ELSE p["buttons"]
    <3> HIDE DEF in, p
    <3>1. CASE in
      BY <3>1, ButtonsRight DEF in, p
    <3>2. CASE ~in
      BY <3>2, ButtonsRight DEF in, p
    <3> QED
      BY <3>1, <3>2
  <2> QED
    BY <2>1, <2>2
<1>6. /\ Place(bit_cursor, g.report_size, FALSE, count).field
           = Field(bit_cursor, g.report_size, FALSE)
      /\ Place(bit_cursor, g.report_size, FALSE, count).count = count
  BY DEF Place
<1> HIDE DEF in, count
<1>7. CASE ~in
  BY <1>2, <1>4, <1>5, <1>7 DEF PointerRight
<1>8. CASE in /\ g.usage_page # PAGE_BUTTON
  BY <1>1, <1>2, <1>4, <1>5, <1>8, AssignedAxes DEF PointerRight
<1>9. CASE in /\ g.usage_page = PAGE_BUTTON
  <2>1. g.report_size # 0
    BY <1>9 DEF in, Irregular
  <2> QED
    BY <1>1, <1>2, <1>4, <1>5, <1>6, <1>9, <2>1, AssignedButtons DEF PointerRight, count
<1> QED
  BY <1>7, <1>8, <1>9

LEMMA KeyboardAfter ==
    ASSUME Walking, RangeKept, dialect # None, hid.followed,
           KeyboardRight(out_kbd, hid.place), NEW it, Input(it), ~Irregular(it.v)
    PROVE  KeyboardRight(out_kbd', hid'.place)
<1> DEFINE fl == it.v
           in == Within("keyboard") /\ ~IsConstant(fl)
           p == hid.place
           size == g.report_size
           count == g.report_count
           id == LockedId(out_kbd, ~Present(out_kbd.modifiers) /\ ~Present(out_kbd.keys))
           locked == [out_kbd EXCEPT !.report_id = id]
           mods == /\ IsVariable(fl) /\ ~Present(out_kbd.modifiers)
                   /\ kbd_usages_are_modifiers
                   /\ size = 1 /\ count \in 1 .. BYTE /\ Fits(bit_cursor, count)
           keys == /\ ~IsVariable(fl) /\ ~Present(out_kbd.keys)
                   /\ Fits(bit_cursor, count * size)
<1>1. MapTypeOK /\ HidType /\ out_kbd \in KeyboardLayouts /\ count \in Nat
  BY GlobalsType DEF Walking, MapTypeOK
<1>2. out_kbd' = IF in THEN assign_kbd_input(out_kbd, fl) ELSE out_kbd
  BY Follows DEF Input, CursorFollows
<1>3. \A n \in Names : hid'.place[n] = Placed(n, fl)
  BY <1>1, AfterInput
<1>4. hid'.place["modifiers"] =
        IF in /\ g.usage_page = PAGE_KEYBOARD /\ mods
        THEN Place(bit_cursor, count, FALSE, 1) ELSE p["modifiers"]
  BY <1>3, ModifiersRight DEF Names, KeyboardRight
<1>5. hid'.place["keys"] =
        IF in /\ g.usage_page = PAGE_KEYBOARD /\ keys
        THEN Place(bit_cursor, size, FALSE, count) ELSE p["keys"]
  BY <1>3, KeysRight DEF Names, KeyboardRight
<1>6. /\ Place(bit_cursor, count, FALSE, 1).field = Field(bit_cursor, count, FALSE)
      /\ Place(bit_cursor, size, FALSE, count).field = Field(bit_cursor, size, FALSE)
      /\ Place(bit_cursor, size, FALSE, count).count = count
  BY DEF Place
<1>7. ASSUME in
      PROVE  assign_kbd_input(out_kbd, fl) =
               IF g.usage_page # PAGE_KEYBOARD THEN locked
               ELSE IF mods THEN [locked EXCEPT !.modifiers = Field(bit_cursor, count, FALSE)]
               ELSE IF keys THEN [locked EXCEPT !.keys = Field(bit_cursor, size, FALSE),
                                                !.key_count = count]
               ELSE locked
  <2>1. size # 0 /\ count # 0
    BY <1>7 DEF Irregular
  <2>2. Per(1) = size /\ Per(BYTE) = size /\ count > 0
    BY <1>1, <2>1 DEF Per
  <2> QED
    BY <2>2 DEF assign_kbd_input
<1>8. ~(mods /\ keys)
  OBVIOUS
<1> HIDE DEF in, mods, keys, id
<1>9. /\ locked.modifiers = out_kbd.modifiers /\ locked.keys = out_kbd.keys
      /\ locked.key_count = out_kbd.key_count
      /\ DOMAIN locked = {"report_id", "modifiers", "keys", "key_count", "valid"}
  BY <1>1 DEF KeyboardLayouts
<1> HIDE DEF locked
<1>10. CASE ~in \/ g.usage_page # PAGE_KEYBOARD
  BY <1>2, <1>4, <1>5, <1>7, <1>9, <1>10 DEF KeyboardRight
<1>11. CASE in /\ g.usage_page = PAGE_KEYBOARD
  <2>1. CASE mods
    BY <1>2, <1>4, <1>5, <1>6, <1>7, <1>8, <1>9, <1>11, <2>1 DEF KeyboardRight
  <2>2. CASE ~mods /\ keys
    BY <1>2, <1>4, <1>5, <1>6, <1>7, <1>9, <1>11, <2>2 DEF KeyboardRight
  <2>3. CASE ~mods /\ ~keys
    BY <1>2, <1>4, <1>5, <1>7, <1>9, <1>11, <2>3 DEF KeyboardRight
  <2> QED
    BY <2>1, <2>2, <2>3
<1> QED
  BY <1>10, <1>11
-----------------------------------------------------------------------------
(* An item other than an Input leaves the layouts and the places alone.      *)
LEMMA OtherItem ==
    ASSUME HidType, NEW it \in Item, HandleItem(it), ~Input(it)
    PROVE  /\ out' = out /\ out_kbd' = out_kbd /\ hid'.place = hid.place
           /\ hid'.followed => hid.followed
<1>1. hid = [declared |-> hid.declared, listed |-> hid.listed, open |-> hid.open,
             closed |-> hid.closed, place |-> hid.place, followed |-> hid.followed]
  BY DEF HidType
<1>2. CASE UsagePage(it) \/ LogicalMin(it)
  BY <1>2 DEF UsagePage, LogicalMin, Set, layouts
<1>3. CASE ReportSize(it) \/ ReportCount(it)
  BY <1>1, <1>3 DEF ReportSize, ReportCount, Set, layouts, Unnarrowed
<1>4. CASE ReportId(it) \/ Push(it) \/ Pop(it)
  BY <1>1, <1>4 DEF ReportId, Push, Pop, layouts
<1>5. CASE Usage(it) \/ UsageMin(it) \/ UsageMax(it)
  <2>1. out' = out /\ out_kbd' = out_kbd
    BY <1>5 DEF Usage, UsageMin, UsageMax, LocalItem, layouts
  <2> DEFINE l == [hid.listed EXCEPT ![it.tag] = Append(@, ItemUsage(it))]
             f == it.size # 4
  <2>2. \/ hid' = [hid EXCEPT !.listed = l]
        \/ hid' = [hid EXCEPT !.listed = l, !.followed = hid.followed /\ f]
    <3>1. Local(it) = [hid EXCEPT !.listed = l]
      BY <1>1 DEF Local
    <3> HIDE DEF l, f
    <3>2. [[hid EXCEPT !.listed = l] EXCEPT !.followed = @ /\ f]
            = [hid EXCEPT !.listed = l, !.followed = hid.followed /\ f]
      BY <1>1
    <3> QED
      BY <1>5, <3>1, <3>2 DEF Usage, UsageMin, UsageMax, f
  <2> HIDE DEF l, f
  <2> QED
    BY <1>1, <2>1, <2>2
<1>6. CASE OtherReport(it)
  BY <1>1, <1>6 DEF OtherReport, layouts
<1>7. CASE Collection(it) \/ EndCollection(it)
  BY <1>1, <1>7 DEF Collection, EndCollection, layouts, Opened, Closed
<1> QED
  BY <1>2, <1>3, <1>4, <1>5, <1>6, <1>7 DEF HandleItem

(* The range follows its bounds. *)
LEMMA RangeCleared ==
    ASSUME range' = NoRange, hid'.listed = NoneListed PROVE RangeKept'
<1>1. 0 < U16
  BY Powers
<1> QED
  BY <1>1 DEF RangeKept, NoRange, NoneListed, LastId

LEMMA ItemValue ==
    ASSUME MapTypeOK, NEW it \in Item, it.size # 4
    PROVE  it.v \in Nat /\ it.v < U16 /\ ItemUsage(it)[2] = it.v
<1>1. it.v \in Nat /\ it.v < U16
  BY WordSizes DEF Item, Values
<1>2. it.v % U16 = it.v
  BY <1>1, Widths, Modulo
<1> QED
  BY <1>1, <1>2 DEF ItemUsage

LEMMA Appended ==
    ASSUME NEW l \in Seq(Pair), NEW u \in Pair
    PROVE  Append(l, u) # <<>> /\ LastId(Append(l, u)) = u[2]
<1>1. Len(Append(l, u)) = Len(l) + 1 /\ Append(l, u)[Len(l) + 1] = u /\ Len(l) \in Nat
  OBVIOUS
<1> QED
  BY <1>1 DEF LastId

LEMMA RangeItem ==
    ASSUME MapTypeOK, HidType, RangeKept, NEW it \in Item, HandleItem(it)
    PROVE  RangeKept'
<1> DEFINE l == hid.listed
           u == ItemUsage(it)
<1>1. hid = [declared |-> hid.declared, listed |-> hid.listed, open |-> hid.open,
             closed |-> hid.closed, place |-> hid.place, followed |-> hid.followed]
  BY DEF HidType
<1>2. /\ l = [Usage |-> l.Usage, UsageMin |-> l.UsageMin, UsageMax |-> l.UsageMax]
      /\ l.UsageMin \in Seq(Pair) /\ l.UsageMax \in Seq(Pair)
      /\ u \in Pair
      /\ range \in [has : BOOLEAN, min : Nat, max : Nat]
  BY UsageType DEF HidType, Pair, MapTypeOK
<1>3. CASE Input(it) \/ OtherReport(it) \/ Collection(it) \/ EndCollection(it)
  <2>1. range' = NoRange
    BY <1>3 DEF Input, OtherReport, Collection, EndCollection, clear_local
  <2>2. hid'.listed = NoneListed
    BY <1>1, <1>3 DEF Input, OtherReport, Collection, EndCollection, Reading, Opened, Closed
  <2> QED
    BY <2>1, <2>2, RangeCleared
<1>4. CASE \/ UsagePage(it) \/ LogicalMin(it) \/ ReportSize(it) \/ ReportCount(it)
           \/ ReportId(it) \/ Push(it) \/ Pop(it)
  <2>1. range' = range
    BY <1>4 DEF UsagePage, LogicalMin, ReportSize, ReportCount, ReportId, Push, Pop, Set, locals
  <2>2. hid'.listed = hid.listed /\ (hid'.followed => hid.followed)
    BY <1>1, <1>4 DEF UsagePage, LogicalMin, ReportSize, ReportCount, ReportId, Push, Pop,
                      Unnarrowed
  <2> QED
    BY <2>1, <2>2 DEF RangeKept
<1>5. CASE Usage(it)
  <2>1. hid' = [hid EXCEPT !.listed = [l EXCEPT !.Usage = Append(l.Usage, u)]]
    BY <1>5 DEF Usage, LocalItem, Local
  <2>2. hid'.listed = [l EXCEPT !.Usage = Append(l.Usage, u)] /\ hid'.followed = hid.followed
    BY <1>1, <2>1
  <2>3. hid'.listed.UsageMin = l.UsageMin /\ hid'.listed.UsageMax = l.UsageMax
    BY <1>2, <2>2
  <2> QED
    BY <1>5, <2>2, <2>3 DEF Usage, RangeKept
<1>6. CASE UsageMin(it)
  <2>1. hid' = [hid EXCEPT !.listed = [l EXCEPT !.UsageMin = Append(l.UsageMin, u)],
                           !.followed = hid.followed /\ it.size # 4]
    BY <1>1, <1>6 DEF UsageMin, LocalItem, Local
  <2>2. /\ hid'.listed = [l EXCEPT !.UsageMin = Append(l.UsageMin, u)]
        /\ hid'.followed => hid.followed /\ it.size # 4
    BY <1>1, <2>1
  <2>3. hid'.listed.UsageMin = Append(l.UsageMin, u) /\ hid'.listed.UsageMax = l.UsageMax
    BY <1>2, <2>2
  <2>4. range'.has /\ range'.min = it.v /\ range'.max = range.max
    BY <1>2, <1>6 DEF UsageMin
  <2>5. Append(l.UsageMin, u) # <<>> /\ LastId(Append(l.UsageMin, u)) = u[2]
    BY <1>2, Appended
  <2>6. it.size # 4 => it.v < U16 /\ u[2] = it.v
    BY ItemValue
  <2>7. range'.has <=> hid'.listed.UsageMin # <<>> \/ hid'.listed.UsageMax # <<>>
    BY <2>3, <2>4, <2>5
  <2>8. hid'.followed =>
          /\ range'.min = LastId(hid'.listed.UsageMin) /\ range'.min < U16
          /\ range'.max = LastId(hid'.listed.UsageMax) /\ range'.max < U16
    BY <2>2, <2>3, <2>4, <2>5, <2>6 DEF RangeKept
  <2> QED
    BY <2>7, <2>8 DEF RangeKept
<1>7. CASE UsageMax(it)
  <2>1. hid' = [hid EXCEPT !.listed = [l EXCEPT !.UsageMax = Append(l.UsageMax, u)],
                           !.followed = hid.followed /\ it.size # 4]
    BY <1>1, <1>7 DEF UsageMax, LocalItem, Local
  <2>2. /\ hid'.listed = [l EXCEPT !.UsageMax = Append(l.UsageMax, u)]
        /\ hid'.followed => hid.followed /\ it.size # 4
    BY <1>1, <2>1
  <2>3. hid'.listed.UsageMax = Append(l.UsageMax, u) /\ hid'.listed.UsageMin = l.UsageMin
    BY <1>2, <2>2
  <2>4. range'.has /\ range'.max = it.v /\ range'.min = range.min
    BY <1>2, <1>7 DEF UsageMax
  <2>5. Append(l.UsageMax, u) # <<>> /\ LastId(Append(l.UsageMax, u)) = u[2]
    BY <1>2, Appended
  <2>6. it.size # 4 => it.v < U16 /\ u[2] = it.v
    BY ItemValue
  <2>7. range'.has <=> hid'.listed.UsageMin # <<>> \/ hid'.listed.UsageMax # <<>>
    BY <2>3, <2>4, <2>5
  <2>8. hid'.followed =>
          /\ range'.min = LastId(hid'.listed.UsageMin) /\ range'.min < U16
          /\ range'.max = LastId(hid'.listed.UsageMax) /\ range'.max < U16
    BY <2>2, <2>3, <2>4, <2>5, <2>6 DEF RangeKept
  <2> QED
    BY <2>7, <2>8 DEF RangeKept
<1> QED
  BY <1>3, <1>4, <1>5, <1>6, <1>7 DEF HandleItem

-----------------------------------------------------------------------------
LEMMA NothingPlaced ==
    /\ PointerRight(NoLayout, NoReading.place)
    /\ KeyboardRight(NoKbdLayout, NoReading.place)
<1>1. \A n \in Names : NoReading.place[n] = NoPlace
  BY DEF NoReading
<1>2. NoPlace.field = NoField /\ NoPlace.count = 0
  BY DEF NoPlace
<1> QED
  BY <1>1, <1>2 DEF PointerRight, KeyboardRight, NoLayout, NoKbdLayout, Names

LEMMA PlaceInit == Init => PlaceInv
<1> SUFFICES ASSUME Init PROVE PlaceInv
  OBVIOUS
<1>1. Walking
  BY WalkingInit
<1>2. RangeKept /\ FreshRange
  <2>1. 0 < U16
    BY Powers
  <2> QED
    BY <2>1 DEF Init, RangeKept, FreshRange, NoReading, NoRange, NoneListed, LastId
<1>3. LayoutsRight
  BY NothingPlaced DEF Init, LayoutsRight
<1> QED
  BY <1>1, <1>2, <1>3 DEF PlaceInv

LEMMA PlaceStep == PlaceInv /\ [Next]_vars => PlaceInv'
<1> SUFFICES ASSUME PlaceInv, [Next]_vars PROVE PlaceInv'
  OBVIOUS
<1>1. Walking /\ RangeKept /\ FreshRange /\ LayoutsRight /\ MapTypeOK /\ HidType
  BY DEF PlaceInv, Walking
<1>2. Walking'
  BY <1>1, WalkingStep
<1>3. ASSUME NEW d \in Dialects, Parse(d) PROVE PlaceInv'
  <2>1. range' = NoRange /\ hid' = NoReading /\ dialect' # None
    BY <1>1, <1>3, DialectsAssumption DEF Parse, FreshRange, locals
  <2>2. RangeKept'
    BY <2>1, RangeCleared DEF NoReading
  <2>3. LayoutsRight'
    BY <1>3, <2>1, NothingPlaced DEF Parse, LayoutsRight
  <2> QED
    BY <1>2, <2>1, <2>2, <2>3 DEF PlaceInv, FreshRange
<1>4. CASE Walk
  <2>1. PICK it \in Item : HandleItem(it)
    BY <1>1, <1>4, WalkedItem DEF MapTypeOK
  <2>2. dialect # None /\ dialect' # None
    BY <1>4 DEF Walk
  <2>3. RangeKept'
    BY <1>1, <2>1, RangeItem
  <2>4. LayoutsRight'
    <3>1. CASE Input(it)
      BY <1>1, <2>2, <3>1, AfterInput, PointerAfter, KeyboardAfter DEF LayoutsRight
    <3>2. CASE ~Input(it)
      BY <1>1, <2>1, <3>2, OtherItem DEF LayoutsRight
    <3> QED
      BY <3>1, <3>2
  <2> QED
    BY <1>2, <2>2, <2>3, <2>4 DEF PlaceInv, FreshRange
<1>5. CASE Return
  <2>1. range' = NoRange /\ hid' = [NoReading EXCEPT !.place = hid.place, !.followed = hid.followed]
    BY <1>5 DEF Return, clear_local
  <2>2. hid'.listed = NoneListed /\ hid'.place = hid.place /\ hid'.followed = hid.followed
    BY <2>1 DEF NoReading
  <2>3. RangeKept'
    BY <2>1, <2>2, RangeCleared
  <2>4. PointerRight(out, hid.place) => PointerRight(out', hid'.place)
    BY <1>1, <1>5, <2>2 DEF Return, PointerRight, MapTypeOK, PointerLayouts
  <2>5. KeyboardRight(out_kbd, hid.place) => KeyboardRight(out_kbd', hid'.place)
    BY <1>1, <1>5, <2>2 DEF Return, KeyboardRight, MapTypeOK, KeyboardLayouts
  <2> QED
    BY <1>1, <1>2, <2>1, <2>2, <2>3, <2>4, <2>5 DEF PlaceInv, FreshRange, LayoutsRight
<1>6. CASE UNCHANGED vars
  BY <1>1, <1>2, <1>6
     DEF PlaceInv, vars, locals, layouts, RangeKept, FreshRange, LayoutsRight
<1> QED
  BY <1>3, <1>4, <1>5, <1>6 DEF Next

LEMMA PlacesFollow == PlaceInv => RightPlaces
BY DEF PlaceInv, LayoutsRight, RightPlaces, PointerRight, KeyboardRight, Axes

(* On every map that the parser follows the layouts hold the first           *)
(* occurrence of each field, at the bit of its report that HID gives it      *)
(* (handle_main, usage_for_slot, set_field).                                 *)
THEOREM PlacesCorrect == Spec => []RightPlaces
BY PlaceInit, PlaceStep, PlacesFollow, PTL DEF Spec

-----------------------------------------------------------------------------
(* The sums that add the terms of t up one by one, as far as n. *)
Sums(F, t, n) == F[0] = 0 /\ \A k \in 1 .. n : F[k] = F[k - 1] + t[k - 1]

(* A total is the last of any such sums. *)
LEMMA TotalOf ==
    ASSUME NEW n \in Nat, NEW t, \A i \in 0 .. n - 1 : t[i] \in Int, NEW s, Sums(s, t, n)
    PROVE  Total(t, n) = s[n] /\ s[n] \in Int
<1> DEFINE Step(F) == [k \in 0 .. n |-> IF k = 0 THEN 0 ELSE F[k - 1] + t[k - 1]]
           sum == CHOOSE F : F = Step(F)
           G == [k \in 0 .. n |-> s[k]]
           A == {k \in 0 .. n : s[k] \in Int}
           B == {k \in 0 .. n : sum[k] = s[k]}
<1>1. G = Step(G)
  <2>1. \A k \in 0 .. n : G[k] = Step(G)[k]
    BY DEF Sums
  <2> QED
    BY <2>1
<1>2. sum = Step(sum)
  <2> HIDE DEF G, Step
  <2> QED
    BY <1>1
<1>3. Sums(sum, t, n)
  <2> HIDE DEF sum
  <2> QED
    BY <1>2 DEF Sums
<1>4. Total(t, n) = sum[n]
  BY DEF Total
<1> HIDE DEF sum
<1>5. 0 \in A /\ 0 \in B
  BY <1>3 DEF Sums
<1>6. \A k \in 1 .. n : k - 1 \in A => k \in A
  BY DEF Sums
<1>7. \A k \in 1 .. n : k - 1 \in B => k \in B
  BY <1>3 DEF Sums
<1>8. n \in A /\ n \in B
  <2> HIDE DEF A, B
  <2>1. \A k \in 0 .. n : k \in A
    BY <1>5, <1>6, UpTo
  <2>2. \A k \in 0 .. n : k \in B
    BY <1>5, <1>7, UpTo
  <2> QED
    BY <2>1, <2>2
<1> QED
  BY <1>4, <1>8

LEMMA SumsExist ==
    ASSUME NEW n \in Nat, NEW t
    PROVE  \E F : Sums(F, t, n)
<1> DEFINE S == {m \in 0 .. n : \E F : Sums(F, t, m)}
<1>1. 0 \in S
  <2>1. Sums([k \in {0} |-> 0], t, 0)
    BY DEF Sums
  <2> QED
    BY <2>1
<1>2. ASSUME NEW m \in 1 .. n, m - 1 \in S PROVE m \in S
  <2>1. PICK F : Sums(F, t, m - 1)
    BY <1>2
  <2> DEFINE G == [k \in 0 .. m |-> IF k = m THEN F[m - 1] + t[m - 1] ELSE F[k]]
  <2>2. G[0] = 0
    BY <2>1 DEF Sums
  <2>3. ASSUME NEW k \in 1 .. m PROVE G[k] = G[k - 1] + t[k - 1]
    <3>1. CASE k = m
      BY <3>1
    <3>2. CASE k # m
      BY <3>2, <2>1 DEF Sums
    <3> QED
      BY <3>1, <3>2
  <2>4. Sums(G, t, m)
    BY <2>2, <2>3 DEF Sums
  <2> HIDE DEF G
  <2> QED
    BY <2>4
<1>3. \A m \in 0 .. n : m \in S
  <2> HIDE DEF S
  <2>1. \A m \in 1 .. n : m - 1 \in S => m \in S
    BY <1>2
  <2> QED
    BY <1>1, <2>1, UpTo
<1> QED
  BY <1>3

(* A total grows by one term at a time. *)
LEMMA TotalStep ==
    ASSUME NEW n \in Nat, NEW t, \A i \in 0 .. n : t[i] \in Int
    PROVE  Total(t, 0) = 0 /\ Total(t, n) \in Int /\ Total(t, n + 1) = Total(t, n) + t[n]
<1>1. PICK F : Sums(F, t, n + 1)
  BY SumsExist
<1>2. Sums(F, t, n) /\ Sums(F, t, 0)
  BY <1>1 DEF Sums
<1>3. Total(t, n + 1) = F[n + 1]
  BY <1>1, TotalOf
<1>4. Total(t, n) = F[n] /\ F[n] \in Int
  BY <1>2, TotalOf
<1>5. Total(t, 0) = F[0]
  BY <1>2, TotalOf
<1>6. F[n + 1] = F[n] + t[n] /\ F[0] = 0
  BY <1>1 DEF Sums
<1> QED
  BY <1>3, <1>4, <1>5, <1>6

(* Totals of the same terms are the same. *)
LEMMA TotalSame ==
    ASSUME NEW n \in Nat, NEW t, NEW u, \A i \in 0 .. n - 1 : t[i] \in Int /\ u[i] = t[i]
    PROVE  Total(u, n) = Total(t, n)
<1>1. PICK F : Sums(F, t, n)
  BY SumsExist
<1>2. Sums(F, u, n)
  BY <1>1 DEF Sums
<1> QED
  BY <1>1, <1>2, TotalOf

(* The bits b of a field, each times its power of two. *)
Weighted(t, b, n) == \A i \in 0 .. n - 1 : b[i] \in {0, 1} /\ t[i] = b[i] * 2 ^ i

LEMMA WeightedInt ==
    ASSUME NEW n \in Nat, NEW b, NEW t, Weighted(t, b, n)
    PROVE  \A i \in 0 .. n - 1 : t[i] \in Int
<1>1. ASSUME NEW i \in 0 .. n - 1 PROVE t[i] \in Int
  <2>1. i \in Nat
    OBVIOUS
  <2>2. 2 ^ i \in Nat
    BY <2>1, PowerStep
  <2>3. t[i] = b[i] * 2 ^ i /\ b[i] \in {0, 1}
    BY DEF Weighted
  <2>4. CASE b[i] = 0
    BY <2>2, <2>3, <2>4
  <2>5. CASE b[i] = 1
    BY <2>2, <2>3, <2>5
  <2> QED
    BY <2>3, <2>4, <2>5
<1> QED
  BY <1>1

(* What n bits are worth: less than the n-th power, and nothing only if all are 0. *)
LEMMA WordValue ==
    ASSUME NEW n \in Nat, NEW b, NEW t, Weighted(t, b, n)
    PROVE  /\ Total(t, n) \in Nat /\ Total(t, n) < 2 ^ n
           /\ Total(t, n) = 0 <=> \A i \in 0 .. n - 1 : b[i] = 0
<1> DEFINE Worth(k) == /\ Total(t, k) \in Nat /\ Total(t, k) < 2 ^ k
                       /\ Total(t, k) = 0 <=> \A i \in 0 .. k - 1 : b[i] = 0
           S == {k \in 0 .. n : Worth(k)}
<1>1. \A i \in 0 .. n - 1 : t[i] \in Int
  BY WeightedInt
<1>2. 0 \in S
  <2>1. Total(t, 0) = 0
    <3>1. Sums([k \in {0} |-> 0], t, 0)
      BY DEF Sums
    <3> QED
      BY <3>1, TotalOf
  <2>2. Worth(0)
    BY <2>1, PowerZero
  <2> QED
    BY <2>2
<1>3. ASSUME NEW k \in 1 .. n, k - 1 \in S PROVE k \in S
  <2> DEFINE j == k - 1
  <2>1. j \in Nat /\ j + 1 = k /\ j \in 0 .. n - 1 /\ \A i \in 0 .. j : t[i] \in Int
    BY <1>1
  <2>2. Worth(j)
    BY <1>3
  <2>3. Total(t, j + 1) = Total(t, j) + t[j]
    <3> HIDE DEF j
    <3> QED
      BY <2>1, TotalStep
  <2>4. 2 ^ j \in Nat \ {0} /\ 2 ^ (j + 1) = 2 * 2 ^ j
    <3> HIDE DEF j
    <3> QED
      BY <2>1, PowerStep, PowerMonotone
  <2>5. b[j] \in {0, 1} /\ t[j] = b[j] * 2 ^ j
    BY <2>1 DEF Weighted
  <2>6. (\A i \in 0 .. k - 1 : b[i] = 0) <=> b[j] = 0 /\ \A i \in 0 .. j - 1 : b[i] = 0
    BY <2>1
  <2> HIDE DEF j
  <2>7. CASE b[j] = 0
    <3>1. t[j] = 0
      BY <2>4, <2>5, <2>7
    <3> QED
      BY <2>1, <2>2, <2>3, <2>4, <2>6, <2>7, <3>1
  <2>8. CASE b[j] = 1
    <3>1. t[j] = 2 ^ j
      BY <2>4, <2>5, <2>8
    <3> QED
      BY <2>1, <2>2, <2>3, <2>4, <2>6, <2>8, <3>1
  <2> QED
    BY <2>5, <2>7, <2>8
<1>4. \A k \in 0 .. n : k \in S
  <2> HIDE DEF S
  <2>1. \A k \in 1 .. n : k - 1 \in S => k \in S
    BY <1>3
  <2> QED
    BY <1>2, <2>1, UpTo
<1> QED
  BY <1>4

(* Two's complement: the last bit counts negative. *)
LEMMA SignedValue ==
    ASSUME NEW n \in Nat \ {0}, NEW b, NEW t, Weighted(t, b, n),
           NEW u, \A i \in 0 .. n - 2 : u[i] = t[i], u[n - 1] = -(2 ^ (n - 1)) * b[n - 1]
    PROVE  Total(u, n) = IF Total(t, n) >= 2 ^ (n - 1) THEN Total(t, n) - 2 ^ n ELSE Total(t, n)
<1> DEFINE m == n - 1
<1>1. m \in Nat /\ m + 1 = n
  OBVIOUS
<1>2. \A i \in 0 .. m : t[i] \in Int
  BY WeightedInt
<1>3. b[m] \in {0, 1} /\ t[m] = b[m] * 2 ^ m
  BY <1>1 DEF Weighted
<1>4. u[m] = -(2 ^ m) * b[m] /\ \A i \in 0 .. m - 1 : u[i] = t[i]
  OBVIOUS
<1>5. Weighted(t, b, m)
  BY DEF Weighted
<1> HIDE DEF m
<1>6. 2 ^ m \in Nat \ {0} /\ 2 ^ n = 2 * 2 ^ m
  BY <1>1, PowerStep, PowerMonotone
<1>7. Total(t, m) \in Nat /\ Total(t, m) < 2 ^ m
  BY <1>1, <1>5, WordValue
<1>8. Total(u, m) = Total(t, m)
  BY <1>1, <1>2, <1>4, TotalSame
<1>9. Total(t, n) = Total(t, m) + t[m]
  BY <1>1, <1>2, TotalStep
<1>10. u[m] \in Int
  BY <1>3, <1>4, <1>6
<1>11. \A i \in 0 .. m : u[i] \in Int
  BY <1>1, <1>2, <1>4, <1>10
<1>12. Total(u, n) = Total(u, m) + u[m]
  BY <1>1, <1>11, TotalStep
<1>13. CASE b[m] = 0
  <2>1. t[m] = 0 /\ u[m] = 0
    BY <1>3, <1>4, <1>6, <1>13
  <2> QED
    BY <1>6, <1>7, <1>8, <1>9, <1>12, <2>1, <1>1
<1>14. CASE b[m] = 1
  <2>1. t[m] = 2 ^ m /\ u[m] = -(2 ^ m)
    BY <1>3, <1>4, <1>6, <1>14
  <2> QED
    BY <1>6, <1>7, <1>8, <1>9, <1>12, <2>1, <1>1
<1> QED
  BY <1>3, <1>13, <1>14

-----------------------------------------------------------------------------
(* A field whose bits are all in the payload. *)
InPayload(p, f) == p \in Seq({0, 1}) /\ (Present(f) => f.bit_offset + f.bit_size <= Len(p))

LEMMA BitHeld ==
    ASSUME NEW p \in Seq({0, 1}), NEW n \in Nat, n < Len(p)
    PROVE  Bit(p, n) = p[n + 1] /\ p[n + 1] \in {0, 1}
BY DEF Bit

(* What the loop over a field's bits builds, and what HID means by them. *)
LEMMA UnsignedMeaning ==
    ASSUME NEW f \in Fields, NEW p, InPayload(p, f)
    PROVE  /\ Unsigned(p, f) \in Nat /\ Unsigned(p, f) < 2 ^ f.bit_size
           /\ Unsigned(p, f) = 0 <=> \A i \in 0 .. f.bit_size - 1 : p[f.bit_offset + i + 1] = 0
           /\ Meaning(p, f) =
                IF /\ f.bit_size > 0 /\ (f.is_signed \/ f.bit_size = WORD)
                   /\ Unsigned(p, f) >= 2 ^ (f.bit_size - 1)
                THEN Unsigned(p, f) - 2 ^ f.bit_size ELSE Unsigned(p, f)
<1> DEFINE n == f.bit_size
           b == [i \in 0 .. n - 1 |-> p[f.bit_offset + i + 1]]
           t == [i \in 0 .. n - 1 |-> Bit(p, f.bit_offset + i) * 2 ^ i]
           weight(i) == IF i = n - 1 /\ (f.is_signed \/ n = WORD) THEN -(2 ^ i) ELSE 2 ^ i
           u == [i \in 0 .. n - 1 |-> weight(i) * p[f.bit_offset + i + 1]]
<1>1. n \in Nat /\ f.bit_offset \in Nat
  BY DEF Fields
<1>2. ASSUME NEW i \in 0 .. n - 1
      PROVE  /\ b[i] \in {0, 1} /\ t[i] = b[i] * 2 ^ i /\ b[i] = p[f.bit_offset + i + 1]
             /\ u[i] = weight(i) * b[i] /\ 2 ^ i \in Nat
  <2>1. f.bit_offset + i \in Nat /\ f.bit_offset + i < Len(p) /\ p \in Seq({0, 1}) /\ i \in Nat
    BY <1>1 DEF InPayload, Present
  <2>2. Bit(p, f.bit_offset + i) = p[f.bit_offset + i + 1] /\ p[f.bit_offset + i + 1] \in {0, 1}
    <3> HIDE DEF n
    <3> QED
      BY <2>1, BitHeld
  <2>3. 2 ^ i \in Nat
    BY <2>1, PowerStep
  <2> QED
    BY <2>2, <2>3
<1>3. Unsigned(p, f) = Total(t, n)
  BY DEF Unsigned
<1>4. Meaning(p, f) = Total(u, n)
  BY DEF Meaning
<1>5. Weighted(t, b, n)
  BY <1>2 DEF Weighted
<1>6. \A i \in 0 .. n - 1 : b[i] = p[f.bit_offset + i + 1]
  OBVIOUS
<1>7. ASSUME NEW i \in 0 .. n - 1, ~(i = n - 1 /\ (f.is_signed \/ n = WORD)) PROVE u[i] = t[i]
  <2>1. weight(i) = 2 ^ i
    BY <1>7
  <2>2. b[i] = 0 \/ b[i] = 1
    BY <1>2
  <2> HIDE DEF b, t, u, weight
  <2> QED
    BY <1>2, <2>1, <2>2
<1>8. ASSUME n > 0, f.is_signed \/ n = WORD PROVE u[n - 1] = -(2 ^ (n - 1)) * b[n - 1]
  <2>1. n - 1 \in 0 .. n - 1
    BY <1>1, <1>8
  <2>2. weight(n - 1) = -(2 ^ (n - 1))
    BY <1>8
  <2> HIDE DEF b, t, u, weight
  <2> QED
    BY <1>2, <2>1, <2>2
<1> HIDE DEF n, b, t, u, weight
<1>9. \A i \in 0 .. n - 1 : t[i] \in Int
  BY <1>1, <1>5, WeightedInt
<1>10. Total(t, n) \in Nat /\ Total(t, n) < 2 ^ n
       /\ (Total(t, n) = 0 <=> \A i \in 0 .. n - 1 : b[i] = 0)
  BY <1>1, <1>5, WordValue
<1>11. CASE n > 0 /\ (f.is_signed \/ n = WORD)
  <2>1. n \in Nat \ {0} /\ u[n - 1] = -(2 ^ (n - 1)) * b[n - 1] /\ \A i \in 0 .. n - 2 : u[i] = t[i]
    BY <1>1, <1>7, <1>8, <1>11
  <2>2. Total(u, n) = IF Total(t, n) >= 2 ^ (n - 1) THEN Total(t, n) - 2 ^ n ELSE Total(t, n)
    BY <1>5, <2>1, SignedValue
  <2> QED
    BY <1>3, <1>4, <1>6, <1>10, <1>11, <2>2 DEF n
<1>12. CASE ~(n > 0 /\ (f.is_signed \/ n = WORD))
  <2>1. \A i \in 0 .. n - 1 : t[i] \in Int /\ u[i] = t[i]
    BY <1>1, <1>7, <1>9, <1>12
  <2>2. Total(u, n) = Total(t, n)
    BY <1>1, <2>1, TotalSame
  <2> QED
    BY <1>3, <1>4, <1>6, <1>10, <1>12, <2>2 DEF n
<1> QED
  BY <1>11, <1>12

(* extract returns what HID means by a field's bits. *)
LEMMA ExtractMeaning ==
    ASSUME NEW f \in Fields, f.bit_size <= WORD, NEW p, InPayload(p, f)
    PROVE  extract(p, f) = {Meaning(p, f)}
<1> DEFINE n == f.bit_size
           v == Unsigned(p, f)
<1>1. n \in Nat /\ f.is_signed \in BOOLEAN /\ WORD \in Nat \ {0}
  BY WidthsAssumption DEF Fields
<1>2. v \in Nat /\ v < 2 ^ n
  BY UnsignedMeaning
<1>3. Meaning(p, f) = IF n > 0 /\ (f.is_signed \/ n = WORD) /\ v >= 2 ^ (n - 1) THEN v - 2 ^ n ELSE v
  BY UnsignedMeaning
<1>4. extract(p, f) =
        IF n = 0 THEN {0}
        ELSE {IF f.is_signed /\ n < WORD /\ v >= 2 ^ (n - 1) THEN v - 2 ^ n
              ELSE IF v >= 2 ^ (WORD - 1) THEN v - 2 ^ WORD ELSE v}
  BY <1>1 DEF extract, AsSigned, Present
<1> HIDE DEF n, v
<1>5. CASE n = 0
  <2>1. v = 0
    BY <1>2, <1>5, PowerZero
  <2> QED
    BY <1>3, <1>4, <1>5, <2>1
<1>6. CASE n = WORD
  BY <1>1, <1>3, <1>4, <1>6
<1>7. CASE n > 0 /\ n < WORD
  <2>1. 2 ^ n <= 2 ^ (WORD - 1) /\ 2 ^ n \in Nat /\ 2 ^ (WORD - 1) \in Nat
    <3>1. WORD - 1 \in Nat /\ n <= WORD - 1
      BY <1>1, <1>7
    <3> QED
      BY <1>1, <3>1, PowerMonotone
  <2>2. ~(v >= 2 ^ (WORD - 1))
    BY <1>2, <2>1
  <2> QED
    BY <1>1, <1>3, <1>4, <1>7, <2>2
<1> QED
  BY <1>1, <1>5, <1>6, <1>7 DEF n

-----------------------------------------------------------------------------
LEMMA Division ==
    ASSUME NEW a \in Nat, NEW b \in Nat \ {0}
    PROVE  /\ a \div b \in Nat /\ b * (a \div b) \in Nat
           /\ b * (a \div b) <= a /\ a < b * (a \div b) + b
OBVIOUS

LEMMA Multiples ==
    ASSUME NEW b \in Nat, NEW m \in Nat, NEW n \in Nat, m <= n
    PROVE  b * m \in Nat /\ b * n \in Nat /\ b * m <= b * n
<1>1. b * (n - m) \in Nat /\ b * m \in Nat
  <2>1. n - m \in Nat
    OBVIOUS
  <2> QED
    BY <2>1, Product
<1>2. b * n = b * m + b * (n - m)
  OBVIOUS
<1> QED
  BY <1>1, <1>2

(* A payload of whole bytes that is long enough holds so many bits. *)
LEMMA LongEnough ==
    ASSUME NEW p \in Payloads, NEW bits \in Nat, ~(Length(p) < Needed(bits))
    PROVE  p \in Seq({0, 1}) /\ bits <= Len(p)
<1> DEFINE B == BYTE
           q == Needed(bits)
<1>1. PICK n \in Nat : p \in [1 .. B * n -> {0, 1}]
  BY LimitsAssumption DEF Payloads
<1>2. B \in Nat \ {0} /\ B * n \in Nat
  BY WidthsAssumption, Product
<1>3. p \in Seq({0, 1}) /\ Len(p) = B * n
  <2> DEFINE m == B * n
  <2>1. m \in Nat /\ p \in [1 .. m -> {0, 1}]
    BY <1>1, <1>2
  <2> HIDE DEF m
  <2>2. p \in Seq({0, 1}) /\ Len(p) = m
    BY <2>1
  <2> QED
    BY <2>2 DEF m
<1>4. Length(p) \in Nat /\ B * Length(p) <= B * n
  BY <1>2, <1>3, Division DEF Length
<1>5. q \in Nat /\ bits + B - 1 < B * q + B
  BY <1>2, Division DEF Needed
<1>6. B * q <= B * Length(p) /\ B * q \in Nat /\ B * Length(p) \in Nat
  BY <1>2, <1>4, <1>5, Multiples
<1> HIDE DEF B, q
<1> QED
  BY <1>2, <1>3, <1>4, <1>5, <1>6

-----------------------------------------------------------------------------
LEMMA LayoutFields ==
    ASSUME MapTypeOK
    PROVE  /\ out.x \in Fields /\ out.y \in Fields /\ out.wheel \in Fields /\ out.hwheel \in Fields
           /\ out.buttons \in Fields /\ out.button_count \in Nat
           /\ out.button_count <= ZMK_HID_MAX_BUTTONS
           /\ out_kbd.modifiers \in Fields /\ out_kbd.keys \in Fields /\ out_kbd.key_count \in Nat
BY Powers, Limits DEF MapTypeOK, PointerLayouts, KeyboardLayouts

(* Each field of the pointer ends within the payload that is asked for. *)
LEMMA PayloadEnds ==
    ASSUME MapTypeOK
    PROVE  /\ payload_bits(out) \in Nat
           /\ FieldEnd(out.x) <= payload_bits(out) /\ FieldEnd(out.y) <= payload_bits(out)
           /\ FieldEnd(out.wheel) <= payload_bits(out) /\ FieldEnd(out.hwheel) <= payload_bits(out)
           /\ ButtonsEnd(out) <= payload_bits(out)
<1>1. /\ FieldEnd(out.x) \in Nat /\ FieldEnd(out.y) \in Nat /\ FieldEnd(out.wheel) \in Nat
      /\ FieldEnd(out.hwheel) \in Nat
  BY LayoutFields DEF FieldEnd, Fields
<1>2. ButtonsEnd(out) \in Nat
  <2>1. out.buttons.bit_offset \in Nat /\ Stride(out) \in Nat
    BY LayoutFields DEF Stride, Fields
  <2>2. out.button_count * Stride(out) \in Nat
    BY <2>1, LayoutFields, Product
  <2> QED
    BY <2>1, <2>2 DEF ButtonsEnd
<1> QED
  BY <1>1, <1>2, MaxOfFive DEF payload_bits

(* What the loop over the buttons keeps of the layout. *)
LayoutShape ==
    /\ ~Present(out.buttons) => out.button_count = 0
    /\ ~Present(out_kbd.keys) => out_kbd.key_count = 0
    /\ ~out_kbd.modifiers.is_signed /\ ~out_kbd.keys.is_signed
    /\ out_kbd.modifiers.bit_size <= BYTE

(* A report that is accepted decodes to what HID says of its bits. *)
LEMMA PointerFollows ==
    ASSUME MapTypeOK, LayoutShape, RightPlaces
    PROVE  PointerMeaning
<1> SUFFICES ASSUME hid.followed, \A n \in DOMAIN Axes : out[n].bit_size <= WORD,
                    out.buttons.bit_size <= WORD,
                    NEW p \in Payloads, NEW rep \in zmk_hid_decode_report(out, p)
             PROVE  LET at(n) == hid.place[n].field
                        button(i) == [at("buttons") EXCEPT !.bit_offset = @ + i * at("buttons").bit_size]
                    IN  /\ rep.dx = Meaning(p, at("x")) /\ rep.dy = Meaning(p, at("y"))
                        /\ rep.wheel = Meaning(p, at("wheel"))
                        /\ rep.hwheel = Meaning(p, at("hwheel"))
                        /\ rep.buttons = {i \in 0 .. hid.place["buttons"].count - 1 :
                                            Meaning(p, button(i)) # 0}
  BY DEF PointerMeaning
<1> DEFINE f == out.buttons
           button(i) == [f EXCEPT !.bit_offset = @ + i * f.bit_size]
<1>1. /\ hid.place["x"].field = out.x /\ hid.place["y"].field = out.y
      /\ hid.place["wheel"].field = out.wheel /\ hid.place["hwheel"].field = out.hwheel
      /\ hid.place["buttons"].field = f /\ hid.place["buttons"].count = out.button_count
  BY DEF RightPlaces, Axes
<1>2. ~(Length(p) < Needed(payload_bits(out)))
  BY DEF zmk_hid_decode_report
<1>3. /\ rep.dx \in extract(p, out.x) /\ rep.dy \in extract(p, out.y)
      /\ rep.wheel \in extract(p, out.wheel) /\ rep.hwheel \in extract(p, out.hwheel)
      /\ rep.buttons \in Buttons(out, p)
  BY DEF zmk_hid_decode_report
<1>4. p \in Seq({0, 1}) /\ payload_bits(out) <= Len(p) /\ Len(p) \in Nat
  BY <1>2, PayloadEnds, LongEnough
<1>5. InPayload(p, out.x) /\ InPayload(p, out.y) /\ InPayload(p, out.wheel) /\ InPayload(p, out.hwheel)
  <2>1. ASSUME NEW d \in Fields, FieldEnd(d) <= payload_bits(out) PROVE InPayload(p, d)
    BY <1>4, <2>1, PayloadEnds DEF InPayload, FieldEnd, Fields
  <2> QED
    BY <2>1, LayoutFields, PayloadEnds
<1>6. /\ out.x.bit_size <= WORD /\ out.y.bit_size <= WORD
      /\ out.wheel.bit_size <= WORD /\ out.hwheel.bit_size <= WORD
  BY DEF Axes
<1>7. /\ rep.dx = Meaning(p, out.x) /\ rep.dy = Meaning(p, out.y)
      /\ rep.wheel = Meaning(p, out.wheel) /\ rep.hwheel = Meaning(p, out.hwheel)
  BY <1>3, <1>5, <1>6, LayoutFields, ExtractMeaning
<1>8. f \in Fields /\ f.bit_size \in Nat /\ f.bit_offset \in Nat /\ out.button_count \in Nat
  BY LayoutFields DEF Fields
<1>9. Stride(out) <= WORD
  BY WidthsAssumption DEF Stride
<1>10. ButtonIndices(out) = 0 .. out.button_count - 1
  <2>1. Min({out.button_count, ZMK_HID_MAX_BUTTONS}) = out.button_count
    BY LayoutFields, WidthsAssumption, MinPair
  <2> QED
    BY <2>1 DEF ButtonIndices
<1>11. rep.buttons = {i \in 0 .. out.button_count - 1 : Pressed(out, p, i)}
  <2>1. Stride(out) \in Nat
    BY <1>8 DEF Stride
  <2> QED
    BY <1>3, <1>9, <1>10, <2>1, WidthsAssumption DEF Buttons
<1>12. ASSUME NEW i \in 0 .. out.button_count - 1
       PROVE  Pressed(out, p, i) <=> Meaning(p, button(i)) # 0
  <2> DEFINE n == f.bit_size
             base == f.bit_offset + i * n
             c == button(i)
  <2>1. out.button_count # 0 /\ Stride(out) = n /\ n \in Nat \ {0}
    BY <1>8, <1>12 DEF LayoutShape, Stride, Present
  <2>2. i * n \in Nat /\ (i + 1) * n <= out.button_count * n /\ out.button_count * n \in Nat
    BY <1>8, <2>1, Multiples, Product
  <2>3. base \in Nat /\ base + n <= Len(p)
    <3>1. f.bit_offset + out.button_count * n <= payload_bits(out)
      BY <2>1, PayloadEnds DEF ButtonsEnd
    <3> DEFINE k == i * n
               m == out.button_count * n
    <3>2. (i + 1) * n = k + n
      BY <2>1
    <3>3. k \in Nat /\ m \in Nat /\ k + n <= m
      BY <2>2, <3>2
    <3>4. f.bit_offset + m <= payload_bits(out) /\ base = f.bit_offset + k
      BY <3>1
    <3>5. payload_bits(out) \in Nat
      BY PayloadEnds
    <3> HIDE DEF k, m, n, base, f
    <3> QED
      BY <1>4, <1>8, <2>1, <3>3, <3>4, <3>5
  <2>4. c \in Fields /\ c.bit_offset = base /\ c.bit_size = n
    BY <1>8, <2>3 DEF Fields
  <2>5. InPayload(p, c)
    BY <1>4, <2>3, <2>4 DEF InPayload
  <2> HIDE DEF n, base, c
  <2>6. Pressed(out, p, i) <=> \E b \in 0 .. n - 1 : p[base + b + 1] = 1
    <3>1. Pressed(out, p, i) <=> \E b \in 0 .. n - 1 : Bit(p, base + b) = 1
      BY <2>1 DEF Pressed, base, n
    <3>2. \A b \in 0 .. n - 1 : Bit(p, base + b) = p[base + b + 1]
      BY <1>4, <2>1, <2>3, BitHeld
    <3> QED
      BY <3>1, <3>2
  <2>7. \A b \in 0 .. n - 1 : p[base + b + 1] \in {0, 1}
    BY <1>4, <2>1, <2>3, BitHeld
  <2>8. Unsigned(p, c) = 0 <=> \A b \in 0 .. n - 1 : p[base + b + 1] = 0
    BY <2>4, <2>5, UnsignedMeaning
  <2>9. Meaning(p, c) = 0 <=> Unsigned(p, c) = 0
    <3>1. /\ Unsigned(p, c) \in Nat /\ Unsigned(p, c) < 2 ^ n
          /\ Meaning(p, c) = IF /\ n > 0 /\ (c.is_signed \/ n = WORD)
                                /\ Unsigned(p, c) >= 2 ^ (n - 1)
                             THEN Unsigned(p, c) - 2 ^ n ELSE Unsigned(p, c)
      BY <2>4, <2>5, UnsignedMeaning
    <3>2. n - 1 \in Nat /\ 2 ^ (n - 1) \in Nat \ {0} /\ 2 ^ n \in Nat
      BY <2>1, PowerMonotone
    <3> QED
      BY <3>1, <3>2
  <2> QED
    BY <2>6, <2>7, <2>8, <2>9 DEF c
<1>13. rep.buttons = {i \in 0 .. out.button_count - 1 : Meaning(p, button(i)) # 0}
  BY <1>11, <1>12
<1> QED
  BY <1>1, <1>7, <1>13

-----------------------------------------------------------------------------
PointerShape(o) == ~Present(o.buttons) => o.button_count = 0
KeyboardShape(o) ==
    /\ ~Present(o.keys) => o.key_count = 0
    /\ ~o.modifiers.is_signed /\ ~o.keys.is_signed
    /\ o.modifiers.bit_size <= BYTE

LEMMA ShapeParts == LayoutShape <=> PointerShape(out) /\ KeyboardShape(out_kbd)
BY DEF LayoutShape, PointerShape, KeyboardShape

LEMMA EmptyShape == PointerShape(NoLayout) /\ KeyboardShape(NoKbdLayout)
BY WidthsAssumption
   DEF PointerShape, KeyboardShape, NoLayout, NoKbdLayout, NoField, Field, Present

LEMMA PointerShapeKept ==
    ASSUME MapTypeOK, PointerShape(out) PROVE PointerShape(assign_input(out))
<1> DEFINE count == Min({g.report_count, ZMK_HID_MAX_BUTTONS})
           id == LockedId(out, ~Present(out.buttons) /\ ~Present(out.x) /\ ~Present(out.y))
           locked == [out EXCEPT !.report_id = id]
           axes == [locked EXCEPT !.x = set_field(@, <<PAGE_GENERIC_DESKTOP, USAGE_GD_X>>),
                                  !.y = set_field(@, <<PAGE_GENERIC_DESKTOP, USAGE_GD_Y>>),
                                  !.wheel = set_field(@, <<PAGE_GENERIC_DESKTOP, USAGE_GD_WHEEL>>),
                                  !.hwheel = set_field(@, <<PAGE_CONSUMER, USAGE_CONSUMER_AC_PAN>>)]
           buttons == [locked EXCEPT !.buttons = Field(bit_cursor, Per(1), FALSE),
                                     !.button_count = count]
<1>1. out \in PointerLayouts
  BY DEF MapTypeOK
<1> HIDE DEF count, id
<1>2. PointerShape(locked) /\ PointerShape(axes)
  BY <1>1 DEF PointerShape, PointerLayouts
<1>3. Present(Field(bit_cursor, Per(1), FALSE))
  BY GlobalsType DEF Present, Field, Per
<1>4. PointerShape(buttons)
  <2>1. buttons.buttons = Field(bit_cursor, Per(1), FALSE)
    BY <1>1 DEF PointerLayouts
  <2> QED
    BY <1>3, <2>1 DEF PointerShape
<1>5. assign_input(out) \in {axes, locked, buttons}
  BY DEF assign_input, count, id
<1> HIDE DEF axes, locked, buttons
<1> QED
  BY <1>2, <1>4, <1>5

LEMMA KeyboardShapeKept ==
    ASSUME MapTypeOK, KeyboardShape(out_kbd), NEW flags
    PROVE  KeyboardShape(assign_kbd_input(out_kbd, flags))
<1> DEFINE count == g.report_count
           id == LockedId(out_kbd, ~Present(out_kbd.modifiers) /\ ~Present(out_kbd.keys))
           locked == [out_kbd EXCEPT !.report_id = id]
           modifiers == [locked EXCEPT !.modifiers = Field(bit_cursor, count, FALSE)]
           keys == [locked EXCEPT !.keys = Field(bit_cursor, Per(BYTE), FALSE),
                                  !.key_count = count]
<1>1. out_kbd \in KeyboardLayouts /\ count \in Nat
  BY GlobalsType DEF MapTypeOK
<1> HIDE DEF count, id
<1>2. KeyboardShape(locked)
  BY <1>1 DEF KeyboardShape, KeyboardLayouts
<1>3. ASSUME count <= BYTE PROVE KeyboardShape(modifiers)
  <2>1. /\ modifiers.modifiers = Field(bit_cursor, count, FALSE)
        /\ modifiers.keys = out_kbd.keys /\ modifiers.key_count = out_kbd.key_count
    BY <1>1 DEF KeyboardLayouts
  <2> HIDE DEF modifiers
  <2> QED
    BY <1>3, <2>1 DEF KeyboardShape, Field
<1>4. KeyboardShape(keys)
  <2>1. /\ keys.keys = Field(bit_cursor, Per(BYTE), FALSE)
        /\ keys.modifiers = out_kbd.modifiers
    BY <1>1 DEF KeyboardLayouts
  <2>2. Per(BYTE) # 0
    BY WidthsAssumption DEF Per
  <2> HIDE DEF keys
  <2> QED
    BY <2>1, <2>2 DEF KeyboardShape, Field, Present
<1>5. \/ assign_kbd_input(out_kbd, flags) \in {locked, keys}
      \/ count <= BYTE /\ assign_kbd_input(out_kbd, flags) = modifiers
  BY <1>1, WidthsAssumption DEF assign_kbd_input, count, id
<1> HIDE DEF locked, modifiers, keys
<1> QED
  BY <1>2, <1>3, <1>4, <1>5

LEMMA ShapeInit == Init => LayoutShape
BY EmptyShape, ShapeParts DEF Init

LEMMA ShapeStep == MapTypeOK /\ LayoutShape /\ [Next]_vars => LayoutShape'
<1> SUFFICES ASSUME MapTypeOK, PointerShape(out), KeyboardShape(out_kbd), [Next]_vars
             PROVE  PointerShape(out') /\ KeyboardShape(out_kbd')
  BY ShapeParts DEF LayoutShape, PointerShape, KeyboardShape
<1>1. ASSUME NEW d \in Dialects, Parse(d) PROVE PointerShape(out') /\ KeyboardShape(out_kbd')
  BY <1>1, EmptyShape DEF Parse
<1>2. CASE Walk
  <2>1. PICK it \in Item : HandleItem(it)
    BY <1>2, WalkedItem DEF MapTypeOK
  <2>2. CASE Input(it)
    BY <2>2, PointerShapeKept, KeyboardShapeKept DEF Input
  <2>3. CASE ~Input(it)
    BY <2>1, <2>3
       DEF HandleItem, OtherReport, Collection, EndCollection, UsagePage, LogicalMin, Set,
           ReportSize, ReportCount, ReportId, Push, Pop, Usage, UsageMin, UsageMax,
           LocalItem, layouts
  <2> QED
    BY <2>2, <2>3
<1>3. CASE Return
  <2>1. \E v : out' = [out EXCEPT !.valid = v]
    BY <1>3 DEF Return
  <2>2. \E v : out_kbd' = [out_kbd EXCEPT !.valid = v]
    BY <1>3 DEF Return
  <2> QED
    BY <2>1, <2>2 DEF MapTypeOK, PointerLayouts, KeyboardLayouts, PointerShape, KeyboardShape
<1>4. CASE UNCHANGED vars
  BY <1>4 DEF vars, layouts
<1> QED
  BY <1>1, <1>2, <1>3, <1>4 DEF Next

(* On every map that the parser follows, every report that a valid layout    *)
(* accepts decodes to what HID says of its bits, whatever the widths of its  *)
(* fields up to a word (extract, zmk_hid_decode_report).                     *)
THEOREM PointerCorrect == Spec => []PointerMeaning
<1>1. PlaceInv => MapTypeOK
  BY DEF PlaceInv, Walking
<1>2. PlaceInv /\ LayoutShape => PointerMeaning
  BY <1>1, PlacesFollow, PointerFollows
<1> QED
  BY <1>1, <1>2, PlaceInit, PlaceStep, ShapeInit, ShapeStep, PTL DEF Spec

-----------------------------------------------------------------------------
(* One round of the loop over the codes. *)
Keep(kept, code) ==
    IF IsKey(code) /\ Len(kept) < ZMK_HID_MAX_KEYS THEN Append(kept, code % 2 ^ BYTE) ELSE kept

Rounds(F, codes, n) == F[0] = <<>> /\ \A k \in 1 .. n : F[k] = Keep(F[k - 1], codes[k])

LEMMA RoundsExist ==
    ASSUME NEW n \in Nat, NEW codes
    PROVE  \E F : Rounds(F, codes, n)
<1> DEFINE S == {m \in 0 .. n : \E F : Rounds(F, codes, m)}
<1>1. 0 \in S
  <2>1. Rounds([k \in {0} |-> <<>>], codes, 0)
    BY DEF Rounds
  <2> QED
    BY <2>1
<1>2. ASSUME NEW m \in 1 .. n, m - 1 \in S PROVE m \in S
  <2>1. PICK F : Rounds(F, codes, m - 1)
    BY <1>2
  <2> DEFINE G == [k \in 0 .. m |-> IF k = m THEN Keep(F[m - 1], codes[m]) ELSE F[k]]
  <2>2. G[0] = <<>>
    BY <2>1 DEF Rounds
  <2>3. ASSUME NEW k \in 1 .. m PROVE G[k] = Keep(G[k - 1], codes[k])
    <3>1. CASE k = m
      BY <3>1
    <3>2. CASE k # m
      BY <3>2, <2>1 DEF Rounds
    <3> QED
      BY <3>1, <3>2
  <2>4. Rounds(G, codes, m)
    BY <2>2, <2>3 DEF Rounds
  <2> HIDE DEF G
  <2> QED
    BY <2>4
<1>3. \A m \in 0 .. n : m \in S
  <2> HIDE DEF S
  <2>1. \A m \in 1 .. n : m - 1 \in S => m \in S
    BY <1>2
  <2> QED
    BY <1>1, <2>1, UpTo
<1> QED
  BY <1>3

(* The keys held are those after the last round. *)
LEMMA HeldOf ==
    ASSUME NEW codes, Len(codes) \in Nat, NEW F, Rounds(F, codes, Len(codes))
    PROVE  Held(codes) = F[Len(codes)]
<1> DEFINE n == Len(codes)
           Step(G) == [k \in 0 .. n |-> IF k = 0 THEN <<>> ELSE Keep(G[k - 1], codes[k])]
           keys == CHOOSE G : G = Step(G)
           H == [k \in 0 .. n |-> F[k]]
           B == {k \in 0 .. n : keys[k] = F[k]}
<1>1. H = Step(H)
  <2>1. \A k \in 0 .. n : H[k] = Step(H)[k]
    BY DEF Rounds
  <2> QED
    BY <2>1
<1>2. keys = Step(keys)
  <2> HIDE DEF H, Step
  <2> QED
    BY <1>1
<1>3. Rounds(keys, codes, n)
  <2> HIDE DEF keys
  <2> QED
    BY <1>2 DEF Rounds
<1>4. Held(codes) = keys[n]
  BY DEF Held, Keep
<1> HIDE DEF keys
<1>5. 0 \in B
  BY <1>3 DEF Rounds
<1>6. \A k \in 1 .. n : k - 1 \in B => k \in B
  BY <1>3 DEF Rounds
<1>7. n \in B
  <2> HIDE DEF B
  <2>1. \A k \in 0 .. n : k \in B
    BY <1>5, <1>6, UpTo
  <2> QED
    BY <2>1
<1> QED
  BY <1>4, <1>7

(* The slots up to k that hold a key. *)
HeldSlots(codes, k) == {i \in 1 .. k : codes[i] > 1}

LEMMA SlotsCount ==
    ASSUME NEW codes, NEW k \in Nat \ {0}
    PROVE  /\ IsFiniteSet(HeldSlots(codes, k)) /\ IsFiniteSet(HeldSlots(codes, k - 1))
           /\ Cardinality(HeldSlots(codes, k)) \in Nat /\ Cardinality(HeldSlots(codes, k - 1)) \in Nat
           /\ Cardinality(HeldSlots(codes, k)) =
                Cardinality(HeldSlots(codes, k - 1)) + IF codes[k] > 1 THEN 1 ELSE 0
           /\ \A i \in 1 .. k - 1 : /\ Cardinality(HeldSlots(codes, i)) \in Nat
                                    /\ Cardinality(HeldSlots(codes, i)) <= Cardinality(HeldSlots(codes, k - 1))
<1> DEFINE A == HeldSlots(codes, k - 1)
<1>1. IsFiniteSet(1 .. k - 1)
  BY FS_Interval
<1>2. A \in SUBSET (1 .. k - 1)
  BY DEF HeldSlots
<1>3. IsFiniteSet(A) /\ Cardinality(A) \in Nat
  BY <1>1, <1>2, FS_Subset, FS_CardinalityType
<1>4. ASSUME NEW i \in 1 .. k - 1
      PROVE  Cardinality(HeldSlots(codes, i)) \in Nat /\ Cardinality(HeldSlots(codes, i)) <= Cardinality(A)
  <2>1. HeldSlots(codes, i) \in SUBSET A
    BY DEF HeldSlots
  <2> QED
    BY <1>3, <2>1, FS_Subset, FS_CardinalityType
<1>5. k \notin A
  BY DEF HeldSlots
<1>6. CASE codes[k] > 1
  <2>1. HeldSlots(codes, k) = A \union {k}
    BY <1>6 DEF HeldSlots
  <2>2. IsFiniteSet(A \union {k}) /\ Cardinality(A \union {k}) = Cardinality(A) + 1
    <3> HIDE DEF A
    <3> QED
      BY <1>3, <1>5, FS_AddElement
  <2> QED
    BY <1>3, <1>4, <1>6, <2>1, <2>2
<1>7. CASE ~(codes[k] > 1)
  <2>1. HeldSlots(codes, k) = A
    BY <1>7 DEF HeldSlots
  <2> QED
    BY <1>3, <1>4, <1>7, <2>1
<1> QED
  BY <1>6, <1>7

(* After k rounds: the codes of the slots that hold a key, in order, as many *)
(* as there is room for.                                                     *)
Kept(s, codes, k) ==
    /\ s \in Seq(Nat)
    /\ Len(s) = IF Cardinality(HeldSlots(codes, k)) <= ZMK_HID_MAX_KEYS
                THEN Cardinality(HeldSlots(codes, k)) ELSE ZMK_HID_MAX_KEYS
    /\ \A i \in HeldSlots(codes, k) :
         Cardinality(HeldSlots(codes, i)) <= Len(s) => s[Cardinality(HeldSlots(codes, i))] = codes[i]

LEMMA KeepRight ==
    ASSUME NEW codes, NEW k \in Nat \ {0}, codes[k] \in Nat, codes[k] < 2 ^ BYTE,
           NEW s, Kept(s, codes, k - 1)
    PROVE  Kept(Keep(s, codes[k]), codes, k)
<1> DEFINE c == codes[k]
           A == HeldSlots(codes, k - 1)
           B == HeldSlots(codes, k)
           a == Cardinality(A)
           b == Cardinality(B)
           rank(i) == Cardinality(HeldSlots(codes, i))
           t == Keep(s, c)
           M == ZMK_HID_MAX_KEYS
<1>1. M \in Nat /\ c % 2 ^ BYTE = c
  <2>1. 2 ^ BYTE \in Nat
    BY PowerStep, WidthsAssumption
  <2> QED
    BY <2>1, Modulo, WidthsAssumption
<1>2. /\ a \in Nat /\ b = a + IF c > 1 THEN 1 ELSE 0
      /\ \A i \in 1 .. k - 1 : rank(i) \in Nat /\ rank(i) <= a
  BY SlotsCount
<1>3. /\ s \in Seq(Nat) /\ Len(s) \in Nat /\ Len(s) = IF a <= M THEN a ELSE M
      /\ \A i \in A : rank(i) <= Len(s) => s[rank(i)] = codes[i]
  BY DEF Kept
<1>4. A \subseteq 1 .. k - 1 /\ B = IF c > 1 THEN A \union {k} ELSE A
  BY DEF HeldSlots
<1>5. IsKey(c) <=> c > 1
  BY DEF IsKey
<1>6. rank(k) = b
  OBVIOUS
<1>7. c \in Nat /\ t = IF c > 1 /\ Len(s) < M THEN Append(s, c) ELSE s
  BY <1>1, <1>5 DEF Keep
<1>8. \A i \in A : rank(i) \in Nat /\ rank(i) >= 1
  <2>1. ASSUME NEW i \in A PROVE rank(i) \in Nat /\ rank(i) >= 1
    <3>1. i \in Nat \ {0} /\ codes[i] > 1
      BY DEF HeldSlots
    <3>2. rank(i) = Cardinality(HeldSlots(codes, i - 1)) + 1
          /\ Cardinality(HeldSlots(codes, i - 1)) \in Nat
      BY <3>1, SlotsCount
    <3> QED
      BY <3>2
  <2> QED
    BY <2>1
<1> SUFFICES /\ t \in Seq(Nat) /\ Len(t) = IF b <= M THEN b ELSE M
             /\ \A i \in B : rank(i) <= Len(t) => t[rank(i)] = codes[i]
  BY DEF Kept
<1>9. codes[k] = c
  OBVIOUS
<1> HIDE DEF a, b, c, t, A, B, rank, M
<1>10. CASE c > 1 /\ Len(s) < M
  <2>1. t = Append(s, c)
    BY <1>7, <1>10
  <2>2. t \in Seq(Nat) /\ Len(t) = Len(s) + 1 /\ t[Len(s) + 1] = c
        /\ \A j \in 1 .. Len(s) : t[j] = s[j]
    BY <1>3, <1>7, <2>1
  <2>3. Len(s) = a /\ b = a + 1 /\ b <= M
    BY <1>1, <1>2, <1>3, <1>10
  <2>4. ASSUME NEW i \in A, rank(i) <= Len(t) PROVE t[rank(i)] = codes[i]
    <3>1. rank(i) \in Nat /\ rank(i) <= Len(s) /\ rank(i) >= 1
      BY <1>2, <1>4, <1>8, <2>3
    <3>2. s[rank(i)] = codes[i]
      BY <1>3, <3>1
    <3> QED
      BY <2>2, <3>1, <3>2
  <2>5. t[rank(k)] = codes[k]
    BY <1>6, <1>9, <2>2, <2>3
  <2> QED
    BY <1>4, <1>10, <2>2, <2>3, <2>4, <2>5
<1>11. CASE c > 1 /\ ~(Len(s) < M)
  <2>1. t = s /\ Len(s) = M /\ b = a + 1 /\ a >= M
    BY <1>1, <1>2, <1>3, <1>7, <1>11
  <2>2. ~(b <= M) /\ ~(rank(k) <= Len(t))
    BY <1>1, <1>2, <1>6, <2>1
  <2> QED
    BY <1>3, <1>4, <1>11, <2>1, <2>2
<1>12. CASE ~(c > 1)
  BY <1>2, <1>3, <1>4, <1>7, <1>12
<1> QED
  BY <1>10, <1>11, <1>12

(* The loop over the key array keeps the keys, in order, while there is room. *)
LEMMA HeldRight ==
    ASSUME NEW codes, Len(codes) \in Nat,
           \A k \in 1 .. Len(codes) : codes[k] \in Nat /\ codes[k] < 2 ^ BYTE
    PROVE  Kept(Held(codes), codes, Len(codes))
<1> DEFINE n == Len(codes)
<1>1. PICK F : Rounds(F, codes, n)
  BY RoundsExist
<1> DEFINE S == {k \in 0 .. n : Kept(F[k], codes, k)}
<1>2. 0 \in S
  <2>1. HeldSlots(codes, 0) = {}
    BY DEF HeldSlots
  <2>2. Cardinality(HeldSlots(codes, 0)) = 0
    BY <2>1, FS_EmptySet
  <2>3. F[0] = <<>>
    BY <1>1 DEF Rounds
  <2>4. Kept(<<>>, codes, 0)
    BY <2>1, <2>2, WidthsAssumption DEF Kept
  <2> QED
    BY <2>3, <2>4
<1>3. ASSUME NEW k \in 1 .. n, k - 1 \in S PROVE k \in S
  <2>1. Kept(F[k - 1], codes, k - 1)
    BY <1>3
  <2>2. F[k] = Keep(F[k - 1], codes[k])
    BY <1>1 DEF Rounds
  <2>3. Kept(Keep(F[k - 1], codes[k]), codes, k)
    BY <2>1, KeepRight
  <2> QED
    BY <2>2, <2>3
<1>4. \A k \in 0 .. n : k \in S
  <2> HIDE DEF S
  <2>1. \A k \in 1 .. n : k - 1 \in S => k \in S
    BY <1>3
  <2> QED
    BY <1>2, <2>1, UpTo
<1>5. Held(codes) = F[n]
  BY <1>1, HeldOf
<1> QED
  BY <1>4, <1>5

(* A field narrower than a word, that is not signed, means what its bits add up to. *)
LEMMA PlainMeaning ==
    ASSUME NEW f \in Fields, ~f.is_signed, f.bit_size <= BYTE, NEW p, InPayload(p, f)
    PROVE  Meaning(p, f) = Unsigned(p, f) /\ Unsigned(p, f) \in Nat /\ Unsigned(p, f) < 2 ^ BYTE
<1>1. f.bit_size \in Nat /\ f.bit_size # WORD
  BY WidthsAssumption DEF Fields
<1>2. 2 ^ f.bit_size <= 2 ^ BYTE /\ 2 ^ f.bit_size \in Nat /\ 2 ^ BYTE \in Nat
  BY <1>1, WidthsAssumption, PowerMonotone
<1>3. Meaning(p, f) = Unsigned(p, f) /\ Unsigned(p, f) \in Nat /\ Unsigned(p, f) < 2 ^ f.bit_size
  BY <1>1, UnsignedMeaning
<1> QED
  BY <1>2, <1>3

LEMMA KeyboardFollows ==
    ASSUME MapTypeOK, LayoutShape, RightPlaces
    PROVE  KeyboardMeaning
<1> SUFFICES ASSUME hid.followed, out_kbd.keys.bit_size <= BYTE,
                    NEW p \in Payloads, NEW rep \in zmk_hid_decode_keyboard_report(out_kbd, p)
             PROVE  LET keys == hid.place["keys"]
                        code(i) == Meaning(p, [keys.field EXCEPT
                                                 !.bit_offset = @ + (i - 1) * keys.field.bit_size])
                        held == {i \in 1 .. keys.count : code(i) > 1}
                        rank(i) == Cardinality({j \in held : j <= i})
                    IN  /\ rep.modifiers = Meaning(p, hid.place["modifiers"].field)
                        /\ Len(rep.keys) = Min({Cardinality(held), ZMK_HID_MAX_KEYS})
                        /\ \A i \in held : rank(i) <= Len(rep.keys) => rep.keys[rank(i)] = code(i)
  BY DEF KeyboardMeaning
<1> DEFINE f == out_kbd.keys
           m == out_kbd.modifiers
           n == out_kbd.key_count
           size == f.bit_size
           slot(i) == [f EXCEPT !.bit_offset = @ + (i - 1) * f.bit_size]
           code(i) == Meaning(p, slot(i))
           codes == Codes(out_kbd, p)
           held == {i \in 1 .. n : code(i) > 1}
           bits == kbd_payload_bits(out_kbd)
<1>1. /\ hid.place["keys"].field = f /\ hid.place["keys"].count = n
      /\ hid.place["modifiers"].field = m
  BY DEF RightPlaces
<1>2. /\ f \in Fields /\ m \in Fields /\ n \in Nat
      /\ f.bit_size \in Nat /\ f.bit_offset \in Nat /\ f.is_signed \in BOOLEAN
      /\ m.bit_size \in Nat /\ m.bit_offset \in Nat
  BY LayoutFields DEF Fields
<1>3. ~(Length(p) < Needed(bits)) /\ rep.modifiers = Unsigned(p, m) /\ rep.keys \in Keys(out_kbd, p)
  BY DEF zmk_hid_decode_keyboard_report
<1>4. /\ bits \in Nat /\ FieldEnd(m) <= bits
      /\ n # 0 => Present(f) /\ f.bit_offset + n * size <= bits
  <2> DEFINE a == FieldEnd(m)
             e == n * size
             k == IF n = 0 \/ ~Present(f) THEN 0 ELSE f.bit_offset + e
  <2>1. a \in Nat /\ e \in Nat
    BY <1>2, Product DEF FieldEnd
  <2>2. k \in Nat /\ bits = Max({a, k})
    BY <1>2, <2>1 DEF kbd_payload_bits
  <2>3. n # 0 => Present(f)
    BY DEF LayoutShape
  <2>4. bits = IF a >= k THEN a ELSE k
    <3> HIDE DEF a, k, bits
    <3> QED
      BY <2>1, <2>2, MaxPair
  <2>5. a <= bits /\ k <= bits /\ bits \in Nat
    <3> HIDE DEF a, k, bits
    <3> QED
      BY <2>1, <2>2, <2>4
  <2> QED
    BY <2>3, <2>5
<1>5. p \in Seq({0, 1}) /\ bits <= Len(p) /\ Len(p) \in Nat
  BY <1>3, <1>4, LongEnough
<1>6. rep.modifiers = Meaning(p, m)
  <2>1. InPayload(p, m)
    BY <1>2, <1>4, <1>5 DEF InPayload, FieldEnd
  <2>2. ~m.is_signed /\ m.bit_size <= BYTE
    BY DEF LayoutShape
  <2> QED
    BY <1>2, <1>3, <2>1, <2>2, PlainMeaning
<1>7. ASSUME NEW i \in 1 .. n
      PROVE  codes[i] = code(i) /\ code(i) \in Nat /\ code(i) < 2 ^ BYTE
  <2>1. codes[i] = Unsigned(p, slot(i))
    BY DEF Codes
  <2>2. i - 1 \in Nat /\ (i - 1) * size \in Nat /\ i * size \in Nat /\ n * size \in Nat
        /\ i * size <= n * size /\ i * size = (i - 1) * size + size
    <3>1. i \in Nat /\ i - 1 \in Nat /\ i <= n
      BY <1>2
    <3>2. (i - 1) * size \in Nat /\ i * size \in Nat /\ n * size \in Nat
      BY <1>2, <3>1, Product
    <3>3. size * i <= size * n
      BY <1>2, <3>1, Multiples
    <3>4. i * size = (i - 1) * size + size
      BY <1>2, <3>1
    <3> QED
      BY <1>2, <3>1, <3>2, <3>3, <3>4
  <2>3. /\ slot(i) \in Fields /\ slot(i).bit_offset = f.bit_offset + (i - 1) * size
        /\ slot(i).bit_size = size /\ slot(i).is_signed = f.is_signed
    <3> DEFINE a == f.bit_offset + (i - 1) * size
    <3>1. slot(i) = [f EXCEPT !.bit_offset = a]
      OBVIOUS
    <3>2. a \in Nat
      BY <1>2, <2>2
    <3> HIDE DEF a, f, slot
    <3>3. /\ slot(i) \in Fields /\ slot(i).bit_offset = a
          /\ slot(i).bit_size = f.bit_size /\ slot(i).is_signed = f.is_signed
      BY <1>2, <3>1, <3>2 DEF Fields
    <3> QED
      BY <3>3 DEF a
  <2>4. f.bit_offset + n * size <= Len(p)
    <3> DEFINE e == n * size
    <3>1. n # 0
      BY <1>2
    <3>2. f.bit_offset + e <= bits /\ e \in Nat
      BY <1>4, <2>2, <3>1
    <3> HIDE DEF e, bits, f
    <3>3. f.bit_offset + e <= Len(p)
      BY <1>2, <1>4, <1>5, <3>2
    <3> QED
      BY <3>3 DEF e
  <2>5. InPayload(p, slot(i))
    <3> DEFINE a == (i - 1) * size
               b == i * size
               e == n * size
    <3>1. a \in Nat /\ b \in Nat /\ e \in Nat /\ b <= e /\ b = a + size
      BY <2>2
    <3>2. slot(i).bit_offset = f.bit_offset + a /\ slot(i).bit_size = size
      BY <2>3
    <3>3. f.bit_offset + e <= Len(p)
      BY <2>4
    <3> HIDE DEF a, b, e, f, size, slot
    <3>4. f.bit_offset \in Nat /\ size \in Nat
      BY <1>2 DEF size, f
    <3>5. f.bit_offset + a + size <= Len(p)
      BY <1>5, <3>1, <3>3, <3>4
    <3> QED
      BY <1>5, <3>2, <3>5 DEF InPayload
  <2>6. ~slot(i).is_signed /\ slot(i).bit_size <= BYTE
    BY <2>3 DEF LayoutShape
  <2> HIDE DEF slot
  <2> QED
    BY <2>1, <2>3, <2>5, <2>6, PlainMeaning
<1>8. Len(codes) = n
  BY <1>2 DEF Codes
<1>9. rep.keys = Held(codes)
  <2>1. ~(f.bit_size > WORD)
    BY <1>2, WidthsAssumption
  <2> QED
    BY <1>3, <2>1 DEF Keys
<1> HIDE DEF codes, code, n
<1>10. Kept(Held(codes), codes, n)
  BY <1>2, <1>7, <1>8, HeldRight
<1>11. held = HeldSlots(codes, n)
  BY <1>7 DEF HeldSlots
<1>12. \A i \in held : {j \in held : j <= i} = HeldSlots(codes, i)
  BY <1>2, <1>11 DEF HeldSlots
<1>13. Cardinality(held) \in Nat
  <2>1. IsFiniteSet(1 .. n)
    BY <1>2, FS_Interval
  <2>2. held \in SUBSET (1 .. n)
    OBVIOUS
  <2> QED
    BY <2>1, <2>2, FS_Subset, FS_CardinalityType
<1>14. Len(rep.keys) = Min({Cardinality(held), ZMK_HID_MAX_KEYS})
  BY <1>9, <1>10, <1>11, <1>13, MinPair, WidthsAssumption DEF Kept
<1>15. ASSUME NEW i \in held, Cardinality({j \in held : j <= i}) <= Len(rep.keys)
       PROVE  rep.keys[Cardinality({j \in held : j <= i})] = code(i)
  <2>1. rep.keys[Cardinality(HeldSlots(codes, i))] = codes[i]
    BY <1>9, <1>10, <1>11, <1>12, <1>15 DEF Kept
  <2> QED
    BY <1>7, <1>12, <2>1
<1> QED
  BY <1>1, <1>6, <1>14, <1>15 DEF code, n

(* On every map that the parser follows, an accepted keyboard report gives   *)
(* the modifiers and the first keys of its array as HID means them           *)
(* (zmk_hid_decode_keyboard_report).                                         *)
THEOREM KeyboardCorrect == Spec => []KeyboardMeaning
<1>1. PlaceInv => MapTypeOK
  BY DEF PlaceInv, Walking
<1>2. PlaceInv /\ LayoutShape => KeyboardMeaning
  BY <1>1, PlacesFollow, KeyboardFollows
<1> QED
  BY <1>1, <1>2, PlaceInit, PlaceStep, ShapeInit, ShapeStep, PTL DEF Spec
=============================================================================
