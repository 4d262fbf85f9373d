--------------------------- MODULE ReportMapProofs ---------------------------
(***************************************************************************)
(* Proofs about ReportMap for every kind of map, every set of phrases,     *)
(* every width of bytes and words and every limit of the parser's tables.  *)
(***************************************************************************)
EXTENDS ReportMap, Arithmetic, TLAPS, SequenceTheorems

LEMMA Product ==
    ASSUME NEW a \in Nat, NEW b \in Nat PROVE a * b \in Nat
OBVIOUS

LEMMA Remainder ==
    ASSUME NEW a \in Nat, NEW b \in Nat \ {0}
    PROVE  a % b \in 0 .. b - 1 /\ a \div b \in Nat
OBVIOUS

(* So many values has a word of one, two and four bytes. *)
LEMMA WordSizes ==
    /\ U8 \in Nat \ {0} /\ U16 \in Nat \ {0} /\ U32 \in Nat \ {0}
    /\ U8 <= U16 /\ U16 + U8 <= U32
<1> DEFINE B == BYTE
<1>1. B \in Nat \ {0} /\ 2 * B \in Nat /\ 4 * B \in Nat
  BY WidthsAssumption
<1>2. 2 ^ B <= 2 ^ (2 * B) /\ 2 ^ B \in Nat \ {0} /\ 2 ^ (2 * B) \in Nat
  BY <1>1, PowerMonotone
<1>3. 2 ^ (2 * B + 1) = 2 * 2 ^ (2 * B) /\ 2 * B + 1 \in Nat /\ 2 * B + 1 <= 4 * B
  BY <1>1, PowerStep
<1>4. 2 ^ (2 * B + 1) <= 2 ^ (4 * B) /\ 2 ^ (4 * B) \in Nat
  BY <1>1, <1>3, PowerMonotone
<1>5. U8 = 2 ^ B /\ U16 = 2 ^ (2 * B) /\ U32 = 2 ^ (4 * B)
  BY DEF U8, U16, U32
<1> HIDE DEF B
<1> QED
  BY <1>2, <1>3, <1>4, <1>5

LEMMA Powers == U8 \in Nat \ {0} /\ U16 \in Nat \ {0} /\ U32 \in Nat \ {0}
BY WordSizes

-----------------------------------------------------------------------------
(* The item that a step of the walk handles. *)
LEMMA WalkedItem ==
    ASSUME Walk, dialect \in Dialects \union {None}, rest \in Seq(Item)
    PROVE  \E it \in Item : HandleItem(it) /\ rest' \in Seq(Item) /\ dialect' = dialect
<1>1. PICK s \in IF rest = <<>> THEN Phrases[dialect] ELSE {rest} :
        HandleItem(Head(s)) /\ rest' = Tail(s)
  BY DEF Walk
<1>2. s \in Seq(Item) /\ s # <<>>
  <2>1. CASE rest = <<>>
    BY <1>1, <2>1, DialectsAssumption DEF Walk
  <2>2. CASE rest # <<>>
    BY <1>1, <2>2
  <2> QED
    BY <2>1, <2>2
<1>3. Head(s) \in Item /\ Tail(s) \in Seq(Item)
  BY <1>2
<1> QED
  BY <1>1, <1>3 DEF Walk

-----------------------------------------------------------------------------
(* Types.                                                                    *)
LEMMA Limits ==
    /\ MAX_LOCAL_USAGES \in Nat \ {0} /\ GLOBAL_STACK_DEPTH \in Nat
    /\ BIT_OFFSET_MAX \in Nat /\ MaxBits \in Nat /\ ZMK_HID_MAX_BUTTONS \in Nat
BY LimitsAssumption, WidthsAssumption

LEMMA FieldType ==
    ASSUME NEW offset \in Nat, NEW size \in Nat, NEW signed \in BOOLEAN
    PROVE  Field(offset, size, signed) \in Fields
BY DEF Field, Fields

LEMMA SetFieldType ==
    ASSUME MapTypeOK, NEW f \in Fields, NEW u PROVE set_field(f, u) \in Fields
<1> DEFINE fitting == {i \in Slots : usage_for_slot(i) = u /\ Fits(SlotOffset(i), g.report_size)}
<1>1. g.report_size \in Nat /\ g.report_count \in Nat /\ g.negative \in BOOLEAN /\ bit_cursor \in Nat
  BY Powers DEF MapTypeOK, GlobalState
<1>2. fitting \in SUBSET Nat
  BY <1>1 DEF Slots
<1>3. CASE fitting # {}
  <2> HIDE DEF fitting
  <2>1. Min(fitting) \in Nat
    BY <1>2, <1>3, MinOfNats
  <2>2. SlotOffset(Min(fitting)) \in Nat
    BY <1>1, <2>1, Product DEF SlotOffset
  <2>3. Field(SlotOffset(Min(fitting)), g.report_size, g.negative) \in Fields
    BY <1>1, <2>2, FieldType
  <2> QED
    BY <2>3 DEF set_field, fitting
<1>4. CASE fitting = {}
  BY <1>4 DEF set_field
<1> QED
  BY <1>3, <1>4

LEMMA AssignInputType ==
    ASSUME MapTypeOK PROVE assign_input(out) \in PointerLayouts
<1> DEFINE count == Min({g.report_count, ZMK_HID_MAX_BUTTONS})
<1>1. /\ g.report_size \in Nat /\ g.report_count \in Nat /\ g.report_id \in 0 .. U8 - 1
      /\ bit_cursor \in Nat
  BY Powers DEF MapTypeOK, GlobalState
<1>2. count \in 0 .. ZMK_HID_MAX_BUTTONS
  BY <1>1, Limits, MinPair
<1>3. Per(1) \in Nat
  BY <1>1 DEF Per
<1>4. Field(bit_cursor, Per(1), FALSE) \in Fields
  BY <1>1, <1>3, FieldType
<1>5. \A fresh \in BOOLEAN : LockedId(out, fresh) \in 0 .. U8 - 1
  BY <1>1 DEF LockedId, MapTypeOK, PointerLayouts
<1>6. /\ out.x \in Fields /\ out.y \in Fields /\ out.wheel \in Fields /\ out.hwheel \in Fields
      /\ out \in PointerLayouts
  BY DEF MapTypeOK, PointerLayouts
<1>7. \A u : /\ set_field(out.x, u) \in Fields /\ set_field(out.y, u) \in Fields
             /\ set_field(out.wheel, u) \in Fields /\ set_field(out.hwheel, u) \in Fields
  BY <1>6, SetFieldType
<1> DEFINE id == LockedId(out, ~Present(out.buttons) /\ ~Present(out.x) /\ ~Present(out.y))
           locked == [out EXCEPT !.report_id = id]
<1>8. id \in 0 .. U8 - 1
  BY <1>5
<1> HIDE DEF id, count
<1>9. locked \in PointerLayouts /\ locked.x = out.x /\ locked.y = out.y
      /\ locked.wheel = out.wheel /\ locked.hwheel = out.hwheel
  BY <1>6, <1>8 DEF PointerLayouts
<1>10. [locked EXCEPT !.buttons = Field(bit_cursor, Per(1), FALSE), !.button_count = count]
         \in PointerLayouts
  BY <1>2, <1>4, <1>9 DEF PointerLayouts
<1>11. [locked EXCEPT !.x = set_field(@, <<PAGE_GENERIC_DESKTOP, USAGE_GD_X>>),
                      !.y = set_field(@, <<PAGE_GENERIC_DESKTOP, USAGE_GD_Y>>),
                      !.wheel = set_field(@, <<PAGE_GENERIC_DESKTOP, USAGE_GD_WHEEL>>),
                      !.hwheel = set_field(@, <<PAGE_CONSUMER, USAGE_CONSUMER_AC_PAN>>)]
         \in PointerLayouts
  BY <1>7, <1>9 DEF PointerLayouts
<1> QED
  BY <1>9, <1>10, <1>11 DEF assign_input, id, count

LEMMA AssignKbdInputType ==
    ASSUME MapTypeOK, NEW flags PROVE assign_kbd_input(out_kbd, flags) \in KeyboardLayouts
<1>1. /\ g.report_size \in Nat /\ g.report_count \in 0 .. U8 - 1 /\ g.report_id \in 0 .. U8 - 1
      /\ bit_cursor \in Nat /\ g.report_count \in Nat
  BY Powers DEF MapTypeOK, GlobalState
<1>2. Per(BYTE) \in Nat
  BY <1>1, WidthsAssumption DEF Per
<1>3. /\ Field(bit_cursor, Per(BYTE), FALSE) \in Fields
      /\ Field(bit_cursor, g.report_count, FALSE) \in Fields
  BY <1>1, <1>2, FieldType
<1> DEFINE id == LockedId(out_kbd, ~Present(out_kbd.modifiers) /\ ~Present(out_kbd.keys))
           locked == [out_kbd EXCEPT !.report_id = id]
<1>4. id \in 0 .. U8 - 1
  BY <1>1 DEF LockedId, MapTypeOK, KeyboardLayouts
<1> HIDE DEF id
<1>5. locked \in KeyboardLayouts
  BY <1>4 DEF MapTypeOK, KeyboardLayouts
<1>6. [locked EXCEPT !.modifiers = Field(bit_cursor, g.report_count, FALSE)] \in KeyboardLayouts
  BY <1>3, <1>5 DEF KeyboardLayouts
<1>7. [locked EXCEPT !.keys = Field(bit_cursor, Per(BYTE), FALSE), !.key_count = g.report_count]
        \in KeyboardLayouts
  BY <1>1, <1>3, <1>5 DEF KeyboardLayouts
<1> QED
  BY <1>5, <1>6, <1>7 DEF assign_kbd_input, id

LEMMA Depths ==
    ASSUME depth \in Nat PROVE Max({depth - 1, 0}) = IF depth >= 1 THEN depth - 1 ELSE 0
BY MaxPair

(* A sequence without its last element. *)
LEMMA Popped ==
    ASSUME NEW S, NEW s \in Seq(S), s # <<>>
    PROVE  /\ s[Len(s)] \in S
           /\ SubSeq(s, 1, Len(s) - 1) \in Seq(S)
           /\ Len(SubSeq(s, 1, Len(s) - 1)) = Len(s) - 1
           /\ \A i \in 1 .. Len(s) - 1 : SubSeq(s, 1, Len(s) - 1)[i] = s[i]
<1> DEFINE n == Len(s) - 1
<1>1. n \in Nat /\ \A i \in 1 .. n : s[i] \in S
  OBVIOUS
<1> HIDE DEF n
<1>2. /\ SubSeq(s, 1, n) \in Seq(S)
      /\ Len(SubSeq(s, 1, n)) = IF 1 <= n THEN n - 1 + 1 ELSE 0
      /\ \A i \in 1 .. n - 1 + 1 : SubSeq(s, 1, n)[i] = s[1 + i - 1]
  BY <1>1, SubSeqProperties
<1>3. /\ SubSeq(s, 1, n) \in Seq(S)
      /\ Len(SubSeq(s, 1, n)) = n
      /\ \A i \in 1 .. n : SubSeq(s, 1, n)[i] = s[i]
  BY <1>1, <1>2
<1> QED
  BY <1>3 DEF n

LEMMA UsageType ==
    ASSUME MapTypeOK, NEW it \in Item PROVE ItemUsage(it) \in Nat \X Nat
<1>1. it.v \in Nat /\ U16 \in Nat \ {0}
  BY Powers DEF Item
<1>2. \A a \in Nat, b \in Nat \ {0} : a \div b \in Nat /\ a % b \in Nat
  OBVIOUS
<1>3. g.usage_page \in Nat
  BY Powers DEF MapTypeOK, GlobalState
<1>4. it.v \div U16 \in Nat /\ it.v % U16 \in Nat
  BY <1>1, <1>2
<1> QED
  BY <1>3, <1>4 DEF ItemUsage

(* Every item keeps the types of what it changes. *)
LEMMA ItemType ==
    ASSUME MapTypeOK, NEW it \in Item, HandleItem(it),
           rest' \in Seq(Item), dialect' = dialect
    PROVE  MapTypeOK'
<1> USE DEF MapTypeOK
<1>a. it.v \in Nat /\ it.tag \in STRING
  BY DEF Item
<1>1. CASE Input(it)
  <2>1. bit_cursor' \in 0 .. U32 - 1
    <3>1. g.report_size \in Nat /\ g.report_count \in Nat
      BY Powers DEF GlobalState
    <3>2. g.report_size * g.report_count \in Nat
      BY <3>1, Product
    <3>3. ASSUME NEW bits \in Nat PROVE Min({bit_cursor + bits, U32 - 1}) \in 0 .. U32 - 1
      <4> DEFINE a == bit_cursor + bits
                 b == U32 - 1
      <4>1. a \in Int /\ b \in Int /\ a >= 0 /\ b >= 0
        BY <3>3, Powers
      <4> HIDE DEF a, b
      <4>2. Min({a, b}) = IF a <= b THEN a ELSE b
        BY <4>1, MinPair
      <4>3. Min({a, b}) \in 0 .. b
        BY <4>1, <4>2
      <4> QED
        BY <4>3 DEF a, b
    <3> QED
      BY <1>1, <3>2, <3>3 DEF Input, Advanced
  <2>2. out' \in PointerLayouts /\ out_kbd' \in KeyboardLayouts
    BY <1>1, AssignInputType, AssignKbdInputType DEF Input
  <2> QED
    BY <1>1, <2>1, <2>2, Limits
       DEF Input, clear_local, NoRange, globals, levels
<1>2. CASE OtherReport(it)
  BY <1>2, Limits DEF OtherReport, clear_local, NoRange, globals, levels, layouts
<1>3. CASE Collection(it)
  BY <1>3, Limits DEF Collection, clear_local, NoRange, globals, layouts
<1>4. CASE EndCollection(it)
  BY <1>4, Limits, Depths DEF EndCollection, clear_local, NoRange, globals, layouts
<1>5. CASE UsagePage(it)
  <2>1. it.v % U16 \in 0 .. U16 - 1
    BY <1>a, Powers, Remainder
  <2> QED
    BY <1>5, <2>1 DEF UsagePage, Set, GlobalState, locals, levels, layouts
<1>6. CASE LogicalMin(it)
  <2>1. item_s_negative(it) \in BOOLEAN
    BY DEF item_s_negative
  <2> QED
    BY <1>6, <2>1 DEF LogicalMin, Set, GlobalState, locals, levels, layouts
<1>7. CASE ReportSize(it) \/ ReportCount(it)
  <2>1. it.v % U8 \in 0 .. U8 - 1
    BY <1>a, Powers, Remainder
  <2> QED
    BY <1>7, <2>1 DEF ReportSize, ReportCount, Set, GlobalState, locals, levels, layouts
<1>8. CASE ReportId(it)
  <2>1. it.v % U8 \in 0 .. U8 - 1
    BY <1>a, Powers, Remainder
  <2>2. bit_cursor' \in 0 .. U32 - 1
    BY <1>8, Powers DEF ReportId, Restart
  <2> QED
    BY <1>8, <2>1, <2>2 DEF ReportId, GlobalState, locals, levels, layouts
<1>9. CASE Push(it)
  <2>1. stack' \in Seq(GlobalState) /\ Len(stack') <= GLOBAL_STACK_DEPTH
    BY <1>9, Limits DEF Push
  <2> QED
    BY <1>9, <2>1 DEF Push, locals, levels, layouts
<1>10. CASE Pop(it)
  <2>1. Len(stack) \in Nat /\ Len(stack) \in 1 .. Len(stack)
    BY <1>10 DEF Pop
  <2>2. /\ stack[Len(stack)] \in GlobalState
        /\ SubSeq(stack, 1, Len(stack) - 1) \in Seq(GlobalState)
        /\ Len(SubSeq(stack, 1, Len(stack) - 1)) = Len(stack) - 1
    BY <1>10, Popped DEF Pop
  <2>3. g' \in GlobalState /\ stack' \in Seq(GlobalState) /\ Len(stack') <= GLOBAL_STACK_DEPTH
    BY <1>10, <2>1, <2>2, Limits DEF Pop
  <2> QED
    BY <1>10, <2>3 DEF Pop, locals, levels, layouts
<1>11. CASE Usage(it)
  <2>1. ItemUsage(it) \in Nat \X Nat
    BY UsageType
  <2>2. usages' \in Seq(Nat \X Nat) /\ Len(usages') <= MAX_LOCAL_USAGES
    BY <1>11, <2>1, Limits DEF Usage
  <2> QED
    BY <1>11, <2>2 DEF Usage, LocalItem, globals, levels, layouts
<1>12. CASE UsageMin(it) \/ UsageMax(it)
  BY <1>12, <1>a DEF UsageMin, UsageMax, LocalItem, globals, levels, layouts
<1> QED
  BY <1>1, <1>2, <1>3, <1>4, <1>5, <1>6, <1>7, <1>8, <1>9, <1>10, <1>11, <1>12
     DEF HandleItem

LEMMA Empty ==
    /\ NoGlobals \in GlobalState /\ NoLayout \in PointerLayouts
    /\ NoKbdLayout \in KeyboardLayouts
BY Powers, Limits
   DEF NoGlobals, GlobalState, NoLayout, PointerLayouts, NoKbdLayout, KeyboardLayouts,
       NoField, Field, Fields

LEMMA TypeInit == Init => MapTypeOK
BY Empty, Powers, Limits DEF Init, MapTypeOK, NoRange

LEMMA TypeStep == MapTypeOK /\ [Next]_vars => MapTypeOK'
<1> SUFFICES ASSUME MapTypeOK, [Next]_vars PROVE MapTypeOK'
  OBVIOUS
<1>1. ASSUME NEW d \in Dialects, Parse(d) PROVE MapTypeOK'
  BY <1>1, Empty DEF Parse, MapTypeOK, globals, locals, levels
<1>2. CASE Walk
  <2>1. PICK it \in Item : HandleItem(it) /\ rest' \in Seq(Item) /\ dialect' = dialect
    BY <1>2, WalkedItem DEF MapTypeOK
  <2> QED
    BY <2>1, ItemType
<1>3. CASE Return
  <2>1. out' \in PointerLayouts /\ out_kbd' \in KeyboardLayouts
    BY <1>3 DEF Return, MapTypeOK, PointerLayouts, KeyboardLayouts, Present, Balanced
  <2> QED
    BY <1>3, <2>1, Empty, Powers, Limits DEF Return, MapTypeOK, clear_local, NoRange
<1>4. CASE UNCHANGED vars
  BY <1>4 DEF vars, globals, locals, levels, layouts, MapTypeOK
<1> QED
  BY <1>1, <1>2, <1>3, <1>4 DEF Next

(* The parser's tables stay within their bounds and its fields well typed,   *)
(* whatever items a map is made of.                                          *)
THEOREM TypeCorrect == Spec => []MapTypeOK
BY TypeInit, TypeStep, PTL DEF Spec

-----------------------------------------------------------------------------
(* The HID reading: its shape, and the parts that the parser mirrors.        *)
Kinds == {"mouse", "keyboard", "other"}

HidType ==
    /\ hid = [declared |-> hid.declared, listed |-> hid.listed, open |-> hid.open,
              closed |-> hid.closed, place |-> hid.place, followed |-> hid.followed]
    /\ hid.declared \in [0 .. U8 - 1 -> Nat]
    /\ hid.listed \in [Usage : Seq(Nat \X Nat), UsageMin : Seq(Nat \X Nat),
                       UsageMax : Seq(Nat \X Nat)]
    /\ hid.open \in Seq(Kinds)

(* The parser keeps the first MAX_LOCAL_USAGES usages. *)
UsagesKept ==
    /\ Len(usages) = IF Len(hid.listed.Usage) < MAX_LOCAL_USAGES
                     THEN Len(hid.listed.Usage) ELSE MAX_LOCAL_USAGES
    /\ \A i \in 1 .. Len(usages) : usages[i] = hid.listed.Usage[i]

(* A level is -1 until its collection opens, the collection's while it is    *)
(* open, and -2 from then on.                                                *)
LevelOf(kind, level, open, closed) ==
    /\ level = -1 => kind \notin closed /\ \A n \in 1 .. Len(open) : open[n] # kind
    /\ level >= 0 => /\ kind \notin closed /\ level < Len(open) /\ open[level + 1] = kind
                     /\ \A n \in 1 .. level : open[n] # kind
    /\ level = -2 => kind \in closed

LevelsRight ==
    /\ depth = Len(hid.open)
    /\ LevelOf("mouse", mouse_level, hid.open, hid.closed)
    /\ LevelOf("keyboard", kbd_level, hid.open, hid.closed)

CursorRight == hid.followed => bit_cursor = hid.declared[g.report_id]

(* Between two parses struct parser is as the next one finds it. *)
Fresh ==
    dialect = None =>
        /\ g = NoGlobals /\ usages = <<>> /\ bit_cursor = 0
        /\ depth = 0 /\ mouse_level = -1 /\ kbd_level = -1

Walking == MapTypeOK /\ HidType /\ UsagesKept /\ LevelsRight /\ CursorRight /\ Fresh

(* What it takes to be a reading. *)
LEMMA Shape ==
    ASSUME NEW h, NEW d, NEW l, NEW o, NEW c, NEW p, NEW f,
           h = [declared |-> d, listed |-> l, open |-> o, closed |-> c, place |-> p,
                followed |-> f]
    PROVE  h = [declared |-> h.declared, listed |-> h.listed, open |-> h.open,
                closed |-> h.closed, place |-> h.place, followed |-> h.followed]
OBVIOUS

LEMMA SameLists ==
    ASSUME HidType, HidType', UsagesKept, UNCHANGED <<usages, hid.listed>> PROVE UsagesKept'
BY DEF UsagesKept

LEMMA Reset ==
    ASSUME clear_local, hid'.listed = NoneListed PROVE UsagesKept'
BY Limits DEF clear_local, UsagesKept, NoneListed

LEMMA SameLevels ==
    ASSUME LevelsRight, UNCHANGED <<depth, mouse_level, kbd_level, hid.open, hid.closed>>
    PROVE  LevelsRight'
BY DEF LevelsRight, LevelOf

LEMMA ListType == NoneListed \in [Usage : Seq(Nat \X Nat), UsageMin : Seq(Nat \X Nat),
                                  UsageMax : Seq(Nat \X Nat)]
BY DEF NoneListed

(* Usage: the list grows, and the parser's too while it has room. *)
LEMMA UsageKeeps ==
    ASSUME MapTypeOK, HidType, UsagesKept, NEW it \in Item, Usage(it)
    PROVE  HidType' /\ UsagesKept'
<1> DEFINE L == hid.listed.Usage
           u == ItemUsage(it)
<1>1. L \in Seq(Nat \X Nat) /\ u \in Nat \X Nat /\ usages \in Seq(Nat \X Nat)
  BY UsageType DEF HidType, MapTypeOK
<1>2. hid' = [hid EXCEPT !.listed = [@ EXCEPT !.Usage = Append(L, u)]]
  BY DEF Usage, LocalItem, Local, HidType
<1> HIDE DEF u
<1>3. hid'.listed = [hid.listed EXCEPT !.Usage = Append(L, u)]
      /\ hid'.declared = hid.declared /\ hid'.open = hid.open
      /\ hid' = [declared |-> hid'.declared, listed |-> hid'.listed, open |-> hid'.open,
                 closed |-> hid'.closed, place |-> hid'.place, followed |-> hid'.followed]
  BY <1>2 DEF HidType
<1>a. Append(L, u) \in Seq(Nat \X Nat)
  BY <1>1
<1>4. HidType'
  BY <1>a, <1>3 DEF HidType
<1>5. hid'.listed.Usage = Append(L, u)
  BY <1>3 DEF HidType
<1>6. usages' = IF Len(usages) < MAX_LOCAL_USAGES THEN Append(usages, u) ELSE usages
  BY DEF Usage, u
<1>b. /\ Len(usages) = IF Len(L) < MAX_LOCAL_USAGES THEN Len(L) ELSE MAX_LOCAL_USAGES
      /\ \A i \in 1 .. Len(usages) : usages[i] = L[i]
  BY DEF UsagesKept
<1> DEFINE ll == hid'.listed.Usage
<1>c. ll = Append(L, u)
  BY <1>5
<1> HIDE DEF L, ll
<1>d. /\ Len(usages') = IF Len(ll) < MAX_LOCAL_USAGES THEN Len(ll) ELSE MAX_LOCAL_USAGES
      /\ \A i \in 1 .. Len(usages') : usages'[i] = ll[i]
  <2>1. CASE Len(usages) < MAX_LOCAL_USAGES
    <3>1. usages' = Append(usages, u) /\ Len(usages) = Len(L)
      BY <1>1, <1>b, <1>6, <2>1, Limits
    <3>2. Len(usages') = Len(usages) + 1 /\ Len(ll) = Len(L) + 1
      BY <1>1, <1>c, <3>1
    <3>3. ASSUME NEW i \in 1 .. Len(usages') PROVE usages'[i] = ll[i]
      BY <1>1, <1>b, <1>c, <3>1, <3>2
    <3> QED
      BY <1>1, <2>1, <3>1, <3>2, <3>3, Limits
  <2>2. CASE ~(Len(usages) < MAX_LOCAL_USAGES)
    <3>1. Len(usages) = MAX_LOCAL_USAGES /\ ~(Len(L) < MAX_LOCAL_USAGES) /\ usages' = usages
      BY <1>1, <1>b, <1>6, <2>2, Limits
    <3>2. Len(ll) = Len(L) + 1 /\ \A i \in 1 .. Len(L) : ll[i] = L[i]
      BY <1>1, <1>c
    <3>3. Len(L) \in Nat /\ Len(usages) \in Nat /\ Len(usages) <= Len(L)
      BY <1>1, <3>1, Limits
    <3>4. \A i \in 1 .. Len(usages) : usages[i] = ll[i]
      BY <1>b, <3>2, <3>3
    <3>5. ~(Len(ll) < MAX_LOCAL_USAGES)
      BY <3>1, <3>2, <3>3, Limits
    <3> QED
      BY <3>1, <3>4, <3>5
  <2> QED
    BY <2>1, <2>2
<1>7. UsagesKept'
  BY <1>d DEF UsagesKept, ll
<1> QED
  BY <1>4, <1>7

(* A collection of any kind opens: a level is taken by the first of its kind. *)
LEMMA LevelOpens ==
    ASSUME NEW open \in Seq(Kinds), NEW k \in Kinds, NEW closed, NEW kind,
           NEW level \in Nat \union {-1, -2}, LevelOf(kind, level, open, closed)
    PROVE  LevelOf(kind, IF k = kind /\ level = -1 THEN Len(open) ELSE level,
                   Append(open, k), closed)
<1>1. /\ Len(Append(open, k)) = Len(open) + 1 /\ Len(open) \in Nat
      /\ Append(open, k)[Len(open) + 1] = k
      /\ \A n \in 1 .. Len(open) : Append(open, k)[n] = open[n]
  OBVIOUS
<1> DEFINE o == Append(open, k)
<1> HIDE DEF o
<1>2. CASE level = -1 /\ k = kind
  BY <1>1, <1>2 DEF LevelOf, o
<1>3. CASE level = -1 /\ k # kind
  BY <1>1, <1>3 DEF LevelOf, o
<1>4. CASE level >= 0
  BY <1>1, <1>4 DEF LevelOf, o
<1>5. CASE level = -2
  BY <1>5 DEF LevelOf
<1> QED
  BY <1>2, <1>3, <1>4, <1>5

(* The collection opened last closes, and the level with it if it was that   *)
(* collection's.  With nothing open nothing changes.                         *)
LEMMA LevelCloses ==
    ASSUME NEW open \in Seq(Kinds), open # <<>>, NEW closed, NEW kind,
           NEW level \in Nat \union {-1, -2}, LevelOf(kind, level, open, closed),
           NEW closed2,
           kind \in closed2 <=>
              \/ kind \in closed
              \/ open[Len(open)] = kind /\ \A n \in 1 .. Len(open) - 1 : open[n] # kind
    PROVE  LevelOf(kind, IF level >= 0 /\ Len(open) - 1 <= level THEN -2 ELSE level,
                   SubSeq(open, 1, Len(open) - 1), closed2)
<1> DEFINE gone == open[Len(open)] = kind /\ \A n \in 1 .. Len(open) - 1 : open[n] # kind
<1>1. /\ Len(SubSeq(open, 1, Len(open) - 1)) = Len(open) - 1 /\ Len(open) \in Nat \ {0}
      /\ \A n \in 1 .. Len(open) - 1 : SubSeq(open, 1, Len(open) - 1)[n] = open[n]
  BY Popped
<1> DEFINE o == SubSeq(open, 1, Len(open) - 1)
<1> HIDE DEF o
<1>2. CASE level = -1
  BY <1>1, <1>2 DEF LevelOf, o
<1>3. CASE level >= 0 /\ Len(open) - 1 <= level
  <2>1. level = Len(open) - 1
    BY <1>1, <1>3 DEF LevelOf
  <2>2. gone
    BY <1>1, <1>3, <2>1 DEF LevelOf
  <2> QED
    BY <1>3, <2>2 DEF LevelOf
<1>4. CASE level >= 0 /\ ~(Len(open) - 1 <= level)
  <2>1. level + 1 \in 1 .. Len(open) - 1
    BY <1>1, <1>4
  <2>2. ~gone
    BY <1>4, <2>1 DEF LevelOf
  <2> QED
    BY <1>1, <1>4, <2>1, <2>2 DEF LevelOf, o
<1>5. CASE level = -2
  BY <1>5 DEF LevelOf
<1> QED
  BY <1>2, <1>3, <1>4, <1>5

(* The parser takes the same usage for the collection's as the HID reading. *)
LEMMA SameKind ==
    ASSUME MapTypeOK, HidType, UsagesKept, NEW it \in Item
    PROVE  /\ KindOf(it) \in Kinds
           /\ Opens(it, USAGE_GD_MOUSE) <=> KindOf(it) = "mouse"
           /\ Opens(it, USAGE_GD_KEYBOARD) <=> KindOf(it) = "keyboard"
<1> DEFINE L == hid.listed.Usage
           m == Min({Len(L), MAX_LOCAL_USAGES})
<1>1. L \in Seq(Nat \X Nat) /\ usages \in Seq(Nat \X Nat) /\ Listed("Usage") = L
  BY DEF HidType, MapTypeOK, Listed
<1>2. m = Len(usages) /\ (usages = <<>> <=> L = <<>>)
  <2>1. m = IF Len(L) <= MAX_LOCAL_USAGES THEN Len(L) ELSE MAX_LOCAL_USAGES
    <3>1. Len(L) \in Int /\ MAX_LOCAL_USAGES \in Int
      BY <1>1, Limits
    <3> QED
      BY <3>1, MinPair
  <2>2. Len(usages) \in Nat /\ Len(L) \in Nat
    BY <1>1
  <2>3. /\ usages = <<>> <=> Len(usages) = 0
        /\ L = <<>> <=> Len(L) = 0
    BY <1>1
  <2> QED
    BY <2>1, <2>2, <2>3, Limits DEF UsagesKept
<1> HIDE DEF L, m
<1>3. usages # <<>> => usages[Len(usages)] = L[m]
  <2>1. usages # <<>> => Len(usages) \in 1 .. Len(usages)
    BY <1>1
  <2> QED
    BY <1>2, <2>1 DEF UsagesKept, L
<1> DEFINE is(usage) == /\ it.v = HID_COLLECTION_APPLICATION /\ L # <<>>
                        /\ L[m] = <<PAGE_GENERIC_DESKTOP, usage>>
<1>4. KindOf(it) = IF is(USAGE_GD_MOUSE) THEN "mouse"
                   ELSE IF is(USAGE_GD_KEYBOARD) THEN "keyboard" ELSE "other"
  BY <1>1 DEF KindOf, m
<1>5. \A usage : Opens(it, usage) <=> is(usage)
  BY <1>2, <1>3 DEF Opens
<1>6. ~(is(USAGE_GD_MOUSE) /\ is(USAGE_GD_KEYBOARD))
  <2>1. <<PAGE_GENERIC_DESKTOP, USAGE_GD_MOUSE>> # <<PAGE_GENERIC_DESKTOP, USAGE_GD_KEYBOARD>>
    BY KindsAssumption
  <2> QED
    BY <2>1
<1> HIDE DEF is
<1> QED
  BY <1>4, <1>5, <1>6 DEF Kinds

LEMMA GlobalsType ==
    ASSUME MapTypeOK
    PROVE  /\ g.report_size \in Nat /\ g.report_count \in Nat /\ g.report_id \in 0 .. U8 - 1
           /\ g.report_size * g.report_count \in Nat /\ bit_cursor \in Nat
<1>1. g.report_size \in Nat /\ g.report_count \in Nat /\ g.report_id \in 0 .. U8 - 1
  BY Powers DEF MapTypeOK, GlobalState
<1> QED
  BY <1>1, Product, Powers DEF MapTypeOK

(* An Input item adds its bits to its report in both readings. *)
LEMMA InputKeeps ==
    ASSUME MapTypeOK, HidType, CursorRight, NEW it \in Item, Input(it)
    PROVE  HidType' /\ CursorRight' /\ hid'.listed = NoneListed
           /\ hid'.open = hid.open /\ hid'.closed = hid.closed
<1> DEFINE bits == g.report_size * g.report_count
           id == g.report_id
<1>1. bits \in Nat /\ id \in 0 .. U8 - 1 /\ bit_cursor \in Nat
  BY GlobalsType
<1>2. \E place, followed :
        hid' = [hid EXCEPT
          !.declared = [hid.declared EXCEPT ![id] = hid.declared[id] + bits],
          !.listed = NoneListed,
          !.place = place,
          !.followed = followed]
  <2>1. hid' = Reading(it.v)
    BY DEF Input
  <2> QED
    BY <2>1 DEF Reading
<1>3. hid'.followed => hid.followed
  BY DEF Input, Reading, HidType
<1>4. hid.declared[id] + bits <= MaxBits /\ bit_cursor' = Advanced(bits) /\ UNCHANGED g
  BY DEF Input, globals
<1> HIDE DEF bits, id
<1>a. PICK place, followed :
        hid' = [hid EXCEPT
          !.declared = [hid.declared EXCEPT ![id] = hid.declared[id] + bits],
          !.listed = NoneListed,
          !.place = place,
          !.followed = followed]
  BY <1>2
<1> DEFINE d == [hid.declared EXCEPT ![id] = hid.declared[id] + bits]
<1> HIDE DEF d
<1>b. hid' = [declared |-> d, listed |-> NoneListed, open |-> hid.open,
              closed |-> hid.closed, place |-> place, followed |-> followed]
  BY <1>a DEF HidType, d
<1>5. /\ hid'.declared = d /\ hid'.listed = NoneListed
      /\ hid'.open = hid.open /\ hid'.closed = hid.closed
      /\ hid'.place = place /\ hid'.followed = followed
  BY <1>b
<1>c. hid' = [declared |-> hid'.declared, listed |-> hid'.listed, open |-> hid'.open,
              closed |-> hid'.closed, place |-> hid'.place, followed |-> hid'.followed]
  BY <1>b, Shape
<1>6. /\ hid.declared[id] \in Nat
      /\ d \in [0 .. U8 - 1 -> Nat] /\ d[id] = hid.declared[id] + bits
  <2> DEFINE dec == hid.declared
  <2>1. dec \in [0 .. U8 - 1 -> Nat]
    BY DEF HidType
  <2>2. d = [dec EXCEPT ![id] = dec[id] + bits]
    BY DEF d
  <2> HIDE DEF dec
  <2>3. dec[id] \in Nat
    BY <1>1, <2>1
  <2>4. d \in [0 .. U8 - 1 -> Nat] /\ d[id] = dec[id] + bits
    BY <1>1, <2>1, <2>2, <2>3
  <2> QED
    BY <2>3, <2>4 DEF dec
<1>7. HidType'
  BY <1>5, <1>c, <1>6, ListType DEF HidType
<1>8. CursorRight'
  <2>1. hid'.declared[id] = hid.declared[id] + bits
    BY <1>5, <1>6
  <2>2. ASSUME bit_cursor = hid.declared[id] PROVE Advanced(bits) = bit_cursor + bits
    <3> DEFINE a == bit_cursor + bits
               b == U32 - 1
    <3>1. a \in Int /\ b \in Int /\ a <= b
      BY <1>1, <1>4, <2>2, Powers, Limits, CursorAssumption
    <3> HIDE DEF a, b
    <3>2. Min({a, b}) = a
      BY <3>1, MinPair
    <3> QED
      BY <3>2 DEF a, b, Advanced
  <2>3. g'.report_id = id
    BY <1>4 DEF id
  <2> QED
    BY <1>3, <1>4, <2>1, <2>2, <2>3 DEF CursorRight, id
<1> QED
  BY <1>5, <1>7, <1>8

(* Items that change nothing of the HID reading but its lists of usages,     *)
(* from none of which it is told whether the map is followed.                *)
LEMMA OtherKeeps ==
    ASSUME HidType, CursorRight, UNCHANGED <<g, bit_cursor>>,
           \/ UNCHANGED hid
           \/ \E f \in BOOLEAN : hid' = [hid EXCEPT !.followed = @ /\ f]
           \/ hid' = [hid EXCEPT !.listed = NoneListed]
    PROVE  HidType' /\ CursorRight' /\ hid'.open = hid.open /\ hid'.closed = hid.closed
           /\ (hid'.listed = hid.listed \/ hid'.listed = NoneListed)
BY ListType DEF HidType, CursorRight

LEMMA Rebuilt ==
    ASSUME NEW d \in [0 .. U8 - 1 -> Nat],
           NEW l \in [Usage : Seq(Nat \X Nat), UsageMin : Seq(Nat \X Nat),
                      UsageMax : Seq(Nat \X Nat)],
           NEW o \in Seq(Kinds), NEW c, NEW p, NEW f,
           hid' = [declared |-> d, listed |-> l, open |-> o, closed |-> c, place |-> p,
                   followed |-> f]
    PROVE  /\ HidType'
           /\ hid'.declared = d /\ hid'.listed = l /\ hid'.open = o /\ hid'.closed = c
           /\ hid'.followed = f
<1>1. /\ hid'.declared = d /\ hid'.listed = l /\ hid'.open = o /\ hid'.closed = c
      /\ hid'.place = p /\ hid'.followed = f
  OBVIOUS
<1>2. hid' = [declared |-> hid'.declared, listed |-> hid'.listed, open |-> hid'.open,
              closed |-> hid'.closed, place |-> hid'.place, followed |-> hid'.followed]
  BY Shape
<1> QED
  BY <1>1, <1>2 DEF HidType

(* A collection of either kind takes its level as the HID reading opens it. *)
LEMMA CollectionKeeps ==
    ASSUME MapTypeOK, HidType, UsagesKept, LevelsRight, CursorRight, NEW it \in Item,
           Collection(it)
    PROVE  HidType' /\ UsagesKept' /\ LevelsRight' /\ CursorRight'
<1> DEFINE k == KindOf(it)
           o == hid.open
<1>1. /\ k \in Kinds
      /\ Opens(it, USAGE_GD_MOUSE) <=> k = "mouse"
      /\ Opens(it, USAGE_GD_KEYBOARD) <=> k = "keyboard"
  BY SameKind
<1>2. hid' = [hid EXCEPT !.open = Append(hid.open, k), !.listed = NoneListed]
  BY DEF Collection, Opened
<1> HIDE DEF k
<1>3. hid' = [declared |-> hid.declared, listed |-> NoneListed, open |-> Append(o, k),
              closed |-> hid.closed, place |-> hid.place, followed |-> hid.followed]
  BY <1>2 DEF HidType
<1>4. o \in Seq(Kinds) /\ hid.declared \in [0 .. U8 - 1 -> Nat] /\ Append(o, k) \in Seq(Kinds)
  BY <1>1 DEF HidType
<1>5. /\ HidType' /\ hid'.declared = hid.declared /\ hid'.listed = NoneListed
      /\ hid'.open = Append(o, k) /\ hid'.closed = hid.closed /\ hid'.followed = hid.followed
  BY <1>3, <1>4, ListType, Rebuilt
<1>6. UsagesKept' /\ CursorRight'
  BY <1>5, Reset DEF Collection, CursorRight, globals
<1>7. LevelsRight'
  <2>1. /\ depth = Len(o) /\ depth' = Len(o) + 1
        /\ mouse_level \in Nat \union {-1, -2} /\ kbd_level \in Nat \union {-1, -2}
    BY DEF LevelsRight, Collection, MapTypeOK
  <2>2. /\ mouse_level' = IF k = "mouse" /\ mouse_level = -1 THEN Len(o) ELSE mouse_level
        /\ kbd_level' = IF k = "keyboard" /\ kbd_level = -1 THEN Len(o) ELSE kbd_level
    BY <1>1, <2>1 DEF Collection
  <2>3. LevelOf("mouse", mouse_level, o, hid.closed) /\ LevelOf("keyboard", kbd_level, o, hid.closed)
    BY DEF LevelsRight
  <2> HIDE DEF o
  <2>4. LevelOf("mouse", mouse_level', Append(o, k), hid.closed)
    BY <1>1, <1>4, <2>1, <2>2, <2>3, LevelOpens
  <2>5. LevelOf("keyboard", kbd_level', Append(o, k), hid.closed)
    BY <1>1, <1>4, <2>1, <2>2, <2>3, LevelOpens
  <2>6. Len(Append(o, k)) = Len(o) + 1
    BY <1>4
  <2> QED
    BY <1>5, <2>1, <2>4, <2>5, <2>6 DEF LevelsRight
<1> QED
  BY <1>5, <1>6, <1>7

(* An end closes the collection opened last, and is nothing with none open. *)
LEMMA EndKeeps ==
    ASSUME MapTypeOK, HidType, UsagesKept, LevelsRight, CursorRight, NEW it \in Item,
           EndCollection(it)
    PROVE  HidType' /\ UsagesKept' /\ LevelsRight' /\ CursorRight'
<1> DEFINE o == hid.open
           n == Len(o)
           gone(kind) == n > 0 /\ o[n] = kind /\ \A k \in 1 .. n - 1 : o[k] # kind
           c == hid.closed \union {kind \in {"mouse", "keyboard"} : gone(kind)}
           e == IF n > 0 THEN SubSeq(o, 1, n - 1) ELSE o
<1>1. o \in Seq(Kinds) /\ hid.declared \in [0 .. U8 - 1 -> Nat] /\ n \in Nat
  BY DEF HidType
<1>2. hid' = [hid EXCEPT !.listed = NoneListed, !.open = e, !.closed = c]
  BY DEF EndCollection, Closed
<1> HIDE DEF c, e
<1>3. hid' = [declared |-> hid.declared, listed |-> NoneListed, open |-> e,
              closed |-> c, place |-> hid.place, followed |-> hid.followed]
  BY <1>2 DEF HidType
<1>4. e \in Seq(Kinds)
  <2>1. CASE n > 0
    <3>1. o # <<>>
      BY <1>1, <2>1
    <3> QED
      BY <1>1, <2>1, <3>1, Popped DEF e
  <2>2. CASE ~(n > 0)
    BY <1>1, <2>2 DEF e
  <2> QED
    BY <2>1, <2>2
<1>5. /\ HidType' /\ hid'.declared = hid.declared /\ hid'.listed = NoneListed
      /\ hid'.open = e /\ hid'.closed = c /\ hid'.followed = hid.followed
  BY <1>1, <1>3, <1>4, ListType, Rebuilt
<1>6. UsagesKept' /\ CursorRight'
  BY <1>5, Reset DEF EndCollection, CursorRight, globals
<1>7. LevelsRight'
  <2>1. /\ depth = n /\ depth \in Nat
        /\ mouse_level \in Nat \union {-1, -2} /\ kbd_level \in Nat \union {-1, -2}
    BY DEF LevelsRight, MapTypeOK
  <2>2. depth' = IF n >= 1 THEN n - 1 ELSE 0
    BY <2>1, Depths DEF EndCollection
  <2>3. LevelOf("mouse", mouse_level, o, hid.closed) /\ LevelOf("keyboard", kbd_level, o, hid.closed)
    BY DEF LevelsRight
  <2>4. /\ mouse_level' = IF mouse_level >= 0 /\ depth' <= mouse_level THEN -2 ELSE mouse_level
        /\ kbd_level' = IF kbd_level >= 0 /\ depth' <= kbd_level THEN -2 ELSE kbd_level
    BY DEF EndCollection, Closes
  <2>5. CASE n = 0
    <3>1. e = o /\ c = hid.closed /\ depth' = depth
      BY <1>1, <2>1, <2>2, <2>5 DEF e, c
    <3>2. mouse_level' = mouse_level /\ kbd_level' = kbd_level
      BY <1>1, <2>1, <2>3, <2>4, <2>5, <3>1 DEF LevelOf
    <3> QED
      BY <1>5, <2>1, <2>3, <3>1, <3>2 DEF LevelsRight
  <2>6. CASE n > 0
    <3>1. o # <<>> /\ e = SubSeq(o, 1, n - 1) /\ depth' = n - 1
      BY <1>1, <2>2, <2>6 DEF e
    <3> DEFINE last(kind) == o[Len(o)] = kind /\ \A k \in 1 .. Len(o) - 1 : o[k] # kind
    <3>2. /\ "mouse" \in c <=> "mouse" \in hid.closed \/ last("mouse")
          /\ "keyboard" \in c <=> "keyboard" \in hid.closed \/ last("keyboard")
      <4>1. \A kind : gone(kind) <=> last(kind)
        BY <2>6
      <4> HIDE DEF gone, last
      <4> QED
        BY <4>1 DEF c
    <3> HIDE DEF o
    <3>3. LevelOf("mouse", mouse_level', e, c)
      <4>1. LevelOf("mouse", IF mouse_level >= 0 /\ Len(o) - 1 <= mouse_level THEN -2 ELSE mouse_level,
                    SubSeq(o, 1, Len(o) - 1), c)
        BY <1>1, <2>1, <2>3, <3>1, <3>2, LevelCloses
      <4> QED
        BY <2>4, <3>1, <4>1
    <3>4. LevelOf("keyboard", kbd_level', e, c)
      <4>1. LevelOf("keyboard", IF kbd_level >= 0 /\ Len(o) - 1 <= kbd_level THEN -2 ELSE kbd_level,
                    SubSeq(o, 1, Len(o) - 1), c)
        BY <1>1, <2>1, <2>3, <3>1, <3>2, LevelCloses
      <4> QED
        BY <2>4, <3>1, <4>1
    <3>5. Len(e) = n - 1
      BY <1>1, <3>1, Popped
    <3> QED
      BY <1>5, <3>1, <3>3, <3>4, <3>5 DEF LevelsRight
  <2> QED
    BY <1>1, <2>5, <2>6
<1> QED
  BY <1>5, <1>6, <1>7

(* Items that only tell whether the map is still followed. *)
LEMMA OnlyFollowed ==
    ASSUME HidType, NEW f, hid' = [hid EXCEPT !.followed = hid.followed /\ f]
    PROVE  /\ HidType' /\ UNCHANGED <<hid.declared, hid.listed, hid.open, hid.closed>>
           /\ hid'.followed => hid.followed /\ f
<1>0. PICK b : b = (hid.followed /\ f)
  OBVIOUS
<1>1. hid' = [declared |-> hid.declared, listed |-> hid.listed, open |-> hid.open,
              closed |-> hid.closed, place |-> hid.place, followed |-> b]
  BY <1>0 DEF HidType
<1>2. /\ hid.declared \in [0 .. U8 - 1 -> Nat] /\ hid.open \in Seq(Kinds)
      /\ hid.listed \in [Usage : Seq(Nat \X Nat), UsageMin : Seq(Nat \X Nat),
                         UsageMax : Seq(Nat \X Nat)]
  BY DEF HidType
<1>3. /\ HidType' /\ hid'.declared = hid.declared /\ hid'.listed = hid.listed
      /\ hid'.open = hid.open /\ hid'.closed = hid.closed /\ hid'.followed = b
  BY ONLY <1>1, <1>2, Rebuilt
<1> QED
  BY <1>0, <1>3

(* The bounds of a range are listed apart from the usages. *)
LEMMA BoundsKeep ==
    ASSUME MapTypeOK, HidType, UsagesKept, LevelsRight, CursorRight, NEW it \in Item,
           UsageMin(it) \/ UsageMax(it)
    PROVE  HidType' /\ UsagesKept' /\ LevelsRight' /\ CursorRight'
<1> DEFINE u == ItemUsage(it)
           l == [hid.listed EXCEPT ![it.tag] = Append(@, u)]
           b == hid.followed /\ it.size # 4
<1>1. u \in Nat \X Nat
  BY UsageType
<1>2. it.tag \in {"UsageMin", "UsageMax"}
  BY DEF UsageMin, UsageMax, LocalItem
<1> HIDE DEF u
<1>3. /\ l \in [Usage : Seq(Nat \X Nat), UsageMin : Seq(Nat \X Nat), UsageMax : Seq(Nat \X Nat)]
      /\ l.Usage = hid.listed.Usage
  <2> DEFINE h == hid.listed
  <2>1. h \in [Usage : Seq(Nat \X Nat), UsageMin : Seq(Nat \X Nat), UsageMax : Seq(Nat \X Nat)]
    BY DEF HidType
  <2> HIDE DEF h
  <2>2. Append(h.UsageMin, u) \in Seq(Nat \X Nat) /\ Append(h.UsageMax, u) \in Seq(Nat \X Nat)
    BY <1>1, <2>1
  <2>3. CASE it.tag = "UsageMin"
    BY <2>1, <2>2, <2>3 DEF h
  <2>4. CASE it.tag = "UsageMax"
    BY <2>1, <2>2, <2>4 DEF h
  <2> QED
    BY <1>2, <2>3, <2>4
<1>4. hid' = [hid EXCEPT !.listed = l, !.followed = b]
  BY DEF UsageMin, UsageMax, Local, HidType, u
<1> HIDE DEF l, b
<1>5. hid' = [declared |-> hid.declared, listed |-> l, open |-> hid.open,
              closed |-> hid.closed, place |-> hid.place, followed |-> b]
  BY <1>4 DEF HidType
<1>6. hid.declared \in [0 .. U8 - 1 -> Nat] /\ hid.open \in Seq(Kinds)
  BY DEF HidType
<1>7. /\ HidType' /\ hid'.declared = hid.declared /\ hid'.listed = l
      /\ hid'.open = hid.open /\ hid'.closed = hid.closed /\ hid'.followed = b
  BY <1>3, <1>5, <1>6, Rebuilt
<1>8. UNCHANGED <<usages, g, bit_cursor, depth, mouse_level, kbd_level>>
  BY DEF UsageMin, UsageMax, LocalItem, globals, levels
<1>9. UsagesKept' /\ LevelsRight' /\ CursorRight'
  BY <1>3, <1>7, <1>8, SameLevels DEF UsagesKept, CursorRight, b
<1> QED
  BY <1>7, <1>9

(* A report ID restarts the cursor, and is followed only at the start of its *)
(* report; a Pop is followed only if it leaves the ID alone.                 *)
LEMMA IdKeeps ==
    ASSUME MapTypeOK, HidType, UsagesKept, LevelsRight, CursorRight, NEW it \in Item,
           ReportId(it) \/ Pop(it)
    PROVE  HidType' /\ UsagesKept' /\ LevelsRight' /\ CursorRight'
<1> DEFINE f == IF it.tag = "Pop" THEN g'.report_id = g.report_id
                ELSE it.v % U8 = g.report_id \/ hid.declared[it.v % U8] = 0
<1>1. hid' = [hid EXCEPT !.followed = hid.followed /\ f]
  BY DEF ReportId, Pop
<1> HIDE DEF f
<1>2. /\ HidType' /\ UNCHANGED <<hid.declared, hid.listed, hid.open, hid.closed>>
      /\ hid'.followed => hid.followed /\ f
  BY <1>1, OnlyFollowed
<1>3. UNCHANGED <<usages, depth, mouse_level, kbd_level>>
  BY DEF ReportId, Pop, locals, levels
<1>4. UsagesKept' /\ LevelsRight'
  BY <1>2, <1>3, SameLists, SameLevels
<1>5. CASE Pop(it)
  <2>1. f <=> g'.report_id = g.report_id
    BY <1>5 DEF Pop, f
  <2>2. UNCHANGED bit_cursor
    BY <1>5 DEF Pop
  <2> QED
    BY <1>2, <1>4, <2>1, <2>2 DEF CursorRight
<1>6. CASE ReportId(it)
  <2>1. f <=> it.v % U8 = g.report_id \/ hid.declared[it.v % U8] = 0
    BY <1>6 DEF ReportId, f
  <2>2. bit_cursor' = IF it.v % U8 # g.report_id THEN 0 ELSE bit_cursor
    BY <1>6 DEF ReportId, Restart
  <2>3. g'.report_id = it.v % U8
    BY <1>6 DEF ReportId, MapTypeOK, GlobalState
  <2> QED
    BY <1>2, <1>4, <2>1, <2>2, <2>3 DEF CursorRight
<1> QED
  BY <1>5, <1>6

(* Every item keeps the parser and the HID reading together. *)
LEMMA ItemKeeps ==
    ASSUME MapTypeOK, HidType, UsagesKept, LevelsRight, CursorRight, NEW it \in Item,
           HandleItem(it)
    PROVE  HidType' /\ UsagesKept' /\ LevelsRight' /\ CursorRight'
<1>1. CASE Input(it)
  <2>1. UNCHANGED <<depth, mouse_level, kbd_level>> /\ clear_local
    BY <1>1 DEF Input, levels
  <2> QED
    BY <1>1, <2>1, InputKeeps, Reset, SameLevels
<1>2. CASE OtherReport(it)
  <2>1. /\ UNCHANGED <<g, bit_cursor, depth, mouse_level, kbd_level>> /\ clear_local
        /\ hid' = [hid EXCEPT !.listed = NoneListed]
    BY <1>2 DEF OtherReport, levels, globals
  <2>2. hid'.listed = NoneListed
    BY <2>1 DEF HidType
  <2> QED
    BY <2>1, <2>2, OtherKeeps, Reset, SameLevels
<1>3. CASE Collection(it)
  BY <1>3, CollectionKeeps
<1>4. CASE EndCollection(it)
  BY <1>4, EndKeeps
<1>5. CASE UsagePage(it) \/ LogicalMin(it)
  <2>1. UNCHANGED <<usages, bit_cursor, depth, mouse_level, kbd_level, hid>>
    BY <1>5 DEF UsagePage, LogicalMin, Set, locals, levels
  <2>2. UNCHANGED g.report_id
    BY <1>5 DEF UsagePage, LogicalMin, Set, MapTypeOK, GlobalState
  <2> QED
    BY <2>1, <2>2, SameLists, SameLevels DEF HidType, CursorRight
<1>6. CASE ReportSize(it) \/ ReportCount(it)
  <2>1. /\ UNCHANGED <<usages, bit_cursor, depth, mouse_level, kbd_level>>
        /\ hid' = [hid EXCEPT !.followed = hid.followed /\ it.v < U8]
    BY <1>6 DEF ReportSize, ReportCount, Set, locals, levels, Unnarrowed
  <2>2. UNCHANGED g.report_id
    BY <1>6 DEF ReportSize, ReportCount, Set, MapTypeOK, GlobalState
  <2>3. /\ HidType' /\ UNCHANGED <<hid.declared, hid.listed, hid.open, hid.closed>>
        /\ hid'.followed => hid.followed /\ it.v < U8
    BY <2>1, OnlyFollowed
  <2> QED
    BY <2>1, <2>2, <2>3, SameLists, SameLevels DEF CursorRight
<1>7. CASE ReportId(it) \/ Pop(it)
  BY <1>7, IdKeeps
<1>8. CASE Push(it)
  <2>1. /\ UNCHANGED <<g, usages, bit_cursor, depth, mouse_level, kbd_level>>
        /\ hid' = [hid EXCEPT !.followed = hid.followed /\ Len(stack) < GLOBAL_STACK_DEPTH]
    BY <1>8 DEF Push, locals, levels
  <2>2. /\ HidType' /\ UNCHANGED <<hid.declared, hid.listed, hid.open, hid.closed>>
        /\ hid'.followed => hid.followed /\ Len(stack) < GLOBAL_STACK_DEPTH
    BY <2>1, OnlyFollowed
  <2> QED
    BY <2>1, <2>2, SameLists, SameLevels DEF CursorRight
<1>9. CASE Usage(it)
  <2>1. UNCHANGED <<g, bit_cursor, depth, mouse_level, kbd_level>>
    BY <1>9 DEF Usage, LocalItem, globals, levels
  <2>2. UNCHANGED <<hid.declared, hid.open, hid.closed, hid.followed>>
    BY <1>9 DEF Usage, Local, HidType
  <2> QED
    BY <1>9, <2>1, <2>2, UsageKeeps, SameLevels DEF CursorRight
<1>10. CASE UsageMin(it) \/ UsageMax(it)
  BY <1>10, BoundsKeep
<1> QED
  BY <1>1, <1>2, <1>3, <1>4, <1>5, <1>6, <1>7, <1>8, <1>9, <1>10 DEF HandleItem

LEMMA WalkingInit == Init => Walking
<1> SUFFICES ASSUME Init PROVE Walking
  OBVIOUS
<1>1. MapTypeOK
  BY TypeInit
<1>2. HidType
  BY Powers, ListType DEF Init, NoReading, HidType, Kinds
<1>3. UsagesKept
  BY Limits DEF Init, NoReading, NoneListed, UsagesKept
<1>4. LevelsRight
  BY DEF Init, NoReading, LevelsRight, LevelOf
<1>5. CursorRight
  BY Powers DEF Init, NoReading, NoGlobals, CursorRight
<1>6. Fresh
  BY DEF Init, Fresh
<1> QED
  BY <1>1, <1>2, <1>3, <1>4, <1>5, <1>6 DEF Walking

(* A parse begins, and ends, with an empty reading over an empty parser. *)
LEMMA Restarts ==
    ASSUME NEW p, NEW f, g' = NoGlobals, usages' = <<>>, bit_cursor' = 0,
           depth' = 0, mouse_level' = -1, kbd_level' = -1,
           hid' = [NoReading EXCEPT !.place = p, !.followed = f]
    PROVE  HidType' /\ UsagesKept' /\ LevelsRight' /\ CursorRight'
<1> DEFINE zero == [id \in 0 .. U8 - 1 |-> 0]
<1>1. hid' = [declared |-> zero, listed |-> NoneListed, open |-> <<>>, closed |-> {},
              place |-> p, followed |-> f]
  BY DEF NoReading
<1>2. zero \in [0 .. U8 - 1 -> Nat] /\ <<>> \in Seq(Kinds)
  OBVIOUS
<1>3. zero[0] = 0
  BY Powers
<1> HIDE DEF zero
<1>4. /\ HidType' /\ hid'.declared = zero /\ hid'.listed = NoneListed
      /\ hid'.open = <<>> /\ hid'.closed = {}
  BY ONLY <1>1, <1>2, ListType, Rebuilt
<1>5. UsagesKept'
  BY <1>4, Limits DEF NoneListed, UsagesKept
<1>6. LevelsRight'
  BY <1>4 DEF LevelsRight, LevelOf
<1>7. CursorRight'
  BY <1>3, <1>4 DEF NoGlobals, CursorRight
<1> QED
  BY <1>4, <1>5, <1>6, <1>7

LEMMA WalkingStep == Walking /\ [Next]_vars => Walking'
<1> SUFFICES ASSUME Walking, [Next]_vars PROVE Walking'
  OBVIOUS
<1>1. MapTypeOK /\ HidType /\ UsagesKept /\ LevelsRight /\ CursorRight /\ Fresh
  BY DEF Walking
<1>2. MapTypeOK'
  BY <1>1, TypeStep
<1>3. ASSUME NEW d \in Dialects, Parse(d) PROVE Walking'
  <2>1. dialect' # None
    BY <1>3, DialectsAssumption DEF Parse
  <2>2. hid' = [NoReading EXCEPT !.place = NoReading.place, !.followed = NoReading.followed]
    BY <1>3 DEF Parse, NoReading
  <2>3. /\ g' = NoGlobals /\ usages' = <<>> /\ bit_cursor' = 0
        /\ depth' = 0 /\ mouse_level' = -1 /\ kbd_level' = -1
    BY <1>1, <1>3 DEF Parse, Fresh, globals, locals, levels
  <2>4. HidType' /\ UsagesKept' /\ LevelsRight' /\ CursorRight'
    BY ONLY <2>2, <2>3, Restarts
  <2> QED
    BY <1>2, <2>1, <2>4 DEF Walking, Fresh
<1>4. CASE Walk
  <2>1. PICK it \in Item : HandleItem(it)
    BY <1>1, <1>4, WalkedItem DEF MapTypeOK
  <2>2. dialect' # None
    BY <1>4 DEF Walk
  <2> QED
    BY <1>1, <1>2, <2>1, <2>2, ItemKeeps DEF Walking, Fresh
<1>5. CASE Return
  <2>1. /\ g' = NoGlobals /\ usages' = <<>> /\ bit_cursor' = 0
        /\ depth' = 0 /\ mouse_level' = -1 /\ kbd_level' = -1
        /\ hid' = [NoReading EXCEPT !.place = hid.place, !.followed = hid.followed]
    BY <1>5 DEF Return, clear_local
  <2>2. HidType' /\ UsagesKept' /\ LevelsRight' /\ CursorRight'
    BY ONLY <2>1, Restarts
  <2> QED
    BY <1>2, <2>1, <2>2 DEF Walking, Fresh
<1>6. CASE UNCHANGED vars
  BY <1>1, <1>2, <1>6, SameLists, SameLevels
     DEF Walking, vars, globals, locals, levels, layouts, HidType, CursorRight, Fresh
<1> QED
  BY <1>3, <1>4, <1>5, <1>6 DEF Next

LEMMA Follows == Walking => CursorFollows
<1> SUFFICES ASSUME Walking, dialect # None PROVE CursorFollows
  BY DEF CursorFollows
<1>1. MapTypeOK /\ HidType /\ LevelsRight /\ CursorRight
  BY DEF Walking
<1>2. ASSUME NEW kind, NEW level \in Nat \union {-1, -2},
             LevelOf(kind, level, hid.open, hid.closed)
      PROVE  level >= 0 <=> Within(kind)
  <2>1. hid.open \in Seq(Kinds)
    BY <1>1 DEF HidType
  <2>2. DOMAIN hid.open = 1 .. Len(hid.open) /\ Len(hid.open) \in Nat
    BY <2>1
  <2>3. CASE level = -1
    BY <1>2, <2>2, <2>3 DEF LevelOf, Within
  <2>4. CASE level >= 0
    <3>1. level + 1 \in DOMAIN hid.open
      BY <1>2, <2>2, <2>4 DEF LevelOf
    <3> QED
      BY <1>2, <2>4, <3>1 DEF LevelOf, Within
  <2>5. CASE level = -2
    BY <1>2, <2>5 DEF LevelOf, Within
  <2> QED
    BY <2>3, <2>4, <2>5
<1>3. /\ mouse_level \in Nat \union {-1, -2} /\ kbd_level \in Nat \union {-1, -2}
      /\ LevelOf("mouse", mouse_level, hid.open, hid.closed)
      /\ LevelOf("keyboard", kbd_level, hid.open, hid.closed)
  BY <1>1 DEF MapTypeOK, LevelsRight
<1>4. (in_mouse <=> Within("mouse")) /\ (in_keyboard <=> Within("keyboard"))
  BY <1>2, <1>3 DEF in_mouse, in_keyboard
<1> QED
  BY <1>1, <1>4 DEF CursorFollows, CursorRight

(* On every map that the parser follows its cursor is the length so far of   *)
(* the current report; and on every map at all it is inside the mouse, and   *)
(* inside the keyboard, exactly when the open collections say so.            *)
THEOREM CursorCorrect == Spec => []CursorFollows
BY WalkingInit, WalkingStep, Follows, PTL DEF Spec

(* A layout whose collection has closed is left alone by every item. *)
LEMMA ClosedIsFinal ==
    ASSUME Walking, [Next]_vars, dialect # None
    PROVE  /\ "mouse" \in hid.closed => out' = [out EXCEPT !.valid = out'.valid]
           /\ "keyboard" \in hid.closed => out_kbd' = [out_kbd EXCEPT !.valid = out_kbd'.valid]
<1>1. MapTypeOK /\ LevelsRight
  BY DEF Walking
<1>2. out \in PointerLayouts /\ out_kbd \in KeyboardLayouts
  BY <1>1 DEF MapTypeOK
<1>3. UNCHANGED out => out' = [out EXCEPT !.valid = out'.valid]
  BY <1>2 DEF PointerLayouts
<1>4. UNCHANGED out_kbd => out_kbd' = [out_kbd EXCEPT !.valid = out_kbd'.valid]
  BY <1>2 DEF KeyboardLayouts
<1>5. /\ "mouse" \in hid.closed => ~in_mouse
      /\ "keyboard" \in hid.closed => ~in_keyboard
  BY <1>1 DEF LevelsRight, LevelOf, in_mouse, in_keyboard
<1>6. CASE Walk
  <2>1. PICK it \in Item : HandleItem(it)
    BY <1>1, <1>6, WalkedItem DEF MapTypeOK
  <2>2. CASE Input(it)
    BY <1>3, <1>4, <1>5, <2>2 DEF Input
  <2>3. CASE ~Input(it)
    <3>1. UNCHANGED <<out, out_kbd>>
      BY <2>1, <2>3
         DEF HandleItem, OtherReport, Collection, EndCollection, UsagePage, LogicalMin, Set,
             ReportSize, ReportCount, ReportId, Push, Pop, Usage, UsageMin, UsageMax,
             LocalItem, layouts
    <3> QED
      BY <1>3, <1>4, <3>1
  <2> QED
    BY <2>2, <2>3
<1>7. CASE Return
  BY <1>2, <1>7 DEF Return, PointerLayouts, KeyboardLayouts
<1>8. CASE UNCHANGED vars
  BY <1>3, <1>4, <1>8 DEF vars, layouts
<1>9. ASSUME NEW d \in Dialects, Parse(d) PROVE FALSE
  BY <1>9 DEF Parse
<1> QED
  BY <1>6, <1>7, <1>8, <1>9 DEF Next

(* The first usable collection wins: nothing that a map declares behind a    *)
(* mouse's collection with X and Y, or a keyboard's with keys, changes the   *)
(* layout that was read from it.                                             *)
THEOREM FirstUsableCorrect == Spec => FirstUsableKept
<1>1. Walking /\ [Next]_vars =>
        [ dialect # None =>
            /\ "mouse" \in hid.closed /\ Present(out.x) /\ Present(out.y) =>
                  out' = [out EXCEPT !.valid = out'.valid]
            /\ "keyboard" \in hid.closed /\ Present(out_kbd.keys) =>
                  out_kbd' = [out_kbd EXCEPT !.valid = out_kbd'.valid] ]_vars
  BY ClosedIsFinal
<1> QED
  BY WalkingInit, WalkingStep, <1>1, PTL DEF Spec, FirstUsableKept

-----------------------------------------------------------------------------
(* What a layout has the decoder read.                                       *)
Inside(f, n) == f.bit_offset + n * f.bit_size <= BIT_OFFSET_MAX

PointerInside(o) ==
    /\ Inside(o.x, 1) /\ Inside(o.y, 1) /\ Inside(o.wheel, 1) /\ Inside(o.hwheel, 1)
    /\ Inside(o.buttons, o.button_count)
KeyboardInside(o) == Inside(o.modifiers, 1) /\ Inside(o.keys, o.key_count)

LayoutsInside == PointerInside(out) /\ KeyboardInside(out_kbd)

LEMMA SetFieldInside ==
    ASSUME MapTypeOK, NEW f \in Fields, Inside(f, 1), NEW u PROVE Inside(set_field(f, u), 1)
<1> DEFINE fitting == {i \in Slots : usage_for_slot(i) = u /\ Fits(SlotOffset(i), g.report_size)}
           m == Min(fitting)
<1>1. g.report_size \in Nat /\ g.report_count \in Nat /\ bit_cursor \in Nat
  BY GlobalsType
<1>2. fitting \in SUBSET Nat
  BY <1>1 DEF Slots
<1>3. CASE fitting # {}
  <2>1. m \in fitting
    <3> HIDE DEF fitting
    <3> QED
      BY <1>2, <1>3, MinOfNats
  <2>2. SlotOffset(m) + g.report_size <= BIT_OFFSET_MAX
    BY <2>1 DEF Fits
  <2>3. m \in Nat
    BY <1>2, <2>1
  <2>4. SlotOffset(m) \in Nat
    BY <1>1, <2>3, Product DEF SlotOffset
  <2>5. Inside(Field(SlotOffset(m), g.report_size, g.negative), 1)
    BY <1>1, <2>2, <2>4 DEF Inside, Field
  <2>6. set_field(f, u) \in {f, Field(SlotOffset(m), g.report_size, g.negative)}
    BY DEF set_field
  <2> QED
    BY <2>5, <2>6
<1>4. CASE fitting = {}
  BY <1>4 DEF set_field
<1> QED
  BY <1>3, <1>4

LEMMA AssignInputInside ==
    ASSUME MapTypeOK, PointerInside(out) PROVE PointerInside(assign_input(out))
<1> DEFINE count == Min({g.report_count, ZMK_HID_MAX_BUTTONS})
           id == LockedId(out, ~Present(out.buttons) /\ ~Present(out.x) /\ ~Present(out.y))
           locked == [out EXCEPT !.report_id = id]
           axes == [locked EXCEPT !.x = set_field(@, <<PAGE_GENERIC_DESKTOP, USAGE_GD_X>>),
                                  !.y = set_field(@, <<PAGE_GENERIC_DESKTOP, USAGE_GD_Y>>),
                                  !.wheel = set_field(@, <<PAGE_GENERIC_DESKTOP, USAGE_GD_WHEEL>>),
                                  !.hwheel = set_field(@, <<PAGE_CONSUMER, USAGE_CONSUMER_AC_PAN>>)]
           buttons == [locked EXCEPT !.buttons = Field(bit_cursor, Per(1), FALSE),
                                     !.button_count = count]
<1>1. /\ out.x \in Fields /\ out.y \in Fields /\ out.wheel \in Fields /\ out.hwheel \in Fields
      /\ out \in PointerLayouts
  BY DEF MapTypeOK, PointerLayouts
<1> HIDE DEF count, id
<1>2. PointerInside(locked)
  BY <1>1 DEF PointerInside, PointerLayouts
<1>3. PointerInside(axes)
  <2>1. \A u : /\ Inside(set_field(out.x, u), 1) /\ Inside(set_field(out.y, u), 1)
               /\ Inside(set_field(out.wheel, u), 1) /\ Inside(set_field(out.hwheel, u), 1)
    BY <1>1, SetFieldInside DEF PointerInside
  <2>2. /\ axes.x = set_field(out.x, <<PAGE_GENERIC_DESKTOP, USAGE_GD_X>>)
        /\ axes.y = set_field(out.y, <<PAGE_GENERIC_DESKTOP, USAGE_GD_Y>>)
        /\ axes.wheel = set_field(out.wheel, <<PAGE_GENERIC_DESKTOP, USAGE_GD_WHEEL>>)
        /\ axes.hwheel = set_field(out.hwheel, <<PAGE_CONSUMER, USAGE_CONSUMER_AC_PAN>>)
        /\ axes.buttons = out.buttons /\ axes.button_count = out.button_count
    BY <1>1 DEF PointerLayouts
  <2> HIDE DEF axes
  <2> QED
    BY <2>1, <2>2 DEF PointerInside
<1>4. ASSUME Fits(bit_cursor, count * Per(1)) PROVE PointerInside(buttons)
  <2>1. /\ buttons.x = out.x /\ buttons.y = out.y
        /\ buttons.wheel = out.wheel /\ buttons.hwheel = out.hwheel
        /\ buttons.buttons = Field(bit_cursor, Per(1), FALSE) /\ buttons.button_count = count
    BY <1>1 DEF PointerLayouts
  <2> HIDE DEF buttons
  <2>2. Inside(Field(bit_cursor, Per(1), FALSE), count)
    BY <1>4 DEF Inside, Field, Fits
  <2> QED
    BY <2>1, <2>2 DEF PointerInside
<1>5. \/ assign_input(out) = axes
      \/ assign_input(out) = locked
      \/ Fits(bit_cursor, count * Per(1)) /\ assign_input(out) = buttons
  BY DEF assign_input, count, id
<1> HIDE DEF axes, locked, buttons
<1> QED
  BY <1>2, <1>3, <1>4, <1>5

LEMMA AssignKbdInputInside ==
    ASSUME MapTypeOK, KeyboardInside(out_kbd), NEW flags
    PROVE  KeyboardInside(assign_kbd_input(out_kbd, flags))
<1> DEFINE count == g.report_count
           id == LockedId(out_kbd, ~Present(out_kbd.modifiers) /\ ~Present(out_kbd.keys))
           locked == [out_kbd EXCEPT !.report_id = id]
           modifiers == [locked EXCEPT !.modifiers = Field(bit_cursor, count, FALSE)]
           keys == [locked EXCEPT !.keys = Field(bit_cursor, Per(BYTE), FALSE),
                                  !.key_count = count]
<1>1. out_kbd \in KeyboardLayouts /\ count \in Nat /\ bit_cursor \in Nat
  BY GlobalsType DEF MapTypeOK
<1> HIDE DEF count, id
<1>2. KeyboardInside(locked)
  BY <1>1 DEF KeyboardInside, KeyboardLayouts
<1>3. ASSUME Fits(bit_cursor, count) PROVE KeyboardInside(modifiers)
  <2>1. /\ modifiers.modifiers = Field(bit_cursor, count, FALSE)
        /\ modifiers.keys = out_kbd.keys /\ modifiers.key_count = out_kbd.key_count
    BY <1>1 DEF KeyboardLayouts
  <2>2. Inside(Field(bit_cursor, count, FALSE), 1)
    BY <1>1, <1>3 DEF Inside, Field, Fits
  <2> HIDE DEF modifiers
  <2> QED
    BY <2>1, <2>2 DEF KeyboardInside
<1>4. ASSUME Fits(bit_cursor, count * Per(BYTE)) PROVE KeyboardInside(keys)
  <2>1. /\ keys.keys = Field(bit_cursor, Per(BYTE), FALSE) /\ keys.key_count = count
        /\ keys.modifiers = out_kbd.modifiers
    BY <1>1 DEF KeyboardLayouts
  <2>2. Inside(Field(bit_cursor, Per(BYTE), FALSE), count)
    BY <1>4 DEF Inside, Field, Fits
  <2> HIDE DEF keys
  <2> QED
    BY <2>1, <2>2 DEF KeyboardInside
<1>5. \/ assign_kbd_input(out_kbd, flags) = locked
      \/ Fits(bit_cursor, count) /\ assign_kbd_input(out_kbd, flags) = modifiers
      \/ Fits(bit_cursor, count * Per(BYTE)) /\ assign_kbd_input(out_kbd, flags) = keys
  BY DEF assign_kbd_input, count, id
<1> HIDE DEF locked, modifiers, keys
<1> QED
  BY <1>2, <1>3, <1>4, <1>5

LEMMA EmptyInside == PointerInside(NoLayout) /\ KeyboardInside(NoKbdLayout)
BY Limits DEF PointerInside, KeyboardInside, Inside, NoLayout, NoKbdLayout, NoField, Field

LEMMA InsideStep == MapTypeOK /\ LayoutsInside /\ [Next]_vars => LayoutsInside'
<1> SUFFICES ASSUME MapTypeOK, LayoutsInside, [Next]_vars PROVE LayoutsInside'
  OBVIOUS
<1>1. ASSUME NEW d \in Dialects, Parse(d) PROVE LayoutsInside'
  BY <1>1, EmptyInside DEF Parse, LayoutsInside
<1>2. CASE Walk
  <2>1. PICK it \in Item : HandleItem(it)
    BY <1>2, WalkedItem DEF MapTypeOK
  <2>2. CASE Input(it)
    <3>1. PointerInside(out')
      BY <2>2, AssignInputInside DEF Input, LayoutsInside
    <3>2. KeyboardInside(out_kbd')
      BY <2>2, AssignKbdInputInside DEF Input, LayoutsInside
    <3> QED
      BY <3>1, <3>2 DEF LayoutsInside
  <2>3. CASE ~Input(it)
    <3>1. UNCHANGED <<out, out_kbd>>
      BY <2>1, <2>3
         DEF HandleItem, OtherReport, Collection, EndCollection, UsagePage, LogicalMin, Set,
             ReportSize, ReportCount, ReportId, Push, Pop, Usage, UsageMin, UsageMax,
             LocalItem, layouts
    <3> QED
      BY <3>1 DEF LayoutsInside
  <2> QED
    BY <2>2, <2>3
<1>3. CASE Return
  <2>1. \E v : out' = [out EXCEPT !.valid = v]
    BY <1>3 DEF Return
  <2>2. \E v : out_kbd' = [out_kbd EXCEPT !.valid = v]
    BY <1>3 DEF Return
  <2>3. /\ out'.x = out.x /\ out'.y = out.y /\ out'.wheel = out.wheel
        /\ out'.hwheel = out.hwheel /\ out'.buttons = out.buttons
        /\ out'.button_count = out.button_count
    BY <2>1 DEF MapTypeOK, PointerLayouts
  <2>4. /\ out_kbd'.modifiers = out_kbd.modifiers /\ out_kbd'.keys = out_kbd.keys
        /\ out_kbd'.key_count = out_kbd.key_count
    BY <2>2 DEF MapTypeOK, KeyboardLayouts
  <2> QED
    BY <2>3, <2>4 DEF LayoutsInside, PointerInside, KeyboardInside
<1>4. CASE UNCHANGED vars
  BY <1>4 DEF vars, layouts, LayoutsInside
<1> QED
  BY <1>1, <1>2, <1>3, <1>4 DEF Next

(* The bits of n fields in a row lie before their end. *)
LEMMA BitsEnd ==
    ASSUME NEW f \in Fields, NEW n \in Nat, NEW b \in BitsOf(f, n)
    PROVE  /\ b \in Nat /\ n * f.bit_size \in Nat /\ f.bit_offset \in Nat
           /\ b < f.bit_offset + n * f.bit_size
           /\ n # 0 /\ Present(f)
<1>1. f.bit_size \in Nat /\ f.bit_offset \in Nat
  BY DEF Fields
<1>2. n * f.bit_size \in Nat
  BY <1>1, Product
<1>3. b \in Nat /\ f.bit_offset <= b /\ b < f.bit_offset + n * f.bit_size
  BY <1>1, <1>2 DEF BitsOf
<1>4. n * f.bit_size # 0
  BY <1>1, <1>2, <1>3
<1>5. n # 0 /\ f.bit_size # 0
  BY <1>1, <1>4
<1> QED
  BY <1>1, <1>2, <1>3, <1>5 DEF Present

LEMMA ReadsFollow == MapTypeOK /\ LayoutsInside => ReadsInside
<1> SUFFICES ASSUME MapTypeOK, LayoutsInside PROVE ReadsInside
  OBVIOUS
<1>1. /\ out.x \in Fields /\ out.y \in Fields /\ out.wheel \in Fields /\ out.hwheel \in Fields
      /\ out.buttons \in Fields /\ out.button_count \in Nat
      /\ out_kbd.modifiers \in Fields /\ out_kbd.keys \in Fields /\ out_kbd.key_count \in Nat
  BY Powers, Limits DEF MapTypeOK, PointerLayouts, KeyboardLayouts
<1>2. ASSUME NEW f \in Fields, NEW n \in Nat, Inside(f, n), NEW b \in BitsOf(f, n)
      PROVE  b < BIT_OFFSET_MAX
  BY <1>2, BitsEnd, Limits DEF Inside
<1>3. ASSUME NEW f \in Fields PROVE FieldEnd(f) \in Nat /\ \A b \in BitsOf(f, 1) : b < FieldEnd(f)
  BY <1>3, BitsEnd DEF FieldEnd, Fields
<1>4. ButtonsEnd(out) \in Nat /\ \A b \in BitsOf(out.buttons, out.button_count) : b < ButtonsEnd(out)
  <2>1. out.buttons.bit_offset \in Nat /\ Stride(out) \in Nat
    BY <1>1 DEF Stride, Fields
  <2>2. out.button_count * Stride(out) \in Nat
    BY <1>1, <2>1, Product
  <2>3. ASSUME NEW b \in BitsOf(out.buttons, out.button_count) PROVE b < ButtonsEnd(out)
    <3>1. /\ b < out.buttons.bit_offset + out.button_count * out.buttons.bit_size
          /\ out.button_count # 0 /\ Present(out.buttons)
      BY <1>1, BitsEnd
    <3> QED
      BY <3>1 DEF ButtonsEnd, Stride
  <2> QED
    BY <2>1, <2>2, <2>3 DEF ButtonsEnd
<1>5. PointerBits = BitsOf(out.x, 1) \union BitsOf(out.y, 1) \union BitsOf(out.wheel, 1)
                    \union BitsOf(out.hwheel, 1) \union BitsOf(out.buttons, out.button_count)
  BY DEF PointerBits, Axes
<1>6. \A b \in PointerBits \union KeyboardBits : b < BIT_OFFSET_MAX
  <2>1. \A b \in BitsOf(out.x, 1) : b < BIT_OFFSET_MAX
    <3>1. Inside(out.x, 1)
      BY DEF LayoutsInside, PointerInside
    <3> QED
      BY <1>1, <1>2, <3>1
  <2>2. \A b \in BitsOf(out.y, 1) : b < BIT_OFFSET_MAX
    <3>1. Inside(out.y, 1)
      BY DEF LayoutsInside, PointerInside
    <3> QED
      BY <1>1, <1>2, <3>1
  <2>3. \A b \in BitsOf(out.wheel, 1) : b < BIT_OFFSET_MAX
    <3>1. Inside(out.wheel, 1)
      BY DEF LayoutsInside, PointerInside
    <3> QED
      BY <1>1, <1>2, <3>1
  <2>4. \A b \in BitsOf(out.hwheel, 1) : b < BIT_OFFSET_MAX
    <3>1. Inside(out.hwheel, 1)
      BY DEF LayoutsInside, PointerInside
    <3> QED
      BY <1>1, <1>2, <3>1
  <2>5. \A b \in BitsOf(out.buttons, out.button_count) : b < BIT_OFFSET_MAX
    <3>1. Inside(out.buttons, out.button_count)
      BY DEF LayoutsInside, PointerInside
    <3> QED
      BY <1>1, <1>2, <3>1
  <2>6. \A b \in BitsOf(out_kbd.modifiers, 1) : b < BIT_OFFSET_MAX
    <3>1. Inside(out_kbd.modifiers, 1)
      BY DEF LayoutsInside, KeyboardInside
    <3> QED
      BY <1>1, <1>2, <3>1
  <2>7. \A b \in BitsOf(out_kbd.keys, out_kbd.key_count) : b < BIT_OFFSET_MAX
    <3>1. Inside(out_kbd.keys, out_kbd.key_count)
      BY DEF LayoutsInside, KeyboardInside
    <3> QED
      BY <1>1, <1>2, <3>1
  <2> QED
    BY <1>5, <2>1, <2>2, <2>3, <2>4, <2>5, <2>6, <2>7 DEF KeyboardBits
<1>7. ASSUME NEW b \in PointerBits PROVE b < payload_bits(out)
  <2> DEFINE ends == {FieldEnd(out.x), FieldEnd(out.y), FieldEnd(out.wheel), FieldEnd(out.hwheel),
                      ButtonsEnd(out)}
  <2>1. /\ FieldEnd(out.x) \in Nat /\ FieldEnd(out.y) \in Nat /\ FieldEnd(out.wheel) \in Nat
        /\ FieldEnd(out.hwheel) \in Nat /\ ButtonsEnd(out) \in Nat
    BY <1>1, <1>3, <1>4
  <2>2. \A n \in ends : n <= payload_bits(out)
    BY <2>1, MaxOfFive DEF payload_bits
  <2>3. payload_bits(out) \in Nat
    BY <2>1, MaxOfFive DEF payload_bits
  <2>4. \E n \in ends : b < n
    <3>1. /\ \A c \in BitsOf(out.x, 1) : c < FieldEnd(out.x)
          /\ \A c \in BitsOf(out.y, 1) : c < FieldEnd(out.y)
          /\ \A c \in BitsOf(out.wheel, 1) : c < FieldEnd(out.wheel)
          /\ \A c \in BitsOf(out.hwheel, 1) : c < FieldEnd(out.hwheel)
      BY <1>1, <1>3
    <3> QED
      BY <1>4, <1>5, <3>1
  <2>5. b \in Nat
    BY <1>1, <1>5, BitsEnd
  <2> QED
    BY <2>1, <2>2, <2>3, <2>4, <2>5
<1>8. ASSUME NEW b \in KeyboardBits PROVE b < kbd_payload_bits(out_kbd)
  <2> DEFINE f == FieldEnd(out_kbd.modifiers)
             k == IF out_kbd.key_count = 0 \/ ~Present(out_kbd.keys) THEN 0
                  ELSE out_kbd.keys.bit_offset + out_kbd.key_count * out_kbd.keys.bit_size
  <2>1. f \in Nat /\ \A c \in BitsOf(out_kbd.modifiers, 1) : c < f
    BY <1>1, <1>3
  <2>2. k \in Nat
    BY <1>1, Product DEF Fields
  <2>3. \A c \in BitsOf(out_kbd.keys, out_kbd.key_count) : c < k
    BY <1>1, BitsEnd
  <2>4. kbd_payload_bits(out_kbd) = Max({f, k})
    BY DEF kbd_payload_bits
  <2>5. b < f \/ b < k
    BY <2>1, <2>3 DEF KeyboardBits
  <2>6. b \in Int
    BY <1>1, BitsEnd DEF KeyboardBits
  <2> HIDE DEF f, k
  <2>7. Max({f, k}) = IF f >= k THEN f ELSE k
    BY <2>1, <2>2, MaxPair
  <2> QED
    BY <2>1, <2>2, <2>4, <2>5, <2>6, <2>7
<1> QED
  BY <1>6, <1>7, <1>8 DEF ReadsInside

(* Whatever a map declares, no field of a layout ends past the offsets that  *)
(* a layout can hold, and a report of the length that the decoder asks for   *)
(* has every bit that it reads.                                              *)
THEOREM ReadsCorrect == Spec => []ReadsInside
<1>1. Init => LayoutsInside
  BY EmptyInside DEF Init, LayoutsInside
<1> QED
  BY <1>1, TypeInit, TypeStep, InsideStep, ReadsFollow, PTL DEF Spec
=============================================================================
