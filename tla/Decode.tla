------------------------------- MODULE Decode -------------------------------
(***************************************************************************)
(* drivers/input/hid_report_decode.c: a report's bits into a pointer or a  *)
(* keyboard report, by a layout that the report map parser produced.       *)
(*                                                                         *)
(* A payload is the sequence of its bits, the least significant bit of the *)
(* first byte first.  Shifting a word by its width or more is undefined in *)
(* C: a field wider than a word may decode to anything, so a decoder here  *)
(* is the set of its possible results, empty for a payload it rejects.     *)
(***************************************************************************)
EXTENDS Integers, Sequences, FiniteSetsExt

CONSTANTS
    BYTE,                   \* bits of a byte (8)
    WORD,                   \* bits of the accumulator (32)
    ZMK_HID_MAX_BUTTONS,
    ZMK_HID_MAX_KEYS

ASSUME WidthsAssumption ==
    /\ BYTE \in Nat \ {0} /\ WORD \in Nat /\ BYTE < WORD
    /\ ZMK_HID_MAX_BUTTONS \in Nat /\ ZMK_HID_MAX_KEYS \in Nat

(* struct zmk_hid_field; one of size 0 is absent. *)
Field(offset, size, signed) ==
    [bit_offset |-> offset, bit_size |-> size, is_signed |-> signed]
NoField == Field(0, 0, FALSE)
Present(f) == f.bit_size # 0

Words == -(2 ^ (WORD - 1)) .. 2 ^ (WORD - 1) - 1
Bytes == 0 .. 2 ^ BYTE - 1

-----------------------------------------------------------------------------
(* Bit n of the payload; what is past its end reads 0. *)
Bit(p, n) == IF n < Len(p) THEN p[n + 1] ELSE 0

(* The first n of the terms t added up, from t[0] on. *)
Total(t, n) ==
    LET sum[k \in 0 .. n] == IF k = 0 THEN 0 ELSE sum[k - 1] + t[k - 1]
    IN  sum[n]

Unsigned(p, f) ==
    Total([i \in 0 .. f.bit_size - 1 |-> Bit(p, f.bit_offset + i) * 2 ^ i], f.bit_size)

(* A word read as a signed one. *)
AsSigned(w) == IF w >= 2 ^ (WORD - 1) THEN w - 2 ^ WORD ELSE w

extract_NoSign(p, f) == {AsSigned(Unsigned(p, f))}  \* faulty: for mutation

extract(p, f) ==
    LET v == Unsigned(p, f)
        negative == f.is_signed /\ f.bit_size < WORD /\ v >= 2 ^ (f.bit_size - 1)
    IN  IF ~Present(f) THEN {0}
        ELSE IF f.bit_size > WORD THEN Words
        ELSE {IF negative THEN v - 2 ^ f.bit_size ELSE AsSigned(v)}

(* The width of one button, and the first bit past the buttons. *)
Stride(l) == IF Present(l.buttons) THEN l.buttons.bit_size ELSE 1
ButtonsEnd(l) == IF l.button_count = 0 THEN 0
                 ELSE l.buttons.bit_offset + l.button_count * Stride(l)
FieldEnd(f) == IF Present(f) THEN f.bit_offset + f.bit_size ELSE 0

payload_bits_NoButtons(l) ==                        \* faulty: for mutation
    Max({FieldEnd(l.x), FieldEnd(l.y), FieldEnd(l.wheel), FieldEnd(l.hwheel)})

payload_bits(l) ==
    Max({FieldEnd(l.x), FieldEnd(l.y), FieldEnd(l.wheel), FieldEnd(l.hwheel), ButtonsEnd(l)})

(* Whole bytes of the payload, and bytes that so many bits take. *)
Length(p) == Len(p) \div BYTE
Needed(bits) == (bits + BYTE - 1) \div BYTE

ButtonIndices(l) == 0 .. Min({l.button_count, ZMK_HID_MAX_BUTTONS}) - 1

Pressed(l, p, i) ==
    \E b \in 0 .. Stride(l) - 1 : Bit(p, l.buttons.bit_offset + i * Stride(l) + b) = 1

Buttons(l, p) ==
    IF Stride(l) > WORD THEN SUBSET ButtonIndices(l)
    ELSE {{i \in ButtonIndices(l) : Pressed(l, p, i)}}

zmk_hid_decode_report(l, p) ==
    IF ~l.valid \/ Length(p) < Needed(payload_bits(l)) THEN {}
    ELSE [dx : extract(p, l.x), dy : extract(p, l.y), wheel : extract(p, l.wheel),
          hwheel : extract(p, l.hwheel), buttons : Buttons(l, p)]

-----------------------------------------------------------------------------
kbd_payload_bits(l) ==
    Max({FieldEnd(l.modifiers),
         IF l.key_count = 0 \/ ~Present(l.keys) THEN 0
         ELSE l.keys.bit_offset + l.key_count * l.keys.bit_size})

(* The codes of the key array, in order. *)
Codes(l, p) ==
    [n \in 1 .. l.key_count |->
        Unsigned(p, [l.keys EXCEPT !.bit_offset = @ + (n - 1) * l.keys.bit_size])]

IsKey_RollOver(code) == code # 0                    \* faulty: for mutation

IsKey(code) == code \notin {0, 1}                   \* no key, and ErrorRollOver

(* The keys that the loop over the codes keeps, until the report is full. *)
Held(codes) ==
    LET keys[n \in 0 .. Len(codes)] ==
          IF n = 0 THEN <<>>
          ELSE LET kept == keys[n - 1] IN
               IF IsKey(codes[n]) /\ Len(kept) < ZMK_HID_MAX_KEYS
               THEN Append(kept, codes[n] % 2 ^ BYTE) ELSE kept
    IN  keys[Len(codes)]

Keys(l, p) ==
    IF l.keys.bit_size > WORD
    THEN UNION {[1 .. n -> Bytes] : n \in 0 .. Min({l.key_count, ZMK_HID_MAX_KEYS})}
    ELSE {Held(Codes(l, p))}

zmk_hid_decode_keyboard_report(l, p) ==
    IF ~l.valid \/ Length(p) < Needed(kbd_payload_bits(l)) THEN {}
    ELSE [modifiers : {Unsigned(p, l.modifiers)}, keys : Keys(l, p)]
=============================================================================
