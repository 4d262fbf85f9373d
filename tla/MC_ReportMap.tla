---------------------------- MODULE MC_ReportMap ----------------------------
(* The instance of ReportMap for TLC: bytes of three bits, words of four.    *)
EXTENDS ReportMap

It(tag, v) == [tag |-> tag, size |-> 1, v |-> v]
It0(tag) == [tag |-> tag, size |-> 0, v |-> 0]
Usage2(id) == [tag |-> "Usage", size |-> 2, v |-> id]
Usage4(page, id) == [tag |-> "Usage", size |-> 4, v |-> page * 64 + id]

X == Usage4(PAGE_GENERIC_DESKTOP, USAGE_GD_X)
Y == Usage4(PAGE_GENERIC_DESKTOP, USAGE_GD_Y)
Page(p) == [tag |-> "UsagePage", size |-> 2, v |-> p]
Data == It("Input", 2)
Array == It("Input", 0)
Padding == It("Input", 3)
End == <<It0("EndCollection")>>
App(usage) == <<Usage4(PAGE_GENERIC_DESKTOP, usage), It("Collection", 1)>>
Mouse == App(USAGE_GD_MOUSE)
Id(id) == <<It("ReportId", id)>>
SizeCount(size, count) == <<It("ReportSize", size), It("ReportCount", count)>>
Field1(usage, size) == SizeCount(size, 1) \o <<usage, Data>>
Range2(from, to) == <<[tag |-> "UsageMin", size |-> 2, v |-> from],
                      [tag |-> "UsageMax", size |-> 2, v |-> to]>>

(* Buttons, padding, nested collections, one item with both axes. *)
Plain == {Mouse, End, <<It("Collection", 0)>>,
          <<Page(PAGE_BUTTON)>> \o SizeCount(1, 3) \o <<Data>>,
          SizeCount(2, 1) \o <<Padding>>,
          <<Page(PAGE_GENERIC_DESKTOP)>> \o SizeCount(2, 2)
              \o <<Usage2(USAGE_GD_X), Usage2(USAGE_GD_Y), Data>>,
          Field1(X, 1), Field1(Y, 1)}

(* Signed and unsigned fields of widths up to and beyond the word, a narrowed one. *)
Wide == {Mouse, End, <<It("LogicalMin", 4)>>, <<It("LogicalMin", 3)>>}
        \union {Field1(u, n) : u \in {X, Y}, n \in {2, 4, 5}}
        \union {<<[tag |-> "ReportSize", size |-> 2, v |-> 11], X, Data>>}

(* Reports with IDs, taken up again. *)
WithIds == {Mouse, End, Id(1), Id(2), Field1(X, 3), Field1(Y, 3)}

(* Push and Pop, of an ID and of a size. *)
Saved == {Mouse, End, Id(1), <<It0("Push")>>, <<It0("Pop")>>, Field1(X, 3), <<Y, Data>>}

(* Wheels, usage ranges, more usages than are kept, usages that repeat. *)
Wheels == {Mouse, End, <<Page(PAGE_GENERIC_DESKTOP)>>,
           SizeCount(1, 2) \o Range2(USAGE_GD_X, USAGE_GD_Y) \o <<Data>>,
           SizeCount(1, 3) \o <<Usage2(USAGE_GD_X), Usage2(USAGE_GD_WHEEL), Data>>,
           SizeCount(1, 3) \o <<X, Y, Usage2(USAGE_GD_WHEEL), Data>>,
           Field1(Usage4(PAGE_CONSUMER, USAGE_CONSUMER_AC_PAN), 2),
           Field1(Usage2(USAGE_GD_WHEEL), 2)}

(* A keyboard, and a mouse beside it. *)
Typing == {App(USAGE_GD_KEYBOARD), Mouse, End, <<It("Output", 2)>>,
           <<Page(PAGE_KEYBOARD)>>, SizeCount(2, 2) \o <<X, Y, Data>>,
           SizeCount(1, 2) \o Range2(USAGE_KBD_MOD_MIN, USAGE_KBD_MOD_MIN + 1) \o <<Data>>,
           SizeCount(2, 2) \o Range2(0, 3) \o <<Array>>,
           SizeCount(2, 3) \o <<Array>>}

MCPhrases == [plain |-> Plain, wide |-> Wide, ids |-> WithIds, saved |-> Saved,
              wheels |-> Wheels, typing |-> Typing]
MCDialects == DOMAIN MCPhrases
=============================================================================
