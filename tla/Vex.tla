-------------------------------- MODULE Vex --------------------------------
(***************************************************************************)
(* The VEX front-end (src/decode/vex.c): reads a C4 or C5 prefix and the   *)
(* opcode behind it, and looks the opcode up.  Bits R, X, B and vvvv are   *)
(* stored inverted.                                                        *)
(***************************************************************************)
EXTENDS VexTables

\* The fields of a VEX prefix as X86decEntry keeps them.
VexFields == [map : 0..31, op : Byte, pp : 0..3, l : 0..1, w : 0..1, vvvv : 0..15,
              r : 0..1, x : 0..1, b : 0..1]
NoVexFields == [map |-> 0, op |-> 0, pp |-> 0, l |-> 0, w |-> 0, vvvv |-> 0, r |-> 0, x |-> 0, b |-> 0]

Bit(byte, weight)    == (byte \div weight) % 2
NotBit(byte, weight) == 1 - Bit(byte, weight)
Vvvv(byte)           == 15 - ((byte \div 8) % 16)

\* C4 b2 b3 opcode.
LongForm(b2, b3, op) ==
  [map |-> b2 % 32, op |-> op, pp |-> b3 % 4, l |-> Bit(b3, 4), w |-> Bit(b3, 128), vvvv |-> Vvvv(b3),
   r |-> NotBit(b2, 128), x |-> NotBit(b2, 64), b |-> NotBit(b2, 32)]

\* C5 b2 opcode.  The source takes R from the C5 byte itself, not from b2.
ShortForm(b2, op) ==
  [map |-> 1, op |-> op, pp |-> b2 % 4, l |-> Bit(b2, 4), w |-> 0, vvvv |-> Vvvv(b2),
   r |-> NotBit(x(C,5), 128), x |-> 0, b |-> 0]

GprShapes ==
  {"GPR_REG", "GPR_RM", "GPR_OR_MEM", "VEX_VVVV_GPR", "R32_REG", "R32_OR_MEM", "R32_OR_MEM16"}
HasShape(v, set) == \E i \in DOMAIN v.shapes : v.shapes[i] \in set

\* vex_check: which field values an entry allows.  Mutant: forgets vvvv.
VexCheckLanes(v, f) == HasShape(v, GprShapes) \/ v.scalar => f.l = 0
VexCheck(v, f) ==
  IF v.shapes = <<>> THEN f.vvvv = 0 /\ f.l = 0 /\ f.r = 0 /\ f.x = 0 /\ f.b = 0
  ELSE /\ HasShape(v, VvvvShapes) \/ f.vvvv = 0
       /\ HasShape(v, GprShapes) \/ v.scalar => f.l = 0
       /\ v.mn = "V256" => f.l = 1

\* Opcodes whose ModRM.reg picks the mnemonic: BLSR, BLSMSK and BLSI (map 2,
\* F3) and the immediate shifts (map 1, 71-73).  Only the C4 form defers to
\* the ModRM byte; what it returns has no mnemonic and no shapes yet.
DeferredBls(f)   == f.map = 2 /\ f.op = x(F,3) /\ f.pp = 0
DeferredShift(f) == f.map = 1 /\ f.op \in Cells(7, 1..3) /\ f.pp = 1
Deferred         == Found("NONE", <<"NONE", "NONE">>)

\* The lookup.  The early return for VZEROUPPER gives what row 77 gives.
VexEntry(f, long) ==
  IF f.map \notin 1..3 THEN Refuse("INVALID")
  ELSE LET v == VexVariant(f.map, f.op, f.pp)
       IN  CASE v.mn # "NONE" -> IF VexCheck(v, f) THEN Found(v.mn, v.shapes) ELSE Refuse("INVALID")
             [] v.mn = "NONE" /\ long /\ DeferredBls(f) -> IF f.l = 0 THEN Deferred ELSE Refuse("INVALID")
             [] v.mn = "NONE" /\ long /\ DeferredShift(f) -> IF f.vvvv = 0 THEN Deferred ELSE Refuse("INVALID")
             [] OTHER -> Refuse("UNSUPPORTED")

\* x86dec_decode_vex with the cursor on byte pos + 1 of buf, which is C4 or
\* C5: how many bytes it takes, its verdict and the fields it read.
VexBytes(buf, pos) == IF buf[pos + 1] = x(C,4) THEN 4 ELSE 3
VexComplete(buf, pos) == pos + VexBytes(buf, pos) <= Len(buf)
DecodeVex(buf, pos) ==
  LET long == buf[pos + 1] = x(C,4)
      f == IF long THEN LongForm(buf[pos + 2], buf[pos + 3], buf[pos + 4])
                   ELSE ShortForm(buf[pos + 2], buf[pos + 3])
      e == VexEntry(f, long)
  IN  IF VexComplete(buf, pos)
      THEN [status |-> e.status, mn |-> e.mn, shapes |-> e.shapes, vex |-> f, pos |-> pos + VexBytes(buf, pos)]
      ELSE [status |-> "NEED_MORE", mn |-> "NONE", shapes |-> <<>>, vex |-> NoVexFields, pos |-> Len(buf)]

\* ModRM.reg of a deferred entry (decode_insn, after the ModRM byte is read).
ResolveDeferred(f, reg) ==
  IF DeferredBls(f)
  THEN IF reg \in 1..3 THEN Found("INSN", <<"VEX_VVVV_GPR", "GPR_OR_MEM">>) ELSE Refuse("INVALID")
  ELSE IF \/ f.op # x(7,3) /\ reg \in {2, 4, 6}
          \/ f.op = x(7,3) /\ (reg \in {2, 6} \/ (reg \in {3, 7} /\ f.l = 0))
       THEN Found("INSN", <<"XMM_OR_MEM", "IMM8">>) ELSE Refuse("INVALID")

\* The mod checks decode_insn makes of a VEX entry with operands.
VexModAllows(mn, shapes, mod) ==
  /\ \A i \in DOMAIN shapes : /\ shapes[i] \in MemShapes => mod # 3
                              /\ shapes[i] \in RegShapes \cup YmmRegShapes => mod = 3
  /\ mn = "VMOVNT" => mod # 3

\* A VEX entry once its ModRM byte is known.
ResolveVex(e, f, modrm) ==
  LET r == IF e.mn = "NONE" THEN ResolveDeferred(f, RegOf(modrm)) ELSE Found(e.mn, e.shapes)
  IN  IF r.status = "OK" /\ ~VexModAllows(r.mn, r.shapes, ModOf(modrm)) THEN Refuse("INVALID") ELSE r
=============================================================================
