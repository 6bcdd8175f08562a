------------------------- MODULE DecoderProperties -------------------------
(***************************************************************************)
(* What must hold of a call of x86dec_decode_insn.                         *)
(***************************************************************************)
EXTENDS Decoder, FiniteSetsExt

Accepted == pc = "done" /\ status = "OK"
Refused  == pc = "done" /\ status \in {"INVALID", "UNSUPPORTED"}

PcSet == {"call", "prefix", "rex", "opcode", "escape", "opcode3", "dispatch", "synth", "modrm", "sib",
          "disp", "tail", "resolve", "promote", "operands", "done"}

\* Every variable keeps to its type; in particular the prefix bytes never
\* overflow the 8-byte array raw->bytes (prefix.c) and only operand sizes
\* the tables know are in force.
TypeOK ==
  /\ decoder \in Decoder /\ InitAccepts(decoder) /\ buf \in Seq(Byte)
  /\ pc \in PcSet /\ pos \in Nat
  /\ raw \in Raw /\ eosz \in Width /\ easz \in Width
  /\ map \in 0..3 /\ opcode \in Byte /\ tail \in Byte
  /\ form \in {"LEGACY", "VEX", "VZEROALL"} /\ vex \in VexFields
  /\ entry \in Entry /\ k \in Nat \ {0}
  /\ status \in Verdict \cup {"NONE"} /\ insn \in Insn /\ context \in Context

---------------------------------------------------------------------------
\* The cursor and the length

\* The bytes of the opcode, escapes and VEX prefix included; a 3DNow! opcode
\* stands apart, behind the ModRM tail.
OpcodeBytes ==
  CASE form = "LEGACY" -> CASE map = 0 -> 1 [] map = 1 -> 2 [] OTHER -> 3
    [] form = "VEX" -> IF buf[raw.opcodeOffset + 1] = x(C,4) THEN 4 ELSE 3
    [] OTHER -> 4

OneIf(present) == IF present THEN 1 ELSE 0

\* The length the decoder reports for an accepted instruction is the sum of
\* the fields it reports: no byte is counted twice or skipped, whatever
\* mixture of prefixes, escapes, VEX, SIB, displacement, offset and immediates
\* the instruction has (decoder.c, prefix.c, mem.c, vex.c each move the cursor).
ByteAccounting ==
  Accepted => insn.length = raw.count + OneIf(raw.hasRex) + OpcodeBytes + OneIf(raw.hasModrm)
                            + OneIf(raw.hasSib) + raw.dispSize + OneIf(TailFollows)
                            + (IF raw.hasMoffs THEN easz \div 8 ELSE 0) + raw.immSize

\* The offsets recorded in raw point at the bytes they name, and the ModRM
\* byte lies behind the opcode.
OffsetsPointRight ==
  Accepted =>
    /\ raw.opcodeOffset = raw.count + OneIf(raw.hasRex)
    /\ form = "LEGACY" /\ map = 0 => buf[raw.opcodeOffset + 1] = insn.opcode
    /\ raw.hasModrm => /\ raw.modrmOffset = raw.opcodeOffset + OpcodeBytes
                       /\ buf[raw.modrmOffset + 1] = raw.modrm
                       /\ raw.hasSib => buf[raw.modrmOffset + 2] = raw.sib

\* However long the buffer, a call looks at no more than 20 bytes of it,
\* although it only rejects an instruction of more than 15 at the end.
MaxRead == 20
ReadBound == pos <= MaxRead

---------------------------------------------------------------------------
\* The entry and the operand builder

\* How many immediate bytes x86dec_decode_operands reads back for a shape
\* (take_imm, operands.c), from the sizes in the context.
OperandReads(shape, osize) ==
  CASE shape \in {"IMM8", "REL8"} -> 1
    [] shape = "IMM16" -> 2
    [] shape \in {"IMM_V", "IMM_VS", "REL_V"} -> IF osize = 16 THEN 2 ELSE 4
    [] shape = "IMM_V64" -> osize \div 8
    [] OTHER -> 0
\* An entry has room for four operands.
Reads(shapes, osize) ==
  LET at(i) == IF i <= Len(shapes) THEN OperandReads(shapes[i], osize) ELSE 0
  IN  at(1) + at(2) + at(3) + at(4)

\* The immediate bytes decode_insn collected are the ones decode_operands will
\* take apart, they fit the 64 bits of raw.imm, and a memory offset was read
\* exactly when an operand is one.
ImmediatesReconcile ==
  Accepted =>
    /\ Reads(context.entry.shapes, context.eosz) = context.raw.immSize
    /\ context.raw.immSize <= 8
    /\ context.raw.hasMoffs <=> \E i \in DOMAIN context.entry.shapes : context.entry.shapes[i] = "MOFFS"

\* The context holds a shape for every operand the instruction claims: only
\* VEX entries may have a fourth one.
ContextComplete == Accepted => Len(context.entry.shapes) = insn.operandCount

\* An operand of an accepted instruction has the bytes it is built from: a
\* ModRM byte, in memory form where only memory is allowed; VEX fields for a
\* vvvv register; an existing segment register.
OperandsBacked ==
  Accepted =>
    \A i \in DOMAIN context.entry.shapes :
      LET shape == context.entry.shapes[i]
      IN  /\ shape # "NONE"
          /\ shape \in ModrmShapes \ {"ST_REG"} => raw.hasModrm
          /\ shape = "ST_REG" => raw.hasModrm /\ ModOf(raw.modrm) = 3
          /\ shape \in MemShapes => ModOf(raw.modrm) # 3
          /\ shape = "SEG_REG" => RegOf(raw.modrm) <= 5
          /\ shape \in VvvvShapes \cup YmmRegShapes \cup {"YMM_REG", "YMM_OR_MEM"} => context.isVex

\* A byte that is a prefix is never accepted as a one-byte opcode, even when
\* the eight-prefix limit left it to the opcode step.
PrefixNeverOpcode ==
  Accepted /\ form = "LEGACY" /\ map = 0 => insn.opcode \notin Prefixes \cup {x(0,F)}

\* What uses the stack in 64-bit mode, by opcode, with the near jumps, which
\* are promoted alike: PUSH and POP, CALL, JMP and RET, ENTER and LEAVE; and
\* the two that save and restore the flags.
StackOpcode(op, modrm) ==
  \/ op \in Line(5) \cup Cells(6, {8, A}) \cup Cells(C, {2, 3, 8, 9, A, B}) \cup Cells(E, {8, 9, B}) \cup {x(8,F)}
  \/ op = x(F,F) /\ RegOf(modrm) \in {2, 4, 6}
FlagsOpcode(op) == op \in {x(9,C), x(9,D)}

\* The width of a stack operation of 64-bit mode: REX.W makes it 64 bits, a 66
\* prefix 16; without either decoder.c:444 promotes it from 32 to 64, whatever
\* row or group the opcode was found in.  PUSHFQ and POPFQ are the exception:
\* table_groups.c:160 has renamed them by then, the promotion knows PUSHF and
\* POPF only, and they keep 32 bits.  No immediate has more than four bytes.
StackWidth ==
  Accepted /\ Is64 /\ form = "LEGACY" /\ map = 0 =>
    LET prefixed == IF raw.hasRex /\ BitSet(raw.rex, 8) THEN 64 ELSE IF raw.osz THEN 16 ELSE 32
    IN  /\ StackOpcode(insn.opcode, raw.modrm) =>
             /\ insn.operandWidth = IF prefixed = 32 THEN 64 ELSE prefixed
             /\ raw.immSize <= 4
        /\ FlagsOpcode(insn.opcode) => insn.operandWidth = prefixed /\ raw.immSize = 0

\* Outside 64-bit mode nothing of 64-bit mode is reported: no REX, no VEX, no
\* 64-bit address, and a 64-bit operand only for MOVQ.
LegacyStays32 ==
  Accepted /\ ~Is64 =>
    /\ ~raw.hasRex /\ ~context.isVex /\ insn.addressWidth # 64
    /\ insn.operandWidth = 64 => insn.mn = "MOVQ"
    /\ insn.opcode \in Line(4) /\ map = 0 => insn.length = raw.count + 1

\* No accepted VEX instruction carries a field value its entry has no use
\* for: vvvv only with a vvvv operand, 256 bits never with a general
\* register, and no LOCK or REX.  The entries whose mnemonic waits for the
\* ModRM byte are held to the same.
VexFieldsUsed ==
  Accepted /\ context.isVex =>
    /\ context.vex.vvvv # 0 => HasShape(context.entry, VvvvShapes)
    /\ HasShape(context.entry, GprShapes) => context.vex.l = 0
    /\ ~raw.lock /\ ~raw.hasRex
    /\ insn.map \in 1..3 /\ insn.mn # "NONE"

---------------------------------------------------------------------------
\* What the documentation says

\* README.md:32: "C4/C5 go to the VEX front-end (R/X/B/W/vvvv/L/pp)".  The R
\* bit of both forms, inverted in bit 7 of the byte behind C4 or C5, reaches
\* the context the operands are built from.
VexRTransmitted ==
  Accepted /\ context.isVex =>
    context.vex.r = NotBit(buf[raw.opcodeOffset + 2], 128)

---------------------------------------------------------------------------
\* The contract

StageOf ==
  CASE pc = "call" -> 0 [] pc = "prefix" -> 1 [] pc = "rex" -> 2
    [] pc \in {"opcode", "escape", "opcode3", "dispatch", "synth"} -> 3
    [] pc \in {"modrm", "sib", "disp"} -> 4
    [] pc \in {"tail", "resolve"} -> 5
    [] pc \in {"promote", "operands"} -> 6
    [] OTHER -> 7

Contract == INSTANCE DecodeContract
              WITH stage <- StageOf, taken <- pos, verdict <- status, length <- insn.length

\* The decoder keeps the caller's contract: fields in order, no read past the
\* buffer, one verdict, and the length that goes with it.
KeepsContract == Contract!Spec

\* A call that ran out of bytes tells nothing of the instruction, and its
\* length tells where it ran out: within a VEX prefix and its opcode, where the
\* error is filled (decoder.c:173), it is the bytes given; everywhere else,
\* behind that prefix too, x86dec_take fails without a trace and it is 0.
\* The contract leaves the caller both.
VexBegun(offset) ==
  Is64 /\ offset < Len(buf) /\ buf[offset + 1] \in {x(C,4), x(C,5)}
StarvedTellsLength ==
  pc = "done" /\ status = "NEED_MORE" =>
    /\ insn.mn = "NONE" /\ insn.operandCount = 0 /\ insn.raw = ZeroRaw
    /\ insn.length = IF VexBegun(raw.opcodeOffset) /\ ~VexComplete(buf, raw.opcodeOffset)
                     THEN Contract!Clipped(Len(buf)) ELSE 0
=============================================================================
