------------------------------ MODULE Formatter ------------------------------
(***************************************************************************)
(* x86dec_format_insn (src/format/formatter.c) on what decode_full gave:   *)
(* which pieces make up the text of an instruction, and the call of        *)
(* check_one and format_demo (src/main.c), which format an instruction     *)
(* only when decode_full returned OK.  The pieces go through the buffer as *)
(* module Emitter says.  The letters of a piece are left out, its length   *)
(* is not; the decoder here does not know which of the mnemonics it found, *)
(* so that its text has any of the lengths there are.                      *)
(***************************************************************************)
EXTENDS OperandProperties

CONSTANTS TextSizes,        \* the sizes of a caller's text buffer
          MnemonicLengths   \* how long the mnemonic's text may be

\* "fld" to "vaeskeygenassist".
MnemonicLength == 2..16
ASSUME FormatAssumption == TextSizes \subseteq Nat /\ MnemonicLengths \subseteq MnemonicLength

VARIABLES size, rest, cursor, written, nul, ret,
          line,      \* the pieces of the whole text
          fstage     \* "decode", "format"
Emit == INSTANCE Emitter WITH Sizes <- TextSizes, Lines <- {}
formatVars == <<fullVars, size, rest, cursor, written, nul, ret, line, fstage>>

---------------------------------------------------------------------------
\* The pieces

P(kind, len) == [kind |-> kind, len |-> len]

\* How long the text of a register is: "r8", "r10d", "xmm9".
RegisterTextLen(reg) ==
  LET long(first, n) == OneIf(reg - first >= n)
  IN  CASE reg \in Gpr64 -> IF reg \in {RAX + 8, RAX + 9} THEN 2 ELSE 3
        [] reg \in Gpr32 -> 3 + long(EAX, 10)
        [] reg \in Gpr16 -> IF reg < AX + 8 THEN 2 ELSE 3 + long(AX, 10)
        [] reg \in Gpr8  -> IF reg < AL + 4 THEN 2 ELSE 3 + long(AL, 10)
        [] reg \in High8 \cup Segment -> 2
        [] reg \in Control -> 3 + long(CR0, 10)
        [] reg \in Xmm -> 4 + long(XMM0, 10)
        [] reg \in Ymm -> 4 + long(YMM0, 10)
        [] reg = REG_NONE -> 4
        [] OTHER -> 3

\* 0x and the digits of a word, leading zeros left out.
HexDigits(w) ==
  LET top == Max({b \in 1..8 : w[b] # 0} \cup {1})
  IN  2 * top - OneIf(w[top] < 16)
Hex(w) == P("hex", 2 + HexDigits(w))

\* No text for the other sizes.
SizeText(bits) ==
  CASE bits \in {8, 16} -> <<P("size", 9)>>
    [] bits \in {32, 48, 64, 80} -> <<P("size", 10)>>
    [] OTHER -> <<>>
Only(present, pieces) == IF present THEN pieces ELSE <<>>

\* Between the brackets: base, index with a scale of more than one, and the
\* displacement with its sign, which stands alone when there is no register.
NegativeWord(w) == w[8] >= 128
Magnitude(w) == IF NegativeWord(w) THEN Negated(w) ELSE w
\* Mutant: no sign behind an index that is alone.
SignAfterBase(m) == m.base # REG_NONE
SignNeeded(m) == m.base # REG_NONE \/ m.index # REG_NONE \/ NegativeWord(m.disp)
DispShown(m) == m.hasDisp \/ (m.base = REG_NONE /\ m.index = REG_NONE)
Address(m) ==
  Only(m.base # REG_NONE, <<P("register", RegisterTextLen(m.base))>>)
    \o Only(m.index # REG_NONE,
            Only(m.base # REG_NONE, <<P("sign", 1)>>) \o <<P("register", RegisterTextLen(m.index))>>
              \o Only(m.scale > 1, <<P("scale", 1), P("scale", 1)>>))
    \o Only(DispShown(m), Only(SignNeeded(m), <<P("sign", 1)>>) \o <<Hex(Magnitude(m.disp))>>)

\* RIP-relative addresses hide the segment they are in by default.
SegmentShown(m) == m.segment # REG_NONE /\ ~(m.base = RIP /\ m.segment = DS)
\* A vector operand that is Unsized has the text of any size.
OperandText(op, vectorBits) ==
  CASE op.type = "REG" -> <<P("register", RegisterTextLen(op.reg))>>
    [] op.type = "IMM" -> <<Hex(op.imm)>>
    [] op.type = "MEM" ->
         SizeText(IF op.size = Unsized THEN vectorBits ELSE op.size)
           \o Only(SegmentShown(op.mem), <<P("segment", RegisterTextLen(op.mem.segment)), P("segment", 1)>>)
           \o <<P("open", 1)>> \o Address(op.mem) \o <<P("close", 1)>>
    [] OTHER -> <<P("text", 1)>>

FlagText ==
  Only(insn.raw.lock, <<P("flag", 5)>>) \o Only(insn.raw.rep /\ insn.mn # "PAUSE", <<P("flag", 4)>>)
    \o Only(insn.raw.repne, <<P("flag", 6)>>)
LineOf(mnemonicLen, vectorBits) ==
  FlagText \o <<P("mnemonic", mnemonicLen)>>
    \o Seqs!FlattenSeq([s \in 1..insn.operandCount |->
                          <<P("separator", IF s = 1 THEN 1 ELSE 2)>> \o OperandText(slots[s], vectorBits)])

---------------------------------------------------------------------------
\* The call

FormatInit ==
  /\ FullInit
  /\ size = 0 /\ rest = <<>> /\ cursor = 0 /\ written = {} /\ nul = -1 /\ ret = "NONE"
  /\ line = <<>> /\ fstage = "decode"

DecodeFull ==
  /\ fstage = "decode" /\ FullNext
  /\ UNCHANGED <<size, rest, cursor, written, nul, ret, line, fstage>>
StartFormat ==
  /\ fstage = "decode" /\ Delivered
  /\ fstage' = "format"
  /\ size' \in TextSizes
  /\ \E n \in MnemonicLengths, bits \in {16, 32, 128} : line' = LineOf(n, bits)
  /\ rest' = line'
  /\ UNCHANGED <<fullVars, cursor, written, nul, ret>>
WritePiece ==
  /\ fstage = "format" /\ Emit!EmitNext
  /\ UNCHANGED <<fullVars, line, fstage>>

FormatNext == DecodeFull \/ StartFormat \/ WritePiece
FormatSpec == FormatInit /\ [][FormatNext]_formatVars /\ WF_formatVars(FormatNext)

---------------------------------------------------------------------------
\* How long the first pieces of a text are together, and the whole.
LengthsOf(l) ==
  LET upTo[n \in 0..Len(l)] == IF n = 0 THEN 0 ELSE upTo[n - 1] + l[n].len IN upTo
TextLength == LengthsOf(line)[Len(line)]
Formatted  == fstage = "format" /\ ret # "NONE"

\* x86dec_format_insn returns true exactly when the text and its terminator
\* fit the buffer, although no step knows the length of the whole: a number's
\* request for three bytes never refuses one that fits.
TrueIffItFits ==
  Formatted => /\ ret = "TRUE" <=> TextLength < size
               /\ ret = "TRUE" => nul = TextLength

\* check_one and format_demo give 160 bytes and take a false for a failed
\* test or a decode error: the text of an accepted instruction always fits.
CheckOneText == 160
CheckOneNeverCut == Formatted /\ size = CheckOneText => ret = "TRUE"

\* What stands in brackets can be read back: terms with a sign between any
\* two of them, at least one term, a scale only behind a register.  The
\* brackets of an operand close before the next begins.
Term == {"register", "hex"}
Starts(kind) == CASE kind = "open" -> Term \cup {"sign"}
                  [] kind = "register" -> {"scale", "sign", "close"}
                  [] kind = "scale" -> {"scale", "sign", "close"}
                  [] kind = "sign" -> Term
                  [] OTHER -> {"close"}
AddressReadable ==
  \A open \in DOMAIN line : line[open].kind = "open" =>
    LET close == Min({c \in DOMAIN line : c > open /\ line[c].kind = "close"} \cup {Len(line) + 1})
    IN  close <= Len(line) /\ \A p \in open..close - 1 : line[p + 1].kind \in Starts(line[p].kind)

\* Formatting comes to an end.
FormatReturns == fstage = "format" ~> Formatted
=============================================================================
