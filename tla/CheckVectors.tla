---------------------------- MODULE CheckVectors ----------------------------
(***************************************************************************)
(* check_one of src/main.c: what the test runner asks of a vector.  The    *)
(* bytes are decoded with decode_full into ten operands; the verdict, the  *)
(* length and the text must be those the vector names.  The letters of a   *)
(* text are left out, its length stands for it; the mnemonic is there as   *)
(* the length of its own text, the size of a vector operand in memory,     *)
(* which the decoder here does not know, as that of the size text.  Any    *)
(* other caller of the formatter is there too: NoVector.                   *)
(***************************************************************************)
EXTENDS Formatter

CONSTANTS Vectors,    \* the test vectors
          NoVector    \* a caller that is not check_one
TestVector == [code : Seq(Byte), legacy : BOOLEAN, status : Verdict, insnLen : Nat,
               mnemonicLen : Nat, bits : {16, 32, 128}, textLen : Nat]
ASSUME VectorsAssumption == Vectors \subseteq TestVector /\ NoVector \notin Vectors

VARIABLES vector,
          outcome   \* what check_one returns: "PASS" 0, "FAIL" 1
checkVars == <<formatVars, vector, outcome>>

MaxOperands == 10
DecoderFor(legacy) == IF legacy THEN [mode |-> "LEGACY_32", width |-> 32]
                                ELSE [mode |-> "LONG_64", width |-> 64]

CheckInit ==
  /\ FormatInit
  /\ vector \in Vectors \cup {NoVector}
  /\ vector # NoVector =>
       /\ args = [full |-> TRUE, hasArray |-> TRUE, capacity |-> MaxOperands]
       /\ buf = vector.code /\ decoder = DecoderFor(vector.legacy)
  /\ outcome = "NONE"

Checking   == vector # NoVector /\ outcome = "NONE"
Conclude(o) == outcome' = o /\ UNCHANGED <<formatVars, vector>>

CheckDecode == Checking /\ DecodeFull /\ UNCHANGED <<vector, outcome>>
\* The verdict and the length decide, except that an accepted instruction of
\* the right length is formatted too.
AsExpected == verdict = "OK" /\ vector.status = "OK" /\ insn.length = vector.insnLen
CheckCall ==
  /\ Checking /\ fstage = "decode" /\ Returned /\ ~AsExpected
  /\ Conclude(IF verdict = vector.status /\ verdict # "OK" THEN "PASS" ELSE "FAIL")
CheckFormat ==
  /\ Checking /\ fstage = "decode" /\ Returned /\ AsExpected
  /\ fstage' = "format" /\ size' = CheckOneText
  /\ line' = LineOf(vector.mnemonicLen, vector.bits) /\ rest' = line'
  /\ UNCHANGED <<fullVars, cursor, written, nul, ret, vector, outcome>>
CheckWrite == Checking /\ WritePiece /\ UNCHANGED <<vector, outcome>>
CheckText ==
  /\ Checking /\ Formatted
  /\ Conclude(IF ret = "TRUE" /\ nul = vector.textLen THEN "PASS" ELSE "FAIL")

OtherCaller == vector = NoVector /\ FormatNext /\ UNCHANGED <<vector, outcome>>

CheckNext == OtherCaller \/ CheckDecode \/ CheckCall \/ CheckFormat \/ CheckWrite \/ CheckText
CheckSpec == CheckInit /\ [][CheckNext]_checkVars /\ WF_checkVars(CheckNext)

---------------------------------------------------------------------------
\* The vectors of the repository pass in the model as they do in the code:
\* decoder, resolver, operand builder and formatter together give every one
\* of them the verdict, the length and the length of text it names, and the
\* test comes to its end.
EveryVectorPasses == <>(vector # NoVector => outcome = "PASS")
=============================================================================
