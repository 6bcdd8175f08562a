---------------------------- MODULE EmitterProofs ----------------------------
(***************************************************************************)
(* Theorems about writing pieces into a buffer, for buffers of every size  *)
(* and every sequence of pieces.                                           *)
(***************************************************************************)
EXTENDS Emitter, TLAPS

\* The inductive invariant.  While the call runs nothing but the characters
\* accounted for is written; a text that was cut stops short of the last byte.
EmitInv ==
  /\ EmitTypeOK
  /\ NoGaps
  /\ Running => nul = -1 /\ (size > 0 => cursor <= size - 1) /\ (size = 0 => cursor = 0)
  /\ InsideBuffer
  /\ TrueIsString

\* A piece has a length.
LEMMA HeadIsPiece ==
  ASSUME rest \in Seq(Piece), rest # <<>>
  PROVE  Head(rest).len \in Nat /\ Tail(rest) \in Seq(Piece)
<1>1. Head(rest) \in Piece /\ Tail(rest) \in Seq(Piece)
  OBVIOUS
<1> QED BY <1>1 DEF Piece

\* Characters that leave room for the terminator leave its place alone.
LEMMA ShortOfLast ==
  ASSUME NEW c \in Nat, NEW s \in Nat, c <= s - 1
  PROVE  0..c - 1 \subseteq 0..s - 1 /\ s - 1 \notin 0..c - 1
OBVIOUS

LEMMA EmitInitInv == EmitInit => EmitInv
<1> SUFFICES ASSUME EmitInit PROVE EmitInv
  OBVIOUS
<1>1. size \in Nat /\ rest \in Seq(Piece)
  BY SizesAssumption, LinesAssumption DEF EmitInit
<1>2. written = {} /\ cursor = 0 /\ nul = -1 /\ ret = "NONE"
  BY DEF EmitInit
<1>3. 0..cursor - 1 = {} 
  BY <1>2
<1> QED
  BY <1>1, <1>2, <1>3 DEF EmitInv, EmitTypeOK, NoGaps, Running, InsideBuffer, TrueIsString

LEMMA EmitStep == EmitInv /\ [EmitNext]_emitVars => EmitInv'
<1> SUFFICES ASSUME EmitInv, [EmitNext]_emitVars PROVE EmitInv'
  OBVIOUS
<1>t. EmitTypeOK /\ NoGaps /\ InsideBuffer /\ TrueIsString
  BY DEF EmitInv
<1>u. Running => nul = -1 /\ (size > 0 => cursor <= size - 1) /\ (size = 0 => cursor = 0)
  BY DEF EmitInv
<1>1. CASE RejectSize
  <2>1. written' = written /\ nul' = nul /\ ret' = "FALSE" /\ size' = size /\ rest' = rest /\ cursor' = cursor
    BY <1>1 DEF RejectSize
  <2> QED BY <2>1, <1>t, <1>u DEF EmitInv, EmitTypeOK, NoGaps, Running, InsideBuffer, TrueIsString
<1>2. CASE EmitPiece
  <2> DEFINE n == Head(rest).len
  <2>1. n \in Nat /\ Tail(rest) \in Seq(Piece)
    BY <1>2, <1>t, <1>u, HeadIsPiece DEF EmitPiece, EmitTypeOK
  <2>2. /\ Running /\ size > 0 /\ cursor + n <= size - 1
        /\ written' = written \cup cursor..cursor + n - 1 /\ cursor' = cursor + n
        /\ rest' = Tail(rest) /\ size' = size /\ nul' = nul /\ ret' = ret
    BY <1>2, <1>t, <1>u, <2>1 DEF EmitPiece, Fits, Room, Limit, Places, EmitTypeOK
  <2>3. written = 0..cursor - 1
    BY <2>2, <1>t, <1>u DEF NoGaps, EmitTypeOK
  <2>4. written' = 0..cursor' - 1
    BY <2>1, <2>2, <2>3, <1>t, <1>u DEF EmitTypeOK
  <2>5. nul' = -1 /\ ret' = "NONE" /\ size' > 0
    BY <2>2, <1>u DEF Running
  <2>c. cursor' \in Nat
    BY <2>1, <2>2, <1>t DEF EmitTypeOK
  <2>s. size' \in Nat
    BY <2>2, <1>t DEF EmitTypeOK
  <2>l. cursor' <= size' - 1
    BY <2>2
  <2>6. EmitTypeOK'
    BY <2>1, <2>2, <2>4, <2>5, <2>c, <2>s DEF EmitTypeOK
  <2>7. NoGaps'
    BY <2>4, <2>5 DEF NoGaps
  <2>8. InsideBuffer'
    <3>1. 0..cursor' - 1 \subseteq 0..size' - 1 /\ size' - 1 \notin 0..cursor' - 1
      BY <2>c, <2>s, <2>l, ShortOfLast
    <3> QED BY <2>4, <3>1 DEF InsideBuffer
  <2>9. TrueIsString'
    BY <2>5 DEF TrueIsString
  <2>10. nul' = -1 /\ (size' > 0 => cursor' <= size' - 1) /\ (size' = 0 => cursor' = 0)
    BY <2>5, <2>l, <2>s
  <2> QED BY <2>6, <2>7, <2>8, <2>9, <2>10 DEF EmitInv
<1>3. CASE EmitFails
  <2>1. /\ Running /\ size > 0 /\ ret' = "FALSE"
        /\ size' = size /\ rest' = rest /\ cursor' = cursor /\ nul' = nul
        /\ written' = written \cup Cut(Head(rest))
    BY <1>3 DEF EmitFails
  <2>2. written = 0..cursor - 1
    BY <2>1, <1>t, <1>u DEF NoGaps, EmitTypeOK
  <2>3. Cut(Head(rest)) \subseteq cursor..size - 2
    BY <2>1, <1>t, <1>u DEF Cut, Places, Room, Limit, EmitTypeOK
  <2>4. written' \subseteq 0..size - 2
    BY <2>1, <2>2, <2>3, <1>t, <1>u DEF EmitTypeOK
  <2>5. EmitTypeOK'
    BY <2>1, <2>4, <1>t, <1>u DEF EmitTypeOK
  <2>6. InsideBuffer'
    BY <2>1, <2>4, <1>t, <1>u DEF InsideBuffer, EmitTypeOK
  <2> QED BY <2>1, <2>5, <2>6 DEF EmitInv, NoGaps, Running, TrueIsString
<1>4. CASE Terminate
  <2>1. /\ Running /\ size > 0 /\ ret' = "TRUE"
        /\ size' = size /\ rest' = rest /\ cursor' = cursor /\ nul' = cursor
        /\ written' = written \cup {cursor}
    BY <1>4 DEF Terminate
  <2>2. written = 0..cursor - 1
    BY <2>1, <1>t, <1>u DEF NoGaps, EmitTypeOK
  <2>3. written' = 0..cursor'
    BY <2>1, <2>2, <1>t, <1>u DEF EmitTypeOK
  <2>4. EmitTypeOK'
    BY <2>1, <2>3, <1>t, <1>u DEF EmitTypeOK
  <2>5. InsideBuffer'
    BY <2>1, <2>3, <1>t, <1>u DEF InsideBuffer, EmitTypeOK
  <2> QED BY <2>1, <2>3, <2>4, <2>5 DEF EmitInv, NoGaps, Running, TrueIsString
<1>5. CASE UNCHANGED emitVars
  BY <1>5, <1>t, <1>u DEF EmitInv, emitVars, EmitTypeOK, NoGaps, Running, InsideBuffer, TrueIsString
<1> QED BY <1>1, <1>2, <1>3, <1>4, <1>5 DEF EmitNext

\* Whatever is formatted into whatever buffer, nothing is written outside it
\* and only the terminator in its last byte (formatter.c: emit_text,
\* emit_char, emit_hex and the final store of x86dec_format_insn).
THEOREM WritesInside == EmitSpec => []InsideBuffer
<1>1. EmitInv => InsideBuffer
  BY DEF EmitInv
<1> QED BY <1>1, EmitInitInv, EmitStep, PTL DEF EmitSpec

\* When the call returns true the buffer holds a terminated string without a
\* gap, and nothing is written behind the terminator.
THEOREM TrueMeansString == EmitSpec => []TrueIsString
<1>1. EmitInv => TrueIsString
  BY DEF EmitInv
<1> QED BY <1>1, EmitInitInv, EmitStep, PTL DEF EmitSpec
=============================================================================
