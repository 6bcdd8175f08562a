-------------------------- MODULE FormatterProofs --------------------------
(***************************************************************************)
(* x86dec_format_insn, for texts of every length, buffers of every size    *)
(* and every instruction the decoder accepts: how long each part of a text *)
(* can be, that every bracket is opened and closed in it, and what is      *)
(* written of it when it does not fit.                                     *)
(***************************************************************************)
EXTENDS CallProofs, Formatter

\* Writing the text is the emitter's call on the sizes a caller may pass.
EmitP == INSTANCE EmitterProofs WITH Sizes <- TextSizes, Lines <- {}

\* What is known of the emitter's call holds of the formatter's.
LEMMA EmitKept == ASSUME EmitP!EmitInv, [Emit!EmitNext]_(Emit!emitVars) PROVE EmitP!EmitInv'
<1>1. EmitP!RejectSize <=> Emit!RejectSize
  BY DEF EmitP!RejectSize, Emit!RejectSize, EmitP!Running, Emit!Running
<1>5. EmitP!EmitPiece <=> Emit!EmitPiece
  BY DEF EmitP!EmitPiece, Emit!EmitPiece, EmitP!Running, Emit!Running, EmitP!Fits, Emit!Fits,
         EmitP!Room, Emit!Room, EmitP!Limit, Emit!Limit, EmitP!Places, Emit!Places
<1>2. EmitP!EmitFails <=> Emit!EmitFails
  BY DEF EmitP!EmitFails, Emit!EmitFails, EmitP!Running, Emit!Running, EmitP!Fits, Emit!Fits,
         EmitP!Room, Emit!Room, EmitP!Limit, Emit!Limit, EmitP!Places, Emit!Places, EmitP!Cut, Emit!Cut
<1>3. EmitP!Terminate <=> Emit!Terminate
  BY DEF EmitP!Terminate, Emit!Terminate, EmitP!Running, Emit!Running, EmitP!Limit, Emit!Limit
<1>6. EmitP!emitVars = Emit!emitVars
  BY DEF EmitP!emitVars, Emit!emitVars
<1>4. [EmitP!EmitNext]_(EmitP!emitVars)
  BY <1>1, <1>2, <1>3, <1>5, <1>6 DEF EmitP!EmitNext, Emit!EmitNext, EmitP!emitVars, Emit!emitVars
<1>7. EmitP!EmitInv /\ [EmitP!EmitNext]_(EmitP!emitVars) => EmitP!EmitInv'
  BY EmitP!EmitStep, FormatAssumption
<1> QED BY <1>4, <1>7

\* The recursion that adds up lengths has a solution.
LEMMA LengthsAdd ==
  ASSUME NEW l \in Seq(Emit!Piece)
  PROVE  /\ LengthsOf(l) \in [0..Len(l) -> Nat]
         /\ LengthsOf(l)[0] = 0
         /\ \A n \in 1..Len(l) : LengthsOf(l)[n] = LengthsOf(l)[n - 1] + l[n].len
<1> DEFINE N == Len(l)
           Sum(f, n) == IF n = 0 THEN 0 ELSE f[n - 1] + l[n].len
           Solves(f, n) == f \in [0..n -> Nat] /\ \A m \in 0..n : f[m] = Sum(f, m)
           S == {n \in Nat : n <= N => \E f \in [0..n -> Nat] : Solves(f, n)}
<1>n. N \in Nat /\ \A n \in 1..N : l[n].len \in Nat
  BY DEF Emit!Piece
<1>1. 0 \in S
  <2> DEFINE f == [m \in 0..0 |-> 0]
  <2>1. f \in [0..0 -> Nat] /\ f[0] = 0
    OBVIOUS
  <2>2. Solves(f, 0)
    BY <2>1
  <2> QED BY <2>1, <2>2
<1>2. \A n \in Nat : n \in S => n + 1 \in S
  <2> SUFFICES ASSUME NEW n \in Nat, n \in S, n + 1 <= N
               PROVE  \E g \in [0..n + 1 -> Nat] : Solves(g, n + 1)
    <3> HIDE DEF Solves, N
    <3>1. \A n \in Nat : n \in S => n \in Nat /\ n + 1 \in Nat
      OBVIOUS
    <3> QED BY <3>1
  <2>p. n <= N
    BY <1>n
  <2>q. \E f \in [0..n -> Nat] : Solves(f, n)
    BY <2>p
  <2> PICK f \in [0..n -> Nat] : Solves(f, n)
    BY <2>q
  <2> DEFINE g == [m \in 0..n + 1 |-> IF m = n + 1 THEN f[n] + l[n + 1].len ELSE f[m]]
  <2>1. g \in [0..n + 1 -> Nat]
    BY <1>n
  <2>2. \A m \in 0..n : g[m] = f[m]
    OBVIOUS
  <2>3. g[n + 1] = f[n] + l[n + 1].len
    OBVIOUS
  <2>4. \A m \in 0..n : g[m] = Sum(g, m)
    <3> TAKE m \in 0..n
    <3>1. f[m] = Sum(f, m)
      OBVIOUS
    <3>2. m # 0 => m - 1 \in 0..n
      OBVIOUS
    <3> HIDE DEF g
    <3> QED BY <2>2, <3>1, <3>2
  <2>5. g[n + 1] = Sum(g, n + 1)
    <3> HIDE DEF g
    <3>1. n + 1 # 0 /\ (n + 1) - 1 = n /\ n \in 0..n
      OBVIOUS
    <3>2. Sum(g, n + 1) = g[n] + l[n + 1].len
      BY <3>1
    <3> QED BY <2>2, <2>3, <3>1, <3>2
  <2>6. Solves(g, n + 1)
    <3> HIDE DEF g, Sum
    <3>1. 0..n + 1 = 0..n \cup {n + 1}
      OBVIOUS
    <3> QED BY <2>1, <2>4, <2>5, <3>1
  <2> QED BY <2>1, <2>6
<1>3. N \in S
  <2> HIDE DEF S
  <2> QED BY <1>1, <1>2, <1>n, SetInduction
<1>4. PICK f \in [0..N -> Nat] : Solves(f, N)
  BY <1>3, <1>n
<1>5. f = [n \in 0..N |-> Sum(f, n)]
  BY <1>4
<1>6. LengthsOf(l) = [n \in 0..N |-> Sum(LengthsOf(l), n)]
  BY <1>5 DEF LengthsOf
<1> DEFINE h == LengthsOf(l)
           T == {n \in Nat : n <= N => h[n] \in Nat}
<1>7. h = [n \in 0..N |-> IF n = 0 THEN 0 ELSE h[n - 1] + l[n].len]
  BY <1>6
<1> HIDE DEF h, S, Sum
<1>8. h[0] = 0 /\ \A n \in 1..N : h[n] = h[n - 1] + l[n].len
  BY <1>7, <1>n
<1>9. 0 \in T
  BY <1>8
<1>10. \A n \in Nat : n \in T => n + 1 \in T
  <2> SUFFICES ASSUME NEW n \in Nat, n \in T, n + 1 <= N PROVE h[n + 1] \in Nat
    OBVIOUS
  <2>1. n + 1 \in 1..N /\ (n + 1) - 1 = n /\ n <= N
    BY <1>n
  <2>2. h[n + 1] = h[n] + l[n + 1].len
    BY <1>8, <2>1
  <2> QED BY <2>1, <2>2, <1>n
<1>11. \A n \in 0..N : h[n] \in Nat
  <2> HIDE DEF T
  <2>1. Nat \subseteq T
    BY <1>9, <1>10, SetInduction
  <2> QED BY <2>1, <1>n DEF T
<1>12. h \in [0..N -> Nat]
  BY <1>7, <1>11
<1> QED
  BY <1>8, <1>12 DEF h

Pieces == Seq(Emit!Piece)
Total(l) == LengthsOf(l)[Len(l)]

\* The length of a text is the sum of the lengths of its pieces.
LEMMA TotalNat == ASSUME NEW l \in Pieces PROVE Total(l) \in Nat
<1>1. Len(l) \in 0..Len(l)
  BY DEF Pieces
<1> QED BY <1>1, LengthsAdd DEF Total, Pieces

LEMMA TotalEmpty == Total(<<>>) = 0 /\ <<>> \in Pieces
<1>1. <<>> \in Pieces /\ Len(<<>>) = 0
  BY DEF Pieces
<1> QED BY <1>1, LengthsAdd DEF Total, Pieces

LEMMA TotalOne == ASSUME NEW p \in Emit!Piece PROVE <<p>> \in Pieces /\ Total(<<p>>) = p.len
<1>1. <<p>> \in Pieces /\ Len(<<p>>) = 1 /\ <<p>>[1] = p /\ p.len \in Nat
  BY DEF Pieces, Emit!Piece
<1> DEFINE h == LengthsOf(<<p>>)
<1>2. h[0] = 0 /\ h[1] = h[1 - 1] + <<p>>[1].len
  <2>1. 1 \in 1..Len(<<p>>)
    BY <1>1
  <2>2. h[0] = 0 /\ \A n \in 1..Len(<<p>>) : h[n] = h[n - 1] + <<p>>[n].len
    BY <1>1, LengthsAdd DEF Pieces
  <2> HIDE DEF h
  <2> QED BY <2>1, <2>2
<1> HIDE DEF h
<1>3. 1 - 1 = 0
  OBVIOUS
<1>4. h[1] = p.len
  BY <1>1, <1>2, <1>3
<1> QED BY <1>1, <1>4 DEF Total, h

\* The lengths of the first pieces never go down.
LEMMA TotalUpTo ==
  ASSUME NEW l \in Pieces PROVE \A n \in 0..Len(l) : LengthsOf(l)[n] <= Total(l)
<1> DEFINE h == LengthsOf(l)
           N == Len(l)
           S == {n \in Nat : n <= N => h[N - n] <= h[N]}
<1>1. /\ N \in Nat /\ \A n \in 0..N : h[n] \in Nat
      /\ \A n \in 1..N : h[n] = h[n - 1] + l[n].len
      /\ \A n \in 1..N : l[n].len \in Nat
  <2>1. \A n \in 1..N : l[n].len \in Nat
    BY DEF Pieces, Emit!Piece
  <2> QED BY <2>1, LengthsAdd DEF Pieces
<1> HIDE DEF h, N
<1>2. 0 \in S
  <2>1. N - 0 = N /\ N \in 0..N
    BY <1>1
  <2> QED BY <1>1, <2>1
<1>3. \A n \in Nat : n \in S => n + 1 \in S
  <2> SUFFICES ASSUME NEW n \in Nat, n \in S, n + 1 <= N PROVE h[N - (n + 1)] <= h[N]
    OBVIOUS
  <2>1. h[N - n] <= h[N]
    BY <1>1
  <2>2. N - n \in 1..N /\ (N - n) - 1 = N - (n + 1) /\ N - n \in 0..N /\ N - (n + 1) \in 0..N /\ N \in 0..N
    BY <1>1
  <2>3. h[N - n] = h[N - (n + 1)] + l[N - n].len
    BY <1>1, <2>2
  <2>4. h[N] \in Nat /\ h[N - n] \in Nat /\ h[N - (n + 1)] \in Nat /\ l[N - n].len \in Nat
    BY <1>1, <2>2
  <2> QED BY <2>1, <2>3, <2>4
<1>4. Nat \subseteq S
  <2> HIDE DEF S
  <2> QED BY <1>2, <1>3, SetInduction
<1>5. ASSUME NEW n \in 0..N PROVE h[n] <= h[N]
  <2>1. N - n \in Nat /\ N - n <= N /\ N - (N - n) = n
    BY <1>1
  <2> QED BY <1>4, <2>1
<1> QED BY <1>5 DEF h, N, Total

\* Texts one behind the other: the lengths add up.
LEMMA TotalJoined ==
  ASSUME NEW a \in Pieces, NEW b \in Pieces
  PROVE  a \o b \in Pieces /\ Total(a \o b) = Total(a) + Total(b)
<1> DEFINE ab == a \o b
           f == LengthsOf(a)
           g == LengthsOf(b)
           h == LengthsOf(ab)
           M == Len(a)
           N == Len(b)
<1>1. /\ ab \in Pieces /\ Len(ab) = M + N /\ M \in Nat /\ N \in Nat
      /\ \A n \in 1..M : ab[n] = a[n]
      /\ \A n \in 1..N : ab[M + n] = b[n]
  BY DEF Pieces
<1>2. /\ f[0] = 0 /\ \A n \in 1..M : f[n] = f[n - 1] + a[n].len
      /\ g[0] = 0 /\ \A n \in 1..N : g[n] = g[n - 1] + b[n].len
      /\ h[0] = 0 /\ \A n \in 1..M + N : h[n] = h[n - 1] + ab[n].len
  BY <1>1, LengthsAdd DEF Pieces
<1>3. /\ \A n \in 0..M : f[n] \in Nat
      /\ \A n \in 0..N : g[n] \in Nat
      /\ \A n \in 1..N : b[n].len \in Nat
  <2>1. \A n \in 1..N : b[n].len \in Nat
    BY DEF Pieces, Emit!Piece
  <2> QED BY <2>1, LengthsAdd DEF Pieces
<1> HIDE DEF ab, f, g, h, M, N
<1>4. h[M] = f[M]
  <2> DEFINE S == {n \in Nat : n <= M => h[n] = f[n]}
  <2>1. 0 \in S
    BY <1>2
  <2>2. \A n \in Nat : n \in S => n + 1 \in S
    <3> SUFFICES ASSUME NEW n \in Nat, n \in S, n + 1 <= M PROVE h[n + 1] = f[n + 1]
      OBVIOUS
    <3>1. n + 1 \in 1..M /\ n + 1 \in 1..M + N /\ (n + 1) - 1 = n /\ n <= M
      BY <1>1
    <3>2. h[n + 1] = h[n] + ab[n + 1].len /\ f[n + 1] = f[n] + a[n + 1].len
      BY <1>2, <3>1
    <3> QED BY <1>1, <3>1, <3>2
  <2> HIDE DEF S
  <2>3. Nat \subseteq S
    BY <2>1, <2>2, SetInduction
  <2> QED BY <1>1, <2>3 DEF S
<1>5. h[M + N] = f[M] + g[N]
  <2> DEFINE S == {n \in Nat : n <= N => h[M + n] = f[M] + g[n]}
  <2>1. 0 \in S
    <3>1. M + 0 = M /\ f[M] \in Nat
      BY <1>1, <1>3
    <3> QED BY <1>2, <1>4, <3>1
  <2>2. \A n \in Nat : n \in S => n + 1 \in S
    <3> SUFFICES ASSUME NEW n \in Nat, n \in S, n + 1 <= N PROVE h[M + (n + 1)] = f[M] + g[n + 1]
      OBVIOUS
    <3>1. /\ n + 1 \in 1..N /\ M + (n + 1) \in 1..M + N /\ (n + 1) - 1 = n /\ n <= N
          /\ (M + (n + 1)) - 1 = M + n /\ n \in 0..N /\ M \in 0..M
      BY <1>1
    <3>2. h[M + (n + 1)] = h[M + n] + ab[M + (n + 1)].len /\ g[n + 1] = g[n] + b[n + 1].len
      BY <1>2, <3>1
    <3>3. h[M + n] = f[M] + g[n] /\ ab[M + (n + 1)] = b[n + 1]
      BY <1>1, <3>1
    <3>4. f[M] \in Nat /\ g[n] \in Nat /\ b[n + 1].len \in Nat
      BY <1>3, <3>1
    <3> QED BY <3>2, <3>3, <3>4
  <2> HIDE DEF S
  <2>3. Nat \subseteq S
    BY <2>1, <2>2, SetInduction
  <2> QED BY <1>1, <2>3 DEF S
<1>6. Total(ab) = h[M + N] /\ Total(a) = f[M] /\ Total(b) = g[N]
  BY <1>1 DEF Total, h, f, g, M, N
<1> QED BY <1>1, <1>5, <1>6 DEF ab

\* Up to four sequences put one behind the other.
LEMMA Flattened ==
  ASSUME NEW n \in 0..4, NEW t, Len(t) = n
  PROVE  /\ n = 0 => Seqs!FlattenSeq(t) = t
         /\ n = 1 => Seqs!FlattenSeq(t) = t[1]
         /\ n = 2 => Seqs!FlattenSeq(t) = t[1] \o t[2]
         /\ n = 3 => Seqs!FlattenSeq(t) = (t[1] \o t[2]) \o t[3]
         /\ n = 4 => Seqs!FlattenSeq(t) = ((t[1] \o t[2]) \o t[3]) \o t[4]
<1>2. CASE n = 0
  BY <1>2 DEF Seqs!FlattenSeq
<1>3. CASE n # 0
  <2> DEFINE two == t[1] \o t[2]
             three == two \o t[3]
             four == three \o t[4]
             p == [j \in 1..n |-> CASE j = 1 -> t[1] [] j = 2 -> two [] j = 3 -> three [] OTHER -> four]
             joins(f) == f = [j \in 1..n |-> IF j = 1 THEN t[j] ELSE f[j - 1] \o t[j]]
             flatten == CHOOSE f : joins(f)
  <2>1. \A j \in 1..n : p[j] = (IF j = 1 THEN t[j] ELSE p[j - 1] \o t[j])
    <3> SUFFICES ASSUME NEW j \in 1..n PROVE p[j] = (IF j = 1 THEN t[j] ELSE p[j - 1] \o t[j])
      BY Zenon
    <3>1. j = 1 \/ j = 2 \/ j = 3 \/ j = 4
      OBVIOUS
    <3>2. /\ j = 1 => p[j] = t[1]
          /\ j = 2 => p[j] = two /\ p[j - 1] = t[1]
          /\ j = 3 => p[j] = three /\ p[j - 1] = two
          /\ j = 4 => p[j] = four /\ p[j - 1] = three
      <4> HIDE DEF two, three, four
      <4>1. j # 1 => j - 1 \in 1..n
        OBVIOUS
      <4> QED BY <4>1
    <3> HIDE DEF p
    <3> QED BY <3>1, <3>2
  <2>2. joins(p)
    <3> DEFINE e(j) == IF j = 1 THEN t[j] ELSE p[j - 1] \o t[j]
    <3>1. p = [j \in 1..n |-> p[j]]
      OBVIOUS
    <3>2. \A j \in 1..n : p[j] = e(j)
      BY <2>1
    <3> HIDE DEF p, e
    <3>3. [j \in 1..n |-> p[j]] = [j \in 1..n |-> e(j)]
      BY <3>2
    <3> QED BY <3>1, <3>3 DEF e
  <2>3. joins(flatten)
    <3> HIDE DEF joins
    <3> QED BY <2>2, Zenon
  <2>4. Seqs!FlattenSeq(t) = flatten[n]
    BY <1>3 DEF Seqs!FlattenSeq
  <2>5. \A j \in 1..n : flatten[j] = (IF j = 1 THEN t[j] ELSE flatten[j - 1] \o t[j])
    <3> DEFINE f == flatten
               e(j) == IF j = 1 THEN t[j] ELSE f[j - 1] \o t[j]
    <3>1. f = [j \in 1..n |-> e(j)]
      BY <2>3
    <3> HIDE DEF f, e
    <3>2. \A j \in 1..n : f[j] = e(j)
      BY <3>1
    <3> QED BY <3>2 DEF e, f
  <2> HIDE DEF flatten
  <2>6. n \in 1..4
    BY <1>3
  <2>7. /\ n = 1 => p[n] = t[1]
        /\ n = 2 => p[n] = two
        /\ n = 3 => p[n] = three
        /\ n = 4 => p[n] = four
    <3> HIDE DEF two, three, four
    <3> QED BY <2>6
  <2> HIDE DEF p, joins
  <2>8. flatten[n] = p[n]
    BY <2>1, <2>5, <2>6, JoinedAlike
  <2> QED BY <1>3, <2>4, <2>7, <2>8
<1> QED BY <1>2, <1>3

\* The lengths of the texts.
LEMMA RegisterText == ASSUME NEW reg PROVE RegisterTextLen(reg) \in 2..5 /\ (reg \in Segment => RegisterTextLen(reg) = 2)
<1> DEFINE e == OneIf(reg - EAX >= 10)
           a == OneIf(reg - AX >= 10)
           l == OneIf(reg - AL >= 10)
           c == OneIf(reg - CR0 >= 10)
           u == OneIf(reg - XMM0 >= 10)
           y == OneIf(reg - YMM0 >= 10)
<1>2. e \in 0..1 /\ a \in 0..1 /\ l \in 0..1 /\ c \in 0..1 /\ u \in 0..1 /\ y \in 0..1
  BY DEF OneIf
<1>3. reg \in Segment => /\ reg \notin Gpr64 /\ reg \notin Gpr32 /\ reg \notin Gpr16 /\ reg \notin Gpr8
                        /\ reg \in High8 \cup Segment /\ reg \notin Control /\ reg \notin Xmm /\ reg \notin Ymm
                        /\ reg # REG_NONE
  BY DEF Segment, ES, GS, Gpr64, Gpr32, Gpr16, Gpr8, RAX, EAX, AX, AL, AH, Control, Xmm, Ymm, CR0, DR0, XMM0, YMM0,
         XMM16, REG_NONE
<1>4. RegisterTextLen(reg) =
        (CASE reg \in Gpr64 -> IF reg \in {RAX + 8, RAX + 9} THEN 2 ELSE 3
           [] reg \in Gpr32 -> 3 + e
           [] reg \in Gpr16 -> IF reg < AX + 8 THEN 2 ELSE 3 + a
           [] reg \in Gpr8  -> IF reg < AL + 4 THEN 2 ELSE 3 + l
           [] reg \in High8 \cup Segment -> 2
           [] reg \in Control -> 3 + c
           [] reg \in Xmm -> 4 + u
           [] reg \in Ymm -> 4 + y
           [] reg = REG_NONE -> 4
           [] OTHER -> 3)
  BY DEF RegisterTextLen
<1> HIDE DEF e, a, l, c, u, y
<1>6. RegisterTextLen(reg) \in {2, 3, 4, 3 + e, 3 + a, 3 + l, 3 + c, 4 + u, 4 + y}
  BY <1>4, Zenon
<1>7. reg \in Segment => RegisterTextLen(reg) = 2
  BY <1>3, <1>4, Zenon
<1> QED BY <1>2, <1>6, <1>7

\* A piece of a kind the emitter knows.
LEMMA PieceMade ==
  ASSUME NEW kind \in Emit!Kind, NEW len \in Nat \ {0}, kind = "hex" => len >= 3
  PROVE  P(kind, len) \in Emit!Piece /\ P(kind, len).kind = kind /\ P(kind, len).len = len
BY DEF P, Emit!Piece

\* 0x and one to sixteen digits.
LEMMA HexMade == ASSUME NEW w \in Word PROVE \E n \in 3..18 : Hex(w) = P("hex", n)
<1> DEFINE S == {b \in 1..8 : w[b] # 0} \cup {1}
           top == Max(S)
<1>1. \E b \in S : \A c \in S : b >= c
  <2>1. S \subseteq 1..8 /\ 1 \in S
    OBVIOUS
  <2> HIDE DEF S
  <2>2. \A b \in 1..8 : b = 1 \/ b = 2 \/ b = 3 \/ b = 4 \/ b = 5 \/ b = 6 \/ b = 7 \/ b = 8
    OBVIOUS
  <2>8. CASE 8 \in S
    BY <2>1, <2>8
  <2>7. CASE 7 \in S /\ 8 \notin S
    BY <2>1, <2>2, <2>7
  <2>6. CASE 6 \in S /\ 7 \notin S /\ 8 \notin S
    BY <2>1, <2>2, <2>6
  <2>5. CASE 5 \in S /\ 6 \notin S /\ 7 \notin S /\ 8 \notin S
    BY <2>1, <2>2, <2>5
  <2>4. CASE 4 \in S /\ 5 \notin S /\ 6 \notin S /\ 7 \notin S /\ 8 \notin S
    BY <2>1, <2>2, <2>4
  <2>3. CASE 3 \in S /\ 4 \notin S /\ 5 \notin S /\ 6 \notin S /\ 7 \notin S /\ 8 \notin S
    BY <2>1, <2>2, <2>3
  <2>9. CASE 3 \notin S /\ 4 \notin S /\ 5 \notin S /\ 6 \notin S /\ 7 \notin S /\ 8 \notin S
    BY <2>1, <2>2, <2>9
  <2> QED BY <2>3, <2>4, <2>5, <2>6, <2>7, <2>8, <2>9
<1>2. top \in S
  <2> HIDE DEF S
  <2> QED BY <1>1 DEF Max
<1>3. top \in 1..8
  BY <1>2
<1>4. OneIf(w[top] < 16) \in 0..1
  BY DEF OneIf
<1> DEFINE o == OneIf(w[top] < 16)
<1>5. HexDigits(w) = 2 * top - o
  BY DEF HexDigits
<1> HIDE DEF o, top
<1>6. 2 + HexDigits(w) \in 3..18
  BY <1>3, <1>4, <1>5 DEF o
<1> QED BY <1>6 DEF Hex

---------------------------------------------------------------------------
\* Texts of bounded length

Text(l, most) == l \in Pieces /\ Total(l) <= most

\* Texts of at most so many characters.
LEMMA TextOne ==
  ASSUME NEW kind \in Emit!Kind, NEW len \in Nat \ {0}, kind = "hex" => len >= 3 PROVE Text(<<P(kind, len)>>, len)
BY PieceMade, TotalOne DEF Text

LEMMA TextJoined ==
  ASSUME NEW a, NEW b, NEW m \in Nat, NEW n \in Nat, Text(a, m), Text(b, n) PROVE Text(a \o b, m + n)
<1>1. Total(a) \in Nat /\ Total(b) \in Nat /\ Total(a \o b) = Total(a) + Total(b) /\ a \o b \in Pieces
  BY TotalNat, TotalJoined DEF Text
<1> QED BY <1>1 DEF Text

LEMMA TextLonger == ASSUME NEW a, NEW m \in Nat, NEW n \in Nat, Text(a, m), m <= n PROVE Text(a, n)
<1>1. Total(a) \in Nat
  BY TotalNat DEF Text
<1> QED BY <1>1 DEF Text

LEMMA TextOnly == ASSUME NEW c, NEW a, NEW m \in Nat, Text(a, m) PROVE Text(Only(c, a), m)
BY TotalEmpty DEF Text, Only

\* The kinds of pieces the formatter emits.
LEMMA KindNames ==
  {"flag", "mnemonic", "separator", "text", "size", "segment", "open", "close", "register", "scale", "sign", "hex"}
    = Emit!Kind
BY DEF Emit!Kind

\* An address is the longest part of an operand: 32 characters at most.
LEMMA AddressLength == ASSUME NEW m, m.disp \in Word PROVE Text(Address(m), 32)
<1> DEFINE base == Only(m.base # REG_NONE, <<P("register", RegisterTextLen(m.base))>>)
           plus == Only(m.base # REG_NONE, <<P("sign", 1)>>)
           reg == <<P("register", RegisterTextLen(m.index))>>
           times == Only(m.scale > 1, <<P("scale", 1), P("scale", 1)>>)
           index == Only(m.index # REG_NONE, (plus \o reg) \o times)
           sign == Only(SignNeeded(m), <<P("sign", 1)>>)
           disp == Only(DispShown(m), sign \o <<Hex(Magnitude(m.disp))>>)
<1>1. \A r : Text(<<P("register", RegisterTextLen(r))>>, 5)
  <2> SUFFICES ASSUME NEW r PROVE Text(<<P("register", RegisterTextLen(r))>>, 5)
    OBVIOUS
  <2> DEFINE n == RegisterTextLen(r)
  <2>1. n \in 2..5
    BY RegisterText
  <2> HIDE DEF n
  <2>2. n \in Nat \ {0} /\ n \in Nat /\ 5 \in Nat /\ n <= 5 /\ "register" # "hex"
    BY <2>1
  <2>3. Text(<<P("register", n)>>, n)
    BY <2>2, TextOne, KindNames
  <2>4. Text(<<P("register", n)>>, 5)
    BY <2>2, <2>3, TextLonger
  <2> QED BY <2>4 DEF n
<1>2. Text(<<P("sign", 1)>>, 1) /\ Text(<<P("scale", 1)>>, 1)
  BY TextOne, KindNames
<1>3. Text(<<P("scale", 1), P("scale", 1)>>, 2)
  <2> DEFINE p == P("scale", 1)
             one == <<p>>
             two == <<p, p>>
  <2>1. two = one \o one
    OBVIOUS
  <2>2. Text(one \o one, 1 + 1)
    BY <1>2, TextJoined
  <2> HIDE DEF p, one, two
  <2>3. Text(two, 2)
    BY <2>1, <2>2
  <2> QED BY <2>3 DEF two, p
<1>4. Text(<<Hex(Magnitude(m.disp))>>, 18)
  <2>1. Magnitude(m.disp) \in Word
    <3>1. \A b \in Byte : (256 - b) % 256 \in Byte /\ 255 - b \in Byte
      BY DEF Byte
    <3>2. \A b \in 1..8 : m.disp[b] \in Byte
      BY DEF Word
    <3>3. Negated(m.disp) \in Word
      BY <3>1, <3>2 DEF Negated, Word
    <3> QED BY <3>3 DEF Magnitude
  <2>2. PICK n \in 3..18 : Hex(Magnitude(m.disp)) = P("hex", n)
    BY <2>1, HexMade
  <2>3. n \in Nat \ {0} /\ n \in Nat /\ 18 \in Nat /\ n <= 18 /\ n >= 3
    OBVIOUS
  <2>4. Text(<<P("hex", n)>>, n)
    BY <2>3, TextOne, KindNames
  <2> QED BY <2>2, <2>3, <2>4, TextLonger
<1>5. Text(base, 5) /\ Text(plus, 1) /\ Text(times, 2) /\ Text(sign, 1)
  BY <1>1, <1>2, <1>3, TextOnly
<1> HIDE DEF base, plus, times, sign
<1>6. Text(index, 8)
  <2>1. Text(plus \o reg, 1 + 5)
    BY <1>1, <1>5, TextJoined
  <2>2. Text((plus \o reg) \o times, 6 + 2)
    BY <1>5, <2>1, TextJoined
  <2> QED BY <2>2, TextOnly
<1>7. Text(disp, 19)
  <2>1. Text(sign \o <<Hex(Magnitude(m.disp))>>, 1 + 18)
    BY <1>4, <1>5, TextJoined
  <2> QED BY <2>1, TextOnly
<1>8. Address(m) = (base \o index) \o disp
  BY DEF Address, base, plus, times, sign
<1> HIDE DEF index, disp, reg
<1>9. Text(base \o index, 5 + 8)
  BY <1>5, <1>6, TextJoined
<1>10. Text((base \o index) \o disp, 13 + 19)
  BY <1>7, <1>9, TextJoined
<1> QED BY <1>8, <1>10

\* Two pieces are one behind the other.
LEMMA TwoJoined == ASSUME NEW S, NEW a \in S, NEW b \in S PROVE <<a, b>> = <<a>> \o <<b>>
<1> DEFINE s == <<a>> \o <<b>>
           t == <<a, b>>
<1>1. s \in Seq(S) /\ Len(s) = 2 /\ s[1] = a /\ s[2] = b
  OBVIOUS
<1>2. t \in Seq(S) /\ Len(t) = 2 /\ t[1] = a /\ t[2] = b
  OBVIOUS
<1> HIDE DEF s, t
<1>3. s = t
  BY <1>1, <1>2
<1> QED BY <1>3 DEF s, t

\* A size has one of two texts or none.
LEMMA SizeTexts ==
  ASSUME NEW b PROVE SizeText(b) = <<P("size", 9)>> \/ SizeText(b) = <<P("size", 10)>> \/ SizeText(b) = <<>>
<1>1. {8, 16} \cap {32, 48, 64, 80} = {}
  OBVIOUS
<1>2. SizeText(b) = (CASE b \in {8, 16} -> <<P("size", 9)>>
                       [] b \in {32, 48, 64, 80} -> <<P("size", 10)>>
                       [] OTHER -> <<>>)
  BY DEF SizeText
<1>3. CASE b \in {8, 16}
  BY <1>1, <1>2, <1>3
<1>4. CASE b \in {32, 48, 64, 80}
  BY <1>1, <1>2, <1>4
<1> QED BY <1>2, <1>3, <1>4

\* An operand in memory takes the most room.
LEMMA OperandLength ==
  ASSUME NEW op \in OperandRecord, NEW bits
  PROVE  Text(OperandText(op, bits), IF op.type = "MEM" THEN 50 ELSE 18)
<1>1. op.type \in {"CALLER", "REG", "MEM", "IMM"} /\ op.imm \in Word /\ op.mem.disp \in Word
  BY DEF OperandRecord, Mem
<1>2. \A r, kind : kind \in {"register", "segment"} => Text(<<P(kind, RegisterTextLen(r))>>, 5)
  <2> SUFFICES ASSUME NEW r, NEW kind \in {"register", "segment"} PROVE Text(<<P(kind, RegisterTextLen(r))>>, 5)
    OBVIOUS
  <2> DEFINE n == RegisterTextLen(r)
  <2>1. n \in 2..5
    BY RegisterText
  <2> HIDE DEF n
  <2>2. n \in Nat \ {0} /\ n \in Nat /\ 5 \in Nat /\ n <= 5 /\ kind # "hex"
    BY <2>1
  <2>3. Text(<<P(kind, n)>>, n)
    BY <2>2, TextOne, KindNames
  <2>4. Text(<<P(kind, n)>>, 5)
    BY <2>2, <2>3, TextLonger
  <2> QED BY <2>4 DEF n
<1>3. CASE op.type = "REG"
  <2>1. OperandText(op, bits) = <<P("register", RegisterTextLen(op.reg))>>
    BY <1>3 DEF OperandText
  <2> QED BY <1>2, <1>3, <2>1, TextLonger
<1>4. CASE op.type = "IMM"
  <2>1. OperandText(op, bits) = <<Hex(op.imm)>>
    BY <1>4 DEF OperandText
  <2>2. PICK n \in 3..18 : Hex(op.imm) = P("hex", n)
    BY <1>1, HexMade
  <2>3. n \in Nat \ {0} /\ n \in Nat /\ 18 \in Nat /\ n <= 18 /\ n >= 3
    OBVIOUS
  <2>4. Text(<<P("hex", n)>>, n)
    BY <2>3, TextOne, KindNames
  <2>5. Text(<<P("hex", n)>>, 18)
    BY <2>3, <2>4, TextLonger
  <2> QED BY <1>4, <2>1, <2>2, <2>5
<1>5. CASE op.type = "CALLER"
  <2>1. OperandText(op, bits) = <<P("text", 1)>>
    BY <1>5 DEF OperandText
  <2>2. Text(<<P("text", 1)>>, 1)
    BY TextOne, KindNames
  <2> QED BY <1>5, <2>1, <2>2, TextLonger
<1>6. CASE op.type = "MEM"
  <2> DEFINE b == IF op.size = Unsized THEN bits ELSE op.size
             size10 == SizeText(b)
             seg == <<P("segment", RegisterTextLen(op.mem.segment))>>
             colon == <<P("segment", 1)>>
             both == <<P("segment", RegisterTextLen(op.mem.segment)), P("segment", 1)>>
             shown == Only(SegmentShown(op.mem), both)
             open == <<P("open", 1)>>
             close == <<P("close", 1)>>
             addr == Address(op.mem)
  <2>1. OperandText(op, bits) = (((size10 \o shown) \o open) \o addr) \o close
    BY <1>6 DEF OperandText
  <2>2. Text(size10, 10)
    <3>1. Text(<<P("size", 9)>>, 9) /\ Text(<<P("size", 10)>>, 10) /\ Text(<<>>, 0)
      BY TextOne, KindNames, TotalEmpty DEF Text
    <3>2. Text(<<P("size", 9)>>, 10) /\ Text(<<P("size", 10)>>, 10) /\ Text(<<>>, 10)
      BY <3>1, TextLonger
    <3>3. size10 = <<P("size", 9)>> \/ size10 = <<P("size", 10)>> \/ size10 = <<>>
      BY SizeTexts
    <3> HIDE DEF b, size10
    <3> QED BY <3>2, <3>3
  <2>3. Text(seg, 5)
    BY <1>2
  <2>4. Text(colon, 1) /\ Text(open, 1) /\ Text(close, 1)
    BY TextOne, KindNames
  <2>5. both = seg \o colon
    <3> DEFINE p == P("segment", RegisterTextLen(op.mem.segment))
               q == P("segment", 1)
               S == {p, q}
    <3>1. p \in S /\ q \in S
      OBVIOUS
    <3> HIDE DEF p, q, S
    <3>2. <<p, q>> = <<p>> \o <<q>>
      BY <3>1, TwoJoined
    <3> QED BY <3>2 DEF p, q
  <2>6. Text(addr, 32)
    BY <1>1, AddressLength
  <2> HIDE DEF b, size10, seg, colon, both, open, close, addr
  <2>7. Text(both, 6)
    <3>1. Text(seg \o colon, 5 + 1)
      BY <2>3, <2>4, TextJoined
    <3> QED BY <2>5, <3>1
  <2>8. Text(shown, 6)
    BY <2>7, TextOnly
  <2> HIDE DEF shown
  <2>9. Text(size10 \o shown, 10 + 6)
    BY <2>2, <2>8, TextJoined
  <2>10. Text((size10 \o shown) \o open, 16 + 1)
    BY <2>4, <2>9, TextJoined
  <2>11. Text(((size10 \o shown) \o open) \o addr, 17 + 32)
    BY <2>6, <2>10, TextJoined
  <2>12. Text((((size10 \o shown) \o open) \o addr) \o close, 49 + 1)
    BY <2>4, <2>11, TextJoined
  <2> QED BY <1>6, <2>1, <2>12
<1> QED BY <1>1, <1>3, <1>4, <1>5, <1>6

\* Up to four operands with a comma between each two.
LEMMA FlattenedText ==
  ASSUME NEW n \in 0..4, NEW t, Len(t) = n, n = 0 => t = <<>>,
         NEW w \in [1..4 -> Nat], \A j \in 1..n : Text(t[j], w[j])
  PROVE  Text(Seqs!FlattenSeq(t), w[1] + w[2] + w[3] + w[4])
<1>1. w[1] \in Nat /\ w[2] \in Nat /\ w[3] \in Nat /\ w[4] \in Nat
  OBVIOUS
<1> DEFINE sum == w[1] + w[2] + w[3] + w[4]
<1>s. /\ sum \in Nat /\ 0 <= sum /\ w[1] <= sum /\ w[1] + w[2] <= sum /\ w[1] + w[2] + w[3] <= sum
      /\ w[1] + w[2] \in Nat /\ w[1] + w[2] + w[3] \in Nat
  BY <1>1
<1>2. CASE n = 0
  <2>1. Seqs!FlattenSeq(t) = <<>>
    BY <1>2, Flattened
  <2>2. Text(<<>>, 0)
    BY TotalEmpty DEF Text
  <2> HIDE DEF sum
  <2>3. Text(<<>>, sum)
    BY <1>s, <2>2, TextLonger
  <2> QED BY <2>1, <2>3 DEF sum
<1>3. CASE n = 1
  <2>1. Seqs!FlattenSeq(t) = t[1]
    BY <1>3, Flattened
  <2>2. Text(t[1], w[1])
    BY <1>3
  <2> HIDE DEF sum
  <2>3. Text(t[1], sum)
    BY <1>1, <1>s, <2>2, TextLonger
  <2> QED BY <2>1, <2>3 DEF sum
<1>4. CASE n = 2
  <2>1. Seqs!FlattenSeq(t) = t[1] \o t[2]
    BY <1>4, Flattened
  <2>2. Text(t[1], w[1]) /\ Text(t[2], w[2])
    BY <1>4
  <2>3. Text(t[1] \o t[2], w[1] + w[2])
    BY <1>1, <2>2, TextJoined
  <2> HIDE DEF sum
  <2>4. Text(t[1] \o t[2], sum)
    BY <1>s, <2>3, TextLonger
  <2> QED BY <2>1, <2>4 DEF sum
<1>5. CASE n = 3
  <2>1. Seqs!FlattenSeq(t) = (t[1] \o t[2]) \o t[3]
    BY <1>5, Flattened
  <2>2. Text(t[1], w[1]) /\ Text(t[2], w[2]) /\ Text(t[3], w[3])
    BY <1>5
  <2>3. Text(t[1] \o t[2], w[1] + w[2])
    BY <1>1, <2>2, TextJoined
  <2>4. Text((t[1] \o t[2]) \o t[3], w[1] + w[2] + w[3])
    BY <1>1, <1>s, <2>2, <2>3, TextJoined
  <2> HIDE DEF sum
  <2>5. Text((t[1] \o t[2]) \o t[3], sum)
    BY <1>s, <2>4, TextLonger
  <2> QED BY <2>1, <2>5 DEF sum
<1>6. CASE n = 4
  <2>1. Seqs!FlattenSeq(t) = ((t[1] \o t[2]) \o t[3]) \o t[4]
    BY <1>6, Flattened
  <2>2. Text(t[1], w[1]) /\ Text(t[2], w[2]) /\ Text(t[3], w[3]) /\ Text(t[4], w[4])
    BY <1>6
  <2>3. Text(t[1] \o t[2], w[1] + w[2])
    BY <1>1, <2>2, TextJoined
  <2>4. Text((t[1] \o t[2]) \o t[3], w[1] + w[2] + w[3])
    BY <1>1, <1>s, <2>2, <2>3, TextJoined
  <2>5. Text(((t[1] \o t[2]) \o t[3]) \o t[4], w[1] + w[2] + w[3] + w[4])
    BY <1>1, <1>s, <2>2, <2>4, TextJoined
  <2> QED BY <2>1, <2>5
<1>7. n = 0 \/ n = 1 \/ n = 2 \/ n = 3 \/ n = 4
  OBVIOUS
<1> QED BY <1>2, <1>3, <1>4, <1>5, <1>6, <1>7

\* The three flags in front of the mnemonic.
LEMMA FlagsLength == Text(FlagText, 15)
<1>1. Text(<<P("flag", 5)>>, 5) /\ Text(<<P("flag", 4)>>, 4) /\ Text(<<P("flag", 6)>>, 6)
  BY TextOne, KindNames
<1> DEFINE p == Only(insn.raw.lock, <<P("flag", 5)>>)
           q == Only(insn.raw.rep /\ insn.mn # "PAUSE", <<P("flag", 4)>>)
           r == Only(insn.raw.repne, <<P("flag", 6)>>)
<1>2. Text(p, 5) /\ Text(q, 4) /\ Text(r, 6)
  BY <1>1, TextOnly
<1>3. FlagText = (p \o q) \o r
  BY DEF FlagText
<1> HIDE DEF p, q, r
<1>4. Text(p \o q, 5 + 4)
  BY <1>2, TextJoined
<1>5. Text((p \o q) \o r, 9 + 6)
  BY <1>2, <1>4, TextJoined
<1> QED BY <1>3, <1>5

\* A line is made of pieces, and with one memory operand at most it is short.
Within4(n) == n \in 0..4 /\ \A s \in 1..n : slots[s] \in OperandRecord

\* A line with one operand in memory at most stays below the 160 bytes of
\* check_one.
LEMMA LineLength ==
  ASSUME Within4(insn.operandCount), NEW len \in MnemonicLength, NEW bits
  PROVE  /\ LineOf(len, bits) \in Pieces
         /\ (\A s, u \in 1..insn.operandCount : slots[s].type = "MEM" /\ slots[u].type = "MEM" => s = u)
              => Total(LineOf(len, bits)) <= 143
<1> DEFINE n == insn.operandCount
           sep(s) == <<P("separator", IF s = 1 THEN 1 ELSE 2)>>
           op(s) == OperandText(slots[s], bits)
           t == [s \in 1..n |-> sep(s) \o op(s)]
           w == [s \in 1..4 |-> IF s \in 1..n /\ slots[s].type = "MEM" THEN 52 ELSE 20]
           head == FlagText \o <<P("mnemonic", len)>>
<1>1. n \in 0..4 /\ \A s \in 1..n : slots[s] \in OperandRecord
  BY DEF Within4
<1>2. Len(t) = n /\ (n = 0 => t = <<>>)
  BY <1>1
<1>3. w \in [1..4 -> Nat] /\ \A j \in 1..4 : w[j] \in {20, 52}
  OBVIOUS
<1>4. ASSUME NEW s \in 1..n PROVE Text(t[s], w[s])
  <2>1. Text(sep(s), 2)
    <3>1. Text(<<P("separator", 1)>>, 1) /\ Text(<<P("separator", 2)>>, 2)
      BY TextOne, KindNames
    <3>2. Text(<<P("separator", 1)>>, 2)
      BY <3>1, TextLonger
    <3> QED BY <3>1, <3>2
  <2>2. Text(op(s), IF slots[s].type = "MEM" THEN 50 ELSE 18)
    BY <1>1, OperandLength
  <2>3. t[s] = sep(s) \o op(s)
    OBVIOUS
  <2>4. s \in 1..4
    BY <1>1
  <2>5. slots[s].type = "MEM" => w[s] = 52
    BY <2>4
  <2>6. slots[s].type # "MEM" => w[s] = 20
    BY <2>4
  <2> HIDE DEF t, w, sep, op
  <2>7. CASE slots[s].type = "MEM"
    <3>1. Text(sep(s) \o op(s), 2 + 50)
      BY <2>1, <2>2, <2>7, TextJoined
    <3> QED BY <2>3, <2>5, <2>7, <3>1
  <2>8. CASE slots[s].type # "MEM"
    <3>1. Text(sep(s) \o op(s), 2 + 18)
      BY <2>1, <2>2, <2>8, TextJoined
    <3> QED BY <2>3, <2>6, <2>8, <3>1
  <2> QED BY <2>7, <2>8
<1> DEFINE flat == Seqs!FlattenSeq(t)
           sum == w[1] + w[2] + w[3] + w[4]
<1>5. Text(flat, sum)
  <2> HIDE DEF t, w
  <2> QED BY <1>1, <1>2, <1>3, <1>4, FlattenedText
<1>6. Text(head, 31)
  <2>1. len \in Nat \ {0} /\ len \in Nat /\ 16 \in Nat /\ len <= 16
    BY DEF MnemonicLength
  <2>2. Text(<<P("mnemonic", len)>>, len)
    BY <2>1, TextOne, KindNames
  <2>3. Text(<<P("mnemonic", len)>>, 16)
    BY <2>1, <2>2, TextLonger
  <2>4. Text(FlagText \o <<P("mnemonic", len)>>, 15 + 16)
    BY <2>3, FlagsLength, TextJoined
  <2> QED BY <2>4
<1>7. LineOf(len, bits) = head \o flat
  BY DEF LineOf
<1>8. sum \in Nat
  <2> HIDE DEF w
  <2> QED BY <1>3
<1> HIDE DEF flat, head
<1>9. Text(head \o flat, 31 + sum)
  <2> HIDE DEF sum
  <2> QED BY <1>5, <1>6, <1>8, TextJoined
<1>10. ASSUME \A s, u \in 1..n : slots[s].type = "MEM" /\ slots[u].type = "MEM" => s = u PROVE sum <= 112
  <2>1. \A j, m \in 1..4 : w[j] = 52 /\ w[m] = 52 => j = m
    BY <1>10
  <2> HIDE DEF w
  <2>2. 1 \in 1..4 /\ 2 \in 1..4 /\ 3 \in 1..4 /\ 4 \in 1..4
    OBVIOUS
  <2> QED BY <1>3, <2>1, <2>2
<1> HIDE DEF sum
<1>11. Total(head \o flat) \in Nat
  BY <1>9, TotalNat DEF Text
<1> QED BY <1>7, <1>8, <1>9, <1>10, <1>11 DEF Text

---------------------------------------------------------------------------
\* Texts in which every bracket closes

\* Pieces of which each may stand behind the one before it, from one of kind
\* f to one of kind g, with nothing opening behind the first or closing
\* before the last.
Chain(l, f, g) ==
  /\ l \in Pieces /\ l # <<>> /\ l[1].kind = f /\ l[Len(l)].kind = g
  /\ \A p \in 1..Len(l) - 1 :
       l[p + 1].kind \in Starts(l[p].kind) /\ l[p].kind # "close" /\ l[p + 1].kind # "open"
Closed(l) ==
  /\ l \in Pieces
  /\ \A o \in 1..Len(l) : l[o].kind = "open" =>
       \E c \in o + 1..Len(l) :
         /\ l[c].kind = "close" /\ \A p \in o + 1..c - 1 : l[p].kind # "close"
         /\ \A p \in o..c - 1 : l[p + 1].kind \in Starts(l[p].kind)
Plain(l) == l \in Pieces /\ \A o \in 1..Len(l) : l[o].kind # "open"

\* What may stand behind a piece of each kind, inside brackets.
LEMMA StartsAre ==
  /\ Starts("open") = {"register", "hex", "sign"} /\ Starts("sign") = {"register", "hex"}
  /\ Starts("register") = {"scale", "sign", "close"} /\ Starts("scale") = {"scale", "sign", "close"}
  /\ Starts("hex") = {"close"}
BY DEF Starts, Term

\* Where the pieces of two texts stand in the joined one.
LEMMA Behind ==
  ASSUME NEW a \in Pieces, NEW b \in Pieces
  PROVE  /\ a \o b \in Pieces /\ Len(a \o b) = Len(a) + Len(b) /\ Len(a) \in Nat /\ Len(b) \in Nat
         /\ \A p \in 1..Len(a) : (a \o b)[p] = a[p]
         /\ \A p \in 1..Len(b) : (a \o b)[Len(a) + p] = b[p]
         /\ \A p \in Len(a) + 1..Len(a) + Len(b) : (a \o b)[p] = b[p - Len(a)]
BY DEF Pieces

LEMMA NothingBehind == ASSUME NEW a \in Pieces PROVE a \o <<>> = a /\ <<>> \o a = a
BY ConcatEmptySeq DEF Pieces

\* A chain of one piece, and two chains one behind the other.
LEMMA ChainOne ==
  ASSUME NEW kind \in Emit!Kind, NEW len \in Nat \ {0}, kind = "hex" => len >= 3 PROVE Chain(<<P(kind, len)>>, kind, kind)
<1> DEFINE p == P(kind, len)
<1>1. p \in Emit!Piece /\ p.kind = kind
  BY PieceMade
<1> HIDE DEF p
<1>2. <<p>> \in Pieces /\ <<p>> # <<>> /\ Len(<<p>>) = 1 /\ <<p>>[1] = p /\ 1..1 - 1 = {}
  BY <1>1 DEF Pieces
<1> QED BY <1>1, <1>2 DEF Chain, p

LEMMA ChainJoined ==
  ASSUME NEW a, NEW b, NEW f, NEW g, NEW h, NEW z, Chain(a, f, g), Chain(b, h, z), h \in Starts(g), g # "close", h # "open"
  PROVE  Chain(a \o b, f, z)
<1> DEFINE M == Len(a)
           N == Len(b)
           l == a \o b
<1>1. /\ l \in Pieces /\ Len(l) = M + N /\ M \in Nat /\ N \in Nat
      /\ \A p \in 1..M : l[p] = a[p]
      /\ \A p \in M + 1..M + N : l[p] = b[p - M]
  BY Behind DEF Chain
<1>2. a # <<>> /\ b # <<>> /\ a[1].kind = f /\ a[M].kind = g /\ b[1].kind = h /\ b[N].kind = z
  BY DEF Chain
<1>3. M > 0 /\ N > 0
  BY <1>1, <1>2 DEF Chain, Pieces
<1>4. \A p \in 1..M - 1 : a[p + 1].kind \in Starts(a[p].kind) /\ a[p].kind # "close" /\ a[p + 1].kind # "open"
  BY DEF Chain
<1>5. \A p \in 1..N - 1 : b[p + 1].kind \in Starts(b[p].kind) /\ b[p].kind # "close" /\ b[p + 1].kind # "open"
  BY DEF Chain
<1> HIDE DEF M, N, l
<1>6. l # <<>> /\ l[1].kind = f /\ l[M + N].kind = z
  <2>1. 1 \in 1..M /\ M + N \in M + 1..M + N /\ (M + N) - M = N
    BY <1>1, <1>3
  <2>2. Len(l) # 0
    BY <1>1, <1>3
  <2>3. l # <<>>
    BY <2>2
  <2> QED BY <1>1, <1>2, <2>1, <2>3
<1>7. ASSUME NEW p \in 1..(M + N) - 1
      PROVE  l[p + 1].kind \in Starts(l[p].kind) /\ l[p].kind # "close" /\ l[p + 1].kind # "open"
  <2>1. CASE p < M
    <3>1. p \in 1..M - 1 /\ p \in 1..M /\ p + 1 \in 1..M
      BY <1>1, <2>1
    <3> QED BY <1>1, <1>4, <3>1
  <2>2. CASE p = M
    <3>1. p \in 1..M /\ p + 1 \in M + 1..M + N /\ (p + 1) - M = 1
      BY <1>1, <1>3, <2>2
    <3> QED BY <1>1, <1>2, <2>2, <3>1
  <2>3. CASE p > M
    <3>1. /\ p \in M + 1..M + N /\ p + 1 \in M + 1..M + N /\ p - M \in 1..N - 1 /\ (p + 1) - M = (p - M) + 1
      BY <1>1, <1>3, <2>3
    <3> QED BY <1>1, <1>5, <3>1
  <2> QED BY <1>1, <2>1, <2>2, <2>3
<1> QED BY <1>1, <1>6, <1>7 DEF Chain, l

\* Texts without brackets.
LEMMA PlainJoined == ASSUME NEW a, NEW b, Plain(a), Plain(b) PROVE Plain(a \o b)
<1> DEFINE l == a \o b
<1>1. a \in Pieces /\ b \in Pieces
  BY DEF Plain
<1>2. /\ l \in Pieces /\ Len(l) = Len(a) + Len(b) /\ Len(a) \in Nat /\ Len(b) \in Nat
      /\ \A p \in 1..Len(a) : l[p] = a[p]
      /\ \A p \in Len(a) + 1..Len(a) + Len(b) : l[p] = b[p - Len(a)]
  BY <1>1, Behind
<1> HIDE DEF l
<1>3. ASSUME NEW p \in 1..Len(a) + Len(b) PROVE l[p].kind # "open"
  <2>1. CASE p <= Len(a)
    BY <1>2, <2>1 DEF Plain
  <2>2. CASE p > Len(a)
    <3>1. p \in Len(a) + 1..Len(a) + Len(b) /\ p - Len(a) \in 1..Len(b)
      BY <1>2, <2>2
    <3> QED BY <1>2, <3>1 DEF Plain
  <2> QED BY <1>2, <2>1, <2>2
<1> QED BY <1>2, <1>3 DEF Plain, l

LEMMA PlainOne ==
  ASSUME NEW kind \in Emit!Kind, NEW len \in Nat \ {0}, kind = "hex" => len >= 3, kind # "open" PROVE Plain(<<P(kind, len)>>)
<1> DEFINE p == P(kind, len)
<1>1. p \in Emit!Piece /\ p.kind = kind
  BY PieceMade
<1> HIDE DEF p
<1>2. <<p>> \in Pieces /\ Len(<<p>>) = 1 /\ <<p>>[1] = p
  BY <1>1 DEF Pieces
<1> QED BY <1>1, <1>2 DEF Plain, p

LEMMA PlainOnly == ASSUME NEW c, NEW a, Plain(a) PROVE Plain(Only(c, a))
<1>1. Plain(<<>>)
  BY TotalEmpty DEF Plain
<1> QED BY <1>1 DEF Only

LEMMA PlainCloses == ASSUME NEW a, Plain(a) PROVE Closed(a)
BY DEF Plain, Closed

\* What opens with a bracket and ends with one is closed.
LEMMA ChainCloses == ASSUME NEW l, Chain(l, "open", "close") PROVE Closed(l)
<1>1. /\ l \in Pieces /\ Len(l) \in Nat /\ l[1].kind = "open" /\ l[Len(l)].kind = "close" /\ l # <<>>
      /\ \A p \in 1..Len(l) - 1 :
           l[p + 1].kind \in Starts(l[p].kind) /\ l[p].kind # "close" /\ l[p + 1].kind # "open"
  BY DEF Chain, Pieces
<1>2. Len(l) > 1
  BY <1>1 DEF Pieces
<1>3. ASSUME NEW o \in 1..Len(l), l[o].kind = "open" PROVE o = 1
  <2>1. o # 1 => o - 1 \in 1..Len(l) - 1 /\ (o - 1) + 1 = o
    BY <1>1
  <2> QED BY <1>1, <1>3, <2>1
<1>4. /\ Len(l) \in 1 + 1..Len(l)
      /\ \A p \in 1 + 1..Len(l) - 1 : l[p].kind # "close"
      /\ \A p \in 1..Len(l) - 1 : l[p + 1].kind \in Starts(l[p].kind)
  BY <1>1, <1>2
<1> QED BY <1>1, <1>3, <1>4 DEF Closed

\* Closed texts one behind the other are closed.
LEMMA ClosedJoined == ASSUME NEW a, NEW b, Closed(a), Closed(b) PROVE Closed(a \o b)
<1> DEFINE l == a \o b
           M == Len(a)
           N == Len(b)
<1>1. a \in Pieces /\ b \in Pieces
  BY DEF Closed
<1>2. /\ l \in Pieces /\ Len(l) = M + N /\ M \in Nat /\ N \in Nat
      /\ \A p \in 1..M : l[p] = a[p]
      /\ \A p \in M + 1..M + N : l[p] = b[p - M]
  BY <1>1, Behind
<1>3. \A o \in 1..M : a[o].kind = "open" =>
       \E c \in o + 1..M :
         /\ a[c].kind = "close" /\ \A p \in o + 1..c - 1 : a[p].kind # "close"
         /\ \A p \in o..c - 1 : a[p + 1].kind \in Starts(a[p].kind)
  BY DEF Closed
<1>4. \A o \in 1..N : b[o].kind = "open" =>
       \E c \in o + 1..N :
         /\ b[c].kind = "close" /\ \A p \in o + 1..c - 1 : b[p].kind # "close"
         /\ \A p \in o..c - 1 : b[p + 1].kind \in Starts(b[p].kind)
  BY DEF Closed
<1> HIDE DEF l, M, N
<1>5. ASSUME NEW o \in 1..M + N, l[o].kind = "open"
      PROVE  \E c \in o + 1..M + N :
               /\ l[c].kind = "close" /\ \A p \in o + 1..c - 1 : l[p].kind # "close"
               /\ \A p \in o..c - 1 : l[p + 1].kind \in Starts(l[p].kind)
  <2>1. CASE o <= M
    <3>1. o \in 1..M /\ a[o].kind = "open"
      BY <1>2, <1>5, <2>1
    <3>2. PICK c \in o + 1..M :
            /\ a[c].kind = "close" /\ \A p \in o + 1..c - 1 : a[p].kind # "close"
            /\ \A p \in o..c - 1 : a[p + 1].kind \in Starts(a[p].kind)
      BY <1>3, <3>1
    <3>3. /\ c \in o + 1..M + N /\ c \in 1..M
          /\ \A p \in o + 1..c - 1 : p \in 1..M
          /\ \A p \in o..c - 1 : p \in 1..M /\ p + 1 \in 1..M
      BY <1>2, <2>1
    <3>4. l[c].kind = "close" /\ (\A p \in o + 1..c - 1 : l[p].kind # "close")
      BY <1>2, <3>2, <3>3
    <3>5. \A p \in o..c - 1 : l[p + 1].kind \in Starts(l[p].kind)
      BY <1>2, <3>2, <3>3
    <3> QED BY <3>3, <3>4, <3>5
  <2>2. CASE o > M
    <3>1. o \in M + 1..M + N /\ o - M \in 1..N
      BY <1>2, <2>2
    <3>2. b[o - M].kind = "open"
      BY <1>2, <1>5, <3>1
    <3>3. PICK d \in (o - M) + 1..N :
            /\ b[d].kind = "close" /\ \A p \in (o - M) + 1..d - 1 : b[p].kind # "close"
            /\ \A p \in o - M..d - 1 : b[p + 1].kind \in Starts(b[p].kind)
      BY <1>4, <3>1, <3>2
    <3> DEFINE c == M + d
    <3>4. /\ c \in o + 1..M + N /\ c \in M + 1..M + N /\ c - M = d
          /\ \A p \in o + 1..c - 1 : p \in M + 1..M + N /\ p - M \in (o - M) + 1..d - 1
          /\ \A p \in o..c - 1 : /\ p \in M + 1..M + N /\ p + 1 \in M + 1..M + N /\ p - M \in o - M..d - 1
                                 /\ (p + 1) - M = (p - M) + 1
      BY <1>2, <2>2
    <3> HIDE DEF c
    <3>5. l[c].kind = "close" /\ (\A p \in o + 1..c - 1 : l[p].kind # "close")
      BY <1>2, <3>3, <3>4
    <3>6. \A p \in o..c - 1 : l[p + 1].kind \in Starts(l[p].kind)
      BY <1>2, <3>3, <3>4
    <3> QED BY <3>4, <3>5, <3>6
  <2> QED BY <1>2, <2>1, <2>2
<1> QED BY <1>2, <1>5 DEF Closed, l

\* The pieces that a register, its sign and its scale are made of.
LEMMA ChainPieces ==
  /\ \A r : Chain(<<P("register", RegisterTextLen(r))>>, "register", "register")
  /\ Chain(<<P("sign", 1)>>, "sign", "sign") /\ Chain(<<P("open", 1)>>, "open", "open")
  /\ Chain(<<P("close", 1)>>, "close", "close")
  /\ Chain(<<P("scale", 1), P("scale", 1)>>, "scale", "scale")
  /\ \A w \in Word : Chain(<<Hex(w)>>, "hex", "hex")
<1>1. ASSUME NEW r PROVE Chain(<<P("register", RegisterTextLen(r))>>, "register", "register")
  <2> DEFINE n == RegisterTextLen(r)
  <2>1. n \in 2..5
    BY RegisterText
  <2> HIDE DEF n
  <2>2. n \in Nat \ {0} /\ "register" # "hex"
    BY <2>1
  <2>3. Chain(<<P("register", n)>>, "register", "register")
    BY <2>2, ChainOne, KindNames
  <2> QED BY <2>3 DEF n
<1>2. /\ Chain(<<P("sign", 1)>>, "sign", "sign") /\ Chain(<<P("open", 1)>>, "open", "open")
      /\ Chain(<<P("close", 1)>>, "close", "close") /\ Chain(<<P("scale", 1)>>, "scale", "scale")
  BY ChainOne, KindNames
<1>3. Chain(<<P("scale", 1), P("scale", 1)>>, "scale", "scale")
  <2> DEFINE p == P("scale", 1)
             S == {p}
  <2>1. p \in S
    OBVIOUS
  <2>2. Chain(<<p>> \o <<p>>, "scale", "scale")
    BY <1>2, ChainJoined, StartsAre
  <2> HIDE DEF p, S
  <2>3. <<p, p>> = <<p>> \o <<p>>
    BY <2>1, TwoJoined
  <2>4. Chain(<<p, p>>, "scale", "scale")
    BY <2>2, <2>3
  <2> QED BY <2>4 DEF p
<1>4. ASSUME NEW w \in Word PROVE Chain(<<Hex(w)>>, "hex", "hex")
  <2>1. PICK n \in 3..18 : Hex(w) = P("hex", n)
    BY HexMade
  <2>2. n \in Nat \ {0} /\ n >= 3
    OBVIOUS
  <2>3. Chain(<<P("hex", n)>>, "hex", "hex")
    BY <2>2, ChainOne, KindNames
  <2> QED BY <2>1, <2>3
<1> QED BY <1>1, <1>2, <1>3, <1>4

\* The magnitude of a displacement is a word of 64 bits again.
LEMMA MagnitudeWord == ASSUME NEW w \in Word PROVE Magnitude(w) \in Word
<1>1. \A b \in Byte : (256 - b) % 256 \in Byte /\ 255 - b \in Byte
  BY DEF Byte
<1>2. \A b \in 1..8 : w[b] \in Byte
  BY DEF Word
<1>3. Negated(w) \in Word
  BY <1>1, <1>2 DEF Negated, Word
<1> QED BY <1>3 DEF Magnitude

\* What stands between the brackets.
LEMMA AddressChain ==
  ASSUME NEW m, m.disp \in Word
  PROVE  \E f \in Starts("open"), g \in {"register", "scale", "hex"} : Chain(Address(m), f, g)
<1> DEFINE hasBase == m.base # REG_NONE
           hasIndex == m.index # REG_NONE
           baseReg == <<P("register", RegisterTextLen(m.base))>>
           indexReg == <<P("register", RegisterTextLen(m.index))>>
           one == <<P("sign", 1)>>
           twice == <<P("scale", 1), P("scale", 1)>>
           number == <<Hex(Magnitude(m.disp))>>
           base == Only(hasBase, baseReg)
           plus == Only(hasBase, one)
           times == Only(m.scale > 1, twice)
           index == Only(hasIndex, (plus \o indexReg) \o times)
           sign == Only(SignNeeded(m), one)
           disp == Only(DispShown(m), sign \o number)
<1>1. /\ Chain(baseReg, "register", "register") /\ Chain(indexReg, "register", "register")
      /\ Chain(one, "sign", "sign") /\ Chain(twice, "scale", "scale") /\ Chain(number, "hex", "hex")
  BY ChainPieces, MagnitudeWord
<1>2. Address(m) = (base \o index) \o disp
  BY DEF Address
<1>3. (hasBase \/ hasIndex => SignNeeded(m)) /\ (~hasBase /\ ~hasIndex => DispShown(m))
  BY DEF SignNeeded, DispShown
<1> HIDE DEF hasBase, hasIndex, baseReg, indexReg, one, twice, number
<1>p. /\ baseReg \in Pieces /\ indexReg \in Pieces /\ one \in Pieces /\ twice \in Pieces /\ number \in Pieces
  BY <1>1 DEF Chain

\* The base and the index.
<1>4. \E g \in {"register", "scale"} : hasIndex =>
        IF hasBase THEN Chain(index, "sign", g) ELSE Chain(index, "register", g)
  <2>1. IF hasBase THEN Chain(plus \o indexReg, "sign", "register") ELSE plus \o indexReg = indexReg
    <3>1. CASE hasBase
      BY <1>1, <3>1, ChainJoined, StartsAre DEF Only
    <3>2. CASE ~hasBase
      BY <1>p, <3>2, NothingBehind DEF Only
    <3> QED BY <3>1, <3>2
  <2>2. IF hasBase THEN Chain(plus \o indexReg, "sign", "register") ELSE Chain(plus \o indexReg, "register", "register")
    BY <1>1, <2>1
  <2> DEFINE pi == plus \o indexReg
  <2> HIDE DEF plus, pi
  <2>3. CASE m.scale > 1
    <3>1. times = twice
      BY <2>3 DEF Only
    <3>2. IF hasBase THEN Chain(pi \o twice, "sign", "scale") ELSE Chain(pi \o twice, "register", "scale")
      BY <1>1, <2>2, ChainJoined, StartsAre DEF pi
    <3>3. hasIndex => index = pi \o twice
      BY <3>1 DEF Only, pi
    <3> QED BY <3>2, <3>3
  <2>4. CASE ~(m.scale > 1)
    <3>1. times = <<>>
      BY <2>4 DEF Only
    <3>2. pi \in Pieces
      BY <2>2 DEF Chain, pi
    <3>3. hasIndex => index = pi
      BY <3>1, <3>2, NothingBehind DEF Only, pi
    <3> QED BY <2>2, <3>3 DEF pi
  <2> QED BY <2>3, <2>4
<1>5. /\ hasBase => base = baseReg
      /\ ~hasBase => base = <<>>
      /\ ~hasIndex => index = <<>>
  BY DEF Only
<1> HIDE DEF base, index, plus, times
<1> DEFINE bi == base \o index
<1>6. \E g \in {"register", "scale"} : IF hasBase \/ hasIndex THEN Chain(bi, "register", g) ELSE bi = <<>>
  <2>1. PICK g \in {"register", "scale"} : hasIndex =>
          IF hasBase THEN Chain(index, "sign", g) ELSE Chain(index, "register", g)
    BY <1>4
  <2>2. CASE hasBase /\ hasIndex
    <3>1. Chain(baseReg \o index, "register", g)
      BY <1>1, <2>1, <2>2, ChainJoined, StartsAre
    <3> QED BY <1>5, <2>2, <3>1
  <2>3. CASE hasBase /\ ~hasIndex
    <3>1. baseReg \o <<>> = baseReg
      BY <1>p, NothingBehind
    <3>2. bi = baseReg
      BY <1>5, <2>3, <3>1
    <3> QED BY <1>1, <2>3, <3>2
  <2>4. CASE ~hasBase /\ hasIndex
    <3>1. Chain(index, "register", g)
      BY <2>1, <2>4
    <3>2. bi = index
      BY <1>5, <2>4, <3>1, NothingBehind DEF Chain
    <3> QED BY <2>4, <3>1, <3>2
  <2>5. CASE ~hasBase /\ ~hasIndex
    BY <1>5, <2>5, NothingBehind, TotalEmpty
  <2> QED BY <2>2, <2>3, <2>4, <2>5

\* The displacement.
<1>7. DispShown(m) => IF SignNeeded(m) THEN Chain(disp, "sign", "hex") ELSE Chain(disp, "hex", "hex")
  <2>1. CASE SignNeeded(m)
    <3>1. Chain(one \o number, "sign", "hex")
      BY <1>1, ChainJoined, StartsAre
    <3>2. sign = one
      BY <2>1 DEF Only
    <3> QED BY <2>1, <3>1, <3>2 DEF Only
  <2>2. CASE ~SignNeeded(m)
    <3>1. sign = <<>>
      BY <2>2 DEF Only
    <3>2. <<>> \o number = number
      BY <1>p, NothingBehind
    <3> QED BY <1>1, <2>2, <3>1, <3>2 DEF Only
  <2> QED BY <2>1, <2>2
<1>8. ~DispShown(m) => disp = <<>>
  BY DEF Only
<1> HIDE DEF bi, disp, sign
<1>9. PICK g \in {"register", "scale"} : IF hasBase \/ hasIndex THEN Chain(bi, "register", g) ELSE bi = <<>>
  BY <1>6
<1>10. CASE (hasBase \/ hasIndex) /\ DispShown(m)
  <2>1. Chain(bi, "register", g) /\ Chain(disp, "sign", "hex")
    BY <1>3, <1>7, <1>9, <1>10
  <2>2. Chain(bi \o disp, "register", "hex")
    BY <2>1, ChainJoined, StartsAre
  <2> QED BY <1>2, <2>2, StartsAre DEF bi
<1>11. CASE (hasBase \/ hasIndex) /\ ~DispShown(m)
  <2>1. Chain(bi, "register", g) /\ disp = <<>>
    BY <1>8, <1>9, <1>11
  <2>2. bi \o <<>> = bi
    BY <2>1, NothingBehind DEF Chain
  <2> QED BY <1>2, <2>1, <2>2, StartsAre DEF bi
<1>12. CASE ~hasBase /\ ~hasIndex
  <2>1. bi = <<>> /\ (Chain(disp, "sign", "hex") \/ Chain(disp, "hex", "hex"))
    BY <1>3, <1>7, <1>9, <1>12
  <2>2. <<>> \o disp = disp
    BY <2>1, NothingBehind DEF Chain
  <2> QED BY <1>2, <2>1, <2>2, StartsAre DEF bi
<1> QED BY <1>10, <1>11, <1>12

\* Every bracket of an operand closes.
LEMMA OperandCloses == ASSUME NEW op \in OperandRecord, NEW bits PROVE Closed(OperandText(op, bits))
<1>1. op.imm \in Word /\ op.mem.disp \in Word /\ op.type \in {"CALLER", "REG", "MEM", "IMM"}
  BY DEF OperandRecord, Mem
<1>2. \A l, f, g : Chain(l, f, g) /\ f # "open" /\ Len(l) = 1 => Plain(l)
  <2> SUFFICES ASSUME NEW l, NEW f, NEW g, Chain(l, f, g), f # "open", Len(l) = 1 PROVE Plain(l)
    OBVIOUS
  <2> QED BY DEF Chain, Plain
<1>3. CASE op.type = "REG"
  <2>1. OperandText(op, bits) = <<P("register", RegisterTextLen(op.reg))>>
    BY <1>3 DEF OperandText
  <2>2. Chain(<<P("register", RegisterTextLen(op.reg))>>, "register", "register")
    BY ChainPieces
  <2> DEFINE p == P("register", RegisterTextLen(op.reg))
  <2> HIDE DEF p
  <2>3. Len(<<p>>) = 1
    OBVIOUS
  <2> QED BY <1>2, <2>1, <2>2, <2>3, PlainCloses DEF p
<1>4. CASE op.type = "IMM"
  <2>1. OperandText(op, bits) = <<Hex(op.imm)>>
    BY <1>4 DEF OperandText
  <2>2. Chain(<<Hex(op.imm)>>, "hex", "hex")
    BY <1>1, ChainPieces
  <2>3. Len(<<Hex(op.imm)>>) = 1
    OBVIOUS
  <2> QED BY <1>2, <2>1, <2>2, <2>3, PlainCloses
<1>5. CASE op.type = "CALLER"
  <2>1. OperandText(op, bits) = <<P("text", 1)>>
    BY <1>5 DEF OperandText
  <2>2. Plain(<<P("text", 1)>>)
    BY PlainOne, KindNames
  <2> QED BY <2>1, <2>2, PlainCloses
<1>6. CASE op.type = "MEM"
  <2> DEFINE b == IF op.size = Unsized THEN bits ELSE op.size
             size10 == SizeText(b)
             seg == <<P("segment", RegisterTextLen(op.mem.segment))>>
             colon == <<P("segment", 1)>>
             both == <<P("segment", RegisterTextLen(op.mem.segment)), P("segment", 1)>>
             shown == Only(SegmentShown(op.mem), both)
             open == <<P("open", 1)>>
             close == <<P("close", 1)>>
             addr == Address(op.mem)
  <2>1. OperandText(op, bits) = (((size10 \o shown) \o open) \o addr) \o close
    BY <1>6 DEF OperandText
  <2>2. Plain(size10)
    <3>1. Plain(<<P("size", 9)>>) /\ Plain(<<P("size", 10)>>)
      BY PlainOne, KindNames
    <3>2. Plain(<<>>)
      BY TotalEmpty DEF Plain
    <3>3. size10 = <<P("size", 9)>> \/ size10 = <<P("size", 10)>> \/ size10 = <<>>
      BY SizeTexts
    <3> HIDE DEF b, size10
    <3> QED BY <3>1, <3>2, <3>3
  <2>3. Plain(seg) /\ Plain(colon)
    <3> DEFINE n == RegisterTextLen(op.mem.segment)
    <3>1. n \in 2..5
      BY RegisterText
    <3> HIDE DEF n
    <3>2. n \in Nat \ {0}
      BY <3>1
    <3>3. Plain(<<P("segment", n)>>) /\ Plain(<<P("segment", 1)>>)
      BY <3>2, PlainOne, KindNames
    <3> QED BY <3>3 DEF n
  <2>4. Plain(both)
    <3> DEFINE p == P("segment", RegisterTextLen(op.mem.segment))
               q == P("segment", 1)
               S == {p, q}
    <3>1. p \in S /\ q \in S /\ Plain(<<p>>) /\ Plain(<<q>>)
      BY <2>3
    <3> HIDE DEF p, q, S
    <3>2. <<p, q>> = <<p>> \o <<q>>
      BY <3>1, TwoJoined
    <3>3. Plain(<<p>> \o <<q>>)
      BY <3>1, PlainJoined
    <3>4. Plain(<<p, q>>)
      BY <3>2, <3>3
    <3> QED BY <3>4 DEF p, q
  <2>5. Chain(open, "open", "open") /\ Chain(close, "close", "close")
    BY ChainPieces
  <2>6. PICK f \in Starts("open"), g \in {"register", "scale", "hex"} : Chain(addr, f, g)
    BY <1>1, AddressChain
  <2> HIDE DEF b, size10, seg, colon, both, open, close, addr
  <2>7. Chain(open \o addr, "open", g)
    <3>1. f # "open" /\ "open" # "close"
      BY StartsAre
    <3> QED BY <2>5, <2>6, <3>1, ChainJoined
  <2>8. Chain((open \o addr) \o close, "open", "close")
    <3>1. "close" \in Starts(g) /\ g # "close" /\ "close" # "open"
      BY StartsAre
    <3> QED BY <2>5, <2>7, <3>1, ChainJoined
  <2>9. Plain(shown)
    BY <2>4, PlainOnly
  <2> HIDE DEF shown
  <2>10. Closed((size10 \o shown) \o ((open \o addr) \o close))
    BY <2>2, <2>8, <2>9, PlainJoined, PlainCloses, ChainCloses, ClosedJoined
  <2>11. (size10 \o shown) \o ((open \o addr) \o close) = (((size10 \o shown) \o open) \o addr) \o close
    <3> DEFINE head == size10 \o shown
    <3>1. head \in Pieces /\ open \in Pieces /\ addr \in Pieces /\ close \in Pieces
      BY <2>2, <2>5, <2>6, <2>9, PlainJoined DEF Plain, Chain
    <3> HIDE DEF head
    <3>2. head \o (open \o addr) = (head \o open) \o addr
      BY <3>1, ConcatAssociative DEF Pieces
    <3>3. open \o addr \in Pieces
      BY <3>1, Behind
    <3> DEFINE mid == open \o addr
    <3>4. head \o (mid \o close) = (head \o mid) \o close
      <4> HIDE DEF mid
      <4>1. head \in Pieces /\ mid \in Pieces /\ close \in Pieces
        BY <3>1, <3>3 DEF mid
      <4> QED BY <4>1, ConcatAssociative DEF Pieces
    <3> QED BY <3>2, <3>4 DEF head
  <2> QED BY <2>1, <2>10, <2>11
<1> QED BY <1>1, <1>3, <1>4, <1>5, <1>6

\* Every bracket of a line closes.
LEMMA LineCloses ==
  ASSUME Within4(insn.operandCount), NEW len \in MnemonicLength, NEW bits PROVE Closed(LineOf(len, bits))
<1> DEFINE n == insn.operandCount
           sep(s) == <<P("separator", IF s = 1 THEN 1 ELSE 2)>>
           op(s) == OperandText(slots[s], bits)
           t == [s \in 1..n |-> sep(s) \o op(s)]
           mnemonic == <<P("mnemonic", len)>>
           flat == Seqs!FlattenSeq(t)
<1>1. n \in 0..4 /\ \A s \in 1..n : slots[s] \in OperandRecord
  BY DEF Within4
<1>2. Len(t) = n /\ (n = 0 => t = <<>>)
  BY <1>1
<1>3. ASSUME NEW s \in 1..n PROVE Closed(t[s])
  <2>1. Closed(sep(s))
    <3>1. Plain(<<P("separator", 1)>>) /\ Plain(<<P("separator", 2)>>)
      BY PlainOne, KindNames
    <3> QED BY <3>1, PlainCloses
  <2>2. Closed(op(s))
    BY <1>1, OperandCloses
  <2>3. t[s] = sep(s) \o op(s)
    OBVIOUS
  <2> HIDE DEF t, sep, op
  <2> QED BY <2>1, <2>2, <2>3, ClosedJoined
<1>4. Closed(flat)
  <2> HIDE DEF t
  <2>1. /\ n = 0 => flat = <<>>
        /\ n = 1 => flat = t[1]
        /\ n = 2 => flat = t[1] \o t[2]
        /\ n = 3 => flat = (t[1] \o t[2]) \o t[3]
        /\ n = 4 => flat = ((t[1] \o t[2]) \o t[3]) \o t[4]
    BY <1>1, <1>2, Flattened
  <2>2. Closed(<<>>)
    BY TotalEmpty DEF Closed
  <2> HIDE DEF flat, n
  <2>3. CASE n = 0
    BY <2>1, <2>2, <2>3
  <2>4. CASE n = 1
    BY <1>3, <2>1, <2>4
  <2>5. CASE n = 2
    <3>1. Closed(t[1]) /\ Closed(t[2])
      BY <1>3, <2>5
    <3> QED BY <2>1, <2>5, <3>1, ClosedJoined
  <2>6. CASE n = 3
    <3>1. Closed(t[1]) /\ Closed(t[2]) /\ Closed(t[3])
      BY <1>3, <2>6
    <3>2. Closed(t[1] \o t[2])
      BY <3>1, ClosedJoined
    <3> QED BY <2>1, <2>6, <3>1, <3>2, ClosedJoined
  <2>7. CASE n = 4
    <3>1. Closed(t[1]) /\ Closed(t[2]) /\ Closed(t[3]) /\ Closed(t[4])
      BY <1>3, <2>7
    <3>2. Closed(t[1] \o t[2])
      BY <3>1, ClosedJoined
    <3>3. Closed((t[1] \o t[2]) \o t[3])
      BY <3>1, <3>2, ClosedJoined
    <3> QED BY <2>1, <2>7, <3>1, <3>3, ClosedJoined
  <2>8. n = 0 \/ n = 1 \/ n = 2 \/ n = 3 \/ n = 4
    BY <1>1
  <2> QED BY <2>3, <2>4, <2>5, <2>6, <2>7, <2>8
<1>5. Plain(FlagText)
  <2> DEFINE p == Only(insn.raw.lock, <<P("flag", 5)>>)
             q == Only(insn.raw.rep /\ insn.mn # "PAUSE", <<P("flag", 4)>>)
             r == Only(insn.raw.repne, <<P("flag", 6)>>)
  <2>1. Plain(<<P("flag", 5)>>) /\ Plain(<<P("flag", 4)>>) /\ Plain(<<P("flag", 6)>>)
    BY PlainOne, KindNames
  <2>2. Plain(p) /\ Plain(q) /\ Plain(r)
    BY <2>1, PlainOnly
  <2>3. FlagText = (p \o q) \o r
    BY DEF FlagText
  <2> HIDE DEF p, q, r
  <2> QED BY <2>2, <2>3, PlainJoined
<1>6. Plain(mnemonic)
  <2>1. len \in Nat \ {0} /\ "mnemonic" # "hex"
    BY DEF MnemonicLength
  <2> QED BY <2>1, PlainOne, KindNames
<1>7. LineOf(len, bits) = (FlagText \o mnemonic) \o flat
  BY DEF LineOf
<1> HIDE DEF flat, mnemonic
<1> QED BY <1>4, <1>5, <1>6, <1>7, PlainJoined, PlainCloses, ClosedJoined

---------------------------------------------------------------------------
\* What the call of the formatter finds

\* Only an accepted instruction claims operands.
Uncounted == Accepted \/ insn.operandCount = 0

\* The decoder counts operands when it accepts, and only then.
LEMMA StepUncounted == ASSUME IndInv, Uncounted, [Next]_vars PROVE Uncounted'
<1> USE DEF Uncounted, Accepted, input, work, ErrorInsn, Return, Fail
<1>1. CASE RejectArgs \/ Begin \/ EndPrefixes \/ TakePrefix \/ TakeRex \/ NoRex
  BY <1>1 DEF RejectArgs, Begin, EndPrefixes, TakePrefix, TakeRex, NoRex, ZeroInsn
<1>2. CASE TakeField
  BY <1>2 DEF TakeField, TakeOpcode, TakeEscape, TakeOpcode3, TakeModrm, TakeSib, TakeDisp, TakeTail
<1>3. CASE RunOut
  <2>1. pos \in Nat /\ Len(buf) \in Nat /\ pos <= Len(buf)
    BY DEF IndInv, TypeOK, CursorInv
  <2>2. pc # "done"
    BY <1>3, <2>1 DEF RunOut, Wanted, Left
  <2> QED BY <1>3, <2>2 DEF RunOut
<1>4. CASE DispatchVzeroall \/ DispatchEvex \/ DispatchLegacy
  BY <1>4 DEF DispatchVzeroall, DispatchEvex, DispatchLegacy
<1>8. CASE DispatchVex
  <2>1. insn' = insn \/ insn'.operandCount = 0
    BY <1>8 DEF DispatchVex
  <2>2. pc = "dispatch"
    BY <1>8 DEF DispatchVex
  <2> QED BY <2>1, <2>2
<1>5. CASE RejectSynth \/ AcceptSynth \/ ResolveOk \/ ResolveFails \/ Promote \/ TakeOperand \/ TooLong
  BY <1>5 DEF RejectSynth, AcceptSynth, ResolveOk, ResolveFails, Promote, TakeOperand, TooLong
<1>6. CASE Finish
  BY <1>6 DEF Finish
<1>7. CASE UNCHANGED vars
  BY <1>7 DEF vars
<1> QED BY <1>1, <1>2, <1>3, <1>4, <1>5, <1>6, <1>7, <1>8 DEF Next, Dispatch

LEMMA StepUncountedCall == ASSUME IndInv, Uncounted, [FullNext]_fullVars PROVE Uncounted'
<1>1. CASE DecodeStep
  <2>1. [Next]_vars
    BY <1>1 DEF DecodeStep
  <2> QED BY <2>1, StepUncounted
<1>2. CASE UNCHANGED vars
  BY <1>2 DEF vars, Uncounted, Accepted
<1>3. DecodeStep \/ UNCHANGED vars
  BY DEF FullNext, fullVars, RejectFull, StartDecode, DecodeFails, DecodeReturns, RejectArray, StartBuild,
         BuildOperand, FinishBuild
<1> QED BY <1>1, <1>2, <1>3

\* What the formatter is handed are operands that were built.
LEMMA DeliveredOperands == ASSUME CallInv, Uncounted, Delivered PROVE Within4(insn.operandCount)
<1>1. CASE insn.operandCount = 0
  BY <1>1 DEF Within4
<1>2. CASE Accepted
  <2>1. Count \in 0..4 /\ insn.operandCount = Len(entry.shapes) /\ context.entry = entry
    BY <1>2, AcceptedCount DEF CallInv, DecoderInv, EntryInv, Handed
  <2>2. insn.operandCount = Count
    BY <2>1 DEF Count, ctx
  <2>3. /\ slots \in Seq(OperandRecord) /\ Count <= Len(slots) /\ Len(slots) \in Nat
    BY WrittenUpTo DEF Delivered
  <2>4. \A s \in 1..Count : slots[s] \in OperandRecord
    <3> HIDE DEF OperandRecord
    <3> QED BY <2>1, <2>3
  <2> QED BY <2>1, <2>2, <2>4 DEF Within4
<1> QED BY <1>1, <1>2 DEF Uncounted

OneMemory == \A s, u \in 1..insn.operandCount : slots[s].type = "MEM" /\ slots[u].type = "MEM" => s = u

---------------------------------------------------------------------------
\* The inductive invariant of the formatter: what is accounted for is a prefix
\* of the text, and the rest is still to be written.
Placed ==
  \E n \in 0..Len(line) :
    /\ rest = SubSeq(line, n + 1, Len(line)) /\ cursor = LengthsOf(line)[n]
    /\ ret = "FALSE" => size <= Total(line)
    /\ ret = "TRUE" => n = Len(line) /\ nul = cursor /\ cursor < size
Formatting ==
  /\ Delivered /\ EmitP!EmitInv /\ line \in Pieces /\ Placed
  /\ OneMemory => Total(line) <= 143
  /\ Closed(line)
NotYet == size = 0 /\ rest = <<>> /\ cursor = 0 /\ written = {} /\ nul = -1 /\ ret = "NONE" /\ line = <<>>
FormatInv ==
  /\ Uncounted
  /\ (fstage = "decode" /\ NotYet) \/ (fstage = "format" /\ Formatting)

\* Each step of the emitter writes the next piece, or ends the call.
LEMMA StepPlacedText ==
  ASSUME EmitP!EmitInv, line \in Pieces, Placed, Emit!EmitNext, line' = line PROVE Placed'
<1> DEFINE h == LengthsOf(line)
           N == Len(line)
<1>1. /\ N \in Nat /\ \A n \in 0..N : h[n] \in Nat
      /\ \A n \in 1..N : h[n] = h[n - 1] + line[n].len
      /\ \A n \in 1..N : line[n].len \in Nat
      /\ \A n \in 0..N : h[n] <= Total(line)
  <2>1. \A n \in 1..Len(line) : line[n].len \in Nat
    BY DEF Pieces, Emit!Piece
  <2> QED BY <2>1, LengthsAdd, TotalUpTo DEF Pieces
<1>2. size \in Nat /\ cursor \in Nat /\ (ret = "NONE" /\ size > 0 => cursor <= size - 1)
  BY DEF EmitP!EmitInv, EmitP!EmitTypeOK, EmitP!Running
<1>3. PICK n \in 0..N :
        /\ rest = SubSeq(line, n + 1, N) /\ cursor = h[n]
        /\ ret = "FALSE" => size <= Total(line)
        /\ ret = "TRUE" => n = N /\ nul = cursor /\ cursor < size
  BY DEF Placed
<1>l. line \in Seq(Emit!Piece)
  BY DEF Pieces
<1>r. rest \in Seq(Emit!Piece) /\ Len(rest) = N - n
  <2> HIDE DEF h
  <2>1. n = N => SubSeq(line, n + 1, N) = <<>>
    BY <1>l, <1>1
  <2>2. n < N => n + 1 \in 1..N /\ N \in 1..N
    BY <1>1
  <2>3. n < N => SubSeq(line, n + 1, N) \in Seq(Emit!Piece) /\ Len(SubSeq(line, n + 1, N)) = N - n
    BY <1>l, <1>1, <2>2
  <2> QED BY <1>1, <1>3, <2>1, <2>3
<1>4. rest # <<>> => /\ n + 1 \in 1..N /\ n + 1 \in 0..N /\ (n + 1) - 1 = n
                     /\ Head(rest) = line[n + 1] /\ Tail(rest) = SubSeq(line, (n + 1) + 1, N)
  <2> HIDE DEF h
  <2> SUFFICES ASSUME rest # <<>> PROVE /\ n + 1 \in 1..N /\ n + 1 \in 0..N /\ (n + 1) - 1 = n
                     /\ Head(rest) = line[n + 1] /\ Tail(rest) = SubSeq(line, (n + 1) + 1, N)
    OBVIOUS
  <2>1. Len(rest) # 0
    BY <1>r
  <2>2. n + 1 \in 1..N /\ n + 1 \in 0..N /\ (n + 1) - 1 = n
    BY <1>1, <1>r, <2>1
  <2>3. Head(rest) = line[n + 1]
    BY <1>1, <1>3, <1>l, <1>r, <2>2
  <2>4. Tail(rest) = SubSeq(line, (n + 1) + 1, N)
    BY <1>1, <1>3, <1>l, <1>r, <2>2
  <2> QED BY <2>2, <2>3, <2>4
<1>5. rest = <<>> => n = N
  BY <1>1, <1>r
<1>t. Total(line) \in Nat
  BY TotalNat
<1> HIDE DEF h, N
<1>6. CASE Emit!EmitPiece
  <2>1. /\ rest # <<>> /\ cursor' = cursor + Head(rest).len /\ rest' = Tail(rest)
        /\ ret = "NONE" /\ ret' = ret /\ size' = size
    BY <1>6 DEF Emit!EmitPiece, Emit!Running
  <2>2. rest' = SubSeq(line, (n + 1) + 1, N) /\ cursor' = h[n + 1] /\ n + 1 \in 0..N
    BY <1>1, <1>3, <1>4, <2>1
  <2> QED BY <2>1, <2>2 DEF Placed, h, N
<1>7. CASE Emit!EmitFails
  <2>1. /\ rest # <<>> /\ ~(Head(rest).len <= (size - 1) - cursor) /\ rest' = rest /\ cursor' = cursor
        /\ size' = size /\ ret' = "FALSE"
    BY <1>7 DEF Emit!EmitFails, Emit!Fits, Emit!Room, Emit!Limit
  <2>2. h[n + 1] = cursor + Head(rest).len /\ h[n + 1] \in Nat /\ h[n + 1] <= Total(line) /\ Head(rest).len \in Nat
    BY <1>1, <1>3, <1>4, <2>1
  <2>3. size <= Total(line)
    BY <1>2, <1>t, <2>1, <2>2
  <2> QED BY <1>3, <2>1, <2>3 DEF Placed, h, N
<1>8. CASE Emit!RejectSize
  <2>1. size = 0 /\ rest' = rest /\ cursor' = cursor /\ size' = size /\ ret' = "FALSE"
    BY <1>8 DEF Emit!RejectSize
  <2> QED BY <1>3, <1>t, <2>1 DEF Placed, h, N
<1>9. CASE Emit!Terminate
  <2>1. /\ rest = <<>> /\ rest' = rest /\ cursor' = cursor /\ size' = size /\ ret' = "TRUE" /\ nul' = cursor
        /\ size > 0 /\ ret = "NONE"
    BY <1>9 DEF Emit!Terminate, Emit!Running
  <2>2. cursor < size
    BY <1>2, <2>1
  <2> QED BY <1>3, <1>5, <2>1, <2>2 DEF Placed, h, N
<1> QED BY <1>6, <1>7, <1>8, <1>9 DEF Emit!EmitNext

LEMMA StepFormatting == ASSUME Formatting, WritePiece PROVE Formatting'
<1>1. Emit!EmitNext /\ line' = line /\ UNCHANGED fullVars
  BY DEF WritePiece
<1>2. EmitP!EmitInv'
  BY <1>1, EmitKept DEF Formatting
<1>3. Placed'
  BY <1>1, StepPlacedText DEF Formatting
<1>4. /\ Delivered' /\ OneMemory' = OneMemory /\ (line \in Pieces)' /\ Total(line)' = Total(line)
      /\ Closed(line)'
  BY <1>1 DEF Formatting, fullVars, vars, Delivered, Returned, OneMemory, Total, LengthsOf, Closed
<1> QED BY <1>2, <1>3, <1>4 DEF Formatting

LEMMA StartFormatting ==
  ASSUME CallInv, Uncounted, NotYet, StartFormat PROVE Formatting'
<1>1. PICK n \in MnemonicLengths, bits \in {16, 32, 128} : line' = LineOf(n, bits)
  BY DEF StartFormat
<1>2. /\ Delivered /\ size' \in TextSizes /\ rest' = line' /\ UNCHANGED fullVars
      /\ cursor' = cursor /\ written' = written /\ nul' = nul /\ ret' = ret
  BY DEF StartFormat
<1>3. n \in MnemonicLength /\ size' \in Nat
  BY <1>2, FormatAssumption
<1>4. Within4(insn.operandCount)
  BY <1>2, DeliveredOperands
<1>5. line' \in Pieces /\ (OneMemory => Total(line') <= 143) /\ Closed(line')
  BY <1>1, <1>3, <1>4, LineLength, LineCloses DEF OneMemory
<1>6. EmitP!EmitInv'
  <2>1. rest' \in Seq(EmitP!Piece)
    BY <1>2, <1>5 DEF Pieces, Emit!Piece, EmitP!Piece, Emit!Kind, EmitP!Kind
  <2>2. written' = {} /\ cursor' = 0 /\ nul' = -1 /\ ret' = "NONE"
    BY <1>2 DEF NotYet
  <2>3. 0..cursor' - 1 = {}
    BY <2>2
  <2>4. EmitP!EmitTypeOK'
    BY <1>3, <2>1, <2>2 DEF EmitP!EmitTypeOK
  <2>5. EmitP!NoGaps' /\ EmitP!TrueIsString'
    BY <2>2, <2>3 DEF EmitP!NoGaps, EmitP!TrueIsString
  <2>6. EmitP!InsideBuffer'
    BY <1>3, <2>2 DEF EmitP!InsideBuffer
  <2>7. nul' = -1 /\ (size' > 0 => cursor' <= size' - 1) /\ (size' = 0 => cursor' = 0)
    <3>0. \A s \in Nat : s > 0 => 0 <= s - 1
      OBVIOUS
    <3>1. size' > 0 => 0 <= size' - 1
      BY <1>3, <3>0
    <3> QED BY <2>2, <3>1
  <2> QED BY <2>4, <2>5, <2>6, <2>7 DEF EmitP!EmitInv
<1>7. Placed'
  <2> DEFINE N == Len(line')
  <2>1. N \in Nat /\ 0 \in 0..N /\ LengthsOf(line')[0] = 0
    BY <1>5, LengthsAdd DEF Pieces
  <2>2. line' = SubSeq(line', 0 + 1, N)
    BY <1>5 DEF Pieces
  <2>3. cursor' = 0 /\ ret' = "NONE" /\ rest' = line'
    BY <1>2 DEF NotYet
  <2>4. /\ rest' = SubSeq(line', 0 + 1, Len(line')) /\ cursor' = LengthsOf(line')[0]
        /\ ret' = "FALSE" => size' <= Total(line')
        /\ ret' = "TRUE" => 0 = Len(line') /\ nul' = cursor' /\ cursor' < size'
    BY <2>1, <2>2, <2>3
  <2> HIDE DEF N
  <2> QED BY <2>1, <2>4 DEF Placed, N, Total, LengthsOf
<1>8. Delivered' /\ OneMemory' = OneMemory
  BY <1>2 DEF fullVars, vars, Delivered, Returned, OneMemory
<1>9. (line \in Pieces)' /\ Total(line)' = Total(line') /\ Closed(line)'
  BY <1>5 DEF Total, LengthsOf, Closed
<1> QED BY <1>5, <1>6, <1>7, <1>8, <1>9 DEF Formatting

\* Before it formats, the caller runs decode_full.
LEMMA FormatRuns == FormatSpec => FullRun
<1>1. FormatInit => FullInit
  BY DEF FormatInit
<1>2. [FormatNext]_formatVars => [FullNext]_fullVars
  BY DEF FormatNext, formatVars, DecodeFull, StartFormat, WritePiece
<1> QED BY <1>1, <1>2, PTL DEF FormatSpec, FullRun

LEMMA FormatKept == FormatSpec => [](CallInv /\ FormatInv)
<1>1. FormatInit => FormatInv
  BY DEF FormatInit, FullInit, Init, CallerInsn, ZeroInsn, FormatInv, Uncounted, NotYet
<1>2. CallInv /\ FormatInv /\ [FormatNext]_formatVars => FormatInv'
  <2> SUFFICES ASSUME CallInv, FormatInv, [FormatNext]_formatVars PROVE FormatInv'
    OBVIOUS
  <2>1. [FullNext]_fullVars
    BY DEF FormatNext, formatVars, DecodeFull, StartFormat, WritePiece
  <2>2. Uncounted'
    BY <2>1, StepUncountedCall DEF FormatInv, CallInv, DecoderInv
  <2>3. CASE DecodeFull
    BY <2>2, <2>3 DEF DecodeFull, FormatInv, NotYet
  <2>4. CASE StartFormat
    BY <2>2, <2>4, StartFormatting DEF StartFormat, FormatInv
  <2>5. CASE WritePiece
    BY <2>2, <2>5, StepFormatting DEF WritePiece, FormatInv
  <2>6. CASE UNCHANGED formatVars
    <3>1. Formatting' = Formatting /\ NotYet' = NotYet /\ fstage' = fstage
      BY <2>6 DEF formatVars, fullVars, vars, Formatting, NotYet, Delivered, Returned, OneMemory, Placed, Total,
                  LengthsOf, Closed, EmitP!EmitInv, EmitP!EmitTypeOK, EmitP!NoGaps, EmitP!Running, EmitP!InsideBuffer,
                  EmitP!TrueIsString
    <3> QED BY <2>2, <3>1 DEF FormatInv
  <2> QED BY <2>3, <2>4, <2>5, <2>6 DEF FormatNext
<1> QED BY <1>1, <1>2, FormatRuns, CallKept, PTL DEF FormatSpec

---------------------------------------------------------------------------
\* x86dec_format_insn never writes behind the size it was given, whatever the
\* instruction: the emitter's invariant holds for the text that the decoded
\* operands make, and a text that is returned as whole is a string.
THEOREM FormatWritesInside == FormatSpec => [](Emit!InsideBuffer /\ Emit!TrueIsString)
<1>1. FormatInv => Emit!InsideBuffer /\ Emit!TrueIsString
  <2>1. CASE Formatting
    BY <2>1 DEF Formatting, EmitP!EmitInv, EmitP!InsideBuffer, EmitP!TrueIsString, Emit!InsideBuffer, Emit!TrueIsString
  <2>2. CASE NotYet
    BY <2>2 DEF NotYet, Emit!InsideBuffer, Emit!TrueIsString
  <2> QED BY <2>1, <2>2 DEF FormatInv
<1> QED BY <1>1, FormatKept, PTL

\* x86dec_format_insn returns true exactly when the whole text and its
\* terminator fit the size it was given, and then the terminator stands right
\* behind the text: for every buffer decoded, in every mode, and every size.
THEOREM TrueMeansFits == FormatSpec => []TrueIffItFits
<1>1. FormatInv => TrueIffItFits
  <2> SUFFICES ASSUME FormatInv, Formatted PROVE TrueIffItFits
    BY DEF TrueIffItFits
  <2>1. Formatting /\ ret \in {"TRUE", "FALSE"}
    BY DEF FormatInv, Formatted, Formatting, EmitP!EmitInv, EmitP!EmitTypeOK
  <2>2. TextLength = Total(line) /\ Total(line) \in Nat /\ size \in Nat
    BY <2>1, TotalNat DEF TextLength, Total, Formatting, EmitP!EmitInv, EmitP!EmitTypeOK
  <2>3. PICK n \in 0..Len(line) : /\ cursor = LengthsOf(line)[n]
                                  /\ ret = "FALSE" => size <= Total(line)
                                  /\ ret = "TRUE" => n = Len(line) /\ nul = cursor /\ cursor < size
    BY <2>1 DEF Formatting, Placed
  <2>4. ret = "TRUE" => nul = TextLength /\ TextLength < size
    BY <2>2, <2>3 DEF Total
  <2> QED BY <2>1, <2>2, <2>3, <2>4 DEF TrueIffItFits
<1> QED BY <1>1, FormatKept, PTL

\* The 160 bytes that check_one of the test runner formats into hold the text
\* of every instruction, which so never fails for want of room: a text has at
\* most 143 characters, since no instruction has two memory operands.
THEOREM CheckOneHasRoom == FormatSpec => []CheckOneNeverCut
<1>1. FormatInv /\ TrueIffItFits /\ DisplacementBeforeImmediates /\ CallInv => CheckOneNeverCut
  <2> SUFFICES ASSUME FormatInv, TrueIffItFits, DisplacementBeforeImmediates, CallInv, Formatted, size = 160
               PROVE  ret = "TRUE"
    BY DEF CheckOneNeverCut, CheckOneText
  <2>1. Formatting /\ Delivered
    BY DEF FormatInv, Formatted, Formatting
  <2>2. Cardinality({s \in Indices : slots[s].type = "MEM"}) <= 1
    BY <2>1 DEF DisplacementBeforeImmediates
  <2>3. insn.operandCount = 0 \/ insn.operandCount = Count
    BY DEF FormatInv, Uncounted, CallInv, DecoderInv, EntryInv, Handed, Count, ctx
  <2>c. Count \in Nat
    BY ContextCount DEF CallInv
  <2>4. OneMemory
    <3> SUFFICES ASSUME NEW s \in 1..insn.operandCount, NEW u \in 1..insn.operandCount,
                        slots[s].type = "MEM", slots[u].type = "MEM" PROVE s = u
      BY DEF OneMemory
    <3> DEFINE M == {q \in Indices : slots[q].type = "MEM"}
    <3>1. s \in M /\ u \in M
      BY <2>3 DEF Indices
    <3>2. IsFiniteSet(M)
      <4>1. IsFiniteSet(1..Count)
        BY <2>c, FS_Interval
      <4> QED BY <4>1, FS_Subset DEF Indices
    <3>3. Cardinality(M) \in Nat /\ Cardinality(M) <= 1
      BY <2>2, <3>2, FS_CardinalityType
    <3> HIDE DEF M
    <3>4. M # {} => Cardinality(M) = 1
      BY <3>2, <3>3, FS_EmptySet
    <3> QED BY <3>1, <3>2, <3>4, FS_Singleton
  <2>5. Total(line) <= 143 /\ Total(line) \in Nat /\ TextLength = Total(line)
    BY <2>1, <2>4, TotalNat DEF Formatting, TextLength, Total
  <2>6. TextLength < size
    BY <2>5
  <2> QED BY <2>6 DEF TrueIffItFits
<1> QED BY <1>1, FormatKept, FormatRuns, DisplacementKept, TrueMeansFits, PTL

\* What stands in brackets can be read back, for every memory operand that
\* format_memory is handed: a bracket opened is closed, and every piece between
\* them is followed by one that may stand there, so no sign is doubled or left
\* without its term.
THEOREM AddressesRead == FormatSpec => []AddressReadable
<1>1. FormatInv => AddressReadable
  <2>1. ASSUME Closed(line) PROVE AddressReadable
    <3>1. line \in Pieces /\ DOMAIN line = 1..Len(line) /\ Len(line) \in Nat
      BY <2>1 DEF Closed, Pieces
    <3> SUFFICES ASSUME NEW open \in 1..Len(line), line[open].kind = "open",
                        NEW close, close = Min({c \in DOMAIN line : c > open /\ line[c].kind = "close"} \cup {Len(line) + 1})
                 PROVE  close <= Len(line) /\ \A p \in open..close - 1 : line[p + 1].kind \in Starts(line[p].kind)
      BY <3>1 DEF AddressReadable
    <3>2. PICK c \in open + 1..Len(line) :
            /\ line[c].kind = "close" /\ \A p \in open + 1..c - 1 : line[p].kind # "close"
            /\ \A p \in open..c - 1 : line[p + 1].kind \in Starts(line[p].kind)
      BY <2>1 DEF Closed
    <3> DEFINE S == {d \in DOMAIN line : d > open /\ line[d].kind = "close"} \cup {Len(line) + 1}
    <3>3. c \in S /\ \A d \in S : c <= d
      <4>1. c \in S /\ c <= Len(line) + 1
        BY <3>1, <3>2
      <4>2. ASSUME NEW d \in 1..Len(line), d > open, line[d].kind = "close" PROVE c <= d
        <5>1. CASE d < c
          <6>1. d \in open + 1..c - 1
            BY <4>2, <5>1
          <6> QED BY <3>2, <4>2, <6>1
        <5> QED BY <5>1, <3>1
      <4> QED BY <3>1, <4>1, <4>2
    <3>4. \A d \in S : d \in Int
      BY <3>1
    <3> HIDE DEF S
    <3>5. Min(S) \in S /\ \A d \in S : Min(S) <= d
      BY <3>3, Zenon DEF Min
    <3>6. Min(S) = c
      <4> DEFINE m == Min(S)
      <4>1. m \in S /\ c \in S /\ m <= c /\ c <= m
        BY <3>3, <3>5
      <4> HIDE DEF m
      <4>2. m \in Int /\ c \in Int
        BY <3>4, <4>1
      <4> QED BY <4>1, <4>2 DEF m
    <3>7. close = c /\ c <= Len(line)
      BY <3>1, <3>6 DEF S
    <3> QED BY <3>2, <3>7
  <2>2. ASSUME line = <<>> PROVE AddressReadable
    <3>1. DOMAIN line = {}
      BY <2>2
    <3> QED BY <3>1 DEF AddressReadable
  <2> QED BY <2>1, <2>2 DEF FormatInv, Formatting, NotYet
<1> QED BY <1>1, FormatKept, PTL
=============================================================================
