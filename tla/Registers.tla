------------------------------ MODULE Registers ------------------------------
(***************************************************************************)
(* The register enumeration (include/x86dec/core/register.h).  The operand *)
(* builder computes registers by adding to the first one of a family, so a *)
(* register is the number the enumeration gives it: a sum that leaves its  *)
(* family names a register of the next one.                                *)
(***************************************************************************)
EXTENDS Integers

REG_NONE == 0

\* The general registers: sixteen of each width, widest first, then the four
\* high bytes.
RAX == 1
EAX == 17
AX  == 33
AL  == 49
AH  == 65
REG_IP == 69
EIP == 70
RIP == 71
\* The segment registers, in the order of the reg field of MOV Sreg.
ES == 72
CS == 73
SS == 74
DS == 75
FS == 76
GS == 77
CR0   == 78
DR0   == 94
ST0   == 102
MM0   == 110
XMM0  == 118
YMM0  == 134
XMM16 == 150
REG_COUNT == 222
Register == 0..REG_COUNT - 1

Gpr64   == RAX..EAX - 1
Gpr32   == EAX..AX - 1
Gpr16   == AX..AL - 1
Gpr8    == AL..AH - 1
High8   == AH..REG_IP - 1
Segment == ES..GS
Control == CR0..DR0 - 1
Debug   == DR0..ST0 - 1
X87     == ST0..MM0 - 1
Mmx     == MM0..XMM0 - 1
Xmm     == XMM0..YMM0 - 1
Ymm     == YMM0..XMM16 - 1

\* How many bits a general register has.
Gpr == Gpr64 \cup Gpr32 \cup Gpr16 \cup Gpr8 \cup High8
BitsOf(reg) ==
  CASE reg \in Gpr64 -> 64 [] reg \in Gpr32 -> 32 [] reg \in Gpr16 -> 16 [] OTHER -> 8

\* What only 64-bit mode has: registers 8-15 of each file, SPL to DIL, 64-bit
\* registers, and RIP as a base.
Second(first) == first + 8..first + 15
LongOnly ==
  Gpr64 \cup Second(EAX) \cup Second(AX) \cup Second(AL) \cup AL + 4..AL + 7 \cup {RIP}
    \cup Second(CR0) \cup Second(XMM0) \cup Second(YMM0)

\* gpr: a family of registers and a slot, 0 the widest.  eosz_slot picks the
\* slot of a size.  gpr8: without REX, 4-7 name the high bytes.
gpr(family, slot) == RAX + family + 16 * slot
eosz_slot(size)    == CASE size = 64 -> 0 [] size = 32 -> 1 [] OTHER -> 2
\* Mutant: high bytes beside REX.
gpr8High(id, hasRex) == IF id \in 4..7 THEN AH + (id - 4) ELSE gpr(id % 16, 3)
gpr8(id, hasRex) == IF ~hasRex /\ id \in 4..7 THEN AH + (id - 4) ELSE gpr(id % 16, 3)
=============================================================================
