----------------------------- MODULE MCEmitter -----------------------------
(***************************************************************************)
(* Instances of the emitter for TLC: every sequence of up to three pieces, *)
(* long numbers among them, in every small buffer.                         *)
(***************************************************************************)
EXTENDS Emitter

MCPieces == {[kind |-> "text", len |-> 1], [kind |-> "text", len |-> 4],
             [kind |-> "hex", len |-> 3], [kind |-> "hex", len |-> 6]}
MCLines  == UNION {[1..n -> MCPieces] : n \in 0..3}
MCSizes  == 0..16
=============================================================================
