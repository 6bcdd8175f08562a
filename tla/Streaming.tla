----------------------------- MODULE Streaming -----------------------------
(***************************************************************************)
(* A caller that receives a stream byte by byte and calls                  *)
(* x86dec_decode_insn on what it has, again and again: NEED_MORE makes it  *)
(* wait for one byte more.  It also repeats a call that did return a       *)
(* verdict, with one byte more, to see whether the verdict stands.  The    *)
(* decoder keeps nothing between calls, so each call starts from scratch.  *)
(***************************************************************************)
EXTENDS DecoderProperties

CONSTANT Streams   \* the byte sequences that may arrive
ASSUME StreamsAssumption == Streams \subseteq Seq(Byte)

VARIABLES stream,  \* what will arrive; buf is the part that has
          first    \* what the first call with a verdict returned, or Undecided
streamVars == <<vars, stream, first>>

Undecided == [status |-> "NONE", insn |-> CallerInsn, context |-> CallerContext]
Outcome   == [status |-> status, insn |-> insn, context |-> context]
Decided   == pc = "done" /\ status \notin {"NEED_MORE", "BAD_ARG"}

\* Streams are the buffers' superset: a buffer is what has arrived so far.
StreamInit ==
  /\ Init
  /\ stream \in Streams
  /\ buf = <<>>
  /\ first = Undecided

\* A call starts over with one byte more.
CallAgain ==
  /\ Len(buf) < Len(stream)
  /\ NewCall(SubSeq(stream, 1, Len(buf) + 1))
  /\ UNCHANGED stream

WaitForMore ==
  /\ pc = "done" /\ status \in {"NEED_MORE", "BAD_ARG"}
  /\ CallAgain
  /\ UNCHANGED first

CheckAgain ==
  /\ Decided
  /\ CallAgain
  /\ first' = IF first = Undecided THEN Outcome ELSE first

StreamNext == (Next /\ UNCHANGED <<stream, first>>) \/ WaitForMore \/ CheckAgain

\* A stream that still has bytes delivers them, and the caller calls again.
StreamSpec == StreamInit /\ [][StreamNext]_streamVars /\ WF_streamVars(StreamNext)

---------------------------------------------------------------------------
\* Once a call has accepted or refused a prefix of the stream, a call with
\* more bytes returns the same: the same verdict, instruction and context.
\* The decoder never looks past the instruction it returns, neither in the
\* three-byte look-ahead for VZEROALL nor when it peeks for prefixes and REX.
VerdictStands == Decided /\ first # Undecided => Outcome = first

\* A verdict comes with the very byte that completes it: a stream fed byte by
\* byte leaves nothing unread when the first verdict arrives.
DecidesOnLastByte == Decided /\ first = Undecided => pos = Len(buf)

\* Twenty bytes always decide, although fifteen do not.
Decides == <>(first # Undecided \/ Decided)
=============================================================================
