# A verification project for x86dec

`x86dec` is a table-driven x86 instruction decoder in C. This directory holds TLA+ modules that
model its decode path, TLC configurations that check them on finite families of buffers, and TLAPS
proofs of results that hold for every buffer, every way to call, every text and every number of threads. Paths below are relative to the repository.

## The system

| component | files | state | operations |
|---|---|---|---|
| decoder object | `src/decode/decoder.c:37`, `include/x86dec/decode/decoder.h` | mode, stack width | `x86dec_decoder_init` |
| prefix scan | `src/decode/prefix.c`, `scan.h` | cursor, `X86decRaw` | `x86dec_scan_prefixes`, `x86dec_take` |
| driver | `src/decode/decoder.c` | cursor, raw, sizes, map and opcode, entry; writes `X86decInsn`, `X86decContext` | `x86dec_decode_insn` |
| ModRM tail | `src/decode/mem.c` | cursor, raw | `x86dec_scan_tail` |
| VEX front-end | `src/decode/vex.c` | cursor, VEX fields, entry | `x86dec_decode_vex` |
| resolver | `src/decode/table_groups.c` | none | `x86dec_resolve` and what it calls |
| tables | `src/decode/table_*.c` | constant | look-ups |
| operand builder | `src/decode/operands.c` | immediate offset; writes `X86decOperand[]` | `x86dec_decode_operands` |
| one-call interface | `src/decode/decoder.c:609` | none | `x86dec_decode_full` |
| formatter | `src/format/formatter.c` | output cursor | `x86dec_format_insn` |
| test runner, benches | `src/main.c`, `src/test/` | counters; threads in `bench_mt` | `main` |
| comparison bench | `bench/bench_zydis.c`, `vendor/zydis` | counters | third-party code |

How they interact. A caller passes a decoder, a buffer and result structures to
`x86dec_decode_insn`. The driver moves one cursor through the prefix scan, REX, the opcode bytes
and either the VEX front-end or the ModRM tail; then a resolver turns opcode, ModRM byte and
prefix flags into an *entry*, a mnemonic and up to four operand *shapes*; the driver collects
the immediate bytes the shapes call for and copies everything into the *instruction* and the
*context*. The operand builder later works from the context alone, so what the driver leaves
there is a contract between the two. The decoder object is shared and never written after its
initialisation; a call keeps nothing for the next one.

The formatter takes what both left and writes a text into a buffer of the caller's, piece by piece.
The test runner makes all three calls for each of its vectors; the benches sweep over a corpus of code,
advancing by the length of each instruction, and the multi-thread bench lets several threads do so.

What is hard here. There is no concurrency inside a call; `bench_mt` is the one place with threads, and
its array of results lives in the frame of a function that can return early. Elsewhere the difficulty is in long sequences of
small decisions about the same bytes, made in different files: the prefix scan hands a ninth
prefix to the opcode step, the driver looks three bytes ahead for one encoding of VZEROALL and
steps back for all the others, sizes change between the choice of the entry and its immediates,
the immediates are sized twice by two copies of the same rule, the length limit is tested last,
and any step can run out of bytes and return `NEED_MORE` to a caller who will come back with more.

What makes it correct:

* cursor, prefixes, tail: every byte of an accepted instruction is accounted for exactly once,
  offsets point at what they name, nothing is read past the buffer or past a fixed bound, the
  array of prefix bytes does not overflow;
* driver: exactly one verdict, with the length that belongs to it; the verdict does not depend on
  bytes behind the instruction; every call returns;
* resolver and tables: an accepted entry has the bytes, the mod and the VEX fields its operands
  are built from; nothing of 64-bit mode appears outside it;
* driver and operand builder: the context has a shape for every operand and the immediate bytes
  of every shape; each operand is a register of the right family and width, an address, or bytes of the
  instruction that no other operand uses; a call gives all operands or none;
* formatter: nothing outside the buffer, true exactly when the whole text fits, text that can be read back;
* benches: a sweep stays inside the corpus and does the same every time; a total counts all the work,
  and no thread uses a frame that is gone.

## The modules

| module | models | correspondence |
|---|---|---|
| `Bytes` | bytes and ModRM fields | `x(C, 4)` is the byte `0xC4` |
| `Entries` | `tables.h`: shapes, entries, columns, flags | an entry is `[mn, shapes]`, `count` is the length of `shapes`; only A0 to A3 have a memory offset |
| `LegacyTables` | `table_legacy.c`, `table_0f.c` | `Map0`, `Map1`: a row for every opcode |
| `SseTables` | `table_sse.c`, `table_sse_mov.c`, `table_sse_alu.c` | `ResolveSse` is `x86dec_resolve_sse` |
| `CryptoTables` | `table_crypto.c`, `table_0f38_legacy.c`, `table_0f3a_legacy.c` | `ResolveCrypto` is `x86dec_resolve_crypto` |
| `FpuTables` | `table_fpu.c`, `table_fpu2.c` | `ResolveFpu` is `x86dec_resolve_fpu_low` and `_high` |
| `Resolve` | `table_groups.c`, `table_3dnow.c` | `ResolveEntry` is `x86dec_resolve` |
| `VexTables` | `table_vex.c` | `VexVariant` picks a row's column |
| `Vex` | `vex.c`, and the VEX part of `decoder.c` | `DecodeVex` is `x86dec_decode_vex`, `ResolveVex` what follows its ModRM byte |
| `Decoder` | `decoder.c`, `prefix.c`, `mem.c`, `scan.h` | the state machine, see below |
| `DecodeContract` | what a caller may rely on | abstract: stages, bytes taken, verdict, length |
| `DecoderProperties` | properties of a call, and the refinement mapping | |
| `Streaming` | a caller who waits for more bytes | composes `Decoder` with a caller |
| `Registers` | `core/register.h`, the register helpers of `operands.c` | a register is its number in the enumeration |
| `Words` | 64-bit values | eight bytes, least significant first: extension and negation act on bytes |
| `Operands` | `operands.c`, `x86dec_decode_full` | composes `Decoder` with the builder and its callers, see below |
| `OperandProperties` | properties of the calls and of operands | |
| `Emitter` | `emit_text`, `emit_char`, `emit_hex`, the terminator | a piece is its kind and its length |
| `Formatter` | `x86dec_format_insn` and `format_demo`'s use of it | composes `Operands` with `Emitter` (an `INSTANCE`) |
| `CheckVectors` | `check_one` and the loop over the vectors | composes `Formatter` with the runner |
| `Sweep` | `bench`, `bench_insn_only` | composes `Operands` with a caller that makes call after call |
| `BenchThreads` | `bench_mt`, `bench_thread_proc` | one repetition is one step; what it does is `Sweep`'s |
| `MCDecoder`, `MCStreaming`, `MCOperands`, `MCEmitter`, `MCFormatter`, `MCCheckVectors`, `MCSweep`, `MCBenchThreads` | instances for TLC | families of buffers, calls, texts, vectors, corpora |
| `TableProofs` | lemmas and theorems about the tables and resolvers | types, fit with ModRM, budgets of bytes, addresses |
| `DecoderProofs` | theorems about a call of `x86dec_decode_insn` | types and cursor, then the ledger of lengths, then the entry: each part adds a layer to the invariant of the one before |
| `OperandProofs` | lemmas about the operand builder | what `Built` makes of each shape of an accepted instruction |
| `CallProofs` | theorems about calls and operands | extends `OperandProofs` |
| `RepeatProofs` | theorems about callers that call again and again | extends `CallProofs`, `Streaming`, `Sweep` |
| `FormatterProofs` | theorems about the texts of instructions | extends `CallProofs`, `Formatter`; cites `EmitterProofs` |
| `EmitterProofs`, `BenchThreadsProofs` | theorems about the emitters and about threads | |

The tables are written as sets of opcodes that share a row. An opcode's name is kept only if the
decode path tests it (`PUSH`, `MOVQ`, `PAUSE`, ...), otherwise its mnemonic is `"INSN"`; MOVLPS to
LDDQU, which may not have a register operand, share `"MOVMEM"`, the VEX counterparts `"VMOVNT"` and
the operations that need VEX.L = 1 `"V256"`.

`Decoder` has one action per decision of `x86dec_decode_insn`:

| `pc` | actions | code |
|---|---|---|
| `call` | `RejectArgs`, `Begin` | `decoder.c:85-102` |
| `prefix` | `TakePrefix`, `EndPrefixes` | `prefix.c:29-89`, `decoder.c:104-116` |
| `rex` | `TakeRex`, `NoRex` | `decoder.c:118-131` |
| `opcode`, `escape`, `opcode3` | `TakeOpcode`, `TakeEscape`, `TakeOpcode3` | `decoder.c:133-151` |
| `dispatch` | `DispatchVzeroall`, `DispatchVex`, `DispatchEvex`, `DispatchLegacy` | `decoder.c:153-180`, `402-425` |
| `synth` | `RejectSynth`, `AcceptSynth` | `decoder.c:212-230` |
| `modrm`, `sib`, `disp` | `TakeModrm`, `TakeSib`, `TakeDisp` | `mem.c` |
| `tail` | `TakeTail` | `decoder.c:427-433` |
| `resolve` | `ResolveOk`, `ResolveFails` | `decoder.c:233-442` |
| `promote` | `Promote` | `decoder.c:444-471` |
| `operands` | `TakeOperand`, `TooLong`, `Finish` | `decoder.c:473-607` |
| any of them | `RunOut` | `scan.h:15-26` and the early returns behind it |

The variables `raw`, `eosz`, `easz`, `map`, `opcode`, `tail`, `entry` are the locals of the same
name; `pos` is `cursor.pos`; `form` and `vex` stand for `use_synth` and the VEX fields of the entry;
`insn`, `context` and `status` are what the caller gets. A field of several bytes is taken in one
step: no property looks between two bytes of a displacement, and when the bytes do not suffice
the cursor is left at the end of the buffer, as the loops of the code leave it.

Left out of `Decoder` because nothing in the decode path depends on it: the values of displacements, immediates
and memory offsets, which `Operands` reads from the buffer where the code keeps them in `raw`; mnemonics beyond
those named; operand sizes of memory other than the test "32 or 64 bits wide" that `vex_check` makes. `RejectArgs`
models the one bad argument that is data, an empty buffer; null pointers return the same way. The decode with
`context == NULL` differs only in where the context is written.

`Operands` adds the operand builder and the two ways of calling it:

| `stage` | actions | code |
|---|---|---|
| `call` | `RejectFull`, `StartDecode` | `decoder.c:616-620` |
| `decode` | `DecodeStep` (a step of `Decoder`), `DecodeFails`, `DecodeReturns` | `decoder.c:620-627` |
| `check` | `RejectArray`, `StartBuild` | `operands.c:260-288` |
| `build` | `BuildOperand`, one turn of the loop over the shapes; `FinishBuild` | `operands.c:288-765` |

A caller with `args.full = FALSE` makes the two calls itself and goes on after a failure of the first, as the
interface lets it. `Built` is the switch over the shapes; `build_mem`, `take_imm`, `gpr`, `gpr8`, `eosz_slot`
keep their names; `slots` is the caller's array, in which `Untouched` marks what nobody wrote. The sizes of MMX, XMM and YMM
operands are one value, `Unsized`: the code takes them from lists of mnemonics this model does not tell apart.

`Formatter` lays out `line`, the pieces of the whole text, from instruction and operands, and lets `Emitter` write it:
`EmitPiece` writes a piece that fits, `Cut` the first digits of a number that does not, `EmitFails` returns false,
`Terminate` writes the NUL and returns true. The length of a mnemonic is any there is in the table.

`BenchThreads` has one action for each step of the main thread (`CreateThread`, `CreateFails`, `AllCreated`,
`WaitForAll`, `AddCount`, `Report`, `Exit`) and two for each worker (`Repeat`, `ExitThread`). When `bench_mt` has returned,
its frame is gone, and a worker that reads its share there may find anything: the model offers it its share or nothing.

`Sweep` makes call after call with the same structures: `NewCall` of `Decoder` resets the working set of a call and
nothing of the caller's. `CheckVectors` compares
verdict, length and length of text; `MCCheckVectors` has 100 of the 290 test vectors, one for each kind of encoding: the rest
differ from one of these in an opcode of the same row or in a register.

While the modules were written, all tables, `x86dec_decode_insn`, the operand builder and the text lengths were
compared with the compiled C code: resolver by resolver over all opcodes, ModRM bytes and flags, call by call over
random buffers in 64-, 32- and 16-bit modes, and over the vectors, until no difference was left. That comparison is not
part of this directory.

## What the runs check

They say `CHECK_DEADLOCK FALSE`: every call, bench and test ends.

| run | instance | properties |
|---|---|---|
| `opcodes` | all opcodes of maps 0, 0F, 0F38, 0F3A behind six prefix sets and all groups with every `reg`, 64-bit mode; maps 0 and 0F in `LEGACY_32` and `REAL_16`, bare and behind 66 and 67; the three VEX maps in all columns, wrong fields, C5 forms, deferred entries; 0 to 9 prefixes and 0 to 2 REX before twelve instructions truncated after every byte, three modes | `TypeOK`, `ByteAccounting`, `OffsetsPointRight`, `ReadBound`, `PrefixNeverOpcode`, `ImmediatesReconcile`, `ContextComplete`, `OperandsBacked`, `StackWidth`, `LegacyStays32`, `VexFieldsUsed`, `KeepsContract`, `StarvedTellsLength` |
| `streaming` | streams of 22 bytes or more from every front-end, legal and not, delivered byte by byte; three modes | `VerdictStands`, `DecidesOnLastByte`, `Decides` |
| `operands` | an opcode or more for every shape, with registers, addresses and SIB bytes, behind 13 prefix sets in 64-bit mode and six outside it; VEX | `RegistersInFamily`, `MemoryAddressed`, `ImmediatesTiled`, `DisplacementBeforeImmediates` |
| `operand_calls` | instructions of nought to four operands, good, bad and truncated; `decode_full` and the two calls, with no array or room for 0 to 10 operands; three modes | `FullTypeOK`, `AllOrNothing`, `FourSlotsSuffice`, `FailedCallBuildsNothing`, `FullReturns` |
| `emitter` | sequences of pieces of all kinds and lengths into buffers of 0 and more bytes | `InsideBuffer`, `TrueIsString` |
| `formatter` | 24 instructions with short texts and the longest there are, in buffers of 0 to 48 bytes and of 160; 100 vectors of `main.c` and `vectors_ext.c` through `check_one` | `TrueIffItFits`, `CheckOneNeverCut`, `AddressReadable`, `FormatReturns`, `EveryVectorPasses` |
| `bench_threads` | 0 to 4 processors, room for 3 threads, 0 to 5 repetitions, creation that may fail at each thread | `BenchTypeOK`, `TotalIsAllWork`, `ReadAfterExit`, `BenchEnds` |
| `sweep` | the benches' corpus cut after every byte, corpora with prefixes, wide and refused instructions; three repetitions of each bench; three modes | `SweepInBounds`, `RepsAgree`, `BenchesAgree`, `SweepEnds` |
| `short_vex`, `rex_x_index`, `byte_immediates`, `create_fails` | instances of the above | one claim of `src/README.md` each, which TLC refutes |

`DecodeSpec`, `OperandSpec` and `FormatterSpec` of the MC modules are `Spec`, `FullSpec` and `CheckSpec` with an initial
state narrowed to the modes in which a family of buffers is of interest; the first two leave fairness out, for their runs check
safety alone.

What they show:

* **Lengths.** `ByteAccounting` compares the reported length with the sum of the reported fields, for every
  opcode and column. It relates four files that each move the cursor.
* **Builder contract.** `ImmediatesReconcile` compares the two copies of the immediate-size rule, over all
  entries and widths; `ContextComplete` finds that no entry outside VEX has four shapes, so copying three is
  enough; `OperandsBacked` that every operand has the bytes and fields it is built from.
* **Bounds.** Eight prefix bytes at most; no more than 20 bytes of a buffer are ever looked at, although the
  limit of 15 is enforced only at the end (so an over-long instruction cut off at 15 bytes is answered
  `NEED_MORE`, and refused once it is complete).
* **Streaming.** A verdict arrives with the byte that completes it, and stands when more bytes follow.
* **Promotion.** `StackWidth` names the stack operations by their opcodes, in whatever row or group they are found, and not by
  the mnemonics the promotion tests: they are 64 bits wide unless 66 without REX.W makes them 16. `PUSHFQ` and `POPFQ` are not: the
  resolver has renamed them by then (`table_groups.c:160`), the promotion knows `PUSHF` and `POPF` (`decoder.c:444`), and they
  are reported with 32 bits. The property states that too. Nothing in the repository says what width they should have.
* **Running out.** `KeepsContract` allows a `NEED_MORE` two lengths; `StarvedTellsLength` says when it is which: the bytes given
  if they end within a VEX prefix and its opcode, 0 anywhere else.
* **Operands.** Registers stay in their families under REX and VEX, but for segment registers with REX.R (see below). The
  immediate operands, put one behind the other, are the last bytes of the instruction: `ImmediatesTiled` and
  `DisplacementBeforeImmediates` tie the builder's own cursor to the driver's.
* **Calls.** An array is written completely or not at all, four slots are enough for every instruction, and a caller who
  ignores a failure builds nothing from an earlier call's context, because the driver clears it first.
* **Texts.** The checks of the single pieces add up to the right answer for the whole text, and 160 bytes hold the longest.
* **Benches.** Lengths keep the sweep in the corpus and moving; nothing leaks from one call into the next; both
  benches see the same instructions; shares, waiting and summing leave no repetition out, in any interleaving.

Bounds. A call's state is determined by its buffer and its arguments, so what matters is which are tried. All 256
opcodes of each map are tried, ModRM bytes cover both kinds of mod, a SIB byte, a disp32 base and, for the
opcodes whose entry depends on `reg`, all of `reg`; prefix sets reach each of the four table columns. Buffers are
padded with zeros to more than any instruction takes, so no opcode is cut short; truncation is the subject of
the fourth family of `opcodes`, of `operand_calls` and of `streaming`. `MaxRead` is 20 and streams have at least 22 bytes. In
`operands` every shape meets every prefix set with five kinds of ModRM byte, and seven opcodes meet all of them: the builder
looks at shape and address in different functions. Trailing bytes are all different and of both signs, so that bytes
in the wrong order or of the wrong sign show. Buffers of the formatter reach past the length of the shorter texts, and the
longest texts are those with three flags, a segment, two registers, a displacement and an immediate. Three threads
are enough for one that is first, one that gets no remainder and one between; four processors exceed the room, as 65 do in the code.

Fairness. A call runs to its end in the caller's thread and never blocks: weak fairness of `FullNext`, `CheckNext`,
`SweepNext`. The streaming caller is assumed to receive the bytes that its stream has and to call again: weak fairness of
`StreamNext`. In `BenchSpec` the main thread and each worker are scheduled by the operating system: weak fairness of
`Main` and of each `Worker(t)`. No property relies on fairness of a single action.

Mutants. Definitions marked "Mutant" are plausible slips (a forgotten guard, an off-by-one), written next to
the definition they would replace. No action uses them. Replacing the definition by its mutant makes the
property that `PROJECT.json` pairs with it fail in the named run, which shows that the property can fail there.

## Where documentation and code differ

Shown by a run, and defects:

* `short_vex`: the two-byte VEX form computes R from the C5 byte instead of the one behind it (`vex.c:235`),
  so the registers 8 to 15 are out of its reach.
* `rex_x_index`: an index field of 4 means "no index" before REX.X is looked at (`operands.c:209`), so R12 as an index
  is dropped from the address.
* `byte_immediates`: the byte of `83 /r ib` and `6B /r ib` is zero-extended (`operands.c:457`).
* `create_fails`: when `CreateThread` fails, `bench_mt` returns while threads still use `thread_data` in its frame
  (`main.c:481`). `README.md:15` calls the project thread-safe and names this bench beside the library; of the library itself it is
  right, for a call keeps all its state on its caller's stack.

Met while modelling, and left in the model as the code has them:

* `MOV` to or from a segment register adds REX.R to the register number and names a control register
  (`operands.c:444`); `RegistersInFamily` says that this happens with REX.R and never without it.
* In 64-bit mode a second REX byte is decoded as a one-byte INC or DEC (`decoder.c:118`).
* The scan stops after eight prefixes and the ninth is refused as an opcode (`prefix.c:36`).
* `PUSHFQ` and `POPFQ` are reported 32 bits wide (`table_groups.c:160`, `decoder.c:444`); `StackWidth` states it.
* XOP encodings are `UNSUPPORTED` only in 64-bit mode (`table_groups.c:142`).
* `README.md:91` shows an array of ten operands; an entry has four at most.

## What is proved

### The decoder

`TableProofs` and `DecoderProofs` hold for every set of buffers and every set of initialised decoders, under
the two assumptions `Decoder` states: buffers are sequences of bytes, decoders have passed `x86dec_decoder_init`.

* `ResolveEntryType`, `DecodeVexType`: every look-up returns a status and an entry made of known shapes;
  `DecodeVex` leaves the cursor inside the buffer, and at its end when bytes run out. They rest on one lemma per table
  (`ResolveSseType`, `ResolveCryptoType`, `ResolveFpuType`, ...).
* `TypeCorrect`: `Spec => []TypeOK`. The interesting conjunct is `raw.count <= 8`, the bound of the prefix array.
* `ContractKept`: `Spec => KeepsContract`, the decoder refines `DecodeContract`. Stages follow one another, the
  cursor never passes the end of the buffer, an accepted instruction has 1 to 15 bytes and its reported length is
  what the cursor passed, a refused one consumed at least a byte, `NEED_MORE` used up every byte.

`TypeOK` is not strong enough for the refinement: that a refused instruction consumed a byte needs `pos >= 1` from
the opcode step on, and stepping back onto C4 needs to know that this byte is the one just read. The
inductive invariant `IndInv` is `TypeOK` with `CursorInv`, which adds: the cursor is inside the buffer; `map` is 0 until
an escape was read; `pos >= 1` behind the opcode step; at `dispatch` of a one-byte opcode `buf[pos]` is that opcode; while the call runs
the result has length 0 and the buffer is not empty. Each action has a step of the proof; `DispatchVex` uses
`DecodeVexType`, the two resolve actions use `ResolveEntryType` and its companions.

The second part of `DecoderProofs` follows every byte of an accepted instruction.

* `BytesAccounted`: `Spec => []ByteAccounting`, the length is the sum of the reported fields.
* `OffsetsRecorded`: `Spec => []OffsetsPointRight`.

They speak of the end of a call only, so that the invariant has to say what holds on the way: `LengthInv` is a ledger of the fields
read so far. `Opening` and `OpcodeRead` tie the cursor to the prefixes and the opcode bytes; `Unread` says that a field
still to come is as `Begin` cleared it, and that a VEX form is chosen only where nothing behind the opcode was read yet; `ModrmRead` holds the
two bytes at their offsets; in `Ledger` the cursor is the sum of `FieldBytes` from the displacement on. The step that
could break the sum is `TakeOperand`: `raw` has one flag for a memory offset, and two offsets would be counted once. That
no entry has two is a fact about the tables, part of their type: `OperandLists` are the lists without an offset and the four
of A0 to A3. The other such fact is `AmdHasModrm`: the opcode of a 3DNow! instruction is behind a tail, and 0F 0F has a ModRM byte, so
that the step that reads the tail is never skipped.

Its third part ties the entry to the bytes that were read.

* `ContextHoldsAll` (`ContextComplete`), `OperandsHaveBytes` (`OperandsBacked`), `ImmediatesAgree` (`ImmediatesReconcile`): what the
  operand builder relies on.
* `PrefixesStayPrefixes` (`PrefixNeverOpcode`), `StackOperationsWide` (`StackWidth`), `LegacyModes` (`LegacyStays32`),
  `VexFieldsHaveUse` (`VexFieldsUsed`): what prefixes and modes allow; the second also says what PUSHFQ and POPFQ are left with.
* `ReadsBounded` (`ReadBound`): 20 bytes.
* `StarvedLength` (`StarvedTellsLength`): the length that comes with `NEED_MORE`.

`EntryInv` has six parts. `Modes` says which sizes the mode and the prefixes leave possible at each `pc`; `TailRead` that a
legacy instruction has read a ModRM byte exactly when its opcode asks for one; `VexRead` and `LegacyFit` that the entry
goes with that byte and asks for no more bytes than its form has room for; `Collected` that `raw.immSize` is the sum over the
operands passed so far; `Handed` that the context is all of this. The facts about single rows are lemmas of `TableProofs`:
each list of shapes is within a number of operands and a *budget* of bytes (`Fits`, `Bare`, `VexList`): four behind a ModRM
byte of the one-byte map, one in the other maps and behind VEX, eight without ModRM. `ReadsBounded` adds up: a call that is still
to read an operand has its share of the budget left, and prefixes, opcode and tail take the rest.

Two small invariants stand beside `EntryInv`. `StackNames`, for `StackOperationsWide`, ties the name of an entry to its opcode:
`StackResolved` goes through the rows of the stack operations and through group 5 to show that their names are among those the
promotion tests, and that 9C and 9D have lost theirs. `BytesSeen`, for `StarvedLength`, says that a legacy opcode is never the start of a VEX prefix,
that behind a VEX prefix its bytes are all there, and that the caller's instruction is clear while a call scans.

### The operands and the calls

`OperandProofs` and `CallProofs` hold for every set of buffers, initialised decoders and calls, under one more assumption of
`Operands`: a call has an array or none and says that it has room for 0 to 10 operands.

* `DeliversAllOrNone` (`AllOrNothing`), `FailureLeavesArray` (`FailedCallBuildsNothing`), `FourSlotsAreEnough`
  (`FourSlotsSuffice`): what the caller finds in the array.
* `CallTypes` (`FullTypeOK`): every register number the builder computes, extended or not, is in the enumeration.
* `RegistersOfFamily` (`RegistersInFamily`), `AddressesFormed` (`MemoryAddressed`): what the operands are.
* `ImmediateFieldTiled` (`ImmediatesTiled`), `DisplacementInPlace` (`DisplacementBeforeImmediates`): where their bytes come from.

The inductive invariant is `CallInv`, of three parts. `DecoderInv` is everything above about the decoder, with three additions the
builder needs: `TailSized` (SIB and displacement are what ModRM and address size ask for), `RegisterFit` (a segment register
is named only by an opcode below `0x30` in the one-byte map, a 64-bit operand outside 64-bit mode only in an MMX register or
memory) and `Cleared` (the context of a call that failed behind its first check is zero). `CallState` says that
the builder runs only behind a decoder that is done, with room for all operands. `SlotsInv` says that the array is written up to `i` and no
further, that `immOff` is the sum of what the operands before `i` took, and that each of them is *sound* for its shape
(`OperandSound`). That an operand is built sound is `BuiltSound`, from one lemma per kind of shape and,
for addresses, `Bases`, `Index`, `Segments` and `MemFormed`. A failed call comes out right because `Cleared` leaves it no shapes.

`SlotsPlaced` goes beside it for the last two properties of operands: each immediate starts with the bytes of the field from the sum of those before
it, and each memory operand other than a memory offset is `build_mem`. `PiecesJoined` turns the first into the join of four pieces, without
induction, for there are four operands at most. The second needs that an entry has one address
(`OneAddress`, over all tables) and that an instruction with a ModRM byte has no memory offset, for which the budgets leave no room; then the ledger,
`LengthInv`, says where the displacement is.

`ImmediatesTiled` is about accepted instructions on purpose. A caller who ignores a failure gets no operands, yet the failed call may
have read immediate bytes, so that without the condition the property is false; the proof found this, for the callers of the run
all use `decode_full`.

### Callers that call again

`RepeatProofs` holds for every set of streams, corpora and initialised decoders and any number of repetitions. Its properties
compare calls with one another.

* `VerdictsStand` (`VerdictStands`): a verdict on the first bytes of a stream is the verdict on any more of them, with the same
  instruction and context. `DecidesOnLast` (`DecidesOnLastByte`): the first verdict comes with the byte that completes it.
* `RepetitionsAgree` (`RepsAgree`), `BenchCountsAgree` (`BenchesAgree`): every repetition of either bench stops at the same offset
  and counts the same instructions. `SweepStaysInside` (`SweepInBounds`): none leaves the corpus.

Two calls never exist side by side in the model, so the invariants say of each call that it is a run of a *step
function*. `Now` is the state of a call as a value, `StepOf(w, d, b)` the one behind `w` on decoder `d` and buffer `b`, and
`StepIsFunction` shows that every action of `Decoder` is a step of it. `Trace` is a run of the function from the state that
clears the structures, `Reached` says that a state is on one, and `StepTraced` that this is invariant (`CallTraced`), whatever
an earlier call left. `OneOutcome`: two calls with the same decoder and bytes that are over ended in the same state.

For more bytes, `StepAgrees` compares a step on a buffer with the same step on a longer one: they come to the same state,
or the one on the shorter buffer is `Doomed`, bound to ask for more, and the other has read past its end. All steps but
`Dispatch` look at one byte at most. `DispatchAgrees` is about the two that look at more: the three-byte look-ahead
for VZEROALL, which takes the other way when bytes are missing and then runs out on that way, and the VEX front-end (`VexStable`).
From this, by induction along the trace, a verdict carries over to longer buffers (`VerdictCarries`) and a call that did not read
past a shorter buffer does the same on it (`UnreadCarries`). `StreamInv` ties both to the caller: what was judged is the end
of a call on the first bytes of the stream, and as long as nothing is judged the call before the last byte ended in `NEED_MORE`.

For the sweep, `SweepInv` says that the next call is given the rest of the corpus, and `NewCallKeeps` that a call on structures an earlier
one has filled keeps `DecoderInv`. The loop is a path of offsets in the corpus (`Swept`); `HopsAgree` makes its steps a function of the offset,
by `OneOutcome`, and `OneSweep` its length and its end the same for all repetitions. `FullState` is why the two benches agree: with room for four operands
`decode_full` refuses nothing that `decode_insn` accepts. `RepsInv` counts: the total at the end of the `j`-th repetition is `j` times that length.

These inductions are over the natural numbers, with a set in the place of a predicate (`SetInduction`).

### Texts

`FormatterProofs` holds for every set of buffers, initialised decoders, mnemonic lengths and buffer sizes: for the text of every instruction.

* `TrueMeansFits` (`TrueIffItFits`): true exactly when the text and its terminator fit. `CheckOneHasRoom` (`CheckOneNeverCut`): 160
  bytes are enough, for a text has 143 characters at most. `AddressesRead` (`AddressReadable`): what stands in brackets can be read back.
* `FormatWritesInside`: nothing is written outside the caller's buffer, and what is returned as whole is a string.

`FormatInv` has the invariant of `EmitterProofs`, for the sizes and lines of `Formatter`, and three more facts. `Placed`: what was
written are the first pieces of the line, the rest is still to come, and the cursor is the sum of the lengths of the
former. Length and content of a line follow from those of its parts: `Text(l, most)` bounds a text and `TextJoined` adds the bounds of two (`LengthsAdd` and `TotalJoined`
say that lengths add up), so that `AddressLength` (32), `OperandLength` and `FlagsLength` (15) give `LineLength`. Its bound needs an instruction to have one operand in
memory at most, which is `DisplacementBeforeImmediates`. `Closed` is the form of a text whose brackets close and
hold only pieces that may follow one another: `AddressChain` shows it of an address, `ClosedJoined` of two closed texts, `LineCloses` of the line.
`Uncounted` says that an instruction has an operand count only if the decoder accepted it, so that the formatter is handed operands that were built.

Below it, `EmitterProofs` holds for every set of buffer sizes and every set of sequences of pieces.

* `WritesInside`: `EmitSpec => []InsideBuffer`. `TrueMeansString`: `EmitSpec => []TrueIsString`. One invariant carries both: what
  is written is exactly the places in front of the cursor, plus the digits of a number that was cut off and plus the
  terminator, and the cursor never passes `size - 1`.

### Threads

`BenchThreadsProofs` holds for any number of processors, repetitions and slots, and any count per repetition.

* `AllWorkCounted`: `BenchSpec => []TotalIsAllWork`, whether or not creation can fail. The first `k` threads
  have `k * (reps \div threads)` repetitions and as many of the remainder as there are among them: `Dealt(k)` is that sum in closed
  form, so no induction over a sum is needed. The invariant says that a thread that exited has counted its share and that
  main has added the count of a repetition `Dealt(i)` times; `DealtAll` shows `Dealt(threads) = reps`.
* `BenchTypes`: `BenchSpec => []BenchTypeOK`, the bound of the arrays. `CountsAreFinal`: `BenchSpec => []ReadAfterExit`.
* `FrameSafe`: when `CreateMayFail` is FALSE, `BenchSpec => []FrameOutlivesThreads`; `create_fails` is what happens otherwise.

`BenchInv` is `BenchTypeOK` with the state a thread must be in for each `mpc` (`ThreadStates`), the counts (`Work`) and the
sum (`Sum`). Frame and threads stay together because in "total" all threads have exited.

### Not proved

Every safety property that a passing run checks is a theorem. These remain with TLC:

* `Decides`, `FullReturns`, `FormatReturns`, `EveryVectorPasses`, `BenchEnds` and `SweepEnds` are liveness properties, which are out of
  the prover's reach, as is `ENABLED`. What they rest on is partly proved: no step leaves the cursor further back than it
  was or behind the end of the buffer, and an accepted instruction moves the sweep on (`ContractKept`: its length is 1 to 15).
* That the 100 vectors pass is evaluated, vector by vector; so are the claims that the four runs of "Where documentation and
  code differ" refute.
* `CheckVectors` is a caller of `Formatter` that fixes buffer, mode, size and line. The theorems about texts are stated for `FormatSpec`, where
  all of these are arbitrary, and not again for `CheckSpec`.

## Not modelled

* The spelling of mnemonics and registers and the letters of a text: a text is its pieces and their lengths. Mnemonics
  that no decision depends on are one value, so that the exact sizes of MMX, XMM and YMM operands are one value too.
* `id` and `visibility` of operands and other fields that the code sets to constants.
* `main`'s arguments, the clocks, the output, and the fixed cases of `format_demo`; null pointers other than a missing array.
* Zydis and what `bench_zydis.c` does with it; its loops over x86dec are `Sweep`'s.
* Which error is reported when an encoding has several: of a refused instruction the properties see the verdict `INVALID` or
  `UNSUPPORTED` and its length, and no document says which should come first.
* The build files, which have no behaviour at run time.

## Plan

What could come next:

1. The exact sizes of vector operands, which needs the mnemonics that `operands.c` tells apart to be kept in the entries.
2. The letters of a text, for a reader that turns a text back into operands.
