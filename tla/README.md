# A verification of x64_compiler in TLA+

The repository is the back end of the compiler of a small language: it reads the
syntax tree that another program (the front end) has dumped, lowers it to an
intermediate representation (IR) of a stack machine, and translates that to x64
machine code in an ELF file, beside a small library written in assembler.  This
directory has the TLA+ modules that model it, the TLC configurations that check
them on small instances, and the theorems that TLAPS proves for all.  Paths below
are relative to the repository; `file:line` points to the code.

## 1. The system

One process, one thread, no callbacks.  The components work one after another on
data that the next one reads:

    dump --tree--> ast_converter --ir::code_t--> x64 --exec_buf--> ELF file --> the processor
                        |                         |                   |
                  addr_transl (x2)          addr_transl           stdlib.out

| component | state | operations | what it must guarantee |
|---|---|---|---|
| Driver `src/src/main.cpp` | which step comes next, the result | `main`, `load_and_compile` | a failure of a step is told, a success means a whole binary, an earlier binary is left alone until there is code |
| Tree library `src/src/lib/tree.cpp` | the tree | `load_tree`, `save_tree` | what is loaded is what was saved; a damaged dump is refused |
| Front half `src/src/ir/ast_converter*.cpp` | `converter_t`: pass, label and instruction counters, frame size, variables, two translators | `from_ast`: two walks of `subtree_convert` | the walks agree on every label; variables have disjoint memory; errors surface; the code means what the tree means |
| IR `src/src/ir/ir.cpp` | a linked list | `code_new`, `code_insert`, `next_insruction` | order and indices |
| Address translator `src/src/lib/address_translator.cpp` | an associative list, a slot for one address | `insert`, `translate`, `remember_old_addr`, `insert_if_remembered_addr` | the address of an IR instruction is that of its own code |
| Back end `src/src/x64/x64.cpp`, `x64_generators.cpp` | `code_t`: pass, `exec_buf` with size and capacity, translator, `ram_buf` | `translate_from_ir`: two walks of the IR; `execute` | the walks agree on every byte; no write leaves the buffer; jumps land |
| Generated program | pc, stack, registers, RAM | the IR instructions, in x64 | calls and returns, frames, results |
| Standard library `src/src/asm_stdlib/stdlib.nasm` | registers, stack | input, output, sqrt, exit | numbers are read and written in hundredths; registers survive |
| ELF writer `src/src/x64/x64_elf.cpp` | the file, the buffer of its stream | `save` | segments do not overlap; header, library and code are where the others expect them |
| File and log `src/src/lib/file.cpp`, `log.cpp` | the level of the log | mmap, fopen, messages | what is logged is seen |

What is hard here is not concurrency.  It is, first, that both halves of the
compiler are *two-pass* algorithms: the first pass measures, the second writes,
and jumps are right only if the two make exactly the same steps, although the
second begins with a state (variables, translators, a buffer) that the first has
changed.  Second, *partial failure*: results of `realloc`, `mremap`, of the
conversion of an argument or of an assignment are dropped in many places, and
what is left behind is used later.  Third, the *protocol* of the generated code:
the stack, the frame register and the return address are kept in order by code
emitted in several handlers.  Fourth, *boundaries*: the first page of the buffer,
32 bit immediates, the 4096 bytes of RAM, the room between code and RAM.  Fifth,
*bits*: an x64 instruction is put together from constants by `|`, at addresses
that four files have to agree on.  `PROJECT.json` lists each of these
hazards at its line, with the properties that are about it.

## 2. The modules

| module | models | lines that matter most |
|---|---|---|
| `Ast` | node types and operations | `tree.h:10-47` |
| `Ir` | IR instructions, the list | `ir.h`, `ir.cpp` |
| `AddrTransl` | the translator as a record and pure operations that yield the set of possible outcomes, so that a failing `realloc` is a choice | `address_translator.cpp` |
| `X64Encoding` | the group of x64 instructions for an IR instruction, the optional fields of each, their length in the first pass (`CommandSize`) and in the second (`WrittenBytes`) | `x64_generators.cpp`, `x64.cpp:145-243` |
| `X64Bits` | the bytes of an x64 instruction as the constants are combined, and a processor's decoder | `x64_consts.h`, `x64_generators.cpp` |
| `X64Emitter` | the two passes over the IR; a step is one call of `emit_instruction` | `x64.cpp:54-264` |
| `AstConverter` | the two walks over the tree; a step is one handler or one emitted instruction | `ast_converter.cpp`, `ast_converter_generators.cpp` |
| `Words` | 64 bit words: a number, an address of code, or not determined; memory; division | - |
| `Stdlib` | the assembler library: reading and printing numbers digit by digit, the root | `stdlib.nasm` |
| `IrMachine` | what the generated code does, an IR instruction per step | `x64_generators.cpp`, `stdlib.nasm` |
| `X64Machine` | composition: `X64Emitter` translates, then a processor executes the bytes, an x64 instruction per step; implements `IrMachine` | `x64.cpp:117-121`, `x64_stdlib.cpp` |
| `RevLang` | the language: constructors of trees, and a reference interpreter; recursive, for TLC only | `README.md:32-63` |
| `CompiledProgram` | composition: `AstConverter` compiles, then `IrMachine` (an INSTANCE) executes; a history variable records the calls in progress | `main.cpp:36`, `x64.cpp:117-121` |
| `CompiledMeaning` | `CompiledProgram` beside `RevLang`: what a program prints against what it means | - |
| `TreeFormat` | the dump of a tree: `save_tree`, `load_tree` | `tree.cpp:137-166`, `263-348` |
| `ElfImage` | the layout of the binary and what the kernel makes of it | `x64_elf.cpp:11-86`, `x64_elf.h` |
| `Driver` | one run of the compiler, every call of `main`, `load_and_compile` and `save` with all its results; uses `TreeFormat` and `ElfImage`, implements `Delivery` | `main.cpp`, `x64_elf.cpp:101-149`, `file.cpp` |
| `Delivery` | abstract: what a run promises about the binary | - |
| `AddrTranslProofs`, `X64EmitterProofs` | lemmas and theorems about the translator and the back end | |
| `X64MachineProofs`, `X64RefinementProofs` | about the bytes, the processor and the library; that they implement the machine of the IR | |
| `AstConverterProofs` | about the front half: one pass, both passes | |
| `StackTypes` | abstract: what lies on the stack at each instruction of a compiled program (`WellTyped`), and the programs for which that can be said (`Grammar`) | - |
| `StackTypeProofs` | that the front half makes such code of such programs | |
| `CompiledProgramProofs` | about a program from its tree to its output; that such code returns to its callers | |
| `DriverProofs` | about the dump of a tree, and about a run of the compiler | |
| `MCX64Emitter`, `MCAstConverter`, `MCCompiledProgram`, `MCX64Machine`, `MCDriver` | the programs and trees the runs use | |

How the state corresponds to the code:

* `X64Emitter`: `pass_index`, `exec_buf`, `exec_buf_capacity`, `exec_buf_size`,
  `ram_buf`, `addr_transl` are the fields of `x64::code_t`.  `cur` is the
  position of `translate_from_ir` in the list (0 for `emit_code_preparation`),
  and `k` the position in the group that the generators emit for it (0 at the
  head of the loop), so that a buffer that moves, or a `realloc` that fails, may
  do so between two x64 instructions of a group.  `text` is what has been
  written.  An assertion of the code that fails is the status "abort", an access
  through the result of a failed `mremap` is "crash".
* `AstConverter`: the variables are the fields of `converter_t`.  The C++ stack
  of the recursive handlers is the work list `todo`: a handler replaces its task
  by the calls that it makes, in their order.  `UNWRAP_ERROR` pops the list up to
  the handler that drops the result; the "catch" tasks are the two places that
  do (lines 203 and 382), and the one whose result is undefined (490).  There,
  control runs off the end of a function that has no `return`: the model
  goes on, or stops as the sanitized build of `CMakeLists.txt` does.
* `IrMachine`: a word is a number of hundredths, an address of code, or
  something that the code does not determine.  The register numbers are those of
  `x64_consts.h`, where 3, "RDX" in the IR, is rbx, and 1, "RBX", is rcx; it
  matters because a product or a quotient leaves 100 in rcx, and a remainder in
  rdx, which the IR cannot name.

* `X64Machine`: after `X64Emitter` has stopped with "OK", `rip` starts at the
  beginning of `exec_buf`.  A step takes the bytes of the x64 instruction that was
  written at `rip` (`Head_`, from the constants of `x64_consts.h`, combined as the
  generators combine them), decodes them as a processor does (`decode`: REX, opcode,
  ModRM, SIB, by the rules of the architecture and not by the name of the
  instruction that was meant), and executes what that yields; bytes that decode
  to nothing the model knows, and a jump to anywhere else, are a fault.  A function of
  the library is one step, with the registers it loses.  `seen` is a history
  variable: the state when `rip` was last at the begin of a group.
* `Driver`: `at` is the call that comes next, `res` the result of
  `load_and_compile`, `exit_code` that of the process.  `binary` is the set of the parts of
  the file that are on the disk, `stream` the set of those that wait in the
  buffer of the stream.  The two translators appear by their results only, of
  which `AstConverter` and `X64Emitter` tell when they occur.

`AddrTransl` and `Ir` are shared by both halves, as in the code.

Two specifications are shown to implement more abstract ones, by INSTANCE ... WITH
and the abstract specification as a PROPERTY:

* `X64Machine` implements `IrMachine` (`ExecutesIr`), under the mapping `seen`: between two
  groups the addresses of code on the stack, in registers and in RAM are replaced by the
  indices of the IR instructions whose groups begin there, and printed characters by the
  number that a reader makes of them.  What the machine does inside of a group is a stutter.
  `CompiledProgram` composes the front half with `IrMachine`, so both refinements
  together go from the tree down to the bytes.
* `Driver` implements `Delivery` (`Implements`): the file is that of an earlier run, begun, or
  whole; a run answers once, with success only for a whole binary unless the disk has
  refused data, and never fails or is killed with a file that is whole.

## 3. The runs

| run | specification, instance | shows | states |
|---|---|---|---|
| `passes` | `X64Emitter`, both output modes, all programs of 0 to 2 IR instructions and those of 3 that begin or end with a transfer of control | `TypeOK`, `RoomForNext`, `JumpsLand`, `NoSpuriousError` | 215470 |
| `memory` | `X64Emitter`, binary, all programs of 4 instructions over MUL, ADD, RET, JE; `realloc` and `mremap` may fail | `RoomForNext`, `MappedToOwnGroup`, `OkMeansMapped`, `Terminates` | 475330 |
| `programs` | `AstConverter`, 1129 trees | `TypeOK`, `LabelsAgree`, `TransfersInside`, `SlotsBelowFrame`, `OperandsFilled`, `ErrorsEmitNothing` | 231117 |
| `runs` | `CompiledMeaning`, 863 programs and three possible inputs at every read | `MachineTypeOK`, `OutputMatches`, `ReturnsToCaller`, `Finishes` | 239770 |
| `machine` | `X64Machine`, both output modes, 886 IR programs, four lines to be typed at every read | `MachineTypeOK`, `RamPointerKept`, `OutputReadable`, `ExecutesIr` | 158216 |
| `driver` | `Driver`, the dumps of eight trees, undamaged, cut off at every token, with text before or behind; any call may fail | `TypeOK`, `OnlyWholeTrees`, `FailureReported`, `OkMeansComplete`, `ImageInPlace`, `Implements`, `Ends` | 20052 |

and six runs that show where the code and what is said of it part (section 5).

Bounds, and why they are enough.

* `X64Emitter` has no memory beyond the translator and the buffer, and an IR
  instruction matters through the shape of its group (number of x64 instructions,
  their fields, a position-dependent immediate or none).  The alphabet of `passes`
  has one member per shape.  Two transfers and an instruction between them
  make jumps forward and backward, over and into themselves, past the end of the
  groups of others.  `START_CAPACITY` is 1, so that the translator grows at
  indices 0, 1 and 2, and `PAGE_SIZE` is 16, one byte above the threshold of 15, so
  that `exec_buf` is doubled within two instructions of the second pass;
  4096 would only delay this.  `IMM32_HALF` stands for 2^31.  In `passes` one
  address for `exec_buf` means that `mremap` grows it in place; the run
  `jit_grows` is about the other case.  `memory` has programs of four so
  that a failed insertion can be retried in the same group, in a group of one
  instruction, and at the last IR instruction.
* The trees of `programs` cross every kind of statement and expression (depth
  two, a call in an argument of a call, a call in a function) with a function before or
  behind the statements, and with a second statement before them.  A tree of this
  size takes up to a dozen labels.  One tree uses an undeclared variable
  where the error is propagated; two are dumps that no front end writes and that
  end in `abort`.  The variables that the other trees assign to are declared:
  the hazard list says what happens otherwise.  `AllocMayFail` is FALSE.
* The programs of `runs` are those whose meaning is intricate: recursion with a
  local variable that is needed afterwards, recursion twice in an expression,
  calls nested in arguments, two parameters of which the order matters,
  every comparator, loops, fixed point division and products of negative and
  fractional numbers, division by zero, input.  `RAMSIZE` is the 4096 of
  `x64_elf.h:25`.  Values stay below 32 bits.  `MCCompiledProgram` assumes, and TLC so
  evaluates, that all of them obey the `Grammar` that `AlwaysReturns` asks for.
* The programs of `machine` are every pair of 33 instructions (all kinds of operands,
  all transfers, all functions of the library) behind a prelude that puts two
  numbers on the stack and one into the frame register, with two outputs behind, so that
  registers and stack that a group leaves behind are used by the next; quotients and roots whose
  printed forms have no digits before the point, a zero behind it, a sign; every comparison of
  equal, smaller and larger numbers; a loop; recursion with a frame; and programs
  that run out of the code, divide by zero or miss RAM by one word.  Addresses and
  sizes are those of the source; numbers stay below 2^30 (`IMM32_HALF` is 2^29, because
  TLC computes with 32 bits), which the addresses of `x64_elf.h` need.
  `ram_buf` of the JIT mode has an address that fits into 31 bits.
* `driver` has trees with every shape of node (no child, only a left one, only a
  right one, both, and these below each other).  `CodeSizes` are a code of 7
  bytes, which is the empty program, one that no buffer takes, the largest that fits
  between code and RAM, one byte more, and one that goes on behind RAM.  `Buffers` are an unbuffered
  stream, one that takes the headers and not the library, one that takes both.
  A part (headers, library, code) reaches the disk as a whole or not at all, and a disk that
  has refused data refuses it to the end.
* Every passing run fires every action of its specification.  Deadlock is
  checked in all: a finished compilation or program stutters explicitly.

Fairness.  `Terminates`, `Finishes` and `Ends` assume weak fairness of the whole
next-state relation: compiler and generated program are sequential and never
wait for anything but a system call that returns, so they take a step as long as
there is one.  Nothing is assumed
of the choice between steps: failures of memory, addresses and input are
arbitrary.

`OutputMatches` compares with `RevLang!Interpreted`, a direct interpreter of the
tree, written from the language section of the repository's README, and from the
code only for what that leaves open (two decimal digits, rounding towards zero,
a root in tenths, zero for the root of a negative number).

## 4. The theorems

A hypothesis `[]P` of a theorem says that the input is such that no state violates
`P`; each is shown below not to be empty.

### The back end

`X64EmitterProofs` proves, for every set of IR programs (any
sequences of instructions), every `PAGE_SIZE` above the threshold, every
`START_CAPACITY` and every choice of addresses:

| theorem | states | assumes |
|---|---|---|
| `TypeCorrect` | `Spec => []TypeOK` | the constants' assumptions |
| `BufferNeverOverruns` | `Spec => []RoomForNext` | the same; `realloc` and `mremap` may fail |
| `OkTranslates` | `Spec => []OkMeansMapped` | the same; both may fail |
| `RetriesStayInGroup` | `Spec => []MappedToOwnGroup` | output is a binary; both may fail |
| `ErrorsNeedFailures` | `Spec => []NoSpuriousError` | neither may fail |
| `JumpsLandInBinary` | `Spec => []JumpsLand` | `realloc` does not fail, output is a binary, the code is short enough for a 32 bit displacement (`Reachable`: some 20 million IR instructions) |

These assumptions are needed: `memory` reaches errors and crashes, and
`jit_grows` shows `JumpsLand` violated in JIT mode.  The arguments:

* **Types.**  `TypeOK` says nothing about where the control is, so a step could
  read past the end of a group.  `TypeInv` adds `Control`: while the
  compiler runs, the pass is 0 or 1, inside a group `k` is within it, and at the
  head of the loop `cur` is at least 1.  The first part of `X64EmitterProofs` shows
  that each group has
  at most seven instructions, each well formed; the groups of encodable
  instructions are not empty.
* **Room.**  `RoomForNext` alone is not inductive: that the next instruction fits
  follows from the look-ahead of 15 bytes behind *every* position, which is
  `RoomInv`.  It holds when the second pass starts because the first leaves the
  first page alone, after a write because no instruction is longer than 15 bytes
  (`SizesAgree`, `EmitFacts`), and because one doubling is enough.
* **The slot.**  `SlotInv`: the slot of the translator is occupied exactly
  between the head of the loop and the first instruction of the group, in the
  first pass, by the index of this IR instruction; the mappings are those
  of the instructions before it, in order.  So `remember_old_addr` never meets an
  occupied slot.
* **Retries.**  An insertion that has failed leaves the slot occupied, and the next x64
  instruction tries again.  `MappedInv`: in the first pass every index up to the
  current one is mapped, or waits in the slot; `remember_old_addr` fails if it still waits
  when the next index comes, so only the last one can be lost, and a pass that goes on has
  lost none.  `OwnInv`: what is mapped is mapped to a position
  of its own group.  The positions are those of the layout (`Starts`), a function of the program
  alone that both passes follow whatever fails; it grows by the size of a group, and
  no two groups overlap.
* **Agreement of the passes.**  `AgreeInv`: consecutive mappings are one group apart
  (`Chain`); the position of either pass is the mapping of the current IR
  instruction plus the sizes of the x64 instructions before it (`Standing`); what
  has been written lies there, and its immediate is what the translator says
  (`Placed`).  It rests on `CommandSize = WrittenBytes` for every well formed
  instruction, and on groups that do not depend on the pass.  A jump then lands
  where the translator has its target, which is where the target's group was
  written.  A conditional jump keeps only 32 bits of its displacement; `SpanInv` bounds the
  code, and every address that the translator holds, by 105 bytes per IR
  instruction, so that nothing is cut off.

`AddrTranslProofs` has the lemmas about the translator (the first mapping of an
address is found; an insertion appends; the slot), which both halves use by name.

### The generated program

`X64MachineProofs` is about `X64Machine`, for every set of IR programs, all numbers, and
every line that a user may type:

| theorem | states | assumes |
|---|---|---|
| `MachineTyped` | `MachineSpec => []MachineTypeOK` | `Linked`, `Reachable`, `realloc` does not fail |
| `RamPointerStays` | `MachineSpec => []RamPointerKept` | the same |
| `OutputIsReadable` | `MachineSpec => []OutputReadable` | the same |
| `DecodesWhatIsEncoded` | the bytes of every x64 instruction of the group of any IR instruction are read as that instruction | nothing |

`Linked` describes a binary as it is linked: the library lies in front of the
code, the address of RAM fits into 32 bits, and the targets of the jumps are inside the
program, which is what `TransfersStayInside` says of the front half.  The programs and addresses
of the run `machine` satisfy `Linked` in its binary mode.

* **The bytes.**  `Shape` lists the x64 instructions that groups are made of, with their
  registers and optional fields; the decoder reads the bytes of each as it was meant
  (`ShapeDecoded`).  It goes case by case over the constants, because `|` adds bits only if they do not
  overlap.  `EncodingBuilt` shows that each group has instructions of these shapes only, and which of
  them follow each other (`Follow`): an address is put into rax right before the jump through
  it, or before r8 is saved for a call of the library, behind which r8 is restored.
* **The text.**  `TextInv`: the buffer holds the groups of the program, one x64 instruction right
  behind the other, in order, and when the translation has succeeded, all of them.
  With `JumpsLandInBinary` the target of each jump is the begin of a group.
* **The processor.**  `MachineTypeOK` and `RamPointerKept` are not inductive.  A `ret` takes
  the address that it goes to from the stack, where the IR program may have moved it through registers and
  RAM; a `call rax` goes where an earlier instruction has pointed rax; r8 is lost
  in the library and comes back from the stack.  `Fine` says: every address of
  code, in registers, stack and RAM, is that of a group (`Kept`); what the
  instruction at `rip` relies on is there (`Ready`: the target in rax, if it goes there
  or r8 is saved in front of it; the address of RAM in r8, or on the top of the stack
  where r8 is restored); and in the library, the top of the stack is the address of the instruction
  that restores r8, and below it is the address of RAM (`Called`).  There is a
  lemma for each action of the processor (`PushFine` to `ReturnsFine`), and
  `MachineSteps` puts them together.
* **Numbers.**  The loops of the library are recursive functions; that they
  exist, and that `.L28` writes nothing but digits, is shown by a least number for which it
  would fail (`PutsExist`, `PutsDigits`).

`X64RefinementProofs` proves the refinement:

| theorem | states | assumes |
|---|---|---|
| `ImplementsIr` | `MachineSpec => ExecutesIr` | `Linked`, `Reachable`, `Exact`, `realloc` does not fail |

`Exact` says where an instruction of 64 bits with a field of 32 can hold what the IR
means: a literal, scaled by 100, and the offset of a memory operand fit into the field
(`Fits`); the functions of the library have addresses of their own; and a line that is
typed is read as the number that was meant (`input_asm` does not look at what it
is given).  The literals that do not fit are the finding `literals` (section 5), so the hypothesis
is needed.  The programs and lines of the run `machine` satisfy it, with `Linked` and `Reachable` in binary mode.

* **The mapping** is `seen`, the state when `rip` was last at the begin of a group.  In between
  the processor is ahead of it.  `Tracks` says how far: for each kind of group, and each place
  in it, what stack, registers, flags, RAM, input and output are in terms of `seen` (`Fresh` at
  the begin, `Within` inside, up to what the IR instruction makes of it); in a function of the
  library the same holds of the place that has called it, with the return address on the top of
  the stack; in front of the first group everything is as the process was started.  The
  invariant is `Tracking`, with those of the back end and of `X64MachineProofs`.
* **A step** in the middle of a group leads from one place of `Tracks` to the next and is a stutter of
  `IrMachine`; the last one of a group is the step of the IR.  There is a lemma for each kind of
  x64 instruction (what it does to the words of the IR), for each kind of group (that its places
  follow each other), and for the end of each group (that it is the action of `IrMachine`).
* **Faults.**  The processor is killed in the middle of a group only by a division by zero
  or an access outside RAM, which are faults of the IR instruction as well, and by what the stack
  of the process holds below the words of the program; these are faults of the IR too
  (`MissingOperand`, `ZeroDivisor`, `FaultyFaults`).
* **Numbers.**  A product and a quotient are two x64 divisions with the sign extended in between;
  what `output_asm` prints is read back as the number itself (`Denotes` of `output_asm`), by the
  digits that the loop `.L28` makes.

### The front half

For every set of trees of any size, and every `START_CAPACITY`:

| theorem | states | assumes, besides the constants' assumptions |
|---|---|---|
| `TypesKept` | `Spec => []TypeOK` | nothing; `realloc` may fail |
| `OperandsAlwaysFilled` | `[]OperandsFilled` | `[]NoErrorDropped`; `realloc` may fail |
| `ErrorsCaughtEarly` | `[]ErrorsEmitNothing` | `[]NoErrorDropped`; `realloc` may fail |
| `FramesApart` | `[]SlotsBelowFrame` | `[]NoErrorDropped`, `[]NoNesting` |
| `LabelsWhereRegistered` | `[]LabelsAgree` | `[]NoErrorDropped`, `[]FunctionsOnce`, `realloc` does not fail |
| `TransfersStayInside` | `[]TransfersInside` | `[]NoErrorDropped`, `[]CallsDefined`, `realloc` does not fail |

The hypotheses are about the program that is compiled: no undeclared variable where a
caller drops the error (`NoErrorDropped`), no function in a function (`NoNesting`), no
function defined twice (`FunctionsOnce`), none called that is not defined
(`CallsDefined`).  Every state of the 1129 trees of `programs` satisfies
the four, so they exclude none of the behaviours that run has, calls in
arguments and undeclared variables that are reported among them.  They
are needed: without the first, `early` violates `LabelsAgree`; a nested function
overwrites the size of the outer frame; a second definition is found under the
first one's address; a call of nothing leads to -1.

* **The work list.**  `TypeInv` adds to `TypeOK` what the tasks in progress need: a
  "call" finds a counter in `args_counters`, because the calls on the list (`CallsIn`
  counts them, the list being of any length) are never more than the counters; an
  `UNWRAP_ERROR` takes calls away and no counters.  The lemma `Steps` says
  once what every action does to the list: it puts the tasks of its node in front
  (`Expands`), drops the head, or pops to a catch.
* **Operands.**  `OperandInv`: an instruction whose operand is missing is the last of
  the code, and `get_var_code` comes next.
* **The two passes.**  A *skeleton* is a state without the operands of the
  instructions: the tasks, the counters, how many variables there are of each kind, and
  which.  `Succ` yields the next one, and `StepMatch` shows that every action,
  in either pass, does what `Succ` does, with `b` more
  globals in the second, those of the first.  `PassInv` says that there is a path of
  skeletons that the first pass has made and that the second is on; what
  holds at each of its steps (`Known`) the first pass has found out and the second may use.
  The path begins again where it did, because what is left of the
  first pass when it ends is the variables and the translators only
  (`WalkInv`, `PassEnds`).
* **Errors.**  `Known` here: a variable that is looked up is in a scope.  The second pass has
  the same scopes and more, so what it looks up it finds, and an error
  occurs in the first pass or not at all.
* **Frames.**  `Facts`: frame size and number of variables move together
  in both passes, and what the second registers at a global position is what the first did
  there, so each name is found below the frame size (`NestInv` says
  that a function is left once).
* **Labels.**  `Known` here: what is registered at this step, and at which
  instruction.  `LabelInv` says that in the first pass a label is
  on the list or registered and never both, so nothing is registered twice, and when the
  pass ends everything that was taken is registered, before the HALT.  Hence every target
  that the second pass translates is found, and lies in the code; the target of a
  jump that waits on the list or is emitted (`LookUpInv`: the operand that
  `get_var_code` fills in is never one).

`CompiledProgramProofs` goes on from there to the execution of what was compiled:

| theorem | states | assumes |
|---|---|---|
| `RunTyped` | `CompileAndRunSpec => []MachineTypeOK` | the constants' assumptions |

`RunInv` joins `TypeInv` of the front half, from which every instruction has its type, and the
types of the machine; `calls` is a sequence.  A division finds a divisor that is not zero, a root
exists, and every action finds the operands it takes, because anything else is a fault
(`Found`).

### Every call returns

A function keeps its return address on the stack on which its expressions are computed, and
`convert_ret` digs it out from under the result: if any statement in the function, whatever
it is nested in, has left a word behind or taken one too many, `ret` goes to a
number.  That this does not happen, in a program that obeys a grammar, is proved in two
halves, in the way of a verifier of byte code:

| theorem | states | assumes |
|---|---|---|
| `CodeTyped` (`StackTypeProofs`) | `Spec => [](status = "OK" => Disciplined)`: compiled code has stack types | `WellFormed(Trees)`, `[]NoErrorDropped`, `[]FunctionsOnce`, `realloc` does not fail |
| `TypedReturns` (`CompiledProgramProofs`) | code with stack types keeps `[]ReturnsToCaller` | the constants' assumptions |
| `AlwaysReturns` (`CompiledProgramProofs`) | `[]ReturnsToCaller` for every program | what `CodeTyped` assumes |

* **Types.**  A type says, of the place in front of an instruction, whether it is in a function, how
  many words lie on top of what the caller had left, and in which step of the moves
  of the frame or of the exchange in `convert_ret` it is (`at`).  `WellTyped`: each
  instruction has an `Effect` on the type in front of it, which yields the type behind it;
  jumps go to places of the right type, `CALL` to a place with the type `Entry`, and `RET` has the
  return address on the top.  Outside functions no height is known, because there an expression
  may stand as a statement; a function that ends without RETURN goes on with the
  program behind it (`Weaker`).
* **The grammar.**  `Grammar` names the nodes that stand outside functions, the statements in functions, the
  arguments and the expressions.  In a function a statement is a declaration, an
  assignment, `if`, `while`, RETURN, or a call in a list of statements.  The
  others leave a word on the stack: an expression as a statement, output among them (`statement`,
  section 5); and a call that is itself the branch of an `if` or the body of a `while`, because there
  `subtree_convert` is called with the `result_used = true` of its declaration
  (`ast_converter_generators.cpp:260-290`, `ast_converter_common.h:41`) and does not drop the result.
  The 863 programs of `runs` obey the grammar, and no state of theirs violates the other two hypotheses.
* **The front half.**  `Rule` says of each task of the work list which type, and which counters of
  the calls in progress, it makes of which; `Leads` says it of a list.  The lemmas `...Leads`
  show for each handler that the tasks it puts on the list lead
  from the same to the same as the task itself.  `StackInv` is then: the code that the second
  pass has emitted has types; the work list leads from the type of the next instruction to the
  end; a label that was taken has a type, on which all its jumps agree, and is on the list, or lies
  where this type holds; a function that the first pass has registered is still
  to come (`Comes`, on the path of skeletons), or begins where `Entry` holds.  `FuncInv` is about the
  first pass: what it has registered is on its path, which is the path of the second.
* **The run.**  `RunGood`: the calls in progress are a `Chain`.  Each one has its return address at the
  depth that it was called at, where the type behind that `CALL` is known, and above it as many words
  as the type of the current instruction has.  While the frame is moved, the topmost words are the
  frame of the caller and the size, so rdx is what it was when it has been moved back (`Framed`);
  a register that nothing has determined stays so under both moves (`MovedBack`).  There is a
  lemma for each kind of effect.  `RET` then takes the address that the `CALL` has
  pushed, with the stack and rdx of that moment, which is `ReturnsToCaller`.

### The driver and the dump

For every set of finite trees, every damage, size of code and of buffers:

| theorem | states | assumes |
|---|---|---|
| `DriverTyped` | `Spec => []TypeOK` | the constants' assumptions |
| `DriverDelivers` | `Spec => Implements`, the refinement of `Delivery` | the same |
| `CompleteWhenOk` | `Spec => []OkMeansComplete` | the same |
| `FailuresTold` | `Spec => []FailureReported` | the same |
| `ImageLoaded` | `Spec => []ImageInPlace` | the same |
| `WholeTreesOnly` | `Spec => []OnlyWholeTrees` | the same |
| `SavedTreesLoad` | what `save_tree` has written, `load_tree` reads back, between any two texts of which the first opens no brace | the same |
| `CutTreesAreRefused` | no proper prefix of a dump is read as a tree | the same |

The inductive invariant `Files` says, for each call, which parts have been
written: to the disk, or to the buffer, or the disk has refused data (`Written`).  None of
`Implements`, `OkMeansComplete` and `FailureReported`
is inductive: at the end, a whole file follows from headers
that were written ten calls before, which may have waited in the buffer until any of the
flushes in between.  `Files` also records that nothing but the write of the code
brings code into the file, and that `fclose` is reached with code in the file only if the
buffer is empty; without that a file that is whole could still be given up, which `Delivery` forbids.
The lemmas `FlushWrites` and `FwriteWrites` say what a flush and an `fwrite` do to
disk and buffer, and `StepDelivers` maps each call to a step of `Delivery` or to none.

`ImageLoaded` is arithmetic over pages: which segment is the last one mapped at an
address (`Loaded`), which byte of the file it holds (`LoadedBytes`), and that the
answer is the right one at every page of code and library exactly if the code ends
below RAM (`InPlace`).  The first attempt at this proof failed, with reason: `Placed`
looked at the first and the last byte of a part only, and of a code that is longer than
16384 bytes both are in place while RAM lies in the middle of it.  `Placed` now looks at
every page, and `CodeSizes` has a code of that length.

`WholeTreesOnly` needs the two theorems about the dump.  `dfs_recursion`,
`Straightened` and `load_subtree` are recursive functions, and that such a function
exists, which TLC takes from evaluating it, is the first thing to prove: any two
solutions up to some depth agree, and a least depth without one cannot be
(`DumpOf`, `StraightOf`); for `load_subtree` likewise from the end of the text backwards
(`LoadOf`, from `LoadAtOnward`: it reads on, never back).  `TreeReads` then says, by
induction on the depth, what is read at the place of a node in any text that agrees with the
dump as far as it goes: the node if the text goes on behind it, and a refusal if it ends within.
`FiniteAssumption` says that the trees have a depth, and `NullAssumption` that a null
pointer is not a node.

### What is only model-checked

* Liveness: `Terminates`, `Finishes`, `Ends`.  The prover has no rule for `ENABLED`.
* `OutputMatches`: the interpreter `RevLang` is recursive, the prover loses its
  arithmetic in a module that reaches it, and what a program means is an induction over
  its tree.
* The machine in JIT mode, where jumps may not land.
* `LabelsAgree` and `TransfersInside` when `realloc` fails, and `JumpsLand` in JIT mode
  (they do not hold, section 5 and the hazard list).

## 5. Where the code and its documents disagree

Each has a run that TLC ends with a counterexample.

| run | property | what happens |
|---|---|---|
| `jit_grows` | `JumpsLand` | in JIT mode `mremap` may move the buffer (`x64.cpp:249`) while absolute jumps and recorded addresses are those of the old one |
| `literals` | `LiteralsExact` | a literal is scaled by 100 and cut to 32 bits (`x64_generators.cpp:69`), numbers are said to have 64 |
| `library` | `HoldsLibrary` | `save` ignores the result of `load_stdlib` (`x64_elf.cpp:119`): without stdlib.out the binary has no library, and the compiler reports success |
| `early` | `LabelsAgree` | the first pass drops the error of an undeclared variable in an argument (`ast_converter_generators.cpp:382`); the second finds the variable, kept from the first, and emits more |
| `and` | `OutputMatches` | `&&` compares the two truth values with JE (line 506): 0 && 0 is true |
| `statement` | `ReturnsToCaller` | an expression statement leaves its value on the stack, and `convert_ret` takes it for the return address (line 357) |

What the passing runs take as given is part of the same picture: `OkMeansComplete` holds
with stdlib.out present and a disk that works, because `fseek` and `fclose`, which write
what the stream holds, are not checked; `ImageInPlace` says that the image is
right *exactly* for code of at most 12288 bytes, a limit that nothing in the
compiler enforces; `OnlyWholeTrees` says that a tree comes back with every only child
on the right, which is another tree if it was a left one.

## 6. Not modelled

64 bit overflow; failures of `calloc` and of `realloc` in `register_var`; freeing
of memory (`tree::dtor`, `code_delete`); the wording of logs.  `SIN` and `COS` stop
in the back end, so the machine faults there.  The prompts of the library, a `read` or
`write` of the generated program that fails, and lines that do not fit its buffer, where the
library reads what the stack happens to hold.  `tree::copy_subtree`,
`move_node`, `change_node`, `del_left`, `del_right`, `del_childs`, `count_lines`,
`set_log_level` and `set_log_stream` have no caller in this program.  `stub_entry` of
`stdlib.nasm` is for a library that is started by mistake.  The debug bytes that
`DEBUG_BREAK` and `DEBUG_NOP_BYTE` add are off.  The assertions of
`load_stdlib` about stdlib.out hold of the one that the Makefile builds.

## 7. Plan

Done, in this order: `AddrTransl`, `X64Encoding`, `X64Emitter` with its theorems,
because every program depends on the agreement of the passes; `AstConverter`; the
composition with the machine of the IR; `TreeFormat`, `ElfImage` and `Driver` with `Delivery`
and its theorems; `Stdlib`, `X64Bits` and `X64Machine`, down to the bytes, and theorems about
all of these, the two refinements among them.  What is left:

1. `AstConverter` with `AllocMayFail`: which labels may be wrong after a failure,
   instead of all.
2. Overflow: words of a small width instead of numbers.
