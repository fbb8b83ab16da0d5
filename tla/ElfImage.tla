------------------------------ MODULE ElfImage ------------------------------
(***************************************************************************)
(* The binary that x64::save writes (src/src/x64/x64_elf.cpp, x64_elf.h):  *)
(* three parts of a file, and four segments that the kernel maps.  A byte  *)
(* is its part of the file and its place in that part; what is not written *)
(* reads as zero.                                                          *)
(***************************************************************************)
EXTENDS Integers, Sequences

PAGE == 4096

\* enum BASE_ADDRESSES and the constants behind it.
CODE_BASE_ADDR   == 4202496   \* 0x402000
STDLIB_BASE_ADDR == 4198400   \* 0x401000
RAM_BASE_ADDR    == 4214784   \* 0x405000
SYSTEM_BASE_ADDR == 4194304   \* 0x400000
STDLIB_SIZE      == 689
STDLIB_FILE_POS  == 4096
CODE_FILE_POS    == 8192
RAMSIZE          == 4096

SIZEOF_Ehdr  == 64
SIZEOF_Phdr  == 56
NUM_PHEADERS == 4
HEADERS_SIZE == SIZEOF_Ehdr + NUM_PHEADERS * SIZEOF_Phdr

Parts == {"headers", "stdlib", "code"}
SizeOf(part, code_size) ==
    CASE part = "headers" -> HEADERS_SIZE [] part = "stdlib" -> STDLIB_SIZE [] part = "code" -> code_size
FilePos == [part \in Parts |->
              CASE part = "headers" -> 0 [] part = "stdlib" -> STDLIB_FILE_POS [] part = "code" -> CODE_FILE_POS]

Phdr(flags, offset, vaddr, filesz, memsz) ==
    [flags |-> flags, offset |-> offset, vaddr |-> vaddr, filesz |-> filesz, memsz |-> memsz]

SizesOfTemplate(code_size) ==
    << Phdr({"R"}, 0, SYSTEM_BASE_ADDR, HEADERS_SIZE, HEADERS_SIZE),
       Phdr({"R", "X"}, CODE_FILE_POS, CODE_BASE_ADDR, 0, 0),
       Phdr({"R", "X"}, STDLIB_FILE_POS, STDLIB_BASE_ADDR, STDLIB_SIZE, STDLIB_SIZE),
       Phdr({"R", "W"}, 0, RAM_BASE_ADDR, 0, RAMSIZE) >>
\* The program headers in the order of the file; save fills in the two sizes
\* of CODE_PHEADER_TEMPLATE.
Phdrs(code_size) ==
    << Phdr({"R"}, 0, SYSTEM_BASE_ADDR, HEADERS_SIZE, HEADERS_SIZE),
       Phdr({"R", "X"}, CODE_FILE_POS, CODE_BASE_ADDR, code_size, code_size),
       Phdr({"R", "X"}, STDLIB_FILE_POS, STDLIB_BASE_ADDR, STDLIB_SIZE, STDLIB_SIZE),
       Phdr({"R", "W"}, 0, RAM_BASE_ADDR, 0, RAMSIZE) >>

-----------------------------------------------------------------------------
\* The kernel (external).  It maps whole pages, a later segment over an
\* earlier one; pages of the file hold whatever the file has there.
Pages(p)       == p.vaddr \div PAGE .. (p.vaddr + p.memsz - 1) \div PAGE
Mapped(p, a)   == p.memsz > 0 /\ a \div PAGE \in Pages(p)
Mappers(hs, a) == {i \in DOMAIN hs : Mapped(hs[i], a)}
SegmentAt(hs, a) == hs[CHOOSE i \in Mappers(hs, a) : \A j \in Mappers(hs, a) : j <= i]

Zero    == [part |-> "zero", at |-> 0]
Byte(part, i) == [part |-> part, at |-> i]
\* The byte of a file with these parts.
FileByte(written, code_size, offset) ==
    LET here == {part \in written : offset - FilePos[part] \in 0 .. SizeOf(part, code_size) - 1}
    IN  IF here = {} THEN Zero
        ELSE LET part == CHOOSE q \in here : TRUE IN Byte(part, offset - FilePos[part])
\* What the processor finds at an address.
Memory(written, code_size, a) ==
    LET s == SegmentAt(Phdrs(code_size), a)
    IN  IF s.filesz = 0 THEN Zero ELSE FileByte(written, code_size, s.offset + a - s.vaddr)

\* The code that fits between its base address and RAM.
CodeRoom == RAM_BASE_ADDR - CODE_BASE_ADDR

\* The first byte of every page of a part, and its last byte.  (The parts that
\* are executed begin at a page.)
Probes(size) == {PAGE * q : q \in 0 .. (size - 1) \div PAGE} \cup {size - 1}

\* A part of the file is where the rest of the compiler takes it to be: every
\* page of it, and its end, with the right to execute.
Placed(written, code_size, part, vaddr) ==
    \A i \in Probes(SizeOf(part, code_size)) :
        LET a == vaddr + i
        IN  /\ Mappers(Phdrs(code_size), a) # {}
            /\ "X" \in SegmentAt(Phdrs(code_size), a).flags
            /\ Memory(written, code_size, a) = Byte(part, i)
RamPlaced(code_size) ==
    \A a \in {RAM_BASE_ADDR, RAM_BASE_ADDR + RAMSIZE - 1} :
        /\ Mappers(Phdrs(code_size), a) # {}
        /\ "W" \in SegmentAt(Phdrs(code_size), a).flags
        /\ Memory({}, code_size, a) = Zero
=============================================================================
