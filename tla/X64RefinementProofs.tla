------------------------- MODULE X64RefinementProofs -------------------------
(***************************************************************************)
(* X64Machine implements IrMachine: every group of x64 instructions does   *)
(* what the IR instruction it stands for does, whatever the program, the   *)
(* numbers and the input.  Between two groups the state of the IR is what  *)
(* is kept in `seen`; inside of a group it is the one at its beginning,    *)
(* and Tracks says how far the processor has come from there.              *)
(***************************************************************************)
EXTENDS X64MachineProofs, SequenceTheorems

\* The part of the language that a word of 64 bits and an instruction with 32
\* of them hold: the literals, the offsets of memory operands.
Fits(i) ==
    /\ i.need_mem_arg => IF i.need_imm_arg THEN Imm32(i.imm_arg * 8) = i.imm_arg * 8 ELSE i.imm_arg = 0
    /\ ~i.need_mem_arg /\ ~i.need_reg_arg => Imm32(i.imm_arg * FIXED_PRECISION_MULTIPLIER)
                                               = i.imm_arg * FIXED_PRECISION_MULTIPLIER
\* ... the functions of the library are different, and what is typed is read as
\* what is meant.
Exact ==
    /\ \A f, g \in LibFuncs : LibAddr[f] = LibAddr[g] => f = g
    /\ \A p \in Programs : \A i \in 1 .. Len(p) : p[i].type \in {"PUSH", "POP"} => Fits(p[i])
    /\ \A t \in Typed : input_asm(t.line) = FIXED_PRECISION_MULTIPLIER * t.number
-----------------------------------------------------------------------------
(* The words of the processor as those of the IR.                          *)
Img(q) == [j \in DOMAIN q |-> AsIr(q[j])]
Read(q)    == [j \in DOMAIN q |-> FIXED_PRECISION_MULTIPLIER * q[j].number]
Written(q) == [j \in DOMAIN q |-> Output(q[j])]
Inputs  == {FIXED_PRECISION_MULTIPLIER * t.number : t \in Typed}

\* rax, rcx, rdx and rbx; a stack without its n top words; the extension of a
\* product.
Low(R, a, c, d, b) == R[0] = a /\ R[1] = c /\ R[2] = d /\ R[3] = b
Below(s, n)   == SubSeq(s, n + 1, Len(s))
Product(a, b) == IF Numbers2(a, b) THEN Num(a.v * b.v) ELSE Undetermined

\* What the processor (S, R, F: the stack, the registers, the flags; N, O: what
\* has been read and written) has made of the state h of the IR in front of the
\* j-th instruction of the group of i; behind the last one, what i makes of h.
Fresh(h, S, R, N, O) ==
    /\ S = h.stack /\ Low(R, h.regs[0], h.regs[1], h.regs[2], h.regs[3]) /\ N = h.input /\ O = h.out

InAddSub(i, j, h, S, R) ==
    LET s == h.stack
        g == h.regs
    IN  /\ Low(R, s[1], g[1], g[2], g[3])
        /\ j = 2 => Len(s) >= 1 /\ S = Below(s, 1)
        /\ j = 3 => Len(s) >= 2 /\ S = << Ir!Result(i.type, s[2], s[1]) >> \o Below(s, 2)
        /\ j \in 2 .. 3

InMulDiv(i, j, h, S, R) ==
    LET s == h.stack
        g == h.regs
        a == s[2]
        b == s[1]
        hundred == Num(FIXED_PRECISION_MULTIPLIER)
        p == Product(a, IF i.type = "MUL" THEN b ELSE hundred)
        result == Ir!Result(i.type, a, b)
    IN  /\ j \in 2 .. 7 => R[12] = b
        /\ j = 2 => Len(s) >= 1 /\ S = Below(s, 1) /\ Low(R, g[0], g[1], g[2], g[3])
        /\ j >= 3 => Len(s) >= 2
        /\ j \in 3 .. 7 => S = Below(s, 2)
        /\ j = 3 => Low(R, a, g[1], g[2], g[3])
        /\ j = 4 => Low(R, a, g[1], High(a), g[3])
        /\ j = 5 => IF i.type = "MUL" THEN Low(R, p, g[1], High(p), g[3])
                                      ELSE Low(R, a, hundred, High(a), g[3])
        /\ j = 6 => Low(R, p, hundred, High(p), g[3])
        /\ j >= 7 => /\ Low(R, result, hundred, Ir!Lost(i.type, a, b), g[3])
                     /\ i.type = "DIV" => b # Num(0)
        /\ j = 8 => S = << result >> \o Below(s, 2)
        /\ j \in 2 .. 8

InJump(j, h, S, R, F) ==
    LET s == h.stack
        g == h.regs
    IN  /\ j = 2 => Len(s) >= 1 /\ S = Below(s, 1) /\ Low(R, g[0], s[1], g[2], g[3])
        /\ j >= 3 => Len(s) >= 2 /\ S = Below(s, 2) /\ Low(R, s[2], s[1], g[2], g[3])
        /\ j = 4 => F = << s[2], s[1] >>
        /\ j \in 2 .. 4

InGo(i, j, h, S, R) ==
    j = 2 /\ S = h.stack /\ Low(R, Code(i.imm_arg), h.regs[1], h.regs[2], h.regs[3])

InInp(j, h, S, R, N, O) ==
    /\ O = h.out /\ R[3] = h.regs[3]
    /\ j \in 2 .. 3 => N = h.input
    /\ j = 2 => S = h.stack
    /\ j \in 3 .. 4 => S = << Num(ram_addr) >> \o h.stack
    /\ j >= 4 => \E v \in Inputs : /\ N = Append(h.input, v)
                                   /\ Low(R, Num(v), Undetermined, Undetermined, h.regs[3])
                                   /\ j = 6 => S = << Num(v) >> \o h.stack
    /\ j = 5 => S = h.stack
    /\ j \in 2 .. 6

InOut(j, h, S, R, N, O) ==
    LET w == h.stack[1]
    IN  /\ N = h.input /\ R[3] = h.regs[3] /\ Len(h.stack) >= 1
        /\ j \in 2 .. 4 => R[7] = w /\ O = h.out
        /\ j \in {2, 3, 6} => S = Below(h.stack, 1)
        /\ j \in 4 .. 5 => S = << Num(ram_addr) >> \o Below(h.stack, 1)
        /\ j >= 5 => /\ O = Append(h.out, Ir!Shown(w))
                     /\ Low(R, Undetermined, Undetermined, Undetermined, h.regs[3])
        /\ j \in 2 .. 6

InSqrt(j, h, S, R, N, O) ==
    LET w == h.stack[1]
        g == h.regs
        root == IF w.kind = "num" THEN Num(sqrt_asm(w.v)) ELSE Undetermined
    IN  /\ N = h.input /\ O = h.out /\ Len(h.stack) >= 1
        /\ R[1] = g[1] /\ R[2] = g[2] /\ R[3] = g[3]
        /\ j \in 2 .. 4 => R[7] = w
        /\ j \in {2, 3, 6} => S = Below(h.stack, 1)
        /\ j \in 4 .. 5 => S = << Num(ram_addr) >> \o Below(h.stack, 1)
        /\ j >= 5 => R[0] = root
        /\ j = 7 => S = << root >> \o Below(h.stack, 1)
        /\ j \in 2 .. 7

Within(i, j, h, S, R, F, N, O) ==
    /\ i.type \in {"ADD", "SUB"}  => InAddSub(i, j, h, S, R) /\ N = h.input /\ O = h.out
    /\ i.type \in {"MUL", "DIV"}  => InMulDiv(i, j, h, S, R) /\ N = h.input /\ O = h.out
    /\ i.type \in Jumps           => InJump(j, h, S, R, F) /\ N = h.input /\ O = h.out
    /\ i.type \in {"JMP", "CALL"} => InGo(i, j, h, S, R) /\ N = h.input /\ O = h.out
    /\ i.type = "INP"  => InInp(j, h, S, R, N, O)
    /\ i.type = "OUT"  => InOut(j, h, S, R, N, O)
    /\ i.type = "SQRT" => InSqrt(j, h, S, R, N, O)
    /\ i.type = "HALT" => j \in 2 .. 3
    /\ i.type \notin {"PUSH", "POP", "RET"}
Middle(i, j, h, S, R, F, N, O) ==
    IF j = 1 THEN Fresh(h, S, R, N, O) ELSE Within(i, j, h, S, R, F, N, O)

\* The state h of the IR is the one in front of the instruction whose group the
\* processor is in, or has called the library from, and Middle holds.
InGroup(d, j, h, m, s, r, f, n, o) ==
    /\ text[d].cur # 0 /\ h.pc = text[d].cur - 1 /\ h.ram = Img(m)
    /\ Middle(ir[text[d].cur], j, h, Img(s), Img(r), Img(f), Read(n), Written(o))

NothingYet == [pc |-> 0, ram |-> [a \in {} |-> Num(0)], stack |-> << >>,
               regs |-> [r \in 0 .. 3 |-> Undetermined], input |-> << >>, out |-> << >>]

Held(h) == h.stack \in Seq(Words) /\ h.regs \in [0 .. 3 -> Words]

\* How the state h of the IR and that of the processor go together.
Tracks(p, h, r, s, m, f, n, o) ==
    /\ Held(h)
    /\ \A d \in 1 .. Len(text) : p = Place(d) =>
          IF text[d].cur = 0
          THEN /\ h = NothingYet /\ s = << >> /\ m = [a \in {} |-> Num(0)] /\ n = << >> /\ o = << >>
               /\ r = [q \in REG_NUMBERS |-> Undetermined]
          ELSE InGroup(d, text[d].k, h, m, s, r, f, n, o)
    /\ p = CodeEnd => h.pc = Len(ir) /\ h.ram = Img(m) /\ Fresh(h, Img(s), Img(r), Read(n), Written(o))
    /\ p \in Library =>
          \E d \in 1 .. Len(text) :
             /\ Backs(text[d].x) /\ p = LibAddr[ir[text[d].cur].type] /\ s[1] = Code(Place(d))
             /\ InGroup(d, text[d].k - 1, h, m, Tail(s), r, f, n, o)

Tracking ==
    /\ rip = 0 => seen = NothingYet /\ typed = << >> /\ printed = << >>
    /\ rip # 0 /\ state = "running" => Tracks(rip, seen, regs, stack, ram, flags, typed, printed)
-----------------------------------------------------------------------------
(* The addresses of code and the indices of the IR.                        *)

\* A group begins at one place only, and nothing else is the beginning of one.
LEMMA GroupIndex ==
    ASSUME Settled, Linked, NEW d \in 1 .. Len(text)
    PROVE  /\ text[d].k = 1 /\ text[d].cur # 0 =>
                AtGroup(Place(d)) /\ IndexAt(Place(d)) = text[d].cur - 1
           /\ AtGroup(Place(d)) => text[d].k = 1 /\ text[d].cur # 0
  <1> DEFINE a == Place(d)
  <1>1. DOMAIN text = 1 .. Len(text) /\ a # CodeEnd
    BY LibraryApart DEF Settled, TypeInv, TypeOK
  <1>2. \A e \in GroupsAt(a) : e = d
    BY <1>1, LaidApart DEF GroupsAt, Place
  <1>3. ASSUME text[d].k = 1, text[d].cur # 0 PROVE AtGroup(a) /\ IndexAt(a) = text[d].cur - 1
    <2>1. text[d].cur > 0
      BY <1>3, LaidEntry
    <2>2. d \in GroupsAt(a)
      BY <1>1, <1>3, <2>1 DEF GroupsAt, Place
    <2>3. (CHOOSE e \in GroupsAt(a) : TRUE) = d
      BY <1>2, <2>2
    <2> QED
      BY <1>1, <2>2, <2>3 DEF AtGroup, IndexAt
  <1>4. ASSUME AtGroup(a) PROVE text[d].k = 1 /\ text[d].cur # 0
    <2>1. d \in GroupsAt(a)
      BY <1>1, <1>2, <1>4 DEF AtGroup
    <2> QED
      BY <2>1 DEF GroupsAt
  <1> QED
    BY <1>3, <1>4

LEMMA EndIndex == AtGroup(CodeEnd) /\ IndexAt(CodeEnd) = Len(ir)
  BY DEF AtGroup, IndexAt

\* Behind the last instruction of a group there is the next IR instruction.
LEMMA CloseIndex ==
    ASSUME Settled, Linked, NEW d \in 1 .. Len(text), Closes(d)
    PROVE  LET p == base_addr + End(text[d]) IN AtGroup(p) /\ IndexAt(p) = text[d].cur
  <1>1. CASE d = Len(text)
    <2>1. base_addr + End(text[d]) = CodeEnd
      BY <1>1, LaidTypes
    <2>2. text[d].cur = Len(ir)
      BY <1>1 DEF Settled, TextInv
    <2> QED
      BY <2>1, <2>2, EndIndex
  <1>2. CASE d # Len(text)
    <2>1. d \in 1 .. Len(text) - 1
      BY <1>2, LaidTypes
    <2>2. d + 1 \in 1 .. Len(text) /\ Place(d + 1) = base_addr + End(text[d])
      BY <2>1, LaidNext
    <2>3. Succeeds(text[d], text[d + 1].cur, text[d + 1].k)
      BY <2>1 DEF Settled, TextInv
    <2>4. text[d].k = Len(GroupOf(text[d].cur)) /\ Len(GroupOf(text[d].cur)) \in Nat /\ text[d].cur \in Nat
      BY LaidEntry, LaidTypes DEF Closes
    <2>5. text[d + 1].cur = text[d].cur + 1 /\ text[d + 1].k = 1
      BY <2>3, <2>4 DEF Succeeds
    <2>6. text[d + 1].cur # 0 /\ text[d + 1].cur - 1 = text[d].cur
      BY <2>4, <2>5
    <2> QED
      BY <2>2, <2>5, <2>6, GroupIndex
  <1> QED
    BY <1>1, <1>2

\* A jump or a call leads to the IR instruction that it names.
LEMMA LandingIndex ==
    ASSUME Settled, Linked, NEW d \in 1 .. Len(text), text[d].x.fix # "none"
    PROVE  IndexAt(Landing(text[d])) = ir[text[d].cur].imm_arg
  <1>1. text[d].cur # 0
    BY LaidFirst
  <1> DEFINE c == text[d].cur
             n == ir[c].imm_arg
  <1>2. c \in 1 .. Len(ir) /\ IsTransfer(ir[c])
    BY <1>1, LaidMember DEF Member
  <1>3. Inside(ir, n)
    BY <1>2, LaidTypes DEF Linked
  <1>4. n \in Int /\ n + 1 \in 1 .. Len(ir) /\ n + 1 # 0
    BY <1>3, LaidTypes DEF Inside
  <1>5. PICK e \in 1 .. Len(text) : text[e].cur = n + 1 /\ text[e].k = 1
    BY <1>4 DEF Settled, TextInv, Begun
  <1>6. DOMAIN text = 1 .. Len(text)
    BY DEF Settled, TypeInv, TypeOK
  <1>7. text[e].cur - 1 = n /\ text[e].cur > 0 /\ text[e].cur # 0 /\ text[e].k = 1
    <2> HIDE DEF n
    <2> QED
      BY <1>4, <1>5
  <1>8. Landing(text[d]) = Place(e)
    BY <1>6, <1>7 DEF Settled, JumpsLand, Place
  <1> QED
    BY <1>7, <1>8, GroupIndex

LEMMA IndexType ==
    ASSUME Settled, Linked, NEW a, AtGroup(a)
    PROVE  IndexAt(a) \in Int
  <1>1. DOMAIN text = 1 .. Len(text)
    BY DEF Settled, TypeInv, TypeOK
  <1>2. CASE a = CodeEnd
    BY <1>2, EndIndex, LaidTypes
  <1>3. CASE a # CodeEnd
    <2>1. PICK e \in 1 .. Len(text) : a = Place(e) /\ text[e].k = 1 /\ text[e].cur > 0
      BY <1>1, <1>3 DEF AtGroup, GroupsAt, Place
    <2>2. text[e].cur \in Int /\ text[e].cur # 0
      BY <2>1, LaidEntry, LaidTypes
    <2> QED
      BY <2>1, <2>2, GroupIndex
  <1> QED
    BY <1>2, <1>3
-----------------------------------------------------------------------------
(* The words, and what they are kept in.                                   *)

LEMMA AsIrNum == /\ \A v : AsIr(Num(v)) = Num(v)
                 /\ AsIr(Undetermined) = Undetermined
                 /\ \A w : w.kind # "code" => AsIr(w) = w
  BY DEF AsIr, Num, Undetermined

LEMMA AsIrCode == \A a : AtGroup(a) => AsIr(Code(a)) = Code(IndexAt(a))
  BY DEF AsIr, Code

LEMMA AsIrWord ==
    ASSUME Settled, Linked, NEW w, Safe(w)
    PROVE  /\ AsIr(w) \in Words /\ AsIr(w).kind = w.kind
           /\ w.kind = "num" \/ AsIr(w).kind = "num" => AsIr(w) = w
           /\ \A v : AsIr(w) = Num(v) <=> w = Num(v)
           /\ w.kind = "code" => AsIr(w) = Code(IndexAt(w.v)) /\ AtGroup(w.v)
  <1>1. w \in Words /\ w.kind \in {"num", "code", "undetermined"} /\ (w.kind = "code" => AtGroup(w.v))
    BY DEF Safe, Words
  <1>2. CASE w.kind = "code"
    <2>1. AsIr(w) = Code(IndexAt(w.v)) /\ IndexAt(w.v) \in Int
      BY <1>1, <1>2, IndexType DEF AsIr
    <2>2. AsIr(w).kind = "code" /\ AsIr(w) \in Words
      BY <2>1 DEF Code, Words
    <2> QED
      BY <1>1, <1>2, <2>1, <2>2 DEF Num
  <1>3. CASE w.kind # "code"
    <2>1. AsIr(w) = w
      BY <1>3, AsIrNum
    <2> QED
      BY <1>1, <1>3, <2>1
  <1> QED
    BY <1>2, <1>3

\* Stacks.
SafeStack(s) == s \in Seq(Words) /\ \A n \in 1 .. Len(s) : Safe(s[n])

LEMMA ImgSeq ==
    ASSUME Settled, Linked, NEW s, SafeStack(s)
    PROVE  /\ Img(s) \in Seq(Words) /\ Len(Img(s)) = Len(s) /\ Len(s) \in Nat
           /\ \A n \in 1 .. Len(s) : Img(s)[n] = AsIr(s[n]) /\ Safe(s[n])
           /\ s = << >> <=> Img(s) = << >>
  <1> DEFINE n == Len(s)
  <1>1. s \in Seq(Words) /\ n \in Nat /\ DOMAIN s = 1 .. n
    BY DEF SafeStack
  <1>2. \A j \in 1 .. n : AsIr(s[j]) \in Words
    BY AsIrWord DEF SafeStack
  <1>3. Img(s) = [j \in 1 .. n |-> AsIr(s[j])]
    BY <1>1 DEF Img
  <1> HIDE DEF n
  <1>4. Img(s) \in Seq(Words) /\ Len(Img(s)) = n
    BY <1>1, <1>2, <1>3
  <1>5. s = << >> <=> Len(s) = 0
    BY <1>1
  <1>6. Img(s) = << >> <=> Len(Img(s)) = 0
    BY <1>4
  <1> QED
    BY <1>1, <1>3, <1>4, <1>5, <1>6 DEF n, SafeStack

LEMMA SameSeq ==
    ASSUME NEW s \in Seq(Words), NEW t \in Seq(Words), Len(s) = Len(t), \A n \in 1 .. Len(s) : s[n] = t[n]
    PROVE  s = t
  OBVIOUS

LEMMA PushFacts ==
    ASSUME NEW s \in Seq(Words), NEW w \in Words
    PROVE  LET q == << w >> \o s
           IN  /\ q \in Seq(Words) /\ Len(q) = Len(s) + 1 /\ q[1] = w /\ q # << >> /\ Head(q) = w
               /\ \A n \in 1 .. Len(s) : q[n + 1] = s[n]
               /\ Tail(q) = s
  <1> DEFINE q == << w >> \o s
             t == Tail(q)
  <1>1. Len(s) \in Nat
    OBVIOUS
  <1>2. /\ q \in Seq(Words) /\ Len(q) = Len(s) + 1 /\ q[1] = w /\ q # << >>
        /\ \A n \in 1 .. Len(s) : q[n + 1] = s[n]
    BY <1>1
  <1> HIDE DEF q
  <1>3. /\ t \in Seq(Words) /\ Len(t) = Len(q) - 1 /\ \A n \in 1 .. Len(t) : t[n] = q[n + 1]
        /\ Head(q) = q[1]
    BY <1>1, <1>2
  <1> HIDE DEF t
  <1>4. Len(t) = Len(s)
    BY <1>1, <1>2, <1>3
  <1>5. \A n \in 1 .. Len(t) : t[n] = s[n]
    BY <1>2, <1>3, <1>4
  <1>6. t = s
    BY <1>3, <1>4, <1>5, SameSeq
  <1> QED
    BY <1>2, <1>3, <1>6 DEF q, t

LEMMA PopFacts ==
    ASSUME NEW s \in Seq(Words), s # << >>
    PROVE  /\ Tail(s) \in Seq(Words) /\ Len(Tail(s)) = Len(s) - 1 /\ Len(s) \in Nat /\ Len(s) >= 1
           /\ \A n \in 1 .. Len(s) - 1 : Tail(s)[n] = s[n + 1]
           /\ Head(s) = s[1] /\ s[1] \in Words
  OBVIOUS

LEMMA ImgPush ==
    ASSUME Settled, Linked, NEW s, SafeStack(s), NEW w, Safe(w)
    PROVE  Img(<< w >> \o s) = << AsIr(w) >> \o Img(s) /\ SafeStack(<< w >> \o s)
  <1> DEFINE q == << w >> \o s
             t == << AsIr(w) >> \o Img(s)
  <1>1. s \in Seq(Words) /\ w \in Words /\ AsIr(w) \in Words /\ Len(s) \in Nat
    BY AsIrWord DEF SafeStack, Safe
  <1>2. /\ q \in Seq(Words) /\ Len(q) = Len(s) + 1 /\ q[1] = w
        /\ \A n \in 1 .. Len(s) : q[n + 1] = s[n]
    BY <1>1, PushFacts
  <1>3. /\ Img(s) \in Seq(Words) /\ Len(Img(s)) = Len(s)
        /\ \A n \in 1 .. Len(s) : Img(s)[n] = AsIr(s[n]) /\ Safe(s[n])
    BY ImgSeq
  <1>4. /\ t \in Seq(Words) /\ Len(t) = Len(s) + 1 /\ t[1] = AsIr(w)
        /\ \A n \in 1 .. Len(s) : t[n + 1] = Img(s)[n]
    BY <1>1, <1>3, PushFacts
  <1> HIDE DEF q, t
  <1>5. \A n \in 1 .. Len(s) + 1 : n = 1 \/ (n - 1 \in 1 .. Len(s) /\ n = (n - 1) + 1)
    BY <1>1
  <1>6. SafeStack(q)
    <2>1. ASSUME NEW n \in 1 .. Len(q) PROVE Safe(q[n])
      <3>1. n = 1 \/ (n - 1 \in 1 .. Len(s) /\ n = (n - 1) + 1)
        BY <1>2, <1>5
      <3> QED
        BY <1>2, <1>3, <3>1
    <2> QED
      BY <1>2, <2>1 DEF SafeStack
  <1>7. /\ Img(q) \in Seq(Words) /\ Len(Img(q)) = Len(q)
        /\ \A n \in 1 .. Len(q) : Img(q)[n] = AsIr(q[n])
    BY <1>6, ImgSeq
  <1>8. ASSUME NEW n \in 1 .. Len(t) PROVE Img(q)[n] = t[n]
    <2>1. n \in 1 .. Len(s) + 1 /\ n \in 1 .. Len(q)
      BY <1>2, <1>4
    <2>2. n = 1 \/ (n - 1 \in 1 .. Len(s) /\ n = (n - 1) + 1)
      BY <1>5, <2>1
    <2>3. Img(q)[n] = AsIr(q[n])
      BY <1>7, <2>1
    <2> QED
      BY <1>2, <1>3, <1>4, <2>2, <2>3
  <1>9. Img(q) = t
    BY <1>2, <1>4, <1>7, <1>8, SameSeq
  <1> QED
    BY <1>6, <1>9 DEF q, t

LEMMA ImgPop ==
    ASSUME Settled, Linked, NEW s, SafeStack(s), s # << >>
    PROVE  /\ Img(Tail(s)) = Tail(Img(s)) /\ Head(Img(s)) = AsIr(Head(s)) /\ Img(s) # << >>
           /\ SafeStack(Tail(s)) /\ Safe(Head(s)) /\ Head(s) = s[1]
  <1> DEFINE q == Tail(s)
             t == Tail(Img(s))
  <1>1. s \in Seq(Words)
    BY DEF SafeStack
  <1>2. /\ q \in Seq(Words) /\ Len(q) = Len(s) - 1 /\ Len(s) \in Nat /\ Len(s) >= 1
        /\ \A n \in 1 .. Len(s) - 1 : q[n] = s[n + 1]
        /\ Head(s) = s[1]
    BY <1>1, PopFacts
  <1>3. /\ Img(s) \in Seq(Words) /\ Len(Img(s)) = Len(s) /\ Img(s) # << >>
        /\ \A n \in 1 .. Len(s) : Img(s)[n] = AsIr(s[n]) /\ Safe(s[n])
    BY ImgSeq
  <1>4. /\ t \in Seq(Words) /\ Len(t) = Len(s) - 1
        /\ \A n \in 1 .. Len(s) - 1 : t[n] = Img(s)[n + 1]
        /\ Head(Img(s)) = Img(s)[1]
    BY <1>3, PopFacts
  <1> HIDE DEF q, t
  <1>5. 1 \in 1 .. Len(s) /\ \A n \in 1 .. Len(s) - 1 : n + 1 \in 1 .. Len(s)
    BY <1>2
  <1>6. SafeStack(q)
    BY <1>2, <1>3, <1>5 DEF SafeStack
  <1>7. /\ Img(q) \in Seq(Words) /\ Len(Img(q)) = Len(q)
        /\ \A n \in 1 .. Len(q) : Img(q)[n] = AsIr(q[n])
    BY <1>6, ImgSeq
  <1>8. \A n \in 1 .. Len(q) : Img(q)[n] = t[n]
    BY <1>2, <1>3, <1>4, <1>5, <1>7
  <1>9. Img(q) = t
    BY <1>2, <1>4, <1>7, <1>8, SameSeq
  <1> QED
    BY <1>2, <1>3, <1>4, <1>5, <1>6, <1>9 DEF q, t

\* Registers.
SafeRegs(r) == r \in [REG_NUMBERS -> Words] /\ \A n \in REG_NUMBERS : Safe(r[n])

LEMMA ImgRegs ==
    ASSUME Settled, Linked, NEW r, SafeRegs(r)
    PROVE  /\ Img(r) \in [REG_NUMBERS -> Words]
           /\ \A n \in REG_NUMBERS : Img(r)[n] = AsIr(r[n]) /\ Safe(r[n])
  BY AsIrWord DEF SafeRegs, Img

LEMMA ImgPut ==
    ASSUME Settled, Linked, NEW r, SafeRegs(r), NEW t \in REG_NUMBERS, NEW w, Safe(w)
    PROVE  Img([r EXCEPT ![t] = w]) = [Img(r) EXCEPT ![t] = AsIr(w)] /\ SafeRegs([r EXCEPT ![t] = w])
  <1> DEFINE q == [r EXCEPT ![t] = w]
  <1>1. w \in Words /\ r \in [REG_NUMBERS -> Words] /\ DOMAIN r = REG_NUMBERS
    BY DEF Safe, SafeRegs
  <1>2. /\ q \in [REG_NUMBERS -> Words] /\ DOMAIN q = REG_NUMBERS
        /\ \A n \in REG_NUMBERS : q[n] = IF n = t THEN w ELSE r[n]
    BY <1>1
  <1> HIDE DEF q
  <1>3. SafeRegs(q)
    BY <1>2 DEF SafeRegs
  <1>4. Img(q) = [n \in REG_NUMBERS |-> IF n = t THEN AsIr(w) ELSE AsIr(r[n])]
    BY <1>2 DEF Img
  <1>5. [Img(r) EXCEPT ![t] = AsIr(w)] = [n \in REG_NUMBERS |-> IF n = t THEN AsIr(w) ELSE AsIr(r[n])]
    BY <1>1 DEF Img
  <1> QED
    BY <1>3, <1>4, <1>5 DEF q

\* Memory.
LEMMA ImgLoad ==
    ASSUME NEW m, NEW a
    PROVE  Load(Img(m), a) = AsIr(Load(m, a))
  <1>1. DOMAIN Img(m) = DOMAIN m /\ \A b \in DOMAIN m : Img(m)[b] = AsIr(m[b])
    BY DEF Img
  <1> QED
    BY <1>1, AsIrNum DEF Load

LEMMA ImgStore ==
    ASSUME NEW m, NEW a, NEW w
    PROVE  Img(Store(m, a, w)) = Store(Img(m), a, AsIr(w))
  <1> DEFINE D == {c \in DOMAIN m : ~Overlap(a, c)} \cup {a}
  <1>1. DOMAIN Img(m) = DOMAIN m /\ \A b \in DOMAIN m : Img(m)[b] = AsIr(m[b])
    BY DEF Img
  <1>2. Store(m, a, w) = [b \in D |-> IF b = a THEN w ELSE m[b]]
    BY DEF Store
  <1>3. Store(Img(m), a, AsIr(w)) = [b \in D |-> IF b = a THEN AsIr(w) ELSE Img(m)[b]]
    BY <1>1 DEF Store
  <1>4. \A b \in D : b # a => b \in DOMAIN m
    OBVIOUS
  <1> HIDE DEF D
  <1>5. Img(Store(m, a, w)) = [b \in D |-> AsIr(IF b = a THEN w ELSE m[b])]
    BY <1>2 DEF Img
  <1>6. \A b \in D : AsIr(IF b = a THEN w ELSE m[b]) = IF b = a THEN AsIr(w) ELSE Img(m)[b]
    BY <1>1, <1>4
  <1> QED
    BY <1>3, <1>5, <1>6
-----------------------------------------------------------------------------
(* What the x64 instructions do, on the words of the IR.                   *)

Sum(op, a, b) ==
    IF ~Numbers2(a, b) THEN Undetermined ELSE Num(IF op = "ADD_mem_reg" THEN a.v + b.v ELSE a.v - b.v)
\* A word in rdx:rax, and the quotient of what is there.
Widened(R, w) == [R EXCEPT ![REGS.RAX] = w, ![REGS.RDX] = High(w)]
Divided(R, b) ==
    LET a == R[REGS.RAX]
    IN  IF Numbers2(a, b) /\ R[REGS.RDX] = High(a)
        THEN [R EXCEPT ![REGS.RAX] = Num(Quotient(a.v, b.v)), ![REGS.RDX] = Num(Remainder(a.v, b.v))]
        ELSE [R EXCEPT ![REGS.RAX] = Undetermined, ![REGS.RDX] = Undetermined]

\* The instructions that the next one follows, but for those with memory.
Plainly == {"PUSH_imm", "PUSH_reg", "POP_reg", "CQO", "IMUL_reg", "IDIV_reg", "MOV_reg_imm64", "CMP_reg_reg"}
             \cup Stacked
Acts(x, S, R, T, Q, G) ==
    /\ x.op \in Plainly
    /\ x.op = "PUSH_imm" => T = << Num(x.imm) >> \o S /\ Q = R
    /\ x.op = "PUSH_reg" => T = << R[To(x)] >> \o S /\ Q = R
    /\ x.op = "POP_reg"  => S # << >> /\ T = Tail(S) /\ Q = [R EXCEPT ![To(x)] = Head(S)]
    /\ x.op \in Stacked  => S # << >> /\ T = << Sum(x.op, Head(S), R[REGS.RAX]) >> \o Tail(S) /\ Q = R
    /\ x.op = "CQO"      => T = S /\ Q = Widened(R, R[REGS.RAX])
    /\ x.op = "IMUL_reg" => T = S /\ Q = Widened(R, Product(R[REGS.RAX], R[To(x)]))
    /\ x.op = "IDIV_reg" => T = S /\ Q = Divided(R, R[To(x)]) /\ R[To(x)] # Num(0)
    /\ x.op = "MOV_reg_imm64" =>
          T = S /\ Q = [R EXCEPT ![To(x)] = IF x.fix = "abs" THEN Code(IndexAt(x.imm)) ELSE Num(x.imm)]
    /\ x.op = "CMP_reg_reg" => T = S /\ Q = R /\ G = << R[REGS.RAX], R[REGS.RCX] >>

Here(d) == Settled /\ Linked /\ d \in 1 .. Len(text) /\ Means(d, Fetched) /\ Kept(regs, stack, ram)

LEMMA HereSafe ==
    ASSUME NEW d, Here(d)
    PROVE  /\ SafeRegs(regs) /\ SafeStack(stack)
           /\ Fetched.op = text[d].x.op /\ Fetched.to = To(text[d].x) /\ Fetched.from = From(text[d].x)
           /\ Fetched.imm = text[d].x.imm /\ Fetched.is_code = (text[d].x.fix = "abs")
           /\ Fetched.next = base_addr + End(text[d]) /\ Shape(text[d].x) /\ text[d].x.imm \in Int
           /\ REGS.RAX \in REG_NUMBERS /\ REGS.RDX \in REG_NUMBERS /\ REGS.RCX \in REG_NUMBERS
           /\ REGS.RAX # REGS.RDX
  <1>1. SafeRegs(regs) /\ SafeStack(stack)
    BY DEF Here, Kept, SafeRegs, SafeStack
  <1>2. text[d].x.imm \in Int
    BY LaidEntry DEF Here
  <1>3. /\ REGS.RAX \in REG_NUMBERS /\ REGS.RDX \in REG_NUMBERS /\ REGS.RCX \in REG_NUMBERS
        /\ REGS.RAX # REGS.RDX
    BY DEF REGS, REG_NUMBERS
  <1> QED
    BY <1>1, <1>2, <1>3 DEF Here, Means

LEMMA PushActs ==
    ASSUME NEW d, Here(d), Push(Fetched), text[d].x.op # "PUSH_mem"
    PROVE  Acts(text[d].x, Img(stack), Img(regs), Img(stack'), Img(regs'), Img(flags'))
  <1> DEFINE i == Fetched
             x == text[d].x
             w == CASE i.op = "PUSH_imm" -> Num(i.imm) [] i.op = "PUSH_reg" -> regs[i.to]
                    [] i.op = "PUSH_mem" -> Load(ram, Offset(i))
  <1>1. i.op \in {"PUSH_imm", "PUSH_reg", "PUSH_mem"} /\ regs' = regs /\ stack' = << w >> \o stack
    BY DEF Push, Step
  <1>2. i.op = x.op /\ i.to = To(x) /\ i.imm = x.imm /\ Shape(x) /\ x.imm \in Int /\ SafeRegs(regs)
        /\ SafeStack(stack) /\ Settled /\ Linked
    BY HereSafe DEF Here
  <1>3. CASE x.op = "PUSH_imm"
    <2>1. w = Num(x.imm) /\ Safe(w)
      BY <1>2, <1>3, SafeWords
    <2> HIDE DEF w
    <2>2. Img(stack') = << AsIr(w) >> \o Img(stack)
      BY <1>1, <1>2, <2>1, ImgPush
    <2>3. AsIr(w) = Num(x.imm)
      BY <2>1, AsIrNum
    <2> QED
      BY <1>1, <1>3, <2>2, <2>3 DEF Acts, Plainly, Stacked
  <1>4. CASE x.op = "PUSH_reg"
    <2>1. To(x) \in REG_NUMBERS
      BY <1>2, <1>4, Registers
    <2>2. w = regs[To(x)] /\ Safe(w)
      BY <1>2, <1>4, <2>1 DEF SafeRegs
    <2> HIDE DEF w
    <2>3. Img(stack') = << AsIr(w) >> \o Img(stack)
      BY <1>1, <1>2, <2>2, ImgPush
    <2>4. AsIr(w) = Img(regs)[To(x)]
      BY <1>2, <2>1, <2>2, ImgRegs
    <2> QED
      BY <1>1, <1>4, <2>3, <2>4 DEF Acts, Plainly, Stacked
  <1> QED
    BY <1>1, <1>2, <1>3, <1>4

LEMMA PopActs ==
    ASSUME NEW d, Here(d), PopReg(Fetched)
    PROVE  Acts(text[d].x, Img(stack), Img(regs), Img(stack'), Img(regs'), Img(flags'))
  <1> DEFINE i == Fetched
             x == text[d].x
  <1>1. /\ i.op = "POP_reg" /\ regs' = [regs EXCEPT ![i.to] = Head(stack)]
        /\ stack' = Tail(stack) /\ stack # << >>
    BY DEF PopReg, Step, Faulty, Reads
  <1>2. /\ i.op = x.op /\ i.to = To(x) /\ Shape(x) /\ SafeRegs(regs) /\ SafeStack(stack)
        /\ Settled /\ Linked
    BY HereSafe DEF Here
  <1>3. To(x) \in REG_NUMBERS
    BY <1>1, <1>2, Registers
  <1>4. /\ Img(stack') = Tail(Img(stack)) /\ Head(Img(stack)) = AsIr(Head(stack)) /\ Img(stack) # << >>
        /\ Safe(Head(stack))
    BY <1>1, <1>2, ImgPop
  <1> DEFINE w == Head(stack)
  <1>5. Safe(w) /\ regs' = [regs EXCEPT ![To(x)] = w] /\ Head(Img(stack)) = AsIr(w)
    BY <1>1, <1>2, <1>4
  <1> HIDE DEF w
  <1>6. Img(regs') = [Img(regs) EXCEPT ![To(x)] = AsIr(w)]
    BY <1>2, <1>3, <1>5, ImgPut
  <1>7. x.op = "POP_reg"
    BY <1>1, <1>2
  <1> QED
    BY <1>4, <1>5, <1>6, <1>7 DEF Acts, Plainly, Stacked

LEMMA AddSubActs ==
    ASSUME NEW d, Here(d), AddSub(Fetched)
    PROVE  Acts(text[d].x, Img(stack), Img(regs), Img(stack'), Img(regs'), Img(flags'))
  <1> DEFINE i == Fetched
             x == text[d].x
             a == Head(stack)
             b == regs[REGS.RAX]
             w == Sum(x.op, a, b)
             t == Tail(stack)
  <1>1. i.op \in Stacked /\ i.op = x.op /\ Shape(x) /\ i.from = From(x) /\ SafeRegs(regs) /\ SafeStack(stack)
        /\ Settled /\ Linked /\ REGS.RAX \in REG_NUMBERS
    BY HereSafe DEF Here, AddSub, Step, Stacked
  <1>2. i.from = REGS.RAX
    BY <1>1, Registers
  <1>3. regs' = regs /\ stack # << >> /\ stack' = << w >> \o t
    BY <1>1, <1>2 DEF AddSub, Step, Faulty, Reads, Stacked, Sum
  <1>4. /\ Img(t) = Tail(Img(stack)) /\ Head(Img(stack)) = AsIr(a) /\ Img(stack) # << >>
        /\ SafeStack(t) /\ Safe(a)
    BY <1>1, <1>3, ImgPop
  <1>5. Safe(b) /\ Img(regs)[REGS.RAX] = AsIr(b)
    BY <1>1, ImgRegs
  <1> HIDE DEF a, b, t
  <1>6. a.v \in Int /\ b.v \in Int
    BY <1>4, <1>5 DEF Safe, Words
  <1>7. Safe(w)
    <2>1. a.v + b.v \in Int /\ a.v - b.v \in Int
      BY <1>6
    <2> QED
      BY <2>1, SafeWords DEF Sum
  <1>8. Sum(x.op, AsIr(a), AsIr(b)) = w /\ AsIr(w) = w
    <2>1. /\ AsIr(a).kind = a.kind /\ (a.kind = "num" => AsIr(a) = a)
          /\ AsIr(b).kind = b.kind /\ (b.kind = "num" => AsIr(b) = b)
      BY <1>1, <1>4, <1>5, AsIrWord
    <2>2. w.kind # "code"
      BY DEF Sum, Num, Undetermined
    <2> HIDE DEF w
    <2>3. AsIr(w) = w
      BY <2>2, AsIrNum
    <2> QED
      BY <2>1, <2>3 DEF Sum, Numbers2, w
  <1> HIDE DEF w
  <1>9. Img(stack') = << w >> \o Img(t)
    BY <1>1, <1>3, <1>4, <1>7, <1>8, ImgPush
  <1>10. x.op \in Stacked /\ x.op \in {"ADD_mem_reg", "SUB_mem_reg"}
    BY <1>1 DEF Stacked
  <1> QED
    BY <1>3, <1>4, <1>5, <1>8, <1>9, <1>10 DEF Acts, Plainly

LEMMA MovActs ==
    ASSUME NEW d, Here(d), Mov(Fetched), text[d].x.op = "MOV_reg_imm64"
    PROVE  Acts(text[d].x, Img(stack), Img(regs), Img(stack'), Img(regs'), Img(flags'))
  <1> DEFINE i == Fetched
             x == text[d].x
             w == IF x.fix = "abs" THEN Code(x.imm) ELSE Num(x.imm)
  <1>1. /\ i.op = x.op /\ i.to = To(x) /\ Shape(x) /\ SafeRegs(regs) /\ SafeStack(stack)
        /\ Settled /\ Linked /\ x.imm \in Int /\ i.imm = x.imm /\ i.is_code = (x.fix = "abs")
        /\ d \in 1 .. Len(text)
    BY HereSafe DEF Here
  <1>2. regs' = [regs EXCEPT ![To(x)] = w] /\ stack' = stack
    BY <1>1 DEF Mov, Step
  <1>3. To(x) \in REG_NUMBERS
    BY <1>1, Registers
  <1>4. Safe(w) /\ AsIr(w) = IF x.fix = "abs" THEN Code(IndexAt(x.imm)) ELSE Num(x.imm)
    <2>1. CASE x.fix = "abs"
      <3>1. AtGroup(x.imm)
        BY <1>1, <2>1, LaidLanding DEF Landing
      <3>2. Safe(Code(x.imm)) /\ AsIr(Code(x.imm)) = Code(IndexAt(x.imm))
        BY <1>1, <3>1, SafeWords, AsIrCode
      <3> QED
        BY <2>1, <3>2
    <2>2. CASE x.fix # "abs"
      BY <1>1, <2>2, SafeWords, AsIrNum
    <2> QED
      BY <2>1, <2>2
  <1> HIDE DEF w
  <1>5. Img(regs') = [Img(regs) EXCEPT ![To(x)] = AsIr(w)] /\ SafeRegs(regs')
    <2> DEFINE q == [regs EXCEPT ![To(x)] = w]
    <2>1. Img(q) = [Img(regs) EXCEPT ![To(x)] = AsIr(w)] /\ SafeRegs(q)
      BY <1>1, <1>3, <1>4, ImgPut
    <2> QED
      BY <1>2, <2>1
  <1> QED
    BY <1>2, <1>4, <1>5 DEF Acts, Plainly, Stacked

LEMMA ImgPair ==
    ASSUME NEW r, Settled, Linked, SafeRegs(r), NEW v, Safe(v), NEW w, Safe(w)
    PROVE  LET q == [r EXCEPT ![REGS.RAX] = v, ![REGS.RDX] = w]
           IN  /\ Img(q) = [Img(r) EXCEPT ![REGS.RAX] = AsIr(v), ![REGS.RDX] = AsIr(w)]
               /\ SafeRegs(q)
  <1>1. REGS.RAX \in REG_NUMBERS /\ REGS.RDX \in REG_NUMBERS
    BY DEF REGS, REG_NUMBERS
  <1> DEFINE one == [r EXCEPT ![REGS.RAX] = v]
             two == [one EXCEPT ![REGS.RDX] = w]
  <1>2. Img(one) = [Img(r) EXCEPT ![REGS.RAX] = AsIr(v)] /\ SafeRegs(one)
    BY <1>1, ImgPut
  <1>3. Img(two) = [Img(one) EXCEPT ![REGS.RDX] = AsIr(w)] /\ SafeRegs(two)
    <2> HIDE DEF one
    <2> QED
      BY <1>1, <1>2, ImgPut
  <1> QED
    BY <1>2, <1>3

LEMMA ImgWide ==
    ASSUME Settled, Linked, SafeRegs(regs), NEW w, Safe(w)
    PROVE  Img(Wide(w)) = Widened(Img(regs), AsIr(w)) /\ High(AsIr(w)) = AsIr(High(w))
  <1>1. Safe(High(w)) /\ AsIr(High(w)) = High(w)
    BY SafeWords, AsIrNum DEF High
  <1>2. High(AsIr(w)) = High(w)
    <2>1. AsIr(w).kind = w.kind /\ (w.kind = "num" => AsIr(w) = w)
      BY AsIrWord
    <2> QED
      BY <2>1 DEF High
  <1>3. Img(Wide(w)) = [Img(regs) EXCEPT ![REGS.RAX] = AsIr(w), ![REGS.RDX] = AsIr(High(w))]
    BY <1>1, ImgPair DEF Wide
  <1> QED
    BY <1>1, <1>2, <1>3 DEF Widened

LEMMA MulDivActs ==
    ASSUME NEW d, Here(d), MulDiv(Fetched)
    PROVE  Acts(text[d].x, Img(stack), Img(regs), Img(stack'), Img(regs'), Img(flags'))
  <1> DEFINE i == Fetched
             x == text[d].x
             a == regs[REGS.RAX]
             b == regs[To(x)]
             c == regs[REGS.RDX]
  <1>1. /\ i.op = x.op /\ i.to = To(x) /\ Shape(x) /\ SafeRegs(regs) /\ SafeStack(stack)
        /\ Settled /\ Linked /\ REGS.RAX \in REG_NUMBERS /\ REGS.RDX \in REG_NUMBERS
    BY HereSafe DEF Here
  <1>2. stack' = stack /\ i.op \in {"CQO", "IMUL_reg", "IDIV_reg"}
    BY DEF MulDiv, Step
  <1>3. Safe(a) /\ Img(regs)[REGS.RAX] = AsIr(a) /\ Safe(c) /\ Img(regs)[REGS.RDX] = AsIr(c)
    BY <1>1, ImgRegs
  <1>4. AsIr(a).kind = a.kind /\ (a.kind = "num" => AsIr(a) = a) /\ a.v \in Int
    BY <1>1, <1>3, AsIrWord DEF Safe, Words
  <1>5. x.op # "CQO" =>
           /\ Safe(b) /\ Img(regs)[To(x)] = AsIr(b) /\ AsIr(b).kind = b.kind /\ (b.kind = "num" => AsIr(b) = b)
           /\ (AsIr(b) = Num(0) <=> b = Num(0)) /\ b.v \in Int
    <2>1. x.op # "CQO" => To(x) \in REG_NUMBERS
      BY <1>1, <1>2, Registers
    <2>2. x.op # "CQO" => Safe(b) /\ Img(regs)[To(x)] = AsIr(b)
      BY <1>1, <2>1, ImgRegs
    <2> QED
      BY <1>1, <2>2, AsIrWord DEF Safe, Words
  <1>6. CASE x.op = "CQO"
    <2>1. regs' = Wide(a)
      BY <1>1, <1>6 DEF MulDiv
    <2>2. Img(regs') = Widened(Img(regs), AsIr(a))
      BY <1>1, <1>3, <2>1, ImgWide
    <2> QED
      BY <1>2, <1>3, <1>6, <2>2 DEF Acts, Plainly, Stacked
  <1>7. CASE x.op = "IMUL_reg"
    <2> DEFINE p == Product(a, b)
    <2>1. regs' = Wide(p)
      BY <1>1, <1>7 DEF MulDiv, Product
    <2>2. a.v * b.v \in Int
      <3>1. ASSUME NEW y \in Int, NEW z \in Int PROVE y * z \in Int
        OBVIOUS
      <3> QED
        BY <1>4, <1>5, <1>7, <3>1
    <2>3. Safe(p) /\ AsIr(p) = p
      BY <2>2, SafeWords, AsIrNum DEF Product
    <2>4. Product(AsIr(a), AsIr(b)) = p
      BY <1>4, <1>5, <1>7 DEF Product, Numbers2
    <2> HIDE DEF p
    <2>5. Img(regs') = Widened(Img(regs), p)
      BY <1>1, <2>1, <2>3, ImgWide
    <2> QED
      BY <1>2, <1>3, <1>5, <1>7, <2>4, <2>5 DEF Acts, Plainly, Stacked
  <1>8. CASE x.op = "IDIV_reg"
    <2>1. b # Num(0)
      BY <1>1, <1>2, <1>8 DEF MulDiv, Step, Faulty
    <2>2. IsWide /\ b.kind = "num" <=> Numbers2(AsIr(a), AsIr(b)) /\ AsIr(c) = High(AsIr(a))
      <3>1. a.kind = "num" => (AsIr(c) = High(a) <=> c = High(a))
        BY <1>1, <1>3, AsIrWord DEF High
      <3> QED
        BY <1>4, <1>5, <1>8, <3>1 DEF IsWide, Numbers2
    <2>3. Img(regs') = Divided(Img(regs), AsIr(b))
      <3>1. CASE IsWide /\ b.kind = "num"
        <4> DEFINE q == Num(Quotient(a.v, b.v))
                   e == Num(Remainder(a.v, b.v))
        <4>1. regs' = [regs EXCEPT ![REGS.RAX] = q, ![REGS.RDX] = e]
          BY <1>1, <1>8, <3>1 DEF MulDiv
        <4>2. b.v # 0
          <5>1. b = Num(b.v)
            BY <1>5, <1>8, <3>1 DEF Safe, Words, Num
          <5> QED
            BY <2>1, <5>1
        <4>3. Safe(q) /\ Safe(e) /\ AsIr(q) = q /\ AsIr(e) = e
          BY <1>4, <1>5, <1>8, <4>2, QuotientType, SafeWords, AsIrNum
        <4>4. AsIr(a) = a /\ AsIr(b) = b
          BY <1>4, <1>5, <1>8, <3>1 DEF IsWide
        <4>5. Divided(Img(regs), AsIr(b)) = [Img(regs) EXCEPT ![REGS.RAX] = q, ![REGS.RDX] = e]
          BY <1>3, <2>2, <3>1, <4>4 DEF Divided
        <4> HIDE DEF q, e
        <4>6. /\ Img(regs') = [Img(regs) EXCEPT ![REGS.RAX] = AsIr(q), ![REGS.RDX] = AsIr(e)]
              /\ SafeRegs(regs')
          <5> DEFINE r == [regs EXCEPT ![REGS.RAX] = q, ![REGS.RDX] = e]
          <5>1. Img(r) = [Img(regs) EXCEPT ![REGS.RAX] = AsIr(q), ![REGS.RDX] = AsIr(e)] /\ SafeRegs(r)
            BY <1>1, <4>3, ImgPair
          <5> QED
            BY <4>1, <5>1
        <4> QED
          BY <4>3, <4>5, <4>6
      <3>2. CASE ~(IsWide /\ b.kind = "num")
        <4>1. regs' = [regs EXCEPT ![REGS.RAX] = Undetermined, ![REGS.RDX] = Undetermined]
          BY <1>1, <1>8, <3>2 DEF MulDiv
        <4>2. Divided(Img(regs), AsIr(b))
                = [Img(regs) EXCEPT ![REGS.RAX] = Undetermined, ![REGS.RDX] = Undetermined]
          BY <1>3, <2>2, <3>2 DEF Divided
        <4> DEFINE u == Undetermined
        <4>3. /\ Img(regs') = [Img(regs) EXCEPT ![REGS.RAX] = AsIr(u), ![REGS.RDX] = AsIr(u)]
              /\ SafeRegs(regs')
          <5> DEFINE r == [regs EXCEPT ![REGS.RAX] = u, ![REGS.RDX] = u]
          <5>1. Safe(u) /\ regs' = r
            BY <4>1, SafeWords
          <5> HIDE DEF u
          <5>2. Img(r) = [Img(regs) EXCEPT ![REGS.RAX] = AsIr(u), ![REGS.RDX] = AsIr(u)] /\ SafeRegs(r)
            BY <1>1, <5>1, ImgPair
          <5> QED
            BY <5>1, <5>2
        <4> QED
          BY <4>2, <4>3, AsIrNum
      <3> QED
        BY <3>1, <3>2
    <2> QED
      BY <1>2, <1>5, <1>8, <2>1, <2>3 DEF Acts, Plainly, Stacked
  <1> QED
    BY <1>1, <1>2, <1>6, <1>7, <1>8

LEMMA CmpActs ==
    ASSUME NEW d, Here(d), Cmp(Fetched)
    PROVE  Acts(text[d].x, Img(stack), Img(regs), Img(stack'), Img(regs'), Img(flags'))
  <1> DEFINE i == Fetched
             x == text[d].x
  <1>1. /\ i.op = x.op /\ i.to = To(x) /\ i.from = From(x) /\ Shape(x) /\ SafeRegs(regs)
        /\ Settled /\ Linked /\ REGS.RAX \in REG_NUMBERS /\ REGS.RCX \in REG_NUMBERS
    BY HereSafe DEF Here
  <1>2. i.op = "CMP_reg_reg" /\ stack' = stack /\ regs' = regs /\ flags' = << regs[i.to], regs[i.from] >>
    BY DEF Cmp, Step
  <1>3. flags' = << regs[REGS.RAX], regs[REGS.RCX] >>
    BY <1>1, <1>2, Registers
  <1>4. Img(flags') = << AsIr(regs[REGS.RAX]), AsIr(regs[REGS.RCX]) >>
    BY <1>3 DEF Img
  <1>5. Img(flags') = << Img(regs)[REGS.RAX], Img(regs)[REGS.RCX] >>
    BY <1>1, <1>4, ImgRegs
  <1> QED
    BY <1>1, <1>2, <1>5 DEF Acts, Plainly, Stacked
-----------------------------------------------------------------------------
(* From one instruction of a group to the next.                            *)

LEMMA RestFacts ==
    ASSUME NEW s \in Seq(Words), NEW m \in Nat, m <= Len(s)
    PROVE  LET u == SubSeq(s, m + 1, Len(s))
           IN  /\ u \in Seq(Words) /\ Len(u) = Len(s) - m
               /\ \A j \in 1 .. Len(s) - m : u[j] = s[j + m]
  <1> DEFINE n == Len(s)
             u == SubSeq(s, m + 1, n)
  <1>1. n \in Nat /\ m + 1 \in Int /\ n \in Int /\ \A j \in m + 1 .. n : s[j] \in Words
    OBVIOUS
  <1>2. /\ u \in Seq(Words) /\ Len(u) = IF m + 1 <= n THEN n - (m + 1) + 1 ELSE 0
        /\ \A j \in 1 .. n - (m + 1) + 1 : u[j] = s[(m + 1) + j - 1]
    <2> HIDE DEF n
    <2> QED
      BY <1>1, SubSeqProperties
  <1> HIDE DEF n, u
  <1>3. Len(u) = n - m /\ n - (m + 1) + 1 = n - m /\ \A j \in 1 .. n - m : (m + 1) + j - 1 = j + m
    BY <1>1, <1>2 DEF n
  <1> QED
    BY <1>2, <1>3 DEF n, u

LEMMA BelowFacts ==
    ASSUME NEW s \in Seq(Words)
    PROVE  /\ Len(s) \in Nat /\ (s # << >> <=> Len(s) >= 1)
           /\ Len(s) >= 1 => /\ Head(s) = s[1] /\ s[1] \in Words /\ Tail(s) = Below(s, 1)
                             /\ Below(s, 1) \in Seq(Words)
           /\ Len(s) >= 1 /\ Below(s, 1) # << >> => Len(s) >= 2
           /\ Len(s) >= 2 => /\ Head(Below(s, 1)) = s[2] /\ s[2] \in Words
                             /\ Tail(Below(s, 1)) = Below(s, 2) /\ Below(s, 2) \in Seq(Words)
  <1> DEFINE n == Len(s)
             u == SubSeq(s, 2, n)
             v == SubSeq(s, 3, n)
  <1>1. n \in Nat /\ (s # << >> <=> n >= 1)
    OBVIOUS
  <1>2. Below(s, 1) = u /\ Below(s, 2) = v
    BY DEF Below
  <1>3. ASSUME n >= 1
        PROVE  /\ Head(s) = s[1] /\ s[1] \in Words /\ Tail(s) = u /\ u \in Seq(Words)
               /\ Len(u) = n - 1 /\ \A j \in 1 .. n - 1 : u[j] = s[j + 1]
    <2>1. s # << >>
      BY <1>1, <1>3
    <2> DEFINE t == Tail(s)
    <2>2. /\ t \in Seq(Words) /\ Len(t) = n - 1 /\ \A j \in 1 .. n - 1 : t[j] = s[j + 1]
          /\ Head(s) = s[1] /\ s[1] \in Words
      BY <2>1, PopFacts
    <2>3. u \in Seq(Words) /\ Len(u) = n - 1 /\ \A j \in 1 .. n - 1 : u[j] = s[j + 1]
      <3> DEFINE y == SubSeq(s, 1 + 1, Len(s))
      <3>1. /\ y \in Seq(Words) /\ Len(y) = Len(s) - 1
            /\ \A j \in 1 .. Len(s) - 1 : y[j] = s[j + 1]
        BY <1>3, RestFacts
      <3>2. y = u
        BY 1 + 1 = 2
      <3> QED
        BY <3>1, <3>2
    <2> HIDE DEF t, u
    <2>4. t = u
      BY <2>2, <2>3, SameSeq
    <2> QED
      BY <2>2, <2>3, <2>4 DEF t
  <1>4. ASSUME n >= 1, u # << >> PROVE n >= 2
    <2> HIDE DEF u
    <2>1. Len(u) >= 1
      BY <1>3, <1>4
    <2> QED
      BY <1>1, <1>3, <1>4, <2>1
  <1>5. ASSUME n >= 2
        PROVE  Head(u) = s[2] /\ s[2] \in Words /\ Tail(u) = v /\ v \in Seq(Words)
    <2>1. u \in Seq(Words) /\ Len(u) = n - 1 /\ \A j \in 1 .. n - 1 : u[j] = s[j + 1]
      BY <1>1, <1>3, <1>5
    <2>2. v \in Seq(Words) /\ Len(v) = n - 2 /\ \A j \in 1 .. n - 2 : v[j] = s[j + 2]
      <3> DEFINE y == SubSeq(s, 2 + 1, Len(s))
      <3>1. /\ y \in Seq(Words) /\ Len(y) = Len(s) - 2
            /\ \A j \in 1 .. Len(s) - 2 : y[j] = s[j + 2]
        BY <1>5, RestFacts
      <3>2. y = v
        BY 2 + 1 = 3
      <3> QED
        BY <3>1, <3>2
    <2> DEFINE t == Tail(u)
    <2> HIDE DEF u, v
    <2>3. u # << >>
      BY <1>1, <1>5, <2>1
    <2>4. /\ t \in Seq(Words) /\ Len(t) = Len(u) - 1 /\ \A j \in 1 .. Len(u) - 1 : t[j] = u[j + 1]
          /\ Head(u) = u[1]
      BY <2>1, <2>3, PopFacts
    <2> HIDE DEF t
    <2>5. ASSUME NEW j \in 1 .. Len(t) PROVE t[j] = v[j]
      <3>1. j \in 1 .. n - 2 /\ j + 1 \in 1 .. n - 1 /\ (j + 1) + 1 = j + 2
        BY <1>1, <1>5, <2>1, <2>4
      <3> QED
        BY <2>1, <2>2, <2>4, <3>1
    <2>6. Len(t) = Len(v)
      BY <1>1, <2>1, <2>2, <2>4
    <2>7. t = v
      BY <2>2, <2>4, <2>5, <2>6, SameSeq
    <2>8. 1 \in 1 .. n - 1 /\ 1 + 1 = 2 /\ 2 \in 1 .. n
      BY <1>1, <1>5
    <2>9. u[1] = s[2] /\ s[2] \in Words
      <3>1. u[1] = s[1 + 1]
        BY <2>1, <2>8
      <3> QED
        BY <2>8, <3>1
    <2> QED
      BY <2>2, <2>4, <2>7, <2>9 DEF t
  <1> HIDE DEF u, v
  <1> QED
    BY <1>1, <1>2, <1>3, <1>4, <1>5 DEF n

\* A register is w, and the others are as before.
Only(n, R, Q, w) ==
    /\ Q[n] = w /\ Q[3] = R[3] /\ (n # 0 => Q[0] = R[0]) /\ (n # 1 => Q[1] = R[1])
    /\ (n # 2 => Q[2] = R[2]) /\ (n # 7 => Q[7] = R[7]) /\ (n # 12 => Q[12] = R[12])

LEMMA PutFacts ==
    ASSUME NEW R \in [REG_NUMBERS -> Words], NEW n \in {0, 1, 2, 7, 8, 12}, NEW w
    PROVE  Only(n, R, [R EXCEPT ![n] = w], w)
  BY DEF REG_NUMBERS, Only

\* The same of rax and rdx.
Both(R, Q, v, w) ==
    Q[0] = v /\ Q[2] = w /\ Q[1] = R[1] /\ Q[3] = R[3] /\ Q[7] = R[7] /\ Q[12] = R[12]

LEMMA PutPair ==
    ASSUME NEW R \in [REG_NUMBERS -> Words], NEW v, NEW w
    PROVE  Both(R, [R EXCEPT ![0] = v, ![2] = w], v, w)
  BY DEF REG_NUMBERS, Both

\* The numbers of the registers.
LEMMA RegNumbers ==
    /\ REGS.RAX = 0 /\ REGS.RCX = 1 /\ REGS.RDX = 2
    /\ REGS["RAX"] = 0 /\ REGS["RCX"] = 1 /\ REGS["RDX"] = 2 /\ REGS["RBX"] = 3 /\ REGS["RDI"] = 7
    /\ REGS["R8"] = 8 /\ REGS["R12"] = 12
  BY DEF REGS

\* The members of the groups.
LEMMA PopMeans ==
    ASSUME NEW reg \in {"RAX", "RCX", "RDI", "R8", "R12"}, NEW req, NEW S, NEW R \in [REG_NUMBERS -> Words],
           NEW T, NEW Q, NEW G, Acts(X("POP_reg", reg, req), S, R, T, Q, G)
    PROVE  S # << >> /\ T = Tail(S) /\ Only(REGS[reg], R, Q, Head(S))
  <1> DEFINE x == X("POP_reg", reg, req)
  <1>1. x.op = "POP_reg" /\ To(x) = REGS[reg]
    BY DEF X, Ins, To, MemOps, Stacked
  <1> HIDE DEF x
  <1>2. S # << >> /\ T = Tail(S) /\ Q = [R EXCEPT ![To(x)] = Head(S)]
    BY <1>1 DEF Acts, x
  <1>3. To(x) \in {0, 1, 2, 7, 8, 12}
    BY <1>1, RegNumbers
  <1> QED
    BY <1>1, <1>2, <1>3, PutFacts

LEMMA PushMeans ==
    ASSUME NEW reg \in {"RAX", "R8"}, NEW req, NEW S, NEW R, NEW T, NEW Q, NEW G,
           Acts(X("PUSH_reg", reg, req), S, R, T, Q, G)
    PROVE  T = << R[REGS[reg]] >> \o S /\ Q = R
  <1> DEFINE x == X("PUSH_reg", reg, req)
  <1>1. x.op = "PUSH_reg" /\ To(x) = REGS[reg]
    BY DEF X, Ins, To, MemOps, Stacked
  <1> HIDE DEF x
  <1>2. T = << R[To(x)] >> \o S /\ Q = R
    BY <1>1 DEF Acts, x
  <1> QED
    BY <1>1, <1>2

LEMMA CqoMeans ==
    ASSUME NEW req, NEW S, NEW R \in [REG_NUMBERS -> Words], NEW T, NEW Q, NEW G,
           Acts(X("CQO", "none", req), S, R, T, Q, G)
    PROVE  T = S /\ Both(R, Q, R[0], High(R[0]))
  <1> DEFINE x == X("CQO", "none", req)
  <1>1. x.op = "CQO"
    BY DEF X, Ins
  <1> HIDE DEF x
  <1>2. T = S /\ Q = Widened(R, R[REGS.RAX])
    BY <1>1 DEF Acts, x
  <1> DEFINE v == R[0]
             w == High(R[0])
  <1>3. Q = [R EXCEPT ![0] = v, ![2] = w]
    BY <1>2, RegNumbers DEF Widened
  <1> HIDE DEF v, w
  <1>4. Both(R, Q, v, w)
    BY <1>3, PutPair
  <1> QED
    BY <1>2, <1>4 DEF v, w

LEMMA ImulMeans ==
    ASSUME NEW reg \in {"RCX", "R12"}, NEW req, NEW S, NEW R \in [REG_NUMBERS -> Words], NEW T, NEW Q,
           NEW G, Acts(X("IMUL_reg", reg, req), S, R, T, Q, G)
    PROVE  LET p == Product(R[0], R[REGS[reg]]) IN T = S /\ Both(R, Q, p, High(p))
  <1> DEFINE x == X("IMUL_reg", reg, req)
  <1>1. x.op = "IMUL_reg" /\ To(x) = REGS[reg]
    BY DEF X, Ins, To, MemOps, Stacked
  <1> HIDE DEF x
  <1> DEFINE p == Product(R[0], R[REGS[reg]])
  <1>2. T = S /\ Q = Widened(R, Product(R[REGS.RAX], R[To(x)]))
    BY <1>1 DEF Acts, x
  <1>3. Q = [R EXCEPT ![0] = p, ![2] = High(p)]
    BY <1>1, <1>2, RegNumbers DEF Widened
  <1> HIDE DEF p
  <1>4. Both(R, Q, p, High(p))
    BY <1>3, PutPair
  <1> QED
    BY <1>2, <1>4 DEF p

LEMMA IdivMeans ==
    ASSUME NEW reg \in {"RCX", "R12"}, NEW req, NEW S, NEW R \in [REG_NUMBERS -> Words], NEW T, NEW Q,
           NEW G, Acts(X("IDIV_reg", reg, req), S, R, T, Q, G)
    PROVE  LET a == R[0]
               b == R[REGS[reg]]
           IN  /\ T = S /\ b # Num(0)
               /\ IF Numbers2(a, b) /\ R[2] = High(a)
                  THEN Both(R, Q, Num(Quotient(a.v, b.v)), Num(Remainder(a.v, b.v)))
                  ELSE Both(R, Q, Undetermined, Undetermined)
  <1> DEFINE x == X("IDIV_reg", reg, req)
  <1>1. x.op = "IDIV_reg" /\ To(x) = REGS[reg]
    BY DEF X, Ins, To, MemOps, Stacked
  <1> HIDE DEF x
  <1> DEFINE a == R[0]
             b == R[REGS[reg]]
             q == Num(Quotient(a.v, b.v))
             e == Num(Remainder(a.v, b.v))
             u == Undetermined
  <1>2. T = S /\ Q = Divided(R, R[To(x)]) /\ R[To(x)] # Num(0)
    BY <1>1 DEF Acts, x
  <1>3. Q = IF Numbers2(a, b) /\ R[2] = High(a)
            THEN [R EXCEPT ![0] = q, ![2] = e] ELSE [R EXCEPT ![0] = u, ![2] = u]
    BY <1>1, <1>2, RegNumbers DEF Divided
  <1> HIDE DEF q, e, u
  <1>4. IF Numbers2(a, b) /\ R[2] = High(a) THEN Both(R, Q, q, e) ELSE Both(R, Q, u, u)
    BY <1>3, PutPair
  <1> QED
    BY <1>1, <1>2, <1>4 DEF q, e, u

LEMMA MovMeans ==
    ASSUME NEW reg \in {"RAX", "RCX"}, NEW imm, NEW S, NEW R \in [REG_NUMBERS -> Words], NEW T, NEW Q,
           NEW G, Acts(MovImm64(reg, imm, "none"), S, R, T, Q, G)
    PROVE  T = S /\ Only(REGS[reg], R, Q, Num(imm))
  <1> DEFINE x == MovImm64(reg, imm, "none")
  <1>1. x.op = "MOV_reg_imm64" /\ To(x) = REGS[reg] /\ x.fix = "none" /\ x.imm = imm
    BY DEF MovImm64, Ins, To, MemOps, Stacked
  <1> HIDE DEF x
  <1>2. T = S /\ Q = [R EXCEPT ![To(x)] = IF x.fix = "abs" THEN Code(IndexAt(x.imm)) ELSE Num(x.imm)]
    BY <1>1 DEF Acts, x
  <1>3. To(x) \in {0, 1, 2, 7, 8, 12}
    BY <1>1, RegNumbers
  <1> QED
    BY <1>1, <1>2, <1>3, PutFacts

LEMMA CmpMeans ==
    ASSUME NEW reg, NEW req, NEW S, NEW R, NEW T, NEW Q, NEW G, Acts(X("CMP_reg_reg", reg, req), S, R, T, Q, G)
    PROVE  T = S /\ Q = R /\ G = << R[0], R[1] >>
  <1> DEFINE x == X("CMP_reg_reg", reg, req)
  <1>1. x.op = "CMP_reg_reg"
    BY DEF X, Ins
  <1> HIDE DEF x
  <1>2. T = S /\ Q = R /\ G = << R[REGS.RAX], R[REGS.RCX] >>
    BY <1>1 DEF Acts, x
  <1> QED
    BY <1>2, RegNumbers

LEMMA StackedMeans ==
    ASSUME NEW op \in Stacked, NEW req, NEW S, NEW R, NEW T, NEW Q, NEW G,
           Acts(X(op, "RAX", req), S, R, T, Q, G)
    PROVE  S # << >> /\ T = << Sum(op, Head(S), R[0]) >> \o Tail(S) /\ Q = R
  <1> DEFINE x == X(op, "RAX", req)
  <1>1. x.op = op
    BY DEF X, Ins
  <1> HIDE DEF x
  <1>2. S # << >> /\ T = << Sum(x.op, Head(S), R[REGS.RAX]) >> \o Tail(S) /\ Q = R
    BY <1>1 DEF Acts, x
  <1> QED
    BY <1>1, <1>2, RegNumbers

\* The words of the IR's machine are the same.
LEMMA SameWords ==
    /\ \A v : Ir!Num(v) = Num(v) /\ Ir!Code(v) = Code(v)
    /\ Ir!Undetermined = Undetermined
    /\ \A a, b : Ir!Quotient(a, b) = Quotient(a, b) /\ Ir!Remainder(a, b) = Remainder(a, b)
    /\ Ir!FIXED_PRECISION_MULTIPLIER = FIXED_PRECISION_MULTIPLIER
    /\ Ir!QWORD = QWORD /\ Ir!Jumps = Jumps /\ Ir!Unsupported = Unsupported
    /\ \A q, n : Ir!At(q, n) = At(q, n) /\ (Ir!Inside(q, n) <=> Inside(q, n))
  <1>1. \A a : Ir!Magnitude_(a) = Magnitude_(a)
    BY DEF Ir!Magnitude_, Magnitude_
  <1>2. \A a, b : Ir!Quotient(a, b) = Quotient(a, b)
    BY <1>1 DEF Ir!Quotient, Quotient
  <1>3. \A a, b : Ir!Remainder(a, b) = Remainder(a, b)
    BY <1>2 DEF Ir!Remainder, Remainder
  <1>4. \A v : Ir!Num(v) = Num(v) /\ Ir!Code(v) = Code(v)
    BY DEF Ir!Num, Num, Ir!Code, Code
  <1>5. Ir!Undetermined = Undetermined
    BY DEF Ir!Undetermined, Undetermined
  <1>6. Ir!FIXED_PRECISION_MULTIPLIER = FIXED_PRECISION_MULTIPLIER
    BY DEF Ir!FIXED_PRECISION_MULTIPLIER, FIXED_PRECISION_MULTIPLIER
  <1>7. Ir!QWORD = QWORD /\ Ir!Jumps = Jumps /\ Ir!Unsupported = Unsupported
    BY DEF Ir!QWORD, QWORD, Ir!Jumps, Jumps, Ir!Unsupported, Unsupported
  <1>8. \A q, n : Ir!At(q, n) = At(q, n) /\ (Ir!Inside(q, n) <=> Inside(q, n))
    BY DEF Ir!At, At, Ir!Inside, Inside
  <1> QED
    BY <1>2, <1>3, <1>4, <1>5, <1>6, <1>7, <1>8

LEMMA WordKinds ==
    /\ \A v : Num(v).kind = "num" /\ Num(v).v = v
    /\ Undetermined.kind = "undetermined"
    /\ \A v : Code(v).kind = "code" /\ Code(v).v = v
  BY DEF Num, Undetermined, Code

LEMMA AddSubWithin ==
    ASSUME NEW i, i.type \in {"ADD", "SUB"}, NEW j \in 1 .. 2, NEW h, Held(h), NEW S,
           NEW R \in [REG_NUMBERS -> Words], NEW F, NEW N, NEW O, Middle(i, j, h, S, R, F, N, O),
           NEW T, NEW Q, NEW G, Acts(emit_add_or_sub(i)[j], S, R, T, Q, G)
    PROVE  Within(i, j + 1, h, T, Q, G, N, O)
  <1> DEFINE s == h.stack
             g == h.regs
  <1> SUFFICES InAddSub(i, j + 1, h, T, Q) /\ N = h.input /\ O = h.out
    BY DEF Within, Jumps
  <1>1. s \in Seq(Words)
    BY DEF Held
  <1>2. CASE j = 1
    <2>1. Fresh(h, S, R, N, O)
      BY <1>2 DEF Middle
    <2>2. emit_add_or_sub(i)[j] = X("POP_reg", "RAX", {})
      BY <1>2 DEF emit_add_or_sub
    <2>3. S # << >> /\ T = Tail(S) /\ Only(0, R, Q, Head(S))
      BY <2>2, PopMeans, RegNumbers
    <2>4. Len(s) >= 1 /\ T = Below(s, 1) /\ Head(S) = s[1]
      BY <1>1, <2>1, <2>3, BelowFacts DEF Fresh
    <2>5. Only(0, R, Q, s[1])
      BY <2>3, <2>4
    <2>6. Low(Q, s[1], g[1], g[2], g[3])
      BY <2>1, <2>5 DEF Fresh, Low, Only
    <2> QED
      BY <1>2, <2>1, <2>4, <2>6 DEF InAddSub, Fresh
  <1>3. CASE j = 2
    <2> DEFINE op == IF i.type = "ADD" THEN "ADD_mem_reg" ELSE "SUB_mem_reg"
    <2>1. InAddSub(i, 2, h, S, R) /\ N = h.input /\ O = h.out
      BY <1>3 DEF Middle, Within
    <2>2. emit_add_or_sub(i)[j] = X(op, "RAX", {"REX", "ModRM", "SIB"}) /\ op \in Stacked
      BY <1>3 DEF emit_add_or_sub, Stacked
    <2>3. (op = "ADD_mem_reg" <=> i.type = "ADD") /\ (i.type = "ADD" \/ i.type = "SUB")
      OBVIOUS
    <2> HIDE DEF op
    <2>4. S # << >> /\ T = << Sum(op, Head(S), R[0]) >> \o Tail(S) /\ Q = R
      BY <2>2, StackedMeans
    <2>5. Len(s) >= 1 /\ S = Below(s, 1) /\ Low(R, s[1], g[1], g[2], g[3])
      BY <2>1 DEF InAddSub
    <2>6. Len(s) >= 2 /\ Head(S) = s[2] /\ Tail(S) = Below(s, 2) /\ R[0] = s[1]
      BY <1>1, <2>4, <2>5, BelowFacts DEF Low
    <2>7. Sum(op, s[2], s[1]) = Ir!Result(i.type, s[2], s[1])
      BY <2>3, SameWords DEF Sum, Ir!Result, Ir!Arithmetic, Numbers2
    <2>8. T = << Ir!Result(i.type, s[2], s[1]) >> \o Below(s, 2)
      BY <2>4, <2>6, <2>7
    <2>9. Low(Q, s[1], g[1], g[2], g[3])
      BY <2>4, <2>5
    <2> QED
      BY <1>3, <2>1, <2>6, <2>8, <2>9 DEF InAddSub
  <1> QED
    BY <1>2, <1>3

\* The members of the group of a product or a quotient.
LEMMA MulDivGroup ==
    ASSUME NEW i, i.type \in {"MUL", "DIV"}
    PROVE  LET g == emit_mull_or_div(i)
               imul(reg) == X("IMUL_reg", reg, {"REX", "ModRM"})
               idiv(reg) == X("IDIV_reg", reg, {"REX", "ModRM"})
               scale == MovImm64("RCX", FIXED_PRECISION_MULTIPLIER, "none")
           IN  /\ Len(g) = 7
               /\ g[1] = X("POP_reg", "R12", {"REX"}) /\ g[2] = X("POP_reg", "RAX", {})
               /\ g[3] = X("CQO", "none", {"REX"}) /\ g[7] = X("PUSH_reg", "RAX", {})
               /\ i.type = "MUL" => g[4] = imul("R12") /\ g[5] = scale /\ g[6] = idiv("RCX")
               /\ i.type = "DIV" => g[4] = scale /\ g[5] = imul("RCX") /\ g[6] = idiv("R12")
  BY DEF emit_mull_or_div

\* What idiv makes of a product with the multiplier, or of a product divided by it.
LEMMA Scaled ==
    ASSUME NEW a, NEW b
    PROVE  LET hundred == Num(FIXED_PRECISION_MULTIPLIER)
               p == Product(a, b)
               q == Product(a, hundred)
           IN  /\ IF Numbers2(p, hundred)
                  THEN /\ Ir!Result("MUL", a, b) = Num(Quotient(p.v, FIXED_PRECISION_MULTIPLIER))
                       /\ Ir!Lost("MUL", a, b) = Num(Remainder(p.v, FIXED_PRECISION_MULTIPLIER))
                  ELSE Ir!Result("MUL", a, b) = Undetermined /\ Ir!Lost("MUL", a, b) = Undetermined
               /\ IF Numbers2(q, b)
                  THEN /\ Ir!Result("DIV", a, b) = Num(Quotient(q.v, b.v))
                       /\ Ir!Lost("DIV", a, b) = Num(Remainder(q.v, b.v))
                  ELSE Ir!Result("DIV", a, b) = Undetermined /\ Ir!Lost("DIV", a, b) = Undetermined
  <1> DEFINE hundred == Num(FIXED_PRECISION_MULTIPLIER)
  <1>1. hundred.kind = "num" /\ hundred.v = FIXED_PRECISION_MULTIPLIER
    BY WordKinds
  <1> HIDE DEF hundred
  <1>2. /\ a.kind = "num" /\ b.kind = "num" =>
              Product(a, b).kind = "num" /\ Product(a, b).v = a.v * b.v
        /\ ~(a.kind = "num" /\ b.kind = "num") => Product(a, b).kind # "num"
        /\ a.kind = "num" => Product(a, hundred).kind = "num"
                             /\ Product(a, hundred).v = a.v * FIXED_PRECISION_MULTIPLIER
        /\ a.kind # "num" => Product(a, hundred).kind # "num"
    BY <1>1, WordKinds DEF Product, Numbers2
  <1>3. /\ \A x, y : Ir!Arithmetic("MUL", x, y) = Quotient(x * y, FIXED_PRECISION_MULTIPLIER)
        /\ \A x, y : Ir!RemainderOf("MUL", x, y) = Remainder(x * y, FIXED_PRECISION_MULTIPLIER)
        /\ \A x, y : Ir!Arithmetic("DIV", x, y) = Quotient(x * FIXED_PRECISION_MULTIPLIER, y)
        /\ \A x, y : Ir!RemainderOf("DIV", x, y) = Remainder(x * FIXED_PRECISION_MULTIPLIER, y)
    BY SameWords DEF Ir!Arithmetic, Ir!RemainderOf
  <1>4. CASE a.kind = "num" /\ b.kind = "num"
    <2>1. /\ Ir!Result("MUL", a, b) = Num(Quotient(a.v * b.v, FIXED_PRECISION_MULTIPLIER))
          /\ Ir!Lost("MUL", a, b) = Num(Remainder(a.v * b.v, FIXED_PRECISION_MULTIPLIER))
          /\ Ir!Result("DIV", a, b) = Num(Quotient(a.v * FIXED_PRECISION_MULTIPLIER, b.v))
          /\ Ir!Lost("DIV", a, b) = Num(Remainder(a.v * FIXED_PRECISION_MULTIPLIER, b.v))
      BY <1>3, <1>4, SameWords DEF Ir!Result, Ir!Lost
    <2>2. Numbers2(Product(a, b), hundred) /\ Numbers2(Product(a, hundred), b)
      BY <1>1, <1>2, <1>4 DEF Numbers2
    <2>3. Product(a, b).v = a.v * b.v /\ Product(a, hundred).v = a.v * FIXED_PRECISION_MULTIPLIER
      BY <1>2, <1>4
    <2> QED
      BY <2>1, <2>2, <2>3 DEF hundred
  <1>5. CASE ~(a.kind = "num" /\ b.kind = "num")
    <2>1. /\ Ir!Result("MUL", a, b) = Undetermined /\ Ir!Lost("MUL", a, b) = Undetermined
          /\ Ir!Result("DIV", a, b) = Undetermined /\ Ir!Lost("DIV", a, b) = Undetermined
      BY <1>5, SameWords DEF Ir!Result, Ir!Lost
    <2>2. ~Numbers2(Product(a, b), hundred) /\ ~Numbers2(Product(a, hundred), b)
      BY <1>2, <1>5 DEF Numbers2
    <2> QED
      BY <2>1, <2>2 DEF hundred
  <1> QED
    BY <1>4, <1>5

LEMMA MulDivWithin ==
    ASSUME NEW i, i.type \in {"MUL", "DIV"}, NEW j \in 1 .. 7, NEW h, Held(h), NEW S,
           NEW R \in [REG_NUMBERS -> Words], NEW F, NEW N, NEW O, Middle(i, j, h, S, R, F, N, O),
           NEW T, NEW Q, NEW G, Acts(emit_mull_or_div(i)[j], S, R, T, Q, G)
    PROVE  Within(i, j + 1, h, T, Q, G, N, O)
  <1> DEFINE s == h.stack
             g == h.regs
             a == s[2]
             b == s[1]
             hundred == Num(FIXED_PRECISION_MULTIPLIER)
             p == Product(a, IF i.type = "MUL" THEN b ELSE hundred)
             result == Ir!Result(i.type, a, b)
             lost == Ir!Lost(i.type, a, b)
  <1> SUFFICES InMulDiv(i, j + 1, h, T, Q) /\ N = h.input /\ O = h.out
    BY DEF Within, Jumps
  <1>1. s \in Seq(Words)
    BY DEF Held
  <1>2. j # 1 => InMulDiv(i, j, h, S, R) /\ N = h.input /\ O = h.out
    BY DEF Middle, Within
  <1>3. CASE j = 1
    <2>1. Fresh(h, S, R, N, O)
      BY <1>3 DEF Middle
    <2>2. S # << >> /\ T = Tail(S) /\ Only(12, R, Q, Head(S))
      <3>1. Acts(X("POP_reg", "R12", {"REX"}), S, R, T, Q, G)
        BY <1>3, MulDivGroup
      <3>2. S # << >> /\ T = Tail(S) /\ Only(REGS["R12"], R, Q, Head(S))
        BY <3>1, PopMeans
      <3> QED
        BY <3>2, RegNumbers
    <2>3. Len(s) >= 1 /\ T = Below(s, 1) /\ Head(S) = b
      BY <1>1, <2>1, <2>2, BelowFacts DEF Fresh
    <2>4. Only(12, R, Q, b)
      BY <2>2, <2>3
    <2>5. Low(Q, g[0], g[1], g[2], g[3]) /\ Q[12] = b
      BY <2>1, <2>4 DEF Fresh, Low, Only
    <2> QED
      BY <1>3, <2>1, <2>3, <2>5 DEF InMulDiv, Fresh
  <1>4. CASE j = 2
    <2>1. R[12] = b /\ Len(s) >= 1 /\ S = Below(s, 1) /\ Low(R, g[0], g[1], g[2], g[3])
      BY <1>2, <1>4 DEF InMulDiv
    <2>2. S # << >> /\ T = Tail(S) /\ Only(0, R, Q, Head(S))
      BY <1>4, MulDivGroup, PopMeans, RegNumbers
    <2>3. Len(s) >= 2 /\ T = Below(s, 2) /\ Head(S) = a
      BY <1>1, <2>1, <2>2, BelowFacts
    <2>4. Only(0, R, Q, a)
      BY <2>2, <2>3
    <2>5. Low(Q, a, g[1], g[2], g[3]) /\ Q[12] = b
      BY <2>1, <2>4 DEF Low, Only
    <2> QED
      BY <1>2, <1>4, <2>3, <2>5 DEF InMulDiv
  <1>5. CASE j = 3
    <2>1. R[12] = b /\ Len(s) >= 2 /\ S = Below(s, 2) /\ Low(R, a, g[1], g[2], g[3])
      BY <1>2, <1>5 DEF InMulDiv
    <2>2. T = S /\ Both(R, Q, R[0], High(R[0]))
      BY <1>5, MulDivGroup, CqoMeans
    <2>3. Low(Q, a, g[1], High(a), g[3]) /\ Q[12] = b
      BY <2>1, <2>2 DEF Low, Both
    <2> QED
      BY <1>2, <1>5, <2>1, <2>2, <2>3 DEF InMulDiv
  <1>6. CASE j = 4
    <2>1. R[12] = b /\ Len(s) >= 2 /\ S = Below(s, 2) /\ Low(R, a, g[1], High(a), g[3])
      BY <1>2, <1>6 DEF InMulDiv
    <2>2. CASE i.type = "MUL"
      <3>1. T = S /\ Both(R, Q, p, High(p))
        <4>1. LET q == Product(R[0], R[REGS["R12"]]) IN T = S /\ Both(R, Q, q, High(q))
          BY <1>6, <2>2, MulDivGroup, ImulMeans
        <4>2. R[0] = a /\ R[REGS["R12"]] = b /\ p = Product(a, b)
          BY <2>1, <2>2, RegNumbers DEF Low
        <4> QED
          BY <4>1, <4>2
      <3> HIDE DEF p
      <3>2. Low(Q, p, g[1], High(p), g[3]) /\ Q[12] = b
        BY <2>1, <3>1 DEF Low, Both
      <3> QED
        BY <1>2, <1>6, <2>1, <2>2, <3>1, <3>2 DEF InMulDiv, p
    <2>3. CASE i.type = "DIV"
      <3>1. T = S /\ Only(1, R, Q, hundred)
        BY <1>6, <2>3, MulDivGroup, MovMeans, RegNumbers
      <3>2. Low(Q, a, hundred, High(a), g[3]) /\ Q[12] = b
        BY <2>1, <3>1 DEF Low, Only
      <3> QED
        BY <1>2, <1>6, <2>1, <2>3, <3>1, <3>2 DEF InMulDiv
    <2> QED
      BY <2>2, <2>3
  <1>7. CASE j = 5
    <2>1. R[12] = b /\ Len(s) >= 2 /\ S = Below(s, 2)
      BY <1>2, <1>7 DEF InMulDiv
    <2>2. CASE i.type = "MUL"
      <3>1. T = S /\ Only(1, R, Q, hundred)
        BY <1>7, <2>2, MulDivGroup, MovMeans, RegNumbers
      <3>2. Low(R, p, g[1], High(p), g[3])
        BY <1>2, <1>7, <2>2 DEF InMulDiv
      <3> HIDE DEF p
      <3>3. Low(Q, p, hundred, High(p), g[3]) /\ Q[12] = b
        BY <2>1, <3>1, <3>2 DEF Low, Only
      <3> QED
        BY <1>2, <1>7, <2>1, <3>1, <3>3 DEF InMulDiv, p
    <2>3. CASE i.type = "DIV"
      <3>1. Low(R, a, hundred, High(a), g[3])
        BY <1>2, <1>7, <2>3 DEF InMulDiv
      <3>2. T = S /\ Both(R, Q, p, High(p))
        <4>1. LET q == Product(R[0], R[REGS["RCX"]]) IN T = S /\ Both(R, Q, q, High(q))
          BY <1>7, <2>3, MulDivGroup, ImulMeans
        <4>2. R[0] = a /\ R[REGS["RCX"]] = hundred /\ p = Product(a, hundred)
          BY <2>3, <3>1, RegNumbers DEF Low
        <4> QED
          BY <4>1, <4>2
      <3> HIDE DEF p
      <3>3. Low(Q, p, hundred, High(p), g[3]) /\ Q[12] = b
        BY <2>1, <3>1, <3>2 DEF Low, Both
      <3> QED
        BY <1>2, <1>7, <2>1, <3>2, <3>3 DEF InMulDiv, p
    <2> QED
      BY <2>2, <2>3
  <1>8. CASE j = 6
    <2> DEFINE c == IF i.type = "MUL" THEN hundred ELSE b
    <2>1. R[12] = b /\ Len(s) >= 2 /\ S = Below(s, 2) /\ Low(R, p, hundred, High(p), g[3])
      BY <1>2, <1>8 DEF InMulDiv
    <2>2. /\ T = S /\ c # Num(0)
          /\ IF Numbers2(p, c) /\ R[2] = High(p)
             THEN Both(R, Q, Num(Quotient(p.v, c.v)), Num(Remainder(p.v, c.v)))
             ELSE Both(R, Q, Undetermined, Undetermined)
      <3>1. R[0] = p /\ R[1] = hundred /\ R[12] = b
        BY <2>1 DEF Low
      <3> HIDE DEF p
      <3>2. CASE i.type = "MUL"
        <4>1. R[REGS["RCX"]] = c /\ R[0] = p
          BY <3>1, <3>2, RegNumbers
        <4>2. Acts(X("IDIV_reg", "RCX", {"REX", "ModRM"}), S, R, T, Q, G)
          BY <1>8, <3>2, MulDivGroup
        <4> HIDE DEF c
        <4> QED
          BY <4>1, <4>2, IdivMeans
      <3>3. CASE i.type = "DIV"
        <4>1. R[REGS["R12"]] = c /\ R[0] = p
          BY <3>1, <3>3, RegNumbers
        <4>2. Acts(X("IDIV_reg", "R12", {"REX", "ModRM"}), S, R, T, Q, G)
          BY <1>8, <3>3, MulDivGroup
        <4> HIDE DEF c
        <4> QED
          BY <4>1, <4>2, IdivMeans
      <3> QED
        BY <3>2, <3>3
    <2>3. IF Numbers2(p, c) THEN result = Num(Quotient(p.v, c.v)) /\ lost = Num(Remainder(p.v, c.v))
                            ELSE result = Undetermined /\ lost = Undetermined
      <3>1. CASE i.type = "MUL"
        <4>1. p = Product(a, b) /\ c = hundred /\ c.v = FIXED_PRECISION_MULTIPLIER
          BY <3>1, WordKinds
        <4> QED
          BY <3>1, <4>1, Scaled
      <3>2. CASE i.type = "DIV"
        <4>1. p = Product(a, hundred) /\ c = b
          BY <3>2
        <4> QED
          BY <3>2, <4>1, Scaled
      <3> QED
        BY <3>1, <3>2
    <2>4. R[2] = High(p)
      BY <2>1 DEF Low
    <2> HIDE DEF p, result, lost
    <2>5. Both(R, Q, result, lost)
      BY <2>2, <2>3, <2>4
    <2>6. Low(Q, result, hundred, lost, g[3]) /\ Q[12] = b
      BY <2>1, <2>5 DEF Low, Both
    <2>7. i.type = "DIV" => b # Num(0)
      BY <2>2
    <2> QED
      BY <1>2, <1>8, <2>1, <2>2, <2>6, <2>7 DEF InMulDiv, result, lost
  <1>9. CASE j = 7
    <2>1. /\ Len(s) >= 2 /\ S = Below(s, 2) /\ Low(R, result, hundred, lost, g[3])
          /\ i.type = "DIV" => b # Num(0)
      BY <1>2, <1>9 DEF InMulDiv
    <2>2. T = << R[0] >> \o S /\ Q = R
      BY <1>9, MulDivGroup, PushMeans, RegNumbers
    <2> HIDE DEF result, lost
    <2>3. T = << result >> \o Below(s, 2) /\ Low(Q, result, hundred, lost, g[3])
      BY <2>1, <2>2 DEF Low
    <2> QED
      BY <1>2, <1>9, <2>1, <2>3 DEF InMulDiv, result, lost
  <1> QED
    BY <1>3, <1>4, <1>5, <1>6, <1>7, <1>8, <1>9

LEMMA JumpGroup ==
    ASSUME NEW i, i.type \in Jumps
    PROVE  LET g == emit_cond_jmp(i)
           IN  /\ Len(g) = 4 /\ g[1] = X("POP_reg", "RCX", {}) /\ g[2] = X("POP_reg", "RAX", {})
               /\ g[3] = X("CMP_reg_reg", "RAX", {"REX", "ModRM"})
  BY DEF emit_cond_jmp

LEMMA JumpWithin ==
    ASSUME NEW i, i.type \in Jumps, NEW j \in 1 .. 3, NEW h, Held(h), NEW S,
           NEW R \in [REG_NUMBERS -> Words], NEW F, NEW N, NEW O, Middle(i, j, h, S, R, F, N, O),
           NEW T, NEW Q, NEW G, Acts(emit_cond_jmp(i)[j], S, R, T, Q, G)
    PROVE  Within(i, j + 1, h, T, Q, G, N, O)
  <1> DEFINE s == h.stack
             g == h.regs
  <1> SUFFICES InJump(j + 1, h, T, Q, G) /\ N = h.input /\ O = h.out
    BY DEF Within, Jumps
  <1>1. s \in Seq(Words)
    BY DEF Held
  <1>2. j # 1 => InJump(j, h, S, R, F) /\ N = h.input /\ O = h.out
    BY DEF Middle, Within
  <1>3. CASE j = 1
    <2>1. Fresh(h, S, R, N, O)
      BY <1>3 DEF Middle
    <2>2. S # << >> /\ T = Tail(S) /\ Only(1, R, Q, Head(S))
      <3>1. Acts(X("POP_reg", "RCX", {}), S, R, T, Q, G)
        BY <1>3, JumpGroup
      <3>2. S # << >> /\ T = Tail(S) /\ Only(REGS["RCX"], R, Q, Head(S))
        BY <3>1, PopMeans
      <3> QED
        BY <3>2, RegNumbers
    <2>3. Len(s) >= 1 /\ T = Below(s, 1) /\ Head(S) = s[1]
      BY <1>1, <2>1, <2>2, BelowFacts DEF Fresh
    <2>4. Only(1, R, Q, s[1])
      BY <2>2, <2>3
    <2>5. Low(Q, g[0], s[1], g[2], g[3])
      BY <2>1, <2>4 DEF Fresh, Low, Only
    <2> QED
      BY <1>3, <2>1, <2>3, <2>5 DEF InJump, Fresh
  <1>4. CASE j = 2
    <2>1. Len(s) >= 1 /\ S = Below(s, 1) /\ Low(R, g[0], s[1], g[2], g[3])
      BY <1>2, <1>4 DEF InJump
    <2>2. S # << >> /\ T = Tail(S) /\ Only(0, R, Q, Head(S))
      <3>1. Acts(X("POP_reg", "RAX", {}), S, R, T, Q, G)
        BY <1>4, JumpGroup
      <3>2. S # << >> /\ T = Tail(S) /\ Only(REGS["RAX"], R, Q, Head(S))
        BY <3>1, PopMeans
      <3> QED
        BY <3>2, RegNumbers
    <2>3. Len(s) >= 2 /\ T = Below(s, 2) /\ Head(S) = s[2]
      BY <1>1, <2>1, <2>2, BelowFacts
    <2>4. Only(0, R, Q, s[2])
      BY <2>2, <2>3
    <2>5. Low(Q, s[2], s[1], g[2], g[3])
      BY <2>1, <2>4 DEF Low, Only
    <2> QED
      BY <1>2, <1>4, <2>3, <2>5 DEF InJump
  <1>5. CASE j = 3
    <2>1. Len(s) >= 2 /\ S = Below(s, 2) /\ Low(R, s[2], s[1], g[2], g[3])
      BY <1>2, <1>5 DEF InJump
    <2>2. T = S /\ Q = R /\ G = << R[0], R[1] >>
      BY <1>5, JumpGroup, CmpMeans
    <2>3. G = << s[2], s[1] >>
      BY <2>1, <2>2 DEF Low
    <2> QED
      BY <1>2, <1>5, <2>1, <2>2, <2>3 DEF InJump
  <1> QED
    BY <1>3, <1>4, <1>5

\* The target of JMP and CALL is put into rax as it has been written.
LEMMA GoWithin ==
    ASSUME NEW i, i.type \in {"JMP", "CALL"}, NEW h, Held(h), NEW S,
           NEW R \in [REG_NUMBERS -> Words], NEW F, NEW N, NEW O, Middle(i, 1, h, S, R, F, N, O),
           NEW T, NEW Q, NEW G, NEW x, Acts(x, S, R, T, Q, G), Like(x, emit_jmp_or_call(i)[1]),
           IndexAt(x.imm) = i.imm_arg
    PROVE  Within(i, 2, h, T, Q, G, N, O)
  <1> DEFINE g == h.regs
             w == Code(i.imm_arg)
  <1>1. Fresh(h, S, R, N, O)
    BY DEF Middle
  <1>2. x.op = "MOV_reg_imm64" /\ x.reg = "RAX" /\ x.fix = "abs"
    BY DEF Like, emit_jmp_or_call, MovImm64, Ins
  <1>3. To(x) = 0
    BY <1>2, RegNumbers DEF To, MemOps, Stacked
  <1>4. T = S /\ Q = [R EXCEPT ![0] = w]
    BY <1>2, <1>3 DEF Acts
  <1> HIDE DEF w
  <1>5. Only(0, R, Q, w)
    BY <1>4, PutFacts
  <1>6. Low(Q, w, g[1], g[2], g[3]) /\ T = h.stack /\ N = h.input /\ O = h.out
    BY <1>1, <1>4, <1>5 DEF Fresh, Low, Only
  <1> QED
    BY <1>6 DEF Within, InGo, Jumps, w

LEMMA LibGroup ==
    ASSUME NEW i
    PROVE  LET g    == emit_lib_func(i)
               arg  == X("POP_reg", "RDI", {})
               mov  == MovImm64("RAX", LibAddr[i.type], "none")
               save == X("PUSH_reg", "R8", {"REX"})
               call == X("CALL_reg", "RAX", {"ModRM"})
               back == X("POP_reg", "R8", {"REX"})
               ret  == X("PUSH_reg", "RAX", {})
           IN  /\ i.type = "INP"  => g = << mov, save, call, back, ret >>
               /\ i.type = "OUT"  => g = << arg, mov, save, call, back >>
               /\ i.type = "SQRT" => g = << arg, mov, save, call, back, ret >>
               /\ i.type = "HALT" => g = << mov, save, call, back >>
  BY DEF emit_lib_func

\* The members of these groups but for the call.
LEMMA ArgMeans ==
    ASSUME NEW S, NEW R \in [REG_NUMBERS -> Words], NEW T, NEW Q, NEW G,
           Acts(X("POP_reg", "RDI", {}), S, R, T, Q, G)
    PROVE  S # << >> /\ T = Tail(S) /\ Only(7, R, Q, Head(S))
  <1>1. S # << >> /\ T = Tail(S) /\ Only(REGS["RDI"], R, Q, Head(S))
    BY PopMeans
  <1> QED
    BY <1>1, RegNumbers

LEMMA AimMeans ==
    ASSUME NEW a, NEW S, NEW R \in [REG_NUMBERS -> Words], NEW T, NEW Q, NEW G,
           Acts(MovImm64("RAX", a, "none"), S, R, T, Q, G)
    PROVE  T = S /\ Only(0, R, Q, Num(a))
  <1>1. T = S /\ Only(REGS["RAX"], R, Q, Num(a))
    BY MovMeans
  <1> QED
    BY <1>1, RegNumbers

LEMMA SaveMeans ==
    ASSUME NEW S, NEW R, NEW T, NEW Q, NEW G, R[8] = Num(ram_addr),
           Acts(X("PUSH_reg", "R8", {"REX"}), S, R, T, Q, G)
    PROVE  T = << Num(ram_addr) >> \o S /\ Q = R
  <1>1. T = << R[REGS["R8"]] >> \o S /\ Q = R
    BY PushMeans
  <1> QED
    BY <1>1, RegNumbers

LEMMA BackMeans ==
    ASSUME NEW S \in Seq(Words), NEW w \in Words, NEW R \in [REG_NUMBERS -> Words], NEW T, NEW Q, NEW G,
           Acts(X("POP_reg", "R8", {"REX"}), << w >> \o S, R, T, Q, G)
    PROVE  T = S /\ Only(8, R, Q, w)
  <1> DEFINE q == << w >> \o S
  <1>1. Head(q) = w /\ Tail(q) = S /\ Acts(X("POP_reg", "R8", {"REX"}), q, R, T, Q, G)
    BY PushFacts
  <1> HIDE DEF q
  <1>2. T = Tail(q) /\ Only(REGS["R8"], R, Q, Head(q))
    BY <1>1, PopMeans
  <1> QED
    BY <1>1, <1>2, RegNumbers

LEMMA RetMeans ==
    ASSUME NEW S, NEW R \in [REG_NUMBERS -> Words], NEW T, NEW Q, NEW G,
           Acts(X("PUSH_reg", "RAX", {}), S, R, T, Q, G)
    PROVE  T = << R[0] >> \o S /\ Q = R
  <1> DEFINE req == {}
  <1>1. Acts(X("PUSH_reg", "RAX", req), S, R, T, Q, G)
    OBVIOUS
  <1> HIDE DEF req
  <1>2. T = << R[REGS["RAX"]] >> \o S /\ Q = R
    BY <1>1, PushMeans
  <1> QED
    BY <1>2, RegNumbers

LEMMA InpWithin ==
    ASSUME NEW i, i.type = "INP", NEW j \in {1, 2, 4, 5}, NEW h, Held(h), NEW S,
           NEW R \in [REG_NUMBERS -> Words], NEW F, NEW N, NEW O, Middle(i, j, h, S, R, F, N, O),
           NEW T, NEW Q, NEW G, Acts(emit_lib_func(i)[j], S, R, T, Q, G),
           Num(ram_addr) \in Words, j = 2 => R[8] = Num(ram_addr)
    PROVE  Within(i, j + 1, h, T, Q, G, N, O)
  <1> DEFINE s == h.stack
             g == h.regs
             u == Undetermined
             pushed == << Num(ram_addr) >> \o s
  <1> SUFFICES InInp(j + 1, h, T, Q, N, O)
    BY DEF Within, Jumps
  <1>1. s \in Seq(Words)
    BY DEF Held
  <1>2. j # 1 => InInp(j, h, S, R, N, O)
    BY DEF Middle, Within
  <1>3. CASE j = 1
    <2>1. Fresh(h, S, R, N, O)
      BY <1>3 DEF Middle
    <2> DEFINE a == LibAddr[i.type]
    <2>2. Acts(MovImm64("RAX", a, "none"), S, R, T, Q, G)
      BY <1>3, LibGroup
    <2> HIDE DEF a
    <2>3. T = S /\ Only(0, R, Q, Num(a))
      BY <2>2, AimMeans
    <2>4. Q[3] = R[3]
      BY <2>3 DEF Only
    <2> QED
      BY <1>3, <2>1, <2>3, <2>4 DEF InInp, Fresh, Low
  <1>4. CASE j = 2
    <2>1. O = h.out /\ R[3] = g[3] /\ N = h.input /\ S = s
      BY <1>2, <1>4 DEF InInp
    <2>2. Acts(X("PUSH_reg", "R8", {"REX"}), S, R, T, Q, G)
      BY <1>4, LibGroup
    <2>3. T = pushed /\ Q = R
      BY <1>4, <2>1, <2>2, SaveMeans
    <2> QED
      BY <1>4, <2>1, <2>3 DEF InInp
  <1>5. CASE j = 4
    <2>1. /\ O = h.out /\ R[3] = g[3] /\ S = pushed
          /\ \E v \in Inputs : N = Append(h.input, v) /\ Low(R, Num(v), u, u, g[3])
      BY <1>2, <1>5 DEF InInp
    <2>2. Acts(X("POP_reg", "R8", {"REX"}), S, R, T, Q, G)
      BY <1>5, LibGroup
    <2>3. T = s /\ Only(8, R, Q, Num(ram_addr))
      BY <1>1, <2>1, <2>2, BackMeans
    <2>4. Q[0] = R[0] /\ Q[1] = R[1] /\ Q[2] = R[2] /\ Q[3] = R[3]
      BY <2>3 DEF Only
    <2>5. \E v \in Inputs : N = Append(h.input, v) /\ Low(Q, Num(v), u, u, g[3])
      BY <2>1, <2>4 DEF Low
    <2> HIDE DEF u
    <2> QED
      BY <1>5, <2>1, <2>3, <2>4, <2>5 DEF InInp, u
  <1>6. CASE j = 5
    <2>1. O = h.out /\ R[3] = g[3] /\ S = s
      BY <1>2, <1>6 DEF InInp
    <2>2. PICK v \in Inputs : N = Append(h.input, v) /\ Low(R, Num(v), u, u, g[3])
      BY <1>2, <1>6 DEF InInp
    <2>3. Acts(X("PUSH_reg", "RAX", {}), S, R, T, Q, G)
      BY <1>6, LibGroup
    <2>4. T = << R[0] >> \o S /\ Q = R
      BY <2>3, RetMeans
    <2>5. T = << Num(v) >> \o s
      BY <2>1, <2>2, <2>4 DEF Low
    <2> QED
      BY <1>6, <2>1, <2>2, <2>4, <2>5 DEF InInp
  <1> QED
    BY <1>3, <1>4, <1>5, <1>6

LEMMA OutWithin ==
    ASSUME NEW i, i.type = "OUT", NEW j \in {1, 2, 3, 5}, NEW h, Held(h), NEW S,
           NEW R \in [REG_NUMBERS -> Words], NEW F, NEW N, NEW O, Middle(i, j, h, S, R, F, N, O),
           NEW T, NEW Q, NEW G, Acts(emit_lib_func(i)[j], S, R, T, Q, G),
           Num(ram_addr) \in Words, j = 3 => R[8] = Num(ram_addr)
    PROVE  Within(i, j + 1, h, T, Q, G, N, O)
  <1> DEFINE s == h.stack
             g == h.regs
             u == Undetermined
             rest == Below(s, 1)
             w == s[1]
  <1> SUFFICES InOut(j + 1, h, T, Q, N, O)
    BY DEF Within, Jumps
  <1>1. s \in Seq(Words)
    BY DEF Held
  <1>2. j # 1 => InOut(j, h, S, R, N, O)
    BY DEF Middle, Within
  <1>3. CASE j = 1
    <2>1. Fresh(h, S, R, N, O)
      BY <1>3 DEF Middle
    <2>2. Acts(X("POP_reg", "RDI", {}), S, R, T, Q, G)
      BY <1>3, LibGroup
    <2>3. S # << >> /\ T = Tail(S) /\ Only(7, R, Q, Head(S))
      BY <2>2, ArgMeans
    <2>4. Len(s) >= 1 /\ T = rest /\ Head(S) = w
      BY <1>1, <2>1, <2>3, BelowFacts DEF Fresh
    <2>5. Q[7] = w /\ Q[3] = R[3]
      BY <2>3, <2>4 DEF Only
    <2> QED
      BY <1>3, <2>1, <2>4, <2>5 DEF InOut, Fresh, Low
  <1>4. CASE j = 2
    <2>1. N = h.input /\ R[3] = g[3] /\ Len(s) >= 1 /\ R[7] = w /\ O = h.out /\ S = rest
      BY <1>2, <1>4 DEF InOut
    <2> DEFINE a == LibAddr[i.type]
    <2>2. Acts(MovImm64("RAX", a, "none"), S, R, T, Q, G)
      BY <1>4, LibGroup
    <2> HIDE DEF a
    <2>3. T = S /\ Only(0, R, Q, Num(a))
      BY <2>2, AimMeans
    <2>4. Q[3] = R[3] /\ Q[7] = R[7]
      BY <2>3 DEF Only
    <2> QED
      BY <1>4, <2>1, <2>3, <2>4 DEF InOut
  <1>5. CASE j = 3
    <2>1. N = h.input /\ R[3] = g[3] /\ Len(s) >= 1 /\ R[7] = w /\ O = h.out /\ S = rest
      BY <1>2, <1>5 DEF InOut
    <2>2. Acts(X("PUSH_reg", "R8", {"REX"}), S, R, T, Q, G)
      BY <1>5, LibGroup
    <2>3. T = << Num(ram_addr) >> \o S /\ Q = R
      BY <1>5, <2>2, SaveMeans
    <2> QED
      BY <1>5, <2>1, <2>3 DEF InOut
  <1>6. CASE j = 5
    <2>1. /\ N = h.input /\ R[3] = g[3] /\ Len(s) >= 1 /\ S = << Num(ram_addr) >> \o rest
          /\ O = Append(h.out, Ir!Shown(w)) /\ Low(R, u, u, u, g[3])
      BY <1>2, <1>6 DEF InOut
    <2>2. Acts(X("POP_reg", "R8", {"REX"}), S, R, T, Q, G)
      BY <1>6, LibGroup
    <2>3. rest \in Seq(Words)
      BY <1>1, <2>1, BelowFacts
    <2> HIDE DEF rest
    <2>4. T = rest /\ Only(8, R, Q, Num(ram_addr))
      BY <2>1, <2>2, <2>3, BackMeans
    <2>5. Low(Q, u, u, u, g[3])
      BY <2>1, <2>4 DEF Only, Low
    <2> QED
      BY <1>6, <2>1, <2>4, <2>5 DEF InOut, rest, Low
  <1> QED
    BY <1>3, <1>4, <1>5, <1>6

LEMMA SqrtWithin ==
    ASSUME NEW i, i.type = "SQRT", NEW j \in {1, 2, 3, 5, 6}, NEW h, Held(h), NEW S,
           NEW R \in [REG_NUMBERS -> Words], NEW F, NEW N, NEW O, Middle(i, j, h, S, R, F, N, O),
           NEW T, NEW Q, NEW G, Acts(emit_lib_func(i)[j], S, R, T, Q, G),
           Num(ram_addr) \in Words, j = 3 => R[8] = Num(ram_addr)
    PROVE  Within(i, j + 1, h, T, Q, G, N, O)
  <1> DEFINE s == h.stack
             g == h.regs
             rest == Below(s, 1)
             w == s[1]
             root == IF w.kind = "num" THEN Num(sqrt_asm(w.v)) ELSE Undetermined
             same(V) == V[1] = g[1] /\ V[2] = g[2] /\ V[3] = g[3]
  <1> SUFFICES InSqrt(j + 1, h, T, Q, N, O)
    BY DEF Within, Jumps
  <1>1. s \in Seq(Words)
    BY DEF Held
  <1>2. j # 1 => InSqrt(j, h, S, R, N, O)
    BY DEF Middle, Within
  <1>3. CASE j = 1
    <2>1. Fresh(h, S, R, N, O)
      BY <1>3 DEF Middle
    <2>2. Acts(X("POP_reg", "RDI", {}), S, R, T, Q, G)
      BY <1>3, LibGroup
    <2>3. S # << >> /\ T = Tail(S) /\ Only(7, R, Q, Head(S))
      BY <2>2, ArgMeans
    <2>4. Len(s) >= 1 /\ T = rest /\ Head(S) = w
      BY <1>1, <2>1, <2>3, BelowFacts DEF Fresh
    <2>5. Q[7] = w /\ same(Q)
      BY <2>1, <2>3, <2>4 DEF Only, Fresh, Low
    <2> QED
      BY <1>3, <2>1, <2>4, <2>5 DEF InSqrt, Fresh
  <1>4. CASE j = 2
    <2>1. N = h.input /\ same(R) /\ Len(s) >= 1 /\ R[7] = w /\ O = h.out /\ S = rest
      BY <1>2, <1>4 DEF InSqrt
    <2> DEFINE a == LibAddr[i.type]
    <2>2. Acts(MovImm64("RAX", a, "none"), S, R, T, Q, G)
      BY <1>4, LibGroup
    <2> HIDE DEF a
    <2>3. T = S /\ Only(0, R, Q, Num(a))
      BY <2>2, AimMeans
    <2>4. same(Q) /\ Q[7] = R[7]
      BY <2>1, <2>3 DEF Only
    <2> QED
      BY <1>4, <2>1, <2>3, <2>4 DEF InSqrt
  <1>5. CASE j = 3
    <2>1. N = h.input /\ same(R) /\ Len(s) >= 1 /\ R[7] = w /\ O = h.out /\ S = rest
      BY <1>2, <1>5 DEF InSqrt
    <2>2. Acts(X("PUSH_reg", "R8", {"REX"}), S, R, T, Q, G)
      BY <1>5, LibGroup
    <2>3. T = << Num(ram_addr) >> \o S /\ Q = R
      BY <1>5, <2>2, SaveMeans
    <2> QED
      BY <1>5, <2>1, <2>3 DEF InSqrt
  <1>6. CASE j = 5
    <2>1. /\ N = h.input /\ same(R) /\ Len(s) >= 1 /\ S = << Num(ram_addr) >> \o rest
          /\ O = h.out /\ R[0] = root
      BY <1>2, <1>6 DEF InSqrt
    <2>2. Acts(X("POP_reg", "R8", {"REX"}), S, R, T, Q, G)
      BY <1>6, LibGroup
    <2>3. rest \in Seq(Words)
      BY <1>1, <2>1, BelowFacts
    <2> HIDE DEF rest, root
    <2>4. T = rest /\ Only(8, R, Q, Num(ram_addr))
      BY <2>1, <2>2, <2>3, BackMeans
    <2>5. same(Q) /\ Q[0] = root
      BY <2>1, <2>4 DEF Only
    <2> QED
      BY <1>6, <2>1, <2>4, <2>5 DEF InSqrt, rest, root
  <1>7. CASE j = 6
    <2>1. N = h.input /\ same(R) /\ Len(s) >= 1 /\ S = rest /\ O = h.out /\ R[0] = root
      BY <1>2, <1>7 DEF InSqrt
    <2>2. Acts(X("PUSH_reg", "RAX", {}), S, R, T, Q, G)
      BY <1>7, LibGroup
    <2> HIDE DEF rest, root
    <2>3. T = << root >> \o rest /\ Q = R
      BY <2>1, <2>2, RetMeans
    <2> QED
      BY <1>7, <2>1, <2>3 DEF InSqrt, rest, root
  <1> QED
    BY <1>3, <1>4, <1>5, <1>6, <1>7
-----------------------------------------------------------------------------
(* What the IR's machine does, from what its state becomes.                *)

\* The registers that the IR knows.
Four(R) == [r \in 0 .. 3 |-> R[r]]
\* The IR instruction i is executed next; the state that is left behind.
AtIr(i) ==
    /\ state = "running" /\ ir' = ir /\ Held(seen)
    /\ seen.pc \in 0 .. Len(ir) - 1 /\ ir[seen.pc + 1] = i
Becomes(p, m, S, R, N, O) ==
    /\ state' = "running" /\ seen'.pc = p /\ seen'.ram = m /\ seen'.stack = S
    /\ seen'.regs = Four(R) /\ seen'.input = N /\ seen'.out = O

LEMMA AtIrFacts ==
    ASSUME NEW i, AtIr(i)
    PROVE  /\ Ir!instruction = i /\ Ir!Inside(ir, seen.pc)
           /\ \A types : Ir!Executes(types) <=> i.type \in types
           /\ seen.stack \in Seq(Words) /\ seen.regs \in [0 .. 3 -> Words]
  BY DEF AtIr, Held, Ir!instruction, Ir!Inside, Ir!At, Ir!Executes

\* Nothing is wrong with an instruction other than PUSH and POP ...
LEMMA AtIrSound ==
    ASSUME NEW i, AtIr(i), i.type \notin {"PUSH", "POP"} \cup Unsupported,
           Len(seen.stack) >= Ir!Operands(i),
           i.type = "RET" => Head(seen.stack).kind = "code",
           i.type = "DIV" => Head(seen.stack) # Num(0)
    PROVE  ~Ir!Faults
  <1>1. Ir!instruction = i /\ Ir!Inside(ir, seen.pc) /\ seen.stack \in Seq(Words)
    BY AtIrFacts
  <1>2. i.type # "PUSH" /\ i.type # "POP" /\ i.type \notin Ir!Unsupported /\ Ir!Num(0) = Num(0)
    BY SameWords
  <1>3. Ir!Operands(i) \in Nat /\ Len(seen.stack) \in Nat
    BY <1>1 DEF Ir!Operands
  <1> HIDE DEF AtIr
  <1>4. ~(Len(seen.stack) < Ir!Operands(i))
    BY <1>3
  <1> QED
    BY <1>1, <1>2, <1>4 DEF Ir!Faults

LEMMA AtIrExecutes ==
    ASSUME NEW i, AtIr(i), ~Ir!Faults, NEW types, i.type \in types
    PROVE  Ir!Executed(types)
  BY AtIrFacts DEF Ir!Executed

LEMMA HeadFirst == ASSUME NEW s \in Seq(Words), Len(s) >= 1 PROVE Head(s) = s[1] /\ Tail(s) = Below(s, 1)
  BY BelowFacts

\* Four registers, by their values.
LEMMA FourRegs ==
    ASSUME NEW R, NEW g \in [0 .. 3 -> Words], NEW a, NEW b, NEW c, NEW e, Low(R, a, b, c, e)
    PROVE  LET q == Four(R)
           IN  /\ e = g[3] /\ c = g[2] => q = [g EXCEPT ![0] = a, ![1] = b]
               /\ e = g[3] /\ c = g[2] /\ b = g[1] => q = [g EXCEPT ![0] = a]
               /\ e = g[3] /\ c = g[2] /\ b = g[1] /\ a = g[0] => q = g
  <1> DEFINE q == Four(R)
  <1>1. R[0] = a /\ R[1] = b /\ R[2] = c /\ R[3] = e
    BY DEF Low
  <1>2. \A r \in 0 .. 3 : r = 0 \/ r = 1 \/ r = 2 \/ r = 3
    OBVIOUS
  <1>4. ASSUME e = g[3], c = g[2] PROVE q = [g EXCEPT ![0] = a, ![1] = b]
    BY <1>1, <1>2, <1>4 DEF Four
  <1>5. ASSUME e = g[3], c = g[2], b = g[1] PROVE q = [g EXCEPT ![0] = a]
    BY <1>1, <1>2, <1>5 DEF Four
  <1>6. ASSUME e = g[3], c = g[2], b = g[1], a = g[0] PROVE q = g
    BY <1>1, <1>2, <1>6 DEF Four
  <1> HIDE DEF q
  <1> QED
    BY <1>4, <1>5, <1>6 DEF q

Put3(g, a, b, c) == [g EXCEPT ![0] = a, ![1] = b, ![2] = c]

LEMMA ThreeRegs ==
    ASSUME NEW R, NEW g \in [0 .. 3 -> Words], NEW a, NEW b, NEW c, NEW e, Low(R, a, b, c, e),
           e = g[3]
    PROVE  Four(R) = Put3(g, a, b, c)
  <1>1. R[0] = a /\ R[1] = b /\ R[2] = c /\ R[3] = g[3]
    BY DEF Low
  <1>2. \A r \in 0 .. 3 : r = 0 \/ r = 1 \/ r = 2 \/ r = 3
    OBVIOUS
  <1> QED
    BY <1>1, <1>2 DEF Four, Put3

LEMMA ArithmeticStep ==
    ASSUME NEW i, AtIr(i), i.type \in {"ADD", "SUB", "MUL", "DIV"}, NEW S, NEW R, NEW F, NEW N, NEW O,
           Within(i, IF i.type \in {"ADD", "SUB"} THEN 3 ELSE 8, seen, S, R, F, N, O),
           Becomes(seen.pc + 1, seen.ram, S, R, N, O)
    PROVE  Ir!arithmetic
  <1> DEFINE s == seen.stack
             g == seen.regs
             result == Ir!Result(i.type, s[2], s[1])
             lost == Ir!Lost(i.type, s[2], s[1])
  <1>1. s \in Seq(Words) /\ g \in [0 .. 3 -> Words] /\ Ir!instruction = i
    BY AtIrFacts
  <1>2. i.type \notin {"PUSH", "POP", "RET"} \cup Unsupported /\ Ir!Operands(i) = 2
    BY DEF Unsupported, Ir!Operands
  <1>3. CASE i.type \in {"ADD", "SUB"}
    <2>1. /\ Len(s) >= 2 /\ S = << result >> \o Below(s, 2) /\ Low(R, s[1], g[1], g[2], g[3])
          /\ N = seen.input /\ O = seen.out
      BY <1>3 DEF Within, InAddSub
    <2>2. ~Ir!Faults
      BY <1>2, <1>3, <2>1, AtIrSound
    <2>3. Ir!Executed({"ADD", "SUB", "MUL", "DIV"})
      BY <2>2, AtIrExecutes
    <2>4. Four(R) = [g EXCEPT ![0] = s[1]]
      BY <1>1, <2>1, FourRegs
    <2>5. Below(s, 2) = SubSeq(s, 3, Len(s))
      BY 2 + 1 = 3 DEF Below
    <2> QED
      BY <1>1, <1>3, <2>1, <2>3, <2>4, <2>5 DEF Ir!arithmetic, Ir!Next_pc, Becomes, AtIr
  <1>4. CASE i.type \in {"MUL", "DIV"}
    <2>1. /\ Len(s) >= 2 /\ S = << result >> \o Below(s, 2)
          /\ Low(R, result, Num(FIXED_PRECISION_MULTIPLIER), lost, g[3])
          /\ N = seen.input /\ O = seen.out /\ (i.type = "DIV" => s[1] # Num(0))
      BY <1>4 DEF Within, InMulDiv
    <2>2. ~Ir!Faults
      <3>1. Head(s) = s[1]
        BY <1>1, <2>1, HeadFirst
      <3> QED
        BY <1>2, <2>1, <3>1, AtIrSound
    <2>3. Ir!Executed({"ADD", "SUB", "MUL", "DIV"})
      BY <2>2, AtIrExecutes
    <2> DEFINE hundred == Num(FIXED_PRECISION_MULTIPLIER)
    <2>4. hundred = Ir!Num(Ir!FIXED_PRECISION_MULTIPLIER) /\ Low(R, result, hundred, lost, g[3])
      BY <2>1, SameWords
    <2> HIDE DEF result, lost, hundred
    <2>5. Four(R) = Put3(g, result, hundred, lost)
      BY <1>1, <2>4, ThreeRegs
    <2>6. Below(s, 2) = SubSeq(s, 3, Len(s))
      BY 2 + 1 = 3 DEF Below
    <2> QED
      BY <1>1, <1>4, <2>1, <2>3, <2>4, <2>5, <2>6 DEF Ir!arithmetic, Ir!Next_pc, Becomes, AtIr, result, lost, Put3
  <1> QED
    BY <1>3, <1>4

LEMMA InpStep ==
    ASSUME NEW i, AtIr(i), i.type = "INP", NEW S, NEW R, NEW F, NEW N, NEW O,
           Within(i, 6, seen, S, R, F, N, O), Becomes(seen.pc + 1, seen.ram, S, R, N, O)
    PROVE  Ir!INP
  <1> DEFINE s == seen.stack
             g == seen.regs
             u == Undetermined
  <1>1. s \in Seq(Words) /\ g \in [0 .. 3 -> Words]
    BY AtIrFacts
  <1>2. O = seen.out /\ InInp(6, seen, S, R, N, O)
    BY DEF Within, InInp
  <1>3. PICK v \in Inputs : /\ N = Append(seen.input, v) /\ S = << Num(v) >> \o s
                            /\ Low(R, Num(v), u, u, g[3])
    BY <1>2 DEF InInp
  <1>4. ~Ir!Faults
    <2>1. i.type \notin {"PUSH", "POP"} \cup Unsupported /\ Ir!Operands(i) = 0 /\ Len(s) >= 0
      BY <1>1 DEF Unsupported, Ir!Operands, Jumps, Ir!Jumps
    <2> QED
      BY <2>1, AtIrSound
  <1>5. Ir!Executed({"INP"})
    BY <1>4, AtIrExecutes
  <1> DEFINE w == Num(v)
  <1>6. w = Ir!Num(v) /\ u = Ir!Undetermined /\ Low(R, w, u, u, g[3])
    BY <1>3, SameWords
  <1> HIDE DEF w, u
  <1>7. Four(R) = Put3(g, w, u, u)
    BY <1>1, <1>6, ThreeRegs
  <1>8. seen'.stack = << Ir!Num(v) >> \o s /\ seen'.regs = Ir!Clobbered(Ir!Num(v))
        /\ seen'.input = Append(seen.input, v)
    BY <1>3, <1>6, <1>7 DEF Becomes, Ir!Clobbered, w, Put3
  <1> QED
    BY <1>2, <1>3, <1>5, <1>8 DEF Ir!INP, Ir!Next_pc, Becomes, AtIr, Inputs

LEMMA OutStep ==
    ASSUME NEW i, AtIr(i), i.type = "OUT", NEW S, NEW R, NEW F, NEW N, NEW O,
           Within(i, 6, seen, S, R, F, N, O), Becomes(seen.pc + 1, seen.ram, S, R, N, O)
    PROVE  Ir!OUT
  <1> DEFINE s == seen.stack
             g == seen.regs
             u == Undetermined
  <1>1. s \in Seq(Words) /\ g \in [0 .. 3 -> Words]
    BY AtIrFacts
  <1>2. /\ N = seen.input /\ Len(s) >= 1 /\ S = Below(s, 1) /\ O = Append(seen.out, Ir!Shown(s[1]))
        /\ Low(R, u, u, u, g[3])
    BY DEF Within, InOut
  <1>3. ~Ir!Faults
    <2>1. i.type \notin {"PUSH", "POP"} \cup Unsupported /\ Ir!Operands(i) = 1
      BY DEF Unsupported, Ir!Operands, Jumps, Ir!Jumps
    <2> QED
      BY <1>2, <2>1, AtIrSound
  <1>4. Ir!Executed({"OUT"})
    BY <1>3, AtIrExecutes
  <1>5. Head(s) = s[1] /\ Tail(s) = Below(s, 1)
    BY <1>1, <1>2, HeadFirst
  <1>6. u = Ir!Undetermined /\ Low(R, u, u, u, g[3])
    BY <1>2, SameWords
  <1> HIDE DEF u
  <1>7. Four(R) = Put3(g, u, u, u)
    BY <1>1, <1>6, ThreeRegs
  <1>8. seen'.regs = Ir!Clobbered(Ir!Undetermined)
    BY <1>6, <1>7 DEF Becomes, Ir!Clobbered, Put3
  <1> QED
    BY <1>2, <1>4, <1>5, <1>8 DEF Ir!OUT, Ir!Next_pc, Becomes, AtIr

LEMMA SqrtStep ==
    ASSUME NEW i, AtIr(i), i.type = "SQRT", NEW S, NEW R, NEW F, NEW N, NEW O,
           Within(i, 7, seen, S, R, F, N, O), Becomes(seen.pc + 1, seen.ram, S, R, N, O)
    PROVE  Ir!SQRT
  <1> DEFINE s == seen.stack
             g == seen.regs
             w == s[1]
             root == IF w.kind = "num" THEN Num(sqrt_asm(w.v)) ELSE Undetermined
  <1>1. s \in Seq(Words) /\ g \in [0 .. 3 -> Words]
    BY AtIrFacts
  <1>2. /\ N = seen.input /\ O = seen.out /\ Len(s) >= 1 /\ S = << root >> \o Below(s, 1)
        /\ R[0] = root /\ R[1] = g[1] /\ R[2] = g[2] /\ R[3] = g[3]
    BY DEF Within, InSqrt
  <1>3. ~Ir!Faults
    <2>1. i.type \notin {"PUSH", "POP"} \cup Unsupported /\ Ir!Operands(i) = 1
      BY DEF Unsupported, Ir!Operands, Jumps, Ir!Jumps
    <2> QED
      BY <1>2, <2>1, AtIrSound
  <1>4. Ir!Executed({"SQRT"})
    BY <1>3, AtIrExecutes
  <1>5. Head(s) = w /\ Tail(s) = Below(s, 1)
    BY <1>1, <1>2, HeadFirst
  <1>6. root = IF w.kind = "num" THEN Ir!Num(Ir!sqrt_asm(w.v)) ELSE Ir!Undetermined
    BY SameWords DEF Ir!sqrt_asm, sqrt_asm
  <1>7. Low(R, root, g[1], g[2], g[3])
    BY <1>2 DEF Low
  <1> HIDE DEF root
  <1>8. Four(R) = [g EXCEPT ![0] = root]
    BY <1>1, <1>7, FourRegs
  <1> QED
    BY <1>2, <1>4, <1>5, <1>6, <1>8 DEF Ir!SQRT, Ir!Next_pc, Becomes, AtIr

\* JMP and CALL, with the state in front of their last instruction.
LEMMA GoStep ==
    ASSUME NEW i, AtIr(i), i.type \in {"JMP", "CALL"}, NEW S, NEW R, NEW F, NEW N, NEW O,
           Within(i, 2, seen, S, R, F, N, O),
           Becomes(i.imm_arg, seen.ram, IF i.type = "CALL" THEN << Code(seen.pc + 1) >> \o S ELSE S, R, N, O)
    PROVE  Ir!jmp_or_call
  <1> DEFINE g == seen.regs
             w == Code(i.imm_arg)
  <1>1. Ir!instruction = i /\ g \in [0 .. 3 -> Words] /\ seen.stack \in Seq(Words)
    BY AtIrFacts
  <1>2. S = seen.stack /\ Low(R, w, g[1], g[2], g[3]) /\ N = seen.input /\ O = seen.out
    BY DEF Within, InGo
  <1>3. ~Ir!Faults
    <2>1. i.type \notin {"PUSH", "POP"} \cup Unsupported /\ Ir!Operands(i) = 0 /\ Len(seen.stack) >= 0
      BY <1>1 DEF Unsupported, Ir!Operands, Jumps, Ir!Jumps
    <2> QED
      BY <2>1, AtIrSound
  <1>4. Ir!Executed({"JMP", "CALL"})
    BY <1>3, AtIrExecutes
  <1>5. w = Ir!Code(i.imm_arg) /\ Code(seen.pc + 1) = Ir!Code(seen.pc + 1)
    BY SameWords
  <1> HIDE DEF w
  <1>6. Four(R) = [g EXCEPT ![0] = w]
    BY <1>1, <1>2, FourRegs
  <1> QED
    BY <1>1, <1>2, <1>4, <1>5, <1>6 DEF Ir!jmp_or_call, Becomes, AtIr

LEMMA RetStep ==
    ASSUME NEW i, AtIr(i), i.type = "RET", NEW S, NEW R, NEW N, NEW O, Fresh(seen, S, R, N, O),
           S # << >>, Head(S).kind = "code",
           Becomes(Head(S).v, seen.ram, Tail(S), R, N, O)
    PROVE  Ir!RET
  <1> DEFINE g == seen.regs
             s == seen.stack
  <1>1. g \in [0 .. 3 -> Words] /\ s \in Seq(Words)
    BY AtIrFacts
  <1>2. S = s /\ Low(R, g[0], g[1], g[2], g[3]) /\ N = seen.input /\ O = seen.out
    BY DEF Fresh
  <1>3. ~Ir!Faults
    <2>1. i.type \notin {"PUSH", "POP"} \cup Unsupported /\ Ir!Operands(i) = 1 /\ Len(s) >= 1
      BY <1>1, <1>2 DEF Unsupported, Ir!Operands, Jumps, Ir!Jumps
    <2> QED
      BY <1>2, <2>1, AtIrSound
  <1>4. Ir!Executed({"RET"})
    BY <1>3, AtIrExecutes
  <1>5. Four(R) = g
    BY <1>1, <1>2, FourRegs
  <1> QED
    BY <1>2, <1>4, <1>5 DEF Ir!RET, Becomes, AtIr

\* The conditional jumps: the words that are compared, and the way that is taken.
LEMMA JumpStep ==
    ASSUME NEW i, AtIr(i), i.type \in Jumps, NEW S, NEW R, NEW F, NEW N, NEW O,
           Within(i, 4, seen, S, R, F, N, O), NEW taken \in BOOLEAN,
           F[1].kind = "num" /\ F[2].kind = "num" => taken = Ir!Compares(i.type, F[1].v, F[2].v),
           Becomes(IF taken THEN i.imm_arg ELSE seen.pc + 1, seen.ram, S, R, N, O)
    PROVE  Ir!cond_jmp
  <1> DEFINE g == seen.regs
             s == seen.stack
             a == s[2]
             b == s[1]
  <1>1. g \in [0 .. 3 -> Words] /\ s \in Seq(Words) /\ Ir!instruction = i
    BY AtIrFacts
  <1>2. InJump(4, seen, S, R, F) /\ N = seen.input /\ O = seen.out
    BY DEF Within
  <1>3. Len(s) >= 2 /\ S = Below(s, 2) /\ Low(R, a, b, g[2], g[3]) /\ F = << a, b >>
    BY <1>2 DEF InJump
  <1>4. ~Ir!Faults
    <2>1. i.type \notin {"PUSH", "POP", "RET", "DIV"} \cup Unsupported /\ Ir!Operands(i) = 2
      BY SameWords DEF Unsupported, Ir!Operands, Jumps
    <2> QED
      BY <1>3, <2>1, AtIrSound
  <1>5. i.type \in Ir!Jumps
    BY SameWords
  <1>6. Ir!Executed(Ir!Jumps)
    BY <1>4, <1>5, AtIrExecutes
  <1>7. Four(R) = [g EXCEPT ![0] = a, ![1] = b]
    BY <1>1, <1>3, FourRegs
  <1>8. Below(s, 2) = SubSeq(s, 3, Len(s))
    BY 2 + 1 = 3 DEF Below
  <1>9. taken \in IF a.kind = "num" /\ b.kind = "num" THEN {Ir!Compares(i.type, a.v, b.v)} ELSE BOOLEAN
    <2>1. F[1] = a /\ F[2] = b
      BY <1>3
    <2>2. a.kind = "num" /\ b.kind = "num" => taken = Ir!Compares(i.type, a.v, b.v)
      BY <2>1
    <2> QED
      BY <2>2
  <1> QED
    BY <1>1, <1>2, <1>3, <1>6, <1>7, <1>8, <1>9 DEF Ir!cond_jmp, Becomes, AtIr

LEMMA HaltStep ==
    ASSUME NEW i, AtIr(i), i.type = "HALT", state' = "exit", seen' = seen
    PROVE  Ir!HALT
  <1>1. seen.stack \in Seq(Words)
    BY AtIrFacts
  <1>2. ~Ir!Faults
    <2>1. i.type \notin {"PUSH", "POP"} \cup Unsupported /\ Ir!Operands(i) = 0 /\ Len(seen.stack) >= 0
      BY <1>1 DEF Unsupported, Ir!Operands, Jumps, Ir!Jumps
    <2> QED
      BY <2>1, AtIrSound
  <1>3. Ir!Executed({"HALT"})
    BY <1>2, AtIrExecutes
  <1> QED
    BY <1>3 DEF Ir!HALT, AtIr

LEMMA FaultStep ==
    ASSUME state = "running", Ir!Faults, state' = "fault", seen' = seen, ir' = ir
    PROVE  Ir!Fault
  BY DEF Ir!Fault

\* Memory, and what is wrong with PUSH and POP.
LEMMA SameMemory ==
    /\ \A m, a : Ir!Load(m, a) = Load(m, a)
    /\ \A m, a, w : Ir!Store(m, a, w) = Store(m, a, w)
  <1>1. \A a, b : Ir!Overlap(a, b) <=> Overlap(a, b)
    BY SameWords DEF Ir!Overlap, Overlap
  <1>2. Ir!Undetermined = Undetermined /\ Ir!Num(0) = Num(0)
    BY SameWords
  <1>3. \A m, a : Ir!Load(m, a) = Load(m, a)
    BY <1>1, <1>2 DEF Ir!Load, Load
  <1>4. \A m, a, w : Ir!Store(m, a, w) = Store(m, a, w)
    BY <1>1 DEF Ir!Store, Store
  <1> QED
    BY <1>3, <1>4

LEMMA PushPopFaults ==
    ASSUME NEW i, AtIr(i), i.type \in {"PUSH", "POP"}
    PROVE  Ir!Faults <=> \/ i.type = "POP" /\ seen.stack = << >>
                         \/ ~i.need_imm_arg /\ ~i.need_reg_arg /\ ~i.need_mem_arg
                         \/ i.need_mem_arg /\ ~Ir!Addressed(i)
  <1>1. Ir!instruction = i /\ Ir!Inside(ir, seen.pc) /\ seen.stack \in Seq(Words)
    BY AtIrFacts
  <1>2. i.type \notin {"RET", "DIV"} \cup Ir!Unsupported
    BY DEF Ir!Unsupported
  <1>3. Len(seen.stack) < Ir!Operands(i) <=> i.type = "POP" /\ seen.stack = << >>
    <2>1. i.type = "PUSH" => Ir!Operands(i) = 0
      BY DEF Ir!Operands, Ir!Jumps
    <2>2. i.type = "POP" => Ir!Operands(i) = 1
      BY DEF Ir!Operands, Ir!Jumps
    <2>3. Len(seen.stack) \in Nat /\ (seen.stack = << >> <=> Len(seen.stack) = 0)
      BY <1>1
    <2> QED
      BY <2>1, <2>2, <2>3
  <1> QED
    BY <1>1, <1>2, <1>3 DEF Ir!Faults

LEMMA PushStep ==
    ASSUME NEW i, AtIr(i), i.type = "PUSH", ~Ir!Faults, NEW S, NEW R, NEW N, NEW O,
           Fresh(seen, S, R, N, O), NEW w,
           w = IF i.need_mem_arg THEN Load(seen.ram, Ir!Address(i))
               ELSE IF i.need_reg_arg THEN seen.regs[i.reg_num]
               ELSE Num(i.imm_arg * FIXED_PRECISION_MULTIPLIER),
           Becomes(seen.pc + 1, seen.ram, << w >> \o S, R, N, O)
    PROVE  Ir!push_
  <1> DEFINE g == seen.regs
  <1>1. g \in [0 .. 3 -> Words] /\ Ir!instruction = i
    BY AtIrFacts
  <1>2. S = seen.stack /\ Low(R, g[0], g[1], g[2], g[3]) /\ N = seen.input /\ O = seen.out
    BY DEF Fresh
  <1>3. Ir!Executed({"PUSH"})
    BY AtIrExecutes
  <1>4. Four(R) = g
    BY <1>1, <1>2, FourRegs
  <1>5. w = IF i.need_mem_arg THEN Ir!Load(seen.ram, Ir!Address(i))
            ELSE IF i.need_reg_arg THEN seen.regs[i.reg_num]
            ELSE Ir!Num(i.imm_arg * Ir!FIXED_PRECISION_MULTIPLIER)
    BY SameWords, SameMemory
  <1> QED
    BY <1>1, <1>2, <1>3, <1>4, <1>5 DEF Ir!push_, Ir!Next_pc, Becomes, AtIr

LEMMA PopStep ==
    ASSUME NEW i, AtIr(i), i.type = "POP", ~Ir!Faults, NEW S, NEW R, NEW N, NEW O,
           Fresh(seen, S, R, N, O), NEW m, NEW Q,
           IF i.need_mem_arg THEN m = Store(seen.ram, Ir!Address(i), Head(S)) /\ Four(Q) = Four(R)
           ELSE m = seen.ram /\ Four(Q) = [Four(R) EXCEPT ![i.reg_num] = Head(S)],
           Becomes(seen.pc + 1, m, Tail(S), Q, N, O)
    PROVE  Ir!pop_
  <1> DEFINE g == seen.regs
  <1>1. g \in [0 .. 3 -> Words] /\ Ir!instruction = i
    BY AtIrFacts
  <1>2. S = seen.stack /\ Low(R, g[0], g[1], g[2], g[3]) /\ N = seen.input /\ O = seen.out
    BY DEF Fresh
  <1>3. Ir!Executed({"POP"})
    BY AtIrExecutes
  <1>4. Four(R) = g
    BY <1>1, <1>2, FourRegs
  <1>5. IF i.need_mem_arg THEN m = Ir!Store(seen.ram, Ir!Address(i), Head(S)) /\ Four(Q) = g
        ELSE m = seen.ram /\ Four(Q) = [g EXCEPT ![i.reg_num] = Head(S)]
    BY <1>4, SameMemory
  <1> QED
    BY <1>1, <1>2, <1>3, <1>5 DEF Ir!pop_, Ir!Next_pc, Becomes, AtIr
-----------------------------------------------------------------------------
(* Nothing of this changes while the program is executed.                  *)

LEMMA IndexFixed ==
    ASSUME UNCHANGED vars
    PROVE  /\ \A a : IndexAt(a)' = IndexAt(a)
           /\ \A w : AsIr(w)' = AsIr(w)
           /\ text' = text /\ ir' = ir
  <1>1. text' = text /\ ir' = ir
    BY DEF vars, args
  <1>2. \A a : IndexAt(a)' = IndexAt(a)
    <2>1. \A a : GroupsAt(a)' = GroupsAt(a)
      BY <1>1, GroupsFixed DEF GroupsAt
    <2>2. \A S, T : S = T => (CHOOSE e \in S : TRUE) = (CHOOSE e \in T : TRUE)
      OBVIOUS
    <2> SUFFICES ASSUME NEW a PROVE IndexAt(a)' = IndexAt(a)
      OBVIOUS
    <2> DEFINE first == CHOOSE e \in GroupsAt(a) : TRUE
    <2>3. first' = first
      BY <2>1, <2>2
    <2>4. IndexAt(a) = IF a = CodeEnd THEN Len(ir) ELSE text[first].cur - 1
      BY DEF IndexAt
    <2>5. IndexAt(a)' = IF a = CodeEnd' THEN Len(ir') ELSE text'[first'].cur - 1
      BY DEF IndexAt
    <2> HIDE DEF first
    <2> QED
      BY <1>1, <2>3, <2>4, <2>5, GroupsFixed
  <1>3. \A w : AsIr(w)' = AsIr(w)
    BY <1>2, GroupsFixed DEF AsIr
  <1> QED
    BY <1>1, <1>2, <1>3

LEMMA ImgFixed ==
    ASSUME UNCHANGED vars, NEW q
    PROVE  Img(q)' = Img(q)
  BY IndexFixed DEF Img

LEMMA MiddleFixed ==
    ASSUME UNCHANGED vars, NEW i, NEW j, NEW h, NEW S, NEW R, NEW F, NEW N, NEW O
    PROVE  Middle(i, j, h, S, R, F, N, O)' <=> Middle(i, j, h, S, R, F, N, O)
  <1>1. ram_addr' = ram_addr
    BY GroupsFixed
  <1>2. InInp(j, h, S, R, N, O)' <=> InInp(j, h, S, R, N, O)
    BY <1>1 DEF InInp
  <1>3. InOut(j, h, S, R, N, O)' <=> InOut(j, h, S, R, N, O)
    BY <1>1 DEF InOut
  <1>4. InSqrt(j, h, S, R, N, O)' <=> InSqrt(j, h, S, R, N, O)
    BY <1>1 DEF InSqrt
  <1>5. Within(i, j, h, S, R, F, N, O)' <=> Within(i, j, h, S, R, F, N, O)
    BY <1>2, <1>3, <1>4 DEF Within
  <1> QED
    BY <1>5 DEF Middle

LEMMA InGroupFixed ==
    ASSUME UNCHANGED vars, NEW d, NEW j, NEW h, NEW m, NEW s, NEW r, NEW f, NEW n, NEW o
    PROVE  InGroup(d, j, h, m, s, r, f, n, o)' <=> InGroup(d, j, h, m, s, r, f, n, o)
  <1>1. text' = text /\ ir' = ir
    BY IndexFixed
  <1>2. Img(m)' = Img(m) /\ Img(s)' = Img(s) /\ Img(r)' = Img(r) /\ Img(f)' = Img(f)
    BY ImgFixed
  <1> DEFINE i == ir[text[d].cur]
             S == Img(s)
             R == Img(r)
             F == Img(f)
             N == Read(n)
             O == Written(o)
  <1>3. Middle(i, j, h, S, R, F, N, O)' <=> Middle(i, j, h, S, R, F, N, O)
    <2>1. S' = S /\ R' = R /\ F' = F /\ N' = N /\ O' = O /\ i' = i
      BY <1>1, <1>2 DEF Read, Written
    <2> HIDE DEF i, S, R, F, N, O
    <2> QED
      BY <2>1, MiddleFixed
  <1> QED
    BY <1>1, <1>2, <1>3 DEF InGroup

LEMMA TracksFixed ==
    ASSUME UNCHANGED vars, NEW p, NEW h, NEW r, NEW s, NEW m, NEW f, NEW n, NEW o,
           Tracks(p, h, r, s, m, f, n, o)
    PROVE  Tracks(p, h, r, s, m, f, n, o)'
  <1>1. text' = text /\ ir' = ir
    BY IndexFixed
  <1>2. Img(m)' = Img(m) /\ Img(s)' = Img(s) /\ Img(r)' = Img(r)
    BY ImgFixed
  <1>3. CodeEnd' = CodeEnd /\ \A d : Place(d)' = Place(d)
    BY GroupsFixed, ReadyFixed
  <1>4. \A d : InGroup(d, text[d].k, h, m, s, r, f, n, o)' <=> InGroup(d, text[d].k, h, m, s, r, f, n, o)
    BY <1>1, InGroupFixed
  <1>5. \A d : InGroup(d, text[d].k - 1, h, m, Tail(s), r, f, n, o)'
                 <=> InGroup(d, text[d].k - 1, h, m, Tail(s), r, f, n, o)
    BY <1>1, InGroupFixed
  <1> QED
    BY <1>1, <1>2, <1>3, <1>4, <1>5 DEF Tracks

LEMMA TracksStays ==
    ASSUME UNCHANGED vars, Tracks(rip', seen', regs', stack', ram', flags', typed', printed')
    PROVE  Tracks(rip, seen, regs, stack, ram, flags, typed, printed)'
  BY TracksFixed

\* What the history variable becomes between two groups.
LEMMA SnapshotNext ==
    ASSUME UNCHANGED vars, regs' \in [REG_NUMBERS -> Words]
    PROVE  Snapshot' = [pc |-> IndexAt(rip'), ram |-> Img(ram'), stack |-> Img(stack'),
                        regs |-> Four(Img(regs')), input |-> Read(typed'), out |-> Written(printed')]
  <1>1. /\ IndexAt(rip)' = IndexAt(rip')
        /\ \A w : AsIr(w)' = AsIr(w)
    BY IndexFixed
  <1>2. DOMAIN regs' = REG_NUMBERS /\ 0 .. 3 \subseteq REG_NUMBERS
    BY DEF REG_NUMBERS
  <1>3. Four(Img(regs')) = [r \in 0 .. 3 |-> AsIr(regs'[r])]
    BY <1>2 DEF Four, Img
  <1> QED
    BY <1>1, <1>3 DEF Snapshot, Img, Read, Written
-----------------------------------------------------------------------------
(* Where an instruction leads: to the next one of its group, or out of it. *)

\* The instruction behind one that does not close its group.
LEMMA NextInGroup ==
    ASSUME Settled, Linked, NEW d \in 1 .. Len(text), ~Closes(d)
    PROVE  /\ d + 1 \in 1 .. Len(text) /\ Place(d + 1) = base_addr + End(text[d])
           /\ text[d].cur # 0 /\ text[d + 1].cur = text[d].cur /\ text[d + 1].k = text[d].k + 1
           /\ ~AtGroup(Place(d + 1))
  <1>1. Len(text) \in Nat /\ Len(text) >= 1
    BY LaidTypes
  <1>2. d # Len(text)
    BY DEF Settled, TextInv, Closes
  <1>3. d \in 1 .. Len(text) - 1
    BY <1>1, <1>2
  <1>4. /\ d + 1 \in 1 .. Len(text) /\ Place(d + 1) = base_addr + End(text[d])
        /\ text[d].cur # 0 /\ text[d + 1].cur = text[d].cur
    BY <1>3, LaidNext
  <1>5. text[d].k \in 1 .. Len(GroupOf(text[d].cur)) /\ Len(GroupOf(text[d].cur)) \in Nat
    BY LaidEntry
  <1>6. Succeeds(text[d], text[d + 1].cur, text[d + 1].k)
    BY <1>3 DEF Settled, TextInv
  <1>7. text[d + 1].k = text[d].k + 1
    BY <1>5, <1>6 DEF Succeeds, Closes
  <1>8. text[d + 1].k # 1
    BY <1>5, <1>7
  <1>9. ~AtGroup(Place(d + 1))
    BY <1>4, <1>8, GroupIndex
  <1> QED
    BY <1>4, <1>7, <1>9

\* Between two groups the state of the IR is that of the processor.
LEMMA ArrivesAt ==
    ASSUME Settled, Linked, NEW p, AtGroup(p), NEW r, SafeRegs(r), NEW s, SafeStack(s), NEW m, NEW f,
           NEW n, NEW o, NEW h,
           h = [pc |-> IndexAt(p), ram |-> Img(m), stack |-> Img(s), regs |-> Four(Img(r)),
                input |-> Read(n), out |-> Written(o)]
    PROVE  Tracks(p, h, r, s, m, f, n, o)
  <1>1. Img(s) \in Seq(Words) /\ Img(r) \in [REG_NUMBERS -> Words]
    BY ImgSeq, ImgRegs
  <1>2. h.stack = Img(s) /\ h.ram = Img(m) /\ h.regs = Four(Img(r)) /\ h.pc = IndexAt(p)
        /\ h.input = Read(n) /\ h.out = Written(o)
    OBVIOUS
  <1>3. 0 .. 3 \subseteq REG_NUMBERS
    BY DEF REG_NUMBERS
  <1>4. Held(h)
    BY <1>1, <1>2, <1>3 DEF Held, Four
  <1>5. Fresh(h, Img(s), Img(r), Read(n), Written(o))
    <2>1. \A q \in 0 .. 3 : h.regs[q] = Img(r)[q]
      BY <1>2 DEF Four
    <2>2. 0 \in 0 .. 3 /\ 1 \in 0 .. 3 /\ 2 \in 0 .. 3 /\ 3 \in 0 .. 3
      OBVIOUS
    <2> QED
      BY <1>2, <2>1, <2>2 DEF Fresh, Low
  <1>6. ASSUME NEW d \in 1 .. Len(text), p = Place(d)
        PROVE  text[d].cur # 0 /\ InGroup(d, text[d].k, h, m, s, r, f, n, o)
    <2>1. text[d].k = 1 /\ text[d].cur # 0
      BY <1>6, GroupIndex
    <2>2. h.pc = text[d].cur - 1
      BY <1>2, <1>6, <2>1, GroupIndex
    <2> QED
      BY <1>2, <1>5, <2>1, <2>2 DEF InGroup, Middle
  <1>7. p = CodeEnd => h.pc = Len(ir)
    BY <1>2, EndIndex
  <1>8. p \notin Library
    <2>1. DOMAIN text = 1 .. Len(text)
      BY DEF Settled, TypeInv, TypeOK
    <2>2. p = CodeEnd \/ \E d \in 1 .. Len(text) : p = Place(d)
      BY <2>1 DEF AtGroup, GroupsAt, Place
    <2> QED
      BY <2>2, LibraryApart
  <1> QED
    BY <1>2, <1>4, <1>5, <1>6, <1>7, <1>8 DEF Tracks

\* Inside of a group only the processor goes on.
LEMMA ArrivesWithin ==
    ASSUME Settled, Linked, NEW d \in 1 .. Len(text), text[d].cur # 0, NEW h, Held(h), NEW r, NEW s, NEW m,
           NEW f, NEW n, NEW o, InGroup(d, text[d].k, h, m, s, r, f, n, o)
    PROVE  Tracks(Place(d), h, r, s, m, f, n, o)
  <1>1. \A e \in 1 .. Len(text) : Place(d) = Place(e) => e = d
    BY LaidApart
  <1>2. Place(d) \notin Library /\ Place(d) # CodeEnd
    BY LibraryApart
  <1> QED
    BY <1>1, <1>2 DEF Tracks
-----------------------------------------------------------------------------
(* The steps of the processor as steps of the IR's machine.                *)

\* The processor is at an instruction of the code, in the middle of a group.
Amid(d) ==
    /\ Here(d) /\ UNCHANGED vars /\ state = "running" /\ Held(seen) /\ text[d].cur # 0
    /\ InGroup(d, text[d].k, seen, ram, stack, regs, flags, typed, printed)
    /\ Ready(d, regs, stack)
    /\ seen' = IF state' = "running" /\ AtGroup(rip') THEN Snapshot' ELSE seen
\* What is to be shown of a step.
Followed ==
    /\ state' = "running" => Tracks(rip', seen', regs', stack', ram', flags', typed', printed')
    /\ Ir!MachineNext \/ UNCHANGED Ir!machine

LEMMA AmidAtIr ==
    ASSUME NEW d, Amid(d)
    PROVE  /\ AtIr(ir[text[d].cur]) /\ d \in 1 .. Len(text) /\ Settled /\ Linked
           /\ text[d].cur \in 1 .. Len(ir) /\ ir[text[d].cur] \in Instr /\ seen.pc + 1 = text[d].cur
           /\ seen.pc = text[d].cur - 1 /\ seen.ram = Img(ram)
           /\ Member(ir[text[d].cur], text[d].x) /\ ir[text[d].cur] \in Instr
           /\ GroupOf(text[d].cur) = encode_one_ir_instruction(ir[text[d].cur])
  <1>1. d \in 1 .. Len(text) /\ Settled /\ Linked /\ text[d].cur # 0
    BY DEF Amid, Here
  <1>2. text[d].cur \in 1 .. Len(ir) /\ ir[text[d].cur] \in Instr /\ Member(ir[text[d].cur], text[d].x)
    BY <1>1, LaidMember
  <1>3. Len(ir) \in Nat
    BY <1>1, LaidTypes
  <1>4. seen.pc = text[d].cur - 1 /\ seen.ram = Img(ram) /\ Held(seen) /\ state = "running"
    BY DEF Amid, InGroup
  <1>5. seen.pc + 1 = text[d].cur /\ seen.pc \in 0 .. Len(ir) - 1
    BY <1>2, <1>3, <1>4
  <1>6. ir' = ir
    BY IndexFixed DEF Amid
  <1>7. AtIr(ir[text[d].cur])
    BY <1>4, <1>5, <1>6 DEF AtIr
  <1> QED
    BY <1>1, <1>2, <1>4, <1>5, <1>7 DEF GroupOf

\* A step out of the group.
LEMMA LeavesGroup ==
    ASSUME NEW d, Amid(d), state' = "running", AtGroup(rip'), Kept(regs', stack', ram')
    PROVE  /\ Tracks(rip', seen', regs', stack', ram', flags', typed', printed')
           /\ Becomes(IndexAt(rip'), Img(ram'), Img(stack'), Img(regs'), Read(typed'), Written(printed'))
  <1>1. Settled /\ Linked /\ UNCHANGED vars
    BY DEF Amid, Here
  <1>2. SafeRegs(regs') /\ SafeStack(stack')
    BY DEF Kept, SafeRegs, SafeStack
  <1>3. seen' = [pc |-> IndexAt(rip'), ram |-> Img(ram'), stack |-> Img(stack'),
                 regs |-> Four(Img(regs')), input |-> Read(typed'), out |-> Written(printed')]
    <2>1. seen' = Snapshot'
      BY DEF Amid
    <2> QED
      BY <1>1, <1>2, <2>1, SnapshotNext DEF SafeRegs
  <1>4. Tracks(rip', seen', regs', stack', ram', flags', typed', printed')
    BY <1>1, <1>2, <1>3, ArrivesAt
  <1> QED
    BY <1>3, <1>4 DEF Becomes

\* A step within the group: nothing happens to the IR.
LEMMA StaysInGroup ==
    ASSUME NEW d, Amid(d), state' = "running", ~Closes(d), rip' = base_addr + End(text[d]),
           Img(ram') = Img(ram),
           Within(ir[text[d].cur], text[d].k + 1, seen, Img(stack'), Img(regs'), Img(flags'),
                  Read(typed'), Written(printed'))
    PROVE  Followed
  <1>1. Settled /\ Linked /\ UNCHANGED vars /\ d \in 1 .. Len(text) /\ Held(seen)
    BY DEF Amid, Here
  <1>2. /\ d + 1 \in 1 .. Len(text) /\ rip' = Place(d + 1) /\ ~AtGroup(rip')
        /\ text[d].cur # 0 /\ text[d + 1].cur = text[d].cur /\ text[d + 1].k = text[d].k + 1
    BY <1>1, NextInGroup
  <1>3. seen' = seen
    BY <1>2 DEF Amid
  <1>4. text[d].k \in 1 .. Len(GroupOf(text[d].cur))
    BY <1>1, LaidEntry
  <1>5. text[d].k + 1 # 1
    BY <1>4
  <1>6. seen.pc = text[d + 1].cur - 1 /\ seen.ram = Img(ram')
    BY <1>2 DEF Amid, InGroup
  <1>7. InGroup(d + 1, text[d + 1].k, seen, ram', stack', regs', flags', typed', printed')
    BY <1>2, <1>5, <1>6 DEF InGroup, Middle
  <1>8. Tracks(rip', seen', regs', stack', ram', flags', typed', printed')
    BY <1>1, <1>2, <1>3, <1>7, ArrivesWithin
  <1>9. UNCHANGED Ir!machine
    <2>1. state' = state /\ ir' = ir
      BY <1>1, IndexFixed DEF Amid
    <2> QED
      BY <1>3, <2>1 DEF Ir!machine
  <1> QED
    BY <1>8, <1>9 DEF Followed

\* What is encoded, by the type of the instruction.
LEMMA EncodedAs ==
    ASSUME NEW i \in Instr
    PROVE  LET g == encode_one_ir_instruction(i)
           IN  /\ i.type \in {"PUSH", "POP"} => g = emit_push_or_pop(i)
               /\ i.type \in {"ADD", "SUB"} => g = emit_add_or_sub(i)
               /\ i.type \in {"MUL", "DIV"} => g = emit_mull_or_div(i)
               /\ i.type \in LibFuncs => g = emit_lib_func(i)
               /\ i.type \in {"JMP", "CALL"} => g = emit_jmp_or_call(i)
               /\ i.type = "RET" => g = emit_ret
               /\ i.type \in Jumps => g = emit_cond_jmp(i)
               /\ i.type \in Unsupported => g = << >>
  BY DEF encode_one_ir_instruction, LibFuncs, Jumps, Unsupported

\* The types of the IR, as far as they are encoded at all.
LEMMA TypeCases ==
    ASSUME NEW i \in Instr
    PROVE  \/ i.type \in {"PUSH", "POP"} \/ i.type \in {"ADD", "SUB"} \/ i.type \in {"MUL", "DIV"}
           \/ i.type = "INP" \/ i.type = "OUT" \/ i.type = "SQRT" \/ i.type = "HALT"
           \/ i.type \in {"JMP", "CALL"} \/ i.type = "RET" \/ i.type \in Jumps \/ i.type \in Unsupported
  BY DEF Instr, InstrTypes, Encodable

LEMMA AmidGroup ==
    ASSUME NEW d, Amid(d)
    PROVE  LET i == ir[text[d].cur]
               g == encode_one_ir_instruction(i)
           IN  /\ text[d].k \in 1 .. Len(g) /\ Len(g) \in Nat /\ Like(text[d].x, g[text[d].k])
               /\ Middle(i, text[d].k, seen, Img(stack), Img(regs), Img(flags), Read(typed), Written(printed))
               /\ Img(regs) \in [REG_NUMBERS -> Words] /\ Img(stack) \in Seq(Words)
               /\ (Closes(d) <=> text[d].k = Len(g))
  <1>1. GroupOf(text[d].cur) = encode_one_ir_instruction(ir[text[d].cur])
    BY AmidAtIr
  <1>2. d \in 1 .. Len(text) /\ Settled /\ Linked /\ SafeRegs(regs) /\ SafeStack(stack)
    BY HereSafe DEF Amid, Here
  <1>3. Img(regs) \in [REG_NUMBERS -> Words] /\ Img(stack) \in Seq(Words)
    BY <1>2, ImgRegs, ImgSeq
  <1>4. /\ text[d].k \in 1 .. Len(GroupOf(text[d].cur)) /\ Len(GroupOf(text[d].cur)) \in Nat
        /\ Like(text[d].x, GroupOf(text[d].cur)[text[d].k])
    BY <1>2, LaidEntry
  <1>5. Middle(ir[text[d].cur], text[d].k, seen, Img(stack), Img(regs), Img(flags), Read(typed), Written(printed))
    BY DEF Amid, InGroup
  <1> QED
    BY <1>1, <1>3, <1>4, <1>5 DEF Closes

\* Where nothing depends on the position, the instruction is as it was meant.
LEMMA AsMeant ==
    ASSUME NEW d, Amid(d), text[d].x.fix = "none"
    PROVE  text[d].x = encode_one_ir_instruction(ir[text[d].cur])[text[d].k]
  BY AmidGroup DEF Like

LEMMA WithinNext ==
    ASSUME NEW d, Amid(d), ir[text[d].cur].type \notin {"PUSH", "POP"},
           Acts(text[d].x, Img(stack), Img(regs), Img(stack'), Img(regs'), Img(flags'))
    PROVE  Within(ir[text[d].cur], text[d].k + 1, seen, Img(stack'), Img(regs'), Img(flags'),
                  Read(typed), Written(printed))
  <1> DEFINE i == ir[text[d].cur]
             j == text[d].k
             g == encode_one_ir_instruction(i)
             x == text[d].x
             S == Img(stack)
             R == Img(regs)
             F == Img(flags)
             T == Img(stack')
             Q == Img(regs')
             G == Img(flags')
             N == Read(typed)
             O == Written(printed)
  <1>1. i \in Instr /\ Held(seen) /\ Settled /\ Linked /\ d \in 1 .. Len(text) /\ Member(i, x)
    BY AmidAtIr DEF Amid
  <1>2. /\ j \in 1 .. Len(g) /\ Len(g) \in Nat /\ Like(x, g[j])
        /\ Middle(i, j, seen, S, R, F, N, O) /\ R \in [REG_NUMBERS -> Words] /\ S \in Seq(Words)
    BY AmidGroup
  <1>3. Acts(x, S, R, T, Q, G)
    OBVIOUS
  <1>4. x.op \in Plainly /\ x.op # "RET" /\ ~Goes(x) /\ x.op \notin CondOps
    BY DEF Acts, Plainly, Stacked, Goes, CondOps
  <1>5. i.type \notin {"JMP", "CALL"} \cup Jumps => x.fix = "none"
    BY <1>1, <1>2, <1>4 DEF Member, IsTransfer
  <1>6. x.fix = "none" => x = g[j]
    BY <1>2 DEF Like
  <1>7. Num(ram_addr) \in Words
    BY <1>1, LaidTypes, SafeWords
  <1>8. Saves(x) => R[8] = Num(ram_addr)
    <2>1. Ready(d, regs, stack) /\ text[d].cur # 0
      BY DEF Amid
    <2>2. Saves(x) => ~Backs(x)
      BY DEF Saves, Backs
    <2>3. Saves(x) => regs[8] = Num(ram_addr)
      BY <2>1, <2>2 DEF Ready, REGS
    <2>4. 8 \in REG_NUMBERS /\ SafeRegs(regs)
      BY HereSafe DEF Amid, REG_NUMBERS
    <2>5. R[8] = AsIr(regs[8])
      BY <1>1, <2>4, ImgRegs
    <2> QED
      BY <2>3, <2>5, AsIrNum
  <1>9. x.op = g[j].op
    BY <1>2 DEF Like
  <1>10. i.type \notin {"PUSH", "POP"}
    OBVIOUS
  <1> DEFINE L == Landing(text[d])
  <1>11. x.fix = "abs" => IndexAt(x.imm) = i.imm_arg
    BY <1>1, LandingIndex DEF Landing
  <1> HIDE DEF i, j, g, x, S, R, F, T, Q, G, N, O
  <1>12. ASSUME i.type \in {"ADD", "SUB"} PROVE Within(i, j + 1, seen, T, Q, G, N, O)
    <2>1. g = emit_add_or_sub(i)
      BY <1>1, <1>12, EncodedAs DEF g
    <2>2. Len(g) = 2 /\ x = g[j]
      BY <1>5, <1>6, <1>12, <2>1 DEF emit_add_or_sub, Jumps
    <2>3. j \in 1 .. 2
      BY <1>2, <2>2
    <2> QED
      BY <1>1, <1>2, <1>3, <1>12, <2>1, <2>2, <2>3, AddSubWithin
  <1>13. ASSUME i.type \in {"MUL", "DIV"} PROVE Within(i, j + 1, seen, T, Q, G, N, O)
    <2>1. g = emit_mull_or_div(i)
      BY <1>1, <1>13, EncodedAs DEF g
    <2>2. Len(g) = 7
      BY <1>13, <2>1, MulDivGroup
    <2>3. x = g[j]
      BY <1>5, <1>6, <1>13 DEF Jumps
    <2>4. j \in 1 .. 7
      BY <1>2, <2>2
    <2> QED
      BY <1>1, <1>2, <1>3, <1>13, <2>1, <2>3, <2>4, MulDivWithin
  <1>14. ASSUME i.type \in Jumps PROVE Within(i, j + 1, seen, T, Q, G, N, O)
    <2>1. g = emit_cond_jmp(i)
      BY <1>1, <1>14, EncodedAs DEF g
    <2>2. Len(g) = 4 /\ g[1].fix = "none" /\ g[2].fix = "none" /\ g[3].fix = "none"
      BY <1>14, <2>1, JumpGroup DEF X, Ins
    <2>3. g[4].op \in CondOps
      BY <1>14, <2>1 DEF emit_cond_jmp, Ins, translate_cond_jump_opcode, Jumps, CondOps
    <2>4. j # 4
      BY <1>4, <1>9, <2>3
    <2>5. j \in 1 .. 3
      BY <1>2, <2>2, <2>4
    <2>6. x = g[j]
      <3>1. j = 1 \/ j = 2 \/ j = 3
        BY <2>5
      <3>2. g[j].fix = "none"
        BY <2>2, <3>1
      <3>3. x.fix = "none"
        BY <1>2, <3>2 DEF Like
      <3> QED
        BY <1>6, <3>3
    <2> QED
      BY <1>1, <1>2, <1>3, <1>14, <2>1, <2>5, <2>6, JumpWithin
  <1>15. ASSUME i.type \in {"JMP", "CALL"} PROVE Within(i, j + 1, seen, T, Q, G, N, O)
    <2>1. g = emit_jmp_or_call(i)
      BY <1>1, <1>15, EncodedAs DEF g
    <2>2. Len(g) = 2 /\ g[2].op \in {"CALL_reg", "JMP_reg"} /\ g[1].fix = "abs"
      BY <2>1 DEF emit_jmp_or_call, X, Ins, MovImm64
    <2>3. j # 2
      BY <1>4, <1>9, <2>2 DEF Goes
    <2>4. j = 1
      BY <1>2, <2>2, <2>3
    <2>5. x.fix = "abs" /\ Like(x, emit_jmp_or_call(i)[1])
      BY <1>2, <2>1, <2>2, <2>4 DEF Like
    <2>6. Within(i, 2, seen, T, Q, G, N, O)
      BY <1>1, <1>2, <1>3, <1>11, <1>15, <2>4, <2>5, GoWithin
    <2> QED
      BY <2>4, <2>6
  <1>16. i.type \in {"INP", "OUT", "SQRT", "HALT"} => g = emit_lib_func(i) /\ x = g[j]
    BY <1>1, <1>5, <1>6, EncodedAs DEF g, LibFuncs, Jumps
  <1>17. ASSUME i.type = "INP" PROVE Within(i, j + 1, seen, T, Q, G, N, O)
    <2>1. /\ Len(g) = 5 /\ g[3].op = "CALL_reg" /\ Saves(g[2])
      BY <1>16, <1>17, LibGroup DEF X, Ins, Saves
    <2>2. j \in 1 .. 5 /\ j # 3
      BY <1>2, <1>4, <1>9, <2>1 DEF Goes
    <2>3. j \in {1, 2, 4, 5}
      BY <2>2
    <2>4. j = 2 => R[8] = Num(ram_addr)
      BY <1>8, <1>16, <1>17, <2>1
    <2> QED
      BY <1>1, <1>2, <1>3, <1>7, <1>16, <1>17, <2>3, <2>4, InpWithin
  <1>18. ASSUME i.type = "OUT" PROVE Within(i, j + 1, seen, T, Q, G, N, O)
    <2>1. /\ Len(g) = 5 /\ g[4].op = "CALL_reg" /\ Saves(g[3])
      BY <1>16, <1>18, LibGroup DEF X, Ins, Saves
    <2>2. j \in 1 .. 5 /\ j # 4
      BY <1>2, <1>4, <1>9, <2>1 DEF Goes
    <2>3. j \in {1, 2, 3, 5}
      BY <2>2
    <2>4. j = 3 => R[8] = Num(ram_addr)
      BY <1>8, <1>16, <1>18, <2>1
    <2> QED
      BY <1>1, <1>2, <1>3, <1>7, <1>16, <1>18, <2>3, <2>4, OutWithin
  <1>19. ASSUME i.type = "SQRT" PROVE Within(i, j + 1, seen, T, Q, G, N, O)
    <2>1. /\ Len(g) = 6 /\ g[4].op = "CALL_reg" /\ Saves(g[3])
      BY <1>16, <1>19, LibGroup DEF X, Ins, Saves
    <2>2. j \in 1 .. 6 /\ j # 4
      BY <1>2, <1>4, <1>9, <2>1 DEF Goes
    <2>3. j \in {1, 2, 3, 5, 6}
      BY <2>2
    <2>4. j = 3 => R[8] = Num(ram_addr)
      BY <1>8, <1>16, <1>19, <2>1
    <2> QED
      BY <1>1, <1>2, <1>3, <1>7, <1>16, <1>19, <2>3, <2>4, SqrtWithin
  <1>20. ASSUME i.type = "HALT" PROVE Within(i, j + 1, seen, T, Q, G, N, O)
    <2>1. /\ Len(g) = 4 /\ g[3].op = "CALL_reg"
      BY <1>16, <1>20, LibGroup DEF X, Ins
    <2>2. j \in 1 .. 4 /\ j # 3
      BY <1>2, <1>4, <1>9, <2>1 DEF Goes
    <2>3. j = 1 \/ j \in 2 .. 3
      BY <1>2, <1>20 DEF Middle, Within
    <2>4. j + 1 \in 2 .. 3
      BY <2>2, <2>3
    <2> QED
      BY <1>20, <2>4 DEF Within, Jumps
  <1>21. ASSUME i.type = "RET" PROVE Within(i, j + 1, seen, T, Q, G, N, O)
    <2>1. g = << X("RET", "none", {}) >>
      BY <1>1, <1>21, EncodedAs DEF g, emit_ret
    <2>2. j = 1 /\ g[1].op = "RET"
      BY <1>2, <2>1 DEF X, Ins
    <2> QED
      BY <1>4, <1>9, <2>2
  <1>22. ASSUME i.type \in Unsupported PROVE Within(i, j + 1, seen, T, Q, G, N, O)
    <2>1. g = << >>
      BY <1>1, <1>22, EncodedAs DEF g
    <2> QED
      BY <1>2, <2>1
  <1>23. Within(i, j + 1, seen, T, Q, G, N, O)
    BY <1>1, <1>10, <1>12, <1>13, <1>14, <1>15, <1>17, <1>18, <1>19, <1>20, <1>21, <1>22, TypeCases
  <1> QED
    BY <1>23 DEF i, j, T, Q, G, N, O

LEMMA FineKept ==
    ASSUME Settled, Linked, NEW p, AtGroup(p), NEW r, NEW s, NEW m, Fine(p, r, s, m)
    PROVE  Kept(r, s, m)
  <1>1. DOMAIN text = 1 .. Len(text)
    BY DEF Settled, TypeInv, TypeOK
  <1>2. p = CodeEnd \/ \E d \in 1 .. Len(text) : p = Place(d)
    BY <1>1 DEF AtGroup, GroupsAt, Place
  <1>3. p \notin Library
    BY <1>2, LibraryApart
  <1> QED
    BY <1>3 DEF Fine

\* The last instruction of a group that goes on to the next one.
LEMMA ClosesGroup ==
    ASSUME NEW d, Amid(d), state' = "running", Closes(d), ir[text[d].cur].type \notin {"PUSH", "POP"},
           text[d].x.op \in Plainly, rip' = base_addr + End(text[d]), ram' = ram,
           Fine(rip', regs', stack', ram'),
           Within(ir[text[d].cur], text[d].k + 1, seen, Img(stack'), Img(regs'), Img(flags'),
                  Read(typed'), Written(printed'))
    PROVE  Followed
  <1> DEFINE i == ir[text[d].cur]
             j == text[d].k
             g == encode_one_ir_instruction(i)
             x == text[d].x
             T == Img(stack')
             Q == Img(regs')
             G == Img(flags')
             N == Read(typed')
             O == Written(printed')
  <1>1. /\ AtIr(i) /\ i \in Instr /\ Settled /\ Linked /\ d \in 1 .. Len(text)
        /\ seen.pc + 1 = text[d].cur /\ seen.ram = Img(ram)
    BY AmidAtIr
  <1>2. AtGroup(rip') /\ IndexAt(rip') = seen.pc + 1
    BY <1>1, CloseIndex
  <1>3. /\ Tracks(rip', seen', regs', stack', ram', flags', typed', printed')
        /\ Becomes(seen.pc + 1, seen.ram, T, Q, N, O)
    <2>1. Kept(regs', stack', ram')
      BY <1>1, <1>2, FineKept
    <2> QED
      BY <1>1, <1>2, <2>1, LeavesGroup
  <1>4. Like(x, g[j]) /\ j = Len(g) /\ x.op \in Plainly
    BY AmidGroup
  <1>5. Within(i, j + 1, seen, T, Q, G, N, O) /\ i.type \notin {"PUSH", "POP"}
    OBVIOUS
  <1>6. g[j].op \in Plainly
    BY <1>4 DEF Like
  <1> HIDE DEF i, j, g, x, T, Q, G, N, O
  <1>7. ASSUME i.type \in {"ADD", "SUB"} PROVE Ir!MachineNext
    <2>1. Len(g) = 2
      BY <1>1, <1>7, EncodedAs DEF g, emit_add_or_sub
    <2>2. j + 1 = IF i.type \in {"ADD", "SUB"} THEN 3 ELSE 8
      BY <1>4, <1>7, <2>1
    <2> QED
      BY <1>1, <1>3, <1>5, <1>7, <2>2, ArithmeticStep DEF Ir!MachineNext
  <1>8. ASSUME i.type \in {"MUL", "DIV"} PROVE Ir!MachineNext
    <2>1. Len(g) = 7
      BY <1>1, <1>8, EncodedAs, MulDivGroup DEF g
    <2>2. j + 1 = IF i.type \in {"ADD", "SUB"} THEN 3 ELSE 8
      BY <1>4, <1>8, <2>1
    <2> QED
      BY <1>1, <1>3, <1>5, <1>8, <2>2, ArithmeticStep DEF Ir!MachineNext
  <1>9. i.type \in LibFuncs => g = emit_lib_func(i)
    BY <1>1, EncodedAs DEF g
  <1>10. ASSUME i.type = "INP" PROVE Ir!MachineNext
    <2>1. Len(g) = 5
      BY <1>9, <1>10, LibGroup DEF LibFuncs
    <2>2. j + 1 = 6
      BY <1>4, <2>1
    <2> QED
      BY <1>1, <1>3, <1>5, <1>10, <2>2, InpStep DEF Ir!MachineNext
  <1>11. ASSUME i.type = "OUT" PROVE Ir!MachineNext
    <2>1. Len(g) = 5
      BY <1>9, <1>11, LibGroup DEF LibFuncs
    <2>2. j + 1 = 6
      BY <1>4, <2>1
    <2> QED
      BY <1>1, <1>3, <1>5, <1>11, <2>2, OutStep DEF Ir!MachineNext
  <1>12. ASSUME i.type = "SQRT" PROVE Ir!MachineNext
    <2>1. Len(g) = 6
      BY <1>9, <1>12, LibGroup DEF LibFuncs
    <2>2. j + 1 = 7
      BY <1>4, <2>1
    <2> QED
      BY <1>1, <1>3, <1>5, <1>12, <2>2, SqrtStep DEF Ir!MachineNext
  <1>13. i.type # "HALT"
    <2> SUFFICES ASSUME i.type = "HALT" PROVE FALSE
      OBVIOUS
    <2>1. Len(g) = 4
      BY <1>9, LibGroup DEF LibFuncs
    <2>2. j + 1 \in 2 .. 3
      BY <1>5 DEF Within
    <2>3. j = 4
      BY <1>4, <2>1
    <2> QED
      BY <2>2, <2>3
  <1>14. i.type \notin {"JMP", "CALL"}
    <2>1. i.type \in {"JMP", "CALL"} => Len(g) = 2 /\ g[2].op \in {"CALL_reg", "JMP_reg"}
      BY <1>1, EncodedAs DEF g, emit_jmp_or_call, X, Ins
    <2> QED
      BY <1>4, <1>6, <2>1 DEF Plainly, Stacked
  <1>15. i.type \notin Jumps
    <2>1. i.type \in Jumps => Len(g) = 4 /\ g[4].op \in CondOps
      BY <1>1, EncodedAs DEF g, emit_cond_jmp, Ins, translate_cond_jump_opcode, Jumps, CondOps
    <2> QED
      BY <1>4, <1>6, <2>1 DEF Plainly, Stacked, CondOps
  <1>16. i.type # "RET"
    BY <1>5 DEF Within
  <1>17. i.type \notin Unsupported
    <2>1. j \in 1 .. Len(g)
      BY AmidGroup DEF i, j, g
    <2> QED
      BY <1>1, <2>1, EncodedAs DEF g
  <1>18. Ir!MachineNext
    BY <1>1, <1>5, <1>7, <1>8, <1>10, <1>11, <1>12, <1>13, <1>14, <1>15, <1>16, <1>17, TypeCases
  <1> QED
    BY <1>3, <1>18 DEF Followed

\* The instructions without a part in a transfer, but for PUSH and POP.
LEMMA PlainStep ==
    ASSUME NEW d, Amid(d), ir[text[d].cur].type \notin {"PUSH", "POP"},
           Acts(text[d].x, Img(stack), Img(regs), Img(stack'), Img(regs'), Img(flags')),
           rip' = base_addr + End(text[d]), ram' = ram, UNCHANGED << typed, printed, state >>,
           Fine(rip', regs', stack', ram')
    PROVE  Followed
  <1>1. Within(ir[text[d].cur], text[d].k + 1, seen, Img(stack'), Img(regs'), Img(flags'),
               Read(typed'), Written(printed'))
    BY WithinNext
  <1>2. state' = "running"
    BY DEF Amid
  <1>3. text[d].x.op \in Plainly
    BY DEF Acts
  <1> QED
    BY <1>1, <1>2, <1>3, StaysInGroup, ClosesGroup
-----------------------------------------------------------------------------
(* PUSH and POP, whose groups are one instruction.                         *)

LEMMA RegNames ==
    ASSUME NEW n \in 0 .. 3
    PROVE  RegName(n) \in {"RAX", "RCX", "RDX", "RBX"} /\ REGS[RegName(n)] = n
  <1>1. n = 0 \/ n = 1 \/ n = 2 \/ n = 3
    OBVIOUS
  <1> QED
    BY <1>1, RegNumbers DEF RegName

\* The instruction that a PUSH or a POP with operands is translated to.
LEMMA PushPopGroup ==
    ASSUME NEW d, Amid(d), Exact, ir[text[d].cur].type \in {"PUSH", "POP"}
    PROVE  LET i == ir[text[d].cur]
               x == text[d].x
           IN  /\ Closes(d) /\ Fresh(seen, Img(stack), Img(regs), Read(typed), Written(printed))
               /\ x.op = "none" <=> ~i.need_mem_arg /\ ~i.need_reg_arg /\ ~i.need_imm_arg
               /\ i.need_mem_arg =>
                     /\ x.op = (IF i.type = "PUSH" THEN "PUSH_mem" ELSE "POP_mem")
                     /\ To(x) = 8 /\ From(x) = (IF i.need_reg_arg THEN i.reg_num ELSE NoReg)
                     /\ x.imm = i.imm_arg * 8
               /\ ~i.need_mem_arg /\ i.need_reg_arg =>
                     /\ x.op = (IF i.type = "PUSH" THEN "PUSH_reg" ELSE "POP_reg")
                     /\ To(x) = i.reg_num
               /\ ~i.need_mem_arg /\ ~i.need_reg_arg /\ i.need_imm_arg =>
                     /\ i.type = "PUSH" /\ x.op = "PUSH_imm"
                     /\ x.imm = i.imm_arg * FIXED_PRECISION_MULTIPLIER
  <1> DEFINE i == ir[text[d].cur]
             x == text[d].x
             g == encode_one_ir_instruction(i)
  <1>1. /\ i \in Instr /\ Settled /\ Linked /\ text[d].cur \in 1 .. Len(ir) /\ Member(i, x)
    BY AmidAtIr
  <1>2. g = emit_push_or_pop(i)
    BY <1>1, EncodedAs
  <1>3. /\ text[d].k \in 1 .. Len(g) /\ (Closes(d) <=> text[d].k = Len(g)) /\ Like(x, g[text[d].k])
        /\ Middle(i, text[d].k, seen, Img(stack), Img(regs), Img(flags), Read(typed), Written(printed))
    BY AmidGroup
  <1>4. i.need_imm_arg \in BOOLEAN /\ i.need_reg_arg \in BOOLEAN /\ i.need_mem_arg \in BOOLEAN
        /\ i.reg_num \in 0 .. 3 /\ i.imm_arg \in Int
    BY <1>1 DEF Instr
  <1>5. Fits(i)
    <2>1. ir \in Programs
      BY <1>1, LaidTypes
    <2> QED
      BY <1>1, <2>1 DEF Exact
  <1>6. Len(g) = 1 \/ Len(g) = 0
    BY <1>2, <1>4 DEF emit_push_or_pop
  <1>7. Len(g) = 1 /\ text[d].k = 1 /\ Closes(d) /\ Like(x, g[1])
    <2> HIDE DEF g
    <2>1. Len(g) = 1
      BY <1>3, <1>6
    <2>2. text[d].k = 1
      BY <1>3, <2>1
    <2> QED
      BY <1>3, <2>1, <2>2
  <1>8. Fresh(seen, Img(stack), Img(regs), Read(typed), Written(printed))
    BY <1>3, <1>7 DEF Middle
  <1>9. x = g[1]
    <2>1. x.fix = "none"
      BY <1>1 DEF Member, IsTransfer, Jumps
    <2> QED
      BY <1>7, <2>1 DEF Like
  <1>10. RegName(i.reg_num) \in {"RAX", "RCX", "RDX", "RBX"} /\ REGS[RegName(i.reg_num)] = i.reg_num
    BY <1>4, RegNames
  <1>11. ASSUME i.need_mem_arg
         PROVE  /\ x.op = (IF i.type = "PUSH" THEN "PUSH_mem" ELSE "POP_mem")
                /\ To(x) = 8 /\ From(x) = (IF i.need_reg_arg THEN i.reg_num ELSE NoReg)
                /\ x.imm = i.imm_arg * 8
    <2>1. x = MemOperand(IF i.type = "PUSH" THEN "PUSH_mem" ELSE "POP_mem", i)
      BY <1>2, <1>9, <1>11 DEF emit_push_or_pop
    <2>2. /\ x.op = (IF i.type = "PUSH" THEN "PUSH_mem" ELSE "POP_mem")
          /\ x.reg = (IF i.need_reg_arg THEN RegName(i.reg_num) ELSE "none")
          /\ x.imm = (IF i.need_imm_arg THEN Imm32(i.imm_arg * 8) ELSE 0)
      BY <2>1 DEF MemOperand, Ins
    <2>3. x.op \in MemOps /\ x.op # "CMP_reg_reg"
      BY <2>2 DEF MemOps
    <2>4. To(x) = 8 /\ From(x) = (IF x.reg # "none" THEN REGS[x.reg] ELSE NoReg)
      BY <2>3, RegNumbers DEF To, From
    <2>5. From(x) = (IF i.need_reg_arg THEN i.reg_num ELSE NoReg)
      BY <1>10, <2>2, <2>4
    <2>6. x.imm = i.imm_arg * 8
      BY <1>4, <1>5, <1>11, <2>2 DEF Fits
    <2> QED
      BY <2>2, <2>4, <2>5, <2>6
  <1>12. ASSUME ~i.need_mem_arg, i.need_reg_arg
         PROVE  x.op = (IF i.type = "PUSH" THEN "PUSH_reg" ELSE "POP_reg") /\ To(x) = i.reg_num
    <2>1. x = X(IF i.type = "PUSH" THEN "PUSH_reg" ELSE "POP_reg", RegName(i.reg_num), {})
      BY <1>2, <1>9, <1>12 DEF emit_push_or_pop
    <2>2. x.op = (IF i.type = "PUSH" THEN "PUSH_reg" ELSE "POP_reg") /\ x.reg = RegName(i.reg_num)
      BY <2>1 DEF X, Ins
    <2>3. To(x) = REGS[x.reg]
      BY <1>1, <2>2, Registers DEF Member
    <2> QED
      BY <1>10, <2>2, <2>3
  <1>13. ASSUME ~i.need_mem_arg, ~i.need_reg_arg, i.need_imm_arg
         PROVE  /\ i.type = "PUSH" /\ x.op = "PUSH_imm"
                /\ x.imm = i.imm_arg * FIXED_PRECISION_MULTIPLIER
    <2>1. i.type = "PUSH"
      BY <1>2, <1>7, <1>13 DEF emit_push_or_pop
    <2>2. x = Ins("PUSH_imm", "none", {"imm32"}, Imm32(i.imm_arg * FIXED_PRECISION_MULTIPLIER), "none")
      BY <1>2, <1>9, <1>13, <2>1 DEF emit_push_or_pop
    <2> QED
      BY <1>5, <1>13, <2>1, <2>2 DEF Fits, Ins
  <1>14. ASSUME ~i.need_mem_arg, ~i.need_reg_arg, ~i.need_imm_arg PROVE x.op = "none"
    BY <1>2, <1>9, <1>14 DEF emit_push_or_pop, X, Ins
  <1> QED
    BY <1>7, <1>8, <1>11, <1>12, <1>13, <1>14

\* r8 points to ram in front of all instructions but the one that restores it.
LEMMA RamPointer ==
    ASSUME NEW d, Amid(d), ~Backs(text[d].x)
    PROVE  regs[8] = Num(ram_addr) /\ ram_addr \in Nat
  BY LaidTypes, RegNumbers DEF Amid, Here, Ready

\* A word of memory, as the processor and as the IR find it.
LEMMA OperandInRam ==
    ASSUME NEW d, Amid(d), Exact, ir[text[d].cur].type \in {"PUSH", "POP"}, ir[text[d].cur].need_mem_arg
    PROVE  LET i == ir[text[d].cur]
           IN  /\ InRam(Fetched) <=> Ir!Addressed(i)
               /\ InRam(Fetched) => Offset(Fetched) = Ir!Address(i) /\ Offset(Fetched) \in 0 .. RAMSIZE - QWORD
  <1> DEFINE i == ir[text[d].cur]
             x == text[d].x
             w == regs[i.reg_num]
             v == seen.regs[i.reg_num]
  <1>1. i \in Instr /\ Settled /\ Linked /\ d \in 1 .. Len(text)
    BY AmidAtIr
  <1>2. i.need_reg_arg \in BOOLEAN /\ i.reg_num \in 0 .. 3 /\ i.imm_arg \in Int
    BY <1>1 DEF Instr
  <1>3. /\ x.op \in {"PUSH_mem", "POP_mem"} /\ To(x) = 8 /\ x.imm = i.imm_arg * 8
        /\ From(x) = (IF i.need_reg_arg THEN i.reg_num ELSE NoReg)
        /\ Fresh(seen, Img(stack), Img(regs), Read(typed), Written(printed))
    BY PushPopGroup
  <1>4. Fetched.to = 8 /\ Fetched.imm = i.imm_arg * 8
        /\ Fetched.from = (IF i.need_reg_arg THEN i.reg_num ELSE NoReg) /\ SafeRegs(regs)
    BY <1>3, HereSafe DEF Amid
  <1>5. regs[8] = Num(ram_addr) /\ ram_addr \in Nat
    BY <1>3, RamPointer DEF Backs
  <1>6. i.reg_num # NoReg /\ i.reg_num \in REG_NUMBERS
    BY <1>2 DEF NoReg, REG_NUMBERS
  <1>7. v = AsIr(w) /\ Safe(w)
    <2>1. \A n \in REG_NUMBERS : Img(regs)[n] = AsIr(regs[n]) /\ Safe(regs[n])
      BY <1>1, <1>4, ImgRegs
    <2>2. \A n \in 0 .. 3 : Img(regs)[n] = seen.regs[n]
      <3>1. \A n \in 0 .. 3 : n = 0 \/ n = 1 \/ n = 2 \/ n = 3
        OBVIOUS
      <3> QED
        BY <1>3, <3>1 DEF Fresh, Low
    <2> QED
      BY <1>2, <1>6, <2>1, <2>2
  <1>8. v.kind = w.kind /\ (w.kind = "num" => v = w) /\ w.v \in Int
    BY <1>1, <1>7, AsIrWord DEF Safe, Words
  <1>9. regs[8].kind = "num" /\ regs[8].v = ram_addr
    BY <1>5 DEF Num
  <1> HIDE DEF i, w, v
  <1>10. CASE i.need_reg_arg
    <2>1. Offset(Fetched) = w.v + i.imm_arg * 8
      BY <1>2, <1>4, <1>5, <1>6, <1>8, <1>9, <1>10 DEF Offset, w
    <2>2. InRam(Fetched) <=> w.kind = "num" /\ Offset(Fetched) \in 0 .. RAMSIZE - QWORD
      BY <1>4, <1>6, <1>9, <1>10 DEF InRam, w
    <2>3. Ir!Address(i) = 8 * i.imm_arg + v.v
      BY <1>10, SameWords DEF Ir!Address, v, QWORD
    <2>4. Ir!Addressed(i) <=> v.kind = "num" /\ Ir!Address(i) \in 0 .. RAMSIZE - QWORD
      BY <1>10, SameWords DEF Ir!Addressed, v
    <2>5. w.kind = "num" => Offset(Fetched) = Ir!Address(i)
      BY <1>2, <1>8, <2>1, <2>3
    <2> QED
      BY <1>8, <2>2, <2>4, <2>5 DEF i
  <1>11. CASE ~i.need_reg_arg
    <2>1. Offset(Fetched) = i.imm_arg * 8
      BY <1>2, <1>4, <1>5, <1>9, <1>11 DEF Offset
    <2>2. InRam(Fetched) <=> Offset(Fetched) \in 0 .. RAMSIZE - QWORD
      BY <1>4, <1>9, <1>11 DEF InRam
    <2>3. Ir!Address(i) = 8 * i.imm_arg
      BY <1>2, <1>11, SameWords DEF Ir!Address, QWORD
    <2>4. Ir!Addressed(i) <=> Ir!Address(i) \in 0 .. RAMSIZE - QWORD
      BY <1>11, SameWords DEF Ir!Addressed
    <2>5. Offset(Fetched) = Ir!Address(i)
      BY <1>2, <2>1, <2>3
    <2> QED
      BY <2>2, <2>4, <2>5 DEF i
  <1> QED
    BY <1>10, <1>11

\* The state of the IR behind an instruction that is a group of its own.
LEMMA SingleNext ==
    ASSUME NEW d, Amid(d), state' = "running", Closes(d), rip' = base_addr + End(text[d]),
           UNCHANGED << typed, printed >>, Fine(rip', regs', stack', ram')
    PROVE  /\ Tracks(rip', seen', regs', stack', ram', flags', typed', printed')
           /\ Becomes(seen.pc + 1, Img(ram'), Img(stack'), Img(regs'), Read(typed), Written(printed))
  <1>1. Settled /\ Linked /\ d \in 1 .. Len(text) /\ seen.pc + 1 = text[d].cur
    BY AmidAtIr
  <1>2. AtGroup(rip') /\ IndexAt(rip') = seen.pc + 1
    BY <1>1, CloseIndex
  <1>3. Kept(regs', stack', ram')
    BY <1>1, <1>2, FineKept
  <1> QED
    BY <1>2, <1>3, LeavesGroup

LEMMA PushFollowed ==
    ASSUME NEW d, Amid(d), Exact, ir[text[d].cur].type \in {"PUSH", "POP"}, Push(Fetched),
           Fine(rip', regs', stack', ram')
    PROVE  Followed
  <1> DEFINE i == ir[text[d].cur]
             x == text[d].x
             S == Img(stack)
             R == Img(regs)
             N == Read(typed)
             O == Written(printed)
             w == IF i.need_mem_arg THEN Load(seen.ram, Ir!Address(i))
                  ELSE IF i.need_reg_arg THEN seen.regs[i.reg_num]
                  ELSE Num(i.imm_arg * FIXED_PRECISION_MULTIPLIER)
  <1>1. i \in Instr /\ Settled /\ Linked /\ AtIr(i) /\ seen.ram = Img(ram)
    BY AmidAtIr
  <1>2. Here(d) /\ state = "running" /\ Kept(regs, stack, ram)
    BY DEF Amid, Here
  <1>3. /\ Fetched.op = x.op /\ Fetched.next = base_addr + End(text[d]) /\ SafeRegs(regs) /\ SafeStack(stack)
        /\ x.imm \in Int
    BY <1>2, HereSafe
  <1>4. /\ Fetched.op \in {"PUSH_imm", "PUSH_reg", "PUSH_mem"} /\ ~Faulty(Fetched) /\ rip' = Fetched.next
        /\ regs' = regs /\ ram' = ram /\ typed' = typed /\ printed' = printed /\ state' = state
    BY DEF Push, Step
  <1>5. Closes(d) /\ Fresh(seen, S, R, N, O)
    BY PushPopGroup
  <1>6. i.need_imm_arg \in BOOLEAN /\ i.need_reg_arg \in BOOLEAN /\ i.need_mem_arg \in BOOLEAN
        /\ i.reg_num \in 0 .. 3 /\ i.imm_arg \in Int
    BY <1>1 DEF Instr
  <1>7. i.type = "PUSH"
    BY <1>3, <1>4, <1>6, PushPopGroup
  <1>8. /\ Tracks(rip', seen', regs', stack', ram', flags', typed', printed')
        /\ Becomes(seen.pc + 1, seen.ram, Img(stack'), R, N, O)
    BY <1>1, <1>2, <1>3, <1>4, <1>5, SingleNext
  <1>9. ~Ir!Faults
    <2>1. i.need_mem_arg => Ir!Addressed(i)
      <3>1. i.need_mem_arg => x.op = "PUSH_mem"
        BY <1>7, PushPopGroup
      <3>2. x.op = "PUSH_mem" => InRam(Fetched)
        BY <1>3, <1>4 DEF Faulty, MemOps
      <3> QED
        BY <3>1, <3>2, OperandInRam
    <2>2. i.need_mem_arg \/ i.need_reg_arg \/ i.need_imm_arg
      BY <1>3, <1>4, <1>6, PushPopGroup
    <2> QED
      BY <1>1, <1>7, <2>1, <2>2, PushPopFaults
  <1>10. Img(stack') = << w >> \o S
    <2>1. CASE i.need_mem_arg
      <3>1. x.op = "PUSH_mem" /\ InRam(Fetched)
        BY <1>3, <1>4, <1>7, <2>1, PushPopGroup DEF Faulty, MemOps
      <3>2. Offset(Fetched) = Ir!Address(i)
        BY <2>1, <3>1, OperandInRam
      <3> DEFINE u == Load(ram, Offset(Fetched))
      <3>3. Safe(u)
        BY <1>2, KeptLoad
      <3>4. stack' = << u >> \o stack
        BY <1>3, <3>1 DEF Push
      <3>5. AsIr(u) = Load(seen.ram, Ir!Address(i))
        BY <1>1, <3>2, ImgLoad
      <3> HIDE DEF u
      <3>6. Img(stack') = << AsIr(u) >> \o S
        BY <1>1, <1>3, <3>3, <3>4, ImgPush
      <3> QED
        BY <2>1, <3>5, <3>6
    <2>2. CASE ~i.need_mem_arg
      <3>1. x.op \in {"PUSH_reg", "PUSH_imm"}
        BY <1>3, <1>4, <1>6, <1>7, <2>2, PushPopGroup
      <3>2. Acts(x, S, R, Img(stack'), Img(regs'), Img(flags'))
        BY <1>2, <3>1, PushActs
      <3>3. CASE i.need_reg_arg
        <4>1. x.op = "PUSH_reg" /\ To(x) = i.reg_num
          BY <1>7, <2>2, <3>3, PushPopGroup
        <4>2. Img(stack') = << R[i.reg_num] >> \o S
          BY <3>2, <4>1 DEF Acts
        <4>3. i.reg_num = 0 \/ i.reg_num = 1 \/ i.reg_num = 2 \/ i.reg_num = 3
          BY <1>6
        <4>4. R[i.reg_num] = seen.regs[i.reg_num]
          BY <1>5, <4>3 DEF Fresh, Low
        <4> QED
          BY <2>2, <3>3, <4>2, <4>4
      <3>4. CASE ~i.need_reg_arg
        <4>1. x.op = "PUSH_imm" /\ x.imm = i.imm_arg * FIXED_PRECISION_MULTIPLIER
          BY <1>6, <2>2, <3>1, <3>4, PushPopGroup
        <4>2. Img(stack') = << Num(x.imm) >> \o S
          BY <3>2, <4>1 DEF Acts
        <4> QED
          BY <2>2, <3>4, <4>1, <4>2
      <3> QED
        BY <3>3, <3>4
    <2> QED
      BY <2>1, <2>2
  <1> HIDE DEF S, R, N, O, w
  <1>11. Becomes(seen.pc + 1, seen.ram, << w >> \o S, R, N, O)
    BY <1>8, <1>10
  <1>12. w = IF i.need_mem_arg THEN Load(seen.ram, Ir!Address(i))
             ELSE IF i.need_reg_arg THEN seen.regs[i.reg_num]
             ELSE Num(i.imm_arg * FIXED_PRECISION_MULTIPLIER)
    BY DEF w
  <1> HIDE DEF i
  <1>13. Ir!push_
    BY <1>1, <1>5, <1>7, <1>9, <1>11, <1>12, PushStep
  <1> QED
    BY <1>8, <1>13 DEF Followed, Ir!MachineNext

LEMMA PopRegFollowed ==
    ASSUME NEW d, Amid(d), Exact, ir[text[d].cur].type \in {"PUSH", "POP"}, PopReg(Fetched),
           Fine(rip', regs', stack', ram')
    PROVE  Followed
  <1> DEFINE i == ir[text[d].cur]
             x == text[d].x
             S == Img(stack)
             R == Img(regs)
             Q == Img(regs')
             N == Read(typed)
             O == Written(printed)
  <1>1. i \in Instr /\ Settled /\ Linked /\ AtIr(i) /\ seen.ram = Img(ram)
    BY AmidAtIr
  <1>2. Here(d) /\ state = "running"
    BY DEF Amid
  <1>3. /\ Fetched.op = x.op /\ Fetched.next = base_addr + End(text[d]) /\ SafeRegs(regs)
    BY <1>2, HereSafe
  <1>4. /\ Fetched.op = "POP_reg" /\ rip' = Fetched.next /\ ram' = ram /\ typed' = typed
        /\ printed' = printed /\ state' = state
    BY DEF PopReg, Step
  <1>5. Closes(d) /\ Fresh(seen, S, R, N, O)
    BY PushPopGroup
  <1>6. i.need_imm_arg \in BOOLEAN /\ i.need_reg_arg \in BOOLEAN /\ i.need_mem_arg \in BOOLEAN
        /\ i.reg_num \in 0 .. 3
    BY <1>1 DEF Instr
  <1>7. i.type = "POP" /\ ~i.need_mem_arg /\ i.need_reg_arg /\ To(x) = i.reg_num
    BY <1>3, <1>4, <1>6, PushPopGroup
  <1>8. /\ Tracks(rip', seen', regs', stack', ram', flags', typed', printed')
        /\ Becomes(seen.pc + 1, seen.ram, Img(stack'), Q, N, O)
    BY <1>1, <1>2, <1>3, <1>4, <1>5, SingleNext
  <1>9. Acts(x, S, R, Img(stack'), Q, Img(flags'))
    BY <1>2, PopActs
  <1>10. S # << >> /\ Img(stack') = Tail(S) /\ Q = [R EXCEPT ![i.reg_num] = Head(S)]
    BY <1>3, <1>4, <1>7, <1>9 DEF Acts
  <1>11. ~Ir!Faults
    <2>1. seen.stack # << >>
      BY <1>5, <1>10 DEF Fresh
    <2> QED
      BY <1>1, <1>7, <2>1, PushPopFaults
  <1>12. Four(Q) = [Four(R) EXCEPT ![i.reg_num] = Head(S)]
    <2>1. R \in [REG_NUMBERS -> Words] /\ 0 .. 3 \subseteq REG_NUMBERS
      BY <1>1, <1>3, ImgRegs DEF REG_NUMBERS
    <2> HIDE DEF R, Q, S, i
    <2> QED
      BY <1>6, <1>10, <2>1 DEF Four
  <1> HIDE DEF S, R, Q, N, O, i
  <1>13. Becomes(seen.pc + 1, seen.ram, Tail(S), Q, N, O)
    BY <1>8, <1>10
  <1>14. Ir!pop_
    BY <1>1, <1>5, <1>7, <1>11, <1>12, <1>13, PopStep
  <1> QED
    BY <1>8, <1>14 DEF Followed, Ir!MachineNext

LEMMA PopMemFollowed ==
    ASSUME NEW d, Amid(d), Exact, ir[text[d].cur].type \in {"PUSH", "POP"}, PopMem(Fetched),
           Fine(rip', regs', stack', ram')
    PROVE  Followed
  <1> DEFINE i == ir[text[d].cur]
             x == text[d].x
             S == Img(stack)
             R == Img(regs)
             N == Read(typed)
             O == Written(printed)
  <1>1. i \in Instr /\ Settled /\ Linked /\ AtIr(i) /\ seen.ram = Img(ram)
    BY AmidAtIr
  <1>2. Here(d) /\ state = "running"
    BY DEF Amid
  <1>3. /\ Fetched.op = x.op /\ Fetched.next = base_addr + End(text[d]) /\ SafeStack(stack)
    BY <1>2, HereSafe
  <1>4. /\ Fetched.op = "POP_mem" /\ rip' = Fetched.next /\ regs' = regs /\ typed' = typed
        /\ printed' = printed /\ state' = state /\ ~Faulty(Fetched) /\ stack' = Tail(stack)
        /\ ram' = Store(ram, Offset(Fetched), Head(stack))
    BY DEF PopMem, Step
  <1>5. Closes(d) /\ Fresh(seen, S, R, N, O)
    BY PushPopGroup
  <1>6. i.need_imm_arg \in BOOLEAN /\ i.need_reg_arg \in BOOLEAN /\ i.need_mem_arg \in BOOLEAN
    BY <1>1 DEF Instr
  <1>7. i.type = "POP" /\ i.need_mem_arg
    BY <1>3, <1>4, <1>6, PushPopGroup
  <1>8. /\ Tracks(rip', seen', regs', stack', ram', flags', typed', printed')
        /\ Becomes(seen.pc + 1, Img(ram'), Img(stack'), R, N, O)
    BY <1>1, <1>2, <1>3, <1>4, <1>5, SingleNext
  <1>9. stack # << >> /\ InRam(Fetched)
    BY <1>4 DEF Faulty, MemOps, Reads
  <1>10. Offset(Fetched) = Ir!Address(i) /\ Ir!Addressed(i)
    BY <1>7, <1>9, OperandInRam
  <1>11. Img(stack') = Tail(S) /\ Head(S) = AsIr(Head(stack)) /\ S # << >>
    BY <1>1, <1>3, <1>4, <1>9, ImgPop
  <1>12. ~Ir!Faults
    <2>1. seen.stack # << >>
      BY <1>5, <1>11 DEF Fresh
    <2> QED
      BY <1>1, <1>7, <1>10, <2>1, PushPopFaults
  <1>13. Img(ram') = Store(seen.ram, Ir!Address(i), Head(S))
    BY <1>1, <1>4, <1>10, <1>11, ImgStore
  <1> HIDE DEF S, R, N, O, i
  <1> DEFINE m == Store(seen.ram, Ir!Address(i), Head(S))
  <1>14. Becomes(seen.pc + 1, m, Tail(S), R, N, O)
    BY <1>8, <1>11, <1>13
  <1>15. Ir!pop_
    BY <1>1, <1>5, <1>7, <1>12, <1>14, PopStep
  <1> QED
    BY <1>8, <1>15 DEF Followed, Ir!MachineNext
-----------------------------------------------------------------------------
(* The transfers of control within the code.                               *)

\* A conditional jump is the last one of its group.
LEMMA CondGroup ==
    ASSUME NEW d, Amid(d), text[d].x.op \in CondOps
    PROVE  LET i == ir[text[d].cur]
           IN  /\ i.type \in Jumps /\ Closes(d) /\ text[d].x.fix = "rel"
               /\ text[d].x.op = translate_cond_jump_opcode(i)
               /\ Within(i, 4, seen, Img(stack), Img(regs), Img(flags), Read(typed), Written(printed))
  <1> DEFINE i == ir[text[d].cur]
             x == text[d].x
             g == encode_one_ir_instruction(i)
             j == text[d].k
  <1>1. i \in Instr /\ Member(i, x)
    BY AmidAtIr
  <1>2. x.fix = "rel" /\ IsTransfer(i) /\ i.type \notin LibFuncs /\ x.op # "MOV_reg_imm64" /\ ~Goes(x)
    BY <1>1 DEF Member, CondOps, Goes
  <1>3. /\ j \in 1 .. Len(g) /\ Len(g) \in Nat /\ Like(x, g[j]) /\ (Closes(d) <=> j = Len(g))
        /\ Middle(i, j, seen, Img(stack), Img(regs), Img(flags), Read(typed), Written(printed))
    BY AmidGroup
  <1>4. x.op = g[j].op /\ x.fix = g[j].fix
    BY <1>3 DEF Like
  <1> HIDE DEF g, j, i, x
  <1>5. i.type \notin {"JMP", "CALL"}
    <2> SUFFICES ASSUME i.type \in {"JMP", "CALL"} PROVE FALSE
      OBVIOUS
    <2>1. g = emit_jmp_or_call(i)
      BY <1>1, EncodedAs DEF g
    <2>2. Len(g) = 2 /\ g[1].op = "MOV_reg_imm64" /\ g[2].op \in {"CALL_reg", "JMP_reg"}
      BY <2>1 DEF emit_jmp_or_call, X, Ins, MovImm64
    <2>3. j = 1 \/ j = 2
      BY <1>3, <2>2
    <2> QED
      BY <1>2, <1>4, <2>2, <2>3 DEF Goes
  <1>6. i.type \in Jumps
    BY <1>2, <1>5 DEF IsTransfer
  <1>7. g = emit_cond_jmp(i)
    BY <1>1, <1>6, EncodedAs DEF g
  <1>8. Len(g) = 4 /\ g[1].fix = "none" /\ g[2].fix = "none" /\ g[3].fix = "none"
    BY <1>6, <1>7, JumpGroup DEF X, Ins
  <1>9. g[4].op = translate_cond_jump_opcode(i)
    BY <1>7 DEF emit_cond_jmp, Ins
  <1>10. j = 4
    <2>1. j = 1 \/ j = 2 \/ j = 3 \/ j = 4
      BY <1>3, <1>8
    <2> QED
      BY <1>2, <1>4, <1>8, <2>1
  <1>11. Within(i, 4, seen, Img(stack), Img(regs), Img(flags), Read(typed), Written(printed))
    BY <1>3, <1>10 DEF Middle
  <1> QED
    BY <1>2, <1>3, <1>4, <1>6, <1>8, <1>9, <1>10, <1>11 DEF i, x

\* The comparisons are those of the IR.
LEMMA SameComparison ==
    ASSUME NEW i, i.type \in Jumps, NEW a \in Int, NEW b \in Int
    PROVE  /\ Holds(translate_cond_jump_opcode(i), a, b) = Ir!Compares(i.type, a, b)
           /\ Holds(translate_cond_jump_opcode(i), a, b) \in BOOLEAN
  <1>1. CASE i.type = "JE"
    BY <1>1 DEF translate_cond_jump_opcode, Holds, Ir!Compares
  <1>2. CASE i.type = "JNE"
    BY <1>2 DEF translate_cond_jump_opcode, Holds, Ir!Compares
  <1>3. CASE i.type = "JA"
    BY <1>3 DEF translate_cond_jump_opcode, Holds, Ir!Compares
  <1>4. CASE i.type = "JB"
    BY <1>4 DEF translate_cond_jump_opcode, Holds, Ir!Compares
  <1>5. CASE i.type = "JAE"
    BY <1>5 DEF translate_cond_jump_opcode, Holds, Ir!Compares
  <1>6. CASE i.type = "JBE"
    BY <1>6 DEF translate_cond_jump_opcode, Holds, Ir!Compares
  <1> QED
    BY <1>1, <1>2, <1>3, <1>4, <1>5, <1>6 DEF Jumps

\* What has been compared is a number here if it is one there.
LEMMA ComparedWords ==
    ASSUME flags \in Words \X Words
    PROVE  /\ Img(flags)[1].kind = "num" <=> flags[1].kind = "num"
           /\ Img(flags)[2].kind = "num" <=> flags[2].kind = "num"
           /\ flags[1].kind = "num" => Img(flags)[1] = flags[1]
           /\ flags[2].kind = "num" => Img(flags)[2] = flags[2]
           /\ flags[1].v \in Int /\ flags[2].v \in Int
  <1>1. PICK a \in Words, b \in Words : flags = << a, b >>
    OBVIOUS
  <1>2. Img(flags)[1] = AsIr(a) /\ Img(flags)[2] = AsIr(b)
    BY <1>1 DEF Img
  <1>3. \A w \in Words : /\ AsIr(w).kind = "num" <=> w.kind = "num"
                         /\ w.kind = "num" => AsIr(w) = w
    BY WordKinds DEF AsIr
  <1> QED
    BY <1>1, <1>2, <1>3 DEF Words

LEMMA JccFollowed ==
    ASSUME NEW d, Amid(d), Jcc(Fetched), flags \in Words \X Words, Fine(rip', regs', stack', ram')
    PROVE  Followed
  <1> DEFINE i == ir[text[d].cur]
             x == text[d].x
             S == Img(stack)
             R == Img(regs)
             F == Img(flags)
             N == Read(typed)
             O == Written(printed)
  <1>1. /\ i \in Instr /\ Settled /\ Linked /\ AtIr(i) /\ seen.ram = Img(ram)
        /\ d \in 1 .. Len(text) /\ seen.pc + 1 = text[d].cur
    BY AmidAtIr
  <1>2. Here(d) /\ state = "running"
    BY DEF Amid
  <1>3. /\ Fetched.op = x.op /\ Fetched.next = base_addr + End(text[d]) /\ Fetched.imm = x.imm
    BY <1>2, HereSafe
  <1>4. x.op \in CondOps /\ regs' = regs /\ stack' = stack /\ ram' = ram /\ flags' = flags
        /\ typed' = typed /\ printed' = printed /\ state' = state
    BY <1>3 DEF Jcc
  <1>5. /\ i.type \in Jumps /\ Closes(d) /\ x.fix = "rel" /\ x.op = translate_cond_jump_opcode(i)
        /\ Within(i, 4, seen, S, R, F, N, O)
    BY <1>4, CondGroup
  <1>6. PICK taken : /\ taken \in (IF Numbers2(flags[1], flags[2])
                                   THEN {Holds(x.op, flags[1].v, flags[2].v)} ELSE BOOLEAN)
                     /\ rip' = IF taken THEN base_addr + End(text[d]) + x.imm ELSE base_addr + End(text[d])
    BY <1>3 DEF Jcc
  <1>7. taken \in BOOLEAN
    BY <1>5, <1>6, SameComparison, ComparedWords
  <1>8. F[1].kind = "num" /\ F[2].kind = "num" => taken = Ir!Compares(i.type, F[1].v, F[2].v)
    <2> SUFFICES ASSUME F[1].kind = "num", F[2].kind = "num"
                 PROVE  taken = Ir!Compares(i.type, F[1].v, F[2].v)
      OBVIOUS
    <2>1. flags[1].kind = "num" /\ flags[2].kind = "num" /\ F[1] = flags[1] /\ F[2] = flags[2]
          /\ flags[1].v \in Int /\ flags[2].v \in Int
      BY ComparedWords
    <2>2. taken = Holds(x.op, flags[1].v, flags[2].v)
      BY <1>6, <2>1 DEF Numbers2
    <2> QED
      BY <1>5, <2>1, <2>2, SameComparison
  <1>9. Landing(text[d]) = base_addr + End(text[d]) + x.imm
    <2>1. text[d].at \in Nat /\ WrittenBytes(x) \in Nat /\ x.imm \in Int /\ base_addr \in Nat
      BY <1>1, LaidEntry, LaidTypes
    <2> QED
      BY <1>5, <2>1 DEF Landing, End
  <1>10. AtGroup(rip') /\ IndexAt(rip') = IF taken THEN i.imm_arg ELSE seen.pc + 1
    <2>1. CASE taken
      BY <1>1, <1>5, <1>6, <1>9, <2>1, LaidLanding, LandingIndex
    <2>2. CASE ~taken
      BY <1>1, <1>5, <1>6, <2>2, CloseIndex
    <2> QED
      BY <2>1, <2>2
  <1>11. Kept(regs', stack', ram')
    BY <1>1, <1>10, FineKept
  <1>12. /\ Tracks(rip', seen', regs', stack', ram', flags', typed', printed')
         /\ Becomes(IF taken THEN i.imm_arg ELSE seen.pc + 1, seen.ram, S, R, N, O)
    BY <1>1, <1>2, <1>4, <1>10, <1>11, LeavesGroup
  <1> HIDE DEF i, S, R, F, N, O
  <1>13. Ir!cond_jmp
    BY <1>1, <1>5, <1>7, <1>8, <1>12, JumpStep
  <1> QED
    BY <1>12, <1>13 DEF Followed, Ir!MachineNext

\* RET is a group of its own.
LEMMA RetGroup ==
    ASSUME NEW d, Amid(d), text[d].x.op = "RET"
    PROVE  /\ ir[text[d].cur].type = "RET"
           /\ Fresh(seen, Img(stack), Img(regs), Read(typed), Written(printed))
  <1> DEFINE i == ir[text[d].cur]
             x == text[d].x
             g == encode_one_ir_instruction(i)
             j == text[d].k
  <1>1. i \in Instr /\ Member(i, x)
    BY AmidAtIr
  <1>2. /\ j \in 1 .. Len(g) /\ Len(g) \in Nat /\ Like(x, g[j]) /\ x.op = "RET"
        /\ Middle(i, j, seen, Img(stack), Img(regs), Img(flags), Read(typed), Written(printed))
    BY AmidGroup
  <1>3. g[j].op = "RET"
    BY <1>2 DEF Like
  <1>4. i.type = "RET"
    <2> HIDE DEF g, j, x, i
    <2>1. ASSUME i.type \in {"PUSH", "POP"} PROVE FALSE
      <3>1. g = emit_push_or_pop(i)
        BY <1>1, <2>1, EncodedAs DEF g
      <3>2. i.need_imm_arg \in BOOLEAN /\ i.need_reg_arg \in BOOLEAN /\ i.need_mem_arg \in BOOLEAN
        BY <1>1 DEF Instr
      <3>3. Len(g) \in {0, 1}
        BY <3>1, <3>2 DEF emit_push_or_pop
      <3>4. Len(g) = 1 => g[1].op # "RET"
        BY <3>1, <3>2 DEF emit_push_or_pop, MemOperand, X, Ins
      <3>5. j = 1 /\ Len(g) = 1
        BY <1>2, <3>3
      <3> QED
        BY <1>3, <3>4, <3>5
    <2>2. ASSUME i.type \in {"ADD", "SUB"} PROVE FALSE
      <3>1. Len(g) = 2 /\ g[1].op # "RET" /\ g[2].op # "RET"
        BY <1>1, <2>2, EncodedAs DEF g, emit_add_or_sub, X, Ins
      <3>2. j = 1 \/ j = 2
        BY <1>2, <3>1
      <3> QED
        BY <1>3, <3>1, <3>2
    <2>3. ASSUME i.type \in {"MUL", "DIV"} PROVE FALSE
      <3>1. g = emit_mull_or_div(i)
        BY <1>1, <2>3, EncodedAs DEF g
      <3>2. Len(g) = 7 /\ g[1].op # "RET" /\ g[2].op # "RET" /\ g[3].op # "RET" /\ g[7].op # "RET"
        BY <2>3, <3>1, MulDivGroup DEF X, Ins
      <3>3. g[4].op # "RET" /\ g[5].op # "RET" /\ g[6].op # "RET"
        BY <2>3, <3>1, MulDivGroup DEF X, Ins, MovImm64
      <3>4. j = 1 \/ j = 2 \/ j = 3 \/ j = 4 \/ j = 5 \/ j = 6 \/ j = 7
        BY <1>2, <3>2
      <3> QED
        BY <1>3, <3>2, <3>3, <3>4
    <2>4. ASSUME i.type \in LibFuncs PROVE FALSE
      <3>1. g = emit_lib_func(i)
        BY <1>1, <2>4, EncodedAs DEF g
      <3>2. i.type = "INP" \/ i.type = "OUT" \/ i.type = "SQRT" \/ i.type = "HALT"
        BY <2>4 DEF LibFuncs
      <3>3. /\ Len(g) \in 4 .. 6 /\ g[1].op # "RET" /\ g[2].op # "RET" /\ g[3].op # "RET" /\ g[4].op # "RET"
            /\ Len(g) >= 5 => g[5].op # "RET"
            /\ Len(g) = 6 => g[6].op # "RET"
        <4>1. CASE i.type = "INP"
          <5>1. Len(g) = 5 /\ g[1].op # "RET" /\ g[2].op # "RET" /\ g[3].op # "RET"
            BY <3>1, <4>1, LibGroup DEF X, Ins, MovImm64
          <5>2. g[4].op # "RET" /\ g[5].op # "RET"
            BY <3>1, <4>1, LibGroup DEF X, Ins, MovImm64
          <5> QED
            BY <5>1, <5>2
        <4>2. CASE i.type = "OUT"
          <5>1. Len(g) = 5 /\ g[1].op # "RET" /\ g[2].op # "RET" /\ g[3].op # "RET"
            BY <3>1, <4>2, LibGroup DEF X, Ins, MovImm64
          <5>2. g[4].op # "RET" /\ g[5].op # "RET"
            BY <3>1, <4>2, LibGroup DEF X, Ins, MovImm64
          <5> QED
            BY <5>1, <5>2
        <4>3. CASE i.type = "SQRT"
          <5>1. Len(g) = 6 /\ g[1].op # "RET" /\ g[2].op # "RET" /\ g[3].op # "RET"
            BY <3>1, <4>3, LibGroup DEF X, Ins, MovImm64
          <5>2. g[4].op # "RET" /\ g[5].op # "RET" /\ g[6].op # "RET"
            BY <3>1, <4>3, LibGroup DEF X, Ins, MovImm64
          <5> QED
            BY <5>1, <5>2
        <4>4. CASE i.type = "HALT"
          BY <3>1, <4>4, LibGroup DEF X, Ins, MovImm64
        <4> QED
          BY <3>2, <4>1, <4>2, <4>3, <4>4
      <3>4. j = 1 \/ j = 2 \/ j = 3 \/ j = 4 \/ (j = 5 /\ Len(g) >= 5) \/ (j = 6 /\ Len(g) = 6)
        BY <1>2, <3>3
      <3> QED
        BY <1>3, <3>3, <3>4
    <2>5. ASSUME i.type \in {"JMP", "CALL"} PROVE FALSE
      <3>1. g = emit_jmp_or_call(i)
        BY <1>1, <2>5, EncodedAs DEF g
      <3>2. Len(g) = 2 /\ g[1].op # "RET" /\ g[2].op # "RET"
        BY <3>1 DEF emit_jmp_or_call, X, Ins, MovImm64
      <3>3. j = 1 \/ j = 2
        BY <1>2, <3>2
      <3> QED
        BY <1>3, <3>2, <3>3
    <2>6. ASSUME i.type \in Jumps PROVE FALSE
      <3>1. g = emit_cond_jmp(i)
        BY <1>1, <2>6, EncodedAs DEF g
      <3>2. Len(g) = 4 /\ g[1].op # "RET" /\ g[2].op # "RET" /\ g[3].op # "RET"
        BY <2>6, <3>1, JumpGroup DEF X, Ins
      <3>3. g[4].op # "RET"
        BY <2>6, <3>1 DEF emit_cond_jmp, Ins, translate_cond_jump_opcode, Jumps
      <3>4. j = 1 \/ j = 2 \/ j = 3 \/ j = 4
        BY <1>2, <3>2
      <3> QED
        BY <1>3, <3>2, <3>3, <3>4
    <2>7. ASSUME i.type \in Unsupported PROVE FALSE
      BY <1>1, <1>2, <2>7, EncodedAs DEF g
    <2> QED
      BY <1>1, <2>1, <2>2, <2>3, <2>4, <2>5, <2>6, <2>7, TypeCases DEF LibFuncs
  <1>5. j = 1
    <2>1. Len(g) = 1
      BY <1>1, <1>4, EncodedAs DEF emit_ret
    <2> HIDE DEF g, j
    <2> QED
      BY <1>2, <2>1
  <1> QED
    BY <1>2, <1>4, <1>5 DEF Middle

LEMMA RetFollowed ==
    ASSUME NEW d, Amid(d), Ret(Fetched), Fine(rip', regs', stack', ram')
    PROVE  Followed
  <1> DEFINE i == ir[text[d].cur]
             S == Img(stack)
             R == Img(regs)
             N == Read(typed)
             O == Written(printed)
  <1>1. Settled /\ Linked /\ AtIr(i) /\ seen.ram = Img(ram) /\ Here(d) /\ state = "running"
    BY AmidAtIr DEF Amid
  <1>2. text[d].x.op = "RET" /\ SafeStack(stack)
    BY <1>1, HereSafe DEF Ret
  <1>3. i.type = "RET" /\ Fresh(seen, S, R, N, O)
    BY <1>2, RetGroup
  <1>4. /\ rip' = Head(stack).v /\ stack' = Tail(stack) /\ stack # << >> /\ Head(stack).kind = "code"
        /\ regs' = regs /\ ram' = ram /\ typed' = typed /\ printed' = printed /\ state' = state
    BY DEF Ret, Faulty, Reads
  <1>5. Img(stack') = Tail(S) /\ Head(S) = AsIr(Head(stack)) /\ S # << >> /\ Safe(Head(stack))
    BY <1>1, <1>2, <1>4, ImgPop
  <1>6. AtGroup(rip') /\ Head(S) = Code(IndexAt(rip'))
    BY <1>1, <1>4, <1>5, AsIrWord
  <1>7. Head(S).kind = "code" /\ Head(S).v = IndexAt(rip')
    BY <1>6, WordKinds
  <1>8. Kept(regs', stack', ram')
    BY <1>1, <1>6, FineKept
  <1>9. /\ Tracks(rip', seen', regs', stack', ram', flags', typed', printed')
        /\ Becomes(Head(S).v, seen.ram, Tail(S), R, N, O)
    BY <1>1, <1>4, <1>5, <1>6, <1>7, <1>8, LeavesGroup
  <1> HIDE DEF i, S, R, N, O
  <1>10. Ir!RET
    BY <1>1, <1>3, <1>5, <1>7, <1>9, RetStep
  <1> QED
    BY <1>9, <1>10 DEF Followed, Ir!MachineNext

\* JMP and CALL, whose target is in rax.
LEMMA GoGroup ==
    ASSUME NEW d, Amid(d), Goes(text[d].x), ir[text[d].cur].type \notin LibFuncs
    PROVE  LET i == ir[text[d].cur]
           IN  /\ i.type \in {"JMP", "CALL"} /\ Closes(d)
               /\ text[d].x.op = (IF i.type = "CALL" THEN "CALL_reg" ELSE "JMP_reg")
               /\ Within(i, 2, seen, Img(stack), Img(regs), Img(flags), Read(typed), Written(printed))
  <1> DEFINE i == ir[text[d].cur]
             x == text[d].x
             g == encode_one_ir_instruction(i)
             j == text[d].k
  <1>1. i \in Instr /\ i.type \notin LibFuncs /\ d \in 1 .. Len(text) /\ Settled /\ Linked
    BY AmidAtIr
  <1>2. /\ j \in 1 .. Len(g) /\ Len(g) \in Nat /\ Like(x, g[j]) /\ (Closes(d) <=> j = Len(g))
        /\ Middle(i, j, seen, Img(stack), Img(regs), Img(flags), Read(typed), Written(printed))
    BY AmidGroup
  <1>3. x.op = g[j].op /\ x.op \in {"CALL_reg", "JMP_reg"}
    BY <1>2 DEF Like, Goes
  <1>4. j # 1 /\ Closes(d)
    <2>1. text[d].cur # 0
      BY DEF Amid
    <2>2. j = 1 => Ordinary(x)
      BY <1>1, <2>1, LaidMember
    <2>3. Closes(d)
      BY <1>1, <2>1, LaidMember
    <2> QED
      BY <2>2, <2>3 DEF Ordinary
  <1> HIDE DEF i, x, g, j
  <1>5. i.type \in {"JMP", "CALL"}
    <2>1. ASSUME i.type \in {"PUSH", "POP"} PROVE FALSE
      <3>1. i.need_imm_arg \in BOOLEAN /\ i.need_reg_arg \in BOOLEAN /\ i.need_mem_arg \in BOOLEAN
        BY <1>1 DEF Instr
      <3>2. Len(g) \in {0, 1}
        BY <1>1, <2>1, <3>1, EncodedAs DEF g, emit_push_or_pop
      <3> QED
        BY <1>2, <1>4, <3>2
    <2>2. ASSUME i.type \in {"ADD", "SUB"} PROVE FALSE
      <3>1. Len(g) = 2 /\ g[2].op \notin {"CALL_reg", "JMP_reg"}
        BY <1>1, <2>2, EncodedAs DEF g, emit_add_or_sub, X, Ins
      <3> QED
        BY <1>2, <1>3, <1>4, <3>1
    <2>3. ASSUME i.type \in {"MUL", "DIV"} PROVE FALSE
      <3>1. Len(g) = 7 /\ g[7].op \notin {"CALL_reg", "JMP_reg"}
        BY <1>1, <2>3, EncodedAs, MulDivGroup DEF g, X, Ins
      <3> QED
        BY <1>2, <1>3, <1>4, <3>1
    <2>4. ASSUME i.type \in Jumps PROVE FALSE
      <3>1. Len(g) = 4 /\ g[4].op \notin {"CALL_reg", "JMP_reg"}
        BY <1>1, <2>4, EncodedAs DEF g, emit_cond_jmp, Ins, translate_cond_jump_opcode, Jumps
      <3> QED
        BY <1>2, <1>3, <1>4, <3>1
    <2>5. ASSUME i.type = "RET" PROVE FALSE
      <3>1. Len(g) = 1
        BY <1>1, <2>5, EncodedAs DEF g, emit_ret
      <3> QED
        BY <1>2, <1>4, <3>1
    <2>6. ASSUME i.type \in Unsupported PROVE FALSE
      BY <1>1, <1>2, <2>6, EncodedAs DEF g
    <2> QED
      BY <1>1, <2>1, <2>2, <2>3, <2>4, <2>5, <2>6, TypeCases DEF LibFuncs
  <1>6. Len(g) = 2 /\ g[2].op = (IF i.type = "CALL" THEN "CALL_reg" ELSE "JMP_reg")
    BY <1>1, <1>5, EncodedAs DEF g, emit_jmp_or_call, X, Ins
  <1>7. j = 2
    BY <1>2, <1>4, <1>6
  <1>8. Within(i, 2, seen, Img(stack), Img(regs), Img(flags), Read(typed), Written(printed))
    BY <1>2, <1>7 DEF Middle
  <1> QED
    BY <1>3, <1>4, <1>5, <1>6, <1>7, <1>8 DEF i, x

LEMMA GoFollowed ==
    ASSUME NEW d, Amid(d), Jump(Fetched), ir[text[d].cur].type \notin LibFuncs,
           Fine(rip', regs', stack', ram')
    PROVE  Followed
  <1> DEFINE i == ir[text[d].cur]
             S == Img(stack)
             R == Img(regs)
             F == Img(flags)
             N == Read(typed)
             O == Written(printed)
             p == base_addr + End(text[d])
  <1>1. /\ Settled /\ Linked /\ AtIr(i) /\ seen.ram = Img(ram) /\ Here(d) /\ state = "running"
        /\ d \in 1 .. Len(text) /\ seen.pc + 1 = text[d].cur
    BY AmidAtIr DEF Amid
  <1>2. /\ Fetched.op = text[d].x.op /\ Fetched.to = To(text[d].x) /\ Fetched.next = p
        /\ SafeStack(stack) /\ SafeRegs(regs) /\ Shape(text[d].x)
    BY <1>1, HereSafe
  <1>3. Goes(text[d].x)
    BY <1>2 DEF Jump, Goes
  <1>4. /\ i.type \in {"JMP", "CALL"} /\ Closes(d)
        /\ text[d].x.op = (IF i.type = "CALL" THEN "CALL_reg" ELSE "JMP_reg")
        /\ Within(i, 2, seen, S, R, F, N, O)
    BY <1>3, GoGroup
  <1>5. /\ rip' = regs[0].v /\ regs' = regs /\ ram' = ram /\ typed' = typed /\ printed' = printed
        /\ state' = state
        /\ stack' = IF i.type = "CALL" THEN << Code(p) >> \o stack ELSE stack
    BY <1>2, <1>3, <1>4, Registers, RegNumbers DEF Jump
  <1>6. R[0] = Code(i.imm_arg) /\ R[0] = AsIr(regs[0]) /\ Safe(regs[0])
    <2>1. 0 \in REG_NUMBERS
      BY DEF REG_NUMBERS
    <2>2. InGo(i, 2, seen, S, R)
      BY <1>4 DEF Within
    <2> QED
      BY <1>1, <1>2, <2>1, <2>2, ImgRegs DEF InGo, Low
  <1>7. regs[0].kind = "code"
    BY <1>3, RegNumbers DEF Amid, Ready, Aimed
  <1>8. AtGroup(rip') /\ IndexAt(rip') = i.imm_arg
    <2>1. R[0] = Code(IndexAt(regs[0].v)) /\ AtGroup(regs[0].v)
      BY <1>1, <1>6, <1>7, AsIrWord
    <2>2. Code(i.imm_arg).v = i.imm_arg /\ Code(IndexAt(regs[0].v)).v = IndexAt(regs[0].v)
      BY WordKinds
    <2>3. Code(i.imm_arg) = Code(IndexAt(regs[0].v))
      BY <1>6, <2>1
    <2> QED
      BY <1>5, <2>1, <2>2, <2>3
  <1>9. Img(stack') = IF i.type = "CALL" THEN << Code(seen.pc + 1) >> \o S ELSE S
    <2>1. AtGroup(p) /\ IndexAt(p) = seen.pc + 1
      BY <1>1, <1>4, CloseIndex
    <2>2. p \in Int
      BY <1>1, LaidEntry, LaidTypes
    <2> DEFINE w == Code(p)
    <2>3. Safe(w) /\ AsIr(w) = Code(seen.pc + 1)
      BY <2>1, <2>2, SafeWords, AsIrCode
    <2>4. stack' = IF i.type = "CALL" THEN << w >> \o stack ELSE stack
      BY <1>5
    <2> HIDE DEF w
    <2>5. Img(<< w >> \o stack) = << AsIr(w) >> \o S
      BY <1>1, <1>2, <2>3, ImgPush
    <2> QED
      BY <2>3, <2>4, <2>5
  <1>10. Kept(regs', stack', ram')
    BY <1>1, <1>8, FineKept
  <1>11. /\ Tracks(rip', seen', regs', stack', ram', flags', typed', printed')
         /\ Becomes(IndexAt(rip'), Img(ram'), Img(stack'), Img(regs'), Read(typed'), Written(printed'))
    BY <1>1, <1>5, <1>8, <1>10, LeavesGroup
  <1>12. Becomes(i.imm_arg, seen.ram, IF i.type = "CALL" THEN << Code(seen.pc + 1) >> \o S ELSE S, R, N, O)
    BY <1>1, <1>5, <1>8, <1>9, <1>11
  <1> HIDE DEF i, S, R, F, N, O
  <1>13. Ir!jmp_or_call
    BY <1>1, <1>4, <1>12, GoStep
  <1> QED
    BY <1>11, <1>13 DEF Followed, Ir!MachineNext
-----------------------------------------------------------------------------
(* The library: a call, what it does, and the return.                      *)

LEMMA CallFollowed ==
    ASSUME NEW d, Amid(d), Jump(Fetched), ir[text[d].cur].type \in LibFuncs
    PROVE  Followed
  <1> DEFINE i == ir[text[d].cur]
             x == text[d].x
             p == base_addr + End(text[d])
  <1>1. /\ Settled /\ Linked /\ Here(d) /\ state = "running" /\ UNCHANGED vars
        /\ d \in 1 .. Len(text) /\ text[d].cur # 0 /\ Held(seen) /\ Member(i, x)
        /\ i.type \in LibFuncs
    BY AmidAtIr DEF Amid
  <1>2. /\ Fetched.op = x.op /\ Fetched.to = To(x) /\ Fetched.next = p
        /\ SafeStack(stack) /\ Shape(x)
    BY <1>1, HereSafe
  <1>3. Goes(x)
    BY <1>2 DEF Jump, Goes
  <1>4. ~Closes(d)
    BY <1>1, <1>3, LaidMember
  <1>5. /\ d + 1 \in 1 .. Len(text) /\ Place(d + 1) = p /\ text[d + 1].cur = text[d].cur
        /\ text[d + 1].k = text[d].k + 1
    BY <1>1, <1>4, NextInGroup
  <1>6. Backs(text[d + 1].x) /\ x.op = "CALL_reg"
    <2>1. d \in 1 .. Len(text) - 1
      BY <1>1, <1>5, LaidTypes
    <2>2. Follow(i, x, text[d + 1].x)
      BY <1>1, <1>4, <2>1, LaidNext
    <2> QED
      BY <1>3, <2>2 DEF Follow, Goes
  <1>7. regs[0] = Num(LibAddr[i.type])
    BY <1>1, <1>3, RegNumbers DEF Amid, Ready, Aimed
  <1>8. /\ rip' = LibAddr[i.type] /\ stack' = << Code(p) >> \o stack /\ regs' = regs /\ ram' = ram
        /\ flags' = flags /\ typed' = typed /\ printed' = printed /\ state' = state
    <2>1. Fetched.to = 0
      BY <1>2, <1>3, Registers, RegNumbers
    <2> QED
      BY <1>2, <1>6, <1>7, <2>1, WordKinds DEF Jump
  <1>9. rip' \in Library
    BY <1>1, <1>8, LibraryApart
  <1>10. \A e \in 1 .. Len(text) : rip' # Place(e)
    BY <1>1, <1>9, LibraryApart
  <1>11. rip' # CodeEnd
    BY <1>1, <1>9, LibraryApart
  <1>12. ~AtGroup(rip')
    <2>1. DOMAIN text = 1 .. Len(text)
      BY <1>1 DEF Settled, TypeInv, TypeOK
    <2> QED
      BY <1>10, <1>11, <2>1 DEF AtGroup, GroupsAt, Place
  <1>13. seen' = seen
    BY <1>12 DEF Amid
  <1>14. stack' \in Seq(Words) /\ stack'[1] = Code(p) /\ Tail(stack') = stack
    <2>1. p \in Int
      BY <1>1, LaidEntry, LaidTypes
    <2>2. Code(p) \in Words /\ stack \in Seq(Words)
      BY <1>2, <2>1, SafeWords DEF SafeStack
    <2> DEFINE w == Code(p)
    <2>3. w \in Words /\ stack' = << w >> \o stack
      BY <1>8, <2>2
    <2> HIDE DEF w
    <2>4. stack' \in Seq(Words) /\ stack'[1] = w /\ Tail(stack') = stack
      BY <2>2, <2>3, PushFacts
    <2> QED
      BY <2>4 DEF w
  <1>15. text[d + 1].k - 1 = text[d].k
    BY <1>1, <1>5, LaidEntry
  <1>16. InGroup(d, text[d].k, seen, ram, stack, regs, flags, typed, printed)
    BY DEF Amid
  <1>17. InGroup(d + 1, text[d + 1].k - 1, seen', ram', Tail(stack'), regs', flags', typed', printed')
    BY <1>5, <1>8, <1>13, <1>14, <1>15, <1>16 DEF InGroup
  <1>18. Tracks(rip', seen', regs', stack', ram', flags', typed', printed')
    BY <1>1, <1>5, <1>6, <1>8, <1>10, <1>11, <1>13, <1>14, <1>17 DEF Tracks
  <1>19. UNCHANGED Ir!machine
    <2>1. ir' = ir
      BY <1>1, IndexFixed
    <2> QED
      BY <1>8, <1>13, <2>1 DEF Ir!machine
  <1> QED
    BY <1>18, <1>19 DEF Followed

\* The processor is in the library, called from the group of an instruction.
Visiting(d) ==
    /\ Settled /\ Linked /\ UNCHANGED vars /\ state = "running" /\ Held(seen) /\ d \in 1 .. Len(text)
    /\ Backs(text[d].x) /\ rip = LibAddr[ir[text[d].cur].type]
    /\ stack \in Seq(Words) /\ Len(stack) >= 2 /\ stack[1] = Code(Place(d))
    /\ Kept(regs, Tail(stack), ram)
    /\ InGroup(d, text[d].k - 1, seen, ram, Tail(stack), regs, flags, typed, printed)
    /\ seen' = IF state' = "running" /\ AtGroup(rip') THEN Snapshot' ELSE seen

\* What the function was called for, and where it returns to.
LEMMA VisitFacts ==
    ASSUME NEW d, Visiting(d)
    PROVE  LET i == ir[text[d].cur]
           IN  /\ i \in Instr /\ i.type \in LibFuncs /\ AtIr(i) /\ text[d].cur # 0
               /\ ~AtGroup(Place(d)) /\ SafeRegs(regs) /\ SafeStack(Tail(stack))
               /\ text[d].k = (IF i.type \in {"INP", "HALT"} THEN 4 ELSE 5)
               /\ Within(i, text[d].k - 1, seen, Img(Tail(stack)), Img(regs), Img(flags), Read(typed),
                         Written(printed))
               /\ Head(stack).v = Place(d)
  <1> DEFINE i == ir[text[d].cur]
             x == text[d].x
             g == encode_one_ir_instruction(i)
             j == text[d].k
  <1>1. Settled /\ Linked /\ d \in 1 .. Len(text) /\ text[d].cur # 0 /\ state = "running" /\ Held(seen)
    BY DEF Visiting, InGroup
  <1>2. text[d].cur \in 1 .. Len(ir) /\ i \in Instr /\ Member(i, x) /\ Backs(x)
    BY <1>1, LaidMember DEF Visiting
  <1>3. i.type \in LibFuncs
    BY <1>2 DEF Member
  <1>4. seen.pc = text[d].cur - 1 /\ seen.ram = Img(ram)
        /\ Middle(i, j - 1, seen, Img(Tail(stack)), Img(regs), Img(flags), Read(typed), Written(printed))
    BY DEF Visiting, InGroup
  <1>5. AtIr(i)
    <2>1. Len(ir) \in Nat
      BY <1>1, LaidTypes
    <2>2. seen.pc + 1 = text[d].cur /\ seen.pc \in 0 .. Len(ir) - 1
      BY <1>2, <1>4, <2>1
    <2>3. ir' = ir
      BY IndexFixed DEF Visiting
    <2> QED
      BY <1>1, <2>2, <2>3 DEF AtIr
  <1>6. g = emit_lib_func(i)
    BY <1>2, <1>3, EncodedAs
  <1>7. j \in 1 .. Len(g) /\ Len(g) \in Nat /\ Like(x, g[j])
    <2>1. GroupOf(text[d].cur) = g
      BY <1>1 DEF GroupOf
    <2> QED
      BY <1>1, <2>1, LaidEntry
  <1>8. Backs(g[j])
    BY <1>2, <1>7 DEF Like, Backs
  <1>9. j = (IF i.type \in {"INP", "HALT"} THEN 4 ELSE 5)
    <2> HIDE DEF g, j, i
    <2>1. CASE i.type = "INP"
      <3>1. Len(g) = 5 /\ ~Backs(g[1]) /\ ~Backs(g[2]) /\ ~Backs(g[3])
        BY <1>6, <2>1, LibGroup DEF X, Ins, MovImm64, Backs
      <3>2. ~Backs(g[5])
        BY <1>6, <2>1, LibGroup DEF X, Ins, Backs
      <3>3. j = 1 \/ j = 2 \/ j = 3 \/ j = 4 \/ j = 5
        BY <1>7, <3>1
      <3> QED
        BY <1>8, <2>1, <3>1, <3>2, <3>3
    <2>2. CASE i.type = "HALT"
      <3>1. Len(g) = 4 /\ ~Backs(g[1]) /\ ~Backs(g[2]) /\ ~Backs(g[3])
        BY <1>6, <2>2, LibGroup DEF X, Ins, MovImm64, Backs
      <3>2. j = 1 \/ j = 2 \/ j = 3 \/ j = 4
        BY <1>7, <3>1
      <3> QED
        BY <1>8, <2>2, <3>1, <3>2
    <2>3. CASE i.type = "OUT"
      <3>1. Len(g) = 5 /\ ~Backs(g[1]) /\ ~Backs(g[2]) /\ ~Backs(g[3])
        BY <1>6, <2>3, LibGroup DEF X, Ins, MovImm64, Backs
      <3>2. ~Backs(g[4])
        BY <1>6, <2>3, LibGroup DEF X, Ins, Backs
      <3>3. j = 1 \/ j = 2 \/ j = 3 \/ j = 4 \/ j = 5
        BY <1>7, <3>1
      <3> QED
        BY <1>8, <2>3, <3>1, <3>2, <3>3
    <2>4. CASE i.type = "SQRT"
      <3>1. Len(g) = 6 /\ ~Backs(g[1]) /\ ~Backs(g[2]) /\ ~Backs(g[3])
        BY <1>6, <2>4, LibGroup DEF X, Ins, MovImm64, Backs
      <3>2. ~Backs(g[4]) /\ ~Backs(g[6])
        BY <1>6, <2>4, LibGroup DEF X, Ins, Backs
      <3>3. j = 1 \/ j = 2 \/ j = 3 \/ j = 4 \/ j = 5 \/ j = 6
        BY <1>7, <3>1
      <3> QED
        BY <1>8, <2>4, <3>1, <3>2, <3>3
    <2> QED
      BY <1>3, <2>1, <2>2, <2>3, <2>4 DEF LibFuncs
  <1>10. j \in 4 .. 5 /\ j - 1 # 1
    BY <1>9
  <1>11. ~AtGroup(Place(d))
    BY <1>1, <1>10, GroupIndex
  <1>12. Within(i, j - 1, seen, Img(Tail(stack)), Img(regs), Img(flags), Read(typed), Written(printed))
    BY <1>4, <1>10 DEF Middle
  <1>13. SafeRegs(regs) /\ SafeStack(Tail(stack))
    BY DEF Visiting, Kept, SafeRegs, SafeStack
  <1>14. Head(stack).v = Place(d)
    BY WordKinds DEF Visiting
  <1> QED
    BY <1>1, <1>2, <1>3, <1>5, <1>9, <1>11, <1>12, <1>13, <1>14

\* Back from it the processor goes on in the group.
LEMMA ReturnFollowed ==
    ASSUME NEW d, Visiting(d), NEW lost, NEW result, Returns(lost, result),
           Within(ir[text[d].cur], text[d].k, seen, Img(stack'), Img(regs'), Img(flags'),
                  Read(typed'), Written(printed'))
    PROVE  Followed
  <1>1. /\ Settled /\ Linked /\ UNCHANGED vars /\ state = "running" /\ Held(seen)
        /\ d \in 1 .. Len(text) /\ text[d].cur # 0 /\ seen.ram = Img(ram)
        /\ seen.pc = text[d].cur - 1
    BY DEF Visiting, InGroup
  <1>2. ~AtGroup(Place(d)) /\ Head(stack).v = Place(d) /\ text[d].k # 1
    BY VisitFacts
  <1>3. rip' = Place(d) /\ ram' = ram /\ state' = state
    BY <1>2 DEF Returns
  <1>4. seen' = seen
    BY <1>2, <1>3 DEF Visiting
  <1>5. InGroup(d, text[d].k, seen, ram', stack', regs', flags', typed', printed')
    BY <1>1, <1>2, <1>3 DEF InGroup, Middle
  <1>6. Tracks(rip', seen', regs', stack', ram', flags', typed', printed')
    BY <1>1, <1>3, <1>4, <1>5, ArrivesWithin
  <1>7. UNCHANGED Ir!machine
    <2>1. ir' = ir
      BY <1>1, IndexFixed
    <2> QED
      BY <1>3, <1>4, <2>1 DEF Ir!machine
  <1> QED
    BY <1>6, <1>7 DEF Followed

\* What is returned in the registers.
LEMMA ReturnedRegs ==
    ASSUME NEW d, Visiting(d), NEW lost, NEW result, Safe(result), Returns(lost, result)
    PROVE  LET R == Img(regs)
               Q == Img(regs')
           IN  /\ Img(stack') = Img(Tail(stack)) /\ Q[0] = AsIr(result)
               /\ \A n \in 1 .. 3 : Q[n] = IF n \in lost THEN Undetermined ELSE R[n]
  <1>1. /\ stack' = Tail(stack)
        /\ regs' = [r \in REG_NUMBERS |-> IF r = REGS.RAX THEN result
                                          ELSE IF r \in lost THEN Undetermined ELSE regs[r]]
    BY DEF Returns
  <1>2. DOMAIN regs' = REG_NUMBERS /\ DOMAIN regs = REG_NUMBERS /\ 0 .. 3 \subseteq REG_NUMBERS
    BY <1>1, VisitFacts DEF SafeRegs, REG_NUMBERS
  <1>3. regs'[0] = result
    BY <1>1, <1>2, RegNumbers
  <1>4. \A n \in 1 .. 3 : regs'[n] = IF n \in lost THEN Undetermined ELSE regs[n]
    BY <1>1, <1>2, RegNumbers
  <1>5. \A n \in 0 .. 3 : Img(regs')[n] = AsIr(regs'[n]) /\ Img(regs)[n] = AsIr(regs[n])
    BY <1>2 DEF Img
  <1> QED
    BY <1>1, <1>3, <1>4, <1>5, AsIrNum
-----------------------------------------------------------------------------
(* What is printed denotes the number it was printed for.                  *)
Signs == {Minus, Point, Newline}
Digit(c, t, i) == IF t[i] \in Signs THEN c ELSE 10 * c + t[i] - Zero_

\* The values of the texts that t begins with.
Counts(f, t) == \A i \in 0 .. Len(t) : f[i] = IF i = 0 THEN 0 ELSE Digit(f[i - 1], t, i)

LEMMA CountsExist ==
    ASSUME NEW t \in Seq(Int)
    PROVE  \E f \in [0 .. Len(t) -> Int] : Counts(f, t)
  <1> DEFINE n == Len(t)
             Term(f, i) == IF i = 0 THEN 0 ELSE Digit(f[i - 1], t, i)
             Made(m) == \E f \in [0 .. m -> Int] : \A i \in 0 .. m : f[i] = Term(f, i)
             bad == {m \in 0 .. n : ~Made(m)}
  <1>1. n \in Nat /\ bad \subseteq Nat
    OBVIOUS
  <1>2. \A m : m \in bad <=> m \in 0 .. n /\ ~Made(m)
    OBVIOUS
  <1>3. \A i \in 1 .. n, c \in Int : Digit(c, t, i) \in Int
    BY DEF Digit, Zero_
  <1> HIDE DEF n
  <1>4. Made(0)
    <2> DEFINE f == [i \in 0 .. 0 |-> 0]
    <2>1. f \in [0 .. 0 -> Int] /\ \A i \in 0 .. 0 : i = 0 /\ f[i] = 0
      OBVIOUS
    <2> QED
      BY <2>1
  <1>5. ASSUME NEW m \in 0 .. n - 1, Made(m) PROVE Made(m + 1)
    <2>1. PICK f \in [0 .. m -> Int] : \A i \in 0 .. m : f[i] = Term(f, i)
      BY <1>5
    <2> DEFINE last == Digit(f[m], t, m + 1)
               g == [i \in 0 .. m + 1 |-> IF i = m + 1 THEN last ELSE f[i]]
    <2>2. m \in Nat /\ m + 1 \in 1 .. n /\ m + 1 # 0 /\ m \in 0 .. m /\ (m + 1) - 1 = m
      BY <1>1
    <2>3. last \in Int
      BY <1>3, <2>2
    <2>4. last = Digit(f[(m + 1) - 1], t, m + 1)
      BY <2>2
    <2> HIDE DEF last
    <2>5. g \in [0 .. m + 1 -> Int]
      <3> SUFFICES ASSUME NEW i \in 0 .. m + 1 PROVE (IF i = m + 1 THEN last ELSE f[i]) \in Int
        OBVIOUS
      <3>1. i # m + 1 => i \in 0 .. m
        BY <2>2
      <3> QED
        BY <2>3, <3>1
    <2>6. g[m + 1] = last /\ \A i \in 0 .. m : g[i] = f[i]
      BY <2>2
    <2> HIDE DEF g
    <2>7. ASSUME NEW i \in 0 .. m + 1 PROVE g[i] = Term(g, i)
      <3>1. CASE i = m + 1
        BY <2>2, <2>4, <2>6, <3>1
      <3>2. CASE i # m + 1
        <4>1. i \in 0 .. m /\ (i # 0 => i - 1 \in 0 .. m)
          BY <2>2, <3>2
        <4> QED
          BY <2>1, <2>6, <4>1
      <3> QED
        BY <3>1, <3>2
    <2> QED
      BY <2>5, <2>7
  <1> HIDE DEF Made, bad
  <1>6. bad = {}
    <2> SUFFICES ASSUME bad # {} PROVE FALSE
      OBVIOUS
    <2>1. PICK m \in bad : \A i \in bad : m <= i
      BY <1>1, LeastMember
    <2>2. m \in 0 .. n /\ ~Made(m) /\ m # 0
      BY <1>2, <1>4, <2>1
    <2>3. m - 1 \in 0 .. n - 1 /\ (m - 1) + 1 = m /\ m - 1 \in 0 .. n /\ ~(m <= m - 1)
      BY <1>1, <2>2
    <2>4. m - 1 \notin bad
      BY <2>1, <2>3
    <2>5. Made(m - 1)
      BY <1>2, <2>3, <2>4
    <2> QED
      BY <1>5, <2>2, <2>3, <2>5
  <1>7. n \in 0 .. n
    BY <1>1
  <1>8. Made(n)
    BY <1>2, <1>6, <1>7
  <1> QED
    BY <1>8 DEF Made, Counts, n

LEMMA DenotesCounts ==
    ASSUME NEW t \in Seq(Int)
    PROVE  \E f \in [0 .. Len(t) -> Int] :
              Counts(f, t) /\ Denotes(t) = (IF t[1] = Minus THEN -1 ELSE 1) * f[Len(t)]
  <1> DEFINE value == CHOOSE f : f = [i \in 0 .. Len(t) |->
                         IF i = 0 THEN 0
                         ELSE IF t[i] \in {Minus, Point, Newline} THEN f[i - 1]
                         ELSE 10 * f[i - 1] + t[i] - Zero_]
  <1>1. Denotes(t) = (IF t[1] = Minus THEN -1 ELSE 1) * value[Len(t)]
    BY DEF Denotes
  <1>2. PICK f \in [0 .. Len(t) -> Int] : Counts(f, t)
    BY CountsExist
  <1>3. f = [i \in 0 .. Len(t) |->
               IF i = 0 THEN 0
               ELSE IF t[i] \in {Minus, Point, Newline} THEN f[i - 1]
               ELSE 10 * f[i - 1] + t[i] - Zero_]
    BY <1>2 DEF Counts, Digit, Signs
  <1>4. value = [i \in 0 .. Len(t) |->
               IF i = 0 THEN 0
               ELSE IF t[i] \in {Minus, Point, Newline} THEN value[i - 1]
               ELSE 10 * value[i - 1] + t[i] - Zero_]
    BY <1>3
  <1> HIDE DEF value
  <1>5. Counts(value, t)
    BY <1>4 DEF Counts, Digit, Signs
  <1>6. value \in [0 .. Len(t) -> Int]
    <2> DEFINE n == Len(t)
               bad == {i \in 0 .. n : value[i] \notin Int}
    <2>1. bad \subseteq Nat /\ n \in Nat
      OBVIOUS
    <2>2. \A i : i \in bad <=> i \in 0 .. n /\ value[i] \notin Int
      OBVIOUS
    <2>3. \A i \in 1 .. n, c \in Int : Digit(c, t, i) \in Int
      BY DEF Digit, Zero_
    <2>4. \A i \in 0 .. n : value[i] = IF i = 0 THEN 0 ELSE Digit(value[i - 1], t, i)
      BY <1>5 DEF Counts
    <2>5. DOMAIN value = 0 .. n /\ value = [i \in 0 .. n |-> value[i]]
      BY <1>4
    <2> HIDE DEF bad, n
    <2>6. bad = {}
      <3> SUFFICES ASSUME bad # {} PROVE FALSE
        OBVIOUS
      <3>1. PICK m \in bad : \A i \in bad : m <= i
        BY <2>1, LeastMember
      <3>2. m \in 0 .. n /\ value[m] \notin Int
        BY <2>2, <3>1
      <3>3. m # 0 /\ value[m] = Digit(value[m - 1], t, m)
        BY <2>4, <3>2
      <3>4. m - 1 \in 0 .. n /\ ~(m <= m - 1) /\ m \in 1 .. n
        BY <2>1, <3>2, <3>3
      <3>5. value[m - 1] \in Int
        BY <2>2, <3>1, <3>4
      <3> QED
        BY <2>3, <3>2, <3>3, <3>4, <3>5
    <2> QED
      BY <2>2, <2>5, <2>6 DEF n
  <1> QED
    BY <1>1, <1>5, <1>6

LEMMA DivMod ==
    ASSUME NEW c \in Nat, NEW b \in {10, 100}
    PROVE  b * (c \div b) + (c % b) = c /\ c \div b \in Nat /\ c % b \in 0 .. b - 1
  OBVIOUS

LEMMA DigitSign == \A a \in 0 .. 9 : Zero_ + a \notin Signs /\ (Zero_ + a) - Zero_ = a /\ Zero_ + a \in Digits
  BY DEF Signs, Zero_, Minus, Point, Newline, Digits

LEMMA DecimalSum ==
    ASSUME NEW n \in Nat, NEW a \in 0 .. 9, NEW b \in 0 .. 9
    PROVE  /\ 10 * (10 * n + a) + b = 100 * n + (10 * a + b) /\ 100 * n + (10 * a + b) \in Int
           /\ 10 * n + a \in Int
  OBVIOUS

LEMMA DigitOf ==
    ASSUME NEW c \in Int, NEW a \in 0 .. 9, NEW w, w = Zero_ + a
    PROVE  w \notin Signs /\ 10 * c + w - Zero_ = 10 * c + a
  <1>1. w \notin Signs
    BY DigitSign
  <1>2. 10 * c + (Zero_ + a) - Zero_ = 10 * c + a
    BY DEF Zero_
  <1> QED
    BY <1>1, <1>2

LEMMA Offsets ==
    ASSUME NEW o \in 0 .. 1, NEW wide \in Nat, NEW n, n = o + wide + 4
    PROVE  /\ o \in 0 .. n /\ o + wide <= n /\ o + wide \in Nat
           /\ \A e \in 0 .. 3 : /\ o + wide + (e + 1) \in 0 .. n /\ o + wide + (e + 1) # 0
                                /\ o + wide + (e + 1) - 1 = o + wide + e
  OBVIOUS

\* g is written in t, behind the first o characters; and what is printed there
\* of a number with the digits g, and a and b behind the point.
Spells(t, o, g) == o + Len(g) <= Len(t) /\ \A i \in 1 .. Len(g) : t[o + i] = g[i]
CountAfter(f, o, g) == f[o + Len(g)]
Hundredths(n, a, b) == 100 * n + (10 * a + b)
Signed(o, m)        == IF o = 1 THEN -m ELSE m
Counting(f, t)      == f \in [0 .. Len(t) -> Int] /\ Counts(f, t)
Layout(t, o, g, a, b) ==
    LET z == o + Len(g)
    IN  /\ Len(t) = z + 4 /\ \A i \in 1 .. Len(g) : t[o + i] = g[i]
        /\ o = 1 => t[1] = Minus
        /\ t[z + 1] = Point /\ t[z + 2] = Zero_ + a /\ t[z + 3] = Zero_ + b /\ t[z + 4] = Newline

\* The digits of c, wherever they are written, are counted as c.
LEMMA DigitsCount ==
    ASSUME NEW n \in Nat, NEW put, Puts(put, n), NEW t \in Seq(Int), NEW f, Counting(f, t),
           NEW o \in 0 .. Len(t), f[o] = 0, NEW g \in Seq(Digits), g = put[n], Spells(t, o, g)
    PROVE  CountAfter(f, o, g) = n
  <1> DEFINE SpelledAt(c) == o + Len(put[c]) <= Len(t) /\ \A i \in 1 .. Len(put[c]) : t[o + i] = put[c][i]
             bad == {c \in 0 .. n : SpelledAt(c) /\ f[o + Len(put[c])] # c}
  <1>0. f \in [0 .. Len(t) -> Int] /\ Counts(f, t)
    BY DEF Counting
  <1>1. bad \subseteq Nat
    OBVIOUS
  <1>2. \A c : c \in bad <=> c \in 0 .. n /\ SpelledAt(c) /\ f[o + Len(put[c])] # c
    OBVIOUS
  <1>3. \A c \in 0 .. n : put[c] \in Seq(Digits)
    BY PutsDigits
  <1> HIDE DEF bad
  <1>4. bad = {}
    <2> SUFFICES ASSUME bad # {} PROVE FALSE
      OBVIOUS
    <2>1. PICK c \in bad : \A i \in bad : c <= i
      BY <1>1, LeastMember
    <2>2. c \in 0 .. n /\ c \in Nat /\ SpelledAt(c) /\ f[o + Len(put[c])] # c
      BY <1>1, <1>2, <2>1
    <2>3. c # 0
      <3> SUFFICES ASSUME c = 0 PROVE FALSE
        OBVIOUS
      <3>1. put[c] = << >>
        BY <2>2 DEF Puts
      <3>2. o + Len(put[c]) = o
        BY <3>1
      <3> QED
        BY <2>2, <3>2
    <2> DEFINE p == c \div 10
               dig == Zero_ + (c % 10)
               q == put[p]
               wide == Len(q)
    <2>4. p \in 0 .. c - 1 /\ dig \in Digits /\ put[c] = Append(q, dig)
      <3>1. p \in 0 .. c - 1 /\ dig \in Digits
        BY <2>2, <2>3, DigitSplit
      <3> QED
        BY <2>2, <2>3, <3>1 DEF Puts
    <2>5. 10 * p + dig - Zero_ = c
      <3>1. 10 * (c \div 10) + (c % 10) = c /\ c \div 10 \in Int /\ c % 10 \in Int /\ Zero_ \in Int
        BY <2>2, <2>3, DivMod DEF Zero_
      <3> QED
        BY <2>2, <3>1
    <2> HIDE DEF p, dig
    <2>6. p \in 0 .. n /\ ~(c <= p) /\ q \in Seq(Digits)
      BY <1>3, <2>2, <2>4
    <2> HIDE DEF q
    <2>7. wide \in Nat /\ Len(put[c]) = wide + 1 /\ put[c][wide + 1] = dig /\ \A i \in 1 .. wide : put[c][i] = q[i]
      BY <2>4, <2>6
    <2> HIDE DEF wide
    <2>8. o + (wide + 1) <= Len(t) /\ \A i \in 1 .. wide + 1 : t[o + i] = put[c][i]
      BY <2>2, <2>7
    <2>9. f[o + wide] = p
      <3>1. SpelledAt(p)
        BY <2>7, <2>8 DEF wide, q
      <3> QED
        BY <1>2, <2>1, <2>6, <3>1 DEF wide, q
    <2>10. wide + 1 \in 1 .. wide + 1 /\ o + wide + 1 \in 1 .. Len(t) /\ (o + wide + 1) - 1 = o + wide
           /\ o + (wide + 1) = o + wide + 1
      BY <2>7, <2>8
    <2>11. t[o + wide + 1] = dig
      BY <2>7, <2>8, <2>10
    <2>12. f[o + wide + 1] = Digit(f[o + wide], t, o + wide + 1)
      <3> DEFINE z == o + wide + 1
      <3>1. z \in 0 .. Len(t) /\ z # 0 /\ z - 1 = o + wide
        BY <2>10
      <3> HIDE DEF z
      <3>2. f[z] = Digit(f[z - 1], t, z)
        BY <1>0, <3>1 DEF Counts
      <3> QED
        BY <3>1, <3>2 DEF z
    <2>13. dig \notin Signs
      BY <2>4 DEF Digits, Signs, Zero_, Minus, Point, Newline
    <2>14. f[o + wide + 1] = c
      BY <2>5, <2>9, <2>11, <2>12, <2>13 DEF Digit
    <2> QED
      BY <2>2, <2>7, <2>10, <2>14
  <1>5. n \in 0 .. n /\ SpelledAt(n)
    BY DEF Spells
  <1>6. f[o + Len(put[n])] = n
    BY <1>2, <1>4, <1>5
  <1> QED
    BY <1>6 DEF CountAfter

LEMMA DigitsPut ==
    ASSUME NEW n \in Nat, NEW text_
    PROVE  \E put : Puts(put, n) /\ put[n] \in Seq(Digits) /\ digits_before(n, text_) = put[n] \o text_
  <1> DEFINE put == CHOOSE f : f = [rcx \in 0 .. n |->
                       IF rcx = 0 THEN << >> ELSE Append(f[rcx \div 10], Zero_ + (rcx % 10))]
  <1>1. digits_before(n, text_) = put[n] \o text_
    BY DEF digits_before
  <1>2. PICK f \in [0 .. n -> Seq(Digits)] : Puts(f, n)
    BY PutsExist
  <1>3. f = [rcx \in 0 .. n |-> IF rcx = 0 THEN << >> ELSE Append(f[rcx \div 10], Zero_ + (rcx % 10))]
    BY <1>2 DEF Puts
  <1>4. put = [rcx \in 0 .. n |->
                 IF rcx = 0 THEN << >> ELSE Append(put[rcx \div 10], Zero_ + (rcx % 10))]
    BY <1>3
  <1> HIDE DEF put
  <1>5. Puts(put, n)
    BY <1>4 DEF Puts
  <1>6. put[n] \in Seq(Digits) /\ n \in 0 .. n
    BY <1>5, PutsDigits
  <1> QED
    BY <1>1, <1>5, <1>6

\* A text that begins, behind a sign, with the digits of n.
LEMMA PrintedNumber ==
    ASSUME NEW n \in Nat, NEW a \in 0 .. 9, NEW b \in 0 .. 9, NEW put, Puts(put, n),
           NEW g \in Seq(Digits), g = put[n], NEW t \in Seq(Int), NEW o \in 0 .. 1, Layout(t, o, g, a, b)
    PROVE  Denotes(t) = Signed(o, Hundredths(n, a, b))
  <1> DEFINE wide == Len(g)
  <1>0. /\ wide \in Nat /\ Len(t) = o + wide + 4 /\ (o = 1 => t[1] = Minus)
        /\ \A i \in 1 .. wide : t[o + i] = g[i] /\ g[i] \in Digits
        /\ t[o + wide + 1] = Point /\ t[o + wide + 2] = Zero_ + a /\ t[o + wide + 3] = Zero_ + b
        /\ t[o + wide + 4] = Newline
    BY Smaller DEF Layout
  <1>1. PICK f \in [0 .. Len(t) -> Int] :
              Counts(f, t) /\ Denotes(t) = (IF t[1] = Minus THEN -1 ELSE 1) * f[Len(t)]
    BY DenotesCounts
  <1>2. f[0] = 0 /\ \A i \in 0 .. Len(t) : i # 0 => f[i] = Digit(f[i - 1], t, i)
    BY <1>1 DEF Counts
  <1> DEFINE z == o + wide
  <1>3. /\ o \in 0 .. Len(t) /\ z <= Len(t) /\ z \in Nat
        /\ \A e \in 0 .. 3 : z + (e + 1) \in 0 .. Len(t) /\ z + (e + 1) # 0 /\ z + (e + 1) - 1 = z + e
    BY <1>0, Offsets
  <1>4. t[z + 1] = Point /\ t[z + 2] = Zero_ + a /\ t[z + 3] = Zero_ + b /\ t[z + 4] = Newline
    BY <1>0
  <1>5. f[o] = 0
    <2>1. CASE o = 1
      <3>1. 1 \in 0 .. Len(t)
        BY <1>3, <2>1
      <3>2. f[1] = Digit(f[1 - 1], t, 1)
        BY <1>2, <3>1
      <3>3. f[1] = Digit(0, t, 1)
        BY <1>2, <3>2
      <3>4. t[1] = Minus
        BY <1>0, <2>1
      <3>5. Digit(0, t, 1) = f[0]
        BY <1>2, <3>2, <3>4 DEF Digit, Signs
      <3> QED
        BY <1>2, <2>1, <3>3, <3>5
    <2>2. CASE o # 1
      BY <1>2, <2>2
    <2> QED
      BY <2>1, <2>2
  <1>6. f[z] = n
    <2>1. Spells(t, o, g)
      BY <1>0, <1>3 DEF Spells
    <2> HIDE DEF wide, z
    <2>2. Counting(f, t)
      BY <1>1 DEF Counting
    <2>3. CountAfter(f, o, g) = n
      BY <1>3, <1>5, <2>1, <2>2, DigitsCount
    <2> QED
      BY <2>3 DEF wide, z, CountAfter
  <1>7. t[1] = Minus <=> o = 1
    <2>1. CASE o = 1
      BY <1>0, <2>1
    <2>2. CASE o # 1 /\ wide = 0
      <3>1. z = 0
        BY <1>0, <2>2
      <3>2. t[0 + 1] = Point
        BY <1>4, <3>1
      <3> QED
        BY <2>2, <3>2 DEF Point, Minus
    <2>3. CASE o # 1 /\ wide # 0
      <3>1. o + 1 = 1 /\ 1 \in 1 .. wide
        BY <1>0, <2>3
      <3>2. t[o + 1] = g[1] /\ g[1] \in Digits
        BY <1>0, <3>1
      <3>3. t[1] \in Digits
        BY <3>1, <3>2
      <3>4. Minus \notin Digits
        BY DEF Digits, Zero_, Minus
      <3> QED
        BY <2>3, <3>3, <3>4
    <2> QED
      BY <2>1, <2>2, <2>3
  <1>8. Len(t) = z + 4
    BY <1>0
  <1> HIDE DEF wide, z
  <1>9. \A e \in 0 .. 3 : f[z + (e + 1)] = Digit(f[z + e], t, z + (e + 1))
    <2> SUFFICES ASSUME NEW e \in 0 .. 3 PROVE f[z + (e + 1)] = Digit(f[z + e], t, z + (e + 1))
      OBVIOUS
    <2> DEFINE y == z + (e + 1)
    <2>1. y \in 0 .. Len(t) /\ y # 0 /\ y - 1 = z + e
      BY <1>3
    <2> HIDE DEF y
    <2>2. f[y] = Digit(f[y - 1], t, y)
      BY <1>2, <2>1
    <2> QED
      BY <2>1, <2>2 DEF y
  <1>10. /\ f[z + 1] = Digit(f[z], t, z + 1) /\ f[z + 2] = Digit(f[z + 1], t, z + 2)
         /\ f[z + 3] = Digit(f[z + 2], t, z + 3) /\ f[z + 4] = Digit(f[z + 3], t, z + 4)
    <2>1. z + 0 = z /\ 0 + 1 = 1 /\ 1 + 1 = 2 /\ 2 + 1 = 3 /\ 3 + 1 = 4
      BY <1>3
    <2>2. 0 \in 0 .. 3 /\ 1 \in 0 .. 3 /\ 2 \in 0 .. 3 /\ 3 \in 0 .. 3
      OBVIOUS
    <2>3. f[z + (0 + 1)] = Digit(f[z + 0], t, z + (0 + 1))
      BY <1>9, <2>2
    <2>4. f[z + (1 + 1)] = Digit(f[z + 1], t, z + (1 + 1))
      BY <1>9, <2>2
    <2>5. f[z + (2 + 1)] = Digit(f[z + 2], t, z + (2 + 1))
      BY <1>9, <2>2
    <2>6. f[z + (3 + 1)] = Digit(f[z + 3], t, z + (3 + 1))
      BY <1>9, <2>2
    <2> QED
      BY <2>1, <2>3, <2>4, <2>5, <2>6
  <1>11. f[z + 1] = n
    BY <1>4, <1>6, <1>10 DEF Digit, Signs
  <1>12. f[z + 2] = 10 * n + a
    <2> DEFINE w == t[z + 2]
    <2>1. n \in Int /\ w = Zero_ + a
      BY <1>4
    <2> HIDE DEF w
    <2>2. w \notin Signs /\ 10 * n + w - Zero_ = 10 * n + a
      BY <2>1, DigitOf
    <2>3. Digit(n, t, z + 2) = 10 * n + a
      BY <2>2 DEF Digit, w
    <2> QED
      BY <1>10, <1>11, <2>3
  <1> DEFINE c == 10 * n + a
             value == 100 * n + (10 * a + b)
  <1>13. 10 * c + b = value /\ value \in Int /\ c \in Int
    BY DecimalSum
  <1>14. f[z + 3] = value
    <2> HIDE DEF c, value
    <2> DEFINE w == t[z + 3]
    <2>1. c \in Int /\ w = Zero_ + b
      BY <1>4, <1>13
    <2> HIDE DEF w
    <2>2. w \notin Signs /\ 10 * c + w - Zero_ = 10 * c + b
      BY <2>1, DigitOf
    <2>3. Digit(c, t, z + 3) = 10 * c + b
      BY <2>2 DEF Digit, w
    <2> QED
      BY <1>10, <1>12, <1>13, <2>3 DEF c
  <1> HIDE DEF value
  <1>15. f[z + 4] = value
    BY <1>4, <1>10, <1>14 DEF Digit, Signs
  <1>16. Denotes(t) = (IF t[1] = Minus THEN -1 ELSE 1) * value
    BY <1>1, <1>8, <1>15
  <1>17. Denotes(t) = IF o = 1 THEN -value ELSE value
    BY <1>7, <1>13, <1>16
  <1> QED
    BY <1>17 DEF value, Signed, Hundredths

LEMMA OutputDenotes ==
    ASSUME NEW v \in Int
    PROVE  Denotes(output_asm(v)) = v /\ output_asm(v) # << >>
  <1> DEFINE m == IF v < 0 THEN -v ELSE v
             sign == IF v < 0 THEN << Minus >> ELSE << >>
             rest == m % 100
             n == m \div 100
             tail == << Point, Zero_ + (rest \div 10), Zero_ + (rest % 10), Newline >>
  <1>1. m \in Nat /\ n \in Nat /\ rest \in 0 .. 99 /\ 100 * n + rest = m
    OBVIOUS
  <1>2. output_asm(v) = sign \o digits_before(n, tail)
    BY DEF output_asm, output_of
  <1>3. v = IF v < 0 THEN -m ELSE m
    OBVIOUS
  <1> HIDE DEF m, n, rest
  <1>4. PICK put : Puts(put, n) /\ put[n] \in Seq(Digits) /\ digits_before(n, tail) = put[n] \o tail
    BY <1>1, DigitsPut
  <1> DEFINE g == put[n]
             wide == Len(g)
             u == g \o tail
             a == Zero_ + (rest \div 10)
             b == Zero_ + (rest % 10)
  <1>5. a \in Int /\ b \in Int /\ Minus \in Int /\ Point \in Int /\ Newline \in Int /\ Digits \subseteq Int
    BY <1>1 DEF Digits, Minus, Point, Newline, Zero_
  <1>6. tail = << Point, a, b, Newline >>
    OBVIOUS
  <1> HIDE DEF a, b, tail
  <1>7. /\ tail \in Seq(Int) /\ Len(tail) = 4 /\ tail[1] = Point /\ tail[2] = a /\ tail[3] = b
        /\ tail[4] = Newline
    BY <1>5, <1>6
  <1>8. g \in Seq(Int) /\ wide \in Nat
    BY <1>4, <1>5, Smaller
  <1> HIDE DEF g
  <1>81. wide \in Nat
    BY <1>8
  <1>9. /\ u \in Seq(Int) /\ Len(u) = wide + 4 /\ \A i \in 1 .. wide : u[i] = g[i]
        /\ \A i \in 1 .. 4 : u[wide + i] = tail[i]
    <2>1. /\ u \in Seq(Int) /\ Len(u) = Len(g) + Len(tail) /\ \A i \in 1 .. Len(g) : u[i] = g[i]
          /\ \A i \in 1 .. Len(tail) : u[Len(g) + i] = tail[i]
      BY <1>7, <1>8, Concatenated
    <2> HIDE DEF u
    <2> QED
      BY <1>7, <2>1
  <1>10. output_asm(v) = sign \o u
    BY <1>2, <1>4 DEF g
  <1> HIDE DEF u, wide
  <1> DEFINE t == output_asm(v)
             o == IF v < 0 THEN 1 ELSE 0
  <1>11. /\ t \in Seq(Int) /\ Len(t) = o + Len(u) /\ (o = 1 => t[1] = Minus)
         /\ \A i \in 1 .. Len(u) : t[o + i] = u[i]
    <2>1. CASE v < 0
      <3>1. << Minus >> \in Seq(Int) /\ Len(<< Minus >>) = 1 /\ << Minus >>[1] = Minus
        BY <1>5
      <3>2. t = << Minus >> \o u /\ o = 1
        BY <1>10, <2>1
      <3> DEFINE w == << Minus >> \o u
      <3>3. Len(w) = 1 + Len(u) /\ (\A i \in 1 .. Len(u) : w[1 + i] = u[i]) /\ w \in Seq(Int) /\ w[1] = Minus
        BY <1>9, <3>1, Concatenated
      <3> HIDE DEF w
      <3> QED
        BY <3>2, <3>3 DEF w
    <2>2. CASE ~(v < 0)
      <3>1. t = << >> \o u /\ o = 0
        BY <1>10, <2>2
      <3>2. << >> \o u = u
        BY <1>9
      <3>3. t = u
        BY <3>1, <3>2
      <3>4. Len(u) \in Nat /\ \A i \in 1 .. Len(u) : 0 + i = i
        BY <1>9
      <3> QED
        BY <1>9, <3>1, <3>3, <3>4
    <2> QED
      BY <2>1, <2>2
  <1> HIDE DEF t
  <1>12. o \in 0 .. 1 /\ (v < 0 <=> o = 1)
    OBVIOUS
  <1> HIDE DEF o
  <1>13. /\ Len(t) = o + wide + 4 /\ \A i \in 1 .. wide : t[o + i] = g[i]
         /\ t[o + wide + 1] = Point /\ t[o + wide + 2] = a /\ t[o + wide + 3] = b /\ t[o + wide + 4] = Newline
    <2>1. Len(t) = o + wide + 4
      BY <1>9, <1>11, <1>12, <1>81
    <2>2. \A i \in 1 .. wide : t[o + i] = g[i]
      <3>1. \A i \in 1 .. wide : i \in 1 .. Len(u)
        BY <1>9, <1>81
      <3> QED
        BY <1>9, <1>11, <3>1
    <2>3. \A i \in 1 .. 4 : t[o + wide + i] = tail[i]
      <3> SUFFICES ASSUME NEW i \in 1 .. 4 PROVE t[o + wide + i] = tail[i]
        OBVIOUS
      <3>1. wide + i \in 1 .. wide + 4 /\ o + (wide + i) = o + wide + i /\ wide + i \in 1 .. Len(u)
        <4>1. o \in Int /\ wide \in Nat /\ i \in 1 .. 4 /\ Len(u) = wide + 4
          BY <1>9, <1>12, <1>81
        <4> HIDE DEF u, wide, o
        <4> QED
          BY <4>1
      <3>2. t[o + (wide + i)] = u[wide + i]
        BY <1>11, <3>1
      <3> QED
        BY <1>9, <3>1, <3>2
    <2> QED
      BY <1>7, <2>1, <2>2, <2>3
  <1>14. Denotes(t) = IF o = 1 THEN -(100 * n + rest) ELSE 100 * n + rest
    <2> DEFINE p == rest \div 10
               q == rest % 10
    <2>1. p \in 0 .. 9 /\ q \in 0 .. 9 /\ 10 * p + q = rest /\ a = Zero_ + p /\ b = Zero_ + q
      BY <1>1, DivMod DEF a, b
    <2> HIDE DEF p, q
    <2>2. Layout(t, o, g, p, q)
      BY <1>11, <1>13, <2>1 DEF Layout, wide
    <2>3. n \in Nat /\ Puts(put, n) /\ g \in Seq(Digits) /\ g = put[n] /\ t \in Seq(Int)
      BY <1>1, <1>4, <1>11 DEF g
    <2>4. Denotes(t) = Signed(o, Hundredths(n, p, q))
      BY <1>12, <2>1, <2>2, <2>3, PrintedNumber
    <2>5. Hundredths(n, p, q) = 100 * n + rest
      BY <2>1 DEF Hundredths
    <2> QED
      BY <2>4, <2>5 DEF Signed
  <1>15. t # << >>
    <2>1. Len(t) # 0
      BY <1>12, <1>13, <1>81
    <2> QED
      BY <2>1
  <1> QED
    BY <1>1, <1>3, <1>12, <1>14, <1>15 DEF t
-----------------------------------------------------------------------------
(* The functions of the library.                                           *)

LEMMA MapAppend ==
    ASSUME NEW A, NEW q \in Seq(A), NEW t \in A, NEW B, NEW F \in [A -> B]
    PROVE  LET p == Append(q, t)
           IN  [j \in DOMAIN p |-> F[p[j]]] = Append([j \in DOMAIN q |-> F[q[j]]], F[t])
  <1> DEFINE p == Append(q, t)
             u == [j \in DOMAIN q |-> F[q[j]]]
             w == [j \in DOMAIN p |-> F[p[j]]]
             n == Len(q)
             z == F[t]
  <1>1. /\ p \in Seq(A) /\ Len(p) = n + 1 /\ p[n + 1] = t /\ n \in Nat /\ DOMAIN q = 1 .. n
        /\ DOMAIN p = 1 .. n + 1 /\ \A j \in 1 .. n : p[j] = q[j] /\ q[j] \in A
    OBVIOUS
  <1>2. u = [j \in 1 .. n |-> F[q[j]]] /\ w = [j \in 1 .. n + 1 |-> F[p[j]]] /\ z \in B
    BY <1>1
  <1>3. u \in [1 .. n -> B]
    BY <1>1, <1>2
  <1>4. u \in Seq(B) /\ Len(u) = n
    BY <1>1, <1>3
  <1>5. \A j \in 1 .. n : u[j] = F[q[j]]
    BY <1>2
  <1> HIDE DEF u, z
  <1>6. /\ Append(u, z) \in Seq(B) /\ Len(Append(u, z)) = n + 1 /\ Append(u, z)[n + 1] = z
        /\ \A j \in 1 .. n : Append(u, z)[j] = u[j]
    BY <1>1, <1>2, <1>4
  <1> DEFINE v == Append(u, z)
  <1>7. v = [j \in 1 .. n + 1 |-> v[j]]
    <2>1. v \in Seq(B) /\ Len(v) = n + 1
      BY <1>6
    <2> HIDE DEF v, n
    <2>2. v = [j \in 1 .. Len(v) |-> v[j]]
      BY <2>1
    <2> QED
      BY <2>1, <2>2
  <1>8. \A j \in 1 .. n + 1 : j \in 1 .. n \/ j = n + 1
    BY <1>1
  <1> HIDE DEF v, p
  <1>9. \A j \in 1 .. n + 1 : v[j] = F[p[j]]
    <2> SUFFICES ASSUME NEW j \in 1 .. n + 1 PROVE v[j] = F[p[j]]
      OBVIOUS
    <2>1. CASE j \in 1 .. n
      BY <1>1, <1>5, <1>6, <2>1 DEF v
    <2>2. CASE j = n + 1
      BY <1>1, <1>6, <2>2 DEF v, z
    <2> QED
      BY <1>8, <2>1, <2>2
  <1>10. v = w
    BY <1>2, <1>7, <1>9
  <1> QED
    BY <1>10 DEF u, v, p, z

LEMMA ReadMore ==
    ASSUME NEW q \in Seq(Typed), NEW t \in Typed
    PROVE  Read(Append(q, t)) = Append(Read(q), FIXED_PRECISION_MULTIPLIER * t.number)
  <1> DEFINE F == [e \in Typed |-> FIXED_PRECISION_MULTIPLIER * e.number]
             B == {FIXED_PRECISION_MULTIPLIER * e.number : e \in Typed}
             p == Append(q, t)
  <1>1. F \in [Typed -> B] /\ \A e \in Typed : F[e] = FIXED_PRECISION_MULTIPLIER * e.number
    OBVIOUS
  <1> HIDE DEF F, B
  <1>2. [j \in DOMAIN p |-> F[p[j]]] = Append([j \in DOMAIN q |-> F[q[j]]], F[t])
    BY <1>1, MapAppend
  <1>3. p \in Seq(Typed)
    OBVIOUS
  <1>4. (\A j \in DOMAIN p : p[j] \in Typed) /\ (\A j \in DOMAIN q : q[j] \in Typed)
    BY <1>3, SeqElement
  <1> HIDE DEF p
  <1>5. Read(p) = [j \in DOMAIN p |-> F[p[j]]] /\ Read(q) = [j \in DOMAIN q |-> F[q[j]]]
    BY <1>1, <1>4 DEF Read
  <1> QED
    BY <1>1, <1>2, <1>5 DEF p

LEMMA WrittenMore ==
    ASSUME NEW q \in Seq(Texts), NEW t \in Texts
    PROVE  Written(Append(q, t)) = Append(Written(q), Output(t))
  <1> DEFINE F == [e \in Texts |-> Output(e)]
             B == {Output(e) : e \in Texts}
             p == Append(q, t)
  <1>1. F \in [Texts -> B] /\ \A e \in Texts : F[e] = Output(e)
    OBVIOUS
  <1> HIDE DEF F, B
  <1>2. [j \in DOMAIN p |-> F[p[j]]] = Append([j \in DOMAIN q |-> F[q[j]]], F[t])
    BY <1>1, MapAppend
  <1>3. p \in Seq(Texts)
    OBVIOUS
  <1>4. (\A j \in DOMAIN p : p[j] \in Texts) /\ (\A j \in DOMAIN q : q[j] \in Texts)
    BY <1>3, SeqElement
  <1> HIDE DEF p
  <1>5. Written(p) = [j \in DOMAIN p |-> F[p[j]]] /\ Written(q) = [j \in DOMAIN q |-> F[q[j]]]
    BY <1>1, <1>4 DEF Written
  <1> QED
    BY <1>1, <1>2, <1>5 DEF p

\* Every function is called for an IR instruction of its own.
LEMMA VisitedFor ==
    ASSUME NEW d, Visiting(d), Exact, NEW f \in LibFuncs, rip = LibAddr[f]
    PROVE  ir[text[d].cur].type = f
  BY VisitFacts DEF Visiting, Exact

LEMMA LostNumbers ==
    /\ 1 \in Lost \ {REGS.R8} /\ 2 \in Lost \ {REGS.R8} /\ 3 \notin Lost \ {REGS.R8}
    /\ 1 \in Lost /\ 2 \in Lost /\ 3 \notin Lost
    /\ 1 \notin {REGS.RDI} /\ 2 \notin {REGS.RDI} /\ 3 \notin {REGS.RDI}
  BY DEF Lost, REGS

LEMMA InpFollowed ==
    ASSUME NEW d, Visiting(d), Exact, typed \in Seq(Typed), stdlib_inp
    PROVE  Followed
  <1> DEFINE i == ir[text[d].cur]
             S == Img(Tail(stack))
             R == Img(regs)
  <1>1. i.type = "INP"
    BY VisitedFor DEF stdlib_inp, LibFuncs
  <1>2. text[d].k = 4 /\ Within(i, text[d].k - 1, seen, S, R, Img(flags), Read(typed), Written(printed))
    BY <1>1, VisitFacts
  <1>3. PICK t \in Typed : typed' = Append(typed, t) /\ Returns(Lost \ {REGS.R8}, Num(input_asm(t.line)))
    BY DEF stdlib_inp
  <1>4. printed' = printed /\ flags' = flags
    BY <1>3 DEF stdlib_inp, Returns
  <1> DEFINE v == FIXED_PRECISION_MULTIPLIER * t.number
             lost == Lost \ {REGS.R8}
             result == Num(input_asm(t.line))
  <1>5. result = Num(v) /\ v \in Inputs
    BY DEF Exact, Inputs
  <1>6. Safe(result) /\ Returns(lost, result)
    BY <1>3, InputType, SafeWords
  <1>7. 1 \in lost /\ 2 \in lost /\ 3 \notin lost
    BY LostNumbers
  <1> HIDE DEF v, lost, result
  <1>8. /\ Img(stack') = S /\ Img(regs')[0] = AsIr(result)
        /\ \A n \in 1 .. 3 : Img(regs')[n] = IF n \in lost THEN Undetermined ELSE R[n]
    BY <1>6, ReturnedRegs
  <1>9. /\ Img(regs')[0] = Num(v) /\ Img(regs')[1] = Undetermined /\ Img(regs')[2] = Undetermined
        /\ Img(regs')[3] = R[3]
    BY <1>5, <1>7, <1>8, AsIrNum
  <1>10. Read(typed') = Append(Read(typed), v)
    BY <1>3, ReadMore DEF v
  <1> HIDE DEF i, S, R
  <1> DEFINE Q == Img(regs')
             T == Img(stack')
             N == Read(typed')
             O == Written(printed)
  <1>11. InInp(3, seen, S, R, Read(typed), O)
    <2> DEFINE three == text[d].k - 1
    <2>1. three = 3 /\ Within(i, three, seen, S, R, Img(flags), Read(typed), O)
      BY <1>2
    <2> HIDE DEF three
    <2> QED
      BY <1>1, <2>1 DEF Within
  <1> HIDE DEF Q, T, N, O
  <1>12. T = S /\ N = Append(Read(typed), v) /\ Q[0] = Num(v) /\ Q[1] = Undetermined /\ Q[2] = Undetermined
         /\ Q[3] = R[3]
    BY <1>8, <1>9, <1>10 DEF Q, T, N
  <1>13. /\ O = seen.out /\ R[3] = seen.regs[3] /\ Read(typed) = seen.input
         /\ S = << Num(ram_addr) >> \o seen.stack
    BY <1>11 DEF InInp
  <1>14. InInp(4, seen, T, Q, N, O)
    BY <1>5, <1>12, <1>13 DEF InInp, Low
  <1>15. Within(i, 4, seen, T, Q, Img(flags), N, O)
    BY <1>1, <1>14 DEF Within, Jumps
  <1>16. Img(flags') = Img(flags) /\ Written(printed') = O
    BY <1>4 DEF O
  <1>17. Within(i, text[d].k, seen, Img(stack'), Img(regs'), Img(flags'), Read(typed'), Written(printed'))
    BY <1>2, <1>15, <1>16 DEF Q, T, N
  <1> QED
    BY <1>6, <1>17, ReturnFollowed DEF i

LEMMA ArgumentAsIr ==
    ASSUME NEW d, Visiting(d)
    PROVE  LET w == regs[REGS.RDI]
           IN  Img(regs)[7] = AsIr(w) /\ (w.kind = "num" => AsIr(w) = w /\ w.v \in Int /\ w = Num(w.v))
               /\ (w.kind # "num" => AsIr(w).kind # "num")
  <1> DEFINE w == regs[REGS.RDI]
  <1>1. Settled /\ Linked /\ SafeRegs(regs) /\ 7 \in REG_NUMBERS /\ REGS.RDI = 7
    BY VisitFacts DEF Visiting, REG_NUMBERS, REGS
  <1>2. Img(regs)[7] = AsIr(w) /\ Safe(w)
    BY <1>1, ImgRegs
  <1> HIDE DEF w
  <1>3. AsIr(w).kind = w.kind /\ (w.kind = "num" => AsIr(w) = w)
    BY <1>1, <1>2, AsIrWord
  <1>4. w.kind = "num" => w.v \in Int /\ w = Num(w.v)
    BY <1>2 DEF Safe, Words, Num
  <1> QED
    BY <1>2, <1>3, <1>4 DEF w

LEMMA OutFollowed ==
    ASSUME NEW d, Visiting(d), Exact, printed \in Seq(Texts), stdlib_out
    PROVE  Followed
  <1> DEFINE i == ir[text[d].cur]
             S == Img(Tail(stack))
             R == Img(regs)
             w == regs[REGS.RDI]
             t == IF w.kind = "num" THEN output_asm(w.v) ELSE << >>
             lost == Lost
             result == Undetermined
  <1>1. i.type = "OUT"
    BY VisitedFor DEF stdlib_out, LibFuncs
  <1>2. text[d].k = 5 /\ Within(i, text[d].k - 1, seen, S, R, Img(flags), Read(typed), Written(printed))
    BY <1>1, VisitFacts
  <1>3. printed' = Append(printed, t) /\ Returns(lost, result) /\ typed' = typed /\ flags' = flags
    BY DEF stdlib_out, Returns
  <1>4. R[7] = AsIr(w) /\ (w.kind = "num" => AsIr(w) = w /\ w.v \in Int /\ w = Num(w.v))
        /\ (w.kind # "num" => AsIr(w).kind # "num")
    BY ArgumentAsIr
  <1>5. t \in Texts /\ Output(t) = Ir!Shown(AsIr(w))
    <2>1. CASE w.kind = "num"
      <3>1. t = output_asm(w.v) /\ w.v \in Int
        BY <1>4, <2>1
      <3>2. t \in Texts /\ t # << >> /\ Denotes(t) = w.v
        BY <3>1, OutputText, OutputDenotes
      <3>3. Output(t) = w
        BY <1>4, <2>1, <3>2 DEF Output
      <3>4. Ir!Shown(AsIr(w)) = w
        BY <1>4, <2>1 DEF Ir!Shown
      <3> QED
        BY <3>2, <3>3, <3>4
    <2>2. CASE w.kind # "num"
      <3>1. t = << >>
        BY <2>2
      <3>2. << >> \in Texts
        BY DEF Texts
      <3>4. Output(t) = Undetermined
        BY <3>1 DEF Output
      <3>3. Ir!Shown(AsIr(w)) = Undetermined
        BY <1>4, <2>2, SameWords DEF Ir!Shown
      <3> QED
        BY <3>1, <3>2, <3>3, <3>4
    <2> QED
      BY <2>1, <2>2
  <1>6. 1 \in lost /\ 2 \in lost /\ 3 \notin lost /\ Safe(result)
    BY LostNumbers, SafeWords
  <1>7. Written(printed') = Append(Written(printed), Output(t))
    BY <1>3, <1>5, WrittenMore
  <1>8. result = Undetermined
    OBVIOUS
  <1> HIDE DEF t, w, lost, result
  <1>9. /\ Img(stack') = S /\ Img(regs')[0] = AsIr(result)
        /\ \A n \in 1 .. 3 : Img(regs')[n] = IF n \in lost THEN Undetermined ELSE R[n]
    BY <1>3, <1>6, ReturnedRegs
  <1>10. /\ Img(regs')[0] = Undetermined /\ Img(regs')[1] = Undetermined /\ Img(regs')[2] = Undetermined
         /\ Img(regs')[3] = R[3]
    BY <1>6, <1>8, <1>9, AsIrNum
  <1> HIDE DEF i, S, R
  <1> DEFINE Q == Img(regs')
             T == Img(stack')
             N == Read(typed)
             O == Written(printed')
  <1>11. InOut(4, seen, S, R, N, Written(printed))
    <2> DEFINE four == text[d].k - 1
    <2>1. four = 4 /\ Within(i, four, seen, S, R, Img(flags), N, Written(printed))
      BY <1>2
    <2> HIDE DEF four
    <2> QED
      BY <1>1, <2>1 DEF Within
  <1> HIDE DEF Q, T, N, O
  <1>12. T = S /\ O = Append(Written(printed), Output(t)) /\ Q[0] = Undetermined /\ Q[1] = Undetermined
         /\ Q[2] = Undetermined /\ Q[3] = R[3]
    BY <1>7, <1>9, <1>10 DEF Q, T, O
  <1>13. /\ Written(printed) = seen.out /\ R[3] = seen.regs[3] /\ N = seen.input /\ Len(seen.stack) >= 1
         /\ S = << Num(ram_addr) >> \o Below(seen.stack, 1) /\ R[7] = seen.stack[1]
    BY <1>11 DEF InOut
  <1>14. Output(t) = Ir!Shown(seen.stack[1])
    BY <1>4, <1>5, <1>13
  <1>15. InOut(5, seen, T, Q, N, O)
    BY <1>12, <1>13, <1>14 DEF InOut, Low
  <1>16. Within(i, 5, seen, T, Q, Img(flags), N, O)
    BY <1>1, <1>15 DEF Within, Jumps
  <1>17. Img(flags') = Img(flags) /\ Read(typed') = N
    BY <1>3 DEF N
  <1>18. Within(i, text[d].k, seen, Img(stack'), Img(regs'), Img(flags'), Read(typed'), Written(printed'))
    BY <1>2, <1>16, <1>17 DEF Q, T, O
  <1> QED
    BY <1>3, <1>18, ReturnFollowed DEF i

LEMMA SqrtFollowed ==
    ASSUME NEW d, Visiting(d), Exact, stdlib_sqrt
    PROVE  Followed
  <1> DEFINE i == ir[text[d].cur]
             S == Img(Tail(stack))
             R == Img(regs)
             w == regs[REGS.RDI]
             lost == {REGS.RDI}
             result == IF w.kind = "num" THEN Num(sqrt_asm(w.v)) ELSE Undetermined
             Root(a) == IF a.kind = "num" THEN Num(sqrt_asm(a.v)) ELSE Undetermined
  <1>1. i.type = "SQRT"
    BY VisitedFor DEF stdlib_sqrt, LibFuncs
  <1>2. text[d].k = 5 /\ Within(i, text[d].k - 1, seen, S, R, Img(flags), Read(typed), Written(printed))
    BY <1>1, VisitFacts
  <1>3. printed' = printed /\ Returns(lost, result) /\ typed' = typed /\ flags' = flags
    BY DEF stdlib_sqrt, Returns
  <1>4. R[7] = AsIr(w) /\ (w.kind = "num" => AsIr(w) = w /\ w.v \in Int /\ w = Num(w.v))
        /\ (w.kind # "num" => AsIr(w).kind # "num")
    BY ArgumentAsIr
  <1>5. Safe(result) /\ AsIr(result) = Root(AsIr(w))
    <2>1. CASE w.kind = "num"
      <3>1. result = Num(sqrt_asm(w.v)) /\ Root(AsIr(w)) = Num(sqrt_asm(w.v)) /\ w.v \in Int
        BY <1>4, <2>1
      <3> HIDE DEF result, w, Root
      <3>2. Safe(result)
        BY <3>1, SqrtType, SafeWords
      <3> QED
        BY <3>1, <3>2, AsIrNum
    <2>2. CASE w.kind # "num"
      <3>1. result = Undetermined /\ Root(AsIr(w)) = Undetermined
        BY <1>4, <2>2
      <3> HIDE DEF result, w, Root
      <3> QED
        BY <3>1, SafeWords, AsIrNum
    <2> QED
      BY <2>1, <2>2
  <1>6. 1 \notin lost /\ 2 \notin lost /\ 3 \notin lost
    BY LostNumbers
  <1> HIDE DEF w, lost, result
  <1>7. /\ Img(stack') = S /\ Img(regs')[0] = AsIr(result)
        /\ \A n \in 1 .. 3 : Img(regs')[n] = IF n \in lost THEN Undetermined ELSE R[n]
    BY <1>3, <1>5, ReturnedRegs
  <1>8. /\ Img(regs')[0] = AsIr(result) /\ Img(regs')[1] = R[1] /\ Img(regs')[2] = R[2]
        /\ Img(regs')[3] = R[3]
    BY <1>6, <1>7
  <1> HIDE DEF i, S, R
  <1> DEFINE Q == Img(regs')
             T == Img(stack')
             N == Read(typed)
             O == Written(printed)
  <1>9. InSqrt(4, seen, S, R, N, O)
    <2> DEFINE four == text[d].k - 1
    <2>1. four = 4 /\ Within(i, four, seen, S, R, Img(flags), N, O)
      BY <1>2
    <2> HIDE DEF four
    <2> QED
      BY <1>1, <2>1 DEF Within
  <1> HIDE DEF Q, T, N, O
  <1>10. T = S /\ Q[0] = Root(AsIr(w)) /\ Q[1] = R[1] /\ Q[2] = R[2] /\ Q[3] = R[3]
    BY <1>5, <1>7, <1>8 DEF Q, T
  <1>11. /\ N = seen.input /\ O = seen.out /\ Len(seen.stack) >= 1
         /\ R[1] = seen.regs[1] /\ R[2] = seen.regs[2] /\ R[3] = seen.regs[3] /\ R[7] = seen.stack[1]
         /\ S = << Num(ram_addr) >> \o Below(seen.stack, 1)
    BY <1>9 DEF InSqrt
  <1>12. Q[0] = Root(seen.stack[1])
    <2> HIDE DEF Root
    <2> QED
      BY <1>4, <1>10, <1>11
  <1>13. InSqrt(5, seen, T, Q, N, O)
    BY <1>10, <1>11, <1>12 DEF InSqrt
  <1>14. Within(i, 5, seen, T, Q, Img(flags), N, O)
    BY <1>1, <1>13 DEF Within, Jumps
  <1>15. Img(flags') = Img(flags) /\ Read(typed') = N /\ Written(printed') = O
    BY <1>3 DEF N, O
  <1>16. Within(i, text[d].k, seen, Img(stack'), Img(regs'), Img(flags'), Read(typed'), Written(printed'))
    BY <1>2, <1>14, <1>15 DEF Q, T
  <1> QED
    BY <1>3, <1>16, ReturnFollowed DEF i

LEMMA HaltFollowed ==
    ASSUME NEW d, Visiting(d), Exact, stdlib_halt
    PROVE  Followed
  <1>1. ir[text[d].cur].type = "HALT"
    BY VisitedFor DEF stdlib_halt, LibFuncs
  <1>2. state' = "exit" /\ seen' = seen
    BY DEF stdlib_halt, Visiting
  <1>3. Ir!HALT
    BY <1>1, <1>2, VisitFacts, HaltStep DEF stdlib_halt
  <1> QED
    BY <1>2, <1>3 DEF Followed, Ir!MachineNext

LEMMA FunctionFollowed ==
    ASSUME NEW d, Visiting(d), Exact, typed \in Seq(Typed), printed \in Seq(Texts),
           stdlib_inp \/ stdlib_out \/ stdlib_sqrt \/ stdlib_halt
    PROVE  Followed
  BY InpFollowed, OutFollowed, SqrtFollowed, HaltFollowed
-----------------------------------------------------------------------------
(* The first instruction: mov r8, ram_addr.  The IR knows nothing of it.   *)

LEMMA NothingImg ==
    /\ Img(<< >>) = << >> /\ Read(<< >>) = << >> /\ Written(<< >>) = << >>
    /\ Img([a \in {} |-> Num(0)]) = [a \in {} |-> Num(0)]
  BY DEF Img, Read, Written

LEMMA PreparationFollowed ==
    ASSUME NEW d, Here(d), UNCHANGED vars, state = "running", text[d].cur = 0, Mov(Fetched),
           seen = NothingYet, stack = << >>, ram = [a \in {} |-> Num(0)], typed = << >>, printed = << >>,
           regs = [q \in REG_NUMBERS |-> Undetermined],
           seen' = IF state' = "running" /\ AtGroup(rip') THEN Snapshot' ELSE seen,
           Fine(rip', regs', stack', ram')
    PROVE  Followed
  <1>1. Settled /\ Linked /\ d \in 1 .. Len(text)
    BY DEF Here
  <1>2. text[d].x.op = "MOV_reg_imm32" /\ text[d].x.fix = "none" /\ Shape(text[d].x) /\ Closes(d)
    BY <1>1, LaidFirst
  <1>3. Fetched.to = 8 /\ Fetched.next = base_addr + End(text[d])
    BY <1>2, HereSafe, Registers, RegNumbers
  <1>4. AtGroup(rip') /\ IndexAt(rip') = 0 /\ rip' = Fetched.next
    BY <1>1, <1>2, <1>3, CloseIndex DEF Mov, Step
  <1>5. /\ stack' = << >> /\ ram' = [a \in {} |-> Num(0)] /\ typed' = << >> /\ printed' = << >>
        /\ state' = state
    BY DEF Mov, Step
  <1>6. Kept(regs', stack', ram')
    BY <1>1, <1>4, FineKept
  <1>7. SafeRegs(regs') /\ SafeStack(stack') /\ regs' \in [REG_NUMBERS -> Words]
    BY <1>6 DEF Kept, SafeRegs, SafeStack
  <1>8. Four(Img(regs')) = [r \in 0 .. 3 |-> Undetermined]
    <2> DEFINE w == IF Fetched.is_code THEN Code(Fetched.imm) ELSE Num(Fetched.imm)
    <2>1. regs' = [regs EXCEPT ![8] = w]
      BY <1>3 DEF Mov
    <2> HIDE DEF w
    <2>2. \A r \in 0 .. 3 : r \in REG_NUMBERS /\ r # 8
      BY DEF REG_NUMBERS
    <2>3. \A r \in 0 .. 3 : regs'[r] = Undetermined
      BY <2>1, <2>2
    <2>4. AsIr(Undetermined) = Undetermined
      BY DEF AsIr, Undetermined
    <2>5. DOMAIN regs' = REG_NUMBERS
      BY <1>7
    <2>6. \A r \in 0 .. 3 : Img(regs')[r] = Undetermined
      BY <2>2, <2>3, <2>4, <2>5 DEF Img
    <2> QED
      BY <2>6 DEF Four
  <1>9. seen' = [pc |-> IndexAt(rip'), ram |-> Img(ram'), stack |-> Img(stack'), regs |-> Four(Img(regs')),
                 input |-> Read(typed'), out |-> Written(printed')]
    BY <1>4, <1>5, <1>7, SnapshotNext
  <1>10. Tracks(rip', seen', regs', stack', ram', flags', typed', printed')
    BY <1>1, <1>4, <1>7, <1>9, ArrivesAt
  <1>11. seen' = NothingYet
    BY <1>4, <1>5, <1>8, <1>9, NothingImg DEF NothingYet
  <1>12. ir' = ir
    BY IndexFixed
  <1> QED
    BY <1>5, <1>10, <1>11, <1>12 DEF Followed, Ir!machine
-----------------------------------------------------------------------------
(* What the processor is killed by, the IR does not tell the effect of.    *)

\* What is at an address in the code is the instruction that was written.
LEMMA FetchedAt ==
    ASSUME Settled, Linked, NEW d \in 1 .. Len(text), rip = Place(d)
    PROVE  Means(d, Fetched)
  <1> DEFINE here == {e \in DOMAIN text : base_addr + text[e].at = rip}
             f == CHOOSE e \in here : TRUE
             x == text[d].x
             c == decode(Head_(x))
             i == WhatIs(IF c.size = ImmSize(x) THEN c ELSE Garbage, text[d])
  <1>1. DOMAIN text = 1 .. Len(text)
    BY DEF Settled, TypeInv, TypeOK
  <1>2. d \in here
    BY <1>1 DEF Place
  <1>3. f \in here
    BY <1>2
  <1>4. f = d
    BY <1>1, <1>3, LaidApart DEF Place
  <1>5. Fetched = i
    BY <1>2, <1>4 DEF Fetched
  <1> HIDE DEF f
  <1>6. Shape(x) /\ text[d].at \in Nat /\ WrittenBytes(x) \in Nat /\ base_addr \in Nat
    BY LaidShape, LaidEntry, LaidTypes
  <1>7. c = IF x.op = "none" THEN Garbage ELSE Meant(x)
    BY <1>6, ShapeDecoded
  <1> HIDE DEF c
  <1>8. i.next = base_addr + End(text[d])
    BY <1>6 DEF WhatIs, End, Place
  <1>9. i.op = x.op /\ i.to = To(x) /\ i.from = From(x) /\ i.imm = x.imm /\ i.is_code = (x.fix = "abs")
    <2>1. CASE x.op = "none"
      <3>1. x.reg = "none" /\ x.op \notin MemOps \cup Stacked \cup {"CMP_reg_reg"}
        BY <1>6, <2>1 DEF Shape, Stacked, CondOps, MemOps
      <3>2. To(x) = NoReg /\ From(x) = NoReg
        BY <3>1 DEF To, From
      <3> QED
        BY <1>7, <2>1, <3>2 DEF WhatIs, Garbage, Decoded
    <2>2. CASE x.op # "none"
      BY <1>7, <2>2 DEF WhatIs, Meant, Decoded
    <2> QED
      BY <2>1, <2>2
  <1> QED
    BY <1>5, <1>6, <1>8, <1>9 DEF Means

\* There is nothing behind the code.
LEMMA FetchedEnd ==
    ASSUME Settled, Linked, rip = CodeEnd
    PROVE  Fetched.op = "none"
  <1>1. DOMAIN text = 1 .. Len(text)
    BY DEF Settled, TypeInv, TypeOK
  <1>2. {e \in DOMAIN text : base_addr + text[e].at = rip} = {}
    BY <1>1, LibraryApart DEF Place
  <1>3. Fetched = WhatIs(Garbage, [x |-> X("none", "none", {})])
    BY <1>2 DEF Fetched
  <1> QED
    BY <1>3 DEF WhatIs, Garbage, Decoded

\* What the j-th instruction of a group can be that reads the stack or memory,
\* divides, or is none.
Expected(i, j, x) ==
    /\ x.op \notin {"none", "PUSH_mem", "POP_mem"}
    /\ x.op \in Stacked => i.type \in {"ADD", "SUB"} /\ j = 2
    /\ x.op = "POP_reg" /\ x.reg # "R8" =>
          \/ i.type \in {"ADD", "SUB", "OUT", "SQRT"} /\ j = 1
          \/ i.type \in {"MUL", "DIV"} \cup Jumps /\ j \in 1 .. 2
    /\ x.op = "IDIV_reg" => /\ i.type \in {"MUL", "DIV"} /\ j = 6
                            /\ x.reg = IF i.type = "MUL" THEN "RCX" ELSE "R12"

\* The members that are of none of these kinds.
Harmless == {"PUSH_reg", "CQO", "IMUL_reg", "MOV_reg_imm64", "CALL_reg", "JMP_reg", "CMP_reg_reg", "RET"} \cup CondOps
Quiet(x) == x.op \in Harmless \/ (x.op = "POP_reg" /\ x.reg = "R8")

LEMMA QuietExpected ==
    ASSUME NEW i, NEW j \in Nat, NEW x, Quiet(x)
    PROVE  Expected(i, j, x)
  BY DEF Expected, Quiet, Harmless, CondOps, Stacked

LEMMA QuietMembers ==
    /\ \A f : Quiet(X("CALL_reg", "RAX", f)) /\ Quiet(X("PUSH_reg", "RAX", f)) /\ Quiet(X("POP_reg", "R8", f))
    /\ \A f : Quiet(X("PUSH_reg", "R8", f)) /\ Quiet(X("CQO", "none", f)) /\ Quiet(X("CMP_reg_reg", "RAX", f))
    /\ \A f, reg : Quiet(X("IMUL_reg", reg, f)) /\ Quiet(X("JMP_reg", reg, f)) /\ Quiet(X("RET", reg, f))
    /\ \A reg, v, fix : Quiet(MovImm64(reg, v, fix))
  BY DEF Quiet, X, Ins, MovImm64, Harmless

LEMMA GroupExpected ==
    ASSUME NEW i \in Instr, i.type \notin {"PUSH", "POP"}, NEW j \in 1 .. Len(encode_one_ir_instruction(i)),
           Len(encode_one_ir_instruction(i)) \in Nat
    PROVE  Expected(i, j, encode_one_ir_instruction(i)[j])
  <1> DEFINE g == encode_one_ir_instruction(i)
  <1>1. j \in 1 .. Len(g) /\ Len(g) \in Nat
    OBVIOUS
  <1> HIDE DEF g
  <1> SUFFICES Expected(i, j, g[j])
    BY DEF g
  <1>2. CASE i.type \in {"ADD", "SUB"}
    <2>1. g = emit_add_or_sub(i)
      BY <1>2, EncodedAs DEF g
    <2>2. Len(g) = 2 /\ g[1].op = "POP_reg" /\ g[2].op = (IF i.type = "ADD" THEN "ADD_mem_reg" ELSE "SUB_mem_reg")
      BY <2>1 DEF emit_add_or_sub, X, Ins
    <2>3. Expected(i, 1, g[1])
      BY <1>2, <2>2 DEF Expected, Stacked
    <2>4. Expected(i, 2, g[2])
      BY <1>2, <2>2 DEF Expected, Stacked
    <2>5. j = 1 \/ j = 2
      BY <1>1, <2>2
    <2> QED
      BY <2>3, <2>4, <2>5
  <1>3. CASE i.type \in {"MUL", "DIV"}
    <2>1. g = emit_mull_or_div(i)
      BY <1>3, EncodedAs DEF g
    <2>2. /\ Len(g) = 7 /\ g[1] = X("POP_reg", "R12", {"REX"}) /\ g[2] = X("POP_reg", "RAX", {})
          /\ g[3] = X("CQO", "none", {"REX"}) /\ g[7] = X("PUSH_reg", "RAX", {})
      BY <1>3, <2>1, MulDivGroup
    <2>3. Quiet(g[3]) /\ Quiet(g[7])
      BY <2>2, QuietMembers
    <2>4. Quiet(g[4]) /\ Quiet(g[5])
      <3> DEFINE scale == MovImm64("RCX", FIXED_PRECISION_MULTIPLIER, "none")
                 imul  == X("IMUL_reg", IF i.type = "MUL" THEN "R12" ELSE "RCX", {"REX", "ModRM"})
      <3>1. (g[4] = imul /\ g[5] = scale) \/ (g[4] = scale /\ g[5] = imul)
        BY <1>3, <2>1, MulDivGroup
      <3>2. Quiet(scale) /\ Quiet(imul)
        BY QuietMembers
      <3> HIDE DEF scale, imul
      <3> QED
        BY <3>1, <3>2
    <2>5. g[6].op = "IDIV_reg" /\ g[6].reg = IF i.type = "MUL" THEN "RCX" ELSE "R12"
      BY <1>3, <2>1, MulDivGroup DEF X, Ins
    <2>6. g[1].op = "POP_reg" /\ g[2].op = "POP_reg"
      BY <2>2 DEF X, Ins
    <2>7. Expected(i, 1, g[1]) /\ Expected(i, 2, g[2])
      BY <1>3, <2>6 DEF Expected, Stacked
    <2>8. Expected(i, 6, g[6])
      BY <1>3, <2>5 DEF Expected, Stacked
    <2>9. Expected(i, 3, g[3]) /\ Expected(i, 4, g[4]) /\ Expected(i, 5, g[5]) /\ Expected(i, 7, g[7])
      BY <2>3, <2>4, QuietExpected
    <2>10. j = 1 \/ j = 2 \/ j = 3 \/ j = 4 \/ j = 5 \/ j = 6 \/ j = 7
      BY <1>1, <2>2
    <2> QED
      BY <2>7, <2>8, <2>9, <2>10
  <1>4. CASE i.type \in Jumps
    <2>1. g = emit_cond_jmp(i)
      BY <1>4, EncodedAs DEF g
    <2>2. /\ Len(g) = 4 /\ g[1] = X("POP_reg", "RCX", {}) /\ g[2] = X("POP_reg", "RAX", {})
          /\ g[3] = X("CMP_reg_reg", "RAX", {"REX", "ModRM"})
      BY <1>4, <2>1, JumpGroup
    <2>3. g[1].op = "POP_reg" /\ g[2].op = "POP_reg"
      BY <2>2 DEF X, Ins
    <2>4. g[4].op = translate_cond_jump_opcode(i)
      BY <2>1 DEF emit_cond_jmp, Ins
    <2>5. translate_cond_jump_opcode(i) \in CondOps
      BY <1>4 DEF Jumps, translate_cond_jump_opcode, CondOps
    <2>6. Quiet(g[4])
      BY <2>4, <2>5 DEF Quiet, Harmless
    <2>7. Quiet(g[3])
      BY <2>2, QuietMembers
    <2>8. Expected(i, 1, g[1]) /\ Expected(i, 2, g[2])
      BY <1>4, <2>3 DEF Expected, Stacked
    <2>9. Expected(i, 3, g[3]) /\ Expected(i, 4, g[4])
      BY <2>6, <2>7, QuietExpected
    <2>10. j = 1 \/ j = 2 \/ j = 3 \/ j = 4
      BY <1>1, <2>2
    <2> QED
      BY <2>8, <2>9, <2>10
  <1>5. CASE i.type \in LibFuncs
    <2> DEFINE arg  == X("POP_reg", "RDI", {})
               mov  == MovImm64("RAX", LibAddr[i.type], "none")
               save == X("PUSH_reg", "R8", {"REX"})
               call == X("CALL_reg", "RAX", {"ModRM"})
               back == X("POP_reg", "R8", {"REX"})
               ret  == X("PUSH_reg", "RAX", {})
    <2>1. g = emit_lib_func(i)
      BY <1>5, EncodedAs DEF g
    <2>2. /\ i.type = "INP"  => g = << mov, save, call, back, ret >>
          /\ i.type = "OUT"  => g = << arg, mov, save, call, back >>
          /\ i.type = "SQRT" => g = << arg, mov, save, call, back, ret >>
          /\ i.type = "HALT" => g = << mov, save, call, back >>
      BY <2>1, LibGroup
    <2>3. Quiet(mov) /\ Quiet(save) /\ Quiet(call) /\ Quiet(back) /\ Quiet(ret)
      BY QuietMembers
    <2>4. arg.op = "POP_reg"
      BY DEF X, Ins
    <2> HIDE DEF arg, mov, save, call, back, ret
    <2>5. i.type \in {"OUT", "SQRT"} => Expected(i, 1, arg)
      BY <2>4 DEF Expected, Stacked
    <2>6. \A n \in Nat : /\ Expected(i, n, mov) /\ Expected(i, n, save) /\ Expected(i, n, call)
                         /\ Expected(i, n, back) /\ Expected(i, n, ret)
      BY <2>3, QuietExpected
    <2>7. j \in Nat /\ (j = 1 \/ g[j] \in {mov, save, call, back, ret})
          /\ (j = 1 => g[1] = IF i.type \in {"OUT", "SQRT"} THEN arg ELSE mov)
      <3>1. CASE i.type = "INP"
        <4>1. Len(g) = 5 /\ g[1] = mov /\ g[2] = save /\ g[3] = call /\ g[4] = back /\ g[5] = ret
          BY <2>2, <3>1
        <4>2. j = 1 \/ j = 2 \/ j = 3 \/ j = 4 \/ j = 5
          BY <1>1, <4>1
        <4> QED
          BY <3>1, <4>1, <4>2
      <3>2. CASE i.type = "OUT"
        <4>1. Len(g) = 5 /\ g[1] = arg /\ g[2] = mov /\ g[3] = save /\ g[4] = call /\ g[5] = back
          BY <2>2, <3>2
        <4>2. j = 1 \/ j = 2 \/ j = 3 \/ j = 4 \/ j = 5
          BY <1>1, <4>1
        <4> QED
          BY <3>2, <4>1, <4>2
      <3>3. CASE i.type = "SQRT"
        <4>1. Len(g) = 6 /\ g[1] = arg /\ g[2] = mov /\ g[3] = save /\ g[4] = call /\ g[5] = back /\ g[6] = ret
          BY <2>2, <3>3
        <4>2. j = 1 \/ j = 2 \/ j = 3 \/ j = 4 \/ j = 5 \/ j = 6
          BY <1>1, <4>1
        <4> QED
          BY <3>3, <4>1, <4>2
      <3>4. CASE i.type = "HALT"
        <4>1. Len(g) = 4 /\ g[1] = mov /\ g[2] = save /\ g[3] = call /\ g[4] = back
          BY <2>2, <3>4
        <4>2. j = 1 \/ j = 2 \/ j = 3 \/ j = 4
          BY <1>1, <4>1
        <4> QED
          BY <3>4, <4>1, <4>2
      <3> QED
        BY <1>5, <3>1, <3>2, <3>3, <3>4 DEF LibFuncs
    <2>8. CASE j = 1
      BY <2>5, <2>6, <2>7, <2>8
    <2>9. CASE j # 1
      BY <2>6, <2>7, <2>9
    <2> QED
      BY <2>8, <2>9
  <1>6. CASE i.type \in {"JMP", "CALL"}
    <2>1. g = emit_jmp_or_call(i)
      BY <1>6, EncodedAs DEF g
    <2>2. Len(g) = 2 /\ g[1] = MovImm64("RAX", 0, "abs") /\ g[2].op \in {"CALL_reg", "JMP_reg"}
      BY <2>1 DEF emit_jmp_or_call, X, Ins
    <2>3. Quiet(g[1])
      BY <2>2, QuietMembers
    <2>4. Quiet(g[2])
      BY <2>2 DEF Quiet, Harmless
    <2>5. j = 1 \/ j = 2
      BY <1>1, <2>2
    <2> QED
      BY <1>1, <2>3, <2>4, <2>5, QuietExpected
  <1>7. CASE i.type = "RET"
    <2>1. g = << X("RET", "none", {}) >>
      BY <1>7, EncodedAs DEF g, emit_ret
    <2>2. Len(g) = 1 /\ Quiet(g[1])
      BY <2>1, QuietMembers
    <2>3. j = 1
      BY <1>1, <2>2
    <2> QED
      BY <2>2, <2>3, QuietExpected
  <1>8. CASE i.type \in Unsupported
    <2>1. g = << >>
      BY <1>8, EncodedAs DEF g
    <2> QED
      BY <1>1, <2>1
  <1> QED
    BY <1>2, <1>3, <1>4, <1>5, <1>6, <1>7, <1>8, TypeCases DEF LibFuncs

LEMMA BelowEmpty ==
    ASSUME NEW s \in Seq(Words), Len(s) >= 1, Below(s, 1) = << >>
    PROVE  Len(s) = 1
  <1>1. Len(s) \in Nat /\ Tail(s) = << >>
    BY BelowFacts
  <1>2. s # << >>
    BY <1>1
  <1>3. Len(Tail(s)) = Len(s) - 1
    BY <1>2
  <1>4. Len(Tail(s)) = 0
    <2> DEFINE t == Tail(s)
    <2>1. t = << >> /\ Len(<< >>) = 0
      BY <1>1
    <2> HIDE DEF t
    <2>2. Len(t) = 0
      BY <2>1
    <2> QED
      BY <2>2 DEF t
  <1> QED
    BY <1>1, <1>3, <1>4

LEMMA AmidExpected ==
    ASSUME NEW d, Amid(d), ir[text[d].cur].type \notin {"PUSH", "POP"}
    PROVE  Expected(ir[text[d].cur], text[d].k, text[d].x)
  <1> DEFINE i == ir[text[d].cur]
             g == encode_one_ir_instruction(i)
             j == text[d].k
             x == text[d].x
  <1>1. i \in Instr /\ j \in 1 .. Len(g) /\ Len(g) \in Nat /\ Like(x, g[j])
    BY AmidAtIr, AmidGroup
  <1>2. Expected(i, j, g[j])
    BY <1>1, GroupExpected
  <1>3. x.op = g[j].op /\ x.reg = g[j].reg
    BY <1>1 DEF Like
  <1> HIDE DEF i, g, j, x
  <1>4. Expected(i, j, x)
    BY <1>2, <1>3 DEF Expected
  <1> QED
    BY <1>4 DEF i, j, x

\* What the IR cannot go on from.
LEMMA FaultsAt ==
    ASSUME NEW i, AtIr(i),
           \/ Len(seen.stack) < Ir!Operands(i)
           \/ i.type = "RET" /\ seen.stack # << >> /\ Head(seen.stack).kind # "code"
           \/ i.type = "DIV" /\ seen.stack # << >> /\ Head(seen.stack) = Num(0)
    PROVE  Ir!Faults
  <1>1. Ir!instruction = i /\ Ir!Inside(ir, seen.pc) /\ Ir!Num(0) = Num(0)
    BY AtIrFacts, SameWords
  <1> QED
    BY <1>1 DEF Ir!Faults

\* An operand is not there.
LEMMA MissingOperand ==
    ASSUME NEW d, Amid(d), Exact, Reads(Fetched), stack = << >>
    PROVE  Ir!Faults
  <1> DEFINE i == ir[text[d].cur]
             x == text[d].x
             j == text[d].k
             s == seen.stack
             S == Img(stack)
             R == Img(regs)
             F == Img(flags)
             N == Read(typed)
             O == Written(printed)
  <1>1. AtIr(i) /\ i \in Instr /\ s \in Seq(Words) /\ Len(s) \in Nat
    BY AmidAtIr DEF AtIr, Held
  <1>2. x.op \in {"POP_reg", "POP_mem", "RET"} \cup Stacked /\ S = << >>
    <2>1. Fetched.op = x.op
      BY HereSafe DEF Amid
    <2> QED
      BY <2>1, NothingImg DEF Reads, Stacked
  <1>3. j \in Nat /\ Middle(i, j, seen, S, R, F, N, O)
    BY AmidGroup
  <1>4. CASE i.type \in {"PUSH", "POP"}
    <2>1. i.need_imm_arg \in BOOLEAN /\ i.need_reg_arg \in BOOLEAN /\ i.need_mem_arg \in BOOLEAN
      BY <1>1 DEF Instr
    <2>2. Fresh(seen, S, R, N, O)
      BY <1>4, PushPopGroup
    <2>3. i.type = "POP"
      BY <1>2, <1>4, <2>1, PushPopGroup DEF Stacked
    <2>4. seen.stack = << >>
      BY <1>2, <2>2 DEF Fresh
    <2> QED
      BY <1>1, <2>3, <2>4, PushPopFaults
  <1>5. CASE i.type \notin {"PUSH", "POP"}
    <2>1. Expected(i, j, x)
      BY <1>5, AmidExpected
    <2>2. j = 1 => s = << >>
      BY <1>2, <1>3 DEF Middle, Fresh
    <2>3. s = << >> => Len(s) = 0
      OBVIOUS
    <2>4. CASE x.op = "RET"
      <3>1. i.type = "RET" /\ Fresh(seen, S, R, N, O)
        BY <2>4, RetGroup
      <3>2. s = << >> /\ Ir!Operands(i) = 1
        BY <1>2, <3>1 DEF Fresh, Ir!Operands, Ir!Jumps
      <3> QED
        BY <1>1, <2>3, <3>2, FaultsAt
    <2>5. CASE x.op \in Stacked
      <3>1. i.type \in {"ADD", "SUB"} /\ j = 2
        BY <2>1, <2>5 DEF Expected
      <3>2. Len(s) >= 1 /\ S = Below(s, 1)
        BY <1>3, <3>1 DEF Middle, Within, InAddSub
      <3>3. Len(s) = 1
        BY <1>1, <1>2, <3>2, BelowEmpty
      <3>4. Ir!Operands(i) = 2
        BY <3>1 DEF Ir!Operands
      <3> QED
        BY <1>1, <3>3, <3>4, FaultsAt
    <2>6. CASE x.op = "POP_reg"
      <3>1. x.reg # "R8"
        <4>1. ~Backs(x)
          BY DEF Amid, Ready
        <4> QED
          BY <2>6, <4>1 DEF Backs
      <3>2. CASE i.type \in {"ADD", "SUB", "OUT", "SQRT"} /\ j = 1
        <4>1. Ir!Operands(i) = 1 \/ Ir!Operands(i) = 2
          BY <3>2 DEF Ir!Operands, Ir!Jumps
        <4>2. Len(s) = 0
          BY <2>2, <2>3, <3>2
        <4>3. Len(s) < Ir!Operands(i)
          BY <4>1, <4>2
        <4> QED
          BY <1>1, <4>3, FaultsAt
      <3>3. CASE i.type \in {"MUL", "DIV"} \cup Jumps /\ j \in 1 .. 2
        <4>1. Ir!Operands(i) = 2
          <5>1. i.type \in {"ADD", "SUB", "MUL", "DIV"} \cup Ir!Jumps
            BY <3>3, SameWords
          <5> DEFINE two == {"ADD", "SUB", "MUL", "DIV"} \cup Ir!Jumps
          <5>2. Ir!Operands(i) = CASE i.type \in two -> 2
                                   [] i.type \in {"POP", "SQRT", "OUT", "RET"} -> 1 [] OTHER -> 0
            BY DEF Ir!Operands
          <5>3. i.type \in two
            BY <5>1
          <5>4. i.type \notin {"POP", "SQRT", "OUT", "RET"}
            BY <3>3 DEF Jumps
          <5> HIDE DEF two
          <5> QED
            BY <5>2, <5>3, <5>4
        <4>2. j = 2 => Len(s) >= 1 /\ S = Below(s, 1)
          <5>1. CASE i.type \in {"MUL", "DIV"}
            BY <1>3, <5>1 DEF Middle, Within, InMulDiv
          <5>2. CASE i.type \in Jumps
            BY <1>3, <5>2 DEF Middle, Within, InJump
          <5> QED
            BY <3>3, <5>1, <5>2
        <4>3. j = 2 => Len(s) = 1
          BY <1>1, <1>2, <4>2, BelowEmpty
        <4>4. j = 1 \/ j = 2
          BY <3>3
        <4>5. Len(s) = 0 \/ Len(s) = 1
          BY <2>2, <2>3, <4>3, <4>4
        <4>6. Len(s) < Ir!Operands(i)
          <5> DEFINE n == Len(s)
                     m == Ir!Operands(i)
          <5>1. n = 0 \/ n = 1
            BY <4>5
          <5>2. m = 2
            BY <4>1
          <5> HIDE DEF n, m
          <5>3. n < m
            BY <5>1, <5>2
          <5> QED
            BY <5>3 DEF n, m
        <4> QED
          BY <1>1, <4>6, FaultsAt
      <3> QED
        BY <2>1, <2>6, <3>1, <3>2, <3>3 DEF Expected
    <2> QED
      BY <1>2, <2>1, <2>4, <2>5, <2>6 DEF Expected
  <1> QED
    BY <1>4, <1>5

\* The divisor is zero: that of a product, 100, is not.
LEMMA ZeroDivisor ==
    ASSUME NEW d, Amid(d), Fetched.op = "IDIV_reg", regs[Fetched.to] = Num(0), Exact
    PROVE  Ir!Faults
  <1> DEFINE i == ir[text[d].cur]
             x == text[d].x
             j == text[d].k
             s == seen.stack
             S == Img(stack)
             R == Img(regs)
             F == Img(flags)
             N == Read(typed)
             O == Written(printed)
             b == regs[To(x)]
  <1>1. AtIr(i) /\ i \in Instr /\ s \in Seq(Words) /\ Settled /\ Linked
    BY AmidAtIr DEF AtIr, Held
  <1>2. x.op = "IDIV_reg" /\ b = Num(0) /\ Shape(x) /\ SafeRegs(regs)
    BY HereSafe DEF Amid
  <1>3. To(x) = REGS[x.reg] /\ To(x) \in REG_NUMBERS
    BY <1>2, Registers
  <1>4. R[To(x)] = Num(0)
    <2>1. R[To(x)] = AsIr(b)
      BY <1>1, <1>2, <1>3, ImgRegs
    <2> HIDE DEF b
    <2> QED
      BY <1>2, <2>1, AsIrNum DEF Num
  <1>5. Middle(i, j, seen, S, R, F, N, O)
    BY AmidGroup
  <1>6. i.type \notin {"PUSH", "POP"}
    <2>1. ASSUME i.type \in {"PUSH", "POP"} PROVE x.op # "IDIV_reg"
      <3>1. i.need_imm_arg \in BOOLEAN /\ i.need_reg_arg \in BOOLEAN /\ i.need_mem_arg \in BOOLEAN
        BY <1>1 DEF Instr
      <3> QED
        BY <2>1, <3>1, PushPopGroup
    <2> QED
      BY <1>2, <2>1
  <1>7. i.type \in {"MUL", "DIV"} /\ j = 6 /\ x.reg = IF i.type = "MUL" THEN "RCX" ELSE "R12"
    BY <1>2, <1>6, AmidExpected DEF Expected
  <1>8. /\ R[12] = s[1] /\ Len(s) >= 2
        /\ R[1] = Num(FIXED_PRECISION_MULTIPLIER)
    BY <1>5, <1>7 DEF Middle, Within, InMulDiv, Low
  <1>9. i.type = "DIV"
    <2>1. Num(FIXED_PRECISION_MULTIPLIER) # Num(0)
      BY DEF Num, FIXED_PRECISION_MULTIPLIER
    <2>2. i.type = "MUL" => To(x) = 1
      BY <1>3, <1>7, RegNumbers
    <2> QED
      BY <1>4, <1>7, <1>8, <2>1, <2>2
  <1>10. To(x) = 12
    BY <1>3, <1>7, <1>9, RegNumbers
  <1>11. s # << >> /\ Head(s) = Num(0)
    BY <1>1, <1>4, <1>8, <1>10, HeadFirst
  <1> QED
    BY <1>1, <1>9, <1>11, FaultsAt

\* Whatever the processor is killed by.
LEMMA FaultyFaults ==
    ASSUME NEW d, Amid(d), Exact, Faulty(Fetched)
    PROVE  Ir!Faults
  <1> DEFINE i == ir[text[d].cur]
             x == text[d].x
  <1>1. AtIr(i) /\ i \in Instr /\ Settled /\ Linked
    BY AmidAtIr
  <1>2. Fetched.op = x.op /\ Fetched.to = To(x) /\ Shape(x) /\ SafeRegs(regs) /\ SafeStack(stack)
    BY HereSafe DEF Amid
  <1>3. i.need_imm_arg \in BOOLEAN /\ i.need_reg_arg \in BOOLEAN /\ i.need_mem_arg \in BOOLEAN
    BY <1>1 DEF Instr
  <1>4. CASE Fetched.op = "none"
    <2>1. i.type \in {"PUSH", "POP"}
      BY <1>2, <1>4, AmidExpected DEF Expected
    <2>2. ~i.need_mem_arg /\ ~i.need_reg_arg /\ ~i.need_imm_arg
      BY <1>2, <1>4, <2>1, PushPopGroup
    <2> QED
      BY <1>1, <2>1, <2>2, PushPopFaults
  <1>5. CASE Reads(Fetched) /\ stack = << >>
    BY <1>5, MissingOperand
  <1>6. ~(Fetched.op \in {"ADD_mem_reg", "SUB_mem_reg"} /\ Fetched.to # REGS.RSP)
    BY <1>2 DEF To, Stacked, MemOps
  <1>7. CASE Fetched.op \in MemOps /\ ~InRam(Fetched)
    <2>1. x.op \in {"PUSH_mem", "POP_mem"}
      BY <1>2, <1>7 DEF MemOps
    <2>2. i.type \in {"PUSH", "POP"}
      BY <2>1, AmidExpected DEF Expected
    <2>3. i.need_mem_arg
      BY <1>3, <2>1, <2>2, PushPopGroup
    <2>4. ~Ir!Addressed(i)
      BY <1>7, <2>2, <2>3, OperandInRam
    <2> QED
      BY <1>1, <2>2, <2>3, <2>4, PushPopFaults
  <1>8. CASE Fetched.op = "RET" /\ stack # << >> /\ Head(stack).kind # "code"
    <2>1. i.type = "RET" /\ Img(stack) = seen.stack
      BY <1>2, <1>8, RetGroup DEF Fresh
    <2>2. Head(seen.stack) = AsIr(Head(stack)) /\ seen.stack # << >> /\ Safe(Head(stack))
      BY <1>1, <1>2, <1>8, <2>1, ImgPop
    <2>3. Head(seen.stack).kind # "code"
      BY <1>1, <1>8, <2>2, AsIrWord
    <2> QED
      BY <1>1, <2>1, <2>2, <2>3, FaultsAt
  <1>9. CASE Fetched.op = "IDIV_reg" /\ regs[Fetched.to] = Num(0)
    BY <1>9, ZeroDivisor
  <1> QED
    BY <1>4, <1>5, <1>6, <1>7, <1>8, <1>9 DEF Faulty

LEMMA FaultFollowed ==
    ASSUME UNCHANGED vars, state = "running", Ir!Faults, Fault(Fetched),
           seen' = IF state' = "running" /\ AtGroup(rip') THEN Snapshot' ELSE seen
    PROVE  Followed
  <1>1. state' = "fault"
    BY DEF Fault
  <1>2. seen' = seen /\ ir' = ir
    BY <1>1, IndexFixed
  <1>3. Ir!Fault
    BY <1>1, <1>2, FaultStep
  <1> QED
    BY <1>1, <1>3 DEF Followed, Ir!MachineNext
-----------------------------------------------------------------------------
(* Every step of the machine is one of the IR's, or none.                  *)

LEMMA PushPopOps ==
    ASSUME NEW d, Amid(d), Exact, ir[text[d].cur].type \in {"PUSH", "POP"}
    PROVE  text[d].x.op \in {"none", "PUSH_mem", "POP_mem", "PUSH_reg", "POP_reg", "PUSH_imm"}
  <1> DEFINE i == ir[text[d].cur]
  <1>1. i.need_imm_arg \in BOOLEAN /\ i.need_reg_arg \in BOOLEAN /\ i.need_mem_arg \in BOOLEAN
    BY AmidAtIr DEF Instr
  <1> QED
    BY <1>1, PushPopGroup

\* The instructions of the code, but for the first one.
LEMMA AmidFollowed ==
    ASSUME NEW d, Amid(d), Exact, flags \in Words \X Words, Fine(rip', regs', stack', ram'),
           \/ Push(Fetched) \/ PopReg(Fetched) \/ PopMem(Fetched) \/ AddSub(Fetched) \/ Mov(Fetched)
           \/ MulDiv(Fetched) \/ Cmp(Fetched) \/ Jcc(Fetched) \/ Jump(Fetched) \/ Ret(Fetched)
    PROVE  Followed
  <1> DEFINE i == ir[text[d].cur]
             x == text[d].x
             single == i.type \in {"PUSH", "POP"}
  <1>1. Here(d) /\ Fetched.op = x.op /\ Fetched.next = base_addr + End(text[d])
    BY HereSafe DEF Amid
  <1>2. single => x.op \in {"none", "PUSH_mem", "POP_mem", "PUSH_reg", "POP_reg", "PUSH_imm"}
    BY PushPopOps
  <1>3. ~single => x.op \notin {"none", "PUSH_mem", "POP_mem"}
    BY AmidExpected DEF Expected
  <1>4. x.op # "MOV_reg_imm32"
    BY AmidAtIr DEF Member
  <1>5. ASSUME ~single, Acts(x, Img(stack), Img(regs), Img(stack'), Img(regs'), Img(flags')),
               rip' = Fetched.next, ram' = ram, UNCHANGED << typed, printed, state >>
        PROVE  Followed
    BY <1>1, <1>5, PlainStep
  <1>6. CASE Push(Fetched)
    <2>1. rip' = Fetched.next /\ ram' = ram /\ UNCHANGED << typed, printed, state >>
      BY <1>6 DEF Push, Step
    <2>2. ~single => Acts(x, Img(stack), Img(regs), Img(stack'), Img(regs'), Img(flags'))
      BY <1>1, <1>3, <1>6, PushActs
    <2> QED
      BY <1>5, <1>6, <2>1, <2>2, PushFollowed
  <1>7. CASE PopReg(Fetched)
    <2>1. rip' = Fetched.next /\ ram' = ram /\ UNCHANGED << typed, printed, state >>
      BY <1>7 DEF PopReg, Step
    <2>2. Acts(x, Img(stack), Img(regs), Img(stack'), Img(regs'), Img(flags'))
      BY <1>1, <1>7, PopActs
    <2> QED
      BY <1>5, <1>7, <2>1, <2>2, PopRegFollowed
  <1>8. CASE PopMem(Fetched)
    <2>1. single
      BY <1>1, <1>3, <1>8 DEF PopMem, Step
    <2> QED
      BY <1>8, <2>1, PopMemFollowed
  <1>9. CASE AddSub(Fetched)
    <2>1. rip' = Fetched.next /\ ram' = ram /\ UNCHANGED << typed, printed, state >>
      BY <1>9 DEF AddSub, Step
    <2>2. Acts(x, Img(stack), Img(regs), Img(stack'), Img(regs'), Img(flags'))
      BY <1>1, <1>9, AddSubActs
    <2>3. ~single
      BY <1>1, <1>2, <1>9 DEF AddSub, Step
    <2> QED
      BY <1>5, <2>1, <2>2, <2>3
  <1>10. CASE Mov(Fetched)
    <2>1. rip' = Fetched.next /\ ram' = ram /\ UNCHANGED << typed, printed, state >>
      BY <1>10 DEF Mov, Step
    <2>2. x.op = "MOV_reg_imm64"
      BY <1>1, <1>4, <1>10 DEF Mov, Step
    <2>3. Acts(x, Img(stack), Img(regs), Img(stack'), Img(regs'), Img(flags'))
      BY <1>1, <1>10, <2>2, MovActs
    <2> QED
      BY <1>2, <1>5, <2>1, <2>2, <2>3
  <1>11. CASE MulDiv(Fetched)
    <2>1. rip' = Fetched.next /\ ram' = ram /\ UNCHANGED << typed, printed, state >>
      BY <1>11 DEF MulDiv, Step
    <2>2. Acts(x, Img(stack), Img(regs), Img(stack'), Img(regs'), Img(flags'))
      BY <1>1, <1>11, MulDivActs
    <2>3. ~single
      BY <1>1, <1>2, <1>11 DEF MulDiv, Step
    <2> QED
      BY <1>5, <2>1, <2>2, <2>3
  <1>12. CASE Cmp(Fetched)
    <2>1. rip' = Fetched.next /\ ram' = ram /\ UNCHANGED << typed, printed, state >>
      BY <1>12 DEF Cmp, Step
    <2>2. Acts(x, Img(stack), Img(regs), Img(stack'), Img(regs'), Img(flags'))
      BY <1>1, <1>12, CmpActs
    <2>3. ~single
      BY <1>1, <1>2, <1>12 DEF Cmp, Step
    <2> QED
      BY <1>5, <2>1, <2>2, <2>3
  <1>13. CASE Jcc(Fetched)
    BY <1>13, JccFollowed
  <1>14. CASE Jump(Fetched)
    BY <1>14, GoFollowed, CallFollowed
  <1>15. CASE Ret(Fetched)
    BY <1>15, RetFollowed
  <1> QED
    BY <1>6, <1>7, <1>8, <1>9, <1>10, <1>11, <1>12, <1>13, <1>14, <1>15

LEMMA CodeFollowed ==
    ASSUME Settled, Linked, Exact, MachineInv, Execute, rip \notin Library,
           Tracks(rip, seen, regs, stack, ram, flags, typed, printed)
    PROVE  Followed
  <1>1. Fine(rip, regs, stack, ram) /\ flags \in Words \X Words
    BY DEF MachineInv, Execute
  <1>2. Fine(rip', regs', stack', ram')
    BY FetchedFine
  <1>3. /\ UNCHANGED vars /\ state = "running" /\ Held(seen)
        /\ seen' = IF state' = "running" /\ AtGroup(rip') THEN Snapshot' ELSE seen
    BY DEF Execute, Tracks
  <1>4. \/ Fault(Fetched)
        \/ Push(Fetched) \/ PopReg(Fetched) \/ PopMem(Fetched) \/ AddSub(Fetched) \/ Mov(Fetched)
        \/ MulDiv(Fetched) \/ Cmp(Fetched) \/ Jcc(Fetched) \/ Jump(Fetched) \/ Ret(Fetched)
    <2>1. \A f \in LibFuncs : LibAddr[f] \in Library
      BY LibraryApart
    <2>2. ~stdlib_inp /\ ~stdlib_out /\ ~stdlib_sqrt /\ ~stdlib_halt
      BY <2>1 DEF stdlib_inp, stdlib_out, stdlib_sqrt, stdlib_halt, LibFuncs
    <2> QED
      BY <2>2 DEF Execute
  <1>5. Kept(regs, stack, ram) /\ Arrived(rip, regs, stack)
    BY <1>1 DEF Fine
  <1>6. CASE rip = CodeEnd
    <2>1. Fetched.op = "none"
      BY <1>6, FetchedEnd
    <2>2. ~Jcc(Fetched) /\ ~Jump(Fetched) /\ Faulty(Fetched)
      BY <2>1 DEF Jcc, Jump, Faulty, CondOps
    <2>3. Fault(Fetched)
      BY <1>4, <2>2 DEF Push, PopReg, PopMem, AddSub, Mov, MulDiv, Cmp, Ret, Step
    <2>4. seen.pc = Len(ir) /\ Len(ir) \in Nat
      BY <1>6, LaidTypes DEF Tracks
    <2>5. ~Inside(ir, seen.pc)
      BY <2>4 DEF Inside
    <2>6. Ir!Faults
      BY <2>5, SameWords DEF Ir!Faults
    <2> QED
      BY <1>3, <2>3, <2>6, FaultFollowed
  <1>7. ASSUME NEW d \in 1 .. Len(text), rip = Place(d) PROVE Followed
    <2>1. Ready(d, regs, stack) /\ Means(d, Fetched)
      BY <1>5, <1>7, FetchedAt DEF Arrived
    <2>2. Here(d)
      BY <1>5, <2>1 DEF Here
    <2>3. Fetched.op = text[d].x.op
      BY <2>1 DEF Means
    <2>4. CASE text[d].cur = 0
      <3>1. Fetched.op = "MOV_reg_imm32"
        BY <2>3, <2>4, LaidFirst
      <3>2. ~Faulty(Fetched)
        BY <3>1 DEF Faulty, Reads, MemOps
      <3>3. Mov(Fetched)
        BY <1>4, <3>1, <3>2
           DEF Fault, Push, PopReg, PopMem, AddSub, MulDiv, Cmp, Jcc, Jump, Ret, Step, CondOps
      <3>4. /\ seen = NothingYet /\ stack = << >> /\ ram = [a \in {} |-> Num(0)] /\ typed = << >>
            /\ printed = << >> /\ regs = [q \in REG_NUMBERS |-> Undetermined]
        BY <1>7, <2>4 DEF Tracks
      <3> QED
        BY <1>2, <1>3, <2>2, <2>4, <3>3, <3>4, PreparationFollowed
    <2>5. CASE text[d].cur # 0
      <3>1. InGroup(d, text[d].k, seen, ram, stack, regs, flags, typed, printed)
        BY <1>7, <2>5 DEF Tracks
      <3>2. Amid(d)
        BY <1>3, <2>1, <2>2, <2>5, <3>1 DEF Amid
      <3>3. CASE Fault(Fetched)
        BY <1>3, <3>2, <3>3, FaultyFaults, FaultFollowed DEF Fault
      <3>4. CASE ~Fault(Fetched)
        BY <1>1, <1>2, <1>4, <3>2, <3>4, AmidFollowed
      <3> QED
        BY <3>3, <3>4
    <2> QED
      BY <2>4, <2>5
  <1> QED
    BY <1>5, <1>6, <1>7 DEF Arrived

LEMMA ExecuteFollowed ==
    ASSUME Settled, Linked, Exact, MachineInv, Execute, Tracking
    PROVE  Followed
  <1>1. Tracks(rip, seen, regs, stack, ram, flags, typed, printed)
    BY DEF Tracking, Execute
  <1>2. CASE rip \notin Library
    BY <1>1, <1>2, CodeFollowed
  <1>3. CASE rip \in Library
    <2>1. Fine(rip, regs, stack, ram) /\ typed \in Seq(Typed) /\ printed \in Seq(Texts)
      BY DEF MachineInv, Execute
    <2>2. stack \in Seq(Words) /\ Len(stack) >= 2 /\ Kept(regs, Tail(stack), ram)
      BY <1>3, <2>1 DEF Fine, Called
    <2>3. PICK d \in 1 .. Len(text) :
             /\ Backs(text[d].x) /\ rip = LibAddr[ir[text[d].cur].type] /\ stack[1] = Code(Place(d))
             /\ InGroup(d, text[d].k - 1, seen, ram, Tail(stack), regs, flags, typed, printed)
      BY <1>1, <1>3 DEF Tracks
    <2>4. /\ UNCHANGED vars /\ state = "running" /\ Held(seen)
          /\ seen' = IF state' = "running" /\ AtGroup(rip') THEN Snapshot' ELSE seen
      BY <1>1 DEF Execute, Tracks
    <2>5. Visiting(d)
      BY <2>2, <2>3, <2>4 DEF Visiting
    <2>6. stdlib_inp \/ stdlib_out \/ stdlib_sqrt \/ stdlib_halt
      BY <1>3 DEF Execute
    <2> QED
      BY <2>1, <2>5, <2>6, FunctionFollowed
  <1> QED
    BY <1>2, <1>3

LEMMA StartTracks ==
    ASSUME Settled, Linked, MachineInv, Tracking, execute
    PROVE  Tracks(rip', seen', regs', stack', ram', flags', typed', printed')
  <1>1. /\ rip' = base_addr /\ regs' = [r \in REG_NUMBERS |-> Undetermined] /\ stack' = << >>
        /\ ram' = [a \in {} |-> Num(0)] /\ seen' = NothingYet /\ typed' = << >> /\ printed' = << >>
    BY DEF execute, MachineInv, Tracking
  <1>2. 1 \in 1 .. Len(text) /\ text[1].at = 0 /\ text[1].cur = 0 /\ text # << >>
    BY LaidTypes DEF Settled, TextInv
  <1>3. Place(1) = base_addr
    BY <1>2, LaidTypes DEF Place
  <1>4. \A d \in 1 .. Len(text) : base_addr = Place(d) => d = 1
    BY <1>2, <1>3, LaidApart
  <1>5. base_addr # CodeEnd /\ base_addr \notin Library
    BY <1>2, <1>3, LibraryApart
  <1>6. Held(NothingYet)
    BY SafeWords DEF Held, NothingYet
  <1> QED
    BY <1>1, <1>2, <1>4, <1>5, <1>6 DEF Tracks

LEMMA TrackingInit == MachineInit => Tracking /\ Ir!MachineInit
  <1>1. MachineInit => Tracking
    BY DEF MachineInit, Tracking, NothingYet
  <1>2. MachineInit => Ir!MachineInit
    BY SameWords DEF MachineInit, Ir!MachineInit
  <1> QED
    BY <1>1, <1>2

LEMMA TrackingNext ==
    ASSUME Linked, Exact, TypeInv, TextInv, JumpsLand, MachineInv, Tracking, [MachineNext]_all
    PROVE  Tracking' /\ (Ir!MachineNext \/ UNCHANGED Ir!machine)
  <1>0. NothingYet' = NothingYet
    BY DEF NothingYet
  <1>1. CASE Compile
    <2>1. rip = 0
      BY <1>1 DEF Compile, MachineInv
    <2>2. rip' = 0 /\ seen' = seen /\ typed' = typed /\ printed' = printed /\ state' = state
      BY <1>1, <2>1 DEF Compile, processor
    <2>3. Tracking'
      BY <1>0, <2>1, <2>2 DEF Tracking
    <2>4. ir' = ir
      BY <1>1 DEF Compile, Next, NextIr, emit_instruction_calc_offset, emit_instruction_write, WriteFaults,
                  start_new_pass, Terminated, vars, args
    <2> QED
      BY <2>2, <2>3, <2>4 DEF Ir!machine
  <1>2. CASE execute
    <2>1. Settled /\ UNCHANGED vars
      BY <1>2 DEF Settled, execute
    <2>2. Tracks(rip', seen', regs', stack', ram', flags', typed', printed')
      BY <1>2, <2>1, StartTracks
    <2>3. Tracks(rip, seen, regs, stack, ram, flags, typed, printed)'
      BY <2>1, <2>2, TracksStays
    <2>4. rip' # 0
      BY <1>2, <2>1, ExecuteFine, FineNotZero
    <2>5. UNCHANGED Ir!machine
      BY <1>2, <2>1, IndexFixed DEF execute, Ir!machine
    <2> QED
      BY <2>3, <2>4, <2>5 DEF Tracking
  <1>3. CASE Execute
    <2>1. Settled /\ UNCHANGED vars
      BY <1>3 DEF Settled, Execute, vars
    <2>2. Followed
      BY <1>3, <2>1, ExecuteFollowed
    <2>3. state' = "running" => Tracks(rip, seen, regs, stack, ram, flags, typed, printed)'
      BY <2>1, <2>2, TracksStays DEF Followed
    <2>4. rip' # 0
      <3>1. Fine(rip', regs', stack', ram')
        BY <1>3, <2>1, LibraryFine, FetchedFine
      <3> QED
        BY <2>1, <3>1, FineNotZero
    <2> QED
      BY <2>2, <2>3, <2>4 DEF Tracking, Followed
  <1>4. CASE UNCHANGED all
    <2>1. /\ UNCHANGED vars /\ rip' = rip /\ seen' = seen /\ regs' = regs /\ stack' = stack /\ ram' = ram
          /\ flags' = flags /\ typed' = typed /\ printed' = printed /\ state' = state
      BY <1>4 DEF all, processor
    <2>2. rip' # 0 /\ state' = "running" => Tracks(rip', seen', regs', stack', ram', flags', typed', printed')
      BY <2>1 DEF Tracking
    <2>3. rip' # 0 /\ state' = "running" => Tracks(rip, seen, regs, stack, ram, flags, typed, printed)'
      BY <2>1, <2>2, TracksStays
    <2>4. Tracking'
      BY <1>0, <2>1, <2>3 DEF Tracking
    <2>5. UNCHANGED Ir!machine
      BY <2>1, IndexFixed DEF Ir!machine
    <2> QED
      BY <2>4, <2>5
  <1> QED
    BY <1>1, <1>2, <1>3, <1>4 DEF MachineNext, Stopped

LEMMA TrackingInvariant ==
    ASSUME Linked, Exact, AllocMayFail = FALSE, \A p \in Programs : Reachable(Len(p))
    PROVE  MachineSpec => [](TypeInv /\ TextInv /\ JumpsLand /\ MachineInv /\ Tracking)
  <1>1. MachineSpec => [](TypeInv /\ TextInv /\ JumpsLand /\ MachineInv)
    BY MachineInvariant
  <1>2. TypeInv /\ TextInv /\ JumpsLand /\ MachineInv /\ Tracking /\ [MachineNext]_all => Tracking'
    BY TrackingNext
  <1>3. MachineInit => Tracking
    BY TrackingInit
  <1> QED
    BY <1>1, <1>2, <1>3, PTL DEF MachineSpec

\* Whatever is compiled and whatever is typed: what the processor does with the
\* bytes that translate_from_ir has written, together with the library, is what
\* the IR says.  Between two groups the stack, ram and the registers hold its
\* words; a step inside of a group is no step of it; and the processor is killed
\* only where the IR tells nothing.
THEOREM ImplementsIr ==
    ASSUME Linked, Exact, AllocMayFail = FALSE, \A p \in Programs : Reachable(Len(p))
    PROVE  MachineSpec => ExecutesIr
  <1>1. MachineInit => Ir!MachineInit
    BY TrackingInit
  <1>2. TypeInv /\ TextInv /\ JumpsLand /\ MachineInv /\ Tracking /\ [MachineNext]_all
          => [Ir!MachineNext]_(Ir!machine)
    BY TrackingNext
  <1>3. MachineSpec => [](TypeInv /\ TextInv /\ JumpsLand /\ MachineInv /\ Tracking)
    BY TrackingInvariant
  <1> QED
    BY <1>1, <1>2, <1>3, PTL DEF MachineSpec, ExecutesIr, Ir!MachineSpec
=============================================================================
