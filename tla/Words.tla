------------------------------- MODULE Words --------------------------------
(***************************************************************************)
(* What the generated code computes with: a 64 bit word is a number, the   *)
(* address of code, or something the code does not determine.  64 bit      *)
(* overflow is not modelled.                                               *)
(***************************************************************************)
EXTENDS Integers, Sequences

QWORD == 8   \* bytes of a word

Num(v)  == [kind |-> "num", v |-> v]
Code(i) == [kind |-> "code", v |-> i]
Undetermined == [kind |-> "undetermined", v |-> 0]
Words   == [kind : {"num", "code", "undetermined"}, v : Int]

\* A memory is a function from byte addresses to words, zero where nothing is
\* stored.  Two words at different addresses may share bytes.
Overlap(a, b) == a # b /\ a - b \in 1 - QWORD .. QWORD - 1
Load(ram, a)  == IF a \in DOMAIN ram THEN ram[a]
                 ELSE IF \E b \in DOMAIN ram : Overlap(a, b) THEN Undetermined ELSE Num(0)
Store(ram, a, w) == [b \in {c \in DOMAIN ram : ~Overlap(a, c)} \cup {a} |->
                       IF b = a THEN w ELSE ram[b]]

\* Division rounds towards zero; the remainder has the sign of the dividend.
Magnitude_(a) == IF a < 0 THEN -a ELSE a
Quotient(a, b) == LET q == Magnitude_(a) \div Magnitude_(b) IN IF (a < 0) = (b < 0) THEN q ELSE -q
Remainder(a, b) == a - b * Quotient(a, b)
=============================================================================
