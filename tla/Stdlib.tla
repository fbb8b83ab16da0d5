------------------------------- MODULE Stdlib -------------------------------
(***************************************************************************)
(* The library in assembler that every binary carries (src/src/asm_stdlib/ *)
(* stdlib.nasm).  A text is a sequence of character codes.  The prompts    *)
(* that input_asm and output_asm write first are left out, and the calls   *)
(* of the kernel are taken to succeed.                                     *)
(***************************************************************************)
EXTENDS Integers, Sequences

Minus   == 45
Point   == 46
Zero_   == 48
Newline == 10

\* The loop .L4: the value of the characters before the first newline.
digits_value(line, first) ==
    LET rax[i \in first - 1 .. Len(line)] ==
          IF i = first - 1 THEN 0 ELSE 10 * rax[i - 1] + line[i] - Zero_
    IN  rax[(CHOOSE i \in first .. Len(line) :
                line[i] = Newline /\ \A j \in first .. i - 1 : line[j] # Newline) - 1]

\* What a line that ends with a newline, and fits into the buffer, is read as,
\* in hundredths.  Nothing checks that its characters are digits.
input_asm(line) ==
    IF line[1] = Minus THEN -100 * digits_value(line, 2) ELSE 100 * digits_value(line, 1)

\* The loop .L28 puts digits in front of what is there until nothing is left;
\* .L30 skips it if there is nothing from the start.
digits_before(n, text) ==
    LET put[rcx \in 0 .. n] ==
          IF rcx = 0 THEN << >> ELSE Append(put[rcx \div 10], Zero_ + (rcx % 10))
    IN  put[n] \o text

LeadingZeroFraction(magnitude) ==
    digits_before(magnitude \div 100, << Point >> \o digits_before(magnitude % 100, << Newline >>))
\* Two digits behind the point, always.
output_of(magnitude) ==
    LET rest == magnitude % 100
    IN  digits_before(magnitude \div 100,
                      << Point, Zero_ + (rest \div 10), Zero_ + (rest % 10), Newline >>)
\* neg and cmovs: the magnitude; the sign goes in front of the digits.
output_asm(arg) ==
    (IF arg < 0 THEN << Minus >> ELSE << >>) \o output_of(IF arg < 0 THEN -arg ELSE arg)

\* The root, truncated, and a factor of 10: a root in hundredths has a tenth of
\* the precision.  NaN is converted to -2^63, which the factor turns into 0.
sqrt_asm(a) == IF a < 0 THEN 0 ELSE 10 * (CHOOSE r \in 0 .. a : r * r <= a /\ (r + 1) * (r + 1) > a)
-----------------------------------------------------------------------------
\* For the properties: the number that a printed text denotes, in hundredths.
Denotes(text) ==
    LET sign == IF text[1] = Minus THEN -1 ELSE 1
        value[i \in 0 .. Len(text)] ==
          IF i = 0 THEN 0
          ELSE IF text[i] \in {Minus, Point, Newline} THEN value[i - 1]
          ELSE 10 * value[i - 1] + text[i] - Zero_
    IN  sign * value[Len(text)]
\* A number, with at most one sign in front, two digits behind the point.
Readable(text) ==
    /\ Len(text) >= 4 /\ text[Len(text)] = Newline /\ text[Len(text) - 3] = Point
    /\ \A i \in DOMAIN text \ {Len(text), Len(text) - 3} :
          text[i] \in Zero_ .. Zero_ + 9 \/ (i = 1 /\ text[i] = Minus)
=============================================================================
