-------------------------- MODULE CompiledMeaning ---------------------------
(***************************************************************************)
(* What a compiled program prints, against the reference interpreter of    *)
(* RevLang.  (For TLC only: the interpreter is recursive.)                 *)
(***************************************************************************)
EXTENDS CompiledProgram, RevLang

\* The value of a program is what the language gives it: it prints what the
\* reference interpreter prints, and is killed only where that one finds a
\* division by zero.
OutputMatches ==
    status = "OK" /\ state # "running" =>
        LET meaning == Interpreted(tree, input)
        IN  /\ (state = "exit") = (meaning.stop # "fault")
            /\ out = [i \in DOMAIN meaning.out |-> Machine!Num(meaning.out[i])]
=============================================================================
