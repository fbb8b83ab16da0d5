------------------------------- MODULE Driver -------------------------------
(***************************************************************************)
(* One run of the compiler (src/src/main.cpp): the calls of                *)
(* load_and_compile in their order, x64::save (x64_elf.cpp) call by call,  *)
(* every failure that the code looks at and those it does not.  `at` names *)
(* the call that comes next.  The translators are taken by their results;  *)
(* AstConverter and X64Emitter say when they yield which.                  *)
(*                                                                         *)
(* A stream of the C library holds what is written until its buffer is     *)
(* full, or until fseek or fclose; that is when a full disk shows.  Such    *)
(* an error lasts to the end of the run, and a part of the file is on the  *)
(* disk as a whole or not at all.                                          *)
(***************************************************************************)
EXTENDS TreeFormat, ElfImage

CONSTANTS Trees,       \* trees that have been saved
          Damages,     \* what may have happened to a dump: a set of names
          CodeSizes,   \* sizes of the code that the back end may yield
          Buffers      \* sizes a stream's buffer may have

Damaged(dump, damage, n) ==
    CASE damage = "none"   -> dump
      [] damage = "cut"    -> SubSeq(dump, 1, n)       \* the writer was stopped
      [] damage = "headed" -> << Junk >> \o dump       \* text before the tree
      [] damage = "tailed" -> dump \o << Junk, OpenBrace >>

ASSUME TreesAssumption == Trees \subseteq Nodes
ASSUME SizesAssumption == CodeSizes \subseteq Nat \ {0} /\ Buffers \subseteq Nat
ASSUME DamagesAssumption == Damages \subseteq {"none", "cut", "headed", "tailed"}

VARIABLES
    argc, tree, dump,    \* the arguments; tree is what the dump was made from
    fills_pages,         \* the size of the dump is a multiple of the page size
    at, res, exit_code, printed,
    ast, x64_code, exec_buf_size,
    binary,              \* the parts that are on the disk; "earlier" is another binary
    stream, capacity,    \* the parts in the buffer of the stream; its size
    disk_full, stdlib_found

inputs  == << argc, tree, dump, fills_pages >>
objects == << ast, x64_code, exec_buf_size >>
files   == << binary, stream, capacity, disk_full, stdlib_found >>
vars    == << inputs, at, res, exit_code, printed, objects, files >>

Calls == {"main", "mmap_file_or_warn", "load_tree", "ir_code_new", "from_ast", "x64_code_new",
          "translate_from_ir", "open_file_or_warn", "write_headers", "seek_stdlib", "load_stdlib",
          "seek_code", "write_code", "fclose", "report", "return", "exit"}
Messages == {"parameters", "usage", "warning", "failed"}

TypeOK ==
    /\ argc \in Nat /\ tree \in Trees /\ fills_pages \in BOOLEAN
    /\ at \in Calls /\ res \in {"none", "OK", "ERROR"}
    /\ exit_code \in {"none", "0", "255", "signal"} /\ printed \subseteq Messages
    /\ x64_code \in {"none", "valid", "nullptr"} /\ exec_buf_size \in CodeSizes \cup {0}
    /\ binary \in {{"earlier"}} \cup SUBSET Parts /\ stream \subseteq Parts
    /\ capacity \in Buffers \cup {0}
    /\ disk_full \in BOOLEAN /\ stdlib_found \in BOOLEAN
-----------------------------------------------------------------------------
\* log.cpp: LOG_LEVEL is DEBUG unless set_log_level is called, which main does not.
Level == [DEBUG |-> 1, INFO |-> 2, WARN |-> 3, ERROR |-> 4]
LOG_LEVEL == Level.DEBUG
LoggedBelow(lvl) == Level[lvl] <= LOG_LEVEL
Logged(lvl) == Level[lvl] >= LOG_LEVEL
Log(lvl, message) == IF Logged(lvl) THEN {message} ELSE {}

Init ==
    /\ argc \in {2, 3}
    /\ tree \in Trees
    /\ \E damage \in Damages, n \in 0 .. Len(save_tree(tree)) - 1 :
          dump = Damaged(save_tree(tree), damage, n)
    /\ fills_pages \in BOOLEAN
    /\ at = "main" /\ res = "none" /\ exit_code = "none" /\ printed = {}
    /\ ast = nullptr /\ x64_code = "none" /\ exec_buf_size = 0
    /\ binary = {"earlier"} /\ stream = {} /\ capacity = 0
    /\ disk_full = FALSE /\ stdlib_found \in BOOLEAN

Then(name, next) == at = name /\ at' = next
\* UNWRAP_ERROR, UNWRAP_NULLPTR, UNWRAP_WRITE: back to main with an error.
Unwrap(name) == at = name /\ at' = "report" /\ res' = "ERROR"
\* A signal, or abort: buffers are lost.
Killed(name) == at = name /\ at' = "exit" /\ exit_code' = "signal"

main ==
    /\ at = "main"
    /\ IF argc # 3
       THEN /\ at' = "return" /\ exit_code' = "255"
            /\ printed' = printed \cup Log("ERROR", "parameters") \cup {"usage"}
       ELSE at' = "mmap_file_or_warn" /\ UNCHANGED << exit_code, printed >>
    /\ UNCHANGED << inputs, res, objects, files >>

\* open, for reading and writing, and mmap may fail; an empty file is not mapped.
mmap_file_or_warn ==
    /\ \/ dump # << >> /\ Then("mmap_file_or_warn", "load_tree") /\ UNCHANGED << res, printed >>
       \/ Unwrap("mmap_file_or_warn") /\ printed' = printed \cup {"warning"}
    /\ UNCHANGED << inputs, exit_code, objects, files >>

\* The dump is read as a string: the search for a brace, and sscanf, which
\* looks for the end of the string, leave the mapping if nothing in it stops
\* them.  calloc may fail at any node.
load_tree_ ==
    /\ at = "load_tree"
    /\ \/ /\ fills_pages \/ ~HasTree(dump)
          /\ Killed("load_tree") /\ UNCHANGED << res, ast >>
       \/ /\ ~fills_pages /\ HasTree(dump)
          /\ ast' \in {load_tree(dump), nullptr}
          /\ IF ast' = nullptr THEN Unwrap("load_tree")
                               ELSE Then("load_tree", "ir_code_new") /\ UNCHANGED res
          /\ UNCHANGED exit_code
    /\ UNCHANGED << inputs, printed, x64_code, exec_buf_size, files >>

ir_code_new ==
    /\ \/ Then("ir_code_new", "from_ast") /\ UNCHANGED res
       \/ Unwrap("ir_code_new")
    /\ UNCHANGED << inputs, exit_code, printed, objects, files >>

\* On success the tree is deleted.
from_ast ==
    /\ \/ Then("from_ast", "x64_code_new") /\ ast' = nullptr /\ UNCHANGED << res, exit_code >>
       \/ Unwrap("from_ast") /\ UNCHANGED << ast, exit_code >>
       \/ Killed("from_ast") /\ UNCHANGED << ast, res >>
    /\ UNCHANGED << inputs, printed, x64_code, exec_buf_size, files >>

\* calloc and mmap may fail; the result is not looked at.
x64_code_new ==
    /\ Then("x64_code_new", "translate_from_ir")
    /\ x64_code' \in {"valid", "nullptr"}
    /\ UNCHANGED << inputs, res, exit_code, printed, ast, exec_buf_size, files >>

ResultUnseen ==
    /\ \/ /\ x64_code = "valid" /\ Then("translate_from_ir", "open_file_or_warn")
          /\ exec_buf_size' \in CodeSizes \cup {0} /\ UNCHANGED << res, exit_code >>
       \/ Killed("translate_from_ir") /\ UNCHANGED << exec_buf_size, res >>
    /\ UNCHANGED << inputs, printed, ast, x64_code, files >>
translate_from_ir ==
    /\ \/ /\ x64_code = "valid" /\ Then("translate_from_ir", "open_file_or_warn")
          /\ exec_buf_size' \in CodeSizes /\ UNCHANGED << res, exit_code >>
       \/ /\ x64_code = "valid" /\ Unwrap("translate_from_ir")
          /\ UNCHANGED << exec_buf_size, exit_code >>
       \/ Killed("translate_from_ir") /\ UNCHANGED << exec_buf_size, res >>
    /\ UNCHANGED << inputs, printed, ast, x64_code, files >>
-----------------------------------------------------------------------------
AppendsToFile ==
    /\ \/ /\ Then("open_file_or_warn", "write_headers")
          /\ capacity' \in Buffers /\ UNCHANGED << binary, res, printed >>
       \/ /\ Unwrap("open_file_or_warn") /\ printed' = printed \cup {"warning"}
          /\ UNCHANGED << binary, capacity >>
    /\ UNCHANGED << inputs, exit_code, objects, stream, disk_full, stdlib_found >>
\* The file is truncated when it is opened.
open_file_or_warn ==
    /\ \/ /\ Then("open_file_or_warn", "write_headers")
          /\ binary' = {} /\ capacity' \in Buffers /\ UNCHANGED << res, printed >>
       \/ /\ Unwrap("open_file_or_warn") /\ printed' = printed \cup {"warning"}
          /\ UNCHANGED << binary, capacity >>
    /\ UNCHANGED << inputs, exit_code, objects, stream, disk_full, stdlib_found >>

\* The stream writes these parts to the disk, if the disk takes them.
Flush(parts) ==
    \/ parts = {} /\ UNCHANGED << binary, disk_full >>
    \/ parts # {} /\ ~disk_full /\ binary' = binary \cup parts /\ UNCHANGED disk_full
    \/ parts # {} /\ disk_full' = TRUE /\ UNCHANGED binary

\* fwrite: what does not fit into the buffer goes to the disk.  The result is
\* 1 unless that fails.
Buffered(part) == SizeOf(part, exec_buf_size) <= capacity
Fwrite(part) ==
    IF Buffered(part) THEN stream' = stream \cup {part} /\ UNCHANGED << binary, disk_full >>
    ELSE stream' = {} /\ Flush(stream \cup {part})
Refused_(part) == ~Buffered(part) /\ disk_full'

RetriesWrite ==
    /\ at = "write_headers"
    /\ Fwrite("headers")
    /\ IF Refused_("headers") THEN UNCHANGED << at, res >>
                              ELSE Then("write_headers", "seek_stdlib") /\ UNCHANGED res
    /\ UNCHANGED << inputs, exit_code, printed, objects, capacity, stdlib_found >>
\* Five calls of fwrite; the first error ends them.
write_headers ==
    /\ at = "write_headers"
    /\ Fwrite("headers")
    /\ IF Refused_("headers") THEN Unwrap("write_headers")
                              ELSE Then("write_headers", "seek_stdlib") /\ UNCHANGED res
    /\ UNCHANGED << inputs, exit_code, printed, objects, capacity, stdlib_found >>

\* fseek empties the buffer; its result is not looked at.
Fseek(name, next) ==
    /\ Then(name, next)
    /\ Flush(stream) /\ stream' = {}
    /\ UNCHANGED << inputs, res, exit_code, printed, objects, capacity, stdlib_found >>
seek_stdlib == Fseek("seek_stdlib", "load_stdlib")
CodeForgotten == Fseek("seek_code", "fclose")
seek_code   == Fseek("seek_code", "write_code")

\* The result of load_stdlib is not looked at.  (Its assertions are about
\* stdlib.out, and hold of the one that is built.)
load_stdlib ==
    /\ Then("load_stdlib", "seek_code")
    /\ IF stdlib_found THEN Fwrite("stdlib") /\ UNCHANGED printed
       ELSE printed' = printed \cup {"warning"} /\ UNCHANGED << stream, binary, disk_full >>
    /\ UNCHANGED << inputs, res, exit_code, objects, capacity, stdlib_found >>

write_code ==
    /\ at = "write_code"
    /\ Fwrite("code")
    /\ IF Refused_("code") THEN Unwrap("write_code")
                           ELSE Then("write_code", "fclose") /\ UNCHANGED res
    /\ UNCHANGED << inputs, exit_code, printed, objects, capacity, stdlib_found >>

\* The result of fclose is not looked at.  code_delete follows; main returns 0.
fclose ==
    /\ Then("fclose", "return") /\ res' = "OK" /\ exit_code' = "0"
    /\ Flush(stream) /\ stream' = {}
    /\ x64_code' = "none"
    /\ UNCHANGED << inputs, printed, ast, exec_buf_size, capacity, stdlib_found >>

\* main after an error: it has no return statement there, which means 0.
report ==
    /\ Then("report", "return") /\ exit_code' = "0"
    /\ printed' = printed \cup Log("ERROR", "failed")
    /\ UNCHANGED << inputs, res, objects, files >>

return == /\ Then("return", "exit")
          /\ UNCHANGED << inputs, res, exit_code, printed, objects, files >>

Ended == at = "exit" /\ UNCHANGED vars

Next == \/ main \/ mmap_file_or_warn \/ load_tree_ \/ ir_code_new \/ from_ast \/ x64_code_new
        \/ translate_from_ir \/ open_file_or_warn \/ write_headers \/ seek_stdlib \/ load_stdlib
        \/ seek_code \/ write_code \/ fclose \/ report \/ return \/ Ended

Spec == Init /\ [][Next]_vars
\* A sequential program, whose system calls return.
FairSpec == Spec /\ WF_vars(Next)
-----------------------------------------------------------------------------
\* Whatever has happened to the dump, what load_tree accepts is the tree that
\* was saved, with every only child on the right: a dump that was cut off is
\* refused, what stands around the tree is ignored.
OnlyWholeTrees == ast # nullptr => ast = Straightened[tree]

\* The kernel can start the file, and all of the code is in it.
Executable == {"headers", "code"} \subseteq binary /\ exec_buf_size \in CodeSizes

\* The exit code is the same after a failure: so a run that ends without a
\* binary, and not by a signal, tells so in its log, if only the disk works.
FailureReported ==
    at = "exit" /\ exit_code # "signal" /\ ~Executable /\ ~disk_full
        => printed \cap {"failed", "parameters"} # {}

\* If load_and_compile returns OK then the binary is complete, except for what
\* the code does not look at: stdlib.out, and the disk behind the stream.
OkMeansComplete == at = "exit" /\ res = "OK" /\ stdlib_found /\ ~disk_full => binary = Parts

\* The offsets that save seeks to, the program headers and the addresses for
\* which the back end has made the code fit together, in a loaded binary, as
\* long as the code ends below RAM, and no longer.
ImageInPlace ==
    binary = Parts =>
        (/\ Placed(binary, exec_buf_size, "code", CODE_BASE_ADDR)
         /\ Placed(binary, exec_buf_size, "stdlib", STDLIB_BASE_ADDR)
         /\ RamPlaced(exec_buf_size)) <=> exec_buf_size <= CodeRoom

\* The run keeps the promises of Delivery.
Promised == INSTANCE Delivery WITH
    binary  <- IF "earlier" \in binary THEN "earlier" ELSE IF Executable THEN "whole" ELSE "begun",
    answer  <- IF at # "exit" THEN "none" ELSE IF exit_code = "signal" THEN "killed"
               ELSE IF res = "OK" THEN "success" ELSE "failure",
    trouble <- disk_full
Implements == Promised!DeliverySpec

\* A binary that is announced holds the standard library (README.md:220).
HoldsLibrary == at = "exit" /\ res = "OK" /\ ~disk_full => "stdlib" \in binary

\* The compiler ends.
Ends == <>(at = "exit")
=============================================================================
