----------------------------- MODULE AddrTransl -----------------------------
(***************************************************************************)
(* The address translator (src/src/lib/address_translator.cpp): an         *)
(* associative list from old addresses (indices of IR instructions, numbers *)
(* of functions and labels) to new ones, with a one-place slot that holds an  *)
(* old address until the new one is known.  The struct is a record; an     *)
(* operation that changes it and may fail yields the set of its possible   *)
(* outcomes [res, t], so that its users choose one.                        *)
(***************************************************************************)
EXTENDS Integers, Sequences

CONSTANTS START_CAPACITY,  \* 16 in the source
          AllocMayFail     \* whether realloc may return a null pointer

ASSUME StartCapacityAssumption == START_CAPACITY \in Nat \ {0}
ASSUME AllocAssumption == AllocMayFail \in BOOLEAN

ERROR == -1   \* common.h: the translation of an address that is not there

Translators == [mappings : Seq([old_addr : Int, new_addr : Int]), capacity : Nat,
                old_addr_is_stored : BOOLEAN, stored_old_addr : Int]

addr_transl_new == [mappings |-> << >>, capacity |-> 0,
                    old_addr_is_stored |-> FALSE, stored_old_addr |-> 0]

Outcome(res, t) == [res |-> res, t |-> t]

resized(t) == [t EXCEPT !.capacity = IF @ = 0 THEN START_CAPACITY ELSE 2 * @]

\* The array grows, by a realloc that may fail, only when it is full.
addr_transl_insert(t, old, new) ==
    LET full == Len(t.mappings) = t.capacity
        room == IF full THEN resized(t) ELSE t
    IN  {Outcome("OK", [room EXCEPT !.mappings =
                            Append(@, [old_addr |-> old, new_addr |-> new])])}
        \cup (IF full /\ AllocMayFail THEN {Outcome("ERROR", t)} ELSE {})

\* The oldest of the mappings of the address: a later insertion of the same
\* old address is never seen.
addr_transl_translate(t, old) ==
    LET hits == {i \in DOMAIN t.mappings : t.mappings[i].old_addr = old}
    IN  IF hits = {} THEN ERROR
        ELSE t.mappings[CHOOSE i \in hits : \A j \in hits : i <= j].new_addr

addr_transl_remember_old_addr(t, old) ==
    IF t.old_addr_is_stored THEN Outcome("ERROR", t)
    ELSE Outcome("OK", [t EXCEPT !.old_addr_is_stored = TRUE, !.stored_old_addr = old])

SlotNeverFreed(t, new) ==
    IF ~t.old_addr_is_stored THEN {Outcome("OK", t)}
    ELSE addr_transl_insert(t, t.stored_old_addr, new)
SlotAlwaysFreed(t, new) ==
    IF ~t.old_addr_is_stored THEN {Outcome("OK", t)}
    ELSE {[o EXCEPT !.t.old_addr_is_stored = FALSE] :
             o \in addr_transl_insert(t, t.stored_old_addr, new)}
\* On a failed insertion the slot keeps its address.
addr_transl_insert_if_remembered_addr(t, new) ==
    IF ~t.old_addr_is_stored THEN {Outcome("OK", t)}
    ELSE {IF o.res = "OK" THEN [o EXCEPT !.t.old_addr_is_stored = FALSE] ELSE o :
             o \in addr_transl_insert(t, t.stored_old_addr, new)}
=============================================================================
