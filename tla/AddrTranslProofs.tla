-------------------------- MODULE AddrTranslProofs --------------------------
(***************************************************************************)
(* What the operations of the address translator return.                   *)
(***************************************************************************)
EXTENDS AddrTransl, WellFoundedInduction, TLAPS

\* A set of natural numbers that is not empty has a least member.
LEMMA LeastMember ==
    ASSUME NEW S, S \subseteq Nat, S # {}
    PROVE  \E m \in S : \A n \in S : m <= n
  <1> DEFINE R == {ss \in Nat \X Nat : ss[1] < ss[2]}
  <1>1. R = OpToRel(<, Nat)
    BY DEF OpToRel
  <1>2. IsWellFoundedOn(R, Nat)
    BY <1>1, NatLessThanWellFounded
  <1>3. \E m \in S : \A n \in S : ~(<< n, m >> \in R)
    <2> HIDE DEF R
    <2> QED
      BY <1>2, WFMin
  <1>4. \A m, n \in Nat : ~(<< n, m >> \in R) => m <= n
    OBVIOUS
  <1> QED
    BY <1>3, <1>4

\* The translation of an address that is there is that of one of its mappings,
\* and the one of any other address is ERROR.
LEMMA TranslateResult ==
    ASSUME NEW t \in Translators, NEW a
    PROVE  \/ /\ \A i \in DOMAIN t.mappings : t.mappings[i].old_addr # a
              /\ addr_transl_translate(t, a) = ERROR
           \/ \E i \in DOMAIN t.mappings : /\ t.mappings[i].old_addr = a
                                           /\ addr_transl_translate(t, a) = t.mappings[i].new_addr
  <1> DEFINE hits == {i \in DOMAIN t.mappings : t.mappings[i].old_addr = a}
             first == CHOOSE i \in hits : \A j \in hits : i <= j
  <1>1. addr_transl_translate(t, a) =
           IF hits = {} THEN ERROR ELSE t.mappings[first].new_addr
    BY DEF addr_transl_translate
  <1>2. hits \subseteq Nat
    BY DEF Translators
  <1>3. ASSUME hits # {} PROVE first \in hits
    <2>1. \E m \in hits : \A n \in hits : m <= n
      <3> HIDE DEF hits
      <3> QED
        BY <1>2, <1>3, LeastMember
    <2> QED
      BY <2>1
  <1> HIDE DEF first
  <1> QED
    BY <1>1, <1>3

LEMMA SeqElement ==
    ASSUME NEW M, NEW s \in Seq(M)
    PROVE  Len(s) \in Nat /\ DOMAIN s = 1 .. Len(s) /\ \A i \in 1 .. Len(s) : s[i] \in M
  OBVIOUS

LEMMA AppendFacts ==
    ASSUME NEW M, NEW s \in Seq(M), NEW x \in M
    PROVE  /\ Append(s, x) \in Seq(M) /\ Len(Append(s, x)) = Len(s) + 1
           /\ DOMAIN Append(s, x) = 1 .. Len(s) + 1
           /\ \A i \in 1 .. Len(s) : Append(s, x)[i] = s[i]
           /\ Append(s, x)[Len(s) + 1] = x
  OBVIOUS

LEMMA TranslateType ==
    ASSUME NEW t \in Translators, NEW a PROVE addr_transl_translate(t, a) \in Int
  <1>1. t.mappings \in Seq([old_addr : Int, new_addr : Int])
    BY DEF Translators
  <1>2. \A i \in DOMAIN t.mappings : t.mappings[i] \in [old_addr : Int, new_addr : Int]
    BY <1>1, SeqElement
  <1>3. \A i \in DOMAIN t.mappings : t.mappings[i].new_addr \in Int
    BY <1>2
  <1> QED
    BY <1>3, TranslateResult DEF ERROR

\* An insertion appends a mapping or fails, and fails only if realloc may.
LEMMA InsertResult ==
    ASSUME NEW t \in Translators, NEW old \in Int, NEW new \in Int,
           NEW o \in addr_transl_insert(t, old, new)
    PROVE  \/ /\ o.res = "OK" /\ o.t \in Translators
              /\ o.t.mappings = Append(t.mappings, [old_addr |-> old, new_addr |-> new])
              /\ o.t.old_addr_is_stored = t.old_addr_is_stored
              /\ o.t.stored_old_addr = t.stored_old_addr
           \/ AllocMayFail /\ o.res = "ERROR" /\ o.t = t
  <1> DEFINE m    == [old_addr |-> old, new_addr |-> new]
             full == Len(t.mappings) = t.capacity
             room == IF full THEN resized(t) ELSE t
             ok   == [room EXCEPT !.mappings = Append(@, m)]
  <1>1. /\ room \in Translators /\ room.mappings = t.mappings
        /\ room.old_addr_is_stored = t.old_addr_is_stored
        /\ room.stored_old_addr = t.stored_old_addr
    <2>1. (IF t.capacity = 0 THEN START_CAPACITY ELSE 2 * t.capacity) \in Nat
      BY StartCapacityAssumption DEF Translators
    <2> QED
      BY <2>1 DEF resized, Translators
  <1>2. Append(t.mappings, m) \in Seq([old_addr : Int, new_addr : Int])
    BY DEF Translators
  <1>3. o = Outcome("OK", ok) \/ (AllocMayFail /\ o = Outcome("ERROR", t))
    BY DEF addr_transl_insert
  <1>4. /\ ok \in Translators /\ ok.mappings = Append(t.mappings, m)
        /\ ok.old_addr_is_stored = t.old_addr_is_stored
        /\ ok.stored_old_addr = t.stored_old_addr
    <2> HIDE DEF room
    <2> QED
      BY <1>1, <1>2 DEF Translators
  <1> HIDE DEF ok
  <1> QED
    BY <1>3, <1>4 DEF Outcome

\* ... and the slot is freed by the insertion that succeeds.
LEMMA InsertIfRememberedResult ==
    ASSUME NEW t \in Translators, NEW new \in Int,
           NEW o \in addr_transl_insert_if_remembered_addr(t, new)
    PROVE  /\ o.t \in Translators
           /\ \/ ~t.old_addr_is_stored /\ o.t = t
              \/ /\ t.old_addr_is_stored /\ ~o.t.old_addr_is_stored
                 /\ o.t.mappings =
                       Append(t.mappings, [old_addr |-> t.stored_old_addr, new_addr |-> new])
              \/ AllocMayFail /\ t.old_addr_is_stored /\ o.t = t
  <1>1. CASE ~t.old_addr_is_stored
    BY <1>1 DEF addr_transl_insert_if_remembered_addr, Outcome
  <1>2. CASE t.old_addr_is_stored
    <2>1. PICK p \in addr_transl_insert(t, t.stored_old_addr, new) :
             o = IF p.res = "OK" THEN [p EXCEPT !.t.old_addr_is_stored = FALSE] ELSE p
      BY <1>2 DEF addr_transl_insert_if_remembered_addr
    <2>2. t.stored_old_addr \in Int
      BY DEF Translators
    <2>3. CASE p.res = "OK"
      <3>1. /\ p.t \in Translators
            /\ p.t.mappings =
                  Append(t.mappings, [old_addr |-> t.stored_old_addr, new_addr |-> new])
        BY <2>2, <2>3, InsertResult
      <3>2. p = Outcome("OK", p.t)
        BY <2>3 DEF addr_transl_insert, Outcome
      <3>3. o.t = [p.t EXCEPT !.old_addr_is_stored = FALSE]
        BY <2>1, <2>3, <3>2 DEF Outcome
      <3> QED
        BY <1>2, <3>1, <3>3 DEF Translators
    <2>4. CASE p.res # "OK"
      BY <1>2, <2>1, <2>2, <2>4, InsertResult
    <2> QED
      BY <2>3, <2>4
  <1> QED
    BY <1>1, <1>2

LEMMA RememberResult ==
    ASSUME NEW t \in Translators, NEW a \in Int
    PROVE  LET o == addr_transl_remember_old_addr(t, a)
           IN  /\ o.t \in Translators /\ o.t.mappings = t.mappings
               /\ \/ t.old_addr_is_stored /\ o.res = "ERROR" /\ o.t = t
                  \/ /\ ~t.old_addr_is_stored /\ o.res = "OK"
                     /\ o.t.old_addr_is_stored /\ o.t.stored_old_addr = a
  BY DEF addr_transl_remember_old_addr, Outcome, Translators

\* An address is there; its translation is that of its oldest mapping.
HasOld(t, a) == \E i \in 1 .. Len(t.mappings) : t.mappings[i].old_addr = a

LEMMA FirstHit ==
    ASSUME NEW t \in Translators, NEW a, NEW i \in 1 .. Len(t.mappings),
           t.mappings[i].old_addr = a, \A j \in 1 .. i - 1 : t.mappings[j].old_addr # a
    PROVE  addr_transl_translate(t, a) = t.mappings[i].new_addr
  <1> DEFINE hits == {h \in DOMAIN t.mappings : t.mappings[h].old_addr = a}
             first == CHOOSE h \in hits : \A j \in hits : h <= j
  <1>1. DOMAIN t.mappings = 1 .. Len(t.mappings) /\ Len(t.mappings) \in Nat
    BY SeqElement DEF Translators
  <1>2. i \in hits /\ hits \subseteq Nat
    BY <1>1
  <1>3. \A j \in hits : i <= j
    <2> TAKE j \in hits
    <2>1. j \in Nat /\ i \in Nat /\ j >= 1 /\ ~(j \in 1 .. i - 1)
      BY <1>1
    <2> QED
      BY <2>1
  <1>4. addr_transl_translate(t, a) = t.mappings[first].new_addr
    BY <1>2 DEF addr_transl_translate
  <1> HIDE DEF hits
  <1>5. first \in hits /\ \A j \in hits : first <= j
    BY <1>2, <1>3
  <1>6. first \in Nat /\ first <= i /\ i <= first
    BY <1>2, <1>3, <1>5
  <1> HIDE DEF first
  <1>7. first = i
    BY <1>6
  <1> QED
    BY <1>4, <1>7

LEMMA HasFirst ==
    ASSUME NEW t \in Translators, NEW a, HasOld(t, a)
    PROVE  \E i \in 1 .. Len(t.mappings) :
              t.mappings[i].old_addr = a /\ \A j \in 1 .. i - 1 : t.mappings[j].old_addr # a
  <1> DEFINE hits == {h \in 1 .. Len(t.mappings) : t.mappings[h].old_addr = a}
  <1>1. hits # {} /\ hits \subseteq Nat /\ Len(t.mappings) \in Nat
    BY SeqElement DEF HasOld, Translators
  <1>2. \A h : h \in hits <=> h \in 1 .. Len(t.mappings) /\ t.mappings[h].old_addr = a
    OBVIOUS
  <1> HIDE DEF hits
  <1>3. PICK i \in hits : \A j \in hits : i <= j
    BY <1>1, LeastMember
  <1>4. ASSUME NEW j \in 1 .. i - 1 PROVE t.mappings[j].old_addr # a
    <2>1. i \in 1 .. Len(t.mappings) /\ i \in Nat
      BY <1>1, <1>2
    <2>2. j \in 1 .. Len(t.mappings) /\ ~(i <= j)
      BY <1>1, <2>1
    <2> QED
      BY <1>2, <1>3, <2>2
  <1> QED
    BY <1>2, <1>3, <1>4

\* The addresses that have a translation are those that are there.
LEMMA TranslateFinds ==
    ASSUME NEW t \in Translators, NEW a
    PROVE  /\ addr_transl_translate(t, a) # ERROR => HasOld(t, a)
           /\ HasOld(t, a) => \E i \in 1 .. Len(t.mappings) :
                                 addr_transl_translate(t, a) = t.mappings[i].new_addr
  <1>1. DOMAIN t.mappings = 1 .. Len(t.mappings)
    BY SeqElement DEF Translators
  <1> QED
    BY <1>1, TranslateResult, HasFirst, FirstHit DEF HasOld

\* An insertion leaves the translations that there are as they were, and gives an
\* address that was not there its own.
LEMMA InsertTranslates ==
    ASSUME NEW t \in Translators, NEW old \in Int, NEW new \in Int,
           NEW o \in addr_transl_insert(t, old, new), ~AllocMayFail
    PROVE  /\ o.t \in Translators /\ Len(t.mappings) \in Nat
           /\ Len(o.t.mappings) = Len(t.mappings) + 1
           /\ \A i \in 1 .. Len(t.mappings) : o.t.mappings[i] = t.mappings[i]
           /\ o.t.mappings[Len(t.mappings) + 1] = [old_addr |-> old, new_addr |-> new]
           /\ \A a : HasOld(t, a) =>
                 addr_transl_translate(o.t, a) = addr_transl_translate(t, a)
           /\ ~HasOld(t, old) => addr_transl_translate(o.t, old) = new
           /\ \A a : HasOld(o.t, a) <=> HasOld(t, a) \/ a = old
  <1> DEFINE n == Len(t.mappings)
             u == o.t
             x == [old_addr |-> old, new_addr |-> new]
  <1>1. u \in Translators /\ u.mappings = Append(t.mappings, x)
    BY InsertResult
  <1>2. /\ Len(u.mappings) = n + 1 /\ \A i \in 1 .. n : u.mappings[i] = t.mappings[i]
        /\ u.mappings[n + 1] = x /\ n \in Nat
    BY <1>1, AppendFacts, SeqElement DEF Translators
  <1>3. x.old_addr = old /\ x.new_addr = new
    OBVIOUS
  <1> HIDE DEF x, u
  <1>4. ASSUME NEW a, HasOld(t, a)
        PROVE  addr_transl_translate(u, a) = addr_transl_translate(t, a)
    <2>1. PICK i \in 1 .. n : /\ t.mappings[i].old_addr = a
                              /\ \A j \in 1 .. i - 1 : t.mappings[j].old_addr # a
      BY <1>4, HasFirst
    <2>2. addr_transl_translate(t, a) = t.mappings[i].new_addr
      BY <2>1, FirstHit
    <2>3. i \in 1 .. Len(u.mappings) /\ \A j \in 1 .. i - 1 : j \in 1 .. n
      BY <1>2
    <2>4. u.mappings[i].old_addr = a /\ \A j \in 1 .. i - 1 : u.mappings[j].old_addr # a
      BY <1>2, <2>1, <2>3
    <2>5. addr_transl_translate(u, a) = u.mappings[i].new_addr
      BY <1>1, <2>3, <2>4, FirstHit
    <2> QED
      BY <1>2, <2>2, <2>5
  <1>5. ASSUME ~HasOld(t, old) PROVE addr_transl_translate(u, old) = new
    <2>1. n + 1 \in 1 .. Len(u.mappings) /\ (n + 1) - 1 = n
      BY <1>2
    <2>2. \A j \in 1 .. (n + 1) - 1 : u.mappings[j].old_addr # old
      BY <1>2, <1>5, <2>1 DEF HasOld
    <2>3. addr_transl_translate(u, old) = u.mappings[n + 1].new_addr
      BY <1>1, <1>2, <1>3, <2>1, <2>2, FirstHit
    <2> QED
      BY <1>2, <1>3, <2>3
  <1>6. \A a : HasOld(u, a) <=> HasOld(t, a) \/ a = old
    <2>1. \A i : i \in 1 .. Len(u.mappings) <=> i \in 1 .. n \/ i = n + 1
      BY <1>2
    <2> QED
      BY <1>2, <1>3, <2>1 DEF HasOld
  <1> QED
    BY <1>1, <1>2, <1>4, <1>5, <1>6 DEF u, x
=============================================================================
