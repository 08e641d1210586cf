------------------------ MODULE SectionFilter_proofs ------------------------
(***************************************************************************)
(* Proofs about SectionFilter, for every number of sections, every set of  *)
(* removable ones and every linkage: a kept section ends at its own number *)
(* less the dropped sections in front of it.                               *)
(***************************************************************************)
EXTENDS SectionFilter, FiniteSetTheorems, SequenceTheorems, TLAPS

Cnt(s) == Cardinality(Before(s))
Place(s) == s - Cnt(s)
CopiedLink(s) ==
  IF Cnt(s) # 0 /\ link[s] > 0 THEN Minus(link[s], Cnt(s), Word) ELSE link[s]
LinkOf(s) == IF Written /\ s \in Regenerated THEN link[s] ELSE CopiedLink(s)

(* The counter, the output built so far and the handles agree with the     *)
(* numbers of the sections the loop has passed.                            *)
Counted ==
  /\ removed = Cnt(scn)
  /\ Len(out) = IF scn = NScn + 2 THEN NScn - removed ELSE scn - 1 - removed

Placed ==
  \A s \in Kept : s < scn =>
    Place(s) \in DOMAIN out /\ out[Place(s)] = [from |-> s, link |-> LinkOf(s)]

Sound ==
  \A i \in DOMAIN out :
    out[i].from \in Kept /\ out[i].from < scn /\ Place(out[i].from) = i

Ordered == \A i, j \in DOMAIN out : i < j => out[i].from < out[j].from

Handles ==
  /\ \A s \in Handled : outOf[s] = IF s \in Kept /\ s < scn THEN Place(s) ELSE 0
  /\ relocOut = IF relocScn < scn THEN Place(relocScn) ELSE 0

Header ==
  IF Written
    THEN ehdr.shnum = NScn + 1 - removed /\ ehdr.shstrndx = Minus(shstrndx, removed, Half)
    ELSE ehdr = [shnum |-> NScn + 1, shstrndx |-> shstrndx]

IInv == TypeOK /\ Counted /\ Placed /\ Sound /\ Ordered /\ Handles /\ Header
-----------------------------------------------------------------------------
(* Passing a section changes the count of dropped ones by that section.    *)
LEMMA CountStep ==
  ASSUME NEW s \in Nat \ {0}
  PROVE  /\ Cnt(s) \in Nat
         /\ Cnt(s + 1) = IF s \in Dropped THEN Cnt(s) + 1 ELSE Cnt(s)
<1>1. IsFiniteSet(Before(s))
  <2>1. IsFiniteSet(1 .. NScn)
    BY FS_Interval, SectionAssumption
  <2>2. Before(s) \subseteq 1 .. NScn
    BY SectionAssumption DEF Before, Dropped, Scn
  <2> QED BY <2>1, <2>2, FS_Subset
<1>2. Cnt(s) \in Nat
  BY <1>1, FS_CardinalityType DEF Cnt
<1>3. Dropped \subseteq Nat
  BY SectionAssumption DEF Dropped, Scn
<1>4. CASE s \in Dropped
  <2>0. ~(s < s) /\ \A d \in Dropped : d < s + 1 <=> d < s \/ d = s
    BY <1>3
  <2>1. Before(s + 1) = Before(s) \cup {s} /\ s \notin Before(s)
    BY <1>4, <2>0, Zenon DEF Before
  <2>2. Cardinality(Before(s) \cup {s}) = Cardinality(Before(s)) + 1
    BY <1>1, <2>1, FS_AddElement
  <2> QED BY <1>2, <1>4, <2>1, <2>2 DEF Cnt
<1>5. CASE s \notin Dropped
  <2>0. \A d \in Dropped : d < s + 1 <=> d < s
    BY <1>3, <1>5
  <2>1. Before(s + 1) = Before(s)
    BY <2>0, Zenon DEF Before
  <2> QED BY <1>2, <1>5, <2>1 DEF Cnt
<1> QED BY <1>4, <1>5, <1>2

(* In front of the first section nothing is dropped. *)
LEMMA CountFirst == Cnt(1) = 0
<1>1. \A d \in Dropped : ~(d < 1)
  BY SectionAssumption DEF Dropped, Scn
<1>2. Before(1) = {}
  BY <1>1, Zenon DEF Before
<1> QED BY <1>2, FS_EmptySet DEF Cnt

(* The loop starts with the invariant. *)
LEMMA InitIInv == Init => IInv
<1> SUFFICES ASSUME Init PROVE IInv
  OBVIOUS
<1> USE SectionAssumption DEF Init, Scn
<1>1. TypeOK
  BY DEF TypeOK
<1>2. Counted
  BY CountFirst DEF Counted
<1>3. Placed /\ Sound /\ Ordered
  BY DEF Placed, Sound, Ordered, Kept
<1>4. Handles
  BY DEF Handles, Kept
<1>5. Header
  BY DEF Header, Written
<1> QED BY <1>1, <1>2, <1>3, <1>4, <1>5 DEF IInv

(* Nothing the counts are made of changes. *)
LEMMA CountKept ==
  ASSUME UNCHANGED all
  PROVE  Dropped' = Dropped /\ Kept' = Kept /\ \A s : Before(s)' = Before(s) /\ Cnt(s)' = Cnt(s)
  BY DEF Dropped, Kept, Before, Cnt

(* Dropping a section moves the counter along and leaves the rest. *)
LEMMA DropIInv == IInv /\ DropScn => IInv'
<1> SUFFICES ASSUME IInv, DropScn PROVE IInv'
  OBVIOUS
<1> USE SectionAssumption
<1>0. /\ scn \in Scn /\ scn \in Nat \ {0} /\ scn \in Dropped /\ scn \notin Kept
      /\ removed' = removed + 1 /\ scn' = scn + 1 /\ UNCHANGED <<all, link, out, outOf, relocOut, ehdr, syms>>
  BY DEF DropScn, Needed, Dropped, Kept, Scn
<1>1. /\ Dropped' = Dropped /\ Kept' = Kept
      /\ \A s : Cnt(s)' = Cnt(s) /\ Place(s)' = Place(s) /\ LinkOf(s)' = LinkOf(s)
  BY <1>0, CountKept DEF Place, LinkOf, CopiedLink, Written, Scn
<1>2. Counted'
  <2>1. Cnt(scn + 1) = Cnt(scn) + 1 /\ Cnt(scn) \in Nat
    BY <1>0, CountStep
  <2>2. removed' = Cnt(scn)'
    BY <1>0, <1>1, <2>1 DEF IInv, Counted, Cnt, Before
  <2>3. Len(out) = scn - 1 - removed
    BY <1>0 DEF IInv, Counted, Scn
  <2>4. removed \in Nat
    BY DEF IInv, TypeOK
  <2> QED BY <1>0, <2>2, <2>3, <2>4 DEF Counted, Scn
<1>3. TypeOK'
  <2>1. removed' \in 0 .. NScn
    <3>1. Len(out) = scn - 1 - removed /\ Len(out) \in Nat /\ removed \in 0 .. NScn
      BY <1>0 DEF IInv, TypeOK, Counted, Scn
    <3> QED BY <1>0, <3>1 DEF Scn
  <2> QED BY <1>0, <2>1 DEF IInv, TypeOK, Scn
<1>4. \A s \in Kept : s < scn' <=> s < scn
  BY <1>0 DEF Kept, Scn
<1>5. Placed'
  BY <1>0, <1>1, <1>4 DEF IInv, Placed
<1>6. Sound' /\ Ordered'
  BY <1>0, <1>1, <1>4 DEF IInv, Sound, Ordered
<1>7. Handles'
  <2>1. relocScn \in Kept
    BY DEF Kept, Dropped
  <2> QED BY <1>0, <1>1, <1>4, <2>1 DEF IInv, Handles
<1>8. Header'
  BY <1>0 DEF IInv, Header, Written, Scn
<1> QED BY <1>2, <1>3, <1>5, <1>6, <1>7, <1>8 DEF IInv

(* Copying a section puts it where the count says. *)
LEMMA CopyIInv == IInv /\ CopyScn => IInv'
<1> SUFFICES ASSUME IInv, CopyScn PROVE IInv'
  OBVIOUS
<1> USE SectionAssumption
<1> DEFINE new == [from |-> scn, link |-> OutLink(link[scn])]
<1>0. /\ scn \in Scn /\ scn \in Nat \ {0} /\ scn \in Kept /\ scn \notin Dropped
      /\ scn' = scn + 1 /\ UNCHANGED <<all, link, removed, ehdr, syms>>
      /\ out' = Append(out, new)
  BY DEF CopyScn, Needed, Dropped, Kept, Scn
<1>1. /\ Dropped' = Dropped /\ Kept' = Kept
      /\ \A s : Cnt(s)' = Cnt(s) /\ Place(s)' = Place(s) /\ LinkOf(s)' = LinkOf(s)
  BY <1>0, CountKept DEF Place, LinkOf, CopiedLink, Written, Scn
<1>2. Cnt(scn + 1) = Cnt(scn) /\ Cnt(scn) \in Nat /\ removed = Cnt(scn)
  BY <1>0, CountStep DEF IInv, Counted
<1>3. Len(out) = scn - 1 - removed /\ Place(scn) = Len(out) + 1 /\ Len(out) \in Nat
  <2>1. Len(out) \in Nat
    BY DEF IInv, TypeOK
  <2>2. Len(out) = scn - 1 - removed
    BY <1>0 DEF IInv, Counted, Scn
  <2> QED BY <1>0, <1>2, <2>1, <2>2 DEF Place
<1>4. new.link = LinkOf(scn) /\ new \in [from : Scn, link : Nat]
  <2>1. OutLink(link[scn]) = LinkOf(scn)
    BY <1>0, <1>2 DEF OutLink, LinkOf, CopiedLink, Written, Scn
  <2>2. link[scn] \in 0 .. NScn /\ removed \in 0 .. NScn
    BY <1>0 DEF IInv, TypeOK
  <2>3. OutLink(link[scn]) \in Nat
    BY <2>2, WidthAssumption DEF OutLink, Minus
  <2> QED BY <1>0, <2>1, <2>3
<1>5. /\ DOMAIN out' = 1 .. Len(out) + 1
      /\ DOMAIN out = 1 .. Len(out)
      /\ out'[Len(out) + 1] = new
      /\ \A i \in DOMAIN out : out'[i] = out[i]
      /\ Len(out') = Len(out) + 1
  BY <1>0, <1>4 DEF IInv, TypeOK
<1>6. Counted'
  BY <1>0, <1>1, <1>2, <1>3, <1>5 DEF Counted, Scn
<1>7. \A s \in Kept : s < scn' <=> s < scn \/ s = scn
  BY <1>0 DEF Kept, Scn
<1>8. Placed'
  <2> SUFFICES ASSUME NEW s \in Kept, s < scn'
               PROVE  Place(s) \in DOMAIN out' /\ out'[Place(s)] = [from |-> s, link |-> LinkOf(s)]
    BY <1>1 DEF Placed
  <2>1. CASE s = scn
    BY <2>1, <1>3, <1>4, <1>5
  <2>2. CASE s < scn
    BY <2>2, <1>3, <1>5 DEF IInv, Placed
  <2> QED BY <2>1, <2>2, <1>7
<1>9. Sound'
  <2> SUFFICES ASSUME NEW i \in DOMAIN out'
               PROVE  out'[i].from \in Kept /\ out'[i].from < scn' /\ Place(out'[i].from) = i
    BY <1>1 DEF Sound
  <2>1. CASE i = Len(out) + 1
    BY <2>1, <1>0, <1>3, <1>5
  <2>2. CASE i \in DOMAIN out
    BY <2>2, <1>0, <1>5 DEF IInv, Sound, Kept, Scn
  <2> QED BY <2>1, <2>2, <1>3, <1>5
<1>10. Ordered'
  <2> SUFFICES ASSUME NEW i \in DOMAIN out', NEW j \in DOMAIN out', i < j
               PROVE  out'[i].from < out'[j].from
    BY DEF Ordered
  <2>1. i \in DOMAIN out
    BY <1>3, <1>5
  <2>2. CASE j = Len(out) + 1
    BY <2>1, <2>2, <1>0, <1>5 DEF IInv, Sound
  <2>3. CASE j \in DOMAIN out
    BY <2>1, <2>3, <1>5 DEF IInv, Ordered
  <2> QED BY <2>2, <2>3, <1>3, <1>5
<1>11. Handles'
  <2>1. ASSUME NEW s \in Handled
        PROVE  outOf'[s] = IF s \in Kept /\ s < scn' THEN Place(s) ELSE 0
    <3>1. CASE s = scn
      BY <3>1, <1>0, <1>3, <1>7 DEF CopyScn
    <3>2. CASE s # scn
      BY <3>2, <1>0, <1>7 DEF CopyScn, IInv, Handles
    <3> QED BY <3>1, <3>2
  <2>2. relocScn \in Kept
    BY DEF Kept, Dropped
  <2>3. relocOut' = IF relocScn < scn' THEN Place(relocScn) ELSE 0
    <3>1. CASE relocScn = scn
      BY <3>1, <2>2, <1>0, <1>3, <1>7 DEF CopyScn
    <3>2. CASE relocScn # scn
      BY <3>2, <2>2, <1>0, <1>7 DEF CopyScn, IInv, Handles
    <3> QED BY <3>1, <3>2
  <2> QED BY <2>1, <2>3, <1>1 DEF Handles
<1>12. TypeOK'
  <2>1. outOf' \in [Handled -> 0 .. NScn] /\ relocOut' \in 0 .. NScn
    BY <1>0, <1>3 DEF CopyScn, IInv, TypeOK, Scn
  <2>2. out' \in Seq([from : Scn, link : Nat])
    BY <1>0, <1>4 DEF IInv, TypeOK
  <2> QED BY <1>0, <2>1, <2>2 DEF IInv, TypeOK, Scn
<1>13. Header'
  BY <1>0 DEF IInv, Header, Written, Scn
<1> QED BY <1>6, <1>8, <1>9, <1>10, <1>11, <1>12, <1>13 DEF IInv

(* A header made anew is that of the copy of one section, which is in the  *)
(* place its handle says.                                                  *)
LEMMA RewriteOne ==
  ASSUME IInv, scn = NScn + 1, NEW i \in DOMAIN out
  PROVE  Rewritten[i] = [from |-> out[i].from,
                         link |-> IF out[i].from \in Regenerated
                                    THEN link[out[i].from] ELSE out[i].link]
<1> DEFINE s == out[i].from
<1> USE SectionAssumption
<1>1. s \in Kept /\ s \in Scn /\ s < scn /\ Place(s) = i
  BY DEF IInv, Sound, Kept
<1>2. i \in Nat \ {0} /\ out[i] \in [from : Scn, link : Nat]
  <2>1. out \in Seq([from : Scn, link : Nat])
    BY DEF IInv, TypeOK
  <2>2. out \in [1 .. Len(out) -> [from : Scn, link : Nat]] /\ Len(out) \in Nat
    BY <2>1, LenProperties, Zenon
  <2> QED BY <2>2
<1>3. Regenerated \subseteq Handled
  BY DEF Regenerated
<1>4. ASSUME NEW r \in Regenerated PROVE outOf[r] = i <=> r = s
  <2>1. CASE r = s
    BY <2>1, <1>1, <1>3 DEF IInv, Handles
  <2>2. ASSUME outOf[r] = i PROVE r = s
    <3>1. r \in Kept /\ r < scn /\ Place(r) = i
      BY <2>2, <1>2, <1>3 DEF IInv, Handles
    <3>2. out[i] = [from |-> r, link |-> LinkOf(r)]
      BY <3>1 DEF IInv, Placed
    <3> QED BY <3>2
  <2> QED BY <2>1, <2>2
<1>5. CASE s \in Regenerated
  <2>1. CopyOf(i) = {s}
    BY <1>4, <1>5, Zenon DEF CopyOf
  <2>2. (CHOOSE r \in CopyOf(i) : TRUE) = s
    BY <2>1
  <2> QED BY <2>1, <2>2, <1>2, <1>5 DEF Rewritten
<1>6. CASE s \notin Regenerated
  <2>1. CopyOf(i) = {}
    BY <1>4, <1>6, Zenon DEF CopyOf
  <2> QED BY <2>1, <1>2, <1>6 DEF Rewritten
<1> QED BY <1>5, <1>6

(* Making headers anew moves nothing; the numbers in the ELF header are    *)
(* adjusted once, by the final count.                                      *)
LEMMA WriteIInv == IInv /\ Write => IInv'
<1> SUFFICES ASSUME IInv, Write PROVE IInv'
  OBVIOUS
<1> USE SectionAssumption
<1>0. /\ scn = NScn + 1 /\ scn' = NScn + 2 /\ syms' = symScns /\ out' = Rewritten
      /\ UNCHANGED <<all, link, removed, outOf, relocOut>>
  BY DEF Write
<1>1. /\ Dropped' = Dropped /\ Kept' = Kept
      /\ \A s : Cnt(s)' = Cnt(s) /\ Place(s)' = Place(s) /\ CopiedLink(s)' = CopiedLink(s)
  BY <1>0, CountKept DEF Place, CopiedLink
<1>2. scn \notin Dropped /\ scn \in Nat \ {0} /\ Cnt(scn + 1) = Cnt(scn)
  BY <1>0, CountStep DEF Dropped, Scn
<1>3. DOMAIN out = 1 .. Len(out) /\ Len(out) \in Nat /\ DOMAIN Rewritten = DOMAIN out
  BY DEF IInv, TypeOK, Rewritten
<1>4. \A i \in DOMAIN out :
        out'[i] = [from |-> out[i].from,
                   link |-> IF out[i].from \in Regenerated
                              THEN link[out[i].from] ELSE out[i].link]
  BY <1>0, RewriteOne
<1>5. ASSUME NEW i \in DOMAIN out PROVE out'[i].from = out[i].from
  <2>1. out'[i] = [from |-> out[i].from,
                   link |-> IF out[i].from \in Regenerated
                              THEN link[out[i].from] ELSE out[i].link]
    BY <1>4
  <2> QED BY <2>1
<1>6. out' \in Seq([from : Scn, link : Nat]) /\ Len(out') = Len(out) /\ DOMAIN out' = DOMAIN out
  <2>1. ASSUME NEW i \in 1 .. Len(out) PROVE out'[i] \in [from : Scn, link : Nat]
    <3>1. out[i] \in [from : Scn, link : Nat]
      <4>1. out \in Seq([from : Scn, link : Nat])
        BY DEF IInv, TypeOK
      <4>2. out \in [1 .. Len(out) -> [from : Scn, link : Nat]]
        BY <4>1, LenProperties, Zenon
      <4> QED BY <4>2
    <3>2. link[out[i].from] \in Nat
      BY <3>1 DEF IInv, TypeOK
    <3>3. out'[i] = [from |-> out[i].from,
                     link |-> IF out[i].from \in Regenerated
                                THEN link[out[i].from] ELSE out[i].link]
      BY <1>3, <1>4
    <3> QED BY <3>1, <3>2, <3>3
  <2>2. out' = [i \in 1 .. Len(out) |-> out'[i]]
    BY <1>0, <1>3 DEF Rewritten
  <2>3. out' \in [1 .. Len(out) -> [from : Scn, link : Nat]]
    BY <2>1, <2>2
  <2>4. out' \in Seq([from : Scn, link : Nat])
    <3> DEFINE n == Len(out)
               R == [from : Scn, link : Nat]
    <3>1. n \in Nat /\ out' \in [1 .. n -> R]
      BY <2>3, <1>3
    <3> HIDE DEF n, R
    <3>2. out' \in Seq(R)
      BY <3>1, SeqDef, Zenon
    <3> QED BY <3>2 DEF R
  <2>5. DOMAIN out' = 1 .. Len(out)
    BY <2>3
  <2> QED BY <2>4, <2>5, <1>3
<1>7. Counted'
  BY <1>0, <1>1, <1>2, <1>6 DEF IInv, Counted
<1>8. \A s \in Scn : s < scn /\ s < scn'
  BY <1>0 DEF Scn
<1>9. Placed'
  <2> SUFFICES ASSUME NEW s \in Kept
               PROVE  Place(s) \in DOMAIN out' /\ out'[Place(s)] = [from |-> s, link |-> LinkOf(s)']
    BY <1>1 DEF Placed
  <2>1. Place(s) \in DOMAIN out /\ out[Place(s)] = [from |-> s, link |-> LinkOf(s)]
    BY <1>8 DEF IInv, Placed, Kept
  <2>2. LinkOf(s) = CopiedLink(s)
    BY <1>0 DEF LinkOf, Written
  <2>3. LinkOf(s)' = IF s \in Regenerated THEN link[s] ELSE CopiedLink(s)
    BY <1>0, <1>1 DEF LinkOf, Written, Regenerated
  <2> QED BY <2>1, <2>2, <2>3, <1>4, <1>6
<1>10. Sound'
  BY <1>0, <1>1, <1>5, <1>6, <1>8 DEF IInv, Sound, Kept
<1>11. Ordered'
  BY <1>5, <1>6 DEF IInv, Ordered
<1>12. Handles'
  BY <1>0, <1>1, <1>8 DEF IInv, Handles, Kept
<1>13. /\ ehdr'.shnum = NScn + 1 - removed
       /\ ehdr'.shstrndx = Minus(shstrndx, removed, Half)
       /\ ehdr' \in [shnum : Nat, shstrndx : Nat]
  <2>1. removed \in 0 .. NScn /\ shstrndx \in 1 .. NScn
    BY DEF IInv, TypeOK, Scn
  <2>2. ehdr = [shnum |-> NScn + 1, shstrndx |-> shstrndx]
    BY <1>0 DEF IInv, Header, Written
  <2>3. ehdr' = [shnum |-> Minus(NScn + 1, removed, Half),
                 shstrndx |-> Minus(shstrndx, removed, Half)]
    BY <2>2 DEF Write, Adjusted
  <2>4. Minus(NScn + 1, removed, Half) = NScn + 1 - removed
    BY <2>1 DEF Minus
  <2>5. Minus(shstrndx, removed, Half) \in Nat
    BY <2>1, WidthAssumption DEF Minus
  <2> QED BY <2>1, <2>3, <2>4, <2>5
<1>14. Header'
  BY <1>0, <1>13 DEF Header, Written
<1>15. TypeOK'
  BY <1>0, <1>6, <1>13 DEF IInv, TypeOK
<1> QED BY <1>7, <1>9, <1>10, <1>11, <1>12, <1>14, <1>15 DEF IInv

LEMMA NextIInv == IInv /\ [Next]_vars => IInv'
<1> SUFFICES ASSUME IInv, [Next]_vars PROVE IInv'
  OBVIOUS
<1>1. CASE DropScn
  BY <1>1, DropIInv
<1>2. CASE CopyScn
  BY <1>2, CopyIInv
<1>3. CASE Write
  BY <1>3, WriteIInv
<1>4. CASE UNCHANGED vars
  BY <1>4 DEF IInv, vars, TypeOK, Counted, Placed, Sound, Ordered, Handles, Header,
              Written, Cnt, Place, LinkOf, CopiedLink, Before, Dropped, Kept
<1> QED BY <1>1, <1>2, <1>3, <1>4 DEF Next, Exited

(* The invariant of the loop. *)
THEOREM LoopInvariant == Spec => []IInv
  BY InitIInv, NextIInv, PTL DEF Spec
-----------------------------------------------------------------------------
(* The state of the loop is well typed: the counter never exceeds the      *)
(* number of sections, and links and header fields stay unsigned words     *)
(* whatever is subtracted from them (init_write).                          *)
THEOREM TypeCorrect == Spec => []TypeOK
<1>1. IInv => TypeOK
  BY DEF IInv
<1> QED BY <1>1, LoopInvariant, PTL

(* What every written output has: each kept section is at its place. *)
LEMMA WrittenFacts ==
  ASSUME IInv, Written
  PROVE  /\ \A s \in Scn : s < scn
         /\ Cnt(scn) = removed /\ removed \in 0 .. NScn
         /\ Len(out) = NScn - removed
         /\ DOMAIN out = 1 .. Len(out)
         /\ \A s \in Kept : Place(s) \in DOMAIN out /\ out[Place(s)].from = s
<1>1. /\ \A s \in Scn : s < scn
      /\ Cnt(scn) = removed /\ removed \in 0 .. NScn
      /\ Len(out) = NScn - removed
      /\ DOMAIN out = 1 .. Len(out)
  BY SectionAssumption DEF IInv, TypeOK, Counted, Written, Scn
<1>2. ASSUME NEW s \in Kept
      PROVE  Place(s) \in DOMAIN out /\ out[Place(s)].from = s
  <2>1. s < scn
    BY <1>1 DEF Kept
  <2>2. Place(s) \in DOMAIN out /\ out[Place(s)] = [from |-> s, link |-> LinkOf(s)]
    BY <2>1 DEF IInv, Placed
  <2> QED BY <2>2
<1> QED BY <1>1, <1>2

(* No section is lost or exchanged (loop of init_write). *)
THEOREM FilterIsExact == Spec => []FilterExact
<1>1. ASSUME IInv, Written
      PROVE  {out[i].from : i \in DOMAIN out} = Kept
  <2>1. ASSUME NEW s \in Kept
        PROVE  \E i \in DOMAIN out : out[i].from = s
    <3>1. Place(s) \in DOMAIN out /\ out[Place(s)].from = s
      BY <1>1, WrittenFacts
    <3> QED BY <3>1
  <2> QED BY <1>1, <2>1 DEF IInv, Sound
<1>2. IInv => FilterExact
  BY <1>1 DEF FilterExact, IInv, Ordered
<1> QED BY <1>2, LoopInvariant, PTL

(* A link survives the renumbering of bintail.cc:356 and the rewriting of  *)
(* headers by write (mvscn.cc:328, 395) where the sections it was reduced  *)
(* by are those dropped in front of the section it names.                  *)
THEOREM LinksArePreserved == Spec => []LinksPreserved
<1>1. ASSUME IInv, Written, NEW i \in DOMAIN out
      PROVE  LET s == out[i].from
             IN /\ link[s] = 0 => out[i].link = 0
                /\ LinkFits(s) => /\ out[i].link \in DOMAIN out
                                  /\ out[out[i].link].from = link[s]
  <2> DEFINE s == out[i].from
  <2>1. s \in Kept /\ s \in Scn /\ s < scn /\ Place(s) = i
    BY <1>1 DEF IInv, Sound, Kept
  <2>2. out[i] = [from |-> s, link |-> LinkOf(s)]
    BY <1>1, <2>1 DEF IInv, Placed
  <2>3. link[s] \in 0 .. NScn
    BY <1>1, <2>1 DEF IInv, TypeOK
  <2>4. link[s] = 0 => out[i].link = 0
    BY <2>2, <2>3 DEF LinkOf, CopiedLink
  <2>5. ASSUME LinkFits(s)
        PROVE  out[i].link \in DOMAIN out /\ out[out[i].link].from = link[s]
    <3>1. link[s] \in Kept /\ link[s] \in Scn /\ Before(link[s]) = Subtracted(s)
      BY <2>5 DEF LinkFits, Kept
    <3>2. Place(link[s]) \in DOMAIN out /\ out[Place(link[s])].from = link[s]
      BY <1>1, <3>1, WrittenFacts
    <3>3. Place(link[s]) >= 1
      BY <1>1, <3>2, WrittenFacts
    <3>4. link[s] \in Nat /\ link[s] > 0
      BY <3>1, SectionAssumption DEF Scn
    <3>5. Cnt(link[s]) \in Nat
      BY <3>4, CountStep
    <3>6. CASE s \in Regenerated
      <4>1. Cnt(link[s]) = 0
        BY <3>1, <3>6, FS_EmptySet DEF Cnt, Subtracted
      <4>2. LinkOf(s) = link[s] /\ Place(link[s]) = link[s]
        BY <1>1, <3>4, <3>6, <4>1 DEF LinkOf, Place
      <4> QED BY <2>2, <3>2, <4>2
    <3>7. CASE s \notin Regenerated
      <4>1. Cnt(s) = Cnt(link[s])
        BY <3>1, <3>7 DEF Cnt, Subtracted
      <4>2. LinkOf(s) = Place(link[s])
        BY <3>3, <3>4, <3>5, <3>7, <4>1 DEF LinkOf, CopiedLink, Place, Minus
      <4> QED BY <2>2, <3>2, <4>2
    <3> QED BY <3>6, <3>7
  <2> QED BY <2>4, <2>5
<1>2. IInv => LinksPreserved
  BY <1>1 DEF LinksPreserved
<1> QED BY <1>2, LoopInvariant, PTL

(* The header counts the sections of the output and names its section of   *)
(* names (bintail.cc:389, 390).                                            *)
THEOREM HeaderIsExact == Spec => []HeaderExact
<1>1. ASSUME IInv, Written
      PROVE  /\ ehdr.shnum = Len(out) + 1
             /\ Before(shstrndx) = Dropped =>
                  /\ ehdr.shstrndx \in DOMAIN out
                  /\ out[ehdr.shstrndx].from = shstrndx
  <2>1. ehdr.shnum = Len(out) + 1
    BY <1>1, WrittenFacts, SectionAssumption DEF IInv, Header
  <2>2. ASSUME Before(shstrndx) = Dropped
        PROVE  ehdr.shstrndx \in DOMAIN out /\ out[ehdr.shstrndx].from = shstrndx
    <3>1. Before(scn) = Dropped
      BY <1>1, WrittenFacts, SectionAssumption DEF Before, Dropped, Scn
    <3>2. Cnt(shstrndx) = removed
      BY <1>1, <2>2, <3>1, WrittenFacts DEF Cnt
    <3>3. shstrndx \in Kept /\ shstrndx \in Scn
      BY SectionAssumption DEF Kept, Dropped
    <3>4. Place(shstrndx) \in DOMAIN out /\ out[Place(shstrndx)].from = shstrndx
      BY <1>1, <3>3, WrittenFacts
    <3>5. Place(shstrndx) = shstrndx - removed /\ Place(shstrndx) >= 1
      BY <1>1, <3>2, <3>4, WrittenFacts DEF Place
    <3>6. ehdr.shstrndx = Place(shstrndx)
      BY <1>1, <3>3, <3>5, WrittenFacts, SectionAssumption DEF IInv, Header, Minus, Scn
    <3> QED BY <3>4, <3>6
  <2> QED BY <2>1, <2>2
<1>2. IInv => HeaderExact
  BY <1>1 DEF HeaderExact
<1> QED BY <1>2, LoopInvariant, PTL

(* Every handle on a section leads to its copy, and that of a dropped      *)
(* section to nullptr (set_out_scn, reloc_scn_out).                        *)
THEOREM HandlersFollowCopies == Spec => []HandlersFollow
<1>1. ASSUME IInv, Written
      PROVE  /\ \A s \in Handled :
                  IF s \in Kept THEN outOf[s] \in DOMAIN out /\ out[outOf[s]].from = s
                  ELSE outOf[s] = 0
             /\ relocOut \in DOMAIN out /\ out[relocOut].from = relocScn
  <2>1. \A s \in Kept : s < scn /\ Place(s) \in DOMAIN out /\ out[Place(s)].from = s
    BY <1>1, WrittenFacts DEF Kept
  <2>2. relocScn \in Kept
    BY SectionAssumption DEF Kept, Dropped
  <2> QED BY <1>1, <2>1, <2>2 DEF IInv, Handles
<1>2. IInv => HandlersFollow
  BY <1>1 DEF HandlersFollow
<1> QED BY <1>2, LoopInvariant, PTL
=============================================================================
