------------------------------ MODULE Induction ------------------------------
(***************************************************************************)
(* Induction over numbers and sequences, in terms of sets instead of       *)
(* predicates, and what it gives for the recursive definitions the models  *)
(* are built from.                                                         *)
(***************************************************************************)
EXTENDS Integers, Sequences, SequencesExt, SequenceTheorems, WellFoundedInduction, TLAPS

(* The natural numbers are well-founded, so a set of them has a least.     *)
LEMMA LeastNatural ==
  ASSUME NEW T, T \subseteq Nat, T # {}
  PROVE  \E x \in T : \A y \in T : x <= y
<1>1. IsWellFoundedOn(OpToRel(<, Nat), Nat)
  BY NatLessThanWellFounded
<1>2. PICK x \in T : \A y \in T : ~ (<<y, x>> \in OpToRel(<, Nat))
  BY <1>1, WFMin
<1>3. \A y \in T : ~ (y < x)
  BY <1>2 DEF OpToRel
<1> QED BY <1>3

LEMMA InductionUpTo ==
  ASSUME NEW n \in Nat, NEW S, 0 \in S,
         \A i \in 0 .. n - 1 : i \in S => i + 1 \in S
  PROVE  \A i \in 0 .. n : i \in S
<1> DEFINE Bad == {i \in 0 .. n : i \notin S}
<1> SUFFICES ASSUME Bad # {} PROVE FALSE
  OBVIOUS
<1>1. Bad \subseteq Nat
  OBVIOUS
<1> HIDE DEF Bad
<1>2. PICK x \in Bad : \A y \in Bad : x <= y
  BY <1>1, LeastNatural
<1>3. x \in 0 .. n /\ x \notin S
  BY <1>2 DEF Bad
<1>4. x # 0
  BY <1>3
<1>5. x - 1 \in 0 .. n - 1 /\ (x - 1) + 1 = x
  BY <1>3, <1>4
<1>6. x - 1 \notin S
  BY <1>3, <1>5
<1>7. x - 1 \in Bad
  BY <1>5, <1>6 DEF Bad
<1> QED BY <1>2, <1>3, <1>5, <1>7

LEMMA InductionOnNat ==
  ASSUME NEW S, 0 \in S, \A i \in Nat : i \in S => i + 1 \in S
  PROVE  \A i \in Nat : i \in S
<1> SUFFICES ASSUME NEW n \in Nat PROVE n \in S
  OBVIOUS
<1>1. \A i \in 0 .. n - 1 : i \in S => i + 1 \in S
  OBVIOUS
<1>2. \A i \in 0 .. n : i \in S
  BY <1>1, InductionUpTo
<1> QED BY <1>2
-----------------------------------------------------------------------------
(* FlattenSeq. *)

(* The stages of flattening exist: f[i] is the concatenation of the first  *)
(* i sequences.                                                            *)
Stages(ss, S, n, f) ==
  /\ f \in [0 .. n -> Seq(S)]
  /\ f[0] = <<>>
  /\ \A i \in 1 .. n : f[i] = f[i - 1] \o ss[i]

LEMMA StagesExist ==
  ASSUME NEW S, NEW ss \in Seq(Seq(S))
  PROVE  \A n \in 0 .. Len(ss) : \E f : Stages(ss, S, n, f)
<1> DEFINE Good == {n \in Nat : \E f : Stages(ss, S, n, f)}
<1>1. 0 \in Good
  <2> DEFINE f == [i \in 0 .. 0 |-> <<>>]
  <2>1. Stages(ss, S, 0, f)
    BY EmptySeq DEF Stages
  <2> QED BY <2>1
<1>2. ASSUME NEW n \in 0 .. Len(ss) - 1, n \in Good PROVE n + 1 \in Good
  <2>1. PICK f : Stages(ss, S, n, f)
    BY <1>2
  <2> DEFINE g == [i \in 0 .. n + 1 |-> IF i = n + 1 THEN f[n] \o ss[n + 1] ELSE f[i]]
  <2>2. n \in Nat /\ n + 1 \in 1 .. Len(ss)
    BY LenProperties
  <2>3. f[n] \o ss[n + 1] \in Seq(S)
    <3>1. f[n] \in Seq(S)
      BY <2>1, <2>2 DEF Stages
    <3>2. ss[n + 1] \in Seq(S)
      BY <2>2, ElementOfSeq
    <3> QED BY <3>1, <3>2, ConcatProperties
  <2>4. g \in [0 .. n + 1 -> Seq(S)]
    <3>1. \A i \in 0 .. n + 1 : i # n + 1 => i \in 0 .. n
      BY <2>2
    <3> QED BY <2>1, <2>3, <3>1 DEF Stages
  <2>5. g[0] = <<>>
    BY <2>1, <2>2 DEF Stages
  <2>6. ASSUME NEW i \in 1 .. n + 1 PROVE g[i] = g[i - 1] \o ss[i]
    <3>1. CASE i = n + 1
      <4>1. g[i] = f[n] \o ss[n + 1] /\ g[i - 1] = f[n]
        <5>1. n + 1 \in 0 .. n + 1 /\ n \in 0 .. n + 1 /\ n # n + 1 /\ (n + 1) - 1 = n
          BY <2>2
        <5>2. g[n + 1] = f[n] \o ss[n + 1] /\ g[n] = f[n]
          BY <5>1
        <5> HIDE DEF g
        <5> QED BY <3>1, <5>1, <5>2
      <4> QED BY <3>1, <4>1
    <3>2. CASE i # n + 1
      <4>1. i \in 1 .. n /\ i - 1 \in 0 .. n + 1 /\ i \in 0 .. n + 1 /\ i - 1 # n + 1
        BY <2>2, <3>2
      <4>2. g[i] = f[i] /\ g[i - 1] = f[i - 1]
        BY <3>2, <4>1
      <4> QED BY <2>1, <4>1, <4>2 DEF Stages
    <3> QED BY <3>1, <3>2
  <2>7. Stages(ss, S, n + 1, g)
    BY <2>4, <2>5, <2>6 DEF Stages
  <2> QED BY <2>2, <2>7
<1> HIDE DEF Good
<1>3. \A n \in 0 .. Len(ss) : n \in Good
  BY <1>1, <1>2, LenProperties, InductionUpTo
<1> QED BY <1>3 DEF Good

LEMMA FlattenIs ==
  ASSUME NEW S, NEW ss \in Seq(Seq(S))
  PROVE  \E f : Stages(ss, S, Len(ss), f) /\ FlattenSeq(ss) = f[Len(ss)]
<1> DEFINE n == Len(ss)
<1>1. n \in Nat
  BY LenProperties
<1>2. PICK f : Stages(ss, S, n, f)
  <2>1. n \in 0 .. Len(ss)
    BY <1>1
  <2> QED BY <2>1, StagesExist
<1>3. CASE n = 0
  <2>1. ss = <<>>
    BY <1>3, EmptySeq
  <2> QED BY <1>2, <1>3, <2>1 DEF Stages, FlattenSeq
<1>4. CASE n # 0
  <2> DEFINE Flat(g) == g = [i \in 1 .. Len(ss) |-> IF i = 1 THEN ss[i] ELSE g[i - 1] \o ss[i]]
             h == CHOOSE g : Flat(g)
  <2>1. FlattenSeq(ss) = h[n]
    BY <1>4 DEF FlattenSeq
  <2>2. 1 \in 1 .. n /\ n \in 1 .. n
    BY <1>1, <1>4
  <2>3. f[1] = ss[1]
    <3>1. f[1] = <<>> \o ss[1]
      <4>1. \A i \in 1 .. n : f[i] = f[i - 1] \o ss[i]
        BY <1>2 DEF Stages
      <4>2. f[0] = <<>>
        BY <1>2 DEF Stages
      <4>3. f[1] = f[0] \o ss[1]
        <5>1. f[1] = f[1 - 1] \o ss[1]
          BY <2>2, <4>1
        <5>2. 1 - 1 = 0
          OBVIOUS
        <5> QED BY <5>1, <5>2
      <4> QED BY <4>2, <4>3
    <3>2. ss[1] \in Seq(S)
      BY <2>2, ElementOfSeq
    <3> QED BY <3>1, <3>2, ConcatEmptySeq
  <2> DEFINE w == [i \in 1 .. Len(ss) |-> f[i]]
  <2>4. Flat(w)
    <3>1. ASSUME NEW i \in 1 .. Len(ss)
          PROVE  f[i] = IF i = 1 THEN ss[i] ELSE w[i - 1] \o ss[i]
      <4>1. CASE i = 1
        BY <2>3, <4>1
      <4>2. CASE i # 1
        <5>1. i - 1 \in 1 .. Len(ss)
          BY <1>1, <4>2
        <5>2. w[i - 1] = f[i - 1]
          BY <5>1
        <5> QED BY <1>2, <4>2, <5>2 DEF Stages
      <4> QED BY <4>1, <4>2
    <3> HIDE DEF w
    <3>2. w = [i \in 1 .. Len(ss) |-> IF i = 1 THEN ss[i] ELSE w[i - 1] \o ss[i]]
      <4>1. w = [i \in 1 .. Len(ss) |-> f[i]]
        BY DEF w
      <4> QED BY <3>1, <4>1
    <3> QED BY <3>2
  <2>5. Flat(h)
    BY <2>4
  <2> HIDE DEF h
  <2> DEFINE Good == {i \in 0 .. n : i # 0 => h[i] = f[i]}
  <2>6. 0 \in Good
    BY <1>1
  <2>7. ASSUME NEW i \in 0 .. n - 1, i \in Good PROVE i + 1 \in Good
    <3>1. i + 1 \in 1 .. Len(ss) /\ i + 1 \in 0 .. n /\ (i + 1) - 1 = i
      BY <1>1
    <3>2. h[i + 1] = IF i + 1 = 1 THEN ss[i + 1] ELSE h[i] \o ss[i + 1]
      BY <2>5, <3>1
    <3>3. f[i + 1] = f[i] \o ss[i + 1]
      BY <1>2, <3>1 DEF Stages
    <3>4. CASE i = 0
      BY <2>3, <3>1, <3>2, <3>4
    <3>5. CASE i # 0
      <4>1. h[i] = f[i]
        BY <2>7, <3>5
      <4>2. i + 1 # 1
        BY <3>1, <3>5
      <4>3. h[i + 1] = f[i + 1]
        BY <3>2, <3>3, <4>1, <4>2
      <4> QED BY <3>1, <4>3
    <3> QED BY <3>4, <3>5
  <2> HIDE DEF Good, n
  <2>8. \A i \in 0 .. n : i \in Good
    BY <1>1, <2>6, <2>7, InductionUpTo
  <2>9. h[n] = f[n]
    BY <1>1, <1>4, <2>8 DEF Good
  <2> QED BY <1>2, <2>1, <2>9 DEF n
<1> QED BY <1>3, <1>4

(* Where the elements of the parts are: those of the i-th part behind      *)
(* at[i - 1] others, and nothing else is anywhere.                         *)
Positions(ss, F, at) ==
  /\ at \in [0 .. Len(ss) -> Nat]
  /\ at[0] = 0
  /\ \A i \in 1 .. Len(ss) : at[i] = at[i - 1] + Len(ss[i])
  /\ Len(F) = at[Len(ss)]
  /\ \A i \in 1 .. Len(ss) : \A k \in 1 .. Len(ss[i]) :
       at[i - 1] + k \in 1 .. Len(F) /\ F[at[i - 1] + k] = ss[i][k]
  /\ \A j \in 1 .. Len(F) :
       \E i \in 1 .. Len(ss) : \E k \in 1 .. Len(ss[i]) : j = at[i - 1] + k

(* The same for the first m parts. *)
PositionsUpTo(ss, m, F, at) ==
  /\ \A i \in 1 .. m : \A k \in 1 .. Len(ss[i]) :
       at[i - 1] + k \in 1 .. Len(F) /\ F[at[i - 1] + k] = ss[i][k]
  /\ \A j \in 1 .. Len(F) :
       \E i \in 1 .. m : \E k \in 1 .. Len(ss[i]) : j = at[i - 1] + k

LEMMA FlattenPositions ==
  ASSUME NEW S, NEW ss \in Seq(Seq(S))
  PROVE  FlattenSeq(ss) \in Seq(S) /\ \E at : Positions(ss, FlattenSeq(ss), at)
<1> DEFINE n == Len(ss)
<1>1. n \in Nat /\ \A i \in 1 .. n : ss[i] \in Seq(S) /\ Len(ss[i]) \in Nat
  BY LenProperties, ElementOfSeq
<1>2. PICK f : Stages(ss, S, n, f) /\ FlattenSeq(ss) = f[n]
  BY FlattenIs
<1>3. /\ \A i \in 0 .. n : f[i] \in Seq(S) /\ Len(f[i]) \in Nat
      /\ f[0] = <<>> /\ \A i \in 1 .. n : f[i] = f[i - 1] \o ss[i]
  BY <1>2, LenProperties DEF Stages
<1> DEFINE at == [i \in 0 .. n |-> Len(f[i])]
<1> HIDE DEF n
<1>4. ASSUME NEW i \in 0 .. n - 1
      PROVE  /\ i \in 0 .. n /\ i + 1 \in 1 .. n /\ i + 1 \in 0 .. n /\ (i + 1) - 1 = i
             /\ f[i + 1] \in Seq(S) /\ f[i + 1] = f[i] \o ss[i + 1]
             /\ Len(f[i + 1]) = Len(f[i]) + Len(ss[i + 1])
             /\ \A j \in 1 .. Len(f[i]) + Len(ss[i + 1]) :
                  f[i + 1][j] = IF j <= Len(f[i]) THEN f[i][j] ELSE ss[i + 1][j - Len(f[i])]
  <2>1. i \in 0 .. n /\ i + 1 \in 1 .. n /\ i + 1 \in 0 .. n /\ (i + 1) - 1 = i
    BY <1>1
  <2>2. f[i + 1] = f[i] \o ss[i + 1]
    BY <1>3, <2>1
  <2>3. f[i] \in Seq(S) /\ ss[i + 1] \in Seq(S)
    BY <1>1, <1>3, <2>1
  <2> DEFINE u == f[i]
             v == ss[i + 1]
  <2>4. /\ u \o v \in Seq(S) /\ Len(u \o v) = Len(u) + Len(v)
        /\ \A j \in 1 .. Len(u) + Len(v) :
             (u \o v)[j] = IF j <= Len(u) THEN u[j] ELSE v[j - Len(u)]
    <3> HIDE DEF u, v
    <3> QED BY <2>3, ConcatProperties DEF u, v
  <2> QED BY <2>1, <2>2, <2>4
<1>5. /\ at \in [0 .. n -> Nat] /\ at[0] = 0
      /\ \A i \in 1 .. n : at[i] = at[i - 1] + Len(ss[i])
  <2>1. at \in [0 .. n -> Nat] /\ \A i \in 0 .. n : at[i] = Len(f[i])
    BY <1>3
  <2>2. at[0] = 0
    BY <1>1, <1>3, <2>1, EmptySeq
  <2>3. ASSUME NEW i \in 1 .. n PROVE at[i] = at[i - 1] + Len(ss[i])
    <3>1. i - 1 \in 0 .. n - 1 /\ (i - 1) + 1 = i
      BY <1>1
    <3>2. Len(f[i]) = Len(f[i - 1]) + Len(ss[i]) /\ i - 1 \in 0 .. n /\ i \in 0 .. n
      BY <1>4, <3>1
    <3> HIDE DEF at
    <3> QED BY <2>1, <3>2
  <2> QED BY <2>1, <2>2, <2>3
<1>6. \A i \in 0 .. n : at[i] = Len(f[i])
  OBVIOUS
<1> HIDE DEF at
<1> DEFINE Good == {m \in 0 .. n : PositionsUpTo(ss, m, f[m], at)}
<1>7. 0 \in Good
  <2>1. Len(f[0]) = 0
    BY <1>3, EmptySeq
  <2> QED BY <1>1, <2>1 DEF PositionsUpTo
<1>8. ASSUME NEW m \in 0 .. n - 1, m \in Good PROVE m + 1 \in Good
  <2> DEFINE p == m + 1
  <2>1. /\ m \in 0 .. n /\ p \in 1 .. n /\ p \in 0 .. n /\ p - 1 = m
        /\ Len(f[p]) = Len(f[m]) + Len(ss[p])
        /\ \A j \in 1 .. Len(f[m]) + Len(ss[p]) :
             f[p][j] = IF j <= Len(f[m]) THEN f[m][j] ELSE ss[p][j - Len(f[m])]
    BY <1>4
  <2> DEFINE u == Len(f[m])
             v == Len(ss[p])
  <2>2. u \in Nat /\ v \in Nat /\ at[m] = u
    BY <1>1, <1>3, <1>6, <2>1
  <2>3. PositionsUpTo(ss, m, f[m], at)
    BY <1>8
  <2>4. \A i \in 1 .. p : i = p \/ i \in 1 .. m
    BY <2>1
  <2>8. /\ Len(f[p]) = u + v /\ at[p - 1] = u /\ m \in Nat /\ p = m + 1
        /\ \A j \in 1 .. u + v : f[p][j] = IF j <= u THEN f[m][j] ELSE ss[p][j - u]
    <3>1. m \in Nat
      BY <1>1, <2>1
    <3> HIDE DEF p
    <3>2. p = m + 1
      BY DEF p
    <3> QED BY <2>1, <2>2, <3>1, <3>2
  <2> HIDE DEF p, u
  <2>5. ASSUME NEW i \in 1 .. p, NEW k \in 1 .. Len(ss[i])
        PROVE  at[i - 1] + k \in 1 .. Len(f[p]) /\ f[p][at[i - 1] + k] = ss[i][k]
    <3>1. CASE i = p
      <4>1. at[i - 1] = u /\ k \in 1 .. v
        BY <2>8, <3>1
      <4> HIDE DEF v
      <4>2. u + k \in 1 .. u + v /\ ~ (u + k <= u) /\ (u + k) - u = k
        BY <2>2, <4>1
      <4> QED BY <2>8, <3>1, <4>1, <4>2
    <3>2. CASE i \in 1 .. m
      <4>1. at[i - 1] + k \in 1 .. u /\ f[m][at[i - 1] + k] = ss[i][k]
        BY <2>3, <3>2 DEF PositionsUpTo, u
      <4> HIDE DEF v
      <4>2. at[i - 1] + k \in 1 .. u + v /\ at[i - 1] + k <= u
        BY <2>2, <4>1
      <4> QED BY <2>8, <4>1, <4>2
    <3> QED BY <2>4, <3>1, <3>2
  <2>6. ASSUME NEW j \in 1 .. Len(f[p])
        PROVE  \E i \in 1 .. p : \E k \in 1 .. Len(ss[i]) : j = at[i - 1] + k
    <3>0. j \in 1 .. u + v
      BY <2>8
    <3>1. CASE j <= u
      <4>1. j \in 1 .. Len(f[m])
        BY <3>0, <3>1 DEF u
      <4>2. PICK i \in 1 .. m : \E k \in 1 .. Len(ss[i]) : j = at[i - 1] + k
        BY <2>3, <4>1 DEF PositionsUpTo
      <4>3. i \in 1 .. p
        BY <2>8
      <4> QED BY <4>2, <4>3
    <3>2. CASE ~ (j <= u)
      <4> DEFINE k == j - u
      <4>1. k \in 1 .. v /\ j = u + k
        <5> HIDE DEF v
        <5> QED BY <2>2, <3>0, <3>2
      <4>2. p \in 1 .. p
        BY <2>8
      <4> HIDE DEF k
      <4> QED BY <2>8, <4>1, <4>2
    <3> QED BY <3>1, <3>2
  <2>7. PositionsUpTo(ss, p, f[p], at)
    BY <2>5, <2>6 DEF PositionsUpTo
  <2> QED BY <2>1, <2>7 DEF p
<1> HIDE DEF Good
<1>9. \A m \in 0 .. n : m \in Good
  BY <1>1, <1>7, <1>8, InductionUpTo
<1>10. PositionsUpTo(ss, n, f[n], at) /\ f[n] \in Seq(S) /\ at[n] = Len(f[n])
  <2>1. n \in 0 .. n
    BY <1>1
  <2> QED BY <1>3, <1>6, <1>9, <2>1 DEF Good
<1>11. Positions(ss, f[n], at)
  BY <1>5, <1>10 DEF Positions, PositionsUpTo, n
<1> QED BY <1>2, <1>10, <1>11
-----------------------------------------------------------------------------
(* Sequences of whatever they hold. *)
Proper(s) == s \in Seq(Range(s))

LEMMA ProperIs ==
  ASSUME NEW S, NEW s \in Seq(S)
  PROVE  Proper(s) /\ Range(s) \subseteq S
<1>1. Len(s) \in Nat /\ DOMAIN s = 1 .. Len(s) /\ \A i \in 1 .. Len(s) : s[i] \in S
  BY LenProperties, ElementOfSeq
<1>2. Range(s) \subseteq S
  BY <1>1 DEF Range
<1>3. \A i \in 1 .. Len(s) : s[i] \in Range(s)
  BY <1>1 DEF Range
<1> QED BY <1>2, <1>3, SeqMonotonic DEF Proper

LEMMA ProperLength ==
  ASSUME NEW s, Proper(s)
  PROVE  /\ Len(s) \in Nat /\ DOMAIN s = 1 .. Len(s)
         /\ \A i \in 1 .. Len(s) : s[i] \in Range(s)
         /\ Range(s) = {s[i] : i \in 1 .. Len(s)}
<1>1. Len(s) \in Nat /\ DOMAIN s = 1 .. Len(s)
  BY LenProperties DEF Proper
<1> QED BY <1>1 DEF Range

LEMMA ProperEmpty == Proper(<<>>) /\ Len(<<>>) = 0 /\ Range(<<>>) = {}
<1>1. <<>> \in Seq({})
  BY EmptySeq
<1>2. \A s \in Seq({}) : Proper(s) /\ Range(s) = {}
  BY ProperIs
<1> QED BY <1>1, <1>2

LEMMA ProperFunction ==
  ASSUME NEW n \in Nat, NEW s, s = [i \in 1 .. n |-> s[i]]
  PROVE  Proper(s) /\ Len(s) = n
<1>1. \A i \in 1 .. n : s[i] \in Range(s)
  BY DEF Range
<1>2. s \in [1 .. n -> Range(s)]
  BY <1>1
<1>3. s \in Seq(Range(s)) /\ DOMAIN s = 1 .. n
  BY <1>2, SeqDef
<1>4. Len(s) = n
  BY <1>3, LenProperties
<1> QED BY <1>3, <1>4 DEF Proper

LEMMA ProperConcat ==
  ASSUME NEW s, Proper(s), NEW t, Proper(t)
  PROVE  /\ Proper(s \o t) /\ Len(s \o t) = Len(s) + Len(t)
         /\ \A i \in 1 .. Len(s) : (s \o t)[i] = s[i]
         /\ \A i \in 1 .. Len(t) : (s \o t)[Len(s) + i] = t[i]
         /\ Range(s \o t) = Range(s) \cup Range(t)
<1> DEFINE S == Range(s) \cup Range(t)
           u == s \o t
           m == Len(s)
           n == Len(t)
<1>1. s \in Seq(S) /\ t \in Seq(S)
  <2>1. Range(s) \subseteq S /\ Range(t) \subseteq S
    OBVIOUS
  <2>2. \A i \in 1 .. Len(s) : s[i] \in S
    BY ProperLength, <2>1
  <2>3. \A i \in 1 .. Len(t) : t[i] \in S
    BY ProperLength, <2>1
  <2>4. s \in Seq(Range(s)) /\ t \in Seq(Range(t))
    BY DEF Proper
  <2> HIDE DEF S
  <2> QED BY <2>2, <2>3, <2>4, SeqMonotonic
<1>2. m \in Nat /\ n \in Nat
  BY ProperLength
<1>3. u \in Seq(S) /\ Len(u) = m + n
      /\ \A i \in 1 .. m + n : u[i] = IF i <= m THEN s[i] ELSE t[i - m]
  <2> HIDE DEF S
  <2> QED BY <1>1, ConcatProperties
<1>4. Proper(u)
  <2> HIDE DEF S, u
  <2> QED BY <1>3, ProperIs
<1> HIDE DEF S, u, m, n
<1>5. \A i \in 1 .. m : u[i] = s[i]
  BY <1>2, <1>3
<1>6. \A i \in 1 .. n : u[m + i] = t[i]
  <2> SUFFICES ASSUME NEW i \in 1 .. n PROVE u[m + i] = t[i]
    OBVIOUS
  <2>1. m + i \in 1 .. m + n /\ ~ (m + i <= m) /\ (m + i) - m = i
    BY <1>2
  <2> QED BY <1>3, <2>1
<1>7. Range(u) = Range(s) \cup Range(t)
  <2>1. /\ Range(u) = {u[i] : i \in 1 .. m + n}
        /\ Range(s) = {s[i] : i \in 1 .. m}
        /\ Range(t) = {t[i] : i \in 1 .. n}
    BY <1>3, <1>4, ProperLength DEF m, n
  <2>2. ASSUME NEW x \in Range(u) PROVE x \in Range(s) \cup Range(t)
    <3>1. PICK i \in 1 .. m + n : x = u[i]
      BY <2>1, <2>2
    <3>2. CASE i <= m
      BY <1>2, <1>5, <2>1, <3>1, <3>2
    <3>3. CASE ~ (i <= m)
      <4>1. i - m \in 1 .. n /\ u[i] = t[i - m]
        BY <1>2, <1>3, <3>3
      <4> QED BY <2>1, <3>1, <4>1
    <3> QED BY <3>2, <3>3
  <2>3. ASSUME NEW x \in Range(s) PROVE x \in Range(u)
    <3>1. PICK i \in 1 .. m : x = s[i]
      BY <2>1, <2>3
    <3>2. i \in 1 .. m + n /\ u[i] = s[i]
      BY <1>2, <1>5
    <3> QED BY <2>1, <3>1, <3>2
  <2>4. ASSUME NEW x \in Range(t) PROVE x \in Range(u)
    <3>1. PICK i \in 1 .. n : x = t[i]
      BY <2>1, <2>4
    <3>2. m + i \in 1 .. m + n /\ u[m + i] = t[i]
      BY <1>2, <1>6
    <3> QED BY <2>1, <3>1, <3>2
  <2> QED BY <2>2, <2>3, <2>4
<1> QED BY <1>3, <1>4, <1>5, <1>6, <1>7 DEF u, m, n

(* Flattening, without saying what the elements are. *)
LEMMA FlattenProper ==
  ASSUME NEW n \in Nat, NEW ss, ss = [i \in 1 .. n |-> ss[i]],
         \A i \in 1 .. n : Proper(ss[i])
  PROVE  /\ Proper(FlattenSeq(ss)) /\ Len(ss) = n
         /\ \E at : Positions(ss, FlattenSeq(ss), at)
         /\ Range(FlattenSeq(ss)) = UNION {Range(ss[i]) : i \in 1 .. n}
<1> DEFINE S == UNION {Range(ss[i]) : i \in 1 .. n}
           F == FlattenSeq(ss)
<1>1. \A i \in 1 .. n : ss[i] \in Seq(S)
  <2> SUFFICES ASSUME NEW i \in 1 .. n PROVE ss[i] \in Seq(S)
    OBVIOUS
  <2>1. Range(ss[i]) \subseteq S
    OBVIOUS
  <2>2. ss[i] \in Seq(Range(ss[i])) /\ \A k \in 1 .. Len(ss[i]) : ss[i][k] \in Range(ss[i])
    BY ProperLength DEF Proper
  <2> HIDE DEF S
  <2>3. \A k \in 1 .. Len(ss[i]) : ss[i][k] \in S
    BY <2>1, <2>2
  <2> QED BY <2>2, <2>3, SeqMonotonic
<1> HIDE DEF S
<1>2. ss \in Seq(Seq(S)) /\ Len(ss) = n
  <2>1. ss \in [1 .. n -> Seq(S)]
    BY <1>1
  <2>2. ss \in Seq(Seq(S)) /\ DOMAIN ss = 1 .. n
    BY <2>1, SeqDef
  <2> QED BY <2>2, LenProperties
<1>3. F \in Seq(S) /\ \E at : Positions(ss, F, at)
  BY <1>2, FlattenPositions
<1> HIDE DEF F
<1>4. Proper(F) /\ Range(F) \subseteq S
  BY <1>3, ProperIs
<1>5. S \subseteq Range(F)
  <2> SUFFICES ASSUME NEW x \in S PROVE x \in Range(F)
    OBVIOUS
  <2>1. PICK i \in 1 .. n : x \in Range(ss[i])
    BY DEF S
  <2>2. PICK k \in 1 .. Len(ss[i]) : x = ss[i][k]
    BY <2>1, ProperLength
  <2>3. PICK at : Positions(ss, F, at)
    BY <1>3
  <2>4. at[i - 1] + k \in 1 .. Len(F) /\ F[at[i - 1] + k] = x
    BY <1>2, <2>2, <2>3 DEF Positions
  <2> QED BY <1>4, <2>4, ProperLength
<1>6. Range(F) = S
  BY <1>4, <1>5
<1> QED BY <1>2, <1>3, <1>4, <1>6 DEF S, F
=============================================================================
