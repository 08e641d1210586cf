-------------------------- MODULE InfoArea_proofs --------------------------
(***************************************************************************)
(* What init_write and write do to the layout, for every executable: the   *)
(* area write fills is the one the multiverse sections had, filling it     *)
(* implements AreaLayout, and with it the layout of the output is sound.   *)
(* Reading the output back finds every kept descriptor, and the relocation *)
(* table is that of its pointers.                                          *)
(***************************************************************************)
EXTENDS InfoArea, Induction, FiniteSetTheorems, TLAPS
-----------------------------------------------------------------------------
(* Prefix sums.  Starts is a recursive function: that one exists is shown  *)
(* by induction on its length.                                             *)
StartsUpTo(s, n, g) ==
  g = [i \in 1 .. n |-> IF i = 1 THEN 0 ELSE g[i - 1] + s[i - 1]]

LEMMA StartsExist ==
  ASSUME NEW s
  PROVE  \A n \in Nat : \E g : StartsUpTo(s, n, g)
<1> DEFINE Good == {n \in Nat : \E g : StartsUpTo(s, n, g)}
<1>1. 0 \in Good
  <2> DEFINE w == [i \in 1 .. 0 |-> 0]
  <2>1. StartsUpTo(s, 0, w)
    BY DEF StartsUpTo
  <2> QED BY <2>1
<1>2. ASSUME NEW n \in Nat, n \in Good PROVE n + 1 \in Good
  <2>1. PICK g : StartsUpTo(s, n, g)
    BY <1>2
  <2> DEFINE last == IF n = 0 THEN 0 ELSE g[n] + s[n]
             w == [i \in 1 .. n + 1 |-> IF i = n + 1 THEN last ELSE g[i]]
  <2>2. \A i \in 1 .. n : w[i] = g[i]
    OBVIOUS
  <2>3. ASSUME NEW i \in 1 .. n + 1
        PROVE  (IF i = n + 1 THEN last ELSE g[i]) = IF i = 1 THEN 0 ELSE w[i - 1] + s[i - 1]
    <3>1. CASE i = n + 1
      <4>1. CASE n = 0
        BY <3>1, <4>1
      <4>2. CASE n # 0
        <5>1. n \in 1 .. n /\ i # 1 /\ i - 1 = n
          BY <3>1, <4>2
        <5>2. w[n] = g[n]
          BY <2>2, <5>1
        <5> HIDE DEF w
        <5> QED BY <3>1, <4>2, <5>1, <5>2
      <4> QED BY <4>1, <4>2
    <3>2. CASE i # n + 1
      <4>1. i \in 1 .. n
        BY <3>2
      <4>2. g[i] = IF i = 1 THEN 0 ELSE g[i - 1] + s[i - 1]
        BY <2>1, <4>1 DEF StartsUpTo
      <4>3. i # 1 => i - 1 \in 1 .. n
        BY <4>1
      <4>4. i # 1 => w[i - 1] = g[i - 1]
        BY <2>2, <4>3
      <4> HIDE DEF w
      <4> QED BY <3>2, <4>2, <4>4
    <3> QED BY <3>1, <3>2
  <2> HIDE DEF w
  <2>4. w = [i \in 1 .. n + 1 |-> IF i = 1 THEN 0 ELSE w[i - 1] + s[i - 1]]
    <3>1. w = [i \in 1 .. n + 1 |-> IF i = n + 1 THEN last ELSE g[i]]
      BY DEF w
    <3> HIDE DEF last
    <3> QED BY <2>3, <3>1
  <2>5. StartsUpTo(s, n + 1, w)
    BY <2>4 DEF StartsUpTo
  <2> QED BY <2>5
<1> HIDE DEF Good
<1>3. \A n \in Nat : n \in Good
  BY <1>1, <1>2, InductionOnNat
<1> QED BY <1>3 DEF Good

LEMMA StartsAre ==
  ASSUME NEW s \in Seq(Nat)
  PROVE  /\ Len(s) \in Nat
         /\ Starts(s) \in [1 .. Len(s) + 1 -> Nat]
         /\ Starts(s)[1] = 0
         /\ \A i \in 1 .. Len(s) : Starts(s)[i + 1] = Starts(s)[i] + s[i]
         /\ Total(s) \in Nat
<1> DEFINE n == Len(s)
<1>1. n \in Nat /\ n + 1 \in Nat /\ \A i \in 1 .. n : s[i] \in Nat
  BY LenProperties, ElementOfSeq
<1> DEFINE at == CHOOSE g : StartsUpTo(s, n + 1, g)
<1>2. Starts(s) = at
  BY DEF Starts, StartsUpTo
<1>3. StartsUpTo(s, n + 1, at)
  BY <1>1, StartsExist
<1> HIDE DEF n, at
<1>4. 1 \in 1 .. n + 1 /\ at[1] = 0
  BY <1>1, <1>3 DEF StartsUpTo
<1>5. ASSUME NEW i \in 1 .. n
      PROVE  at[i + 1] = at[i] + s[i]
  <2>1. i + 1 \in 1 .. n + 1 /\ i + 1 # 1 /\ (i + 1) - 1 = i
    BY <1>1
  <2> QED BY <1>3, <2>1 DEF StartsUpTo
<1> DEFINE Good == {m \in 0 .. n : at[m + 1] \in Nat}
<1>6. 0 \in Good
  BY <1>1, <1>4
<1>7. ASSUME NEW i \in 0 .. n - 1, i \in Good PROVE i + 1 \in Good
  <2>1. i + 1 \in 1 .. n /\ i + 1 \in 0 .. n
    BY <1>1
  <2>2. at[i + 1] \in Nat /\ s[i + 1] \in Nat
    BY <1>1, <1>7, <2>1
  <2>3. at[(i + 1) + 1] = at[i + 1] + s[i + 1]
    BY <1>5, <2>1
  <2> QED BY <2>1, <2>2, <2>3
<1> HIDE DEF Good
<1>8. \A m \in 0 .. n : m \in Good
  BY <1>1, <1>6, <1>7, InductionUpTo
<1>9. at \in [1 .. n + 1 -> Nat]
  <2>1. \A m \in 0 .. n : at[m + 1] \in Nat
    BY <1>8 DEF Good
  <2>2. \A i \in 1 .. n + 1 : at[i] \in Nat
    <3> SUFFICES ASSUME NEW i \in 1 .. n + 1 PROVE at[i] \in Nat
      OBVIOUS
    <3>1. i - 1 \in 0 .. n /\ (i - 1) + 1 = i
      BY <1>1
    <3> QED BY <2>1, <3>1
  <2>3. at = [i \in 1 .. n + 1 |-> at[i]]
    BY <1>3 DEF StartsUpTo
  <2> QED BY <2>2, <2>3
<1>10. Total(s) \in Nat
  <2>1. n + 1 \in 1 .. n + 1
    BY <1>1
  <2> QED BY <1>2, <1>9, <2>1 DEF Total, n
<1> QED BY <1>1, <1>2, <1>4, <1>5, <1>9, <1>10 DEF n

(* Sums of no greater numbers are no greater. *)
LEMMA StartsMonotonic ==
  ASSUME NEW s \in Seq(Nat), NEW t \in Seq(Nat), Len(s) = Len(t),
         \A i \in 1 .. Len(s) : s[i] <= t[i]
  PROVE  /\ \A i \in 1 .. Len(s) + 1 : Starts(s)[i] <= Starts(t)[i]
         /\ Total(s) <= Total(t)
<1> DEFINE n == Len(s)
           f == Starts(s)
           g == Starts(t)
<1>1. /\ n \in Nat /\ f[1] = 0 /\ g[1] = 0
      /\ \A i \in 1 .. n + 1 : f[i] \in Nat /\ g[i] \in Nat
      /\ \A i \in 1 .. n : f[i + 1] = f[i] + s[i] /\ g[i + 1] = g[i] + t[i]
      /\ \A i \in 1 .. n : s[i] \in Nat /\ t[i] \in Nat
  BY StartsAre, ElementOfSeq
<1>2. \A i \in 1 .. n : s[i] <= t[i]
  OBVIOUS
<1> HIDE DEF n, f, g
<1> DEFINE Good == {m \in 0 .. n : f[m + 1] <= g[m + 1]}
<1>3. 0 \in Good
  BY <1>1
<1>4. ASSUME NEW i \in 0 .. n - 1, i \in Good PROVE i + 1 \in Good
  <2>1. i + 1 \in 1 .. n /\ i + 1 \in 0 .. n /\ i + 1 \in 1 .. n + 1
    BY <1>1
  <2>2. /\ f[i + 1] \in Nat /\ g[i + 1] \in Nat /\ s[i + 1] \in Nat /\ t[i + 1] \in Nat
        /\ f[i + 1] <= g[i + 1] /\ s[i + 1] <= t[i + 1]
    BY <1>1, <1>2, <1>4, <2>1
  <2>3. f[(i + 1) + 1] = f[i + 1] + s[i + 1] /\ g[(i + 1) + 1] = g[i + 1] + t[i + 1]
    BY <1>1, <2>1
  <2>4. f[(i + 1) + 1] <= g[(i + 1) + 1]
    BY <2>2, <2>3
  <2> QED BY <2>1, <2>4
<1> HIDE DEF Good
<1>5. \A m \in 0 .. n : m \in Good
  BY <1>1, <1>3, <1>4, InductionUpTo
<1>6. \A i \in 1 .. n + 1 : f[i] <= g[i]
  <2> SUFFICES ASSUME NEW i \in 1 .. n + 1 PROVE f[i] <= g[i]
    OBVIOUS
  <2>1. i - 1 \in 0 .. n /\ (i - 1) + 1 = i
    BY <1>1
  <2> QED BY <1>5, <2>1 DEF Good
<1>7. n + 1 \in 1 .. n + 1
  BY <1>1
<1>8. f[n + 1] <= g[n + 1]
  BY <1>6, <1>7
<1> QED BY <1>6, <1>8 DEF Total, n, f, g

(* Sums of bounded numbers. *)
LEMMA StartsBounded ==
  ASSUME NEW s \in Seq(Nat), NEW c \in Nat, \A i \in 1 .. Len(s) : s[i] <= c
  PROVE  Total(s) <= c * Len(s)
<1> DEFINE n == Len(s)
           f == Starts(s)
<1>1. /\ n \in Nat /\ f[1] = 0
      /\ \A i \in 1 .. n + 1 : f[i] \in Nat
      /\ \A i \in 1 .. n : f[i + 1] = f[i] + s[i]
      /\ \A i \in 1 .. n : s[i] \in Nat
  BY StartsAre, ElementOfSeq
<1>2. \A i \in 1 .. n : s[i] <= c
  OBVIOUS
<1> HIDE DEF n, f
<1> DEFINE Good == {m \in 0 .. n : f[m + 1] <= c * m}
<1>3. 0 \in Good
  BY <1>1
<1>4. ASSUME NEW i \in 0 .. n - 1, i \in Good PROVE i + 1 \in Good
  <2>1. i + 1 \in 1 .. n /\ i + 1 \in 0 .. n /\ i + 1 \in 1 .. n + 1 /\ i \in Nat
    BY <1>1
  <2>2. /\ f[i + 1] \in Nat /\ s[i + 1] \in Nat
        /\ f[i + 1] <= c * i /\ s[i + 1] <= c
    BY <1>1, <1>2, <1>4, <2>1
  <2>3. f[(i + 1) + 1] = f[i + 1] + s[i + 1]
    BY <1>1, <2>1
  <2>4. c * (i + 1) = c * i + c /\ c * i \in Nat
    BY <2>1
  <2>5. f[(i + 1) + 1] <= c * (i + 1)
    BY <2>2, <2>3, <2>4
  <2> QED BY <2>1, <2>5
<1> HIDE DEF Good
<1>5. \A m \in 0 .. n : m \in Good
  BY <1>1, <1>3, <1>4, InductionUpTo
<1>6. n \in 0 .. n
  BY <1>1
<1>7. f[n + 1] <= c * n
  BY <1>5, <1>6 DEF Good
<1> QED BY <1>7 DEF Total, n, f

(* The sum of a sequence with a positive number is positive. *)
LEMMA TotalPositive ==
  ASSUME NEW s \in Seq(Nat), NEW k \in 1 .. Len(s), s[k] > 0
  PROVE  Total(s) > 0
<1> DEFINE n == Len(s)
           f == Starts(s)
<1>1. /\ n \in Nat /\ f[1] = 0
      /\ \A i \in 1 .. n + 1 : f[i] \in Nat
      /\ \A i \in 1 .. n : f[i + 1] = f[i] + s[i]
      /\ \A i \in 1 .. n : s[i] \in Nat
  BY StartsAre, ElementOfSeq
<1>2. k \in 1 .. n
  OBVIOUS
<1> HIDE DEF n, f
<1> DEFINE Good == {m \in 0 .. n : m >= k => f[m + 1] > 0}
<1>3. 0 \in Good
  BY <1>1, <1>2
<1>4. ASSUME NEW i \in 0 .. n - 1, i \in Good PROVE i + 1 \in Good
  <2>1. i + 1 \in 1 .. n /\ i + 1 \in 0 .. n /\ i + 1 \in 1 .. n + 1 /\ i \in Nat
    BY <1>1
  <2>2. f[i + 1] \in Nat /\ s[i + 1] \in Nat /\ f[(i + 1) + 1] = f[i + 1] + s[i + 1]
    BY <1>1, <2>1
  <2>3. CASE i + 1 = k
    BY <2>1, <2>2, <2>3
  <2>4. CASE i >= k
    <3>1. f[i + 1] > 0
      BY <1>4, <2>4
    <3> QED BY <2>1, <2>2, <3>1
  <2>5. CASE i + 1 < k
    BY <1>2, <2>1, <2>5
  <2> QED BY <1>2, <2>1, <2>3, <2>4, <2>5
<1> HIDE DEF Good
<1>5. \A m \in 0 .. n : m \in Good
  BY <1>1, <1>3, <1>4, InductionUpTo
<1>6. n \in 0 .. n /\ n >= k
  BY <1>1, <1>2
<1>7. f[n + 1] > 0
  BY <1>5, <1>6 DEF Good
<1> QED BY <1>7 DEF Total, n, f

(* A size for each element of a vector. *)
LEMMA OverVector ==
  ASSUME NEW S, NEW vec \in Seq(S), NEW sz \in [DOMAIN vec -> Nat]
  PROVE  /\ sz \in Seq(Nat) /\ Len(sz) = Len(vec) /\ Len(vec) \in Nat
         /\ DOMAIN vec = 1 .. Len(vec) /\ \A i \in 1 .. Len(vec) : vec[i] \in S
<1> DEFINE m == Len(vec)
<1>1. m \in Nat /\ DOMAIN vec = 1 .. m /\ \A i \in 1 .. m : vec[i] \in S
  BY LenProperties, ElementOfSeq
<1> HIDE DEF m
<1>2. sz \in Seq(Nat) /\ DOMAIN sz = 1 .. m
  BY <1>1, SeqDef
<1>3. DOMAIN sz = 1 .. Len(sz) /\ Len(sz) \in Nat
  BY <1>2, LenProperties
<1>4. Len(sz) = m
  BY <1>1, <1>2, <1>3
<1> QED BY <1>1, <1>2, <1>4 DEF m
-----------------------------------------------------------------------------
(* Sizes. *)
LEMMA Exe ==
  ASSUME exe \in Exes
  PROVE  /\ Vars \in Seq(Range(Vars)) /\ Fns \in Seq(Range(Fns)) /\ Sites \in Seq(Range(Sites))
         /\ \A f \in Range(Fns) : nAssigns[f] \in Seq(Nat)
         /\ \E i \in DOMAIN Fns : nAssigns[Fns[i]] # <<>>
         /\ DOMAIN exe.order = 1 .. 4 /\ Range(exe.order) = Part
BY VectorAssumption, DataAssumption DEF Vars, Fns, Sites

(* The variants of a function and their assignments take some room, if     *)
(* there are any.                                                          *)
LEMMA DataSizes ==
  ASSUME NEW f, nAssigns[f] \in Seq(Nat)
  PROVE  DataSize(f) \in Nat /\ (nAssigns[f] # <<>> => DataSize(f) > 0)
<1> DEFINE vec == nAssigns[f]
           sz == [k \in DOMAIN vec |-> MvfnSize + AssignSize * vec[k]]
<1>1. /\ Len(vec) \in Nat /\ DOMAIN vec = 1 .. Len(vec)
      /\ \A k \in DOMAIN vec : vec[k] \in Nat
  BY LenProperties, ElementOfSeq
<1>2. \A k \in DOMAIN vec : MvfnSize + AssignSize * vec[k] \in Nat \ {0}
  BY <1>1 DEF MvfnSize, AssignSize
<1>3. sz \in [DOMAIN vec -> Nat] /\ \A k \in DOMAIN vec : sz[k] > 0
  BY <1>2
<1>4. DataSize(f) = Total(sz)
  BY DEF DataSize
<1> HIDE DEF sz
<1>5. sz \in Seq(Nat) /\ Len(sz) = Len(vec)
  BY <1>3, OverVector
<1>6. Total(sz) \in Nat
  BY <1>5, StartsAre
<1>7. ASSUME vec # <<>> PROVE Total(sz) > 0
  <2>1. Len(vec) # 0
    BY <1>7, EmptySeq
  <2>2. 1 \in 1 .. Len(sz) /\ sz[1] > 0
    BY <1>1, <1>3, <1>5, <2>1
  <2> QED BY <1>5, <2>2, TotalPositive
<1> QED BY <1>4, <1>6, <1>7

(* Dropping descriptors only makes a section smaller.                      *)
LEMMA KeptSizes ==
  ASSUME NEW S, NEW vec \in Seq(S), NEW sz \in [DOMAIN vec -> Nat],
         NEW all \in [DOMAIN vec -> Nat], \A i \in DOMAIN vec : sz[i] <= all[i]
  PROVE  Total(sz) \in Nat /\ Total(all) \in Nat /\ Total(sz) <= Total(all)
<1>1. /\ sz \in Seq(Nat) /\ Len(sz) = Len(vec) /\ all \in Seq(Nat) /\ Len(all) = Len(vec)
      /\ DOMAIN vec = 1 .. Len(vec)
  BY OverVector
<1> QED BY <1>1, StartsAre, StartsMonotonic

LEMMA FixedSizes ==
  ASSUME NEW S, NEW vec \in Seq(S), NEW sz \in [DOMAIN vec -> Nat],
         NEW c \in Nat, \A i \in DOMAIN vec : sz[i] <= c
  PROVE  Total(sz) \in Nat /\ Len(vec) \in Nat /\ Total(sz) <= c * Len(vec)
<1>1. /\ sz \in Seq(Nat) /\ Len(sz) = Len(vec) /\ Len(vec) \in Nat
      /\ DOMAIN vec = 1 .. Len(vec)
  BY OverVector
<1> QED BY <1>1, StartsAre, StartsBounded

LEMMA DataSection ==
  ASSUME exe \in Exes
  PROVE  /\ SizeIn("mvdata") \in Nat /\ SizeIn("mvdata") > 0
         /\ Total(Sizes(Fns, KeepFn, DataSize)) \in Nat
         /\ Total(Sizes(Fns, KeepFn, DataSize)) <= SizeIn("mvdata")
<1> DEFINE all == [i \in DOMAIN Fns |-> DataSize(Fns[i])]
           sz == [i \in DOMAIN Fns |-> IF Fns[i] \notin fixed THEN DataSize(Fns[i]) ELSE 0]
<1>1. Fns \in Seq(Range(Fns)) /\ \A i \in DOMAIN Fns : Fns[i] \in Range(Fns)
  BY Exe DEF Range
<1>2. \A i \in DOMAIN Fns : DataSize(Fns[i]) \in Nat
  BY <1>1, Exe, DataSizes
<1>3. all \in [DOMAIN Fns -> Nat] /\ sz \in [DOMAIN Fns -> Nat]
      /\ \A i \in DOMAIN Fns : sz[i] <= all[i]
  BY <1>2
<1>4. SizeIn("mvdata") = Total(all)
  BY DEF SizeIn, Sizes, Always
<1>5. Total(Sizes(Fns, KeepFn, DataSize)) = Total(sz)
  BY DEF Sizes, KeepFn
<1>6. \E i \in DOMAIN Fns : all[i] > 0
  <2>1. PICK i \in DOMAIN Fns : nAssigns[Fns[i]] # <<>>
    BY Exe
  <2>2. DataSize(Fns[i]) > 0
    BY <1>1, <2>1, Exe, DataSizes
  <2> QED BY <2>1, <2>2
<1> HIDE DEF all, sz
<1>7. Total(sz) \in Nat /\ Total(all) \in Nat /\ Total(sz) <= Total(all)
  BY <1>1, <1>3, KeptSizes
<1>8. Total(all) > 0
  <2>1. all \in Seq(Nat) /\ DOMAIN Fns = 1 .. Len(all)
    BY <1>1, <1>3, OverVector
  <2> QED BY <1>6, <2>1, TotalPositive
<1> QED BY <1>4, <1>5, <1>7, <1>8

LEMMA BoundedSections ==
  ASSUME exe \in Exes
  PROVE  /\ SizeIn("mvfn") \in Nat /\ SizeIn("mvvar") \in Nat /\ SizeIn("mvcs") \in Nat
         /\ Total(Sizes(Fns, KeepFn, FnBlock)) \in 0 .. SizeIn("mvfn")
         /\ Total(Sizes(Vars, KeepVar, VarBlock)) \in 0 .. SizeIn("mvvar")
         /\ Total(Sizes(Sites, KeepSite, SiteBlock)) \in 0 .. SizeIn("mvcs")
<1>1. ASSUME NEW S, NEW vec \in Seq(S), NEW c \in Nat, NEW sz \in [DOMAIN vec -> {0, c}]
      PROVE  Total(sz) \in 0 .. c * Len(vec) /\ c * Len(vec) \in Nat
  <2>1. sz \in [DOMAIN vec -> Nat] /\ \A i \in DOMAIN vec : sz[i] <= c
    BY <1>1
  <2>2. Total(sz) \in Nat /\ Len(vec) \in Nat /\ Total(sz) <= c * Len(vec)
    BY <2>1, FixedSizes
  <2>3. c * Len(vec) \in Nat
    <3> DEFINE n == Len(vec)
    <3>1. n \in Nat
      BY <2>2
    <3> HIDE DEF n
    <3>2. c * n \in Nat
      BY <3>1
    <3> QED BY <3>2 DEF n
  <2> DEFINE u == c * Len(vec)
  <2> HIDE DEF u
  <2>4. Total(sz) \in 0 .. u
    BY <2>2, <2>3 DEF u
  <2> QED BY <2>3, <2>4 DEF u
<1>2. /\ FnSize \in Nat /\ VarSize \in Nat /\ SiteSize \in Nat
      /\ Fns \in Seq(Range(Fns)) /\ Vars \in Seq(Range(Vars)) /\ Sites \in Seq(Range(Sites))
  BY Exe DEF FnSize, VarSize, SiteSize
<1>3. SizeIn("mvfn") = FnSize * Len(Fns) /\ SizeIn("mvvar") = VarSize * Len(Vars)
      /\ SizeIn("mvcs") = SiteSize * Len(Sites)
  BY DEF SizeIn
<1>4. Total(Sizes(Fns, KeepFn, FnBlock)) \in 0 .. SizeIn("mvfn") /\ SizeIn("mvfn") \in Nat
  <2> DEFINE sz == [i \in DOMAIN Fns |-> IF Fns[i] \notin fixed THEN FnSize ELSE 0]
  <2>1. sz \in [DOMAIN Fns -> {0, FnSize}]
    OBVIOUS
  <2>2. Sizes(Fns, KeepFn, FnBlock) = sz
    BY DEF Sizes, KeepFn, FnBlock
  <2> HIDE DEF sz
  <2> QED BY <1>1, <1>2, <1>3, <2>1, <2>2
<1>5. Total(Sizes(Vars, KeepVar, VarBlock)) \in 0 .. SizeIn("mvvar") /\ SizeIn("mvvar") \in Nat
  <2> DEFINE sz == [i \in DOMAIN Vars |-> IF Vars[i] \notin frozen THEN VarSize ELSE 0]
  <2>1. sz \in [DOMAIN Vars -> {0, VarSize}]
    OBVIOUS
  <2>2. Sizes(Vars, KeepVar, VarBlock) = sz
    BY DEF Sizes, KeepVar, VarBlock
  <2> HIDE DEF sz
  <2> QED BY <1>1, <1>2, <1>3, <2>1, <2>2
<1>6. Total(Sizes(Sites, KeepSite, SiteBlock)) \in 0 .. SizeIn("mvcs") /\ SizeIn("mvcs") \in Nat
  <2> DEFINE sz == [i \in DOMAIN Sites |-> IF callee[Sites[i]] \notin fixed THEN SiteSize ELSE 0]
  <2>1. sz \in [DOMAIN Sites -> {0, SiteSize}]
    OBVIOUS
  <2>2. Sizes(Sites, KeepSite, SiteBlock) = sz
    BY DEF Sizes, KeepSite, SiteBlock
  <2> HIDE DEF sz
  <2> QED BY <1>1, <1>2, <1>3, <2>1, <2>2
<1> QED BY <1>4, <1>5, <1>6

(* The sections in the order of the file, one of each: what they take      *)
(* together, and where one starts, behind those in front of it.            *)
FirstOfOrder(n) == Total([j \in 1 .. n |-> SizeIn(exe.order[j])])

LEMMA OrderedSizes ==
  ASSUME exe \in Exes
  PROVE  /\ \A p \in Part : SizeIn(p) \in Nat
         /\ AreaSize = SizeIn("mvdata") + SizeIn("mvfn") + SizeIn("mvvar") + SizeIn("mvcs")
         /\ AreaSize \in Nat /\ AreaSize > 0
         /\ \A p \in Part : OffIn(p) \in Nat /\ OffIn(p) + SizeIn(p) <= AreaSize
         /\ \E p \in Part : SizeIn(p) > 0 /\ OffIn(p) = 0
<1> DEFINE o == exe.order
           s(j) == SizeIn(o[j])
<1>1. \A p \in Part : SizeIn(p) \in Nat
  BY DataSection, BoundedSections DEF Part
<1>2. /\ DOMAIN o = 1 .. 4 /\ \A j \in 1 .. 4 : o[j] \in Part
      /\ \A p \in Part : \E j \in 1 .. 4 : o[j] = p
  <2>1. DOMAIN o = 1 .. 4 /\ Range(o) = Part
    BY Exe
  <2> QED BY <2>1 DEF Range
<1>3. s(1) \in Nat /\ s(2) \in Nat /\ s(3) \in Nat /\ s(4) \in Nat
  BY <1>1, <1>2
<1>4. ASSUME NEW n \in 0 .. 4
      PROVE  LET q == [j \in 1 .. n |-> SizeIn(o[j])]
             IN q \in Seq(Nat) /\ Len(q) = n /\ \A j \in 1 .. n : q[j] = s(j)
  <2> DEFINE q == [j \in 1 .. n |-> SizeIn(o[j])]
  <2>1. \A j \in 1 .. n : j \in 1 .. 4
    OBVIOUS
  <2>2. q \in [1 .. n -> Nat] /\ n \in Nat
    BY <1>1, <1>2, <2>1
  <2>3. \A j \in 1 .. n : q[j] = s(j)
    OBVIOUS
  <2> HIDE DEF q
  <2>4. q \in Seq(Nat) /\ DOMAIN q = 1 .. n
    BY <2>2, SeqDef
  <2>5. Len(q) = n
    BY <2>2, <2>4, LenProperties
  <2> QED BY <2>3, <2>4, <2>5 DEF q
<1>5. /\ FirstOfOrder(0) = 0 /\ FirstOfOrder(1) = s(1) /\ FirstOfOrder(2) = s(1) + s(2)
      /\ FirstOfOrder(3) = s(1) + s(2) + s(3) /\ FirstOfOrder(4) = s(1) + s(2) + s(3) + s(4)
  <2>1. ASSUME NEW n \in 0 .. 4
        PROVE  /\ n = 0 => FirstOfOrder(n) = 0
               /\ n = 1 => FirstOfOrder(n) = s(1)
               /\ n = 2 => FirstOfOrder(n) = s(1) + s(2)
               /\ n = 3 => FirstOfOrder(n) = s(1) + s(2) + s(3)
               /\ n = 4 => FirstOfOrder(n) = s(1) + s(2) + s(3) + s(4)
    <3> DEFINE q == [j \in 1 .. n |-> SizeIn(o[j])]
    <3>1. q \in Seq(Nat) /\ Len(q) = n /\ \A j \in 1 .. n : q[j] = s(j)
      BY <1>4
    <3>2. FirstOfOrder(n) = Total(q)
      BY DEF FirstOfOrder
    <3> HIDE DEF q, s
    <3>3. Starts(q)[1] = 0 /\ \A j \in 1 .. n : Starts(q)[j + 1] = Starts(q)[j] + s(j)
      BY <3>1, StartsAre
    <3>4. Total(q) = Starts(q)[n + 1]
      BY <3>1 DEF Total
    <3> DEFINE f == Starts(q)
    <3> HIDE DEF f
    <3>5. /\ f[1] = 0 /\ (n >= 1 => f[2] = f[1] + s(1)) /\ (n >= 2 => f[3] = f[2] + s(2))
          /\ (n >= 3 => f[4] = f[3] + s(3)) /\ (n >= 4 => f[5] = f[4] + s(4))
      BY <3>3 DEF f
    <3>6. FirstOfOrder(n) = f[n + 1]
      BY <3>2, <3>4 DEF f
    <3>7. s(1) \in Nat /\ s(2) \in Nat /\ s(3) \in Nat /\ s(4) \in Nat
      BY <1>3
    <3> QED BY <3>5, <3>6, <3>7
  <2> HIDE DEF s
  <2> QED BY <2>1
<1>6. AreaSize = FirstOfOrder(4)
  BY <1>2 DEF AreaSize, FirstOfOrder
<1>7. \A p \in Part : \E i \in 1 .. 4 : o[i] = p /\ OffIn(p) = FirstOfOrder(i - 1)
  BY <1>2 DEF OffIn, FirstOfOrder
<1>8. AreaSize = s(1) + s(2) + s(3) + s(4)
  BY <1>5, <1>6
<1>13. \A i, j \in 1 .. 4 : o[i] = o[j] => i = j
  <2> DEFINE a == o[1]
             b == o[2]
             c == o[3]
             d == o[4]
  <2>1. \A p \in Part : a = p \/ b = p \/ c = p \/ d = p
    <3>1. \A p \in Part : o[1] = p \/ o[2] = p \/ o[3] = p \/ o[4] = p
      <4> HIDE DEF o
      <4> QED BY <1>2
    <3> QED BY <3>1
  <2> HIDE DEF a, b, c, d
  <2>2. a # b /\ a # c /\ a # d /\ b # c /\ b # d /\ c # d
    BY <2>1 DEF Part
  <2>3. \A i \in 1 .. 4 : i = 1 \/ i = 2 \/ i = 3 \/ i = 4
    OBVIOUS
  <2> QED BY <2>2, <2>3 DEF a, b, c, d
<1>9. AreaSize = SizeIn("mvdata") + SizeIn("mvfn") + SizeIn("mvvar") + SizeIn("mvcs")
  <2>1. \A p \in Part : o[1] = p \/ o[2] = p \/ o[3] = p \/ o[4] = p
    <3> HIDE DEF o
    <3> QED BY <1>2
  <2>2. o[1] \in Part /\ o[2] \in Part /\ o[3] \in Part /\ o[4] \in Part
    BY <1>2
  <2>3. AreaSize = SizeIn(o[1]) + SizeIn(o[2]) + SizeIn(o[3]) + SizeIn(o[4])
    BY <1>8
  <2> DEFINE a == o[1]
             b == o[2]
             c == o[3]
             d == o[4]
  <2>4. a \in Part /\ b \in Part /\ c \in Part /\ d \in Part
    BY <2>2
  <2>5. \A p \in Part : a = p \/ b = p \/ c = p \/ d = p
    BY <2>1
  <2>6. AreaSize = SizeIn(a) + SizeIn(b) + SizeIn(c) + SizeIn(d)
    BY <2>3
  <2> HIDE DEF a, b, c, d
  <2> QED BY <1>1, <2>4, <2>5, <2>6 DEF Part
<1>10. AreaSize \in Nat /\ AreaSize > 0
  BY <1>1, <1>9, DataSection DEF Part
<1>11. \A p \in Part : OffIn(p) \in Nat /\ OffIn(p) + SizeIn(p) <= AreaSize
  <2> SUFFICES ASSUME NEW p \in Part
               PROVE  OffIn(p) \in Nat /\ OffIn(p) + SizeIn(p) <= AreaSize
    OBVIOUS
  <2>1. PICK i \in 1 .. 4 : o[i] = p /\ OffIn(p) = FirstOfOrder(i - 1)
    BY <1>7
  <2>2. SizeIn(p) = s(i)
    BY <2>1
  <2>3. i = 1 \/ i = 2 \/ i = 3 \/ i = 4
    OBVIOUS
  <2> HIDE DEF s, o
  <2> QED BY <1>3, <1>5, <1>6, <2>1, <2>2, <2>3
<1>12. \E p \in Part : SizeIn(p) > 0 /\ OffIn(p) = 0
  <2>1. ASSUME NEW i \in 1 .. 4, s(i) > 0, \A j \in 1 .. i - 1 : s(j) = 0
        PROVE  \E p \in Part : SizeIn(p) > 0 /\ OffIn(p) = 0
    <3> DEFINE p == o[i]
    <3>1. p \in Part /\ SizeIn(p) = s(i)
      BY <1>2
    <3>2. PICK k \in 1 .. 4 : o[k] = p /\ OffIn(p) = FirstOfOrder(k - 1)
      BY <1>7, <3>1
    <3>3. k = i
      BY <1>13, <3>2
    <3>5. OffIn(p) = 0
      <4>1. /\ i >= 2 => s(1) = 0
            /\ i >= 3 => s(2) = 0
            /\ i >= 4 => s(3) = 0
        <5> HIDE DEF s
        <5> QED BY <2>1
      <4>2. OffIn(p) = FirstOfOrder(i - 1)
        BY <3>2, <3>3
      <4>3. i = 1 \/ i = 2 \/ i = 3 \/ i = 4
        OBVIOUS
      <4> HIDE DEF s, o, p
      <4> QED BY <1>5, <4>1, <4>2, <4>3
    <3> QED BY <2>1, <3>1, <3>5
  <2>2. s(1) > 0 \/ s(2) > 0 \/ s(3) > 0 \/ s(4) > 0
    <3> HIDE DEF s
    <3> QED BY <1>3, <1>8, <1>10
  <2> HIDE DEF s
  <2>3. CASE s(1) > 0
    BY <2>1, <2>3
  <2>4. CASE s(2) > 0 /\ s(1) = 0
    <3>1. \A j \in 1 .. 2 - 1 : s(j) = 0
      <4>1. \A j \in 1 .. 2 - 1 : j = 1
        OBVIOUS
      <4> QED BY <2>4, <4>1
    <3> QED BY <2>1, <2>4, <3>1
  <2>5. CASE s(3) > 0 /\ s(1) = 0 /\ s(2) = 0
    <3>1. \A j \in 1 .. 3 - 1 : s(j) = 0
      <4>1. \A j \in 1 .. 3 - 1 : j = 1 \/ j = 2
        OBVIOUS
      <4> QED BY <2>5, <4>1
    <3> QED BY <2>1, <2>5, <3>1
  <2>6. CASE s(4) > 0 /\ s(1) = 0 /\ s(2) = 0 /\ s(3) = 0
    <3>1. \A j \in 1 .. 4 - 1 : s(j) = 0
      <4>1. \A j \in 1 .. 4 - 1 : j = 1 \/ j = 2 \/ j = 3
        OBVIOUS
      <4> QED BY <2>6, <4>1
    <3> QED BY <2>1, <2>6, <3>1
  <2>7. /\ (s(1) > 0 \/ s(1) = 0) /\ (s(2) > 0 \/ s(2) = 0)
        /\ (s(3) > 0 \/ s(3) = 0) /\ (s(4) > 0 \/ s(4) = 0)
    BY <1>3
  <2> QED BY <2>2, <2>3, <2>4, <2>5, <2>6, <2>7
<1> QED BY <1>1, <1>9, <1>10, <1>11, <1>12
-----------------------------------------------------------------------------
(* Where the search ends up. *)

(* The vectors, and so all positions in the input, stay what they are. *)
LEMMA Stable ==
  ASSUME exe' = exe, removed' = removed
  PROVE  /\ \A p : SizeIn(p)' = SizeIn(p) /\ Missing(p)' = Missing(p)
                   /\ Absent(p)' = Absent(p) /\ OffIn(p)' = OffIn(p) /\ Header(p)' = Header(p)
         /\ AreaSize' = AreaSize /\ AreaEnd' = AreaEnd /\ BssAt' = BssAt /\ VaddrEnd' = VaddrEnd
         /\ Phdrs' = Phdrs
<1>1. \A p : SizeIn(p)' = SizeIn(p)
  BY DEF SizeIn, Sizes, Always, Vars, Fns, Sites
<1>2. AreaSize' = AreaSize
  BY <1>1 DEF AreaSize
<1>3. \A p : OffIn(p)' = OffIn(p)
  BY <1>1 DEF OffIn
<1>4. AreaEnd' = AreaEnd /\ BssAt' = BssAt
  BY <1>2 DEF AreaEnd, BssAt
<1>5. VaddrEnd' = VaddrEnd
  BY <1>4 DEF VaddrEnd
<1>6. \A p : Missing(p)' = Missing(p) /\ Absent(p)' = Absent(p)
  BY <1>1 DEF Missing, Absent
<1>7. \A p : Header(p)' = Header(p)
  BY <1>1, <1>3, <1>4 DEF Header
<1>8. Phdrs' = Phdrs
  BY <1>2, <1>4, <1>5 DEF Phdrs
<1> QED BY <1>1, <1>2, <1>3, <1>4, <1>5, <1>6, <1>7, <1>8

(* The numbers of the layout. *)
LEMMA Numbers ==
  ASSUME exe \in Exes
  PROVE  /\ areaOff \in Nat /\ areaAt \in Nat /\ bssPad \in Nat /\ bssSize \in Nat
         /\ dataSize \in Nat /\ dataSize <= areaOff /\ dataSize <= areaAt
         /\ AreaEnd = areaOff + AreaSize /\ BssAt = areaAt + AreaSize + bssPad
         /\ VaddrEnd = BssAt + bssSize
         /\ AreaSize \in Nat /\ AreaSize > 0
         /\ AreaEnd \in Nat /\ BssAt \in Nat /\ VaddrEnd \in Nat
<1>1. AreaSize \in Nat /\ AreaSize > 0
  BY OrderedSizes
<1>2. /\ areaOff \in Nat /\ areaAt \in Nat /\ bssPad \in Nat /\ bssSize \in Nat
      /\ dataSize \in Nat /\ dataSize <= areaOff /\ dataSize <= areaAt
  BY LayoutAssumption
<1>3. AreaEnd = areaOff + AreaSize /\ BssAt = areaAt + AreaSize + bssPad /\ VaddrEnd = BssAt + bssSize
  BY DEF AreaEnd, BssAt, VaddrEnd
<1> QED BY <1>1, <1>2, <1>3

(* find_start_of_area: one section more is looked at.  Whatever was in the *)
(* header it is given, the first section it finds replaces it.             *)
Candidate(acc) ==
  /\ acc.off \in Nat /\ acc.off >= areaOff /\ acc.off < AreaEnd
  /\ acc.at = areaAt + (acc.off - areaOff)
  /\ acc.shdr.off \in Nat /\ acc.shdr.off >= acc.off

LEMMA LooksOn ==
  ASSUME exe \in Exes, NEW acc, Candidate(acc), NEW p \in Part,
         acc = [shdr |-> acc.shdr, off |-> acc.off, at |-> acc.at]
  PROVE  LET nxt == Look(acc, p)
         IN /\ Candidate(nxt)
            /\ nxt = [shdr |-> nxt.shdr, off |-> nxt.off, at |-> nxt.at]
            /\ nxt.off <= acc.off
            /\ SizeIn(p) > 0 => nxt.off <= areaOff + OffIn(p)
<1> DEFINE h == IF Missing(p) THEN acc.shdr ELSE Header(p)
           nxt == Look(acc, p)
<1>1. nxt = IF acc.off > h.off THEN [shdr |-> h, off |-> h.off, at |-> h.at]
            ELSE [shdr |-> h, off |-> acc.off, at |-> acc.at]
  BY DEF Look
<1>2. /\ areaOff \in Nat /\ areaAt \in Nat /\ SizeIn(p) \in Nat /\ OffIn(p) \in Nat
      /\ OffIn(p) + SizeIn(p) <= AreaSize /\ AreaEnd = areaOff + AreaSize /\ AreaSize \in Nat
  BY Numbers, OrderedSizes
<1>3. /\ acc.off \in Nat /\ acc.off >= areaOff /\ acc.off < AreaEnd
      /\ acc.at = areaAt + (acc.off - areaOff)
      /\ acc.shdr.off \in Nat /\ acc.shdr.off >= acc.off
  BY DEF Candidate
<1>4. CASE Missing(p)
  <2>1. SizeIn(p) = 0 /\ h = acc.shdr
    BY <1>4 DEF Missing
  <2>2. nxt = [shdr |-> acc.shdr, off |-> acc.off, at |-> acc.at]
    BY <1>1, <1>3, <2>1
  <2>3. nxt = acc
    BY <2>2
  <2> HIDE DEF nxt
  <2> QED BY <1>2, <1>3, <2>1, <2>3 DEF nxt
<1>5. CASE ~Missing(p)
  <2>1. p # "bss"
    BY DEF Part
  <2>2. h.off = areaOff + OffIn(p) /\ h.at = areaAt + OffIn(p)
    BY <1>5, <2>1 DEF Header
  <2>3. SizeIn(p) > 0
    BY <1>2, <1>5 DEF Missing
  <2> HIDE DEF h
  <2>4. /\ nxt.shdr = h
        /\ nxt.off = IF acc.off > h.off THEN h.off ELSE acc.off
        /\ nxt.at = IF acc.off > h.off THEN h.at ELSE acc.at
        /\ nxt = [shdr |-> nxt.shdr, off |-> nxt.off, at |-> nxt.at]
    BY <1>1
  <2> HIDE DEF nxt
  <2>5. Candidate(nxt)
    BY <1>2, <1>3, <2>2, <2>3, <2>4 DEF Candidate
  <2>6. nxt.off <= acc.off /\ nxt.off <= areaOff + OffIn(p)
    BY <1>2, <1>3, <2>2, <2>4
  <2> QED BY <2>4, <2>5, <2>6 DEF nxt
<1> QED BY <1>4, <1>5

(* The first section is found, in whatever order they are, although the    *)
(* header of a missing one is read: mvdata is looked at first and is never *)
(* missing.                                                                *)
LEMMA StartFound ==
  ASSUME exe \in Exes, NEW shdr
  PROVE  FindStart(AreaEnd, shdr).off = areaOff /\ FindStart(AreaEnd, shdr).at = areaAt
<1> DEFINE none == [shdr |-> shdr, off |-> AreaEnd, at |-> shdr.at]
           a == Look(none, "mvdata")
           b == Look(a, "mvvar")
           c == Look(b, "mvfn")
           d == Look(c, "mvcs")
<1>1. FindStart(AreaEnd, shdr) = d
  BY DEF FindStart
<1>2. /\ Candidate(a) /\ a = [shdr |-> a.shdr, off |-> a.off, at |-> a.at]
      /\ a.off = areaOff + OffIn("mvdata")
  <2>1. /\ areaOff \in Nat /\ areaAt \in Nat /\ SizeIn("mvdata") \in Nat /\ SizeIn("mvdata") > 0
        /\ OffIn("mvdata") \in Nat /\ OffIn("mvdata") + SizeIn("mvdata") <= AreaSize
        /\ AreaEnd = areaOff + AreaSize /\ AreaSize \in Nat
    BY Numbers, OrderedSizes, DataSection DEF Part
  <2> DEFINE h == Header("mvdata")
  <2>2. ~Missing("mvdata")
    BY <2>1 DEF Missing
  <2>3. h.off = areaOff + OffIn("mvdata") /\ h.at = areaAt + OffIn("mvdata")
    BY DEF Header
  <2> HIDE DEF h
  <2>4. none.off > h.off
    BY <2>1, <2>3
  <2>5. a = [shdr |-> h, off |-> h.off, at |-> h.at]
    BY <2>2, <2>4 DEF Look, h
  <2> HIDE DEF a
  <2>6. a.shdr = h /\ a.off = h.off /\ a.at = h.at
    BY <2>5
  <2> QED BY <2>1, <2>3, <2>5, <2>6 DEF Candidate
<1> HIDE DEF a
<1>3. /\ Candidate(b) /\ b = [shdr |-> b.shdr, off |-> b.off, at |-> b.at] /\ b.off <= a.off
      /\ SizeIn("mvvar") > 0 => b.off <= areaOff + OffIn("mvvar")
  BY <1>2, LooksOn DEF Part
<1> HIDE DEF b
<1>4. /\ Candidate(c) /\ c = [shdr |-> c.shdr, off |-> c.off, at |-> c.at] /\ c.off <= b.off
      /\ SizeIn("mvfn") > 0 => c.off <= areaOff + OffIn("mvfn")
  BY <1>3, LooksOn DEF Part
<1> HIDE DEF c
<1>5. /\ Candidate(d) /\ d.off <= c.off
      /\ SizeIn("mvcs") > 0 => d.off <= areaOff + OffIn("mvcs")
  BY <1>4, LooksOn DEF Part
<1> HIDE DEF d
<1>6. a.off \in Nat /\ b.off \in Nat /\ c.off \in Nat /\ d.off \in Nat /\ d.off >= areaOff
      /\ areaOff \in Nat /\ areaAt \in Nat /\ d.at = areaAt + (d.off - areaOff)
  BY <1>2, <1>3, <1>4, <1>5, Numbers DEF Candidate
<1>7. PICK p \in Part : SizeIn(p) > 0 /\ OffIn(p) = 0
  BY OrderedSizes
<1>8. d.off = areaOff
  BY <1>2, <1>3, <1>4, <1>5, <1>6, <1>7 DEF Part
<1> QED BY <1>1, <1>6, <1>8

(* test_phdr tells the segments apart: no section lies in the code, and if *)
(* none is missing all lie in the data.                                    *)
LEMMA CodeFails ==
  ASSUME exe \in Exes
  PROVE  ~ TestPhdr(Phdrs[1])
<1>1. Phdrs[1].off = 0 /\ Phdrs[1].filesz = areaOff - dataSize /\ Header("bss").off = AreaEnd
  BY DEF Phdrs, Header
<1>2. AreaEnd > areaOff - dataSize /\ AreaEnd \in Nat /\ areaOff \in Nat /\ dataSize \in Nat
  BY Numbers
<1>3. ~ InSegment(Header("bss"), Phdrs[1], TRUE)
  BY <1>1, <1>2 DEF InSegment
<1> QED BY <1>3 DEF TestPhdr

LEMMA DataPasses ==
  ASSUME exe \in Exes, bssSize # 0, \A p \in Part : ~Missing(p)
  PROVE  Phdrs[2].load /\ TestPhdr(Phdrs[2])
<1>1. /\ Phdrs[2].load /\ Phdrs[2].off = areaOff - dataSize
      /\ Phdrs[2].filesz = dataSize + AreaSize
  BY DEF Phdrs
<1>2. /\ areaOff \in Nat /\ areaAt \in Nat /\ bssSize \in Nat /\ dataSize \in Nat
      /\ dataSize <= areaOff /\ AreaEnd = areaOff + AreaSize /\ AreaSize \in Nat
  BY Numbers
<1>3. InSegment(Header("bss"), Phdrs[2], TRUE)
  <2>1. Header("bss").off = AreaEnd /\ Header("bss").size = bssSize
    BY DEF Header
  <2> QED BY <1>1, <1>2, <2>1 DEF InSegment
<1>4. ASSUME NEW p \in Part PROVE InSegment(Header(p), Phdrs[2], FALSE)
  <2>1. p # "bss"
    BY DEF Part
  <2>2. Header(p).off = areaOff + OffIn(p)
    BY <2>1 DEF Header
  <2>3. OffIn(p) \in Nat /\ SizeIn(p) \in Nat /\ OffIn(p) + SizeIn(p) <= AreaSize /\ SizeIn(p) # 0
    BY OrderedSizes DEF Missing
  <2> QED BY <1>1, <1>2, <2>2, <2>3 DEF InSegment
<1> QED BY <1>1, <1>3, <1>4 DEF TestPhdr

Later == {"mvdata", "mvfn", "mvvar", "mvcs", "bss", "relocs", "aborted", "shift", "done"}
Area == [found |-> TRUE, off |-> areaOff, at |-> areaAt, offEnd |-> AreaEnd, atEnd |-> VaddrEnd]
NotHeld == bssSize = 0 \/ \E p \in Part : Missing(p)

(* The search, as long as it lasts and afterwards. *)
SearchInv ==
  /\ exe \in Exes /\ fpic \in BOOLEAN /\ removed \in BOOLEAN
  /\ pc \in {"phdrs", "refused"} \cup Later
  /\ ndx \in 1 .. 4
  /\ pc = "phdrs" => \/ area = NoArea /\ (ndx <= 2 \/ NotHeld)
                     \/ area = Area /\ ndx >= 3
  /\ pc = "refused" => NotHeld
  /\ pc \in Later => area = Area

LEMMA SearchInit == Init => SearchInv
BY DEF Init, SearchInv, Later

LEMMA DataChosen ==
  ASSUME exe \in Exes, NEW shdr
  PROVE  SetPhdr(Phdrs[2], shdr) => area' = Area
<1> SUFFICES ASSUME SetPhdr(Phdrs[2], shdr) PROVE area' = Area
  OBVIOUS
<1>1. Phdrs[2].off + Phdrs[2].filesz = AreaEnd /\ Phdrs[2].at + Phdrs[2].memsz = VaddrEnd
  <2>1. /\ Phdrs[2].off = areaOff - dataSize /\ Phdrs[2].filesz = dataSize + AreaSize
        /\ Phdrs[2].at = areaAt - dataSize /\ Phdrs[2].memsz = VaddrEnd - (areaAt - dataSize)
    BY DEF Phdrs
  <2> QED BY <2>1, Numbers
<1>2. area' = [found |-> TRUE, off |-> FindStart(AreaEnd, shdr).off,
               at |-> FindStart(AreaEnd, shdr).at, offEnd |-> AreaEnd, atEnd |-> VaddrEnd]
  BY <1>1 DEF SetPhdr
<1> QED BY <1>2, StartFound DEF Area

LEMMA SearchNext == SearchInv /\ [Next]_vars => SearchInv'
<1> SUFFICES ASSUME SearchInv, [Next]_vars PROVE SearchInv'
  OBVIOUS
<1>1. /\ exe' = exe /\ fpic' = fpic /\ removed' = removed
      /\ \A p : Missing(p)' = Missing(p)
      /\ Area' = Area
  <2>1. exe' = exe /\ fpic' = fpic /\ removed' = removed
    BY DEF Next, vars, input, TryPhdr, PhdrsDone, GenerateData, GenerateFn, GenerateVar,
           GenerateCs, GenerateBounded, GenerateBss, UpdateRelocs, UpdateRelocsThrows,
           ShiftSections, Exited
  <2>2. /\ \A p : Missing(p)' = Missing(p)
        /\ AreaEnd' = AreaEnd /\ VaddrEnd' = VaddrEnd
    BY <2>1, Stable
  <2> QED BY <2>1, <2>2 DEF Area
<1>2. NotHeld' = NotHeld
  BY <1>1 DEF NotHeld
<1>3. DOMAIN Phdrs = 1 .. 3
  BY DEF Phdrs
<1>4. CASE TryPhdr
  <2>1. pc = "phdrs" /\ pc' = pc /\ ndx \in 1 .. 3 /\ ndx' = ndx + 1
    BY <1>3, <1>4 DEF TryPhdr
  <2>2. \/ /\ Phdrs[ndx].load /\ TestPhdr(Phdrs[ndx])
           /\ \E shdr \in Uninit : SetPhdr(Phdrs[ndx], shdr)
        \/ /\ Phdrs[ndx].load /\ TestPhdr(Phdrs[ndx]) => \E p \in Part : Missing(p)
           /\ area' = area
    BY <1>4 DEF TryPhdr
  <2>3. \/ area = NoArea /\ (ndx <= 2 \/ NotHeld)
        \/ area = Area /\ ndx >= 3
    BY <2>1 DEF SearchInv
  <2>4. CASE ndx = 1
    <3>1. area' = NoArea
      BY <2>2, <2>3, <2>4, CodeFails DEF SearchInv
    <3> QED BY <1>1, <2>1, <2>4, <3>1 DEF SearchInv, Later, NoArea
  <2>5. CASE ndx = 2
    <3>1. CASE area' = Area
      BY <1>1, <2>1, <2>5, <3>1 DEF SearchInv, Later
    <3>2. CASE area' # Area
      <4>1. /\ Phdrs[2].load /\ TestPhdr(Phdrs[2]) => \E p \in Part : Missing(p)
            /\ area' = area
        BY <2>2, <2>5, <3>2, DataChosen DEF SearchInv
      <4>2. area' = NoArea
        BY <2>3, <2>5, <4>1
      <4>3. NotHeld
        BY <4>1, DataPasses DEF NotHeld, SearchInv
      <4> QED BY <1>1, <1>2, <2>1, <2>5, <4>2, <4>3 DEF SearchInv, Later, NoArea
    <3> QED BY <3>1, <3>2
  <2>6. CASE ndx = 3
    <3>1. ~ Phdrs[3].load
      BY DEF Phdrs
    <3>2. area' = area
      BY <2>2, <2>6, <3>1
    <3> QED BY <1>1, <1>2, <2>1, <2>3, <2>6, <3>2 DEF SearchInv, Later, NoArea
  <2> QED BY <2>1, <2>4, <2>5, <2>6
<1>5. CASE PhdrsDone
  <2>1. pc = "phdrs" /\ ndx \notin 1 .. 3 /\ UNCHANGED <<ndx, area>>
        /\ pc' = IF area.found THEN "mvdata" ELSE "refused"
    BY <1>3, <1>5 DEF PhdrsDone, found
  <2>2. \/ area = NoArea /\ NotHeld
        \/ area = Area
    BY <2>1 DEF SearchInv
  <2>3. ~NoArea.found /\ Area.found
    BY DEF NoArea, Area
  <2> QED BY <1>1, <1>2, <2>1, <2>2, <2>3 DEF SearchInv, Later
<1>6. CASE \/ GenerateData \/ GenerateFn \/ GenerateVar \/ GenerateCs \/ GenerateBss
           \/ UpdateRelocs \/ UpdateRelocsThrows \/ ShiftSections
  <2>1. pc \in Later /\ pc' \in Later /\ ndx' = ndx /\ area' = area
    BY <1>6 DEF GenerateData, GenerateFn, GenerateVar, GenerateCs, GenerateBounded, GenerateBss,
                UpdateRelocs, UpdateRelocsThrows, ShiftSections, found, Later
  <2>2. pc' # "phdrs" /\ pc' # "refused"
    BY <2>1 DEF Later
  <2> QED BY <1>1, <2>1, <2>2 DEF SearchInv
<1>7. CASE UNCHANGED vars
  <2>1. pc' = pc /\ ndx' = ndx /\ area' = area
    BY <1>7 DEF vars
  <2> QED BY <1>1, <1>2, <2>1 DEF SearchInv
<1>8. Next \/ UNCHANGED vars
  OBVIOUS
<1> QED BY <1>4, <1>5, <1>6, <1>7, <1>8 DEF Next, Exited

LEMMA Searched == Spec => []SearchInv
BY SearchInit, SearchNext, PTL DEF Spec

(* The area write fills is the one the multiverse sections had, whatever   *)
(* their order and whatever an uninitialized header holds, and an          *)
(* executable with a .bss and all four sections is never refused           *)
(* (InfoArea::test_phdr, find_start_of_area, Area::set_phdr).              *)
THEOREM AreaIsExact == Spec => []AreaExact
<1>1. SearchInv => AreaExact
  BY DEF SearchInv, AreaExact, Later, Area, NotHeld
<1> QED BY <1>1, Searched, PTL
-----------------------------------------------------------------------------
(* Filling the area. *)

StepsAre ==
  /\ pc \in {"phdrs", "refused"} => LayoutStep = 0
  /\ \A i \in 1 .. 4 : pc = PartSeq[i] => LayoutStep = i - 1
  /\ pc = "bss" => LayoutStep = 4
  /\ pc \in {"relocs", "aborted", "shift"} => LayoutStep = 5
  /\ pc = "done" => LayoutStep = 6

LEMMA Steps == StepsAre
<1>1. Range(PartSeq) = Part
  <2>1. DOMAIN PartSeq = 1 .. 4
    BY DEF PartSeq
  <2>2. Range(PartSeq) = {PartSeq[1], PartSeq[2], PartSeq[3], PartSeq[4]}
    BY <2>1 DEF Range
  <2> QED BY <2>2 DEF PartSeq, Part
<1>2. pc \notin Part =>
        LayoutStep = CASE pc \in {"phdrs", "refused"} -> 0
                       [] pc = "bss" -> 4
                       [] pc \in {"relocs", "aborted", "shift"} -> 5
                       [] pc = "done" -> 6
  BY <1>1 DEF LayoutStep
<1>3. pc \in Part => LayoutStep = CHOOSE i \in 0 .. 3 : PartSeq[i + 1] = pc
  BY <1>1 DEF LayoutStep
<1>4. ASSUME NEW i \in 1 .. 4, pc = PartSeq[i] PROVE LayoutStep = i - 1
  <2>1. pc \in Part
    BY <1>4 DEF PartSeq, Part
  <2>2. \A j \in 0 .. 3 : PartSeq[j + 1] = pc <=> j = i - 1
    <3>1. \A j \in 0 .. 3 : j = 0 \/ j = 1 \/ j = 2 \/ j = 3
      OBVIOUS
    <3>2. i = 1 \/ i = 2 \/ i = 3 \/ i = 4
      OBVIOUS
    <3> QED BY <1>4, <3>1, <3>2 DEF PartSeq
  <2>3. i - 1 \in 0 .. 3
    OBVIOUS
  <2> QED BY <1>3, <2>1, <2>2, <2>3
<1>5. /\ pc \in {"phdrs", "refused"} => LayoutStep = 0
      /\ pc = "bss" => LayoutStep = 4
      /\ pc \in {"relocs", "aborted", "shift"} => LayoutStep = 5
      /\ pc = "done" => LayoutStep = 6
  BY <1>2 DEF Part
<1> QED BY <1>4, <1>5 DEF StepsAre

(* Room of the first n sections, in the order they are packed. *)
RoomOf(n) ==
  (IF n >= 1 THEN SizeIn("mvdata") ELSE 0) + (IF n >= 2 THEN SizeIn("mvfn") ELSE 0)
  + (IF n >= 3 THEN SizeIn("mvvar") ELSE 0) + (IF n >= 4 THEN SizeIn("mvcs") ELSE 0)

LEMMA Rooms ==
  ASSUME exe \in Exes
  PROVE  /\ RoomOf(0) = 0
         /\ \A i \in 1 .. 4 : /\ SizeIn(PartSeq[i]) \in Nat
                              /\ RoomOf(i - 1) \in Nat
                              /\ RoomOf(i) = RoomOf(i - 1) + SizeIn(PartSeq[i])
                              /\ RoomOf(i) <= AreaSize
         /\ \A n \in 4 .. 6 : RoomOf(n) = AreaSize
<1>1. /\ SizeIn("mvdata") \in Nat /\ SizeIn("mvfn") \in Nat
      /\ SizeIn("mvvar") \in Nat /\ SizeIn("mvcs") \in Nat
      /\ AreaSize = SizeIn("mvdata") + SizeIn("mvfn") + SizeIn("mvvar") + SizeIn("mvcs")
  BY OrderedSizes DEF Part
<1>2. /\ RoomOf(0) = 0 /\ RoomOf(1) = SizeIn("mvdata")
      /\ RoomOf(2) = SizeIn("mvdata") + SizeIn("mvfn")
      /\ RoomOf(3) = SizeIn("mvdata") + SizeIn("mvfn") + SizeIn("mvvar")
      /\ RoomOf(4) = AreaSize /\ RoomOf(5) = AreaSize /\ RoomOf(6) = AreaSize
  BY <1>1 DEF RoomOf
<1>3. /\ PartSeq[1] = "mvdata" /\ PartSeq[2] = "mvfn"
      /\ PartSeq[3] = "mvvar" /\ PartSeq[4] = "mvcs"
  BY DEF PartSeq
<1>4. \A n \in 4 .. 6 : n = 4 \/ n = 5 \/ n = 6
  OBVIOUS
<1>5. ASSUME NEW i \in 1 .. 4
      PROVE  /\ SizeIn(PartSeq[i]) \in Nat /\ RoomOf(i - 1) \in Nat
             /\ RoomOf(i) = RoomOf(i - 1) + SizeIn(PartSeq[i]) /\ RoomOf(i) <= AreaSize
  <2>1. i = 1 \/ i = 2 \/ i = 3 \/ i = 4
    OBVIOUS
  <2>2. 1 - 1 = 0 /\ 2 - 1 = 1 /\ 3 - 1 = 2 /\ 4 - 1 = 3
    OBVIOUS
  <2> QED BY <1>1, <1>2, <1>3, <2>1, <2>2
<1> QED BY <1>2, <1>4, <1>5

None == [off |-> 0, at |-> 0, size |-> 0]

(* What is in a section does not matter here, where it is does. *)
OutInv ==
  /\ out = [p \in Part \cup {"bss"} |-> out[p]]
  /\ \A p \in Part \cup {"bss"} :
       /\ out[p] = [off |-> out[p].off, at |-> out[p].at, size |-> out[p].size,
                    fields |-> out[p].fields]
       /\ out[p].off \in Nat /\ out[p].at \in Nat /\ out[p].size \in Nat
  /\ \A p \in Part : IF Absent(p) THEN Where(p) = None ELSE out[p].off < AreaEnd

PosInv == pos \in Nat /\ pos <= RoomOf(LayoutStep)

EndInv ==
  IF LayoutStep <= 4
    THEN /\ Where("bss") = [off |-> AreaEnd, at |-> BssAt, size |-> bssSize]
         /\ filesz = AreaSize
    ELSE /\ Where("bss") = [off |-> areaOff + pos, at |-> areaAt + pos,
                            size |-> VaddrEnd - (areaAt + pos)]
         /\ filesz = pos

TailInv ==
  /\ DOMAIN tailOff = 1 .. Len(tail) + 1
  /\ \A i \in 1 .. Len(tail) + 1 :
       /\ tailOff[i] \in Int
       /\ tailOff[i] >= IF LayoutStep <= 5 THEN AreaEnd ELSE areaOff + pos - bssPad

FlagsInv == frozen \subseteq Range(Vars) /\ fixed \subseteq Range(Fns)

FillInv == SearchInv /\ FlagsInv /\ OutInv /\ PosInv /\ EndInv /\ TailInv

LEMMA TailStarts ==
  /\ Len(tail) \in Nat /\ DOMAIN tail = 1 .. Len(tail) /\ \A i \in DOMAIN tail : tail[i] \in Nat
  /\ Starts(tail)[1] = 0
  /\ \A i \in 1 .. Len(tail) + 1 : Starts(tail)[i] \in Nat
  /\ \A i \in 1 .. Len(tail) : Starts(tail)[i + 1] = Starts(tail)[i] + tail[i]
<1>1. tail \in Seq(Nat)
  BY LayoutAssumption
<1> QED BY <1>1, StartsAre, LenProperties, ElementOfSeq

LEMMA FillInit == Init => FillInv
<1> SUFFICES ASSUME Init PROVE FillInv
  OBVIOUS
<1>1. SearchInv /\ exe \in Exes
  BY SearchInit DEF SearchInv
<1>2. FlagsInv
  <2>1. fixed \in SUBSET {f \in Range(Fns) : dependsOn[f] # {} /\ dependsOn[f] \subseteq frozen}
        /\ frozen \in SUBSET Range(Vars)
    BY DEF Init
  <2> QED BY <2>1 DEF FlagsInv
<1>3. LayoutStep = 0
  BY Steps DEF StepsAre, Init
<1>4. /\ areaOff \in Nat /\ areaAt \in Nat /\ bssPad \in Nat /\ bssSize \in Nat
      /\ AreaEnd = areaOff + AreaSize /\ AreaSize \in Nat /\ AreaEnd \in Nat /\ BssAt \in Nat
  BY <1>1, Numbers
<1>5. ASSUME NEW p \in Part \cup {"bss"}
      PROVE  \E fs : out[p] = IF Absent(p) THEN [off |-> 0, at |-> 0, size |-> 0, fields |-> fs]
                      ELSE [off |-> Header(p).off, at |-> Header(p).at,
                            size |-> Header(p).size, fields |-> fs]
  <2>1. out[p] = IF Absent(p) THEN Empty
                 ELSE [off |-> Header(p).off, at |-> Header(p).at, size |-> Header(p).size,
                       fields |-> IF p = "bss" THEN {} ELSE Range(FieldsIn(p))]
    BY DEF Init
  <2>2. CASE Absent(p)
    BY <2>1, <2>2 DEF Empty
  <2>3. CASE ~Absent(p)
    BY <2>1, <2>3
  <2> QED BY <2>2, <2>3
<1>6. ASSUME NEW p \in Part, ~Absent(p)
      PROVE  /\ Header(p).off \in Nat /\ Header(p).at \in Nat /\ Header(p).size \in Nat
             /\ Header(p).off < AreaEnd
  <2>1. p # "bss"
    BY DEF Part
  <2>2. /\ Header(p).off = areaOff + OffIn(p) /\ Header(p).at = areaAt + OffIn(p)
        /\ Header(p).size = SizeIn(p)
    BY <2>1 DEF Header
  <2>3. SizeIn(p) # 0
    BY <1>6, <2>1 DEF Absent, Missing
  <2>4. SizeIn(p) \in Nat /\ OffIn(p) \in Nat /\ OffIn(p) + SizeIn(p) <= AreaSize
    BY <1>1, OrderedSizes
  <2> QED BY <1>4, <2>2, <2>3, <2>4
<1>7. Header("bss") = [off |-> AreaEnd, at |-> BssAt, size |-> bssSize] /\ ~Absent("bss")
  BY DEF Header, Absent
<1>8. OutInv
  <2>1. out = [p \in Part \cup {"bss"} |-> out[p]]
    BY DEF Init
  <2>2. ASSUME NEW p \in Part \cup {"bss"}
        PROVE /\ out[p] = [off |-> out[p].off, at |-> out[p].at, size |-> out[p].size,
                           fields |-> out[p].fields]
              /\ out[p].off \in Nat /\ out[p].at \in Nat /\ out[p].size \in Nat
    <3>1. CASE Absent(p)
      <4>1. PICK fs : out[p] = [off |-> 0, at |-> 0, size |-> 0, fields |-> fs]
        BY <1>5, <3>1
      <4> QED BY <4>1
    <3>2. CASE ~Absent(p)
      <4>1. Header(p).off \in Nat /\ Header(p).at \in Nat /\ Header(p).size \in Nat
        BY <1>4, <1>6, <1>7, <3>2
      <4>2. PICK fs : out[p] = [off |-> Header(p).off, at |-> Header(p).at,
                                size |-> Header(p).size, fields |-> fs]
        BY <1>5, <3>2
      <4> QED BY <4>1, <4>2
    <3> QED BY <3>1, <3>2
  <2>3. ASSUME NEW p \in Part PROVE IF Absent(p) THEN Where(p) = None ELSE out[p].off < AreaEnd
    <3>1. CASE Absent(p)
      <4>1. PICK fs : out[p] = [off |-> 0, at |-> 0, size |-> 0, fields |-> fs]
        BY <1>5, <3>1
      <4> QED BY <3>1, <4>1 DEF Where, None
    <3>2. CASE ~Absent(p)
      <4>1. PICK fs : out[p] = [off |-> Header(p).off, at |-> Header(p).at,
                                size |-> Header(p).size, fields |-> fs]
        BY <1>5, <3>2
      <4> QED BY <1>6, <3>2, <4>1
    <3> QED BY <3>1, <3>2
  <2> QED BY <2>1, <2>2, <2>3 DEF OutInv
<1>9. PosInv
  <2>1. pos = 0
    BY DEF Init
  <2> QED BY <1>1, <1>3, <2>1, Rooms DEF PosInv
<1>10. EndInv
  <2>1. Where("bss") = [off |-> AreaEnd, at |-> BssAt, size |-> bssSize]
    <3>1. PICK fs : out["bss"] = [off |-> Header("bss").off, at |-> Header("bss").at,
                                  size |-> Header("bss").size, fields |-> fs]
      BY <1>5, <1>7
    <3> QED BY <1>7, <3>1 DEF Where
  <2>2. filesz = AreaSize
    BY DEF Init
  <2> QED BY <1>3, <2>1, <2>2 DEF EndInv
<1>11. TailInv
  <2>1. tailOff = [i \in 1 .. Len(tail) + 1 |-> AreaEnd + Starts(tail)[i]]
    BY DEF Init
  <2> QED BY <1>3, <1>4, <2>1, TailStarts DEF TailInv
<1> QED BY <1>1, <1>2, <1>8, <1>9, <1>10, <1>11 DEF FillInv

(* What the four sections have in common: one of them is packed behind the *)
(* previous one, into no more than it had, or does not exist.              *)
Placing(i) ==
  /\ pc = PartSeq[i] /\ pc' = IF i = 4 THEN "bss" ELSE PartSeq[i + 1]
  /\ area' = area /\ filesz' = filesz /\ tailOff' = tailOff
  /\ \E size, fields : /\ Generate(PartSeq[i], size, fields)
                       /\ ~Absent(PartSeq[i]) => size \in 0 .. SizeIn(PartSeq[i])

LEMMA FourPlacings ==
  ASSUME exe \in Exes
  PROVE  /\ GenerateData => Placing(1)
         /\ GenerateFn => Placing(2)
         /\ GenerateVar => Placing(3)
         /\ GenerateCs => Placing(4)
<1>1. /\ PartSeq[1] = "mvdata" /\ PartSeq[2] = "mvfn"
      /\ PartSeq[3] = "mvvar" /\ PartSeq[4] = "mvcs"
  BY DEF PartSeq
<1>2. ASSUME GenerateData PROVE Placing(1)
  <2>1. Total(Sizes(Fns, KeepFn, DataSize)) \in 0 .. SizeIn("mvdata")
    BY DataSection
  <2>2. PICK fields : Generate("mvdata", Total(Sizes(Fns, KeepFn, DataSize)), fields)
    BY <1>2 DEF GenerateData
  <2>3. pc = "mvdata" /\ pc' = "mvfn" /\ area' = area /\ filesz' = filesz /\ tailOff' = tailOff
    BY <1>2 DEF GenerateData, found
  <2> QED BY <1>1, <2>1, <2>2, <2>3 DEF Placing
<1>3. ASSUME GenerateFn PROVE Placing(2)
  <2> DEFINE n == Total(Sizes(Fns, KeepFn, FnBlock))
  <2>1. n \in 0 .. SizeIn("mvfn")
    BY BoundedSections
  <2>2. PICK fields : Generate("mvfn", IF Absent("mvfn") THEN 0 ELSE n, fields)
    BY <1>3 DEF GenerateFn, GenerateBounded
  <2>3. pc = "mvfn" /\ pc' = "mvvar" /\ area' = area /\ filesz' = filesz /\ tailOff' = tailOff
    BY <1>3 DEF GenerateFn, GenerateBounded, found
  <2> HIDE DEF n
  <2> QED BY <1>1, <2>1, <2>2, <2>3 DEF Placing
<1>4. ASSUME GenerateVar PROVE Placing(3)
  <2> DEFINE n == Total(Sizes(Vars, KeepVar, VarBlock))
  <2>1. n \in 0 .. SizeIn("mvvar")
    BY BoundedSections
  <2>2. PICK fields : Generate("mvvar", IF Absent("mvvar") THEN 0 ELSE n, fields)
    BY <1>4 DEF GenerateVar, GenerateBounded
  <2>3. pc = "mvvar" /\ pc' = "mvcs" /\ area' = area /\ filesz' = filesz /\ tailOff' = tailOff
    BY <1>4 DEF GenerateVar, GenerateBounded, found
  <2> HIDE DEF n
  <2> QED BY <1>1, <2>1, <2>2, <2>3 DEF Placing
<1>5. ASSUME GenerateCs PROVE Placing(4)
  <2> DEFINE n == Total(Sizes(Sites, KeepSite, SiteBlock))
  <2>1. n \in 0 .. SizeIn("mvcs")
    BY BoundedSections
  <2>2. PICK fields : Generate("mvcs", IF Absent("mvcs") THEN 0 ELSE n, fields)
    BY <1>5 DEF GenerateCs, GenerateBounded
  <2>3. pc = "mvcs" /\ pc' = "bss" /\ area' = area /\ filesz' = filesz /\ tailOff' = tailOff
    BY <1>5 DEF GenerateCs, GenerateBounded, found
  <2> HIDE DEF n
  <2> QED BY <1>1, <2>1, <2>2, <2>3 DEF Placing
<1> QED BY <1>2, <1>3, <1>4, <1>5

LEMMA InputStays ==
  ASSUME [Next]_vars
  PROVE  /\ exe' = exe /\ fpic' = fpic /\ removed' = removed /\ frozen' = frozen /\ fixed' = fixed
         /\ relaOther' = relaOther
BY DEF Next, vars, input, TryPhdr, PhdrsDone, GenerateData, GenerateFn, GenerateVar,
       GenerateCs, GenerateBounded, GenerateBss, UpdateRelocs, UpdateRelocsThrows,
       ShiftSections, Exited

(* Where one section is put. *)
LEMMA Placed ==
  ASSUME SearchInv, OutInv, PosInv, NEW i \in 1 .. 4, Placing(i)
  PROVE  LET p == PartSeq[i]
         IN /\ p \in Part /\ p # "bss"
            /\ LayoutStep = i - 1 /\ LayoutStep' = i
            /\ IF Absent(p) THEN out' = out /\ pos' = pos
               ELSE \E n \in 0 .. SizeIn(p) : \E fields :
                      /\ pos' = pos + n /\ areaOff + pos < AreaEnd
                      /\ out' = [out EXCEPT ![p] = [off |-> areaOff + pos, at |-> areaAt + pos,
                                                    size |-> n, fields |-> fields]]
            /\ pos \in Nat /\ pos <= RoomOf(i - 1)
            /\ pos' \in Nat /\ pos' <= RoomOf(i)
<1> DEFINE p == PartSeq[i]
<1>1. i = 1 \/ i = 2 \/ i = 3 \/ i = 4
  OBVIOUS
<1>2. p \in Part /\ p # "bss"
  BY <1>1 DEF PartSeq, Part
<1>3. LayoutStep = i - 1
  BY Steps DEF StepsAre, Placing
<1>4. LayoutStep' = i
  <2>1. /\ pc' = "bss" => LayoutStep' = 4
        /\ \A k \in 1 .. 4 : pc' = PartSeq[k] => LayoutStep' = k - 1
    <3>1. StepsAre'
      BY Steps, PTL
    <3> QED BY <3>1 DEF StepsAre, PartSeq
  <2>2. pc' = IF i = 4 THEN "bss" ELSE PartSeq[i + 1]
    BY DEF Placing
  <2> QED BY <1>1, <2>1, <2>2
<1>5. /\ areaOff \in Nat /\ areaAt \in Nat /\ AreaEnd = areaOff + AreaSize /\ AreaSize \in Nat
      /\ SizeIn(p) \in Nat /\ RoomOf(i - 1) \in Nat /\ RoomOf(i) = RoomOf(i - 1) + SizeIn(p)
      /\ RoomOf(i) <= AreaSize
  BY Numbers, Rooms DEF SearchInv
<1>6. pos \in Nat /\ pos <= RoomOf(i - 1)
  BY <1>3 DEF PosInv
<1>7. area.off = areaOff /\ area.at = areaAt
  <2>1. pc \in Later
    BY <1>1 DEF Placing, PartSeq, Later
  <2> QED BY <2>1 DEF SearchInv, Area
<1>8. PICK size, fields : /\ Generate(p, size, fields)
                          /\ ~Absent(p) => size \in 0 .. SizeIn(p)
  BY DEF Placing
<1> HIDE DEF p
<1>9. CASE Absent(p)
  <2>1. out' = out /\ pos' = pos
    BY <1>8, <1>9 DEF Generate
  <2>2. pos' <= RoomOf(i)
    BY <1>5, <1>6, <2>1
  <2> QED BY <1>2, <1>3, <1>4, <1>6, <1>9, <2>1, <2>2 DEF p
<1>10. CASE ~Absent(p)
  <2>1. /\ size \in 0 .. SizeIn(p) /\ pos' = pos + size
        /\ out' = [out EXCEPT ![p] = [off |-> areaOff + pos, at |-> areaAt + pos,
                                      size |-> size, fields |-> Range(fields)]]
    BY <1>7, <1>8, <1>10 DEF Generate
  <2>2. SizeIn(p) # 0
    BY <1>2, <1>10 DEF Absent, Missing
  <2>3. pos' \in Nat /\ pos' <= RoomOf(i) /\ areaOff + pos < AreaEnd
    BY <1>5, <1>6, <2>1, <2>2
  <2> QED BY <1>2, <1>3, <1>4, <1>6, <1>10, <2>1, <2>3 DEF p
<1> QED BY <1>9, <1>10

LEMMA BssMoved ==
  ASSUME FillInv, GenerateBss
  PROVE  /\ LayoutStep = 4 /\ LayoutStep' = 5
         /\ out' = [out EXCEPT !["bss"] =
                      [off |-> areaOff + pos, at |-> areaAt + pos,
                       size |-> VaddrEnd - (areaAt + pos), fields |-> {}]]
         /\ filesz' = pos /\ pos' = pos /\ tailOff' = tailOff
         /\ VaddrEnd - (areaAt + pos) \in Nat /\ pos <= AreaSize
<1>1. /\ LayoutStep = 4 /\ LayoutStep' = 5
  <2>1. StepsAre /\ StepsAre'
    BY Steps, PTL
  <2>2. pc = "bss" /\ pc' = "relocs"
    BY DEF GenerateBss
  <2> QED BY <2>1, <2>2 DEF StepsAre
<1>2. area.off = areaOff /\ area.at = areaAt /\ area.atEnd = VaddrEnd
  <2>1. pc \in Later
    BY DEF GenerateBss, Later
  <2> QED BY <2>1 DEF FillInv, SearchInv, Area
<1>3. /\ areaOff \in Nat /\ areaAt \in Nat /\ AreaEnd = areaOff + AreaSize /\ AreaSize \in Nat
      /\ bssPad \in Nat /\ bssSize \in Nat
      /\ VaddrEnd = BssAt + bssSize /\ BssAt = areaAt + AreaSize + bssPad
  BY Numbers DEF FillInv, SearchInv
<1>4. pos \in Nat /\ pos <= AreaSize
  <2>1. exe \in Exes
    BY DEF FillInv, SearchInv
  <2>2. RoomOf(4) = AreaSize
    <3>1. 4 \in 4 .. 6
      OBVIOUS
    <3> QED BY <2>1, <3>1, Rooms
  <2> QED BY <1>1, <2>2 DEF FillInv, PosInv
<1>5. filesz = AreaSize /\ Header("bss").off = AreaEnd
  BY <1>1 DEF FillInv, EndInv, Header
<1>6. /\ filesz' = filesz - (Header("bss").off - (area.off + pos))
      /\ out' = [out EXCEPT !["bss"] =
                      [off |-> area.off + pos, at |-> area.at + pos,
                       size |-> area.atEnd - (area.at + pos), fields |-> {}]]
      /\ pos' = pos /\ tailOff' = tailOff
  BY DEF GenerateBss
<1>7. filesz' = pos
  BY <1>2, <1>3, <1>4, <1>5, <1>6
<1>8. VaddrEnd - (areaAt + pos) \in Nat
  BY <1>3, <1>4
<1> QED BY <1>1, <1>2, <1>4, <1>6, <1>7, <1>8

LEMMA TailMoved ==
  ASSUME FillInv, ShiftSections
  PROVE  /\ LayoutStep = 5 /\ LayoutStep' = 6
         /\ out' = out /\ pos' = pos /\ filesz' = filesz
         /\ tailOff' = [i \in DOMAIN tailOff |-> tailOff[i] - (Where("bss").size - bssSize)]
         /\ Where("bss").size - bssSize = AreaSize + bssPad - pos
<1>1. /\ LayoutStep = 5 /\ LayoutStep' = 6
  <2>1. StepsAre /\ StepsAre'
    BY Steps, PTL
  <2>2. pc = "shift" /\ pc' = "done"
    BY DEF ShiftSections
  <2> QED BY <2>1, <2>2 DEF StepsAre
<1>2. area.offEnd = AreaEnd
  <2>1. pc \in Later
    BY DEF ShiftSections, Later
  <2> QED BY <2>1 DEF FillInv, SearchInv, Area
<1>3. /\ areaOff \in Nat /\ areaAt \in Nat /\ AreaEnd = areaOff + AreaSize /\ AreaSize \in Nat
      /\ bssPad \in Nat /\ bssSize \in Nat
      /\ VaddrEnd = BssAt + bssSize /\ BssAt = areaAt + AreaSize + bssPad
  BY Numbers DEF FillInv, SearchInv
<1>4. pos \in Nat
  BY DEF FillInv, PosInv
<1>5. Where("bss").size = VaddrEnd - (areaAt + pos)
  BY <1>1 DEF FillInv, EndInv
<1>6. Where("bss").size - bssSize = AreaSize + bssPad - pos
  BY <1>3, <1>4, <1>5
<1>7. BssGrowth = Where("bss").size - bssSize
  BY DEF BssGrowth, Where
<1>8. out' = out
  <2>1. DOMAIN out = Part \cup {"bss"} /\ out = [p \in Part \cup {"bss"} |-> out[p]]
    BY DEF FillInv, OutInv
  <2>2. \A p \in DOMAIN out : out[p] = [off |-> out[p].off, at |-> out[p].at,
                                        size |-> out[p].size, fields |-> out[p].fields]
    BY <2>1 DEF FillInv, OutInv
  <2>3. ASSUME NEW p \in DOMAIN out, p # "bss", ~Absent(p) PROVE Shifted(out[p].off) = out[p].off
    <3>1. out[p].off < AreaEnd
      BY <2>1, <2>3 DEF FillInv, OutInv
    <3> QED BY <1>2, <3>1 DEF Shifted
  <2>4. out' = [p \in DOMAIN out |-> IF p = "bss" \/ Absent(p) THEN out[p]
                                     ELSE [out[p] EXCEPT !.off = Shifted(out[p].off)]]
    BY DEF ShiftSections
  <2>5. ASSUME NEW p \in DOMAIN out
        PROVE  (IF p = "bss" \/ Absent(p) THEN out[p]
                ELSE [out[p] EXCEPT !.off = Shifted(out[p].off)]) = out[p]
    <3>1. CASE p = "bss" \/ Absent(p)
      BY <3>1
    <3>2. CASE ~ (p = "bss" \/ Absent(p))
      BY <2>2, <2>3, <3>2
    <3> QED BY <3>1, <3>2
  <2>6. out = [p \in DOMAIN out |-> out[p]]
    BY <2>1
  <2> QED BY <2>4, <2>5, <2>6
<1>9. tailOff' = [i \in DOMAIN tailOff |-> tailOff[i] - (Where("bss").size - bssSize)]
  <2>1. tailOff' = [i \in DOMAIN tailOff |-> Shifted(tailOff[i])]
    BY DEF ShiftSections
  <2>2. ASSUME NEW i \in DOMAIN tailOff
        PROVE  Shifted(tailOff[i]) = tailOff[i] - (Where("bss").size - bssSize)
    <3>1. tailOff[i] \in Int /\ tailOff[i] >= AreaEnd
      BY <1>1 DEF FillInv, TailInv
    <3>2. ~ (tailOff[i] < area.offEnd)
      BY <1>2, <1>3, <3>1
    <3> QED BY <1>7, <3>2 DEF Shifted
  <2> QED BY <2>1, <2>2
<1>10. pos' = pos /\ filesz' = filesz
  BY DEF ShiftSections
<1> QED BY <1>1, <1>6, <1>8, <1>9, <1>10

(* Steps that do not show in the layout. *)
Quiet ==
  /\ LayoutStep' = LayoutStep
  /\ out' = out /\ pos' = pos /\ filesz' = filesz /\ tailOff' = tailOff

LEMMA QuietSteps ==
  ASSUME \/ TryPhdr \/ PhdrsDone \/ UpdateRelocs \/ UpdateRelocsThrows \/ UNCHANGED vars
  PROVE  Quiet
<1>1. StepsAre /\ StepsAre'
  BY Steps, PTL
<1>2. CASE TryPhdr \/ UNCHANGED vars
  <2>1. pc' = pc /\ out' = out /\ pos' = pos /\ filesz' = filesz /\ tailOff' = tailOff
    BY <1>2 DEF TryPhdr, vars, Rest
  <2>2. LayoutStep' = LayoutStep
    BY <2>1 DEF LayoutStep
  <2> QED BY <2>1, <2>2 DEF Quiet
<1>3. CASE PhdrsDone
  <2>1. /\ pc = "phdrs" /\ (pc' = "mvdata" \/ pc' = "refused")
        /\ out' = out /\ pos' = pos /\ filesz' = filesz /\ tailOff' = tailOff
    BY <1>3 DEF PhdrsDone, Rest
  <2>2. PartSeq[1] = "mvdata" /\ 1 \in 1 .. 4
    BY DEF PartSeq
  <2>3. LayoutStep' = 0 /\ LayoutStep = 0
    BY <1>1, <2>1, <2>2 DEF StepsAre
  <2> QED BY <2>1, <2>3 DEF Quiet
<1>4. CASE UpdateRelocs \/ UpdateRelocsThrows
  <2>1. /\ pc = "relocs" /\ pc' \in {"shift", "aborted"}
        /\ out' = out /\ pos' = pos /\ filesz' = filesz /\ tailOff' = tailOff
    BY <1>4 DEF UpdateRelocs, UpdateRelocsThrows
  <2>2. LayoutStep' = 5 /\ LayoutStep = 5
    BY <1>1, <2>1 DEF StepsAre
  <2> QED BY <2>1, <2>2 DEF Quiet
<1> QED BY <1>2, <1>3, <1>4

LEMMA FillNext == FillInv /\ [Next]_vars => FillInv'
<1> SUFFICES ASSUME FillInv, [Next]_vars PROVE FillInv'
  OBVIOUS
<1>1. SearchInv'
  BY SearchNext DEF FillInv
<1>2. FlagsInv'
  BY InputStays DEF FillInv, FlagsInv, Vars, Fns
<1>3. /\ \A p : Absent(p)' = Absent(p) /\ \A n : RoomOf(n)' = RoomOf(n)
      /\ AreaSize' = AreaSize /\ AreaEnd' = AreaEnd /\ BssAt' = BssAt /\ VaddrEnd' = VaddrEnd
  <2>1. /\ \A p : SizeIn(p)' = SizeIn(p) /\ Absent(p)' = Absent(p)
        /\ AreaSize' = AreaSize /\ AreaEnd' = AreaEnd /\ BssAt' = BssAt /\ VaddrEnd' = VaddrEnd
    BY InputStays, Stable
  <2>2. \A n : RoomOf(n)' = RoomOf(n)
    BY <2>1 DEF RoomOf
  <2> QED BY <2>1, <2>2
<1>4. /\ areaOff \in Nat /\ areaAt \in Nat /\ bssPad \in Nat /\ bssSize \in Nat
      /\ AreaEnd = areaOff + AreaSize /\ AreaSize \in Nat /\ AreaEnd \in Nat
  BY Numbers DEF FillInv, SearchInv
<1>5. /\ RoomOf(0) = 0 /\ \A n \in 4 .. 6 : RoomOf(n) = AreaSize
  BY Rooms DEF FillInv, SearchInv
<1>6. ASSUME Quiet PROVE FillInv'
  <2>1. OutInv'
    BY <1>3, <1>6 DEF FillInv, OutInv, Quiet, Where
  <2>2. PosInv'
    BY <1>3, <1>6 DEF FillInv, PosInv, Quiet
  <2>3. EndInv'
    BY <1>3, <1>6 DEF FillInv, EndInv, Quiet, Where
  <2>4. TailInv'
    BY <1>3, <1>6 DEF FillInv, TailInv, Quiet
  <2> QED BY <1>1, <1>2, <2>1, <2>2, <2>3, <2>4 DEF FillInv
<1>7. ASSUME NEW i \in 1 .. 4, Placing(i) PROVE FillInv'
  <2> DEFINE p == PartSeq[i]
  <2>1. /\ p \in Part /\ p # "bss"
        /\ LayoutStep = i - 1 /\ LayoutStep' = i
        /\ IF Absent(p) THEN out' = out /\ pos' = pos
           ELSE \E n \in 0 .. SizeIn(p) : \E fields :
                  /\ pos' = pos + n /\ areaOff + pos < AreaEnd
                  /\ out' = [out EXCEPT ![p] = [off |-> areaOff + pos, at |-> areaAt + pos,
                                                size |-> n, fields |-> fields]]
        /\ pos \in Nat /\ pos' \in Nat /\ pos' <= RoomOf(i)
    BY <1>7, Placed DEF FillInv
  <2> HIDE DEF p
  <2>2. OutInv'
    <3>1. CASE Absent(p)
      BY <1>3, <2>1, <3>1 DEF FillInv, OutInv, Where
    <3>2. CASE ~Absent(p)
      <4>0. PICK n \in 0 .. SizeIn(p) : \E fields :
              /\ areaOff + pos < AreaEnd
              /\ out' = [out EXCEPT ![p] = [off |-> areaOff + pos, at |-> areaAt + pos,
                                            size |-> n, fields |-> fields]]
        BY <2>1, <3>2
      <4>1. PICK fields :
              /\ areaOff + pos < AreaEnd
              /\ out' = [out EXCEPT ![p] = [off |-> areaOff + pos, at |-> areaAt + pos,
                                            size |-> n, fields |-> fields]]
        BY <4>0
      <4>2. out = [q \in Part \cup {"bss"} |-> out[q]]
        BY DEF FillInv, OutInv
      <4>3. /\ out' = [q \in Part \cup {"bss"} |-> out'[q]]
            /\ out'[p] = [off |-> areaOff + pos, at |-> areaAt + pos,
                          size |-> n, fields |-> fields]
            /\ \A q \in Part \cup {"bss"} : q # p => out'[q] = out[q]
        BY <2>1, <4>1, <4>2
      <4>4. SizeIn(p) \in Nat
        BY <2>1, OrderedSizes DEF FillInv, SearchInv
      <4>5. ASSUME NEW q \in Part \cup {"bss"}
            PROVE  /\ out'[q] = [off |-> out'[q].off, at |-> out'[q].at, size |-> out'[q].size,
                                 fields |-> out'[q].fields]
                   /\ out'[q].off \in Nat /\ out'[q].at \in Nat /\ out'[q].size \in Nat
        <5>1. CASE q = p
          BY <1>4, <2>1, <4>3, <4>4, <5>1
        <5>2. CASE q # p
          BY <4>3, <5>2 DEF FillInv, OutInv
        <5> QED BY <5>1, <5>2
      <4>6. ASSUME NEW q \in Part
            PROVE  IF Absent(q)' THEN Where(q)' = None ELSE out'[q].off < AreaEnd'
        <5>1. CASE q = p
          <6>1. out'[q].off = areaOff + pos
            BY <4>3, <5>1
          <6> QED BY <1>3, <3>2, <4>1, <5>1, <6>1
        <5>2. CASE q # p
          BY <1>3, <4>3, <5>2 DEF FillInv, OutInv, Where
        <5> QED BY <5>1, <5>2
      <4> QED BY <4>3, <4>5, <4>6 DEF OutInv
    <3> QED BY <3>1, <3>2
  <2>3. PosInv'
    BY <1>3, <2>1 DEF PosInv
  <2>4. out'["bss"] = out["bss"] /\ filesz' = filesz /\ tailOff' = tailOff
    <3>1. out = [q \in Part \cup {"bss"} |-> out[q]]
      BY DEF FillInv, OutInv
    <3>2. filesz' = filesz /\ tailOff' = tailOff
      BY <1>7 DEF Placing
    <3> QED BY <2>1, <3>1, <3>2
  <2>5. LayoutStep <= 4 /\ LayoutStep' <= 4 /\ LayoutStep <= 5 /\ LayoutStep' <= 5
    BY <2>1
  <2>6. EndInv'
    BY <1>3, <2>4, <2>5 DEF FillInv, EndInv, Where
  <2>7. TailInv'
    BY <1>3, <2>4, <2>5 DEF FillInv, TailInv
  <2> QED BY <1>1, <1>2, <2>2, <2>3, <2>6, <2>7 DEF FillInv
<1>8. CASE GenerateBss
  <2> DEFINE w == VaddrEnd - (areaAt + pos)
             new == [off |-> areaOff + pos, at |-> areaAt + pos, size |-> w, fields |-> {}]
  <2>1. /\ LayoutStep = 4 /\ LayoutStep' = 5
        /\ out' = [out EXCEPT !["bss"] = new]
        /\ filesz' = pos /\ pos' = pos /\ tailOff' = tailOff
        /\ w \in Nat /\ pos <= AreaSize
    BY <1>8, BssMoved
  <2> HIDE DEF w
  <2>2. pos \in Nat
    BY DEF FillInv, PosInv
  <2>3. /\ out' = [q \in Part \cup {"bss"} |-> out'[q]]
        /\ out'["bss"] = new
        /\ \A q \in Part : q # "bss" /\ out'[q] = out[q]
    <3>1. out = [q \in Part \cup {"bss"} |-> out[q]]
      BY DEF FillInv, OutInv
    <3> HIDE DEF new
    <3> QED BY <2>1, <3>1 DEF Part
  <2>4. OutInv'
    <3>1. ASSUME NEW q \in Part \cup {"bss"}
          PROVE  /\ out'[q] = [off |-> out'[q].off, at |-> out'[q].at, size |-> out'[q].size,
                               fields |-> out'[q].fields]
                 /\ out'[q].off \in Nat /\ out'[q].at \in Nat /\ out'[q].size \in Nat
      <4>1. CASE q = "bss"
        <5>1. out'[q] = new
          BY <2>3, <4>1
        <5>2. areaOff + pos \in Nat /\ areaAt + pos \in Nat
          BY <1>4, <2>2
        <5>3. /\ out'[q].off = areaOff + pos /\ out'[q].at = areaAt + pos /\ out'[q].size = w
              /\ out'[q] = [off |-> out'[q].off, at |-> out'[q].at, size |-> out'[q].size,
                            fields |-> out'[q].fields]
          BY <5>1
        <5> HIDE DEF new
        <5> QED BY <2>1, <5>2, <5>3
      <4>2. CASE q # "bss"
        BY <2>3, <4>2 DEF FillInv, OutInv
      <4> QED BY <4>1, <4>2
    <3>2. ASSUME NEW q \in Part
          PROVE  IF Absent(q)' THEN Where(q)' = None ELSE out'[q].off < AreaEnd'
      BY <1>3, <2>3 DEF FillInv, OutInv, Where
    <3> QED BY <2>3, <3>1, <3>2 DEF OutInv
  <2>5. PosInv'
    <3>1. RoomOf(5) = AreaSize
      <4>1. 5 \in 4 .. 6
        OBVIOUS
      <4> QED BY <1>5, <4>1
    <3> QED BY <1>3, <2>1, <2>2, <3>1 DEF PosInv
  <2>6. EndInv'
    BY <1>3, <2>1, <2>3 DEF EndInv, Where, w
  <2>7. TailInv'
    BY <1>3, <2>1 DEF FillInv, TailInv
  <2> QED BY <1>1, <1>2, <2>4, <2>5, <2>6, <2>7 DEF FillInv
<1>9. CASE ShiftSections
  <2> DEFINE d == Where("bss").size - bssSize
  <2>1. /\ LayoutStep = 5 /\ LayoutStep' = 6
        /\ out' = out /\ pos' = pos /\ filesz' = filesz
        /\ tailOff' = [i \in DOMAIN tailOff |-> tailOff[i] - d]
        /\ d = AreaSize + bssPad - pos
    BY <1>9, TailMoved
  <2> HIDE DEF d
  <2>2. OutInv'
    BY <1>3, <2>1 DEF FillInv, OutInv, Where
  <2>3. pos \in Nat /\ pos <= AreaSize
    <3>1. 5 \in 4 .. 6
      OBVIOUS
    <3> QED BY <1>5, <2>1, <3>1 DEF FillInv, PosInv
  <2>4. PosInv'
    <3>1. 6 \in 4 .. 6
      OBVIOUS
    <3> QED BY <1>3, <1>5, <2>1, <2>3, <3>1 DEF PosInv
  <2>5. EndInv'
    BY <1>3, <2>1 DEF FillInv, EndInv, Where
  <2>6. TailInv'
    <3>1. ASSUME NEW i \in 1 .. Len(tail) + 1
          PROVE  tailOff[i] - d \in Int /\ tailOff[i] - d >= areaOff + pos - bssPad
      <4>1. tailOff[i] \in Int /\ tailOff[i] >= AreaEnd
        BY <2>1 DEF FillInv, TailInv
      <4> QED BY <1>4, <2>1, <2>3, <4>1
    <3>2. DOMAIN tailOff = 1 .. Len(tail) + 1
      BY DEF FillInv, TailInv
    <3> QED BY <2>1, <3>1, <3>2 DEF TailInv
  <2> QED BY <1>1, <1>2, <2>2, <2>4, <2>5, <2>6 DEF FillInv
<1>10. ASSUME GenerateData \/ GenerateFn \/ GenerateVar \/ GenerateCs PROVE FillInv'
  <2>1. Placing(1) \/ Placing(2) \/ Placing(3) \/ Placing(4)
    BY <1>10, FourPlacings DEF FillInv, SearchInv
  <2>2. 1 \in 1 .. 4 /\ 2 \in 1 .. 4 /\ 3 \in 1 .. 4 /\ 4 \in 1 .. 4
    OBVIOUS
  <2> QED BY <1>7, <2>1, <2>2
<1>11. ASSUME \/ TryPhdr \/ PhdrsDone \/ UpdateRelocs \/ UpdateRelocsThrows \/ UNCHANGED vars
       PROVE  FillInv'
  BY <1>6, <1>11, QuietSteps
<1> QED BY <1>8, <1>9, <1>10, <1>11 DEF Next, Exited

LEMMA Filled == Spec => []FillInv
BY FillInit, FillNext, PTL DEF Spec

(* No position is negative and nothing takes more than it had.  The        *)
(* sections behind the area may be moved bssPad words too far (TailInv):   *)
(* the hypothesis says that there is that much in front of the area        *)
(* (write, BssSection::generate).                                          *)
THEOREM AreaTypes == ASSUME bssPad <= areaOff PROVE Spec => []TypeOK
<1>1. FillInv => TypeOK
  <2> SUFFICES ASSUME FillInv PROVE TypeOK
    OBVIOUS
  <2>1. /\ exe \in Exes /\ fpic \in BOOLEAN /\ removed \in BOOLEAN /\ ndx \in 1 .. 4
        /\ pc \in {"phdrs", "refused"} \cup Later
    BY DEF FillInv, SearchInv
  <2>2. Len(Phdrs) + 1 = 4
    BY DEF Phdrs
  <2>3. /\ areaOff \in Nat /\ bssPad \in Nat /\ AreaEnd \in Nat /\ AreaSize \in Nat
    BY <2>1, Numbers
  <2>4. LayoutStep \in 0 .. 6
    <3>1. StepsAre
      BY Steps
    <3>2. \A i \in 1 .. 4 : pc = PartSeq[i] => LayoutStep \in 0 .. 3
      BY <3>1 DEF StepsAre
    <3>3. pc \in Part => LayoutStep \in 0 .. 3
      BY <3>2 DEF PartSeq, Part
    <3>4. pc \in Part \cup {"phdrs", "refused", "bss", "relocs", "aborted", "shift", "done"}
      BY <2>1 DEF Later, Part
    <3> HIDE DEF LayoutStep
    <3> QED BY <3>1, <3>3, <3>4 DEF StepsAre
  <2>5. pos \in 0 .. AreaSize
    <3>1. pos \in Nat /\ pos <= RoomOf(LayoutStep)
      BY DEF FillInv, PosInv
    <3>2. \A n \in 0 .. 6 : RoomOf(n) <= AreaSize /\ RoomOf(n) \in Nat
      <4>1. /\ RoomOf(0) = 0
            /\ \A i \in 1 .. 4 : /\ SizeIn(PartSeq[i]) \in Nat
                                 /\ RoomOf(i - 1) \in Nat
                                 /\ RoomOf(i) = RoomOf(i - 1) + SizeIn(PartSeq[i])
                                 /\ RoomOf(i) <= AreaSize
            /\ \A n \in 4 .. 6 : RoomOf(n) = AreaSize
        BY <2>1, Rooms
      <4>2. ASSUME NEW n \in 0 .. 6 PROVE RoomOf(n) <= AreaSize /\ RoomOf(n) \in Nat
        <5>1. CASE n = 0
          BY <2>3, <4>1, <5>1
        <5>2. CASE n \in 1 .. 4
          <6>1. /\ SizeIn(PartSeq[n]) \in Nat /\ RoomOf(n - 1) \in Nat
                /\ RoomOf(n) = RoomOf(n - 1) + SizeIn(PartSeq[n]) /\ RoomOf(n) <= AreaSize
            BY <4>1, <5>2
          <6> QED BY <6>1
        <5>3. CASE n \in 4 .. 6
          BY <2>3, <4>1, <5>3
        <5> QED BY <5>1, <5>2, <5>3
      <4> QED BY <4>2
    <3> QED BY <2>3, <2>4, <3>1, <3>2
  <2>6. filesz \in 0 .. AreaSize
    BY <2>3, <2>4, <2>5 DEF FillInv, EndInv
  <2>7. \A p \in Part \cup {"bss"} : out[p].off \in Nat /\ out[p].at \in Nat /\ out[p].size \in Nat
    BY DEF FillInv, OutInv
  <2>8. \A i \in DOMAIN tailOff : tailOff[i] \in Nat
    <3>1. ASSUME NEW i \in 1 .. Len(tail) + 1 PROVE tailOff[i] \in Nat
      <4>1. /\ tailOff[i] \in Int
            /\ tailOff[i] >= IF LayoutStep <= 5 THEN AreaEnd ELSE areaOff + pos - bssPad
        BY DEF FillInv, TailInv
      <4> QED BY <2>3, <2>5, <4>1
    <3> QED BY <3>1 DEF FillInv, TailInv
  <2> QED BY <2>1, <2>2, <2>5, <2>6, <2>7, <2>8 DEF TypeOK, FillInv, FlagsInv
<1> QED BY <1>1, Filled, PTL
-----------------------------------------------------------------------------
(* The refinement of AreaLayout. *)

LEMMA RoomIs ==
  ASSUME exe \in Exes
  PROVE  /\ L!Room = AreaSize /\ L!AreaEnd = AreaEnd /\ L!BssAt = BssAt /\ L!VaddrEnd = VaddrEnd
         /\ [i \in 1 .. 4 |-> SizeIn(PartSeq[i])] \in [1 .. 4 -> Nat]
<1>1. L!Room = SizeIn("mvdata") + SizeIn("mvfn") + SizeIn("mvvar") + SizeIn("mvcs")
  BY DEF L!Room, PartSeq
<1>2. L!Room = AreaSize
  BY <1>1, OrderedSizes
<1>3. L!AreaEnd = AreaEnd /\ L!BssAt = BssAt
  BY <1>2 DEF L!AreaEnd, L!BssAt, AreaEnd, BssAt
<1>4. L!VaddrEnd = VaddrEnd
  BY <1>3 DEF L!VaddrEnd, VaddrEnd
<1>5. \A i \in 1 .. 4 : SizeIn(PartSeq[i]) \in Nat
  BY Rooms
<1> QED BY <1>2, <1>3, <1>4, <1>5

LEMMA LayoutInit == Init => L!LInit
<1> SUFFICES ASSUME Init PROVE L!LInit
  OBVIOUS
<1>1. exe \in Exes /\ OutInv /\ EndInv
  BY FillInit DEF FillInv, SearchInv
<1>2. LayoutStep = 0
  <2>1. pc = "phdrs"
    BY DEF Init
  <2> QED BY <2>1, Steps DEF StepsAre
<1>3. [i \in 1 .. 4 |-> Where(PartSeq[i])] \in [1 .. 4 -> [off : Nat, at : Nat, size : Nat]]
  <2>1. \A i \in 1 .. 4 : PartSeq[i] \in Part
    BY DEF PartSeq, Part
  <2>2. \A p \in Part : Where(p) \in [off : Nat, at : Nat, size : Nat]
    BY <1>1 DEF OutInv, Where
  <2> QED BY <2>1, <2>2
<1>4. /\ Where("bss") = [off |-> AreaEnd, at |-> BssAt, size |-> bssSize]
      /\ filesz = AreaSize
  BY <1>1, <1>2 DEF EndInv
<1>5. tailOff = [i \in 1 .. Len(tail) + 1 |-> AreaEnd + Starts(tail)[i]]
  BY DEF Init
<1>6. /\ tailOff \in [1 .. Len(tail) + 1 -> Nat]
      /\ tailOff[1] = AreaEnd
      /\ \A i \in DOMAIN tail : tailOff[i] + tail[i] <= tailOff[i + 1]
  <2>1. AreaEnd \in Nat
    BY <1>1, Numbers
  <2>2. tailOff \in [1 .. Len(tail) + 1 -> Nat] /\ tailOff[1] = AreaEnd
    BY <1>5, <2>1, TailStarts
  <2>3. ASSUME NEW i \in DOMAIN tail PROVE tailOff[i] + tail[i] <= tailOff[i + 1]
    <3>1. /\ i \in 1 .. Len(tail) + 1 /\ i + 1 \in 1 .. Len(tail) + 1
          /\ Starts(tail)[i + 1] = Starts(tail)[i] + tail[i]
          /\ Starts(tail)[i] \in Nat /\ tail[i] \in Nat
      BY TailStarts
    <3>2. tailOff[i] = AreaEnd + Starts(tail)[i] /\ tailOff[i + 1] = AreaEnd + Starts(tail)[i + 1]
      BY <1>5, <3>1
    <3> QED BY <2>1, <3>1, <3>2
  <2> QED BY <2>2, <2>3
<1>7. pos = 0
  BY DEF Init
<1> QED BY <1>1, <1>2, <1>3, <1>4, <1>6, <1>7, RoomIs DEF L!LInit, L!Slot, L!Ordered

LEMMA LayoutNext == FillInv /\ [Next]_vars => [L!LNext]_(L!lvars)
<1> SUFFICES ASSUME FillInv, [Next]_vars PROVE L!LNext \/ UNCHANGED L!lvars
  OBVIOUS
<1> DEFINE room == [i \in 1 .. 4 |-> SizeIn(PartSeq[i])]
           place == [i \in 1 .. 4 |-> Where(PartSeq[i])]
<1>0. exe \in Exes
  BY DEF FillInv, SearchInv
<1>1. room' = room
  <2>1. \A p : SizeIn(p)' = SizeIn(p)
    BY InputStays, Stable
  <2> QED BY <2>1
<1>2. ASSUME Quiet PROVE UNCHANGED L!lvars
  <2>1. place' = place /\ Where("bss")' = Where("bss")
    BY <1>2 DEF Quiet, Where
  <2> HIDE DEF place, room
  <2>2. UNCHANGED <<room, LayoutStep, pos, place, Where("bss"), filesz, tailOff>>
    BY <1>1, <1>2, <2>1 DEF Quiet
  <2> QED BY <2>2 DEF L!lvars, place, room
<1>3. ASSUME NEW i \in 1 .. 4, Placing(i) PROVE L!LNext
  <2> DEFINE p == PartSeq[i]
  <2>1. /\ p \in Part /\ p # "bss"
        /\ LayoutStep = i - 1 /\ LayoutStep' = i
        /\ IF Absent(p) THEN out' = out /\ pos' = pos
           ELSE \E n \in 0 .. SizeIn(p) : \E fields :
                  /\ pos' = pos + n /\ areaOff + pos < AreaEnd
                  /\ out' = [out EXCEPT ![p] = [off |-> areaOff + pos, at |-> areaAt + pos,
                                                size |-> n, fields |-> fields]]
    BY <1>3, Placed DEF FillInv
  <2>2. filesz' = filesz /\ tailOff' = tailOff
    BY <1>3 DEF Placing
  <2>3. (i - 1) + 1 = i /\ i - 1 < 4
    OBVIOUS
  <2>4. /\ out = [q \in Part \cup {"bss"} |-> out[q]]
        /\ \A j \in 1 .. 4 : PartSeq[j] \in Part /\ PartSeq[j] # "bss"
    BY DEF FillInv, OutInv, PartSeq, Part
  <2>5. room[i] = SizeIn(p) /\ place[i] = Where(p)
    OBVIOUS
  <2>6. \A j \in 1 .. 4 : PartSeq[j] = p => j = i
    <3>1. \A j \in 1 .. 4 : j = 1 \/ j = 2 \/ j = 3 \/ j = 4
      OBVIOUS
    <3> QED BY <3>1 DEF PartSeq
  <2> HIDE DEF p
  <2>7. CASE Absent(p)
    <3>1. Where(p) = [off |-> 0, at |-> 0, size |-> 0]
      BY <2>1, <2>7 DEF FillInv, OutInv, None
    <3>2. out' = out /\ pos' = pos
      BY <2>1, <2>7
    <3>3. place' = place /\ Where("bss")' = Where("bss")
      BY <3>2 DEF Where
    <3> HIDE DEF room, place
    <3>4. L!Skip
      <4>1. /\ LayoutStep < 4 /\ LayoutStep' = LayoutStep + 1
            /\ place[LayoutStep + 1] = [off |-> 0, at |-> 0, size |-> 0]
            /\ UNCHANGED <<room, pos, place, Where("bss"), filesz, tailOff>>
        BY <1>1, <2>1, <2>2, <2>3, <2>5, <3>1, <3>2, <3>3
      <4> QED BY <4>1 DEF L!Skip, L!Nowhere, room, place
    <3> QED BY <3>4 DEF L!LNext
  <2>8. CASE ~Absent(p)
    <3>0. PICK n \in 0 .. SizeIn(p) : \E fields :
             /\ pos' = pos + n
             /\ out' = [out EXCEPT ![p] = [off |-> areaOff + pos, at |-> areaAt + pos,
                                           size |-> n, fields |-> fields]]
      BY <2>1, <2>8
    <3>1. PICK fields :
             /\ pos' = pos + n
             /\ out' = [out EXCEPT ![p] = [off |-> areaOff + pos, at |-> areaAt + pos,
                                           size |-> n, fields |-> fields]]
      BY <3>0
    <3> DEFINE new == [off |-> areaOff + pos, at |-> areaAt + pos, size |-> n]
    <3>2. /\ out'[p] = [off |-> areaOff + pos, at |-> areaAt + pos, size |-> n,
                        fields |-> fields]
          /\ \A q \in Part \cup {"bss"} : q # p => out'[q] = out[q]
      BY <2>1, <2>4, <3>1
    <3>3. Where(p)' = new
      BY <3>2 DEF Where, p
    <3>4. \A q \in Part \cup {"bss"} : q # p => Where(q)' = Where(q)
      BY <3>2 DEF Where
    <3>5. place' = [place EXCEPT ![i] = new]
      <4>1. \A j \in 1 .. 4 : Where(PartSeq[j])' = IF j = i THEN new ELSE Where(PartSeq[j])
        <5>1. Where(PartSeq[i])' = new
          BY <3>3 DEF p
        <5>2. \A j \in 1 .. 4 : j # i => Where(PartSeq[j])' = Where(PartSeq[j])
          BY <2>4, <2>6, <3>4
        <5> HIDE DEF new
        <5> QED BY <5>1, <5>2
      <4> HIDE DEF new
      <4> QED BY <4>1
    <3>6. Where("bss")' = Where("bss")
      BY <2>1, <3>4
    <3>7. n \in 0 .. L!Room /\ n <= room[LayoutStep + 1]
      <4>1. SizeIn(p) <= AreaSize /\ SizeIn(p) \in Nat /\ AreaSize \in Nat
        <5>1. OffIn(p) \in Nat /\ OffIn(p) + SizeIn(p) <= AreaSize /\ SizeIn(p) \in Nat
              /\ AreaSize \in Nat
          BY <1>0, <2>1, OrderedSizes
        <5> QED BY <5>1
      <4>2. L!Room = AreaSize
        BY <1>0, RoomIs
      <4> HIDE DEF room
      <4> QED BY <2>1, <2>3, <2>5, <4>1, <4>2
    <3> HIDE DEF room, place, new
    <3>8. L!Pack(n)
      <4>1. /\ LayoutStep < 4 /\ LayoutStep' = LayoutStep + 1
            /\ place' = [place EXCEPT ![LayoutStep + 1] = new]
            /\ UNCHANGED <<room, Where("bss"), filesz, tailOff>>
        BY <1>1, <2>1, <2>2, <2>3, <3>5, <3>6
      <4> QED BY <3>1, <3>7, <4>1 DEF L!Pack, room, place, new
    <3> QED BY <3>7, <3>8 DEF L!LNext
  <2> QED BY <2>7, <2>8
<1>4. CASE GenerateBss
  <2>1. /\ LayoutStep = 4 /\ LayoutStep' = 5
        /\ out' = [out EXCEPT !["bss"] =
                     [off |-> areaOff + pos, at |-> areaAt + pos,
                      size |-> VaddrEnd - (areaAt + pos), fields |-> {}]]
        /\ filesz' = pos /\ pos' = pos /\ tailOff' = tailOff
    BY <1>4, BssMoved
  <2>2. out = [q \in Part \cup {"bss"} |-> out[q]]
    BY DEF FillInv, OutInv
  <2>3. /\ out'["bss"] = [off |-> areaOff + pos, at |-> areaAt + pos,
                          size |-> VaddrEnd - (areaAt + pos), fields |-> {}]
        /\ \A q \in Part : out'[q] = out[q]
    BY <2>1, <2>2 DEF Part
  <2>4. /\ Where("bss")' = [off |-> areaOff + pos, at |-> areaAt + pos,
                            size |-> VaddrEnd - (areaAt + pos)]
        /\ \A q \in Part : Where(q)' = Where(q)
    BY <2>3 DEF Where
  <2>5. place' = place
    <3>1. \A j \in 1 .. 4 : PartSeq[j] \in Part
      BY DEF PartSeq, Part
    <3>2. \A j \in 1 .. 4 : Where(PartSeq[j])' = Where(PartSeq[j])
      BY <2>4, <3>1
    <3> QED BY <3>2
  <2>6. L!VaddrEnd = VaddrEnd
    BY <1>0, RoomIs
  <2> HIDE DEF room, place
  <2>7. L!GrowBss
    <3>1. UNCHANGED <<room, pos, place, tailOff>>
      BY <1>1, <2>1, <2>5
    <3> QED BY <2>1, <2>4, <2>6, <3>1 DEF L!GrowBss, room, place
  <2> QED BY <2>7 DEF L!LNext
<1>5. CASE ShiftSections
  <2>1. /\ LayoutStep = 5 /\ LayoutStep' = 6
        /\ out' = out /\ pos' = pos /\ filesz' = filesz
        /\ tailOff' = [i \in DOMAIN tailOff |-> tailOff[i] - (Where("bss").size - bssSize)]
    BY <1>5, TailMoved
  <2>2. place' = place /\ Where("bss")' = Where("bss")
    BY <2>1 DEF Where
  <2> HIDE DEF room, place
  <2>3. L!MoveTail
    <3>1. UNCHANGED <<room, pos, place, Where("bss"), filesz>>
      BY <1>1, <2>1, <2>2
    <3> QED BY <2>1, <3>1 DEF L!MoveTail, room, place
  <2> QED BY <2>3 DEF L!LNext
<1>6. ASSUME GenerateData \/ GenerateFn \/ GenerateVar \/ GenerateCs PROVE L!LNext
  <2>1. Placing(1) \/ Placing(2) \/ Placing(3) \/ Placing(4)
    BY <1>0, <1>6, FourPlacings
  <2>2. 1 \in 1 .. 4 /\ 2 \in 1 .. 4 /\ 3 \in 1 .. 4 /\ 4 \in 1 .. 4
    OBVIOUS
  <2> QED BY <1>3, <2>1, <2>2
<1>7. ASSUME \/ TryPhdr \/ PhdrsDone \/ UpdateRelocs \/ UpdateRelocsThrows \/ UNCHANGED vars
      PROVE  UNCHANGED L!lvars
  BY <1>2, <1>7, QuietSteps
<1> QED BY <1>4, <1>5, <1>6, <1>7 DEF Next, Exited

(* Whatever the executable, its descriptors and which of them are kept,    *)
(* init_write and write do what AreaLayout says: pack, grow .bss, move the *)
(* tail (InfoArea::generate, Section::generate, Bintail::write).           *)
THEOREM ImplementsAreaLayout == Spec => RefinesAreaLayout
<1>1. Init => L!LInit
  BY LayoutInit
<1>2. FillInv /\ [Next]_vars => [L!LNext]_(L!lvars)
  BY LayoutNext
<1> QED BY <1>1, <1>2, Filled, PTL DEF Spec, RefinesAreaLayout, L!LSpec
-----------------------------------------------------------------------------
(* What AreaLayout promises holds of the output. *)
LP == INSTANCE AreaLayout_proofs WITH
        room <- [i \in 1 .. 4 |-> SizeIn(PartSeq[i])],
        step <- LayoutStep,
        place <- [i \in 1 .. 4 |-> Where(PartSeq[i])],
        bss <- Where("bss")

LEMMA LayoutHypothesis == LP!AreaSizes
BY LayoutAssumption DEF LP!AreaSizes

LEMMA SameLayout == RefinesAreaLayout => LP!LSpec
<1>1. L!LInit => LP!LInit
  BY DEF L!LInit, LP!LInit, L!Slot, LP!Slot, L!AreaEnd, LP!AreaEnd, L!BssAt, LP!BssAt,
         L!Room, LP!Room, L!Ordered, LP!Ordered
<1>2. [L!LNext]_(L!lvars) => [LP!LNext]_(LP!lvars)
  <2>1. UNCHANGED L!lvars => UNCHANGED LP!lvars
    BY DEF L!lvars, LP!lvars
  <2>2. L!Skip => LP!Skip
    BY DEF L!Skip, LP!Skip, L!Nowhere, LP!Nowhere
  <2>3. L!GrowBss => LP!GrowBss
    BY DEF L!GrowBss, LP!GrowBss, L!VaddrEnd, LP!VaddrEnd, L!BssAt, LP!BssAt, L!Room, LP!Room
  <2>4. L!MoveTail => LP!MoveTail
    BY DEF L!MoveTail, LP!MoveTail
  <2>5. ASSUME NEW n, L!Pack(n) PROVE LP!Pack(n)
    BY <2>5 DEF L!Pack, LP!Pack
  <2>6. L!Room = LP!Room
    BY DEF L!Room, LP!Room
  <2> QED BY <2>1, <2>2, <2>3, <2>4, <2>5, <2>6 DEF L!LNext, LP!LNext
<1> QED BY <1>1, <1>2, PTL DEF RefinesAreaLayout, L!LSpec, LP!LSpec

LEMMA Promised == Spec => [](LP!LCovered /\ LP!LLoads /\ LP!LTail)
<1>1. Spec => LP!LSpec
  BY ImplementsAreaLayout, SameLayout
<1>2. LP!LSpec => []LP!LCovered
  BY LP!LayoutCovers, LayoutHypothesis
<1>3. LP!LSpec => []LP!LLoads
  BY LP!LayoutLoads, LayoutHypothesis
<1>4. LP!LSpec => []LP!LTail
  BY LP!TailFollows, LayoutHypothesis
<1> QED BY <1>1, <1>2, <1>3, <1>4, PTL

LEMMA Slots ==
  /\ \A i \in 1 .. 4 : [j \in 1 .. 4 |-> Where(PartSeq[j])][i] = Where(PartSeq[i])
  /\ \A p \in Part : \E i \in 1 .. 4 : PartSeq[i] = p
<1>1. PartSeq[1] = "mvdata" /\ PartSeq[2] = "mvfn" /\ PartSeq[3] = "mvvar" /\ PartSeq[4] = "mvcs"
  BY DEF PartSeq
<1>2. \A p \in Part : \E i \in 1 .. 4 : PartSeq[i] = p
  BY <1>1 DEF Part
<1> QED BY <1>2

(* .bss starts where the kept descriptors end, no later than before, ends  *)
(* where it ended, and no section overlaps another one in memory           *)
(* (BssSection::generate, Section::generate).                              *)
THEOREM MemoryIsCovered == Spec => []MemoryCovered
<1>1. FillInv /\ LP!LCovered => MemoryCovered
  <2> SUFFICES ASSUME FillInv, LP!LCovered, pc \in {"relocs", "shift", "done"}
               PROVE  MemoryCovered
    BY DEF MemoryCovered
  <2> DEFINE place == [i \in 1 .. 4 |-> Where(PartSeq[i])]
  <2>1. LayoutStep >= 5
    BY Steps DEF StepsAre
  <2>2. LP!BssAt = BssAt /\ LP!VaddrEnd = VaddrEnd
    <3>1. LP!Room = L!Room
      BY DEF LP!Room, L!Room
    <3>2. L!Room = AreaSize
      BY RoomIs DEF FillInv, SearchInv
    <3> QED BY <3>1, <3>2 DEF LP!BssAt, LP!VaddrEnd, BssAt, VaddrEnd
  <2>3. /\ Where("bss").at <= BssAt
        /\ Where("bss").at + Where("bss").size = VaddrEnd
        /\ \A i \in 1 .. 4 : place[i].at + place[i].size <= Where("bss").at
        /\ \A i, j \in 1 .. 4 : i < j => \/ place[i].at + place[i].size <= place[j].at
                                        \/ place[j] = [off |-> 0, at |-> 0, size |-> 0]
    BY <2>1, <2>2 DEF LP!LCovered, LP!Slot, LP!Nowhere
  <2>4. \A i \in 1 .. 4 : place[i] = Where(PartSeq[i])
    OBVIOUS
  <2> HIDE DEF place
  <2>5. /\ out["bss"].at <= BssAt
        /\ out["bss"].at + out["bss"].size = VaddrEnd
    BY <2>3 DEF Where
  <2>6. ASSUME NEW p \in Part PROVE out[p].at + out[p].size <= out["bss"].at
    <3>1. PICK i \in 1 .. 4 : PartSeq[i] = p
      BY Slots
    <3>2. Where(p).at + Where(p).size <= Where("bss").at
      BY <2>3, <2>4, <3>1
    <3> QED BY <3>2 DEF Where
  <2>7. ASSUME NEW p \in Part, NEW q \in Part, p # q
        PROVE  \/ out[p].at + out[p].size <= out[q].at
               \/ out[q].at + out[q].size <= out[p].at
    <3>1. ASSUME NEW i \in 1 .. 4, NEW j \in 1 .. 4, i < j
          PROVE  \/ out[PartSeq[i]].at + out[PartSeq[i]].size <= out[PartSeq[j]].at
                 \/ out[PartSeq[j]].at + out[PartSeq[j]].size <= out[PartSeq[i]].at
      <4>1. \/ Where(PartSeq[i]).at + Where(PartSeq[i]).size <= Where(PartSeq[j]).at
            \/ Where(PartSeq[j]) = [off |-> 0, at |-> 0, size |-> 0]
        BY <2>3, <2>4, <3>1
      <4>2. out[PartSeq[i]].at \in Nat
        BY DEF FillInv, OutInv, PartSeq, Part
      <4>3. CASE Where(PartSeq[j]) = [off |-> 0, at |-> 0, size |-> 0]
        <5>1. out[PartSeq[j]].at = 0 /\ out[PartSeq[j]].size = 0
          BY <4>3 DEF Where
        <5> QED BY <4>2, <5>1
      <4>4. CASE Where(PartSeq[i]).at + Where(PartSeq[i]).size <= Where(PartSeq[j]).at
        BY <4>4 DEF Where
      <4> QED BY <4>1, <4>3, <4>4
    <3>2. PICK i \in 1 .. 4 : PartSeq[i] = p
      BY Slots
    <3>3. PICK j \in 1 .. 4 : PartSeq[j] = q
      BY Slots
    <3>4. i < j \/ j < i
      BY <2>7, <3>2, <3>3
    <3> QED BY <3>1, <3>2, <3>3, <3>4
  <2> QED BY <2>5, <2>6, <2>7 DEF MemoryCovered
<1> QED BY <1>1, Promised, Filled, PTL

(* Each section is mapped at its address, and what lies behind the last    *)
(* descriptor is not in the file (InfoArea::generate).                     *)
THEOREM SegmentIsLoaded == Spec => []SegmentLoads
<1>1. FillInv /\ LP!LLoads => SegmentLoads
  <2> SUFFICES ASSUME FillInv, LP!LLoads, pc = "done" PROVE SegmentLoads
    BY DEF SegmentLoads
  <2> DEFINE place == [i \in 1 .. 4 |-> Where(PartSeq[i])]
  <2>1. LayoutStep >= 5
    BY Steps DEF StepsAre
  <2>2. /\ \A i \in 1 .. 4 : place[i].size > 0 =>
             /\ place[i].at - place[i].off = areaAt - areaOff
             /\ place[i].off + place[i].size <= areaOff + filesz
        /\ Where("bss").at >= areaAt + filesz
    BY <2>1 DEF LP!LLoads, LP!Slot
  <2>3. \A i \in 1 .. 4 : place[i] = Where(PartSeq[i])
    OBVIOUS
  <2> HIDE DEF place
  <2>4. ASSUME NEW p \in Part, out[p].size > 0
        PROVE  /\ out[p].at - out[p].off = areaAt - areaOff
               /\ out[p].off + out[p].size <= areaOff + filesz
    <3>1. PICK i \in 1 .. 4 : PartSeq[i] = p
      BY Slots
    <3>2. Where(p).off = out[p].off /\ Where(p).at = out[p].at /\ Where(p).size = out[p].size
      BY DEF Where
    <3> QED BY <2>2, <2>3, <2>4, <3>1, <3>2
  <2>5. out["bss"].at >= areaAt + filesz
    BY <2>2 DEF Where
  <2> QED BY <2>4, <2>5 DEF SegmentLoads
<1> QED BY <1>1, Promised, Filled, PTL

(* Nothing in the file overlaps, if the linker left no gap in front of     *)
(* .bss: with a gap of bssPad words the sections behind the area are moved *)
(* that much too far (TailFollows; run info_area_pad) (Bintail::write).    *)
THEOREM FileIsDisjoint == ASSUME bssPad = 0 PROVE Spec => []FileDisjoint
<1>1. FillInv /\ LP!LTail => FileDisjoint
  <2> SUFFICES ASSUME FillInv, LP!LTail, pc = "done" PROVE FileDisjoint
    BY DEF FileDisjoint
  <2>1. LayoutStep = 6
    BY Steps DEF StepsAre
  <2>2. /\ tailOff[1] = areaOff + filesz - bssPad
        /\ \A i \in DOMAIN tail : tailOff[i] + tail[i] <= tailOff[i + 1]
    BY <2>1 DEF LP!LTail, LP!Ordered
  <2>3. areaOff \in Nat /\ filesz \in Nat
    <3>1. pos \in Nat /\ filesz = pos
      BY <2>1 DEF FillInv, PosInv, EndInv
    <3> QED BY <3>1, LayoutAssumption
  <2> QED BY <2>2, <2>3 DEF FileDisjoint
<1> QED BY <1>1, Promised, Filled, PTL
-----------------------------------------------------------------------------
(* What is in the sections. *)

KeptSize(p) ==
  IF Absent(p) THEN 0
  ELSE CASE p = "mvdata" -> Total(Sizes(Fns, KeepFn, DataSize))
         [] p = "mvfn"   -> Total(Sizes(Fns, KeepFn, FnBlock))
         [] p = "mvvar"  -> Total(Sizes(Vars, KeepVar, VarBlock))
         [] p = "mvcs"   -> Total(Sizes(Sites, KeepSite, SiteBlock))

FieldsOut(p, a) ==
  CASE p = "mvdata" -> Pack(Fns, KeepFn, DataSize, DataFields, a)
    [] p = "mvfn"   -> Pack(Fns, KeepFn, FnBlock, FnFieldsNow, a)
    [] p = "mvvar"  -> Pack(Vars, KeepVar, VarBlock, VarFields, a)
    [] p = "mvcs"   -> Pack(Sites, KeepSite, SiteBlock, SiteFields, a)

BoundsAt(p, a, b) ==
  IF fpic THEN <<Field(ptrAt[p].start, At(a)), Field(ptrAt[p].stop, At(b))>> ELSE <<>>

(* Where the variants of the i-th function are. *)
VariantsAt(i) == areaAt + Starts(Sizes(Fns, KeepFn, DataSize))[i]

(* generate of the i-th section, with all it writes. *)
Filling(i) ==
  LET p == PartSeq[i]
      a == areaAt + pos
  IN /\ out' = IF Absent(p) THEN out
               ELSE [out EXCEPT ![p] = [off |-> areaOff + pos, at |-> a, size |-> KeptSize(p),
                                        fields |-> Range(FieldsOut(p, a))]]
     /\ relocs'[p] = IF fpic /\ ~Absent(p) THEN FieldsOut(p, a) ELSE <<>>
     /\ \A q \in Part : q # p => relocs'[q] = relocs[q]
     /\ relocs' = [q \in Part \cup {"data"} |-> relocs'[q]]
     /\ IF i = 1 THEN relocs'["data"] = relocs["data"] /\ ptrs' = ptrs
        ELSE /\ relocs'["data"] = relocs["data"] \o BoundsAt(p, a, a + KeptSize(p))
             /\ ptrs' = [ptrs EXCEPT ![p] = [start |-> a, stop |-> a + KeptSize(p)]]
     /\ IF i = 1 THEN \A k \in DOMAIN Fns : KeepFn(Fns[k]) /\ ~removed =>
                        mvfnAt'[Fns[k]] = At(areaAt + pos + Starts(Sizes(Fns, KeepFn, DataSize))[k])
        ELSE mvfnAt' = mvfnAt

Contained == relocs = [q \in Part \cup {"data"} |-> relocs[q]] /\ ptrs = [q \in Bounded |-> ptrs[q]]

LEMMA IndexOf ==
  ASSUME exe \in Exes, NEW i \in DOMAIN Fns
  PROVE  (CHOOSE j \in DOMAIN Fns : Fns[j] = Fns[i]) = i
<1>1. IsInjective(Fns)
  BY VectorAssumption DEF Fns
<1>2. \A j \in DOMAIN Fns : Fns[j] = Fns[i] => j = i
  BY <1>1 DEF IsInjective
<1> QED BY <1>2

LEMMA FillsData ==
  ASSUME SearchInv, Contained, GenerateData
  PROVE  Filling(1)
<1> DEFINE a == areaAt + pos
           sizes == Sizes(Fns, KeepFn, DataSize)
           fields == Pack(Fns, KeepFn, DataSize, DataFields, a)
<1>1. PartSeq[1] = "mvdata" /\ "mvdata" \in Part /\ "mvdata" # "data"
  BY DEF PartSeq, Part
<1>2. area.at = areaAt /\ area.off = areaOff
  BY DEF SearchInv, GenerateData, Later, Area
<1>3. /\ Generate("mvdata", Total(sizes), fields)
      /\ relocs' = Relocs("mvdata", fields)
      /\ mvfnAt' = [f \in Range(Fns) |->
                      IF KeepFn(f) /\ ~removed
                        THEN LET i == CHOOSE j \in DOMAIN Fns : Fns[j] = f
                             IN At(a + Starts(sizes)[i])
                        ELSE mvfnAt[f]]
      /\ ptrs' = ptrs
  BY <1>2 DEF GenerateData
<1>4. KeptSize("mvdata") = IF Absent("mvdata") THEN 0 ELSE Total(sizes)
  BY DEF KeptSize
<1>5. FieldsOut("mvdata", a) = fields
  BY DEF FieldsOut
<1>6. ASSUME NEW k \in DOMAIN Fns, KeepFn(Fns[k]) /\ ~removed
      PROVE  mvfnAt'[Fns[k]] = At(a + Starts(sizes)[k])
  <2>1. (CHOOSE j \in DOMAIN Fns : Fns[j] = Fns[k]) = k
    BY IndexOf DEF SearchInv
  <2>2. Fns[k] \in Range(Fns)
    BY DEF Range
  <2> HIDE DEF sizes, a
  <2> QED BY <1>3, <1>6, <2>1, <2>2
<1> HIDE DEF sizes, fields
<1>7. out' = IF Absent("mvdata") THEN out
             ELSE [out EXCEPT !["mvdata"] = [off |-> areaOff + pos, at |-> a,
                                             size |-> KeptSize("mvdata"), fields |-> Range(fields)]]
  BY <1>2, <1>3, <1>4 DEF Generate
<1>8. /\ relocs'["mvdata"] = IF fpic /\ ~Absent("mvdata") THEN fields ELSE <<>>
      /\ \A q \in Part \cup {"data"} : q # "mvdata" => relocs'[q] = relocs[q]
      /\ relocs' = [q \in Part \cup {"data"} |-> relocs'[q]]
  BY <1>1, <1>3 DEF Relocs, Contained
<1> HIDE DEF a
<1>9. \A k \in DOMAIN Fns : KeepFn(Fns[k]) /\ ~removed =>
        mvfnAt'[Fns[k]] = At(a + Starts(sizes)[k])
  BY <1>6
<1>10. 1 = 1
  OBVIOUS
<1> QED BY <1>1, <1>3, <1>5, <1>7, <1>8, <1>9 DEF Filling, sizes, a

LEMMA FillsBounded ==
  ASSUME SearchInv, Contained, NEW i \in 2 .. 4, pc = PartSeq[i], NEW size, NEW fields,
         size = KeptSize(PartSeq[i]), fields = FieldsOut(PartSeq[i], area.at + pos),
         Generate(PartSeq[i], size, fields),
         relocs' = [Relocs(PartSeq[i], fields) EXCEPT !["data"] = @ \o BoundRelocs(PartSeq[i], size)],
         WriteBounds(PartSeq[i], size), mvfnAt' = mvfnAt
  PROVE  Filling(i)
<1> DEFINE a == areaAt + pos
           p == PartSeq[i]
<1>1. i = 2 \/ i = 3 \/ i = 4
  OBVIOUS
<1>2. p \in Part /\ p # "data" /\ p \in Later
  BY <1>1 DEF PartSeq, Part, Later
<1>3. area.at = areaAt /\ area.off = areaOff
  BY <1>2 DEF SearchInv, Area
<1>4. size = KeptSize(p) /\ fields = FieldsOut(p, a)
  BY <1>3
<1>5. out' = IF Absent(p) THEN out
             ELSE [out EXCEPT ![p] = [off |-> areaOff + pos, at |-> a,
                                      size |-> size, fields |-> Range(fields)]]
  BY <1>3 DEF Generate
<1>6. BoundRelocs(p, size) = BoundsAt(p, a, a + size)
  BY <1>3 DEF BoundRelocs, BoundsAt
<1>7. ptrs' = [ptrs EXCEPT ![p] = [start |-> a, stop |-> a + size]]
  BY <1>3 DEF WriteBounds
<1> HIDE DEF p, a
<1>8. relocs' = [Relocs(p, fields) EXCEPT !["data"] = @ \o BoundRelocs(p, size)]
  BY DEF p
<1>9. /\ relocs'[p] = IF fpic /\ ~Absent(p) THEN fields ELSE <<>>
      /\ \A q \in Part : q # p => relocs'[q] = relocs[q]
      /\ relocs'["data"] = relocs["data"] \o BoundRelocs(p, size)
      /\ relocs' = [q \in Part \cup {"data"} |-> relocs'[q]]
  <2>1. "data" \notin Part
    BY DEF Part
  <2> QED BY <1>2, <1>8, <2>1 DEF Relocs, Contained
<1>10. ~ (i = 1)
  BY <1>1
<1> QED BY <1>4, <1>5, <1>6, <1>7, <1>9, <1>10 DEF Filling, p, a

LEMMA FourFillings ==
  ASSUME SearchInv, Contained
  PROVE  /\ GenerateData => Filling(1)
         /\ GenerateFn => Filling(2)
         /\ GenerateVar => Filling(3)
         /\ GenerateCs => Filling(4)
<1> DEFINE b == area.at + pos
<1>1. /\ PartSeq[2] = "mvfn" /\ PartSeq[3] = "mvvar" /\ PartSeq[4] = "mvcs"
      /\ 2 \in 2 .. 4 /\ 3 \in 2 .. 4 /\ 4 \in 2 .. 4
  BY DEF PartSeq
<1>2. ASSUME GenerateFn PROVE Filling(2)
  <2> DEFINE size == IF Absent("mvfn") THEN 0 ELSE Total(Sizes(Fns, KeepFn, FnBlock))
             fields == Pack(Fns, KeepFn, FnBlock, FnFieldsNow, b)
  <2>1. size = KeptSize("mvfn") /\ fields = FieldsOut("mvfn", b)
    BY DEF KeptSize, FieldsOut
  <2>2. /\ pc = "mvfn" /\ Generate("mvfn", size, fields)
        /\ relocs' = [Relocs("mvfn", fields) EXCEPT !["data"] = @ \o BoundRelocs("mvfn", size)]
        /\ WriteBounds("mvfn", size) /\ mvfnAt' = mvfnAt
    BY <1>2 DEF GenerateFn, GenerateBounded
  <2> HIDE DEF size, fields
  <2> QED BY <1>1, <2>1, <2>2, FillsBounded
<1>3. ASSUME GenerateVar PROVE Filling(3)
  <2> DEFINE size == IF Absent("mvvar") THEN 0 ELSE Total(Sizes(Vars, KeepVar, VarBlock))
             fields == Pack(Vars, KeepVar, VarBlock, VarFields, b)
  <2>1. size = KeptSize("mvvar") /\ fields = FieldsOut("mvvar", b)
    BY DEF KeptSize, FieldsOut
  <2>2. /\ pc = "mvvar" /\ Generate("mvvar", size, fields)
        /\ relocs' = [Relocs("mvvar", fields) EXCEPT !["data"] = @ \o BoundRelocs("mvvar", size)]
        /\ WriteBounds("mvvar", size) /\ mvfnAt' = mvfnAt
    BY <1>3 DEF GenerateVar, GenerateBounded
  <2> HIDE DEF size, fields
  <2> QED BY <1>1, <2>1, <2>2, FillsBounded
<1>4. ASSUME GenerateCs PROVE Filling(4)
  <2> DEFINE size == IF Absent("mvcs") THEN 0 ELSE Total(Sizes(Sites, KeepSite, SiteBlock))
             fields == Pack(Sites, KeepSite, SiteBlock, SiteFields, b)
  <2>1. size = KeptSize("mvcs") /\ fields = FieldsOut("mvcs", b)
    BY DEF KeptSize, FieldsOut
  <2>2. /\ pc = "mvcs" /\ Generate("mvcs", size, fields)
        /\ relocs' = [Relocs("mvcs", fields) EXCEPT !["data"] = @ \o BoundRelocs("mvcs", size)]
        /\ WriteBounds("mvcs", size) /\ mvfnAt' = mvfnAt
    BY <1>4 DEF GenerateCs, GenerateBounded
  <2> HIDE DEF size, fields
  <2> QED BY <1>1, <2>1, <2>2, FillsBounded
<1> QED BY <1>2, <1>3, <1>4, FillsData

(* A section that is done is where it was put, holds the kept descriptors  *)
(* packed from there on, and has the relocations of their pointers.        *)
PartDone(p) ==
  IF Absent(p) THEN relocs[p] = <<>>
  ELSE \E a \in Nat :
         /\ out[p].at = a /\ out[p].size = KeptSize(p)
         /\ out[p].fields = Range(FieldsOut(p, a))
         /\ relocs[p] = IF fpic THEN FieldsOut(p, a) ELSE <<>>

BoundDone(p) ==
  /\ ptrs[p].start \in areaAt .. areaAt + AreaSize
  /\ ptrs[p].stop = ptrs[p].start + KeptSize(p)
  /\ ~Absent(p) => ptrs[p].start = out[p].at

BoundsOf(p) == BoundsAt(p, ptrs[p].start, ptrs[p].stop)
DataRelocs(n) ==
  IF n <= 1 THEN <<>>
  ELSE IF n = 2 THEN <<>> \o BoundsOf("mvfn")
  ELSE IF n = 3 THEN (<<>> \o BoundsOf("mvfn")) \o BoundsOf("mvvar")
  ELSE ((<<>> \o BoundsOf("mvfn")) \o BoundsOf("mvvar")) \o BoundsOf("mvcs")

(* Every kept function has been told where its variants are now. *)
Told ==
  /\ ~Absent("mvdata") => out["mvdata"].at = areaAt
  /\ \A k \in DOMAIN Fns : KeepFn(Fns[k]) /\ ~removed => mvfnAt[Fns[k]] = At(VariantsAt(k))

TableInv ==
  pc \in {"shift", "done"} =>
    rela = Table /\ relaCount = Cardinality({i \in DOMAIN Table : Table[i].rel})

ContentsInv ==
  /\ Contained
  /\ \A p \in Part : Absent(p) => out[p].fields = {}
  /\ \A i \in 1 .. 4 : i <= LayoutStep => PartDone(PartSeq[i])
  /\ \A i \in 2 .. 4 : i <= LayoutStep => BoundDone(PartSeq[i])
  /\ relocs["data"] = DataRelocs(LayoutStep)
  /\ LayoutStep >= 1 => Told
  /\ TableInv

LEMMA ContentsInit == Init => ContentsInv
<1> SUFFICES ASSUME Init PROVE ContentsInv
  OBVIOUS
<1>1. LayoutStep = 0
  BY Steps DEF StepsAre, Init
<1>2. Contained
  BY DEF Init, Contained
<1>3. ASSUME NEW p \in Part, Absent(p) PROVE out[p].fields = {}
  BY <1>3 DEF Init, Empty
<1>4. relocs["data"] = <<>>
  BY DEF Init
<1>5. DataRelocs(LayoutStep) = <<>>
  BY <1>1 DEF DataRelocs
<1>6. TableInv
  BY DEF Init, TableInv
<1> QED BY <1>1, <1>2, <1>3, <1>4, <1>5, <1>6 DEF ContentsInv

(* The positions of what is packed depend on what stays. *)
LEMMA StablePacking ==
  ASSUME exe' = exe, fpic' = fpic, removed' = removed, frozen' = frozen, fixed' = fixed
  PROVE  /\ \A p \in Part : KeptSize(p)' = KeptSize(p)
         /\ \A a : FieldsOut("mvdata", a)' = FieldsOut("mvdata", a)
         /\ mvfnAt' = mvfnAt => \A p \in Part : \A a : FieldsOut(p, a)' = FieldsOut(p, a)
         /\ \A k : VariantsAt(k)' = VariantsAt(k)
         /\ \A p : Absent(p)' = Absent(p)
         /\ AreaSize' = AreaSize
<1>1. \A p : Absent(p)' = Absent(p)
  BY Stable
<1>2. \A p \in Part : KeptSize(p)' = KeptSize(p)
  <2>1. KeptSize("mvdata")' = KeptSize("mvdata")
    BY <1>1 DEF KeptSize, Sizes, KeepFn, Fns
  <2>2. KeptSize("mvfn")' = KeptSize("mvfn")
    BY <1>1 DEF KeptSize, Sizes, KeepFn, FnBlock, Fns
  <2>3. KeptSize("mvvar")' = KeptSize("mvvar")
    BY <1>1 DEF KeptSize, Sizes, KeepVar, VarBlock, Vars
  <2>4. KeptSize("mvcs")' = KeptSize("mvcs")
    BY <1>1 DEF KeptSize, Sizes, KeepSite, SiteBlock, Sites
  <2> QED BY <2>1, <2>2, <2>3, <2>4 DEF Part
<1>3. \A a : FieldsOut("mvdata", a)' = FieldsOut("mvdata", a)
  BY DEF FieldsOut, Pack, Sizes, KeepFn, Fns
<1>4. ASSUME mvfnAt' = mvfnAt, NEW p \in Part, NEW a PROVE FieldsOut(p, a)' = FieldsOut(p, a)
  <2>1. FieldsOut("mvfn", a)' = FieldsOut("mvfn", a)
    BY <1>4 DEF FieldsOut, Pack, Sizes, KeepFn, FnBlock, Fns, FnFieldsNow
  <2>2. FieldsOut("mvvar", a)' = FieldsOut("mvvar", a)
    BY DEF FieldsOut, Pack, Sizes, KeepVar, VarBlock, Vars
  <2>3. FieldsOut("mvcs", a)' = FieldsOut("mvcs", a)
    BY DEF FieldsOut, Pack, Sizes, KeepSite, SiteBlock, Sites
  <2> QED BY <1>3, <2>1, <2>2, <2>3 DEF Part
<1>5. \A k : VariantsAt(k)' = VariantsAt(k)
  BY DEF VariantsAt, Sizes, KeepFn, Fns
<1>6. AreaSize' = AreaSize
  BY Stable
<1> QED BY <1>1, <1>2, <1>3, <1>4, <1>5, <1>6

LEMMA ContentsNext == FillInv /\ ContentsInv /\ [Next]_vars => ContentsInv'
<1> SUFFICES ASSUME FillInv, ContentsInv, [Next]_vars PROVE ContentsInv'
  OBVIOUS
<1>0. SearchInv /\ Contained /\ exe \in Exes
  BY DEF FillInv, ContentsInv, SearchInv
<1>1. /\ exe' = exe /\ fpic' = fpic /\ removed' = removed /\ frozen' = frozen /\ fixed' = fixed
  BY InputStays
<1>2. /\ \A p \in Part : KeptSize(p)' = KeptSize(p)
      /\ \A a : FieldsOut("mvdata", a)' = FieldsOut("mvdata", a)
      /\ mvfnAt' = mvfnAt => \A p \in Part : \A a : FieldsOut(p, a)' = FieldsOut(p, a)
      /\ \A k : VariantsAt(k)' = VariantsAt(k)
      /\ \A p : Absent(p)' = Absent(p)
      /\ AreaSize' = AreaSize
  BY <1>1, StablePacking
<1>3. /\ \A i \in 1 .. 4 : PartSeq[i] \in Part /\ (i # 1 => PartSeq[i] \in Bounded)
      /\ PartSeq[1] = "mvdata" /\ PartSeq[2] = "mvfn" /\ PartSeq[3] = "mvvar" /\ PartSeq[4] = "mvcs"
      /\ "data" \notin Part
  BY DEF PartSeq, Part, Bounded
<1>4. ASSUME \A p \in Part : out'[p] = out[p],
             relocs' = relocs, ptrs' = ptrs, mvfnAt' = mvfnAt,
             LayoutStep' = LayoutStep \/ (LayoutStep \in 4 .. 6 /\ LayoutStep' \in 4 .. 6),
             TableInv'
      PROVE  ContentsInv'
  <2>1. \A i \in 1 .. 4 : i <= LayoutStep' => i <= LayoutStep
    BY <1>4
  <2>2. ASSUME NEW p \in Part, PartDone(p) PROVE PartDone(p)'
    <3>1. CASE Absent(p)
      BY <1>2, <1>4, <2>2, <3>1 DEF PartDone
    <3>2. CASE ~Absent(p)
      <4>1. PICK a \in Nat :
              /\ out[p].at = a /\ out[p].size = KeptSize(p)
              /\ out[p].fields = Range(FieldsOut(p, a))
              /\ relocs[p] = IF fpic THEN FieldsOut(p, a) ELSE <<>>
        BY <2>2, <3>2 DEF PartDone
      <4>2. FieldsOut(p, a)' = FieldsOut(p, a) /\ KeptSize(p)' = KeptSize(p) /\ Absent(p)' = Absent(p)
        BY <1>2, <1>4
      <4> QED BY <1>1, <1>4, <3>2, <4>1, <4>2 DEF PartDone
    <3> QED BY <3>1, <3>2
  <2>3. ASSUME NEW p \in Part, BoundDone(p) PROVE BoundDone(p)'
    BY <1>2, <1>4, <2>3 DEF BoundDone
  <2>4. DataRelocs(LayoutStep)' = DataRelocs(LayoutStep)
    <3>1. \A p : BoundsOf(p)' = BoundsOf(p)
      BY <1>1, <1>4 DEF BoundsOf, BoundsAt
    <3>2. CASE LayoutStep' = LayoutStep
      BY <3>1, <3>2 DEF DataRelocs
    <3>3. CASE LayoutStep \in 4 .. 6 /\ LayoutStep' \in 4 .. 6
      <4>1. /\ ~ (LayoutStep <= 1) /\ LayoutStep # 2 /\ LayoutStep # 3
            /\ ~ (LayoutStep' <= 1) /\ LayoutStep' # 2 /\ LayoutStep' # 3
        BY <3>3
      <4> QED BY <3>1, <4>1 DEF DataRelocs
    <3> QED BY <1>4, <3>2, <3>3
  <2>5. Told => Told'
    BY <1>1, <1>2, <1>4, <1>3 DEF Told, KeepFn, Fns
  <2>6. LayoutStep' >= 1 => LayoutStep >= 1
    BY <1>4
  <2>7. Contained'
    BY <1>4 DEF ContentsInv, Contained
  <2>8. \A p \in Part : Absent(p)' => out'[p].fields = {}
    BY <1>2, <1>4 DEF ContentsInv
  <2>9. \A i \in 1 .. 4 : i <= LayoutStep' => PartDone(PartSeq[i])'
    BY <1>3, <2>1, <2>2 DEF ContentsInv
  <2>10. \A i \in 2 .. 4 : i <= LayoutStep' => BoundDone(PartSeq[i])'
    BY <1>3, <2>1, <2>3 DEF ContentsInv
  <2>11. relocs'["data"] = DataRelocs(LayoutStep)'
    BY <1>4, <2>4 DEF ContentsInv
  <2> QED BY <1>4, <2>5, <2>6, <2>7, <2>8, <2>9, <2>10, <2>11 DEF ContentsInv
<1>5. CASE TryPhdr \/ PhdrsDone \/ UpdateRelocsThrows \/ UNCHANGED vars
  <2>1. /\ relocs' = relocs /\ ptrs' = ptrs /\ mvfnAt' = mvfnAt
        /\ rela' = rela /\ relaCount' = relaCount
        /\ pc' \in {"shift", "done"} => pc = pc'
    BY <1>5 DEF TryPhdr, PhdrsDone, UpdateRelocsThrows, vars, Rest
  <2>2. Quiet
    BY <1>5, QuietSteps
  <2>3. TableInv'
    BY <2>1, InputStays DEF ContentsInv, TableInv, Table, RelaOther
  <2> QED BY <1>4, <2>1, <2>2, <2>3 DEF Quiet
<1>6. CASE UpdateRelocs
  <2>1. relocs' = relocs /\ ptrs' = ptrs /\ mvfnAt' = mvfnAt
        /\ rela' = Table /\ relaCount' = Cardinality({i \in DOMAIN Table : Table[i].rel})
    BY <1>6 DEF UpdateRelocs
  <2>2. Quiet
    BY <1>6, QuietSteps
  <2>3. Table' = Table
    BY <2>1, InputStays DEF Table, RelaOther
  <2>4. TableInv'
    BY <2>1, <2>3 DEF TableInv
  <2> QED BY <1>4, <2>1, <2>2, <2>4 DEF Quiet
<1>7. CASE GenerateBss
  <2>1. relocs' = relocs /\ ptrs' = ptrs /\ mvfnAt' = mvfnAt /\ pc' = "relocs"
    BY <1>7 DEF GenerateBss
  <2>2. /\ LayoutStep = 4 /\ LayoutStep' = 5
        /\ out' = [out EXCEPT !["bss"] =
                     [off |-> areaOff + pos, at |-> areaAt + pos,
                      size |-> VaddrEnd - (areaAt + pos), fields |-> {}]]
    BY <1>7, BssMoved
  <2>3. \A p \in Part : out'[p] = out[p]
    <3>1. \A p \in Part : p # "bss"
      BY DEF Part
    <3>2. out = [p \in Part \cup {"bss"} |-> out[p]]
      BY DEF FillInv, OutInv
    <3> QED BY <2>2, <3>1, <3>2
  <2>4. TableInv'
    BY <2>1 DEF TableInv
  <2> QED BY <1>4, <2>1, <2>2, <2>3, <2>4
<1>8. CASE ShiftSections
  <2>1. /\ relocs' = relocs /\ ptrs' = ptrs /\ mvfnAt' = mvfnAt
        /\ rela' = rela /\ relaCount' = relaCount /\ pc = "shift"
    BY <1>8 DEF ShiftSections
  <2>2. LayoutStep = 5 /\ LayoutStep' = 6 /\ out' = out
    BY <1>8, TailMoved
  <2>3. TableInv'
    BY <2>1, InputStays DEF ContentsInv, TableInv, Table, RelaOther
  <2> QED BY <1>4, <2>1, <2>2, <2>3
<1>9. ASSUME NEW i \in 1 .. 4, Placing(i), Filling(i) PROVE ContentsInv'
  <2> DEFINE p == PartSeq[i]
             a == areaAt + pos
  <2>1. /\ p \in Part /\ p # "bss"
        /\ LayoutStep = i - 1 /\ LayoutStep' = i
        /\ pos \in Nat /\ pos <= RoomOf(i - 1)
    BY <1>9, Placed DEF FillInv
  <2>2. i = 1 \/ i = 2 \/ i = 3 \/ i = 4
    OBVIOUS
  <2>3. /\ out' = IF Absent(p) THEN out
                  ELSE [out EXCEPT ![p] = [off |-> areaOff + pos, at |-> a, size |-> KeptSize(p),
                                           fields |-> Range(FieldsOut(p, a))]]
        /\ relocs'[p] = IF fpic /\ ~Absent(p) THEN FieldsOut(p, a) ELSE <<>>
        /\ \A q \in Part : q # p => relocs'[q] = relocs[q]
        /\ relocs' = [q \in Part \cup {"data"} |-> relocs'[q]]
        /\ i = 1 => relocs'["data"] = relocs["data"] /\ ptrs' = ptrs
        /\ i # 1 => /\ relocs'["data"] = relocs["data"] \o BoundsAt(p, a, a + KeptSize(p))
                    /\ ptrs' = [ptrs EXCEPT ![p] = [start |-> a, stop |-> a + KeptSize(p)]]
        /\ i # 1 => mvfnAt' = mvfnAt
    BY <1>9 DEF Filling
  <2>4. /\ \A q \in Part : q # p => out'[q] = out[q]
        /\ Absent(p) => out' = out
        /\ ~Absent(p) => out'[p] = [off |-> areaOff + pos, at |-> a, size |-> KeptSize(p),
                                    fields |-> Range(FieldsOut(p, a))]
    <3>1. out = [q \in Part \cup {"bss"} |-> out[q]]
      BY DEF FillInv, OutInv
    <3> HIDE DEF p, a
    <3> QED BY <2>1, <2>3, <3>1
  <2>5. \A j \in 1 .. 4 : j < i => PartSeq[j] # p /\ j <= i - 1
    <3>1. \A j \in 1 .. 4 : j = 1 \/ j = 2 \/ j = 3 \/ j = 4
      OBVIOUS
    <3> QED BY <2>2, <3>1 DEF PartSeq
  <2>6. a \in Nat /\ a \in areaAt .. areaAt + AreaSize
    <3>1. RoomOf(i) <= AreaSize /\ SizeIn(p) \in Nat /\ RoomOf(i) = RoomOf(i - 1) + SizeIn(p)
          /\ RoomOf(i - 1) \in Nat
      BY <1>0, Rooms
    <3>2. areaAt \in Nat /\ AreaSize \in Nat
      BY <1>0, Numbers
    <3> HIDE DEF p
    <3> QED BY <2>1, <3>1, <3>2
  <2> HIDE DEF a
  <2>8. \A b : FieldsOut(p, b)' = FieldsOut(p, b)
    <3>1. CASE i = 1
      BY <1>2, <1>3, <3>1
    <3>2. CASE i # 1
      BY <1>2, <2>1, <2>3, <3>2
    <3> QED BY <3>1, <3>2
  <2>9. PartDone(p)'
    <3>1. CASE Absent(p)
      BY <1>2, <2>3, <3>1 DEF PartDone
    <3>2. CASE ~Absent(p)
      <4>1. PICK b \in Nat : b = a
        BY <2>6
      <4>2. /\ out'[p].at = b /\ out'[p].size = KeptSize(p)
            /\ out'[p].fields = Range(FieldsOut(p, b))
            /\ relocs'[p] = IF fpic THEN FieldsOut(p, b) ELSE <<>>
        BY <2>3, <2>4, <3>2, <4>1
      <4>3. FieldsOut(p, b)' = FieldsOut(p, b) /\ KeptSize(p)' = KeptSize(p) /\ Absent(p)' = Absent(p)
        BY <1>2, <2>1, <2>8
      <4> QED BY <1>1, <3>2, <4>2, <4>3 DEF PartDone
    <3> QED BY <3>1, <3>2
  <2>10. ASSUME NEW j \in 1 .. 4, j <= LayoutStep' PROVE PartDone(PartSeq[j])'
    <3>1. CASE j = i
      BY <2>9, <3>1
    <3>2. CASE j # i
      <4> DEFINE q == PartSeq[j]
      <4>1. j < i /\ q # p /\ j <= LayoutStep /\ q \in Part /\ i # 1
        BY <1>3, <2>1, <2>5, <2>10, <3>2
      <4>2. PartDone(q) /\ out'[q] = out[q] /\ relocs'[q] = relocs[q]
        BY <2>3, <2>4, <4>1 DEF ContentsInv
      <4> HIDE DEF q
      <4>3. CASE Absent(q)
        BY <1>2, <4>2, <4>3 DEF PartDone, q
      <4>4. CASE ~Absent(q)
        <5>1. PICK b \in Nat :
                /\ out[q].at = b /\ out[q].size = KeptSize(q)
                /\ out[q].fields = Range(FieldsOut(q, b))
                /\ relocs[q] = IF fpic THEN FieldsOut(q, b) ELSE <<>>
          BY <4>2, <4>4 DEF PartDone
        <5>2. FieldsOut(q, b)' = FieldsOut(q, b) /\ KeptSize(q)' = KeptSize(q)
              /\ Absent(q)' = Absent(q)
          BY <1>2, <2>3, <4>1
        <5>3. PartDone(q)'
          BY <1>1, <4>2, <4>4, <5>1, <5>2 DEF PartDone
        <5> QED BY <5>3 DEF q
      <4> QED BY <4>3, <4>4
    <3> QED BY <3>1, <3>2
  <2>11. /\ i # 1 => /\ ptrs'[p] = [start |-> a, stop |-> a + KeptSize(p)]
                     /\ \A q \in Bounded : q # p => ptrs'[q] = ptrs[q]
         /\ ptrs' = [q \in Bounded |-> ptrs'[q]]
    <3>1. ptrs = [q \in Bounded |-> ptrs[q]]
      BY DEF ContentsInv, Contained
    <3>2. i # 1 => p \in Bounded
      BY <1>3
    <3> HIDE DEF p
    <3>3. CASE i = 1
      BY <2>3, <3>1, <3>3
    <3>4. CASE i # 1
      BY <2>3, <3>1, <3>2, <3>4
    <3> QED BY <3>3, <3>4
  <2>12. ASSUME NEW j \in 2 .. 4, j <= LayoutStep' PROVE BoundDone(PartSeq[j])'
    <3>1. CASE j = i
      <4>1. ptrs'[p].start = a /\ ptrs'[p].stop = a + KeptSize(p)
        BY <2>11, <3>1
      <4>2. ~Absent(p) => out'[p].at = a
        BY <2>4
      <4>3. BoundDone(p)'
        BY <1>2, <2>1, <2>6, <4>1, <4>2 DEF BoundDone
      <4> QED BY <3>1, <4>3
    <3>2. CASE j # i
      <4> DEFINE q == PartSeq[j]
      <4>1. j < i /\ q # p /\ j <= LayoutStep /\ q \in Bounded /\ q \in Part /\ i # 1
        BY <1>3, <2>1, <2>5, <2>12, <3>2
      <4>2. BoundDone(q) /\ out'[q] = out[q] /\ ptrs'[q] = ptrs[q]
        BY <2>4, <2>11, <4>1 DEF ContentsInv
      <4> HIDE DEF q
      <4>3. BoundDone(q)'
        BY <1>2, <4>1, <4>2 DEF BoundDone
      <4> QED BY <4>3 DEF q
    <3> QED BY <3>1, <3>2
  <2>13. relocs'["data"] = DataRelocs(LayoutStep)'
    <3>1. relocs["data"] = DataRelocs(LayoutStep)
      BY DEF ContentsInv
    <3>2. i # 1 => BoundsAt(p, a, a + KeptSize(p)) = BoundsOf(p)'
      <4>1. ASSUME i # 1 PROVE ptrs'[p].start = a /\ ptrs'[p].stop = a + KeptSize(p)
        BY <2>11, <4>1
      <4> QED BY <1>1, <4>1 DEF BoundsOf, BoundsAt
    <3>3. i # 1 => \A q \in Bounded : q # p => BoundsOf(q)' = BoundsOf(q)
      BY <1>1, <2>11 DEF BoundsOf, BoundsAt
    <3>4. CASE i = 1
      <4>1. LayoutStep = 0 /\ LayoutStep' = 1
        BY <2>1, <3>4
      <4> QED BY <2>3, <3>1, <3>4, <4>1 DEF DataRelocs
    <3>5. CASE i = 2
      <4>1. LayoutStep = 1 /\ LayoutStep' = 2 /\ p = "mvfn"
        BY <1>3, <2>1, <3>5
      <4>2. relocs'["data"] = <<>> \o BoundsOf("mvfn")'
        BY <2>3, <3>1, <3>2, <3>5, <4>1 DEF DataRelocs
      <4> QED BY <4>1, <4>2 DEF DataRelocs
    <3>6. CASE i = 3
      <4>1. LayoutStep = 2 /\ LayoutStep' = 3 /\ p = "mvvar"
        BY <1>3, <2>1, <3>6
      <4>2. BoundsOf("mvfn")' = BoundsOf("mvfn")
        BY <3>3, <3>6, <4>1 DEF Bounded
      <4>3. relocs'["data"] = (<<>> \o BoundsOf("mvfn")) \o BoundsOf("mvvar")'
        BY <2>3, <3>1, <3>2, <3>6, <4>1 DEF DataRelocs
      <4> QED BY <4>1, <4>2, <4>3 DEF DataRelocs
    <3>7. CASE i = 4
      <4>1. LayoutStep = 3 /\ LayoutStep' = 4 /\ p = "mvcs"
        BY <1>3, <2>1, <3>7
      <4>2. BoundsOf("mvfn")' = BoundsOf("mvfn") /\ BoundsOf("mvvar")' = BoundsOf("mvvar")
        BY <3>3, <3>7, <4>1 DEF Bounded
      <4>3. relocs'["data"] = ((<<>> \o BoundsOf("mvfn")) \o BoundsOf("mvvar")) \o BoundsOf("mvcs")'
        BY <2>3, <3>1, <3>2, <3>7, <4>1 DEF DataRelocs
      <4> QED BY <4>1, <4>2, <4>3 DEF DataRelocs
    <3> QED BY <2>2, <3>4, <3>5, <3>6, <3>7
  <2>14. Told'
    <3>1. CASE i = 1
      <4>1. pos = 0
        <5>1. RoomOf(0) = 0
          BY <1>0, Rooms
        <5> QED BY <2>1, <3>1, <5>1
      <4>2. a = areaAt
        <5>1. areaAt \in Nat
          BY <1>0, Numbers
        <5> QED BY <4>1, <5>1 DEF a
      <4>3. ~Absent("mvdata") => out'["mvdata"].at = areaAt
        BY <1>3, <2>4, <3>1, <4>2
      <4>4. ASSUME NEW k \in DOMAIN Fns, KeepFn(Fns[k]) /\ ~removed
            PROVE  mvfnAt'[Fns[k]] = At(VariantsAt(k))
        <5>1. mvfnAt'[Fns[k]] = At(areaAt + pos + Starts(Sizes(Fns, KeepFn, DataSize))[k])
          BY <1>9, <3>1, <4>4 DEF Filling
        <5>2. areaAt + pos = areaAt
          BY <4>2 DEF a
        <5> QED BY <5>1, <5>2 DEF VariantsAt
      <4>5. \A k \in DOMAIN Fns : KeepFn(Fns[k]) /\ ~removed => mvfnAt'[Fns[k]] = At(VariantsAt(k))
        BY <4>4
      <4> QED BY <1>1, <1>2, <4>3, <4>5 DEF Told, KeepFn, Fns
    <3>2. CASE i # 1
      <4>1. LayoutStep >= 1
        BY <2>1, <3>2
      <4>2. Told
        BY <4>1 DEF ContentsInv
      <4>3. out'["mvdata"] = out["mvdata"]
        <5>1. p # "mvdata"
          BY <2>2, <3>2 DEF PartSeq
        <5> QED BY <1>3, <2>4, <5>1 DEF Part
      <4> QED BY <1>1, <1>2, <2>3, <3>2, <4>2, <4>3 DEF Told, KeepFn, Fns
    <3> QED BY <3>1, <3>2
  <2>15. Contained'
    BY <2>3, <2>11 DEF Contained
  <2>16. ASSUME NEW q \in Part, Absent(q)' PROVE out'[q].fields = {}
    <3>1. Absent(q)
      BY <1>2, <2>16
    <3>2. out'[q] = out[q]
      BY <2>4, <3>1
    <3> QED BY <3>1, <3>2 DEF ContentsInv
  <2>17. TableInv'
    <3>1. pc' \notin {"shift", "done"}
      <4>1. pc' = IF i = 4 THEN "bss" ELSE PartSeq[i + 1]
        BY <1>9 DEF Placing
      <4> QED BY <2>2, <4>1 DEF PartSeq
    <3> QED BY <3>1 DEF TableInv
  <2> QED BY <2>10, <2>12, <2>13, <2>14, <2>15, <2>16, <2>17 DEF ContentsInv
<1>10. CASE GenerateData \/ GenerateFn \/ GenerateVar \/ GenerateCs
  <2>1. /\ (GenerateData => Placing(1)) /\ (GenerateFn => Placing(2))
        /\ (GenerateVar => Placing(3)) /\ (GenerateCs => Placing(4))
    BY <1>0, FourPlacings
  <2>2. /\ (GenerateData => Filling(1)) /\ (GenerateFn => Filling(2))
        /\ (GenerateVar => Filling(3)) /\ (GenerateCs => Filling(4))
    BY <1>0, FourFillings
  <2>3. 1 \in 1 .. 4 /\ 2 \in 1 .. 4 /\ 3 \in 1 .. 4 /\ 4 \in 1 .. 4
    OBVIOUS
  <2>4. CASE GenerateData
    BY <1>9, <2>1, <2>2, <2>3, <2>4
  <2>5. CASE GenerateFn
    BY <1>9, <2>1, <2>2, <2>3, <2>5
  <2>6. CASE GenerateVar
    BY <1>9, <2>1, <2>2, <2>3, <2>6
  <2>7. CASE GenerateCs
    BY <1>9, <2>1, <2>2, <2>3, <2>7
  <2> QED BY <1>10, <2>4, <2>5, <2>6, <2>7
<1> QED BY <1>5, <1>6, <1>7, <1>8, <1>10 DEF Next, Exited

LEMMA ContentsKept == Spec => []ContentsInv
BY ContentsInit, ContentsNext, Filled, PTL DEF Spec
-----------------------------------------------------------------------------
(* Lists of pointers.  A tidy one has them at different places, all of     *)
(* these in a set.                                                         *)
Tidy(s, A) ==
  /\ Proper(s)
  /\ \A i \in 1 .. Len(s) : s[i] = Field(s[i].at, s[i].to) /\ s[i].at \in A
  /\ \A i, j \in 1 .. Len(s) : s[i].at = s[j].at => i = j

LEMMA TidyEmpty == \A A : Tidy(<<>>, A)
BY ProperEmpty DEF Tidy

LEMMA TidyFlatten ==
  ASSUME NEW n \in Nat, NEW ss, ss = [i \in 1 .. n |-> ss[i]], NEW A, NEW B,
         \A i \in 1 .. n : Tidy(ss[i], B[i]) /\ B[i] \subseteq A,
         \A i, j \in 1 .. n : i # j => B[i] \cap B[j] = {}
  PROVE  Tidy(FlattenSeq(ss), A)
<1> DEFINE F == FlattenSeq(ss)
<1>1. \A i \in 1 .. n : Proper(ss[i])
  BY DEF Tidy
<1>2. Proper(F) /\ Len(ss) = n /\ \E at : Positions(ss, F, at)
  BY <1>1, FlattenProper
<1>3. PICK at : Positions(ss, F, at)
  BY <1>2
<1> HIDE DEF F
<1>4. ASSUME NEW j \in 1 .. Len(F)
      PROVE  \E i \in 1 .. n : \E k \in 1 .. Len(ss[i]) :
               j = at[i - 1] + k /\ F[j] = ss[i][k] /\ F[j].at \in B[i]
                /\ F[j] = Field(F[j].at, F[j].to)
  <2>1. PICK i \in 1 .. n : \E k \in 1 .. Len(ss[i]) : j = at[i - 1] + k
    BY <1>2, <1>3 DEF Positions
  <2>2. PICK k \in 1 .. Len(ss[i]) : j = at[i - 1] + k
    BY <2>1
  <2>3. F[j] = ss[i][k]
    BY <1>2, <1>3, <2>2 DEF Positions
  <2> QED BY <2>2, <2>3 DEF Tidy
<1>5. \A i \in 1 .. Len(F) : F[i] = Field(F[i].at, F[i].to) /\ F[i].at \in A
  BY <1>4
<1>6. ASSUME NEW j \in 1 .. Len(F), NEW l \in 1 .. Len(F), F[j].at = F[l].at PROVE j = l
  <2>1. PICK i \in 1 .. n : \E k \in 1 .. Len(ss[i]) :
               j = at[i - 1] + k /\ F[j] = ss[i][k] /\ F[j].at \in B[i]
    BY <1>4
  <2>2. PICK m \in 1 .. n : \E k \in 1 .. Len(ss[m]) :
               l = at[m - 1] + k /\ F[l] = ss[m][k] /\ F[l].at \in B[m]
    BY <1>4
  <2>3. i = m
    BY <1>6, <2>1, <2>2
  <2>4. \A k, q \in 1 .. Len(ss[i]) : ss[i][k].at = ss[i][q].at => k = q
    BY DEF Tidy
  <2> QED BY <1>6, <2>1, <2>2, <2>3, <2>4
<1> QED BY <1>2, <1>5, <1>6 DEF Tidy, F

LEMMA TidyConcat ==
  ASSUME NEW A, NEW B, NEW s, Tidy(s, A), NEW t, Tidy(t, B), A \cap B = {}
  PROVE  Tidy(s \o t, A \cup B)
<1> DEFINE u == s \o t
           m == Len(s)
           n == Len(t)
<1>1. Proper(s) /\ Proper(t)
  BY DEF Tidy
<1>2. /\ Proper(u) /\ Len(u) = m + n /\ m \in Nat /\ n \in Nat
      /\ \A i \in 1 .. m : u[i] = s[i]
      /\ \A i \in 1 .. n : u[m + i] = t[i]
  BY <1>1, ProperConcat, ProperLength
<1>3. /\ \A i \in 1 .. m : s[i] = Field(s[i].at, s[i].to) /\ s[i].at \in A
      /\ \A i, j \in 1 .. m : s[i].at = s[j].at => i = j
      /\ \A i \in 1 .. n : t[i] = Field(t[i].at, t[i].to) /\ t[i].at \in B
      /\ \A i, j \in 1 .. n : t[i].at = t[j].at => i = j
  BY DEF Tidy
<1> HIDE DEF u, m, n
<1>4. ASSUME NEW i \in 1 .. m + n
      PROVE  \/ i \in 1 .. m /\ u[i] = s[i] /\ u[i].at \in A /\ u[i].at \notin B
             \/ i - m \in 1 .. n /\ u[i] = t[i - m] /\ u[i].at \in B /\ u[i].at \notin A
  <2>1. CASE i <= m
    <3>1. i \in 1 .. m
      BY <1>2, <2>1
    <3> QED BY <1>2, <1>3, <3>1
  <2>2. CASE ~ (i <= m)
    <3>1. i - m \in 1 .. n /\ m + (i - m) = i
      BY <1>2, <2>2
    <3>2. u[i] = t[i - m]
      BY <1>2, <3>1
    <3> QED BY <1>3, <3>1, <3>2
  <2> QED BY <2>1, <2>2
<1>5. \A i \in 1 .. m + n : u[i] = Field(u[i].at, u[i].to) /\ u[i].at \in A \cup B
  BY <1>3, <1>4
<1>6. ASSUME NEW i \in 1 .. m + n, NEW j \in 1 .. m + n, u[i].at = u[j].at PROVE i = j
  <2>1. CASE u[i].at \in A
    BY <1>3, <1>4, <1>6, <2>1
  <2>2. CASE u[i].at \notin A
    <3>1. i - m = j - m
      BY <1>3, <1>4, <1>6, <2>2
    <3> QED BY <1>2, <3>1
  <2> QED BY <2>1, <2>2
<1> QED BY <1>2, <1>5, <1>6 DEF Tidy, u

LEMMA TidyTwo ==
  ASSUME NEW a, NEW b, NEW x, NEW y, a # b
  PROVE  /\ Tidy(<<Field(a, x), Field(b, y)>>, {a, b})
         /\ Range(<<Field(a, x), Field(b, y)>>) = {Field(a, x), Field(b, y)}
         /\ Len(<<Field(a, x), Field(b, y)>>) = 2
<1> DEFINE s == <<Field(a, x), Field(b, y)>>
<1>1. s = [i \in 1 .. 2 |-> s[i]] /\ s[1] = Field(a, x) /\ s[2] = Field(b, y)
  OBVIOUS
<1>2. Field(a, x).at = a /\ Field(b, y).at = b /\ Field(a, x).to = x /\ Field(b, y).to = y
  BY DEF Field
<1> HIDE DEF s
<1>3. Proper(s) /\ Len(s) = 2
  BY <1>1, ProperFunction
<1>4. \A i \in 1 .. 2 : i = 1 \/ i = 2
  OBVIOUS
<1>5. Tidy(s, {a, b})
  BY <1>1, <1>2, <1>3, <1>4 DEF Tidy
<1>6. Range(s) = {s[1], s[2]}
  <2>1. Range(s) = {s[i] : i \in 1 .. 2}
    BY <1>3, ProperLength
  <2> QED BY <1>4, <2>1
<1> QED BY <1>1, <1>3, <1>5, <1>6 DEF s

LEMMA TidyThree ==
  ASSUME NEW a, NEW b, NEW c, NEW x, NEW y, NEW z, a # b, a # c, b # c
  PROVE  Tidy(<<Field(a, x), Field(b, y), Field(c, z)>>, {a, b, c})
<1> DEFINE s == <<Field(a, x), Field(b, y), Field(c, z)>>
<1>1. s = [i \in 1 .. 3 |-> s[i]] /\ s[1] = Field(a, x) /\ s[2] = Field(b, y) /\ s[3] = Field(c, z)
  OBVIOUS
<1>2. /\ Field(a, x).at = a /\ Field(b, y).at = b /\ Field(c, z).at = c
      /\ Field(a, x).to = x /\ Field(b, y).to = y /\ Field(c, z).to = z
  BY DEF Field
<1> HIDE DEF s
<1>3. Proper(s) /\ Len(s) = 3
  BY <1>1, ProperFunction
<1>4. \A i \in 1 .. 3 : i = 1 \/ i = 2 \/ i = 3
  OBVIOUS
<1>5. Tidy(s, {a, b, c})
  BY <1>1, <1>2, <1>3, <1>4 DEF Tidy
<1> QED BY <1>5 DEF s

(* A tidy list stays tidy in a larger set of places. *)
LEMMA TidyWider ==
  ASSUME NEW A, NEW B, A \subseteq B, NEW s, Tidy(s, A)
  PROVE  Tidy(s, B)
BY DEF Tidy

-----------------------------------------------------------------------------
(* The pointers of what is packed lie in the room it takes.                *)
LEMMA StartsOrdered ==
  ASSUME NEW s \in Seq(Nat)
  PROVE  \A i, j \in 1 .. Len(s) + 1 : i <= j => Starts(s)[i] <= Starts(s)[j]
<1> DEFINE n == Len(s)
           f == Starts(s)
<1>1. /\ n \in Nat /\ \A i \in 1 .. n + 1 : f[i] \in Nat
      /\ \A i \in 1 .. n : f[i + 1] = f[i] + s[i] /\ s[i] \in Nat
  BY StartsAre, ElementOfSeq
<1> HIDE DEF n, f
<1> DEFINE Good == {m \in 0 .. n : \A i \in 1 .. m + 1 : f[i] <= f[m + 1]}
<1>2. 0 \in Good
  <2>1. 0 \in 0 .. n /\ \A i \in 1 .. 0 + 1 : i = 0 + 1
    BY <1>1
  <2>2. f[0 + 1] \in Nat
    BY <1>1
  <2> QED BY <2>1, <2>2
<1>3. ASSUME NEW m \in 0 .. n - 1, m \in Good PROVE m + 1 \in Good
  <2>1. m \in Nat /\ m + 1 \in 0 .. n /\ m + 1 \in 1 .. n
    BY <1>1
  <2>2. f[(m + 1) + 1] = f[m + 1] + s[m + 1] /\ s[m + 1] \in Nat
    BY <1>1, <2>1
  <2>3. ASSUME NEW i \in 1 .. (m + 1) + 1 PROVE f[i] <= f[(m + 1) + 1]
    <3>1. f[i] \in Nat /\ f[m + 1] \in Nat
      BY <1>1, <2>1
    <3>2. CASE i = (m + 1) + 1
      BY <2>1, <2>2, <3>1, <3>2
    <3>3. CASE i # (m + 1) + 1
      <4>1. i \in 1 .. m + 1
        BY <2>1, <3>3
      <4>2. f[i] <= f[m + 1]
        BY <1>3, <4>1
      <4> QED BY <2>2, <3>1, <4>2
    <3> QED BY <3>2, <3>3
  <2> QED BY <2>1, <2>3
<1> HIDE DEF Good
<1>4. \A m \in 0 .. n : m \in Good
  BY <1>1, <1>2, <1>3, InductionUpTo
<1>5. ASSUME NEW i \in 1 .. n + 1, NEW j \in 1 .. n + 1, i <= j PROVE f[i] <= f[j]
  <2>1. j - 1 \in 0 .. n /\ (j - 1) + 1 = j /\ i \in 1 .. (j - 1) + 1
    BY <1>1, <1>5
  <2> QED BY <1>4, <2>1 DEF Good
<1> QED BY <1>5 DEF n, f

LEMMA BlocksTidy ==
  ASSUME NEW sz \in Seq(Nat), NEW n \in Nat, Len(sz) = n, NEW a \in Nat,
         NEW ss, ss = [i \in 1 .. n |-> ss[i]],
         \A i \in 1 .. n : Tidy(ss[i], a + Starts(sz)[i] .. a + Starts(sz)[i + 1] - 1)
  PROVE  Tidy(FlattenSeq(ss), a .. a + Total(sz) - 1)
<1> DEFINE at == Starts(sz)
<1>1. /\ \A i \in 1 .. n + 1 : at[i] \in Nat
      /\ \A i, j \in 1 .. n + 1 : i <= j => at[i] <= at[j]
      /\ at[1] = 0 /\ at[n + 1] = Total(sz)
  BY StartsAre, StartsOrdered DEF Total
<1>2. \A i \in 1 .. n : Tidy(ss[i], a + at[i] .. a + at[i + 1] - 1)
  OBVIOUS
<1> HIDE DEF at
<1> DEFINE A == a .. a + at[n + 1] - 1
           B == [i \in 1 .. n |-> a + at[i] .. a + at[i + 1] - 1]
<1>3. ASSUME NEW i \in 1 .. n PROVE Tidy(ss[i], B[i]) /\ B[i] \subseteq A
  <2>1. i \in 1 .. n + 1 /\ i + 1 \in 1 .. n + 1 /\ n + 1 \in 1 .. n + 1 /\ i + 1 <= n + 1
    OBVIOUS
  <2>2. at[i] \in Nat /\ at[i + 1] \in Nat /\ at[n + 1] \in Nat /\ at[i + 1] <= at[n + 1]
    BY <1>1, <2>1
  <2>3. B[i] = a + at[i] .. a + at[i + 1] - 1
    OBVIOUS
  <2>4. a + at[i] .. a + at[i + 1] - 1 \subseteq a .. a + at[n + 1] - 1
    <3> SUFFICES ASSUME NEW x \in a + at[i] .. a + at[i + 1] - 1
                 PROVE  x \in a .. a + at[n + 1] - 1
      OBVIOUS
    <3>1. PICK u \in Nat, v \in Nat, w \in Nat : u = at[i] /\ v = at[i + 1] /\ w = at[n + 1]
      BY <2>2
    <3>2. x \in a + u .. a + v - 1 /\ v <= w
      BY <2>2, <3>1
    <3>3. x \in a .. a + w - 1
      BY <3>2
    <3> QED BY <3>1, <3>3
  <2>5. Tidy(ss[i], a + at[i] .. a + at[i + 1] - 1)
    BY <1>2
  <2>6. B[i] \subseteq A
    BY <2>3, <2>4
  <2> HIDE DEF A, B
  <2> QED BY <2>3, <2>5, <2>6
<1>4. ASSUME NEW i \in 1 .. n, NEW j \in 1 .. n, i < j PROVE B[i] \cap B[j] = {}
  <2>1. i + 1 \in 1 .. n + 1 /\ i \in 1 .. n + 1 /\ j \in 1 .. n + 1 /\ j + 1 \in 1 .. n + 1
        /\ i + 1 <= j
    BY <1>4
  <2>2. /\ at[i] \in Nat /\ at[i + 1] \in Nat /\ at[j] \in Nat /\ at[j + 1] \in Nat
        /\ at[i + 1] <= at[j]
    BY <1>1, <2>1
  <2>3. (a + at[i] .. a + at[i + 1] - 1) \cap (a + at[j] .. a + at[j + 1] - 1) = {}
    BY <2>2
  <2> QED BY <2>3
<1> HIDE DEF A, B
<1>5. \A i, j \in 1 .. n : i # j => B[i] \cap B[j] = {}
  <2>1. \A i, j \in 1 .. n : i # j => i < j \/ j < i
    OBVIOUS
  <2> QED BY <1>4, <2>1
<1>6. Tidy(FlattenSeq(ss), A)
  <2>1. ASSUME NEW C, NEW D, \A i \in 1 .. n : Tidy(ss[i], D[i]) /\ D[i] \subseteq C,
               \A i, j \in 1 .. n : i # j => D[i] \cap D[j] = {}
        PROVE  Tidy(FlattenSeq(ss), C)
    <3>1. n \in Nat /\ ss = [i \in 1 .. n |-> ss[i]]
      OBVIOUS
    <3> QED BY ONLY <2>1, <3>1, TidyFlatten
  <2>2. \A i \in 1 .. n : Tidy(ss[i], B[i]) /\ B[i] \subseteq A
    BY <1>3
  <2> QED BY <1>5, <2>1, <2>2
<1>7. at[n + 1] = Total(sz)
  BY <1>1
<1>8. A = a .. a + Total(sz) - 1
  BY <1>7, Zenon DEF A
<1> QED BY <1>6, <1>8

(* The variants of a function come first, their assignments behind them.   *)
AssignsOf(f) == [k \in 1 .. Len(nAssigns[f]) |-> AssignSize * nAssigns[f][k]]

LEMMA DataSizeIs ==
  ASSUME NEW f, nAssigns[f] \in Seq(Nat)
  PROVE  /\ Len(nAssigns[f]) \in Nat /\ \A k \in 1 .. Len(nAssigns[f]) : nAssigns[f][k] \in Nat
         /\ AssignsOf(f) \in Seq(Nat) /\ Len(AssignsOf(f)) = Len(nAssigns[f])
         /\ DataSize(f) = MvfnSize * Len(nAssigns[f]) + Total(AssignsOf(f))
<1> DEFINE vec == nAssigns[f]
           n == Len(vec)
           sz == [k \in DOMAIN vec |-> MvfnSize + AssignSize * vec[k]]
           ass == AssignsOf(f)
<1>1. n \in Nat /\ DOMAIN vec = 1 .. n /\ \A k \in 1 .. n : vec[k] \in Nat
  BY LenProperties, ElementOfSeq
<1>2. /\ sz \in [1 .. n -> Nat] /\ ass \in [1 .. n -> Nat]
      /\ \A k \in 1 .. n : sz[k] = MvfnSize + ass[k]
  <2>1. \A k \in 1 .. n : MvfnSize + AssignSize * vec[k] \in Nat /\ AssignSize * vec[k] \in Nat
    <3>1. \A x \in Nat : MvfnSize + AssignSize * x \in Nat /\ AssignSize * x \in Nat
      BY DEF MvfnSize, AssignSize
    <3> QED BY <1>1, <3>1
  <2>2. /\ sz = [k \in 1 .. n |-> MvfnSize + AssignSize * vec[k]]
        /\ ass = [k \in 1 .. n |-> AssignSize * vec[k]]
    BY <1>1 DEF AssignsOf
  <2> HIDE DEF sz, ass, n, vec
  <2> QED BY <2>1, <2>2
<1>3. DataSize(f) = Total(sz)
  BY DEF DataSize
<1> HIDE DEF sz, ass, n
<1>4. sz \in Seq(Nat) /\ Len(sz) = n /\ ass \in Seq(Nat) /\ Len(ass) = n
  <2>1. sz \in Seq(Nat) /\ DOMAIN sz = 1 .. n /\ ass \in Seq(Nat) /\ DOMAIN ass = 1 .. n
    BY <1>1, <1>2, SeqDef
  <2> QED BY <1>1, <2>1, LenProperties
<1> DEFINE g == Starts(sz)
           h == Starts(ass)
<1>5. /\ g[1] = 0 /\ h[1] = 0 /\ Total(sz) = g[n + 1] /\ Total(ass) = h[n + 1]
      /\ \A i \in 1 .. n + 1 : g[i] \in Nat /\ h[i] \in Nat
      /\ \A i \in 1 .. n : g[i + 1] = g[i] + sz[i] /\ h[i + 1] = h[i] + ass[i]
  BY <1>4, StartsAre DEF Total
<1> HIDE DEF g, h
<1> DEFINE Good == {m \in 0 .. n : g[m + 1] = 4 * m + h[m + 1]}
<1>6. 0 \in Good
  <2>1. 0 \in 0 .. n /\ 0 + 1 = 1 /\ 4 * 0 + 0 = 0
    BY <1>1
  <2> QED BY <1>5, <2>1
<1>7. ASSUME NEW m \in 0 .. n - 1, m \in Good PROVE m + 1 \in Good
  <2>1. m \in Nat /\ m + 1 \in 0 .. n /\ m + 1 \in 1 .. n /\ m + 1 \in 1 .. n + 1
    BY <1>1
  <2>2. g[(m + 1) + 1] = g[m + 1] + sz[m + 1] /\ h[(m + 1) + 1] = h[m + 1] + ass[m + 1]
    BY <1>5, <2>1
  <2>3. g[m + 1] = 4 * m + h[m + 1]
    BY <1>7
  <2>4. sz[m + 1] = 4 + ass[m + 1] /\ ass[m + 1] \in Nat
    BY <1>2, <2>1 DEF MvfnSize
  <2>5. g[m + 1] \in Nat /\ h[m + 1] \in Nat
    BY <1>5, <2>1
  <2>6. g[(m + 1) + 1] = 4 * (m + 1) + h[(m + 1) + 1]
    <3>1. PICK x \in Nat : x = h[m + 1]
      BY <2>5
    <3>2. PICK y \in Nat : y = ass[m + 1]
      BY <2>4
    <3>3. g[(m + 1) + 1] = (4 * m + x) + (4 + y) /\ h[(m + 1) + 1] = x + y
      BY <2>2, <2>3, <2>4, <3>1, <3>2
    <3>4. (4 * m + x) + (4 + y) = 4 * (m + 1) + (x + y)
      BY <2>1
    <3> QED BY <3>3, <3>4
  <2> QED BY <2>1, <2>6
<1> HIDE DEF Good
<1>8. \A m \in 0 .. n : m \in Good
  BY <1>1, <1>6, <1>7, InductionUpTo
<1>9. g[n + 1] = 4 * n + h[n + 1]
  <2>1. n \in Good
    BY <1>1, <1>8
  <2> QED BY <2>1 DEF Good
<1> QED BY <1>1, <1>3, <1>4, <1>5, <1>9 DEF n, ass, MvfnSize

(* Where the k-th variant of a function is, and where its assignments      *)
(* start and end.                                                          *)
VariantsPlaced(f, p, M, Q, E) ==
  \A k \in 1 .. Len(nAssigns[f]) :
    /\ M[k] = p + MvfnSize * (k - 1)
    /\ Q[k] = p + MvfnSize * Len(nAssigns[f]) + Starts(AssignsOf(f))[k]
    /\ E[k] = Q[k] + AssignSize * nAssigns[f][k]
    /\ M[k] \in Nat /\ Q[k] \in Nat /\ E[k] \in Nat
    /\ p <= M[k] /\ p <= Q[k] /\ Q[k] <= E[k] /\ E[k] <= p + DataSize(f)
    /\ \A l \in 1 .. Len(nAssigns[f]) :
         /\ M[k] + 4 <= Q[l]
         /\ k < l => M[k] + 4 <= M[l] /\ E[k] <= Q[l]

LEMMA VariantsArePlaced ==
  ASSUME NEW f, nAssigns[f] \in Seq(Nat), NEW p \in Nat
  PROVE  \E M, Q, E : VariantsPlaced(f, p, M, Q, E)
<1> DEFINE n == Len(nAssigns[f])
           ass == Starts(AssignsOf(f))
           c == nAssigns[f]
           M == [k \in 1 .. n |-> p + 4 * (k - 1)]
           Q == [k \in 1 .. n |-> p + 4 * n + ass[k]]
           E == [k \in 1 .. n |-> p + 4 * n + ass[k + 1]]
<1>1. /\ n \in Nat /\ \A k \in 1 .. n : c[k] \in Nat
      /\ AssignsOf(f) \in Seq(Nat) /\ Len(AssignsOf(f)) = n
      /\ DataSize(f) = 4 * n + Total(AssignsOf(f))
  BY DataSizeIs DEF MvfnSize
<1>2. \A k \in 1 .. n : AssignsOf(f)[k] = 2 * c[k]
  BY DEF AssignsOf, AssignSize
<1>3. /\ \A k \in 1 .. n + 1 : ass[k] \in Nat
      /\ \A i, j \in 1 .. n + 1 : i <= j => ass[i] <= ass[j]
      /\ \A k \in 1 .. n : ass[k + 1] = ass[k] + 2 * c[k]
      /\ Total(AssignsOf(f)) = ass[n + 1]
  <2>1. /\ \A k \in 1 .. n + 1 : ass[k] \in Nat
        /\ \A k \in 1 .. n : ass[k + 1] = ass[k] + AssignsOf(f)[k]
    BY <1>1, StartsAre
  <2>2. \A i, j \in 1 .. n + 1 : i <= j => ass[i] <= ass[j]
    BY <1>1, StartsOrdered
  <2>3. Total(AssignsOf(f)) = ass[n + 1]
    BY <1>1 DEF Total
  <2> HIDE DEF ass, n, c
  <2> QED BY <1>2, <2>1, <2>2, <2>3
<1> DEFINE d == DataSize(f)
<1>4. d = 4 * n + ass[n + 1]
  BY <1>1, <1>3
<1> HIDE DEF n, ass, c, d
<1>5. PICK b \in Nat : b = p + 4 * n
  BY <1>1
<1>6. PICK s : s = [k \in 1 .. n + 1 |-> ass[k]]
  OBVIOUS
<1>7. ASSUME NEW k \in 1 .. n
      PROVE  /\ M[k] = p + 4 * (k - 1) /\ Q[k] = b + ass[k] /\ E[k] = b + ass[k + 1]
             /\ ass[k] \in Nat /\ ass[k + 1] \in Nat /\ c[k] \in Nat
             /\ ass[k + 1] = ass[k] + 2 * c[k]
             /\ b + ass[k + 1] <= p + d
             /\ k \in Nat /\ k + 1 <= n + 1 /\ M[k] + 4 <= b
  <2>1. k \in 1 .. n + 1 /\ k + 1 \in 1 .. n + 1 /\ n + 1 \in 1 .. n + 1 /\ k + 1 <= n + 1
    BY <1>1
  <2>2. /\ ass[k] \in Nat /\ ass[k + 1] \in Nat /\ ass[n + 1] \in Nat /\ ass[k + 1] <= ass[n + 1]
        /\ ass[k + 1] = ass[k] + 2 * c[k] /\ c[k] \in Nat
    BY <1>1, <1>3, <2>1
  <2>3. b + ass[k + 1] <= p + d
    <3>1. p + d = b + ass[n + 1]
      <4>1. PICK u \in Nat : u = ass[n + 1]
        BY <2>2
      <4>2. d = 4 * n + u /\ b = p + 4 * n
        BY <1>4, <1>5, <4>1
      <4>3. p + (4 * n + u) = (p + 4 * n) + u
        BY <1>1
      <4> QED BY <4>1, <4>2, <4>3
    <3> QED BY <1>5, <2>2, <3>1
  <2>4. M[k] = p + 4 * (k - 1) /\ Q[k] = b + ass[k] /\ E[k] = b + ass[k + 1]
    BY <1>5
  <2>5. p + 4 * (k - 1) + 4 <= p + 4 * n
    BY <1>1
  <2> HIDE DEF M, Q, E
  <2> QED BY <1>5, <2>1, <2>2, <2>3, <2>4, <2>5
<1>8. ASSUME NEW k \in 1 .. n, NEW l \in 1 .. n, k < l
      PROVE  M[k] + 4 <= M[l] /\ ass[k + 1] <= ass[l]
  <2>1. k + 1 \in 1 .. n + 1 /\ l \in 1 .. n + 1 /\ k + 1 <= l
    BY <1>1, <1>8
  <2>2. ass[k + 1] <= ass[l]
    BY <1>3, <2>1
  <2>3. (p + 4 * (k - 1)) + 4 <= p + 4 * (l - 1)
    BY <1>8
  <2>4. M[k] = p + 4 * (k - 1) /\ M[l] = p + 4 * (l - 1)
    OBVIOUS
  <2> HIDE DEF M
  <2> QED BY <2>2, <2>3, <2>4
<1>9. ASSUME NEW k \in 1 .. n
      PROVE  M[k] \in Nat /\ p <= M[k]
  <2>1. p + 4 * (k - 1) \in Nat /\ p <= p + 4 * (k - 1)
    OBVIOUS
  <2> HIDE DEF M
  <2> QED BY <1>7, <2>1
<1> HIDE DEF M, Q, E
<1>10. ASSUME NEW k \in 1 .. n
       PROVE  /\ M[k] = p + MvfnSize * (k - 1)
              /\ Q[k] = p + MvfnSize * n + ass[k]
              /\ E[k] = Q[k] + AssignSize * c[k]
              /\ M[k] \in Nat /\ Q[k] \in Nat /\ E[k] \in Nat
              /\ p <= M[k] /\ p <= Q[k] /\ Q[k] <= E[k] /\ E[k] <= p + d
              /\ \A l \in 1 .. n :
                   /\ M[k] + 4 <= Q[l]
                   /\ k < l => M[k] + 4 <= M[l] /\ E[k] <= Q[l]
  <2>1. PICK u \in Nat, v \in Nat : u = ass[k] /\ v = c[k] /\ ass[k + 1] = u + 2 * v
    BY <1>7
  <2>2. Q[k] = b + u /\ E[k] = b + (u + 2 * v) /\ E[k] <= p + d /\ p <= b
    BY <1>1, <1>5, <1>7, <2>1
  <2>3. E[k] = Q[k] + AssignSize * c[k]
    BY <2>1, <2>2 DEF AssignSize
  <2>4. Q[k] = p + MvfnSize * n + ass[k] /\ M[k] = p + MvfnSize * (k - 1)
    BY <1>5, <1>7 DEF MvfnSize
  <2>5. Q[k] \in Nat /\ E[k] \in Nat /\ p <= Q[k] /\ Q[k] <= E[k]
    BY <2>2
  <2>6. ASSUME NEW l \in 1 .. n PROVE M[k] + 4 <= Q[l] /\ (k < l => E[k] <= Q[l])
    <3>1. PICK w \in Nat : w = ass[l]
      BY <1>7
    <3>2. Q[l] = b + w
      BY <1>7, <3>1
    <3>3. M[k] + 4 <= b /\ M[k] \in Nat
      BY <1>7, <1>9
    <3>4. k < l => u + 2 * v <= w
      BY <1>8, <2>1, <3>1
    <3> QED BY <2>2, <3>2, <3>3, <3>4
  <2> QED BY <1>8, <1>9, <2>2, <2>3, <2>4, <2>5, <2>6
<1>11. VariantsPlaced(f, p, M, Q, E)
  BY <1>10 DEF VariantsPlaced, n, ass, c, d
<1> QED BY <1>11

LEMMA VariantsTidy ==
  ASSUME NEW f, nAssigns[f] \in Seq(Nat), NEW p \in Nat
  PROVE  Tidy(DataFields(f, p), p .. p + DataSize(f) - 1)
<1> DEFINE n == Len(nAssigns[f])
           c == nAssigns[f]
           d == DataSize(f)
           ass == Starts(AssignsOf(f))
           ss == [k \in 1 .. n |->
                    <<Field(p + MvfnSize * (k - 1), Thing("mvbody", <<f, k>>)),
                      Field(p + MvfnSize * (k - 1) + 2, At(p + MvfnSize * n + ass[k]))>>
                    \o [i \in 1 .. c[k] |->
                          Field(p + MvfnSize * n + ass[k] + AssignSize * (i - 1),
                                Thing("assign", <<f, k, i>>))]]
<1>1. n \in Nat /\ \A k \in 1 .. n : c[k] \in Nat
  BY DataSizeIs
<1>2. DataFields(f, p) = FlattenSeq(ss)
  BY DEF DataFields, AssignsOf
<1>3. PICK M, Q, E : VariantsPlaced(f, p, M, Q, E)
  BY VariantsArePlaced
<1>4. ASSUME NEW k \in 1 .. n
      PROVE  /\ M[k] = p + MvfnSize * (k - 1) /\ Q[k] = p + MvfnSize * n + ass[k]
             /\ E[k] = Q[k] + 2 * c[k]
             /\ M[k] \in Nat /\ Q[k] \in Nat /\ E[k] \in Nat
             /\ p <= M[k] /\ p <= Q[k] /\ Q[k] <= E[k] /\ E[k] <= p + d
             /\ \A l \in 1 .. n :
                  /\ M[k] + 4 <= Q[l]
                  /\ k < l => M[k] + 4 <= M[l] /\ E[k] <= Q[l]
  BY <1>3 DEF VariantsPlaced, AssignSize
<1>5. d \in Nat
  BY DataSizes
<1> DEFINE B == [k \in 1 .. n |-> {M[k], M[k] + 2} \cup (Q[k] .. E[k] - 1)]
<1> HIDE DEF n, c, d, ass
<1>6. ASSUME NEW k \in 1 .. n PROVE Tidy(ss[k], B[k])
  <2> DEFINE pair == <<Field(M[k], Thing("mvbody", <<f, k>>)), Field(M[k] + 2, At(Q[k]))>>
             list == [i \in 1 .. c[k] |-> Field(Q[k] + 2 * (i - 1), Thing("assign", <<f, k, i>>))]
  <2>1. ss[k] = pair \o list
    BY <1>4, Zenon DEF AssignSize
  <2>2. B[k] = {M[k], M[k] + 2} \cup (Q[k] .. E[k] - 1)
    BY Zenon
  <2>3. Tidy(pair, {M[k], M[k] + 2})
    <3>1. M[k] # M[k] + 2
      BY <1>4
    <3> QED BY <3>1, TidyTwo
  <2>4. Tidy(list, Q[k] .. E[k] - 1)
    <3>1. PICK q \in Nat, e \in Nat, b \in Nat : q = Q[k] /\ e = E[k] /\ b = c[k] /\ e = q + 2 * b
      BY <1>1, <1>4
    <3>2. list = [i \in 1 .. b |-> list[i]] /\ \A i \in 1 .. b : list[i].at = q + 2 * (i - 1)
          /\ list[i] = Field(list[i].at, list[i].to)
      BY <3>1 DEF Field
    <3> HIDE DEF list
    <3>3. Proper(list) /\ Len(list) = b
      BY <3>2, ProperFunction
    <3>4. \A i \in 1 .. b : q + 2 * (i - 1) \in q .. e - 1
      <4>1. q \in Nat /\ b \in Nat /\ e = q + 2 * b
        BY <3>1
      <4>2. \A i \in 1 .. b : /\ q + 2 * (i - 1) \in Int /\ q <= q + 2 * (i - 1)
                              /\ q + 2 * (i - 1) <= q + 2 * b - 1
        BY ONLY <4>1
      <4> QED BY ONLY <4>1, <4>2
    <3>5. \A i, j \in 1 .. b : q + 2 * (i - 1) = q + 2 * (j - 1) => i = j
      <4>1. q \in Nat /\ b \in Nat
        OBVIOUS
      <4> QED BY ONLY <4>1
    <3>6. Tidy(list, q .. e - 1)
      BY ONLY <3>2, <3>3, <3>4, <3>5 DEF Tidy
    <3> QED BY <3>1, <3>6, Zenon
  <2>5. {M[k], M[k] + 2} \cap (Q[k] .. E[k] - 1) = {}
    BY <1>4
  <2> HIDE DEF pair, list, ss, B
  <2>6. Tidy(pair \o list, {M[k], M[k] + 2} \cup (Q[k] .. E[k] - 1))
    BY ONLY <2>3, <2>4, <2>5, TidyConcat
  <2> QED BY <2>1, <2>2, <2>6
<1>7. ASSUME NEW k \in 1 .. n PROVE B[k] \subseteq p .. p + d - 1
  BY <1>4, <1>5
<1>8. ASSUME NEW k \in 1 .. n, NEW l \in 1 .. n, k < l PROVE B[k] \cap B[l] = {}
  <2>1. /\ M[k] \in Nat /\ M[l] \in Nat /\ Q[k] \in Nat /\ Q[l] \in Nat
        /\ E[k] \in Nat /\ E[l] \in Nat
        /\ M[k] + 4 <= M[l] /\ E[k] <= Q[l] /\ M[k] + 4 <= Q[l] /\ M[l] + 4 <= Q[k]
    BY <1>4, <1>8
  <2>2. /\ B[k] = {M[k], M[k] + 2} \cup (Q[k] .. E[k] - 1)
        /\ B[l] = {M[l], M[l] + 2} \cup (Q[l] .. E[l] - 1)
    BY Zenon
  <2> HIDE DEF B
  <2>3. ASSUME NEW x \in B[k], x \in B[l] PROVE FALSE
    <3>1. x \in {M[k], M[k] + 2} \/ x \in Q[k] .. E[k] - 1
      BY <2>2
    <3>2. x \in {M[l], M[l] + 2} \/ x \in Q[l] .. E[l] - 1
      BY <2>2, <2>3
    <3>3. CASE x \in {M[k], M[k] + 2} /\ x \in {M[l], M[l] + 2}
      BY ONLY <2>1, <3>3
    <3>4. CASE x \in {M[k], M[k] + 2} /\ x \in Q[l] .. E[l] - 1
      BY ONLY <2>1, <3>4
    <3>5. CASE x \in Q[k] .. E[k] - 1 /\ x \in {M[l], M[l] + 2}
      BY ONLY <2>1, <3>5
    <3>6. CASE x \in Q[k] .. E[k] - 1 /\ x \in Q[l] .. E[l] - 1
      BY ONLY <2>1, <3>6
    <3> QED BY <3>1, <3>2, <3>3, <3>4, <3>5, <3>6
  <2> QED BY <2>3
<1> HIDE DEF ss, B
<1>9. \A i, j \in 1 .. n : i # j => B[i] \cap B[j] = {}
  <2>1. \A i, j \in 1 .. n : i # j => i < j \/ j < i
    BY <1>1
  <2> QED BY <1>8, <2>1
<1>10. ss = [k \in 1 .. n |-> ss[k]]
  BY DEF ss
<1>11. \A i \in 1 .. n : Tidy(ss[i], B[i]) /\ B[i] \subseteq p .. p + d - 1
  BY <1>6, <1>7
<1>12. Tidy(FlattenSeq(ss), p .. p + d - 1)
  BY ONLY <1>1, <1>9, <1>10, <1>11, TidyFlatten
<1> QED BY <1>2, <1>12 DEF d

(* A packed vector: the blocks of a vector, where Starts puts them.        *)
LEMMA PackTidy ==
  ASSUME NEW S, NEW vec \in Seq(S), NEW sz \in [DOMAIN vec -> Nat], NEW a \in Nat,
         NEW ss, ss = [i \in DOMAIN vec |-> ss[i]],
         \A i \in DOMAIN vec :
           Tidy(ss[i], a + Starts(sz)[i] .. a + Starts(sz)[i] + sz[i] - 1)
  PROVE  Tidy(FlattenSeq(ss), a .. a + Total(sz) - 1)
<1> DEFINE n == Len(vec)
           at == Starts(sz)
<1>1. sz \in Seq(Nat) /\ Len(sz) = n /\ n \in Nat /\ DOMAIN vec = 1 .. n
  BY OverVector
<1>2. \A i \in 1 .. n : at[i + 1] = at[i] + sz[i] /\ at[i] \in Nat /\ sz[i] \in Nat
  <2>1. \A i \in 1 .. n : at[i + 1] = at[i] + sz[i]
    BY <1>1, StartsAre
  <2>2. \A i \in 1 .. n + 1 : at[i] \in Nat
    BY <1>1, StartsAre
  <2>3. \A i \in 1 .. n : sz[i] \in Nat
    BY <1>1
  <2>4. \A i \in 1 .. n : i \in 1 .. n + 1
    BY <1>1
  <2> HIDE DEF at, n
  <2> QED BY <2>1, <2>2, <2>3, <2>4
<1>3. ss = [i \in 1 .. n |-> ss[i]]
  BY <1>1
<1>4. \A i \in 1 .. n : Tidy(ss[i], a + at[i] .. a + at[i] + sz[i] - 1)
  BY <1>1
<1> HIDE DEF n, at
<1>5. ASSUME NEW i \in 1 .. n PROVE Tidy(ss[i], a + at[i] .. a + at[i + 1] - 1)
  <2>1. a + at[i] + sz[i] - 1 = a + at[i + 1] - 1
    <3>1. PICK u \in Nat, v \in Nat : u = at[i] /\ v = sz[i] /\ at[i + 1] = u + v
      BY <1>2
    <3>2. a + u + v - 1 = a + (u + v) - 1
      OBVIOUS
    <3> QED BY <3>1, <3>2
  <2>2. Tidy(ss[i], a + at[i] .. a + at[i] + sz[i] - 1)
    BY <1>4
  <2> QED BY <2>1, <2>2
<1>6. \A i \in 1 .. n : Tidy(ss[i], a + Starts(sz)[i] .. a + Starts(sz)[i + 1] - 1)
  BY <1>5 DEF at
<1>7. a \in Nat
  OBVIOUS
<1> QED BY ONLY <1>1, <1>3, <1>6, <1>7, BlocksTidy

(* The blocks of one section.                                              *)
LEMMA BlockTidy ==
  /\ \A p \in Nat : \A v : Tidy(VarFields(v, p), p .. p + VarSize - 1)
  /\ \A p \in Nat : \A c : Tidy(SiteFields(c, p), p .. p + SiteSize - 1)
  /\ \A p \in Nat : \A f : Tidy(FnFieldsNow(f, p), p .. p + FnSize - 1)
<1>1. ASSUME NEW p \in Nat, NEW v PROVE Tidy(VarFields(v, p), p .. p + VarSize - 1)
  <2>1. p # p + 1 /\ {p, p + 1} \subseteq p .. p + VarSize - 1
    BY DEF VarSize
  <2>2. Tidy(VarFields(v, p), {p, p + 1})
    BY <2>1, TidyTwo DEF VarFields
  <2> QED BY ONLY <2>1, <2>2, TidyWider
<1>2. ASSUME NEW p \in Nat, NEW c PROVE Tidy(SiteFields(c, p), p .. p + SiteSize - 1)
  <2>1. p # p + 1 /\ {p, p + 1} \subseteq p .. p + SiteSize - 1
    BY DEF SiteSize
  <2>2. Tidy(SiteFields(c, p), {p, p + 1})
    BY <2>1, TidyTwo DEF SiteFields
  <2> QED BY ONLY <2>1, <2>2, TidyWider
<1>3. ASSUME NEW p \in Nat, NEW f PROVE Tidy(FnFieldsNow(f, p), p .. p + FnSize - 1)
  <2>1. p # p + 1 /\ p # p + 3 /\ p + 1 # p + 3 /\ {p, p + 1, p + 3} \subseteq p .. p + FnSize - 1
    BY DEF FnSize
  <2>2. Tidy(FnFieldsNow(f, p), {p, p + 1, p + 3})
    BY <2>1, TidyThree DEF FnFieldsNow, FnFields
  <2> QED BY ONLY <2>1, <2>2, TidyWider
<1> QED BY <1>1, <1>2, <1>3

LEMMA FieldsTidy ==
  ASSUME exe \in Exes, NEW p \in Part, ~Absent(p), NEW a \in Nat
  PROVE  Tidy(FieldsOut(p, a), a .. a + KeptSize(p) - 1)
<1>1. /\ Vars \in Seq(Range(Vars)) /\ Fns \in Seq(Range(Fns)) /\ Sites \in Seq(Range(Sites))
      /\ \A f \in Range(Fns) : nAssigns[f] \in Seq(Nat)
  BY Exe
<1>2. ASSUME NEW S, NEW vec \in Seq(S), NEW sz \in [DOMAIN vec -> Nat]
      PROVE  \A i \in DOMAIN vec : Starts(sz)[i] \in Nat /\ a + Starts(sz)[i] \in Nat
  <2>1. /\ sz \in Seq(Nat) /\ Len(sz) = Len(vec) /\ Len(vec) \in Nat
        /\ DOMAIN vec = 1 .. Len(vec)
    BY OverVector
  <2>2. \A i \in 1 .. Len(vec) + 1 : Starts(sz)[i] \in Nat
    BY <2>1, StartsAre
  <2> QED BY <2>1, <2>2
<1>3. \A A : Tidy(<<>>, A)
  BY TidyEmpty
<1>4. CASE p = "mvdata"
  <2> DEFINE sz == Sizes(Fns, KeepFn, DataSize)
             at == Starts(sz)
             ss == [i \in DOMAIN Fns |-> IF KeepFn(Fns[i]) THEN DataFields(Fns[i], a + at[i]) ELSE <<>>]
  <2>1. FieldsOut("mvdata", a) = FlattenSeq(ss)
    BY DEF FieldsOut, Pack
  <2>2. sz = [i \in DOMAIN Fns |-> IF KeepFn(Fns[i]) THEN DataSize(Fns[i]) ELSE 0]
    BY DEF Sizes
  <2>3. \A i \in DOMAIN Fns : DataSize(Fns[i]) \in Nat /\ nAssigns[Fns[i]] \in Seq(Nat)
    BY <1>1, DataSizes DEF Range
  <2>4. KeptSize("mvdata") = Total(sz)
    BY <1>4 DEF KeptSize
  <2> HIDE DEF sz
  <2>5. sz \in [DOMAIN Fns -> Nat]
    BY <2>2, <2>3
  <2>6. \A i \in DOMAIN Fns : at[i] \in Nat /\ a + at[i] \in Nat
    BY <1>1, <1>2, <2>5
  <2> HIDE DEF at
  <2>7. ASSUME NEW i \in DOMAIN Fns
        PROVE  Tidy(ss[i], a + at[i] .. a + at[i] + sz[i] - 1)
    <3>1. CASE KeepFn(Fns[i])
      <4>1. ss[i] = DataFields(Fns[i], a + at[i]) /\ sz[i] = DataSize(Fns[i])
        BY <2>2, <3>1
      <4>2. Tidy(DataFields(Fns[i], a + at[i]), a + at[i] .. a + at[i] + DataSize(Fns[i]) - 1)
        BY <2>3, <2>6, VariantsTidy
      <4> QED BY <4>1, <4>2
    <3>2. CASE ~KeepFn(Fns[i])
      <4>1. ss[i] = <<>>
        BY <3>2
      <4> QED BY <1>3, <4>1
    <3> QED BY <3>1, <3>2
  <2>8. ss = [i \in DOMAIN Fns |-> ss[i]]
    OBVIOUS
  <2> HIDE DEF ss
  <2>9. Tidy(FlattenSeq(ss), a .. a + Total(sz) - 1)
    <3>1. Fns \in Seq(Range(Fns)) /\ a \in Nat
      BY <1>1
    <3>2. \A i \in DOMAIN Fns : Tidy(ss[i], a + Starts(sz)[i] .. a + Starts(sz)[i] + sz[i] - 1)
      BY <2>7 DEF at
    <3> QED BY ONLY <2>5, <2>8, <3>1, <3>2, PackTidy
  <2> QED BY <1>4, <2>1, <2>4, <2>9
<1>5. CASE p = "mvfn"
  <2> DEFINE sz == Sizes(Fns, KeepFn, FnBlock)
             at == Starts(sz)
             ss == [i \in DOMAIN Fns |-> IF KeepFn(Fns[i]) THEN FnFieldsNow(Fns[i], a + at[i]) ELSE <<>>]
  <2>1. FieldsOut("mvfn", a) = FlattenSeq(ss)
    BY DEF FieldsOut, Pack
  <2>2. sz = [i \in DOMAIN Fns |-> IF KeepFn(Fns[i]) THEN FnSize ELSE 0]
    BY DEF Sizes, FnBlock
  <2>3. FnSize \in Nat
    BY DEF FnSize
  <2>4. KeptSize("mvfn") = Total(sz)
    BY <1>5 DEF KeptSize
  <2> HIDE DEF sz
  <2>5. sz \in [DOMAIN Fns -> Nat]
    BY <2>2, <2>3
  <2>6. \A i \in DOMAIN Fns : at[i] \in Nat /\ a + at[i] \in Nat
    BY <1>1, <1>2, <2>5
  <2> HIDE DEF at
  <2>7. ASSUME NEW i \in DOMAIN Fns
        PROVE  Tidy(ss[i], a + at[i] .. a + at[i] + sz[i] - 1)
    <3>1. CASE KeepFn(Fns[i])
      <4>1. ss[i] = FnFieldsNow(Fns[i], a + at[i]) /\ sz[i] = FnSize
        BY <2>2, <3>1
      <4>2. Tidy(FnFieldsNow(Fns[i], a + at[i]), a + at[i] .. a + at[i] + FnSize - 1)
        BY <2>6, BlockTidy
      <4> QED BY <4>1, <4>2
    <3>2. CASE ~KeepFn(Fns[i])
      <4>1. ss[i] = <<>>
        BY <3>2
      <4> QED BY <1>3, <4>1
    <3> QED BY <3>1, <3>2
  <2>8. ss = [i \in DOMAIN Fns |-> ss[i]]
    OBVIOUS
  <2> HIDE DEF ss
  <2>9. Tidy(FlattenSeq(ss), a .. a + Total(sz) - 1)
    <3>1. Fns \in Seq(Range(Fns)) /\ a \in Nat
      BY <1>1
    <3>2. \A i \in DOMAIN Fns : Tidy(ss[i], a + Starts(sz)[i] .. a + Starts(sz)[i] + sz[i] - 1)
      BY <2>7 DEF at
    <3> QED BY ONLY <2>5, <2>8, <3>1, <3>2, PackTidy
  <2> QED BY <1>5, <2>1, <2>4, <2>9
<1>6. CASE p = "mvvar"
  <2> DEFINE sz == Sizes(Vars, KeepVar, VarBlock)
             at == Starts(sz)
             ss == [i \in DOMAIN Vars |-> IF KeepVar(Vars[i]) THEN VarFields(Vars[i], a + at[i]) ELSE <<>>]
  <2>1. FieldsOut("mvvar", a) = FlattenSeq(ss)
    BY DEF FieldsOut, Pack
  <2>2. sz = [i \in DOMAIN Vars |-> IF KeepVar(Vars[i]) THEN VarSize ELSE 0]
    BY DEF Sizes, VarBlock
  <2>3. VarSize \in Nat
    BY DEF VarSize
  <2>4. KeptSize("mvvar") = Total(sz)
    BY <1>6 DEF KeptSize
  <2> HIDE DEF sz
  <2>5. sz \in [DOMAIN Vars -> Nat]
    BY <2>2, <2>3
  <2>6. \A i \in DOMAIN Vars : at[i] \in Nat /\ a + at[i] \in Nat
    BY <1>1, <1>2, <2>5
  <2> HIDE DEF at
  <2>7. ASSUME NEW i \in DOMAIN Vars
        PROVE  Tidy(ss[i], a + at[i] .. a + at[i] + sz[i] - 1)
    <3>1. CASE KeepVar(Vars[i])
      <4>1. ss[i] = VarFields(Vars[i], a + at[i]) /\ sz[i] = VarSize
        BY <2>2, <3>1
      <4>2. Tidy(VarFields(Vars[i], a + at[i]), a + at[i] .. a + at[i] + VarSize - 1)
        BY <2>6, BlockTidy
      <4> QED BY <4>1, <4>2
    <3>2. CASE ~KeepVar(Vars[i])
      <4>1. ss[i] = <<>>
        BY <3>2
      <4> QED BY <1>3, <4>1
    <3> QED BY <3>1, <3>2
  <2>8. ss = [i \in DOMAIN Vars |-> ss[i]]
    OBVIOUS
  <2> HIDE DEF ss
  <2>9. Tidy(FlattenSeq(ss), a .. a + Total(sz) - 1)
    <3>1. Vars \in Seq(Range(Vars)) /\ a \in Nat
      BY <1>1
    <3>2. \A i \in DOMAIN Vars : Tidy(ss[i], a + Starts(sz)[i] .. a + Starts(sz)[i] + sz[i] - 1)
      BY <2>7 DEF at
    <3> QED BY ONLY <2>5, <2>8, <3>1, <3>2, PackTidy
  <2> QED BY <1>6, <2>1, <2>4, <2>9
<1>7. CASE p = "mvcs"
  <2> DEFINE sz == Sizes(Sites, KeepSite, SiteBlock)
             at == Starts(sz)
             ss == [i \in DOMAIN Sites |-> IF KeepSite(Sites[i]) THEN SiteFields(Sites[i], a + at[i]) ELSE <<>>]
  <2>1. FieldsOut("mvcs", a) = FlattenSeq(ss)
    BY DEF FieldsOut, Pack
  <2>2. sz = [i \in DOMAIN Sites |-> IF KeepSite(Sites[i]) THEN SiteSize ELSE 0]
    BY DEF Sizes, SiteBlock
  <2>3. SiteSize \in Nat
    BY DEF SiteSize
  <2>4. KeptSize("mvcs") = Total(sz)
    BY <1>7 DEF KeptSize
  <2> HIDE DEF sz
  <2>5. sz \in [DOMAIN Sites -> Nat]
    BY <2>2, <2>3
  <2>6. \A i \in DOMAIN Sites : at[i] \in Nat /\ a + at[i] \in Nat
    BY <1>1, <1>2, <2>5
  <2> HIDE DEF at
  <2>7. ASSUME NEW i \in DOMAIN Sites
        PROVE  Tidy(ss[i], a + at[i] .. a + at[i] + sz[i] - 1)
    <3>1. CASE KeepSite(Sites[i])
      <4>1. ss[i] = SiteFields(Sites[i], a + at[i]) /\ sz[i] = SiteSize
        BY <2>2, <3>1
      <4>2. Tidy(SiteFields(Sites[i], a + at[i]), a + at[i] .. a + at[i] + SiteSize - 1)
        BY <2>6, BlockTidy
      <4> QED BY <4>1, <4>2
    <3>2. CASE ~KeepSite(Sites[i])
      <4>1. ss[i] = <<>>
        BY <3>2
      <4> QED BY <1>3, <4>1
    <3> QED BY <3>1, <3>2
  <2>8. ss = [i \in DOMAIN Sites |-> ss[i]]
    OBVIOUS
  <2> HIDE DEF ss
  <2>9. Tidy(FlattenSeq(ss), a .. a + Total(sz) - 1)
    <3>1. Sites \in Seq(Range(Sites)) /\ a \in Nat
      BY <1>1
    <3>2. \A i \in DOMAIN Sites : Tidy(ss[i], a + Starts(sz)[i] .. a + Starts(sz)[i] + sz[i] - 1)
      BY <2>7 DEF at
    <3> QED BY ONLY <2>5, <2>8, <3>1, <3>2, PackTidy
  <2> QED BY <1>7, <2>1, <2>4, <2>9
<1> QED BY <1>4, <1>5, <1>6, <1>7 DEF Part

-----------------------------------------------------------------------------
(* The relocation table.  A list of relative relocations covers pointers P *)
(* at places A if it has one for each of them and no other, and no two for *)
(* the same place.                                                         *)
Covers(r, A, P) ==
  /\ Proper(r)
  /\ \A i \in 1 .. Len(r) : r[i].rel = TRUE /\ r[i].at \in A
  /\ {Field(r[i].at, r[i].to) : i \in 1 .. Len(r)} = P
  /\ \A i, j \in 1 .. Len(r) : r[i].at = r[j].at => i = j

LEMMA RelativeCovers ==
  ASSUME NEW A, NEW s, Tidy(s, A)
  PROVE  Covers(Relative(s), A, Range(s))
<1> DEFINE r == Relative(s)
           n == Len(s)
<1>1. /\ Proper(s) /\ n \in Nat /\ DOMAIN s = 1 .. n /\ Range(s) = {s[i] : i \in 1 .. n}
      /\ \A i \in 1 .. n : s[i] = Field(s[i].at, s[i].to) /\ s[i].at \in A
      /\ \A i, j \in 1 .. n : s[i].at = s[j].at => i = j
  BY ProperLength DEF Tidy
<1>2. r = [i \in 1 .. n |-> [at |-> s[i].at, to |-> s[i].to, rel |-> TRUE]]
  BY <1>1 DEF Relative
<1> HIDE DEF r, n
<1>3. r = [i \in 1 .. n |-> r[i]]
  BY <1>2
<1>4. Proper(r) /\ Len(r) = n
  BY ONLY <1>1, <1>3, ProperFunction
<1>5. \A i \in 1 .. n : r[i].at = s[i].at /\ r[i].to = s[i].to /\ r[i].rel = TRUE
  BY <1>2
<1>6. \A i \in 1 .. n : Field(r[i].at, r[i].to) = s[i]
  BY <1>1, <1>5
<1>7. {Field(r[i].at, r[i].to) : i \in 1 .. n} = Range(s)
  BY <1>1, <1>6
<1> QED BY <1>1, <1>4, <1>5, <1>7 DEF Covers, r

LEMMA CoversConcat ==
  ASSUME NEW A, NEW B, NEW P, NEW Q, NEW r, Covers(r, A, P), NEW t, Covers(t, B, Q),
         A \cap B = {}
  PROVE  Covers(r \o t, A \cup B, P \cup Q)
<1> DEFINE u == r \o t
           m == Len(r)
           n == Len(t)
<1>1. Proper(r) /\ Proper(t)
  BY DEF Covers
<1>2. /\ Proper(u) /\ Len(u) = m + n /\ m \in Nat /\ n \in Nat
      /\ \A i \in 1 .. m : u[i] = r[i]
      /\ \A i \in 1 .. n : u[m + i] = t[i]
  BY <1>1, ProperConcat, ProperLength
<1>3. /\ \A i \in 1 .. m : r[i].rel = TRUE /\ r[i].at \in A
      /\ \A i, j \in 1 .. m : r[i].at = r[j].at => i = j
      /\ \A i \in 1 .. n : t[i].rel = TRUE /\ t[i].at \in B
      /\ \A i, j \in 1 .. n : t[i].at = t[j].at => i = j
      /\ P = {Field(r[i].at, r[i].to) : i \in 1 .. m}
      /\ Q = {Field(t[i].at, t[i].to) : i \in 1 .. n}
  BY DEF Covers
<1> HIDE DEF u, m, n
<1>4. ASSUME NEW i \in 1 .. m + n
      PROVE  \/ i \in 1 .. m /\ u[i] = r[i] /\ u[i].at \in A /\ u[i].at \notin B
             \/ i - m \in 1 .. n /\ u[i] = t[i - m] /\ u[i].at \in B /\ u[i].at \notin A
  <2>1. CASE i <= m
    <3>1. i \in 1 .. m
      BY <1>2, <2>1
    <3> QED BY <1>2, <1>3, <3>1
  <2>2. CASE ~ (i <= m)
    <3>1. i - m \in 1 .. n /\ m + (i - m) = i
      BY <1>2, <2>2
    <3>2. u[i] = t[i - m]
      BY <1>2, <3>1
    <3> QED BY <1>3, <3>1, <3>2
  <2> QED BY <2>1, <2>2
<1>5. \A i \in 1 .. m + n : u[i].rel = TRUE /\ u[i].at \in A \cup B
  BY <1>3, <1>4
<1>6. ASSUME NEW i \in 1 .. m + n, NEW j \in 1 .. m + n, u[i].at = u[j].at PROVE i = j
  <2>1. CASE u[i].at \in A
    BY <1>3, <1>4, <1>6, <2>1
  <2>2. CASE u[i].at \notin A
    <3>1. i - m = j - m
      BY <1>3, <1>4, <1>6, <2>2
    <3> QED BY <1>2, <3>1
  <2> QED BY <2>1, <2>2
<1>7. {Field(u[i].at, u[i].to) : i \in 1 .. m + n} = P \cup Q
  <2>1. ASSUME NEW i \in 1 .. m + n PROVE Field(u[i].at, u[i].to) \in P \cup Q
    BY <1>3, <1>4
  <2>2. ASSUME NEW i \in 1 .. m
        PROVE  i \in 1 .. m + n /\ Field(r[i].at, r[i].to) = Field(u[i].at, u[i].to)
    BY <1>2
  <2>3. ASSUME NEW i \in 1 .. n
        PROVE  m + i \in 1 .. m + n /\ Field(t[i].at, t[i].to) = Field(u[m + i].at, u[m + i].to)
    BY <1>2
  <2>4. P \subseteq {Field(u[i].at, u[i].to) : i \in 1 .. m + n}
    BY <1>3, <2>2
  <2>5. Q \subseteq {Field(u[i].at, u[i].to) : i \in 1 .. m + n}
    BY <1>3, <2>3
  <2> QED BY <2>1, <2>4, <2>5
<1> QED BY <1>2, <1>5, <1>6, <1>7 DEF Covers, u

(* What is in front of the relocations of the rest of the program.         *)
FrontTable ==
  Relative(relocs["data"]) \o Relative(relocs["mvvar"]) \o Relative(relocs["mvdata"])
  \o Relative(relocs["mvfn"]) \o Relative(relocs["mvcs"])

(* Where the pointers of a section, and the boundary pointers, are.        *)
Places(p) == IF Absent(p) THEN {} ELSE out[p].at .. out[p].at + out[p].size - 1
BoundPlaces(p) == {ptrAt[p].start, ptrAt[p].stop}
BoundPointers(p) == {Field(ptrAt[p].start, At(ptrs[p].start)), Field(ptrAt[p].stop, At(ptrs[p].stop))}

LEMMA PartCovered ==
  ASSUME exe \in Exes, NEW p \in Part, PartDone(p), Absent(p) => out[p].fields = {}
  PROVE  Covers(Relative(relocs[p]), Places(p), IF fpic THEN out[p].fields ELSE {})
<1> DEFINE s == relocs[p]
<1>1. Tidy(s, Places(p)) /\ Range(s) = IF fpic THEN out[p].fields ELSE {}
  <2>1. \A A : Tidy(<<>>, A)
    BY TidyEmpty
  <2>2. Range(<<>>) = {}
    BY ProperEmpty
  <2>3. CASE Absent(p)
    BY <2>1, <2>2, <2>3 DEF PartDone
  <2>4. CASE ~Absent(p)
    <3>1. PICK a \in Nat :
            /\ out[p].at = a /\ out[p].size = KeptSize(p)
            /\ out[p].fields = Range(FieldsOut(p, a))
            /\ relocs[p] = IF fpic THEN FieldsOut(p, a) ELSE <<>>
      BY <2>4 DEF PartDone
    <3>2. Tidy(FieldsOut(p, a), a .. a + KeptSize(p) - 1)
      BY <2>4, FieldsTidy
    <3>3. Places(p) = a .. a + KeptSize(p) - 1
      BY <2>4, <3>1 DEF Places
    <3>4. CASE fpic
      BY <3>1, <3>2, <3>3, <3>4
    <3>5. CASE ~fpic
      BY <2>1, <2>2, <3>1, <3>5
    <3> QED BY <3>4, <3>5
  <2> QED BY <2>3, <2>4
<1> HIDE DEF s
<1>2. Covers(Relative(s), Places(p), Range(s))
  BY ONLY <1>1, RelativeCovers
<1> QED BY <1>1, <1>2 DEF s

LEMMA BoundsApart ==
  /\ \A p \in Bounded : /\ ptrAt[p].start # ptrAt[p].stop
                        /\ BoundPlaces(p) \subseteq areaAt - dataSize .. areaAt - 1
  /\ \A p, q \in Bounded : p # q => BoundPlaces(p) \cap BoundPlaces(q) = {}
BY PtrAssumption DEF BoundPlaces

LEMMA DataCovered ==
  ASSUME relocs["data"] = DataRelocs(LayoutStep), LayoutStep \in 4 .. 6
  PROVE  Covers(Relative(relocs["data"]), UNION {BoundPlaces(p) : p \in Bounded},
                IF fpic THEN UNION {BoundPointers(p) : p \in Bounded} ELSE {})
<1> DEFINE e == <<>>
           f == BoundsOf("mvfn")
           v == BoundsOf("mvvar")
           c == BoundsOf("mvcs")
           P(p) == IF fpic THEN BoundPointers(p) ELSE {}
<1>1. relocs["data"] = ((e \o f) \o v) \o c
  <2>1. ~ (LayoutStep <= 1) /\ LayoutStep # 2 /\ LayoutStep # 3
    OBVIOUS
  <2> QED BY <2>1 DEF DataRelocs
<1>2. /\ "mvfn" \in Bounded /\ "mvvar" \in Bounded /\ "mvcs" \in Bounded
      /\ "mvfn" # "mvvar" /\ "mvfn" # "mvcs" /\ "mvvar" # "mvcs"
  BY DEF Bounded
<1>3. ASSUME NEW p \in Bounded
      PROVE  Tidy(BoundsOf(p), BoundPlaces(p)) /\ Range(BoundsOf(p)) = P(p)
  <2>1. CASE fpic
    <3>1. BoundsOf(p) = <<Field(ptrAt[p].start, At(ptrs[p].start)),
                          Field(ptrAt[p].stop, At(ptrs[p].stop))>>
      BY <2>1 DEF BoundsOf, BoundsAt
    <3>2. ptrAt[p].start # ptrAt[p].stop
      BY BoundsApart
    <3>3. /\ Tidy(BoundsOf(p), {ptrAt[p].start, ptrAt[p].stop})
          /\ Range(BoundsOf(p)) = {Field(ptrAt[p].start, At(ptrs[p].start)),
                                  Field(ptrAt[p].stop, At(ptrs[p].stop))}
      BY ONLY <3>1, <3>2, TidyTwo
    <3> QED BY <2>1, <3>3 DEF BoundPlaces, BoundPointers
  <2>2. CASE ~fpic
    <3>1. BoundsOf(p) = <<>>
      BY <2>2 DEF BoundsOf, BoundsAt
    <3> QED BY <2>2, <3>1, TidyEmpty, ProperEmpty
  <2> QED BY <2>1, <2>2
<1> DEFINE A == BoundPlaces("mvfn")
           B == BoundPlaces("mvvar")
           C == BoundPlaces("mvcs")
<1>4. A \cap B = {} /\ A \cap C = {} /\ B \cap C = {}
  BY <1>2, BoundsApart
<1>5. Tidy(e, {}) /\ Range(e) = {}
  BY TidyEmpty, ProperEmpty
<1>6. /\ Tidy(f, A) /\ Range(f) = P("mvfn")
      /\ Tidy(v, B) /\ Range(v) = P("mvvar")
      /\ Tidy(c, C) /\ Range(c) = P("mvcs")
  BY <1>2, <1>3
<1> HIDE DEF e, f, v, c, A, B, C, P
<1>7. ASSUME NEW s, NEW D, Tidy(s, D), NEW t, NEW E, Tidy(t, E), D \cap E = {}
      PROVE  Tidy(s \o t, D \cup E) /\ Range(s \o t) = Range(s) \cup Range(t)
  <2>1. Proper(s) /\ Proper(t)
    BY <1>7 DEF Tidy
  <2>2. Range(s \o t) = Range(s) \cup Range(t)
    BY <2>1, ProperConcat
  <2>3. Tidy(s \o t, D \cup E)
    BY ONLY <1>7, TidyConcat
  <2> QED BY <2>2, <2>3
<1>8. Tidy(e \o f, {} \cup A) /\ Range(e \o f) = Range(e) \cup Range(f)
  <2>1. {} \cap A = {}
    OBVIOUS
  <2> QED BY ONLY <1>5, <1>6, <1>7, <2>1
<1>9. Tidy((e \o f) \o v, ({} \cup A) \cup B) /\ Range((e \o f) \o v) = Range(e \o f) \cup Range(v)
  <2>1. ({} \cup A) \cap B = {}
    BY <1>4
  <2> QED BY ONLY <1>6, <1>7, <1>8, <2>1
<1>10. /\ Tidy(((e \o f) \o v) \o c, (({} \cup A) \cup B) \cup C)
       /\ Range(((e \o f) \o v) \o c) = Range((e \o f) \o v) \cup Range(c)
  <2>1. (({} \cup A) \cup B) \cap C = {}
    BY <1>4
  <2> QED BY ONLY <1>6, <1>7, <1>9, <2>1
<1>11. UNION {BoundPlaces(p) : p \in Bounded} = (({} \cup A) \cup B) \cup C
  BY DEF Bounded, A, B, C
<1>12. Range(relocs["data"]) = IF fpic THEN UNION {BoundPointers(p) : p \in Bounded} ELSE {}
  <2>1. Range(relocs["data"]) = ((({}) \cup P("mvfn")) \cup P("mvvar")) \cup P("mvcs")
    BY <1>1, <1>5, <1>6, <1>8, <1>9, <1>10
  <2>2. UNION {BoundPointers(p) : p \in Bounded}
          = BoundPointers("mvfn") \cup BoundPointers("mvvar") \cup BoundPointers("mvcs")
    BY DEF Bounded
  <2> QED BY <2>1, <2>2 DEF P
<1>13. Tidy(relocs["data"], UNION {BoundPlaces(p) : p \in Bounded})
  BY <1>1, <1>10, <1>11
<1>14. Covers(Relative(relocs["data"]), UNION {BoundPlaces(p) : p \in Bounded}, Range(relocs["data"]))
  BY ONLY <1>13, RelativeCovers
<1> QED BY <1>12, <1>14

LEMMA PlacesApart ==
  ASSUME FillInv, ContentsInv, MemoryCovered, pc \in {"shift", "done"}
  PROVE  /\ \A p \in Part : Places(p) \subseteq {x \in Nat : x >= areaAt}
         /\ \A p, q \in Part : p # q => Places(p) \cap Places(q) = {}
<1>0. exe \in Exes /\ areaAt \in Nat
  BY Numbers DEF FillInv, SearchInv
<1>1. LayoutStep \in 5 .. 6
  BY Steps DEF StepsAre
<1>2. \A p \in Part : out[p].at \in Nat /\ out[p].size \in Nat
  BY DEF FillInv, OutInv
<1>3. \A p, q \in Part : p # q => \/ out[p].at + out[p].size <= out[q].at
                                 \/ out[q].at + out[q].size <= out[p].at
  BY DEF MemoryCovered
<1>4. ASSUME NEW p \in Part, ~Absent(p) PROVE out[p].at >= areaAt
  <2>1. CASE p = "mvdata"
    <3>1. LayoutStep >= 1
      BY <1>1
    <3>2. out["mvdata"].at = areaAt
      BY <1>4, <2>1, <3>1 DEF ContentsInv, Told
    <3> QED BY <1>0, <2>1, <3>2
  <2>2. CASE p # "mvdata"
    <3>1. PICK i \in 1 .. 4 : PartSeq[i] = p
      BY Slots
    <3>2. i \in 2 .. 4
      <4>1. i # 1
        BY <2>2, <3>1 DEF PartSeq
      <4> QED BY <4>1
    <3>3. i <= LayoutStep
      BY <1>1, <3>2
    <3>4. BoundDone(p)
      BY <3>1, <3>2, <3>3 DEF ContentsInv
    <3>5. ptrs[p].start \in areaAt .. areaAt + AreaSize /\ ptrs[p].start = out[p].at
      BY <1>4, <3>4 DEF BoundDone
    <3> QED BY <1>0, <1>2, <3>5
  <2> QED BY <2>1, <2>2
<1>5. ASSUME NEW p \in Part PROVE Places(p) \subseteq {x \in Nat : x >= areaAt}
  <2>1. CASE Absent(p)
    BY <2>1 DEF Places
  <2>2. CASE ~Absent(p)
    <3>1. out[p].at \in Nat /\ out[p].size \in Nat /\ out[p].at >= areaAt
      BY <1>2, <1>4, <2>2
    <3>2. Places(p) = out[p].at .. out[p].at + out[p].size - 1
      BY <2>2 DEF Places
    <3> QED BY <1>0, <3>1, <3>2
  <2> QED BY <2>1, <2>2
<1>6. ASSUME NEW p \in Part, NEW q \in Part, p # q, NEW x \in Places(p), x \in Places(q)
      PROVE  FALSE
  <2>1. /\ x \in out[p].at .. out[p].at + out[p].size - 1
        /\ x \in out[q].at .. out[q].at + out[q].size - 1
    BY <1>6 DEF Places
  <2>2. /\ out[p].at \in Nat /\ out[p].size \in Nat /\ out[q].at \in Nat /\ out[q].size \in Nat
        /\ \/ out[p].at + out[p].size <= out[q].at
           \/ out[q].at + out[q].size <= out[p].at
    BY <1>2, <1>3, <1>6
  <2> QED BY <2>1, <2>2
<1> QED BY <1>5, <1>6

LEMMA FrontCovered ==
  ASSUME FillInv, ContentsInv, MemoryCovered, pc \in {"shift", "done"}
  PROVE  \E A \in SUBSET Nat : Covers(FrontTable, A, IF fpic THEN Pointers ELSE {})
<1>0. exe \in Exes /\ areaAt \in Nat /\ dataSize \in Nat /\ dataSize <= areaAt
  BY Numbers DEF FillInv, SearchInv
<1>1. LayoutStep \in 5 .. 6
  BY Steps DEF StepsAre
<1> DEFINE D == UNION {BoundPlaces(p) : p \in Bounded}
           P(p) == IF fpic THEN out[p].fields ELSE {}
           Q == IF fpic THEN UNION {BoundPointers(p) : p \in Bounded} ELSE {}
<1>2. Covers(Relative(relocs["data"]), D, Q)
  <2>1. relocs["data"] = DataRelocs(LayoutStep)
    BY DEF ContentsInv
  <2> QED BY <1>1, <2>1, DataCovered
<1>3. ASSUME NEW p \in Part PROVE Covers(Relative(relocs[p]), Places(p), P(p))
  <2>1. PICK i \in 1 .. 4 : PartSeq[i] = p
    BY Slots
  <2>2. i <= LayoutStep
    BY <1>1
  <2>3. PartDone(p) /\ (Absent(p) => out[p].fields = {})
    BY <2>1, <2>2 DEF ContentsInv
  <2> QED BY <1>0, <2>3, PartCovered
<1>4. D \subseteq {x \in Nat : x < areaAt}
  <2>1. \A p \in Bounded : BoundPlaces(p) \subseteq areaAt - dataSize .. areaAt - 1
    BY BoundsApart
  <2>2. areaAt - dataSize .. areaAt - 1 \subseteq {x \in Nat : x < areaAt}
    BY <1>0
  <2> QED BY <2>1, <2>2
<1>5. /\ \A p \in Part : Places(p) \subseteq {x \in Nat : x >= areaAt}
      /\ \A p, q \in Part : p # q => Places(p) \cap Places(q) = {}
  BY PlacesApart
<1>6. "mvdata" \in Part /\ "mvfn" \in Part /\ "mvvar" \in Part /\ "mvcs" \in Part
  BY DEF Part
<1> DEFINE V == Places("mvvar")
           M == Places("mvdata")
           F == Places("mvfn")
           C == Places("mvcs")
<1>7. /\ D \cap V = {} /\ D \cap M = {} /\ D \cap F = {} /\ D \cap C = {}
  <2>1. \A p \in Part : D \cap Places(p) = {}
    <3> SUFFICES ASSUME NEW p \in Part, NEW x \in D, x \in Places(p) PROVE FALSE
      OBVIOUS
    <3>1. x \in Nat /\ x < areaAt /\ x >= areaAt
      BY <1>4, <1>5
    <3> QED BY <1>0, <3>1
  <2> HIDE DEF D
  <2> QED BY <1>6, <2>1
<1>8. V \cap M = {} /\ V \cap F = {} /\ V \cap C = {} /\ M \cap F = {} /\ M \cap C = {} /\ F \cap C = {}
  BY <1>5, <1>6
<1>9. /\ D \subseteq Nat /\ V \subseteq Nat /\ M \subseteq Nat /\ F \subseteq Nat /\ C \subseteq Nat
  BY <1>4, <1>5, <1>6
<1>10. /\ Covers(Relative(relocs["mvvar"]), V, P("mvvar"))
       /\ Covers(Relative(relocs["mvdata"]), M, P("mvdata"))
       /\ Covers(Relative(relocs["mvfn"]), F, P("mvfn"))
       /\ Covers(Relative(relocs["mvcs"]), C, P("mvcs"))
  BY <1>3, <1>6
<1> DEFINE rd == Relative(relocs["data"])
           rv == Relative(relocs["mvvar"])
           rm == Relative(relocs["mvdata"])
           rf == Relative(relocs["mvfn"])
           rc == Relative(relocs["mvcs"])
<1>11. FrontTable = (((rd \o rv) \o rm) \o rf) \o rc
  BY DEF FrontTable
<1>12. (IF fpic THEN Pointers ELSE {})
          = (((Q \cup P("mvvar")) \cup P("mvdata")) \cup P("mvfn")) \cup P("mvcs")
  <2>1. UNION {out[p].fields : p \in Part}
          = out["mvdata"].fields \cup out["mvfn"].fields \cup out["mvvar"].fields \cup out["mvcs"].fields
    BY DEF Part
  <2>2. UNION {BoundPointers(p) : p \in Bounded}
          = {Field(ptrAt[p].start, At(ptrs[p].start)) : p \in Bounded}
            \cup {Field(ptrAt[p].stop, At(ptrs[p].stop)) : p \in Bounded}
    BY DEF BoundPointers
  <2> DEFINE X == UNION {out[p].fields : p \in Part}
             Y == {Field(ptrAt[p].start, At(ptrs[p].start)) : p \in Bounded}
             Z == {Field(ptrAt[p].stop, At(ptrs[p].stop)) : p \in Bounded}
             W == UNION {BoundPointers(p) : p \in Bounded}
             v == out["mvvar"].fields
             m == out["mvdata"].fields
             f == out["mvfn"].fields
             c == out["mvcs"].fields
  <2>3. Pointers = X \cup Y \cup Z
    BY DEF Pointers
  <2>4. CASE fpic
    <3>1. Q = W /\ P("mvvar") = v /\ P("mvdata") = m /\ P("mvfn") = f /\ P("mvcs") = c
      BY <2>4, Zenon
    <3>2. (IF fpic THEN Pointers ELSE {}) = Pointers
      BY <2>4, Zenon
    <3>3. X = m \cup f \cup v \cup c /\ W = Y \cup Z
      BY <2>1, <2>2
    <3> HIDE DEF P, Q, X, Y, Z, W, v, m, f, c
    <3>4. X \cup Y \cup Z = (((W \cup v) \cup m) \cup f) \cup c
      BY <3>3
    <3>5. Pointers = (((W \cup v) \cup m) \cup f) \cup c
      BY <2>3, <3>4, Zenon
    <3>6. (((Q \cup P("mvvar")) \cup P("mvdata")) \cup P("mvfn")) \cup P("mvcs")
            = (((W \cup v) \cup m) \cup f) \cup c
      BY <3>1, Zenon
    <3> QED BY <3>2, <3>5, <3>6, Zenon
  <2>5. CASE ~fpic
    <3>1. Q = {} /\ P("mvvar") = {} /\ P("mvdata") = {} /\ P("mvfn") = {} /\ P("mvcs") = {}
      BY <2>5
    <3> HIDE DEF P, Q
    <3> QED BY <2>5, <3>1
  <2> QED BY <2>4, <2>5
<1>13. Covers(rd, D, Q) /\ Covers(rv, V, P("mvvar")) /\ Covers(rm, M, P("mvdata"))
       /\ Covers(rf, F, P("mvfn")) /\ Covers(rc, C, P("mvcs"))
  BY <1>2, <1>10
<1> HIDE DEF D, P, Q, V, M, F, C, rd, rv, rm, rf, rc
<1>14. Covers(rd \o rv, D \cup V, Q \cup P("mvvar"))
  BY ONLY <1>7, <1>13, CoversConcat
<1>15. Covers((rd \o rv) \o rm, (D \cup V) \cup M, (Q \cup P("mvvar")) \cup P("mvdata"))
  <2>1. (D \cup V) \cap M = {}
    BY <1>7, <1>8
  <2> QED BY ONLY <1>13, <1>14, <2>1, CoversConcat
<1>16. Covers(((rd \o rv) \o rm) \o rf, ((D \cup V) \cup M) \cup F,
              ((Q \cup P("mvvar")) \cup P("mvdata")) \cup P("mvfn"))
  <2>1. ((D \cup V) \cup M) \cap F = {}
    BY <1>7, <1>8
  <2> QED BY ONLY <1>13, <1>15, <2>1, CoversConcat
<1>17. Covers((((rd \o rv) \o rm) \o rf) \o rc, (((D \cup V) \cup M) \cup F) \cup C,
              (((Q \cup P("mvvar")) \cup P("mvdata")) \cup P("mvfn")) \cup P("mvcs"))
  <2>1. (((D \cup V) \cup M) \cup F) \cap C = {}
    BY <1>7, <1>8
  <2> QED BY ONLY <1>13, <1>16, <2>1, CoversConcat
<1>18. (((D \cup V) \cup M) \cup F) \cup C \in SUBSET Nat
  BY <1>9
<1> QED BY <1>11, <1>12, <1>17, <1>18

(* What is at which place of a concatenation.                              *)
JoinedAs(s, t, u) ==
  /\ Proper(u) /\ Len(u) = Len(s) + Len(t)
  /\ \A i \in 1 .. Len(s) : u[i] = s[i]
  /\ \A i \in 1 .. Len(t) : u[Len(s) + i] = t[i]

LEMMA Joined == \A s, t : Proper(s) /\ Proper(t) => JoinedAs(s, t, s \o t)
BY ProperConcat DEF JoinedAs

(* The relocations no section claims stay those the constructor left, in   *)
(* their order.                                                            *)
RestInv == relaOther \in Unclaimed

LEMMA RestStays == Spec => []RestInv
<1>1. Init => RestInv
  BY DEF Init, RestInv
<1>2. RestInv /\ [Next]_vars => RestInv'
  BY InputStays DEF RestInv, Unclaimed
<1> QED BY <1>1, <1>2, PTL DEF Spec

LEMMA RestIs ==
  ASSUME RestInv, others \in Seq(BOOLEAN)
  PROVE  LET n == Len(relaOther)
         IN /\ n \in Nat /\ DOMAIN relaOther = 1 .. n
            /\ \A i \in 1 .. n : relaOther[i] \in DOMAIN others
            /\ \A i \in 1 .. n : relaOther[i] \in Nat /\ relaOther[i] >= 1
            /\ \A i, j \in 1 .. n : i < j => relaOther[i] < relaOther[j]
<1>1. Len(others) \in Nat /\ DOMAIN others = 1 .. Len(others)
  BY LenProperties
<1>2. PICK n \in 0 .. Len(others) : relaOther \in [1 .. n -> DOMAIN others]
  BY DEF RestInv, Unclaimed
<1>3. n \in Nat
  BY <1>1, <1>2
<1>4. relaOther \in Seq(DOMAIN others)
  BY <1>2, <1>3, SeqDef
<1>5. Len(relaOther) \in Nat /\ DOMAIN relaOther = 1 .. Len(relaOther)
  BY <1>4, LenProperties
<1>6. \A i \in DOMAIN relaOther : relaOther[i] \in DOMAIN others
  BY <1>2
<1>7. \A i, j \in DOMAIN relaOther : i < j => relaOther[i] < relaOther[j]
  BY DEF RestInv, Unclaimed
<1> QED BY <1>1, <1>5, <1>6, <1>7

(* The entry of one of them.                                               *)
Entry(x) == [at |-> 0 - x, to |-> Thing("other", x), rel |-> others[x]]

LEMMA TableIs ==
  ASSUME NEW r, Proper(r)
  PROVE  LET t == r \o RelaOther
             k == Len(r)
             n == Len(relaOther)
         IN /\ k \in Nat
            /\ RestInv /\ others \in Seq(BOOLEAN) =>
                 /\ DOMAIN t = 1 .. k + n /\ n \in Nat
                 /\ \A i \in 1 .. k : t[i] = r[i]
                 /\ \A i \in 1 .. n : t[k + i] = Entry(relaOther[i])
<1> DEFINE n == Len(relaOther)
           o == RelaOther
           t == r \o o
           k == Len(r)
<1>1. k \in Nat
  BY ProperLength
<1>2. ASSUME RestInv, others \in Seq(BOOLEAN)
      PROVE  /\ DOMAIN t = 1 .. k + n /\ n \in Nat
             /\ \A i \in 1 .. k : t[i] = r[i]
             /\ \A i \in 1 .. n : t[k + i] = Entry(relaOther[i])
  <2>1. n \in Nat /\ DOMAIN relaOther = 1 .. n
    BY <1>2, RestIs
  <2>2. o = [i \in 1 .. n |-> Entry(relaOther[i])]
    BY <2>1 DEF RelaOther, Entry
  <2> HIDE DEF o, n
  <2>3. o = [i \in 1 .. n |-> o[i]]
    BY <2>2
  <2>4. Proper(o) /\ Len(o) = n
    BY ONLY <2>1, <2>3, ProperFunction
  <2>5. /\ Proper(t) /\ Len(t) = k + n
        /\ \A i \in 1 .. k : t[i] = r[i]
        /\ \A i \in 1 .. n : t[k + i] = o[i]
    <3>1. Proper(r) /\ Proper(o) /\ Len(o) = n
      BY <2>4
    <3> HIDE DEF n
    <3>2. /\ Proper(r \o o) /\ Len(r \o o) = Len(r) + Len(o)
          /\ \A i \in 1 .. Len(r) : (r \o o)[i] = r[i]
          /\ \A i \in 1 .. Len(o) : (r \o o)[Len(r) + i] = o[i]
      BY ONLY <3>1, Joined DEF JoinedAs
    <3>3. /\ Proper(t) /\ Len(t) = k + Len(o)
          /\ \A i \in 1 .. k : t[i] = r[i]
          /\ \A i \in 1 .. Len(o) : t[k + i] = o[i]
      BY ONLY <3>2
    <3> HIDE DEF t, k
    <3> QED BY ONLY <3>1, <3>3
  <2>6. DOMAIN t = 1 .. k + n
    BY <2>5, ProperLength
  <2> HIDE DEF t, k
  <2> QED BY <2>1, <2>2, <2>5, <2>6
<1> QED BY <1>1, <1>2

(* The other relocations are those of the input, in its order: the linker  *)
(* put the relative ones in front.                                         *)
OthersSorted ==
  /\ others \in Seq(BOOLEAN)
  /\ \A i, j \in DOMAIN others : i < j /\ others[j] => others[i]

LEMMA LastRelative ==
  ASSUME RestInv, OthersSorted
  PROVE  \E b \in 0 .. Len(relaOther) :
           \A j \in 1 .. Len(relaOther) : others[relaOther[j]] <=> j <= b
<1> DEFINE n == Len(relaOther)
           R(j) == others[relaOther[j]]
           T == {x \in 0 .. n : x = n \/ R(x + 1) = FALSE}
<1>1. n \in Nat /\ \A j \in 1 .. n : R(j) \in BOOLEAN
  <2>1. \A j \in DOMAIN others : others[j] \in BOOLEAN
    BY LenProperties, ElementOfSeq DEF OthersSorted
  <2> QED BY <2>1, RestIs DEF OthersSorted
<1>2. \A i, j \in 1 .. n : i < j /\ R(j) => R(i)
  BY RestIs DEF OthersSorted
<1> HIDE DEF n, R
<1>3. n \in T /\ T \subseteq Nat
  BY <1>1
<1> HIDE DEF T
<1>4. PICK b \in T : \A x \in T : b <= x
  BY <1>3, LeastNatural
<1>5. b \in 0 .. n /\ (b = n \/ R(b + 1) = FALSE)
  BY <1>4 DEF T
<1>6. ASSUME NEW j \in 1 .. n, j <= b PROVE R(j) = TRUE
  <2>1. j - 1 \in 0 .. n /\ j - 1 # n /\ (j - 1) + 1 = j /\ ~ (b <= j - 1)
    BY <1>1, <1>5, <1>6
  <2>2. j - 1 \notin T
    BY <1>4, <2>1
  <2>3. R(j) # FALSE
    BY <2>1, <2>2 DEF T
  <2> QED BY <1>1, <2>3
<1>7. ASSUME NEW j \in 1 .. n, ~ (j <= b) PROVE R(j) = FALSE
  <2>1. b # n /\ b + 1 \in 1 .. n /\ b + 1 <= j
    BY <1>1, <1>5, <1>7
  <2>2. R(b + 1) = FALSE
    BY <1>5, <2>1
  <2>3. CASE j = b + 1
    BY <2>2, <2>3
  <2>4. CASE j # b + 1
    <3>1. b + 1 < j
      BY <1>5, <2>1, <2>4
    <3>2. R(j) => R(b + 1)
      BY <1>2, <2>1, <3>1
    <3> QED BY <1>1, <2>2, <3>2
  <2> QED BY <2>3, <2>4
<1>8. \A j \in 1 .. n : R(j) <=> j <= b
  <2> SUFFICES ASSUME NEW j \in 1 .. n PROVE R(j) <=> j <= b
    OBVIOUS
  <2>1. CASE j <= b
    BY <1>6, <2>1
  <2>2. CASE ~ (j <= b)
    BY <1>7, <2>2
  <2> QED BY <2>1, <2>2
<1> QED BY <1>5, <1>8 DEF n, R

(* A table is relative up to an entry, from which on it is not.            *)
LEMMA RelativeUpTo ==
  ASSUME RestInv, OthersSorted, NEW A, NEW P, NEW r, Covers(r, A, P), NEW t, t = r \o RelaOther
  PROVE  \E k \in Nat : /\ {i \in DOMAIN t : t[i].rel} = 1 .. k
                        /\ \A i \in DOMAIN t : t[i].rel <=> i <= k
<1> DEFINE m == Len(r)
           n == Len(relaOther)
<1>1. /\ m \in Nat /\ n \in Nat /\ DOMAIN t = 1 .. m + n
      /\ \A i \in 1 .. m : t[i] = r[i]
      /\ \A i \in 1 .. n : t[m + i] = Entry(relaOther[i])
  BY TableIs DEF Covers, OthersSorted
<1>2. \A i \in 1 .. m : t[i].rel = TRUE
  BY <1>1 DEF Covers
<1>3. ASSUME NEW i \in 1 .. n PROVE t[m + i].rel = others[relaOther[i]]
  <2>1. t[m + i] = Entry(relaOther[i])
    BY <1>1
  <2> HIDE DEF m, n
  <2> QED BY <2>1 DEF Entry
<1>4. PICK b \in 0 .. n : \A j \in 1 .. n : others[relaOther[j]] <=> j <= b
  BY LastRelative
<1> HIDE DEF m, n
<1>5. ASSUME NEW i \in 1 .. m + n PROVE t[i].rel <=> i <= m + b
  <2>1. CASE i <= m
    <3>1. i \in 1 .. m /\ i <= m + b
      BY <1>1, <2>1
    <3> QED BY <1>2, <3>1
  <2>2. CASE ~ (i <= m)
    <3>1. i - m \in 1 .. n /\ m + (i - m) = i /\ (i - m <= b <=> i <= m + b)
      BY <1>1, <2>2
    <3>2. t[i].rel = others[relaOther[i - m]]
      BY <1>3, <3>1
    <3> QED BY <1>4, <3>1, <3>2
  <2> QED BY <2>1, <2>2
<1>6. m + b \in Nat /\ m + b <= m + n
  BY <1>1
<1>7. {i \in DOMAIN t : t[i].rel} = 1 .. m + b
  BY <1>1, <1>5, <1>6
<1>8. \A i \in DOMAIN t : t[i].rel <=> i <= m + b
  BY <1>1, <1>5
<1> QED BY <1>6, <1>7, <1>8

(* DT_RELACOUNT counts the relative relocations, and these are the first   *)
(* of the table (Bintail::update_relocs_sym), if the linker sorted those   *)
(* of the input.                                                           *)
THEOREM RelativeAreFirst == ASSUME OthersSorted PROVE Spec => []RelativeFirst
<1> SUFFICES ASSUME OthersSorted PROVE Spec => []RelativeFirst
  OBVIOUS
<1>1. FillInv /\ ContentsInv /\ RestInv /\ MemoryCovered => RelativeFirst
  <2> SUFFICES ASSUME FillInv, ContentsInv, RestInv, MemoryCovered, pc \in {"shift", "done"},
                      NEW i \in DOMAIN rela
               PROVE  rela[i].rel <=> i <= relaCount
    BY DEF RelativeFirst
  <2>1. rela = Table /\ relaCount = Cardinality({j \in DOMAIN Table : Table[j].rel})
    BY DEF ContentsInv, TableInv
  <2>2. Table = FrontTable \o RelaOther
    BY DEF Table, FrontTable
  <2>3. PICK A \in SUBSET Nat : Covers(FrontTable, A, IF fpic THEN Pointers ELSE {})
    BY FrontCovered
  <2>4. PICK k \in Nat : /\ {j \in DOMAIN Table : Table[j].rel} = 1 .. k
                         /\ \A j \in DOMAIN Table : Table[j].rel <=> j <= k
    BY ONLY RestInv, OthersSorted, <2>2, <2>3, RelativeUpTo
  <2>5. Cardinality(1 .. k) = k
    <3>1. Cardinality(1 .. k) = IF 1 > k THEN 0 ELSE k - 1 + 1
      BY FS_Interval
    <3> QED BY <3>1
  <2>6. relaCount = k
    BY <2>1, <2>4, <2>5
  <2> QED BY <2>1, <2>4, <2>6
<1> QED BY <1>1, ContentsKept, Filled, RestStays, MemoryIsCovered, PTL

(* The relocations of the output are those of its own pointers, each once: *)
(* none of a dropped descriptor is left (generate of the sections, and     *)
(* write_ptr).                                                             *)
THEOREM RelocsArePointers == ASSUME others \in Seq(BOOLEAN) PROVE Spec => []RelocsMatchPointers
<1> SUFFICES ASSUME others \in Seq(BOOLEAN) PROVE Spec => []RelocsMatchPointers
  OBVIOUS
<1>1. FillInv /\ ContentsInv /\ RestInv /\ MemoryCovered => RelocsMatchPointers
  <2> DEFINE mine == {i \in DOMAIN rela : rela[i].at >= 0}
             P == IF fpic THEN Pointers ELSE {}
  <2> SUFFICES ASSUME FillInv, ContentsInv, RestInv, MemoryCovered, pc = "done"
               PROVE  /\ {Field(rela[i].at, rela[i].to) : i \in mine} = P
                      /\ \A i, j \in mine : rela[i].at = rela[j].at => i = j
    BY DEF RelocsMatchPointers
  <2>1. rela = FrontTable \o RelaOther
    BY DEF ContentsInv, TableInv, Table, FrontTable
  <2>2. pc \in {"shift", "done"}
    OBVIOUS
  <2>3. PICK A \in SUBSET Nat : Covers(FrontTable, A, P)
    BY <2>2, FrontCovered
  <2> DEFINE m == Len(FrontTable)
             n == Len(relaOther)
             f == FrontTable
  <2>4. /\ m \in Nat /\ n \in Nat /\ DOMAIN rela = 1 .. m + n
        /\ \A i \in 1 .. m : rela[i] = f[i]
        /\ \A i \in 1 .. n : rela[m + i] = Entry(relaOther[i])
    <3>1. Proper(FrontTable) /\ others \in Seq(BOOLEAN)
      BY <2>3 DEF Covers
    <3> QED BY ONLY RestInv, <2>1, <3>1, TableIs
  <2>5. /\ \A i \in 1 .. m : f[i].at \in Nat
        /\ {Field(f[i].at, f[i].to) : i \in 1 .. m} = P
        /\ \A i, j \in 1 .. m : f[i].at = f[j].at => i = j
    BY <2>3 DEF Covers
  <2> HIDE DEF m, n, f, P
  <2>6. mine = 1 .. m
    <3>1. ASSUME NEW i \in 1 .. m PROVE i \in mine
      <4>1. i \in 1 .. m + n /\ rela[i] = f[i] /\ f[i].at \in Nat
        BY <2>4, <2>5
      <4> QED BY <2>4, <4>1
    <3>2. ASSUME NEW i \in mine PROVE i \in 1 .. m
      <4>1. i \in 1 .. m + n /\ rela[i].at >= 0
        BY <2>4
      <4>2. CASE i <= m
        BY <2>4, <4>1, <4>2
      <4>3. CASE ~ (i <= m)
        <5>1. PICK l \in 1 .. n : i = m + l
          <6>1. i - m \in 1 .. n /\ m + (i - m) = i
            BY <2>4, <4>1, <4>3
          <6> QED BY <6>1
        <5>2. rela[m + l] = Entry(relaOther[l])
          BY <2>4
        <5>3. rela[i].at = 0 - relaOther[l]
          BY <5>1, <5>2 DEF Entry
        <5>4. ~ (0 - relaOther[l] >= 0)
          BY RestIs DEF n
        <5> QED BY <4>1, <5>3, <5>4
      <4> QED BY <4>2, <4>3
    <3> QED BY <3>1, <3>2
  <2> HIDE DEF mine
  <2>7. {Field(rela[i].at, rela[i].to) : i \in mine} = P
    <3>1. \A i \in 1 .. m : Field(rela[i].at, rela[i].to) = Field(f[i].at, f[i].to)
      BY <2>4
    <3>2. {Field(rela[i].at, rela[i].to) : i \in 1 .. m} = {Field(f[i].at, f[i].to) : i \in 1 .. m}
      BY <3>1
    <3> QED BY <2>5, <2>6, <3>2
  <2>8. \A i, j \in mine : rela[i].at = rela[j].at => i = j
    BY <2>4, <2>5, <2>6
  <2> QED BY <2>7, <2>8
<1> QED BY <1>1, ContentsKept, Filled, RestStays, MemoryIsCovered, PTL

-----------------------------------------------------------------------------
(* Reading back.  Of a vector whose descriptors take c words each, those   *)
(* with an index in K are kept: what each takes, and the list of them.     *)
(* They are packed in order.                                               *)
Taken(vec, K, c) == [i \in DOMAIN vec |-> IF i \in K THEN c ELSE 0]
Stay(vec, K) == FlattenSeq([i \in DOMAIN vec |-> IF i \in K THEN <<vec[i]>> ELSE <<>>])

PackedInOrder(vec, K, c) ==
  LET sz == Taken(vec, K, c)
      kept == Stay(vec, K)
  IN /\ Len(kept) \in Nat /\ DOMAIN kept = 1 .. Len(kept)
     /\ Total(sz) = c * Len(kept)
     /\ \A j \in 1 .. Len(kept) : \E i \in K : kept[j] = vec[i] /\ Starts(sz)[i] = c * (j - 1)

LEMMA KeptInOrder ==
  ASSUME NEW S, NEW vec \in Seq(S), NEW K, K \subseteq DOMAIN vec, NEW c \in Nat
  PROVE  PackedInOrder(vec, K, c)
<1> DEFINE n == Len(vec)
           sz == Taken(vec, K, c)
           kept == Stay(vec, K)
           ks == [i \in DOMAIN vec |-> IF i \in K THEN <<vec[i]>> ELSE <<>>]
           at == Starts(sz)
<1>1. n \in Nat /\ DOMAIN vec = 1 .. n
  BY LenProperties
<1>2. /\ sz \in [DOMAIN vec -> Nat] /\ kept = FlattenSeq(ks)
      /\ \A i \in 1 .. n : sz[i] = IF i \in K THEN c ELSE 0
  BY <1>1 DEF Taken, Stay
<1>3. sz \in Seq(Nat) /\ Len(sz) = n
  <2>1. sz \in [1 .. n -> Nat]
    BY <1>1, <1>2
  <2>2. sz \in Seq(Nat) /\ DOMAIN sz = 1 .. n
    BY <1>1, <2>1, SeqDef
  <2> HIDE DEF n
  <2> QED BY <1>1, <2>2, LenProperties
<1>4. /\ at[1] = 0 /\ Total(sz) = at[n + 1]
      /\ \A i \in 1 .. n : at[i + 1] = at[i] + sz[i]
      /\ \A i \in 1 .. n + 1 : at[i] \in Nat
  BY <1>3, StartsAre DEF Total
<1>5. \A x : Proper(<<x>>) /\ Len(<<x>>) = 1 /\ <<x>>[1] = x
  <2> SUFFICES ASSUME NEW x PROVE Proper(<<x>>) /\ Len(<<x>>) = 1 /\ <<x>>[1] = x
    OBVIOUS
  <2>1. <<x>> = [i \in 1 .. 1 |-> <<x>>[i]] /\ <<x>>[1] = x
    OBVIOUS
  <2> DEFINE s == <<x>>
  <2>2. s = [i \in 1 .. 1 |-> s[i]] /\ 1 \in Nat
    BY <2>1
  <2> HIDE DEF s
  <2>3. Proper(s) /\ Len(s) = 1
    BY ONLY <2>2, ProperFunction
  <2> QED BY <2>1, <2>3 DEF s
<1>6. ASSUME NEW i \in 1 .. n
      PROVE  /\ Proper(ks[i])
             /\ i \in K => Len(ks[i]) = 1 /\ ks[i][1] = vec[i]
             /\ i \notin K => Len(ks[i]) = 0
  <2>1. CASE i \in K
    <3>1. ks[i] = <<vec[i]>>
      BY <1>1, <2>1
    <3> QED BY <1>5, <2>1, <3>1
  <2>2. CASE i \notin K
    <3>1. ks[i] = <<>>
      BY <1>1, <2>2
    <3> QED BY <2>2, <3>1, ProperEmpty
  <2> QED BY <2>1, <2>2
<1>7. ks = [i \in 1 .. n |-> ks[i]]
  BY <1>1
<1> HIDE DEF ks, n, at, sz, kept
<1>8. Proper(kept) /\ Len(ks) = n /\ \E b : Positions(ks, kept, b)
  <2>1. \A i \in 1 .. n : Proper(ks[i])
    BY <1>6
  <2>2. Proper(FlattenSeq(ks)) /\ Len(ks) = n /\ \E b : Positions(ks, FlattenSeq(ks), b)
    BY ONLY <1>1, <1>7, <2>1, FlattenProper
  <2> QED BY <1>2, <2>2
<1>9. PICK b : Positions(ks, kept, b)
  BY <1>8
<1>10. /\ b \in [0 .. n -> Nat] /\ b[0] = 0 /\ Len(kept) = b[n]
       /\ \A i \in 1 .. n : b[i] = b[i - 1] + Len(ks[i])
       /\ \A i \in 1 .. n : \A k \in 1 .. Len(ks[i]) : kept[b[i - 1] + k] = ks[i][k]
       /\ \A j \in 1 .. Len(kept) : \E i \in 1 .. n : \E k \in 1 .. Len(ks[i]) : j = b[i - 1] + k
  BY <1>8, <1>9 DEF Positions
<1> DEFINE Good == {m \in 0 .. n : at[m + 1] = c * b[m]}
<1>11. 0 \in Good
  <2>1. 0 \in 0 .. n /\ 0 + 1 = 1 /\ c * 0 = 0
    BY <1>1
  <2> QED BY <1>4, <1>10, <2>1
<1>12. ASSUME NEW m \in 0 .. n - 1, m \in Good PROVE m + 1 \in Good
  <2>1. m \in Nat /\ m + 1 \in 0 .. n /\ m + 1 \in 1 .. n /\ (m + 1) - 1 = m /\ m \in 0 .. n
    BY <1>1
  <2>2. at[(m + 1) + 1] = at[m + 1] + sz[m + 1] /\ at[m + 1] = c * b[m]
    BY <1>4, <1>12, <2>1
  <2>3. b[m + 1] = b[m] + Len(ks[m + 1])
    BY <1>10, <2>1
  <2>4. PICK x \in Nat : x = b[m]
    BY <1>10, <2>1
  <2>5. c * x + c = c * (x + 1) /\ c * x + 0 = c * (x + 0)
    OBVIOUS
  <2>6. CASE m + 1 \in K
    <3>1. sz[m + 1] = c /\ b[m + 1] = x + 1
      BY <1>2, <1>6, <2>1, <2>3, <2>4, <2>6
    <3>2. at[(m + 1) + 1] = c * b[m + 1]
      BY <2>2, <2>4, <2>5, <3>1
    <3> QED BY <2>1, <3>2
  <2>7. CASE m + 1 \notin K
    <3>1. sz[m + 1] = 0 /\ b[m + 1] = x + 0
      BY <1>2, <1>6, <2>1, <2>3, <2>4, <2>7
    <3>2. at[(m + 1) + 1] = c * b[m + 1]
      BY <2>2, <2>4, <2>5, <3>1
    <3> QED BY <2>1, <3>2
  <2> QED BY <2>6, <2>7
<1> HIDE DEF Good
<1>13. \A m \in 0 .. n : m \in Good
  BY <1>1, <1>11, <1>12, InductionUpTo
<1>14. \A m \in 0 .. n : at[m + 1] = c * b[m]
  BY <1>13 DEF Good
<1>15. Total(sz) = c * Len(kept)
  <2>1. n \in 0 .. n
    BY <1>1
  <2> QED BY <1>4, <1>10, <1>14, <2>1
<1>16. ASSUME NEW j \in 1 .. Len(kept)
       PROVE  \E i \in K : kept[j] = vec[i] /\ at[i] = c * (j - 1)
  <2>1. PICK i \in 1 .. n : \E k \in 1 .. Len(ks[i]) : j = b[i - 1] + k
    BY <1>10
  <2>2. PICK k \in 1 .. Len(ks[i]) : j = b[i - 1] + k
    BY <2>1
  <2>3. i \in K
    BY <1>6, <2>2
  <2>4. k = 1 /\ ks[i][1] = vec[i]
    <3>1. Len(ks[i]) = 1 /\ ks[i][1] = vec[i]
      BY <1>6, <2>3
    <3>2. k \in 1 .. 1
      BY <3>1
    <3> QED BY <3>1, <3>2
  <2>5. kept[j] = vec[i]
    BY <1>10, <2>2, <2>4
  <2>6. i - 1 \in 0 .. n /\ (i - 1) + 1 = i
    BY <1>1
  <2>7. b[i - 1] = j - 1
    <3>1. b[i - 1] \in Nat
      BY <1>10, <2>6
    <3> QED BY <2>2, <2>4, <3>1
  <2>8. at[i] = c * (j - 1)
    BY <1>14, <2>6, <2>7
  <2> QED BY <2>3, <2>5, <2>8
<1>17. Len(kept) \in Nat /\ DOMAIN kept = 1 .. Len(kept)
  BY <1>8, ProperLength
<1> QED BY <1>15, <1>16, <1>17 DEF at, sz, kept, PackedInOrder

(* A section with start and stop pointers lists what was kept.             *)
LEMMA ListsFrom ==
  ASSUME NEW p, NEW S, NEW vec \in Seq(S), NEW K, K \subseteq DOMAIN vec,
         NEW c \in Nat, NEW skip \in Nat, NEW kind,
         ptrs[p].start \in Nat, ptrs[p].stop = ptrs[p].start + Total(Taken(vec, K, c)),
         \A i \in K : Holds(p, ptrs[p].start + Starts(Taken(vec, K, c))[i] + skip, Thing(kind, vec[i]))
  PROVE  Lists(p, c, skip, kind, Stay(vec, K))
<1> DEFINE sz == Taken(vec, K, c)
           kept == Stay(vec, K)
<1>1. /\ Len(kept) \in Nat /\ DOMAIN kept = 1 .. Len(kept)
      /\ Total(sz) = c * Len(kept)
      /\ \A j \in 1 .. Len(kept) : \E i \in K : kept[j] = vec[i] /\ Starts(sz)[i] = c * (j - 1)
  <2>1. PackedInOrder(vec, K, c)
    BY KeptInOrder
  <2> QED BY <2>1 DEF PackedInOrder
<1>0. /\ ptrs[p].start \in Nat /\ ptrs[p].stop = ptrs[p].start + Total(sz)
      /\ \A i \in K : Holds(p, ptrs[p].start + Starts(sz)[i] + skip, Thing(kind, vec[i]))
  OBVIOUS
<1> HIDE DEF sz, kept
<1>2. ptrs[p].stop - ptrs[p].start = c * Len(kept)
  <2>1. PICK x \in Nat : x = c * Len(kept)
    <3>1. PICK l \in Nat : l = Len(kept)
      BY <1>1
    <3>2. c * l \in Nat
      OBVIOUS
    <3> QED BY <3>1, <3>2
  <2>2. ptrs[p].stop = ptrs[p].start + x
    BY <1>0, <1>1, <2>1
  <2>3. (ptrs[p].start + x) - ptrs[p].start = x
    BY <1>0
  <2> QED BY <2>1, <2>2, <2>3
<1>3. ASSUME NEW j \in DOMAIN kept
      PROVE  Holds(p, ptrs[p].start + c * (j - 1) + skip, Thing(kind, kept[j]))
  <2>1. PICK i \in K : kept[j] = vec[i] /\ Starts(sz)[i] = c * (j - 1)
    BY <1>1
  <2>2. Holds(p, ptrs[p].start + Starts(sz)[i] + skip, Thing(kind, vec[i]))
    BY <1>0
  <2> QED BY <2>1, <2>2
<1> QED BY <1>2, <1>3 DEF Lists, kept

(* Every kept descriptor is among the pointers of its section.             *)
LEMMA BlockHeld ==
  ASSUME NEW S, NEW vec \in Seq(S), NEW ss, ss = [i \in DOMAIN vec |-> ss[i]],
         \A i \in DOMAIN vec : Proper(ss[i])
  PROVE  \A i \in DOMAIN vec : Range(ss[i]) \subseteq Range(FlattenSeq(ss))
<1> DEFINE n == Len(vec)
<1>1. n \in Nat /\ DOMAIN vec = 1 .. n
  BY LenProperties
<1>2. ss = [i \in 1 .. n |-> ss[i]] /\ \A i \in 1 .. n : Proper(ss[i])
  BY <1>1
<1> HIDE DEF n
<1>3. Range(FlattenSeq(ss)) = UNION {Range(ss[i]) : i \in 1 .. n}
  BY ONLY <1>1, <1>2, FlattenProper
<1> QED BY <1>1, <1>3

LEMMA PlacesAreNat ==
  ASSUME NEW S, NEW vec \in Seq(S), NEW sz \in [DOMAIN vec -> Nat], NEW a \in Nat
  PROVE  \A i \in DOMAIN vec : Starts(sz)[i] \in Nat /\ a + Starts(sz)[i] \in Nat
<1>1. /\ sz \in Seq(Nat) /\ Len(sz) = Len(vec) /\ Len(vec) \in Nat
      /\ DOMAIN vec = 1 .. Len(vec)
  BY OverVector
<1>2. \A i \in 1 .. Len(vec) + 1 : Starts(sz)[i] \in Nat
  BY <1>1, StartsAre
<1> QED BY <1>1, <1>2

LEMMA FirstTwo ==
  /\ \A a, b, x, y : Field(a, x) \in Range(<<Field(a, x), Field(b, y)>>)
  /\ \A a, b, x, y : Field(b, y) \in Range(<<Field(a, x), Field(b, y)>>)
  /\ \A a, b, c, x, y, z :
       /\ Field(a, x) \in Range(<<Field(a, x), Field(b, y), Field(c, z)>>)
       /\ Field(c, z) \in Range(<<Field(a, x), Field(b, y), Field(c, z)>>)
<1>1. ASSUME NEW u, NEW v PROVE u \in Range(<<u, v>>) /\ v \in Range(<<u, v>>)
  <2>1. 1 \in DOMAIN <<u, v>> /\ 2 \in DOMAIN <<u, v>> /\ <<u, v>>[1] = u /\ <<u, v>>[2] = v
    OBVIOUS
  <2> QED BY <2>1 DEF Range
<1>2. ASSUME NEW u, NEW v, NEW w PROVE u \in Range(<<u, v, w>>) /\ w \in Range(<<u, v, w>>)
  <2>1. 1 \in DOMAIN <<u, v, w>> /\ 3 \in DOMAIN <<u, v, w>> /\ <<u, v, w>>[1] = u /\ <<u, v, w>>[3] = w
    OBVIOUS
  <2> QED BY <2>1 DEF Range
<1> QED BY <1>1, <1>2

LEMMA DataHeld ==
  ASSUME exe \in Exes, NEW a \in Nat, NEW i \in DOMAIN Fns, KeepFn(Fns[i])
  PROVE  LET d == a + Starts(Sizes(Fns, KeepFn, DataSize))[i]
         IN d \in Nat /\ Range(DataFields(Fns[i], d)) \subseteq Range(FieldsOut("mvdata", a))
<1> DEFINE sz == Sizes(Fns, KeepFn, DataSize)
           at == Starts(sz)
           ss == [j \in DOMAIN Fns |-> IF KeepFn(Fns[j]) THEN DataFields(Fns[j], a + at[j]) ELSE <<>>]
<1>1. FieldsOut("mvdata", a) = FlattenSeq(ss)
  BY DEF FieldsOut, Pack
<1>2. Fns \in Seq(Range(Fns))
  BY Exe
<1>3. sz \in [DOMAIN Fns -> Nat]
  <2>1. sz = [j \in DOMAIN Fns |-> IF KeepFn(Fns[j]) THEN DataSize(Fns[j]) ELSE 0]
    BY DEF Sizes
  <2>2. \A j \in DOMAIN Fns : DataSize(Fns[j]) \in Nat
    BY Exe, DataSizes DEF Range
  <2> HIDE DEF sz
  <2> QED BY <2>1, <2>2
<1> HIDE DEF sz
<1>4. \A j \in DOMAIN Fns : a + at[j] \in Nat
  BY <1>2, <1>3, PlacesAreNat
<1> HIDE DEF at
<1>5. ASSUME NEW j \in DOMAIN Fns PROVE Proper(ss[j])
  <2>1. CASE KeepFn(Fns[j])
    <3>1. Proper(DataFields(Fns[j], a + at[j]))
      <4>1. nAssigns[Fns[j]] \in Seq(Nat)
        BY Exe DEF Range
      <4> QED BY <1>4, <4>1, VariantsTidy DEF Tidy
    <3>2. ss[j] = DataFields(Fns[j], a + at[j])
      BY <2>1
    <3> HIDE DEF ss
    <3> QED BY <3>1, <3>2
  <2>2. CASE ~KeepFn(Fns[j])
    <3>1. ss[j] = <<>>
      BY <2>2
    <3> QED BY <3>1, ProperEmpty
  <2> QED BY <2>1, <2>2
<1>6. ss = [j \in DOMAIN Fns |-> ss[j]] /\ ss[i] = DataFields(Fns[i], a + at[i])
  OBVIOUS
<1> HIDE DEF ss
<1>7. Range(ss[i]) \subseteq Range(FlattenSeq(ss))
  <2>1. \A j \in DOMAIN Fns : Proper(ss[j])
    BY <1>5
  <2>2. ss = [j \in DOMAIN Fns |-> ss[j]] /\ i \in DOMAIN Fns
    BY <1>6
  <2> QED BY ONLY <1>2, <2>1, <2>2, BlockHeld
<1> QED BY <1>1, <1>4, <1>6, <1>7 DEF at, sz

LEMMA FnHeld ==
  ASSUME exe \in Exes, NEW a \in Nat, NEW i \in DOMAIN Fns, KeepFn(Fns[i])
  PROVE  LET d == a + Starts(Sizes(Fns, KeepFn, FnBlock))[i]
         IN /\ Field(d + 0, Thing("name", Fns[i])) \in Range(FieldsOut("mvfn", a))
            /\ Field(d + 3, mvfnAt[Fns[i]]) \in Range(FieldsOut("mvfn", a))
<1> DEFINE sz == Sizes(Fns, KeepFn, FnBlock)
           at == Starts(sz)
           ss == [j \in DOMAIN Fns |-> IF KeepFn(Fns[j]) THEN FnFieldsNow(Fns[j], a + at[j]) ELSE <<>>]
<1>1. FieldsOut("mvfn", a) = FlattenSeq(ss)
  BY DEF FieldsOut, Pack
<1>2. Fns \in Seq(Range(Fns))
  BY Exe
<1>3. sz \in [DOMAIN Fns -> Nat]
  <2>1. sz = [j \in DOMAIN Fns |-> IF KeepFn(Fns[j]) THEN FnSize ELSE 0]
    BY DEF Sizes, FnBlock
  <2> HIDE DEF sz
  <2> QED BY <2>1 DEF FnSize
<1> HIDE DEF sz
<1>4. \A j \in DOMAIN Fns : a + at[j] \in Nat
  BY <1>2, <1>3, PlacesAreNat
<1> HIDE DEF at
<1>5. ASSUME NEW j \in DOMAIN Fns PROVE Proper(ss[j])
  <2>1. CASE KeepFn(Fns[j])
    <3>1. Proper(FnFieldsNow(Fns[j], a + at[j]))
      BY <1>4, BlockTidy DEF Tidy
    <3>2. ss[j] = FnFieldsNow(Fns[j], a + at[j])
      BY <2>1
    <3> HIDE DEF ss
    <3> QED BY <3>1, <3>2
  <2>2. CASE ~KeepFn(Fns[j])
    <3>1. ss[j] = <<>>
      BY <2>2
    <3> QED BY <3>1, ProperEmpty
  <2> QED BY <2>1, <2>2
<1>6. ss = [j \in DOMAIN Fns |-> ss[j]] /\ ss[i] = FnFieldsNow(Fns[i], a + at[i])
  OBVIOUS
<1> HIDE DEF ss
<1>7. Range(ss[i]) \subseteq Range(FlattenSeq(ss))
  <2>1. \A j \in DOMAIN Fns : Proper(ss[j])
    BY <1>5
  <2>2. ss = [j \in DOMAIN Fns |-> ss[j]] /\ i \in DOMAIN Fns
    BY <1>6
  <2> QED BY ONLY <1>2, <2>1, <2>2, BlockHeld
<1> DEFINE d == a + at[i]
<1>8. /\ Field(d, Thing("name", Fns[i])) \in Range(ss[i])
      /\ Field(d + 3, mvfnAt[Fns[i]]) \in Range(ss[i])
  BY <1>6, FirstTwo DEF FnFieldsNow, FnFields
<1>9. d \in Nat /\ d + 0 = d
  BY <1>4
<1> QED BY <1>1, <1>7, <1>8, <1>9 DEF at, sz

LEMMA VarHeld ==
  ASSUME exe \in Exes, NEW a \in Nat, NEW i \in DOMAIN Vars, KeepVar(Vars[i])
  PROVE  LET d == a + Starts(Sizes(Vars, KeepVar, VarBlock))[i]
         IN Field(d + 0, Thing("name", Vars[i])) \in Range(FieldsOut("mvvar", a))
<1> DEFINE sz == Sizes(Vars, KeepVar, VarBlock)
           at == Starts(sz)
           ss == [j \in DOMAIN Vars |-> IF KeepVar(Vars[j]) THEN VarFields(Vars[j], a + at[j]) ELSE <<>>]
<1>1. FieldsOut("mvvar", a) = FlattenSeq(ss)
  BY DEF FieldsOut, Pack
<1>2. Vars \in Seq(Range(Vars))
  BY Exe
<1>3. sz \in [DOMAIN Vars -> Nat]
  <2>1. sz = [j \in DOMAIN Vars |-> IF KeepVar(Vars[j]) THEN VarSize ELSE 0]
    BY DEF Sizes, VarBlock
  <2> HIDE DEF sz
  <2> QED BY <2>1 DEF VarSize
<1> HIDE DEF sz
<1>4. \A j \in DOMAIN Vars : a + at[j] \in Nat
  BY <1>2, <1>3, PlacesAreNat
<1> HIDE DEF at
<1>5. ASSUME NEW j \in DOMAIN Vars PROVE Proper(ss[j])
  <2>1. CASE KeepVar(Vars[j])
    <3>1. Proper(VarFields(Vars[j], a + at[j]))
      BY <1>4, BlockTidy DEF Tidy
    <3>2. ss[j] = VarFields(Vars[j], a + at[j])
      BY <2>1
    <3> HIDE DEF ss
    <3> QED BY <3>1, <3>2
  <2>2. CASE ~KeepVar(Vars[j])
    <3>1. ss[j] = <<>>
      BY <2>2
    <3> QED BY <3>1, ProperEmpty
  <2> QED BY <2>1, <2>2
<1>6. ss = [j \in DOMAIN Vars |-> ss[j]] /\ ss[i] = VarFields(Vars[i], a + at[i])
  OBVIOUS
<1> HIDE DEF ss
<1>7. Range(ss[i]) \subseteq Range(FlattenSeq(ss))
  <2>1. \A j \in DOMAIN Vars : Proper(ss[j])
    BY <1>5
  <2>2. ss = [j \in DOMAIN Vars |-> ss[j]] /\ i \in DOMAIN Vars
    BY <1>6
  <2> QED BY ONLY <1>2, <2>1, <2>2, BlockHeld
<1> DEFINE d == a + at[i]
<1>8. Field(d, Thing("name", Vars[i])) \in Range(ss[i])
  BY <1>6, FirstTwo DEF VarFields
<1>9. d \in Nat /\ d + 0 = d
  BY <1>4
<1> QED BY <1>1, <1>7, <1>8, <1>9 DEF at, sz

LEMMA SiteHeld ==
  ASSUME exe \in Exes, NEW a \in Nat, NEW i \in DOMAIN Sites, KeepSite(Sites[i])
  PROVE  LET d == a + Starts(Sizes(Sites, KeepSite, SiteBlock))[i]
         IN Field(d + 1, Thing("label", Sites[i])) \in Range(FieldsOut("mvcs", a))
<1> DEFINE sz == Sizes(Sites, KeepSite, SiteBlock)
           at == Starts(sz)
           ss == [j \in DOMAIN Sites |-> IF KeepSite(Sites[j]) THEN SiteFields(Sites[j], a + at[j]) ELSE <<>>]
<1>1. FieldsOut("mvcs", a) = FlattenSeq(ss)
  BY DEF FieldsOut, Pack
<1>2. Sites \in Seq(Range(Sites))
  BY Exe
<1>3. sz \in [DOMAIN Sites -> Nat]
  <2>1. sz = [j \in DOMAIN Sites |-> IF KeepSite(Sites[j]) THEN SiteSize ELSE 0]
    BY DEF Sizes, SiteBlock
  <2> HIDE DEF sz
  <2> QED BY <2>1 DEF SiteSize
<1> HIDE DEF sz
<1>4. \A j \in DOMAIN Sites : a + at[j] \in Nat
  BY <1>2, <1>3, PlacesAreNat
<1> HIDE DEF at
<1>5. ASSUME NEW j \in DOMAIN Sites PROVE Proper(ss[j])
  <2>1. CASE KeepSite(Sites[j])
    <3>1. Proper(SiteFields(Sites[j], a + at[j]))
      BY <1>4, BlockTidy DEF Tidy
    <3>2. ss[j] = SiteFields(Sites[j], a + at[j])
      BY <2>1
    <3> HIDE DEF ss
    <3> QED BY <3>1, <3>2
  <2>2. CASE ~KeepSite(Sites[j])
    <3>1. ss[j] = <<>>
      BY <2>2
    <3> QED BY <3>1, ProperEmpty
  <2> QED BY <2>1, <2>2
<1>6. ss = [j \in DOMAIN Sites |-> ss[j]] /\ ss[i] = SiteFields(Sites[i], a + at[i])
  OBVIOUS
<1> HIDE DEF ss
<1>7. Range(ss[i]) \subseteq Range(FlattenSeq(ss))
  <2>1. \A j \in DOMAIN Sites : Proper(ss[j])
    BY <1>5
  <2>2. ss = [j \in DOMAIN Sites |-> ss[j]] /\ i \in DOMAIN Sites
    BY <1>6
  <2> QED BY ONLY <1>2, <2>1, <2>2, BlockHeld
<1> DEFINE d == a + at[i]
<1>8. Field(d + 1, Thing("label", Sites[i])) \in Range(ss[i])
  BY <1>6, FirstTwo DEF SiteFields
<1>9. d \in Nat /\ d + 0 = d
  BY <1>4
<1> QED BY <1>1, <1>7, <1>8, <1>9 DEF at, sz

(* The variants of a function and their assignments are among its pointers.*)
LEMMA VariantsHeld ==
  ASSUME NEW f, nAssigns[f] \in Seq(Nat), NEW p \in Nat, NEW M, NEW Q, NEW E,
         VariantsPlaced(f, p, M, Q, E), NEW k \in 1 .. Len(nAssigns[f])
  PROVE  LET fields == Range(DataFields(f, p))
         IN /\ Field(M[k], Thing("mvbody", <<f, k>>)) \in fields
            /\ Field(M[k] + 2, At(Q[k])) \in fields
            /\ \A i \in 1 .. nAssigns[f][k] :
                 Field(Q[k] + AssignSize * (i - 1), Thing("assign", <<f, k, i>>)) \in fields
<1> DEFINE n == Len(nAssigns[f])
           c == nAssigns[f]
           ass == Starts(AssignsOf(f))
           pair(m) == <<Field(p + MvfnSize * (m - 1), Thing("mvbody", <<f, m>>)),
                        Field(p + MvfnSize * (m - 1) + 2, At(p + MvfnSize * n + ass[m]))>>
           list(m) == [i \in 1 .. c[m] |->
                         Field(p + MvfnSize * n + ass[m] + AssignSize * (i - 1),
                               Thing("assign", <<f, m, i>>))]
           ss == [m \in 1 .. n |-> pair(m) \o list(m)]
<1>1. n \in Nat /\ \A m \in 1 .. n : c[m] \in Nat
  BY DataSizeIs
<1>2. DataFields(f, p) = FlattenSeq(ss)
  BY DEF DataFields, AssignsOf
<1>3. M[k] = p + MvfnSize * (k - 1) /\ Q[k] = p + MvfnSize * n + ass[k]
  BY DEF VariantsPlaced
<1> HIDE DEF n, c, ass
<1>4. ASSUME NEW m \in 1 .. n
      PROVE  /\ Proper(ss[m])
             /\ Range(pair(m)) \subseteq Range(ss[m])
             /\ \A i \in 1 .. c[m] : list(m)[i] \in Range(ss[m])
  <2> DEFINE u == pair(m)
             l == list(m)
  <2>1. Proper(u)
    <3>1. u = [i \in 1 .. 2 |-> u[i]]
      OBVIOUS
    <3> HIDE DEF u
    <3>2. 2 \in Nat
      OBVIOUS
    <3> QED BY ONLY <3>1, <3>2, ProperFunction
  <2>2. Proper(l) /\ Len(l) = c[m]
    <3>1. l = [i \in 1 .. c[m] |-> l[i]]
      OBVIOUS
    <3>2. c[m] \in Nat
      BY <1>1
    <3> HIDE DEF l
    <3> QED BY ONLY <3>1, <3>2, ProperFunction
  <2>3. ss[m] = u \o l
    BY Zenon
  <2> HIDE DEF u, l, ss
  <2>4. Proper(u \o l) /\ Range(u \o l) = Range(u) \cup Range(l)
    BY <2>1, <2>2, ProperConcat
  <2>5. \A i \in 1 .. c[m] : l[i] \in Range(l)
    BY <2>2, ProperLength
  <2> QED BY <2>3, <2>4, <2>5 DEF u, l
<1>5. ss = [m \in 1 .. n |-> ss[m]]
  OBVIOUS
<1>6. k \in 1 .. n
  BY DEF n
<1>7. /\ Field(M[k], Thing("mvbody", <<f, k>>)) \in Range(pair(k))
      /\ Field(M[k] + 2, At(Q[k])) \in Range(pair(k))
  <2>1. pair(k) = <<Field(M[k], Thing("mvbody", <<f, k>>)), Field(M[k] + 2, At(Q[k]))>>
    BY <1>3
  <2> HIDE DEF pair
  <2> QED BY <2>1, FirstTwo
<1>8. \A i \in 1 .. c[k] :
        list(k)[i] = Field(Q[k] + AssignSize * (i - 1), Thing("assign", <<f, k, i>>))
  BY <1>3
<1> HIDE DEF ss, pair, list
<1>9. Range(ss[k]) \subseteq Range(FlattenSeq(ss))
  <2>1. \A m \in 1 .. n : Proper(ss[m])
    BY <1>4
  <2>2. Range(FlattenSeq(ss)) = UNION {Range(ss[m]) : m \in 1 .. n}
    BY ONLY <1>1, <1>5, <2>1, FlattenProper
  <2> QED BY <1>6, <2>2
<1>10. \A i \in 1 .. c[k] : list(k)[i] \in Range(DataFields(f, p))
  BY <1>2, <1>4, <1>6, <1>9
<1>11. Range(pair(k)) \subseteq Range(DataFields(f, p))
  BY <1>2, <1>4, <1>6, <1>9
<1>12. \A i \in 1 .. c[k] :
         Field(Q[k] + AssignSize * (i - 1), Thing("assign", <<f, k, i>>)) \in Range(DataFields(f, p))
  BY <1>8, <1>10
<1> QED BY <1>7, <1>11, <1>12 DEF c

(* A kept function and its variants take their room inside of the area.    *)
LEMMA VariantsInside ==
  ASSUME exe \in Exes, NEW i \in DOMAIN Fns, KeepFn(Fns[i])
  PROVE  /\ VariantsAt(i) \in Nat /\ DataSize(Fns[i]) \in Nat
         /\ areaAt <= VariantsAt(i)
         /\ VariantsAt(i) + DataSize(Fns[i]) <= VaddrEnd
<1> DEFINE sz == Sizes(Fns, KeepFn, DataSize)
           at == Starts(sz)
           n == Len(Fns)
<1>1. Fns \in Seq(Range(Fns)) /\ \A j \in DOMAIN Fns : DataSize(Fns[j]) \in Nat
  BY Exe, DataSizes DEF Range
<1>2. sz = [j \in DOMAIN Fns |-> IF KeepFn(Fns[j]) THEN DataSize(Fns[j]) ELSE 0]
  BY DEF Sizes
<1>3. Total(sz) \in Nat /\ Total(sz) <= SizeIn("mvdata")
  BY DataSection
<1>4. VariantsAt(i) = areaAt + at[i]
  BY DEF VariantsAt
<1> HIDE DEF sz
<1>5. sz \in [DOMAIN Fns -> Nat] /\ sz[i] = DataSize(Fns[i])
  BY <1>1, <1>2
<1>6. /\ sz \in Seq(Nat) /\ Len(sz) = n /\ n \in Nat /\ DOMAIN Fns = 1 .. n
  BY <1>1, <1>5, OverVector
<1>7. /\ \A j \in 1 .. n + 1 : at[j] \in Nat
      /\ \A j \in 1 .. n : at[j + 1] = at[j] + sz[j]
      /\ \A j, k \in 1 .. n + 1 : j <= k => at[j] <= at[k]
      /\ Total(sz) = at[n + 1]
  <2>1. /\ \A j \in 1 .. Len(sz) + 1 : at[j] \in Nat
        /\ \A j \in 1 .. Len(sz) : at[j + 1] = at[j] + sz[j]
    BY <1>6, StartsAre
  <2>2. \A j, k \in 1 .. Len(sz) + 1 : j <= k => at[j] <= at[k]
    BY <1>6, StartsOrdered
  <2>3. Total(sz) = at[Len(sz) + 1]
    BY DEF Total
  <2> HIDE DEF at, n
  <2> QED BY <1>6, <2>1, <2>2, <2>3
<1> HIDE DEF at, n
<1>8. i \in 1 .. n /\ i \in 1 .. n + 1 /\ i + 1 \in 1 .. n + 1 /\ n + 1 \in 1 .. n + 1 /\ i + 1 <= n + 1
  BY <1>6
<1>9. at[i] \in Nat /\ at[i + 1] \in Nat /\ at[i + 1] = at[i] + DataSize(Fns[i]) /\ at[i + 1] <= Total(sz)
  BY <1>5, <1>7, <1>8
<1>10. SizeIn("mvdata") \in Nat /\ SizeIn("mvdata") <= AreaSize /\ AreaSize \in Nat
  <2>1. PartSeq[1] = "mvdata" /\ 1 \in 1 .. 4 /\ 1 - 1 = 0
    BY DEF PartSeq
  <2>2. RoomOf(1) <= AreaSize /\ SizeIn("mvdata") \in Nat /\ RoomOf(1) = RoomOf(0) + SizeIn("mvdata")
        /\ RoomOf(0) = 0
    BY <2>1, Rooms
  <2>3. AreaSize \in Nat
    BY Numbers
  <2> QED BY <2>2, <2>3
<1>11. areaAt \in Nat /\ VaddrEnd = BssAt + bssSize /\ BssAt = areaAt + AreaSize + bssPad
       /\ bssPad \in Nat /\ bssSize \in Nat
  BY Numbers
<1>12. DataSize(Fns[i]) \in Nat
  BY <1>1
<1> DEFINE d == DataSize(Fns[i])
           t == Total(sz)
           r == SizeIn("mvdata")
<1> HIDE DEF d, t, r
<1>13. /\ areaAt + at[i] \in Nat /\ areaAt <= areaAt + at[i]
       /\ areaAt + at[i] + d <= VaddrEnd
  BY <1>3, <1>9, <1>10, <1>11, <1>12 DEF d, t, r
<1> QED BY <1>4, <1>12, <1>13 DEF d

(* What is done to a section says that it lists what was kept of it.       *)
LEMMA SectionLists ==
  ASSUME NEW p \in Bounded, FillInv, PartDone(p), BoundDone(p),
         NEW S, NEW vec \in Seq(S), NEW K, K \subseteq DOMAIN vec,
         NEW c \in Nat, NEW skip \in Nat, NEW kind,
         Absent(p) => K = {},
         ~Absent(p) => KeptSize(p) = Total(Taken(vec, K, c)),
         ~Absent(p) => \A a \in Nat : \A i \in K :
           Field(a + Starts(Taken(vec, K, c))[i] + skip, Thing(kind, vec[i])) \in Range(FieldsOut(p, a))
  PROVE  Lists(p, c, skip, kind, Stay(vec, K))
<1> DEFINE sz == Taken(vec, K, c)
           start == ptrs[p].start
<1>1. start \in Nat
  <2>1. areaAt \in Nat /\ AreaSize \in Nat
    BY Numbers DEF FillInv, SearchInv
  <2> QED BY <2>1 DEF BoundDone
<1>2. ptrs[p].stop = start + KeptSize(p)
  BY DEF BoundDone
<1>3. CASE Absent(p)
  <2>1. KeptSize(p) = 0 /\ K = {}
    BY <1>3 DEF KeptSize
  <2>2. Total(sz) = 0
    <3>1. PackedInOrder(vec, K, c)
      BY KeptInOrder
    <3>2. /\ Len(Stay(vec, K)) \in Nat /\ Total(sz) = c * Len(Stay(vec, K))
          /\ \A j \in 1 .. Len(Stay(vec, K)) : \E i \in K : TRUE
      BY <3>1 DEF PackedInOrder
    <3>3. PICK l \in Nat : l = Len(Stay(vec, K))
      BY <3>2
    <3>4. l = 0
      <4>1. 1 \notin 1 .. l
        BY <2>1, <3>2, <3>3
      <4> QED BY <4>1
    <3>5. c * 0 = 0
      OBVIOUS
    <3> QED BY <3>2, <3>3, <3>4, <3>5
  <2>3. ptrs[p].stop = start + Total(sz)
    BY <1>2, <2>1, <2>2
  <2>4. \A i \in K : Holds(p, start + Starts(sz)[i] + skip, Thing(kind, vec[i]))
    BY <2>1
  <2> QED BY <1>1, <2>3, <2>4, ListsFrom
<1>4. CASE ~Absent(p)
  <2>1. ptrs[p].stop = start + Total(sz)
    BY <1>2, <1>4
  <2>2. out[p].fields = Range(FieldsOut(p, start))
    <3>1. start = out[p].at
      BY <1>4 DEF BoundDone
    <3> QED BY <1>4, <3>1 DEF PartDone
  <2>3. \A i \in K : Field(start + Starts(sz)[i] + skip, Thing(kind, vec[i])) \in Range(FieldsOut(p, start))
    BY <1>1, <1>4
  <2>4. \A i \in K : Holds(p, start + Starts(sz)[i] + skip, Thing(kind, vec[i]))
    BY <2>2, <2>3 DEF Holds
  <2> QED BY <1>1, <2>1, <2>4, ListsFrom
<1> QED BY <1>3, <1>4

(* The indices of what is kept of each vector.                             *)
KeptFns == {i \in DOMAIN Fns : ~removed /\ KeepFn(Fns[i])}
KeptVars == {i \in DOMAIN Vars : ~removed /\ KeepVar(Vars[i])}
KeptSites == {i \in DOMAIN Sites : ~removed /\ KeepSite(Sites[i])}

LEMMA KeptAre ==
  /\ Kept(Fns, KeepFn) = Stay(Fns, KeptFns)
  /\ Kept(Vars, KeepVar) = Stay(Vars, KeptVars)
  /\ Kept(Sites, KeepSite) = Stay(Sites, KeptSites)
<1>1. Kept(Fns, KeepFn) = Stay(Fns, KeptFns)
  <2> DEFINE u == [i \in DOMAIN Fns |-> IF ~removed /\ KeepFn(Fns[i]) THEN <<Fns[i]>> ELSE <<>>]
             w == [i \in DOMAIN Fns |-> IF i \in KeptFns THEN <<Fns[i]>> ELSE <<>>]
  <2>1. Kept(Fns, KeepFn) = FlattenSeq(u) /\ Stay(Fns, KeptFns) = FlattenSeq(w)
    BY DEF Kept, Stay
  <2>2. \A i \in DOMAIN Fns : i \in KeptFns <=> ~removed /\ KeepFn(Fns[i])
    BY DEF KeptFns
  <2>3. u = w
    BY <2>2, Zenon
  <2> QED BY <2>1, <2>3
<1>2. Kept(Vars, KeepVar) = Stay(Vars, KeptVars)
  <2> DEFINE u == [i \in DOMAIN Vars |-> IF ~removed /\ KeepVar(Vars[i]) THEN <<Vars[i]>> ELSE <<>>]
             w == [i \in DOMAIN Vars |-> IF i \in KeptVars THEN <<Vars[i]>> ELSE <<>>]
  <2>1. Kept(Vars, KeepVar) = FlattenSeq(u) /\ Stay(Vars, KeptVars) = FlattenSeq(w)
    BY DEF Kept, Stay
  <2>2. \A i \in DOMAIN Vars : i \in KeptVars <=> ~removed /\ KeepVar(Vars[i])
    BY DEF KeptVars
  <2>3. u = w
    BY <2>2, Zenon
  <2> QED BY <2>1, <2>3
<1>3. Kept(Sites, KeepSite) = Stay(Sites, KeptSites)
  <2> DEFINE u == [i \in DOMAIN Sites |-> IF ~removed /\ KeepSite(Sites[i]) THEN <<Sites[i]>> ELSE <<>>]
             w == [i \in DOMAIN Sites |-> IF i \in KeptSites THEN <<Sites[i]>> ELSE <<>>]
  <2>1. Kept(Sites, KeepSite) = FlattenSeq(u) /\ Stay(Sites, KeptSites) = FlattenSeq(w)
    BY DEF Kept, Stay
  <2>2. \A i \in DOMAIN Sites : i \in KeptSites <=> ~removed /\ KeepSite(Sites[i])
    BY DEF KeptSites
  <2>3. u = w
    BY <2>2, Zenon
  <2> QED BY <2>1, <2>3
<1> QED BY <1>1, <1>2, <1>3

LEMMA SizesAre ==
  ASSUME ~removed
  PROVE  /\ Sizes(Fns, KeepFn, FnBlock) = Taken(Fns, KeptFns, FnSize)
         /\ Sizes(Vars, KeepVar, VarBlock) = Taken(Vars, KeptVars, VarSize)
         /\ Sizes(Sites, KeepSite, SiteBlock) = Taken(Sites, KeptSites, SiteSize)
<1>1. Sizes(Fns, KeepFn, FnBlock) = Taken(Fns, KeptFns, FnSize)
  <2>1. \A i \in DOMAIN Fns : i \in KeptFns <=> KeepFn(Fns[i])
    BY DEF KeptFns
  <2> QED BY <2>1, Zenon DEF Sizes, Taken, FnBlock
<1>2. Sizes(Vars, KeepVar, VarBlock) = Taken(Vars, KeptVars, VarSize)
  <2>1. \A i \in DOMAIN Vars : i \in KeptVars <=> KeepVar(Vars[i])
    BY DEF KeptVars
  <2> QED BY <2>1, Zenon DEF Sizes, Taken, VarBlock
<1>3. Sizes(Sites, KeepSite, SiteBlock) = Taken(Sites, KeptSites, SiteSize)
  <2>1. \A i \in DOMAIN Sites : i \in KeptSites <=> KeepSite(Sites[i])
    BY DEF KeptSites
  <2> QED BY <2>1, Zenon DEF Sizes, Taken, SiteBlock
<1> QED BY <1>1, <1>2, <1>3

(* A section without a scn_out had nothing to keep.                        *)
LEMMA NothingKept ==
  ASSUME exe \in Exes
  PROVE  /\ Absent("mvfn") => KeptFns = {}
         /\ Absent("mvvar") => KeptVars = {}
         /\ Absent("mvcs") => KeptSites = {}
         /\ Absent("mvdata") => removed
<1>1. ASSUME NEW S, NEW vec \in Seq(S), NEW c \in {VarSize, FnSize, SiteSize}, c * Len(vec) = 0
      PROVE  DOMAIN vec = {}
  <2>1. PICK n \in Nat : n = Len(vec)
    BY LenProperties
  <2>2. DOMAIN vec = 1 .. n
    BY <2>1, LenProperties
  <2>3. 6 * n = 0 \/ 4 * n = 0 \/ 2 * n = 0
    BY <1>1, <2>1 DEF VarSize, FnSize, SiteSize
  <2>4. n = 0
    BY <2>3
  <2> QED BY <2>2, <2>4
<1>2. Vars \in Seq(Range(Vars)) /\ Fns \in Seq(Range(Fns)) /\ Sites \in Seq(Range(Sites))
  BY Exe
<1>3. /\ SizeIn("mvfn") = FnSize * Len(Fns) /\ SizeIn("mvvar") = VarSize * Len(Vars)
      /\ SizeIn("mvcs") = SiteSize * Len(Sites)
  BY DEF SizeIn
<1>4. Absent("mvfn") => KeptFns = {}
  <2>1. CASE removed
    BY <2>1 DEF KeptFns
  <2>2. CASE Missing("mvfn")
    BY <1>1, <1>2, <1>3, <2>2 DEF KeptFns, Missing
  <2> QED BY <2>1, <2>2 DEF Absent
<1>5. Absent("mvvar") => KeptVars = {}
  <2>1. CASE removed
    BY <2>1 DEF KeptVars
  <2>2. CASE Missing("mvvar")
    BY <1>1, <1>2, <1>3, <2>2 DEF KeptVars, Missing
  <2> QED BY <2>1, <2>2 DEF Absent
<1>6. Absent("mvcs") => KeptSites = {}
  <2>1. CASE removed
    BY <2>1 DEF KeptSites
  <2>2. CASE Missing("mvcs")
    BY <1>1, <1>2, <1>3, <2>2 DEF KeptSites, Missing
  <2> QED BY <2>1, <2>2 DEF Absent
<1>7. Absent("mvdata") => removed
  BY DataSection DEF Absent, Missing
<1> QED BY <1>4, <1>5, <1>6, <1>7

(* At the end the three sections list what was kept.                       *)
LEMMA AllListed ==
  ASSUME FillInv, ContentsInv, pc = "done"
  PROVE  /\ Lists("mvvar", VarSize, 0, "name", Stay(Vars, KeptVars))
         /\ Lists("mvcs", SiteSize, 1, "label", Stay(Sites, KeptSites))
         /\ Lists("mvfn", FnSize, 0, "name", Stay(Fns, KeptFns))
<1>1. exe \in Exes
  BY DEF FillInv, SearchInv
<1>2. LayoutStep = 6
  BY Steps DEF StepsAre
<1>3. \A i \in 2 .. 4 : PartDone(PartSeq[i]) /\ BoundDone(PartSeq[i])
  BY <1>2 DEF ContentsInv
<1>4. \A p \in Bounded : PartDone(p) /\ BoundDone(p)
  <2>1. PartSeq[2] = "mvfn" /\ PartSeq[3] = "mvvar" /\ PartSeq[4] = "mvcs"
    BY DEF PartSeq
  <2> QED BY <1>3, <2>1 DEF Bounded
<1>5. Vars \in Seq(Range(Vars)) /\ Fns \in Seq(Range(Fns)) /\ Sites \in Seq(Range(Sites))
  BY <1>1, Exe
<1>6. "mvfn" \in Bounded /\ "mvvar" \in Bounded /\ "mvcs" \in Bounded
      /\ 0 \in Nat /\ 1 \in Nat /\ FnSize \in Nat /\ VarSize \in Nat /\ SiteSize \in Nat
  BY DEF Bounded, FnSize, VarSize, SiteSize
<1>7. KeptFns \subseteq DOMAIN Fns /\ KeptVars \subseteq DOMAIN Vars /\ KeptSites \subseteq DOMAIN Sites
  BY DEF KeptFns, KeptVars, KeptSites
<1>8. \A p : ~Absent(p) /\ p # "bss" => ~removed
  BY DEF Absent
<1>9. Lists("mvfn", FnSize, 0, "name", Stay(Fns, KeptFns))
  <2>1. ASSUME ~Absent("mvfn")
        PROVE  /\ KeptSize("mvfn") = Total(Taken(Fns, KeptFns, FnSize))
               /\ \A a \in Nat : \A i \in KeptFns :
                    Field(a + Starts(Taken(Fns, KeptFns, FnSize))[i] + 0, Thing("name", Fns[i]))
                      \in Range(FieldsOut("mvfn", a))
    <3>1. Sizes(Fns, KeepFn, FnBlock) = Taken(Fns, KeptFns, FnSize)
      BY <1>8, <2>1, SizesAre
    <3>2. \A a \in Nat : \A i \in KeptFns :
            Field(a + Starts(Sizes(Fns, KeepFn, FnBlock))[i] + 0, Thing("name", Fns[i]))
              \in Range(FieldsOut("mvfn", a))
      BY <1>1, FnHeld DEF KeptFns
    <3> QED BY <2>1, <3>1, <3>2 DEF KeptSize
  <2>2. Absent("mvfn") => KeptFns = {}
    BY <1>1, NothingKept
  <2>3. PartDone("mvfn") /\ BoundDone("mvfn")
    BY <1>4, <1>6
  <2> QED BY ONLY FillInv, <1>5, <1>6, <1>7, <2>1, <2>2, <2>3, SectionLists
<1>10. Lists("mvvar", VarSize, 0, "name", Stay(Vars, KeptVars))
  <2>1. ASSUME ~Absent("mvvar")
        PROVE  /\ KeptSize("mvvar") = Total(Taken(Vars, KeptVars, VarSize))
               /\ \A a \in Nat : \A i \in KeptVars :
                    Field(a + Starts(Taken(Vars, KeptVars, VarSize))[i] + 0, Thing("name", Vars[i]))
                      \in Range(FieldsOut("mvvar", a))
    <3>1. Sizes(Vars, KeepVar, VarBlock) = Taken(Vars, KeptVars, VarSize)
      BY <1>8, <2>1, SizesAre
    <3>2. \A a \in Nat : \A i \in KeptVars :
            Field(a + Starts(Sizes(Vars, KeepVar, VarBlock))[i] + 0, Thing("name", Vars[i]))
              \in Range(FieldsOut("mvvar", a))
      BY <1>1, VarHeld DEF KeptVars
    <3> QED BY <2>1, <3>1, <3>2 DEF KeptSize
  <2>2. Absent("mvvar") => KeptVars = {}
    BY <1>1, NothingKept
  <2>3. PartDone("mvvar") /\ BoundDone("mvvar")
    BY <1>4, <1>6
  <2> QED BY ONLY FillInv, <1>5, <1>6, <1>7, <2>1, <2>2, <2>3, SectionLists
<1>11. Lists("mvcs", SiteSize, 1, "label", Stay(Sites, KeptSites))
  <2>1. ASSUME ~Absent("mvcs")
        PROVE  /\ KeptSize("mvcs") = Total(Taken(Sites, KeptSites, SiteSize))
               /\ \A a \in Nat : \A i \in KeptSites :
                    Field(a + Starts(Taken(Sites, KeptSites, SiteSize))[i] + 1, Thing("label", Sites[i]))
                      \in Range(FieldsOut("mvcs", a))
    <3>1. Sizes(Sites, KeepSite, SiteBlock) = Taken(Sites, KeptSites, SiteSize)
      BY <1>8, <2>1, SizesAre
    <3>2. \A a \in Nat : \A i \in KeptSites :
            Field(a + Starts(Sizes(Sites, KeepSite, SiteBlock))[i] + 1, Thing("label", Sites[i]))
              \in Range(FieldsOut("mvcs", a))
      BY <1>1, SiteHeld DEF KeptSites
    <3> QED BY <2>1, <3>1, <3>2 DEF KeptSize
  <2>2. Absent("mvcs") => KeptSites = {}
    BY <1>1, NothingKept
  <2>3. PartDone("mvcs") /\ BoundDone("mvcs")
    BY <1>4, <1>6
  <2> QED BY ONLY FillInv, <1>5, <1>6, <1>7, <2>1, <2>2, <2>3, SectionLists
<1> QED BY <1>9, <1>10, <1>11

(* From each kept function its variants are found, and from each of these  *)
(* its assignments.                                                        *)
LEMMA VariantsRead ==
  ASSUME FillInv, ContentsInv, pc = "done", NEW i \in KeptFns
  PROVE  VariantsFound(Fns[i], ptrs["mvfn"].start + Starts(Taken(Fns, KeptFns, FnSize))[i])
<1> DEFINE f == Fns[i]
           d == VariantsAt(i)
           start == ptrs["mvfn"].start
           a == start + Starts(Taken(Fns, KeptFns, FnSize))[i]
<1>1. exe \in Exes /\ i \in DOMAIN Fns /\ ~removed /\ KeepFn(f)
  BY DEF FillInv, SearchInv, KeptFns
<1>2. ~Absent("mvfn") /\ ~Absent("mvdata")
  BY <1>1, NothingKept
<1>3. LayoutStep = 6
  BY Steps DEF StepsAre
<1>4. /\ PartDone("mvdata") /\ PartDone("mvfn") /\ BoundDone("mvfn") /\ Told
  <2>1. /\ PartDone(PartSeq[1]) /\ PartDone(PartSeq[2]) /\ BoundDone(PartSeq[2]) /\ Told
    BY <1>3 DEF ContentsInv
  <2>2. PartSeq[1] = "mvdata" /\ PartSeq[2] = "mvfn"
    BY DEF PartSeq
  <2> QED BY <2>1, <2>2
<1>5. areaAt \in Nat /\ VaddrEnd \in Nat /\ AreaSize \in Nat
  BY <1>1, Numbers
<1>6. start \in Nat /\ out["mvfn"].fields = Range(FieldsOut("mvfn", start))
  <2>1. start \in areaAt .. areaAt + AreaSize /\ start = out["mvfn"].at
    BY <1>2, <1>4 DEF BoundDone
  <2> QED BY <1>2, <1>4, <1>5, <2>1 DEF PartDone
<1>7. out["mvdata"].fields = Range(FieldsOut("mvdata", areaAt)) /\ mvfnAt[f] = At(d)
  BY <1>1, <1>2, <1>4 DEF PartDone, Told
<1>8. Holds("mvfn", a + 3, At(d))
  <2>1. Sizes(Fns, KeepFn, FnBlock) = Taken(Fns, KeptFns, FnSize)
    BY <1>1, SizesAre
  <2>2. Field(start + Starts(Sizes(Fns, KeepFn, FnBlock))[i] + 3, mvfnAt[f])
          \in Range(FieldsOut("mvfn", start))
    BY <1>1, <1>6, FnHeld
  <2> QED BY <1>6, <1>7, <2>1, <2>2 DEF Holds
<1>9. /\ d \in Nat /\ DataSize(f) \in Nat /\ areaAt <= d /\ d + DataSize(f) <= VaddrEnd
  BY <1>1, VariantsInside
<1>10. Range(DataFields(f, d)) \subseteq out["mvdata"].fields
  <2>1. d = areaAt + Starts(Sizes(Fns, KeepFn, DataSize))[i]
    BY DEF VariantsAt
  <2>2. Range(DataFields(f, d)) \subseteq Range(FieldsOut("mvdata", areaAt))
    BY <1>1, <1>5, <2>1, DataHeld
  <2> QED BY <1>7, <2>2
<1>11. nAssigns[f] \in Seq(Nat)
  BY <1>1, Exe DEF Range
<1> HIDE DEF d, f, a
<1>12. PICK M, Q, E : VariantsPlaced(f, d, M, Q, E)
  BY <1>9, <1>11, VariantsArePlaced
<1>13. ASSUME NEW k \in DOMAIN nAssigns[f]
       PROVE  /\ Holds("mvdata", d + MvfnSize * (k - 1), Thing("mvbody", <<f, k>>))
              /\ \E q \in areaAt .. VaddrEnd :
                   /\ Holds("mvdata", d + MvfnSize * (k - 1) + 2, At(q))
                   /\ \A j \in 1 .. nAssigns[f][k] :
                        Holds("mvdata", q + AssignSize * (j - 1), Thing("assign", <<f, k, j>>))
  <2>1. k \in 1 .. Len(nAssigns[f])
    BY <1>11, LenProperties
  <2>2. /\ M[k] = d + MvfnSize * (k - 1) /\ Q[k] \in Nat /\ E[k] \in Nat
        /\ d <= Q[k] /\ Q[k] <= E[k] /\ E[k] <= d + DataSize(f)
    BY <1>12, <2>1 DEF VariantsPlaced
  <2>3. Q[k] \in areaAt .. VaddrEnd
    <3> DEFINE r == DataSize(f)
               q == Q[k]
               e == E[k]
    <3>1. r \in Nat /\ q \in Nat /\ e \in Nat /\ d \in Nat /\ areaAt <= d /\ d + r <= VaddrEnd
          /\ d <= q /\ q <= e /\ e <= d + r
      BY <1>9, <2>2
    <3> HIDE DEF r, q, e
    <3>2. q \in areaAt .. VaddrEnd
      BY <1>5, <3>1
    <3> QED BY <3>2 DEF q
  <2>4. /\ Field(M[k], Thing("mvbody", <<f, k>>)) \in Range(DataFields(f, d))
        /\ Field(M[k] + 2, At(Q[k])) \in Range(DataFields(f, d))
        /\ \A j \in 1 .. nAssigns[f][k] :
             Field(Q[k] + AssignSize * (j - 1), Thing("assign", <<f, k, j>>)) \in Range(DataFields(f, d))
    BY <1>9, <1>11, <1>12, <2>1, VariantsHeld
  <2>5. /\ Holds("mvdata", M[k], Thing("mvbody", <<f, k>>))
        /\ Holds("mvdata", M[k] + 2, At(Q[k]))
        /\ \A j \in 1 .. nAssigns[f][k] :
             Holds("mvdata", Q[k] + AssignSize * (j - 1), Thing("assign", <<f, k, j>>))
    BY <1>10, <2>4 DEF Holds
  <2> QED BY <2>2, <2>3, <2>5
<1>14. d \in areaAt .. VaddrEnd
  BY <1>5, <1>9
<1>15. VariantsFound(f, a)
  BY <1>8, <1>13, <1>14 DEF VariantsFound
<1> QED BY <1>15 DEF f, a

(* Between the start and stop pointers of the output are exactly the       *)
(* descriptors that were kept, in order and none cut off; each function    *)
(* leads to its variants and these to their assignments (the generate      *)
(* functions, which read mvfn_vaddr after MVDataSection::generate set it). *)
THEOREM KeptIsReadBack == Spec => []ReadsBack
<1>1. FillInv /\ ContentsInv => ReadsBack
  <2> SUFFICES ASSUME FillInv, ContentsInv, pc = "done"
               PROVE  /\ Lists("mvvar", VarSize, 0, "name", Kept(Vars, KeepVar))
                      /\ Lists("mvcs", SiteSize, 1, "label", Kept(Sites, KeepSite))
                      /\ Lists("mvfn", FnSize, 0, "name", Kept(Fns, KeepFn))
                      /\ \A j \in DOMAIN Kept(Fns, KeepFn) :
                           VariantsFound(Kept(Fns, KeepFn)[j], ptrs["mvfn"].start + FnSize * (j - 1))
    BY DEF ReadsBack
  <2>1. /\ Lists("mvvar", VarSize, 0, "name", Kept(Vars, KeepVar))
        /\ Lists("mvcs", SiteSize, 1, "label", Kept(Sites, KeepSite))
        /\ Lists("mvfn", FnSize, 0, "name", Kept(Fns, KeepFn))
    BY AllListed, KeptAre
  <2> DEFINE kept == Stay(Fns, KeptFns)
             at == Starts(Taken(Fns, KeptFns, FnSize))
  <2>2. /\ DOMAIN kept = 1 .. Len(kept)
        /\ \A j \in 1 .. Len(kept) : \E i \in KeptFns : kept[j] = Fns[i] /\ at[i] = FnSize * (j - 1)
    <3>1. Fns \in Seq(Range(Fns)) /\ KeptFns \subseteq DOMAIN Fns /\ FnSize \in Nat
      BY Exe DEF FillInv, SearchInv, KeptFns, FnSize
    <3>2. PackedInOrder(Fns, KeptFns, FnSize)
      BY ONLY <3>1, KeptInOrder
    <3> QED BY <3>2 DEF PackedInOrder
  <2>3. \A i \in KeptFns : VariantsFound(Fns[i], ptrs["mvfn"].start + at[i])
    BY VariantsRead
  <2> HIDE DEF kept, at
  <2>4. ASSUME NEW j \in DOMAIN kept
        PROVE  VariantsFound(kept[j], ptrs["mvfn"].start + FnSize * (j - 1))
    <3>1. PICK i \in KeptFns : kept[j] = Fns[i] /\ at[i] = FnSize * (j - 1)
      BY <2>2
    <3>2. VariantsFound(Fns[i], ptrs["mvfn"].start + at[i])
      BY <2>3
    <3> QED BY <3>1, <3>2
  <2>5. Kept(Fns, KeepFn) = kept
    BY KeptAre DEF kept
  <2> QED BY <2>1, <2>4, <2>5
<1> QED BY <1>1, ContentsKept, Filled, PTL

=============================================================================
