---------------------------- MODULE Tailor_proofs ----------------------------
(***************************************************************************)
(* Proofs about Tailor, for every executable: type correctness, that what  *)
(* was applied stays applied, and, for well-formed executables whose       *)
(* symbol sizes fit, that live code is exact, traps only hit dead code and *)
(* the run implements Commitment.                                          *)
(***************************************************************************)
EXTENDS Tailor, TLAPS

(* An index of the vector of variants yields a variant. *)
LEMMA VariantOfIndex ==
  ASSUME NEW f \in Fn, NEW i \in DOMAIN mvfns[f]
  PROVE  mvfns[f][i] \in Mvfn /\ mvfns[f][i] \in Variants(f)
  BY FnAssumption DEF Variants

(* A cell written by patchpoint_apply is a cell, and never a trap. *)
LEMMA PatchedCell ==
  ASSUME NEW m \in Mvfn, NEW a \in Addr
  PROVE  /\ \A f \in Fn : JumpCell(f, m, a) \in Cell /\ JumpCell(f, m, a).op \notin {"trap", "code"}
         /\ \A c \in Callsite : CallCell(c, m, a) \in Cell /\ CallCell(c, m, a).op \notin {"trap", "code"}
  BY DEF JumpCell, CallCell, Cell

(* Binding keeps the code section a function from addresses to cells. *)
LEMMA BoundText ==
  ASSUME NEW f \in Fn, NEW i \in DOMAIN mvfns[f], NEW t \in [Addr -> Cell]
  PROVE  /\ Guarded(t, f, i) \in [Addr -> Cell]
         /\ Patched(t, f, mvfns[f][i]) \in [Addr -> Cell]
<1>1. Trap \in Cell
  BY DEF Trap, Cell
<1>2. Guarded(t, f, i) \in [Addr -> Cell]
  BY <1>1 DEF Guarded
<1>3. ASSUME NEW a \in Addr
      PROVE  Patched(t, f, mvfns[f][i])[a] \in Cell
  <2>1. CASE \E c \in CallsitesOf(f) : a \in Site(c)
    <3>1. (CHOOSE c \in CallsitesOf(f) : a \in Site(c)) \in Callsite
      BY <2>1 DEF CallsitesOf
    <3> QED BY <2>1, <3>1, VariantOfIndex, PatchedCell DEF Patched
  <2>2. CASE ~ \E c \in CallsitesOf(f) : a \in Site(c)
    BY <2>2, VariantOfIndex, PatchedCell DEF Patched
  <2> QED BY <2>1, <2>2
<1>4. Patched(t, f, mvfns[f][i]) = [a \in Addr |-> Patched(t, f, mvfns[f][i])[a]]
  BY DEF Patched
<1> QED BY <1>2, <1>3, <1>4

(* A probed size is a size of the symbol table or a garbage one. *)
LEMMA ProbedSizeNat ==
  ASSUME NEW S \in SUBSET DOMAIN syms, NEW g \in Garbage
  PROVE  ProbedSize(S, g) \in Nat
  BY SymbolAssumption DEF ProbedSize, IsLast

LEMMA InitTypeOK == TInit => TTypeOK
<1> SUFFICES ASSUME TInit PROVE TTypeOK
  OBVIOUS
<1>1. fnSize \in [Fn -> Nat] /\ mvfnSize \in [Mvfn -> Nat]
  <2>1. \A f \in Fn : FnSyms(f) \in SUBSET DOMAIN syms
    BY DEF FnSyms
  <2>2. \A f, m, val : MvfnSyms(f, m, val) \in SUBSET DOMAIN syms
    BY DEF MvfnSyms
  <2> QED BY <2>1, <2>2, ProbedSizeNat DEF TInit, Init, ProbeSyms
<1>2. Code \in Cell
  BY DEF Code, Cell
<1> QED BY <1>1, <1>2 DEF TInit, Init, TTypeOK, TypeOK, Stage, Everything

LEMMA NextTypeOK == TTypeOK /\ [TNext]_tvars => TTypeOK'
<1> SUFFICES ASSUME TTypeOK, [TNext]_tvars PROVE TTypeOK'
  OBVIOUS
<1> USE DEF TTypeOK, TypeOK, Stage
<1>1. ASSUME NEW n \in Name, NEW x \in Value, DoChange(n, x) PROVE TTypeOK'
  BY <1>1 DEF DoChange, Change
<1>2. CASE ChangeThrows \/ ChangeFails \/ ChangesDone
  BY <1>2 DEF ChangeThrows, ChangeFails, ChangesDone, Goto, vars
<1>3. ASSUME NEW n \in Name, DoApply(n) PROVE TTypeOK'
  BY <1>3 DEF DoApply, Apply, StartApply, Named
<1>4. CASE AppliesDone
  BY <1>4 DEF AppliesDone, DoApplyAll, NoApplyAll, ApplyAll, StartApply, Goto, vars
<1>5. CASE ApplyStep
  <2>1. ASSUME NEW v \in Var, ApplyVar(v) PROVE TTypeOK'
    BY <1>5, <2>1 DEF ApplyStep, ApplyVar, LinkedFns
  <2>2. ASSUME NEW f \in Fn, ApplyFn(f) PROVE TTypeOK'
    <3>1. fixed' \in [Fn -> BOOLEAN]
      BY <2>2 DEF ApplyFn, Bind
    <3>2. text' \in [Addr -> Cell]
      <4>1. ASSUME NEW i \in DOMAIN mvfns[f], Bind(f, i)
            PROVE  text' \in [Addr -> Cell]
        <5>1. (IF guard THEN Guarded(text, f, i) ELSE text) \in [Addr -> Cell]
          BY BoundText
        <5> QED BY <4>1, <5>1, BoundText DEF Bind
      <4> QED BY <2>2, <4>1 DEF ApplyFn
    <3> QED BY <1>5, <2>2, <3>1, <3>2 DEF ApplyStep, ApplyFn
  <2> QED BY <1>5, <2>1, <2>2 DEF ApplyStep, Step
<1>6. CASE AllDone
  BY <1>6 DEF AllDone, Goto, vars
<1>7. CASE WriteEnds
  BY <1>7 DEF WriteEnds, Write, WriteThrows, Goto, Retained, Nothing, vars
<1>8. CASE Exited \/ UNCHANGED tvars
  BY <1>8 DEF Exited, tvars, vars
<1> QED BY <1>1, <1>2, <1>3, <1>4, <1>5, <1>6, <1>7, <1>8 DEF TNext

(* Type correctness, for every executable: no step of main leaves the      *)
(* types of Multiverse's and main's state.                                 *)
THEOREM TypeCorrect == TSafeSpec => []TTypeOK
  BY InitTypeOK, NextTypeOK, PTL DEF TSafeSpec
-----------------------------------------------------------------------------
(* What a step of main may do to the engine. *)

Quiet == UNCHANGED <<value, image, frozen, fixed, text, fnSize, mvfnSize, guard, work>>

LEMMA StepCases ==
  ASSUME [TNext]_tvars
  PROVE  \/ \E n \in Name, x \in Value : DoChange(n, x)
         \/ \E v \in Var : ApplyVar(v) /\ UNCHANGED <<stage, all, kept>>
         \/ \E f \in Fn : ApplyFn(f) /\ UNCHANGED <<stage, all, kept>>
         \/ Quiet
<1>1. CASE ChangeThrows \/ ChangeFails \/ ChangesDone
  BY <1>1 DEF ChangeThrows, ChangeFails, ChangesDone, vars, Quiet
<1>2. ASSUME NEW n \in Name, DoApply(n) PROVE Quiet
  BY <1>2 DEF DoApply, Apply, StartApply, Quiet
<1>3. CASE AppliesDone
  BY <1>3 DEF AppliesDone, DoApplyAll, NoApplyAll, ApplyAll, StartApply, vars, Quiet
<1>4. CASE ApplyStep
  BY <1>4 DEF ApplyStep, Step
<1>5. CASE AllDone \/ WriteEnds \/ Exited \/ UNCHANGED tvars
  BY <1>5 DEF AllDone, WriteEnds, Write, WriteThrows, Exited, tvars, vars, Quiet
<1> QED BY <1>1, <1>2, <1>3, <1>4, <1>5 DEF TNext

(* The order of main: nothing is frozen or bound while options are set,    *)
(* and no apply is running once the output is written.                     *)
StageInv ==
  /\ stage = "change" => /\ Idle
                         /\ \A v \in Var : ~frozen[v]
                         /\ \A f \in Fn : ~fixed[f]
  /\ stage \in {"write", "written", "aborted"} => Idle

LEMMA InitStageInv == TInit => StageInv
  BY DEF TInit, Init, StageInv, Idle

LEMMA NextStageInv == TTypeOK /\ StageInv /\ [TNext]_tvars => StageInv'
<1> SUFFICES ASSUME TTypeOK, StageInv, [TNext]_tvars PROVE StageInv'
  OBVIOUS
<1> USE DEF StageInv, Idle
<1>1. ASSUME NEW n \in Name, NEW x \in Value, DoChange(n, x) PROVE StageInv'
  BY <1>1 DEF DoChange, Change
<1>2. CASE ChangeThrows \/ ChangeFails \/ ChangesDone
  BY <1>2 DEF ChangeThrows, ChangeFails, ChangesDone, Goto, vars
<1>3. ASSUME NEW n \in Name, DoApply(n) PROVE StageInv'
  BY <1>3 DEF DoApply, Apply, StartApply
<1>4. CASE AppliesDone
  BY <1>4 DEF AppliesDone, DoApplyAll, NoApplyAll, ApplyAll, StartApply, Goto, vars
<1>5. CASE ApplyStep
  BY <1>5 DEF ApplyStep, Step, ApplyVar, ApplyFn
<1>6. CASE AllDone
  BY <1>6 DEF AllDone, Goto, vars
<1>7. CASE WriteEnds
  BY <1>7 DEF WriteEnds, Write, WriteThrows, Goto, vars
<1>8. CASE Exited \/ UNCHANGED tvars
  BY <1>8 DEF Exited, tvars, vars
<1> QED BY <1>1, <1>2, <1>3, <1>4, <1>5, <1>6, <1>7, <1>8 DEF TNext

(* What a run of the command has committed it neither changes nor          *)
(* releases, for every executable: main makes its changes first.           *)
THEOREM CommittedForEver == TSafeSpec => VarianceRemoved
<1> DEFINE Keeps == \A v \in Var : frozen[v] => frozen'[v] /\ value'[v] = value[v]
<1>1. TTypeOK /\ StageInv /\ [TNext]_tvars => [Keeps]_vars
  <2> SUFFICES ASSUME TTypeOK, StageInv, [TNext]_tvars PROVE Keeps
    OBVIOUS
  <2>1. ASSUME NEW n \in Name, NEW x \in Value, DoChange(n, x) PROVE Keeps
    BY <2>1 DEF DoChange, StageInv
  <2>2. ASSUME NEW v \in Var, ApplyVar(v) PROVE Keeps
    BY <2>2 DEF ApplyVar, TTypeOK, TypeOK
  <2>3. ASSUME NEW f \in Fn, ApplyFn(f) PROVE Keeps
    BY <2>3 DEF ApplyFn
  <2>4. CASE Quiet
    BY <2>4 DEF Quiet
  <2> QED BY <2>1, <2>2, <2>3, <2>4, StepCases
<1> HIDE DEF Keeps
<1>2. TSafeSpec => [][[Keeps]_vars]_tvars
  BY <1>1, TypeCorrect, InitStageInv, NextStageInv, PTL DEF TSafeSpec
<1>3. [[Keeps]_vars]_tvars => [Keeps]_vars
  BY DEF tvars
<1>4. TSafeSpec => [][Keeps]_vars
  BY <1>2, <1>3, PTL
<1> QED BY <1>4 DEF Keeps, VarianceRemoved
-----------------------------------------------------------------------------
(* The sizes of the symbols are probed once. *)

LEMMA NextFits == ProbeFits /\ [TNext]_tvars => ProbeFits'
<1> SUFFICES ASSUME ProbeFits, [TNext]_tvars PROVE ProbeFits'
  OBVIOUS
<1>1. UNCHANGED <<fnSize, mvfnSize>>
  BY StepCases DEF DoChange, Change, ApplyVar, ApplyFn, Quiet
<1> QED BY <1>1 DEF ProbeFits
-----------------------------------------------------------------------------
(* Facts about well-formed executables. *)

LEMMA EntryIsCode ==
  ASSUME WellFormed, NEW f \in Fn
  PROVE  /\ fnAt[f] \in Addr /\ fnAt[f] \in Entry(f)
         /\ Entry(f) \subseteq FnBody(f)
         /\ \A c \in Callsite : fnAt[f] \notin Site(c)
<1>1. fnAt[f] \in Nat /\ fnLen[f] \in Nat /\ fnLen[f] >= 5
  BY FnAssumption DEF WellFormed, EntryInBody
<1>2. fnAt[f] \in Entry(f) /\ Entry(f) \subseteq FnBody(f)
  BY <1>1 DEF Entry, FnBody, Span
<1> QED BY <1>2 DEF WellFormed, EntryInBody, SitesDisjoint

(* With fitting sizes the guard stays inside the bodies of f and of the    *)
(* variants of f that were not selected.                                   *)
LEMMA GuardStaysInside ==
  ASSUME WellFormed, ProbeFits, TTypeOK,
         NEW f \in Fn, NEW i \in DOMAIN mvfns[f], NEW a \in GuardArea(f, i)
  PROVE  \/ a \in FnBody(f)
         \/ \E n \in Variants(f) : n # mvfns[f][i] /\ a \in Body(n)
<1>1. CASE a \in Span(fnAt[f], fnSize[f])
  <2>1. fnAt[f] \in Nat /\ fnLen[f] \in Nat /\ fnSize[f] \in Nat /\ fnSize[f] <= fnLen[f]
    BY FnAssumption DEF TTypeOK, TypeOK, ProbeFits
  <2> QED BY <1>1, <2>1 DEF Span, FnBody
<1>2. ASSUME NEW j \in DOMAIN mvfns[f] \ {i},
             a \in Span(mvfnAt[mvfns[f][j]], mvfnSize[mvfns[f][j]])
      PROVE  mvfns[f][j] # mvfns[f][i] /\ a \in Body(mvfns[f][j])
  <2> DEFINE n == mvfns[f][j]
  <2>1. n \in Mvfn
    BY VariantOfIndex
  <2>2. n # mvfns[f][i]
    BY <1>2 DEF WellFormed, Owned
  <2>3. mvfnAt[n] \in Nat /\ mvfnLen[n] \in Nat /\ mvfnSize[n] \in Nat /\ mvfnSize[n] <= mvfnLen[n]
    BY <2>1, MvfnAssumption DEF TTypeOK, TypeOK, ProbeFits
  <2> QED BY <1>2, <2>2, <2>3 DEF Span, Body
<1> QED BY <1>1, <1>2, VariantOfIndex DEF GuardArea

(* The whole effect of binding f on the bytes, address by address. *)
LEMMA BindEffect ==
  ASSUME WellFormed, ProbeFits, TTypeOK,
         NEW f \in Fn, NEW i \in DOMAIN mvfns[f], Bind(f, i),
         NEW a \in Addr
  PROVE  LET m == mvfns[f][i] IN
         /\ \A c \in Callsite : csFn[c] = f /\ a \in Site(c) => text'[a] = CallCell(c, m, a)
         /\ a \in Entry(f) => text'[a] = JumpCell(f, m, a)
         /\ \/ \E c \in Callsite : csFn[c] = f /\ a \in Site(c)
            \/ a \in FnBody(f)
            \/ \E n \in Variants(f) : n # m /\ a \in Body(n)
            \/ text'[a] = text[a]
<1> DEFINE m == mvfns[f][i]
           t == IF guard THEN Guarded(text, f, i) ELSE text
<1>1. text' = Patched(t, f, m)
  BY DEF Bind
<1>2. ASSUME NEW c \in Callsite, csFn[c] = f, a \in Site(c)
      PROVE  text'[a] = CallCell(c, m, a)
  <2>1. c \in CallsitesOf(f)
    BY <1>2 DEF CallsitesOf
  <2>2. \A d \in CallsitesOf(f) : a \in Site(d) => d = c
    BY <1>2 DEF WellFormed, SitesDisjoint, CallsitesOf
  <2>3. (CHOOSE d \in CallsitesOf(f) : a \in Site(d)) = c
    BY <1>2, <2>1, <2>2
  <2> HIDE DEF t, m
  <2> QED BY <1>1, <1>2, <2>1, <2>3 DEF Patched
<1>3. ASSUME a \in Entry(f) PROVE text'[a] = JumpCell(f, m, a)
  <2>1. \A c \in Callsite : a \notin Site(c)
    BY <1>3 DEF WellFormed, SitesDisjoint
  <2> HIDE DEF t, m
  <2> QED BY <1>1, <1>3, <2>1 DEF Patched, CallsitesOf
<1>4. ASSUME ~ \E c \in Callsite : csFn[c] = f /\ a \in Site(c),
             a \notin FnBody(f),
             ~ \E n \in Variants(f) : n # m /\ a \in Body(n)
      PROVE  text'[a] = text[a]
  <2>1. a \notin GuardArea(f, i)
    BY <1>4, GuardStaysInside
  <2>2. t[a] = text[a]
    BY <2>1 DEF Guarded
  <2>3. a \notin Entry(f)
    BY <1>4, EntryIsCode
  <2> HIDE DEF t, m
  <2> QED BY <1>1, <1>4, <2>2, <2>3 DEF Patched, CallsitesOf
<1> QED BY <1>2, <1>3, <1>4

(* Binding f makes its entry reach the variant and leaves the entry of     *)
(* every other function alone.                                             *)
LEMMA BindTarget ==
  ASSUME WellFormed, ProbeFits, TTypeOK,
         NEW f \in Fn, NEW i \in DOMAIN mvfns[f], Bind(f, i)
  PROVE  /\ Target(f)' = mvfns[f][i]
         /\ \A g \in Fn \ {f} : Target(g)' = Target(g)
<1>1. Target(f)' = mvfns[f][i]
  <2>1. text'[fnAt[f]] = JumpCell(f, mvfns[f][i], fnAt[f])
    BY EntryIsCode, BindEffect
  <2> QED BY <2>1 DEF Target, JumpCell
<1>2. ASSUME NEW g \in Fn \ {f} PROVE Target(g)' = Target(g)
  <2>1. fnAt[g] \in Addr /\ fnAt[g] \in FnBody(g) /\ \A c \in Callsite : fnAt[g] \notin Site(c)
    BY EntryIsCode
  <2>2. fnAt[g] \notin FnBody(f)
    BY <2>1 DEF WellFormed, BodiesDisjoint
  <2>3. \A n \in Variants(f) : fnAt[g] \notin Body(n)
    <3>1. Variants(f) \subseteq Mvfn
      BY VariantOfIndex DEF Variants
    <3> QED BY <2>1, <3>1 DEF WellFormed, BodiesDisjoint
  <2>4. text'[fnAt[g]] = text[fnAt[g]]
    BY <2>1, <2>2, <2>3, BindEffect
  <2> QED BY <2>4 DEF Target
<1> QED BY <1>1, <1>2
-----------------------------------------------------------------------------
(* The selection of a variant. *)

(* The variants of a function depend on the same variables, so one         *)
(* candidate means that all variables of the function are frozen.          *)
LEMMA CandidateFreezesAll ==
  ASSUME WellFormed, NEW f \in Fn, NEW i \in Candidates(f), NEW m \in Variants(f)
  PROVE  AssignVarsFrozen(m)
<1>1. i \in DOMAIN mvfns[f] /\ AssignVarsFrozen(mvfns[f][i])
  BY DEF Candidates
<1>2. VarsOf(m) = VarsOf(mvfns[f][i])
  BY <1>1, VariantOfIndex DEF WellFormed, Uniform
<1> QED BY <1>1, <1>2 DEF AssignVarsFrozen, VarsOf

(* Before anything is frozen nothing can be bound. *)
LEMMA NothingFrozen ==
  ASSUME WellFormed, \A v \in Var : ~frozen[v],
         NEW f \in Fn, NEW i \in DOMAIN mvfns[f]
  PROVE  ~AssignVarsFrozen(mvfns[f][i])
<1>1. mvfns[f][i] \in Variants(f) /\ mvfns[f][i] \in Mvfn
  BY VariantOfIndex
<1>2. PICK as \in assigns[mvfns[f][i]] : TRUE
  BY <1>1 DEF WellFormed, Uniform, VarsOf
<1> QED BY <1>1, <1>2, MvfnAssumption DEF AssignVarsFrozen

(* Freezing one more variable does not change the choice of a function     *)
(* that already has one...                                                 *)
LEMMA FreezingKeepsChoice ==
  ASSUME WellFormed, TTypeOK, NEW v \in Var, ApplyVar(v),
         NEW f \in Fn, Candidates(f) # {}
  PROVE  Candidates(f)' = Candidates(f)
<1>1. \A i \in DOMAIN mvfns[f] : AssignVarsFrozen(mvfns[f][i])
  BY CandidateFreezesAll, VariantOfIndex
<1>2. \A u \in Var : frozen[u] => frozen'[u]
  BY DEF ApplyVar, TTypeOK, TypeOK
<1>3. \A i \in DOMAIN mvfns[f] : AssignVarsFrozen(mvfns[f][i])'
  BY <1>1, <1>2, MvfnAssumption, VariantOfIndex DEF AssignVarsFrozen
<1>4. \A i \in DOMAIN mvfns[f] : Active(mvfns[f][i])' = Active(mvfns[f][i])
  BY DEF ApplyVar, Active, IsActive
<1> QED BY <1>1, <1>3, <1>4 DEF Candidates

(* ... and gives one only to functions linked to the variable. *)
LEMMA FreezingGivesChoice ==
  ASSUME WellFormed, TTypeOK, NEW v \in Var, ApplyVar(v),
         NEW f \in Fn, Candidates(f) = {}, f \notin LinkedFns(v)
  PROVE  Candidates(f)' = {}
<1> SUFFICES ASSUME NEW i \in Candidates(f)' PROVE FALSE
  OBVIOUS
<1>1. i \in DOMAIN mvfns[f] /\ AssignVarsFrozen(mvfns[f][i])' /\ Active(mvfns[f][i])'
  BY DEF Candidates
<1>2. \A as \in assigns[mvfns[f][i]] : as.var \in Var /\ as.var # v
  BY <1>1, VariantOfIndex, MvfnAssumption DEF LinkedFns
<1>3. AssignVarsFrozen(mvfns[f][i])
  BY <1>1, <1>2 DEF AssignVarsFrozen, ApplyVar, TTypeOK, TypeOK
<1>4. Active(mvfns[f][i])
  BY <1>1 DEF ApplyVar, Active, IsActive
<1> QED BY <1>1, <1>3, <1>4 DEF Candidates

(* Every function reaches its first choice if it is bound and no variant   *)
(* if it is not; and one that has a choice is bound or about to be.        *)
BindInv ==
  \A f \in Fn :
    /\ fixed[f] => \E i \in DOMAIN mvfns[f] :
                     IsFirst(i, Candidates(f)) /\ Target(f) = mvfns[f][i]
    /\ ~fixed[f] => Target(f) = NoMvfn
    /\ Candidates(f) # {} => fixed[f] \/ f \in work

IInv == TTypeOK /\ StageInv /\ ProbeFits /\ BindInv

LEMMA InitIInv == ASSUME WellFormed PROVE TInit /\ ProbeFits => IInv
<1> SUFFICES ASSUME TInit, ProbeFits PROVE IInv
  OBVIOUS
<1>1. TTypeOK /\ StageInv
  BY InitTypeOK, InitStageInv
<1>2. \A f \in Fn : ~fixed[f] /\ Candidates(f) = {}
  BY <1>1, NothingFrozen DEF TInit, StageInv, Candidates
<1>3. \A f \in Fn : Target(f) = NoMvfn
  BY EntryIsCode DEF TInit, Init, Target, Code
<1> QED BY <1>1, <1>2, <1>3 DEF IInv, BindInv

(* If f is bound already, binding it again finds the same variant.         *)
LEMMA RebindSame ==
  ASSUME WellFormed, IInv, NEW f \in Fn, NEW i \in DOMAIN mvfns[f], Bind(f, i), fixed[f]
  PROVE  Target(f) = mvfns[f][i]
<1>1. PICK j \in DOMAIN mvfns[f] : IsFirst(j, Candidates(f)) /\ Target(f) = mvfns[f][j]
  BY DEF IInv, BindInv
<1>2. i \in Nat /\ j \in Nat
  BY FnAssumption
<1>3. i <= j /\ j <= i
  BY <1>1 DEF Bind, IsFirst
<1> QED BY <1>1, <1>2, <1>3

LEMMA NextIInv == ASSUME WellFormed PROVE IInv /\ [TNext]_tvars => IInv'
<1> SUFFICES ASSUME IInv, [TNext]_tvars PROVE IInv'
  OBVIOUS
<1>1. TTypeOK' /\ StageInv' /\ ProbeFits'
  BY NextTypeOK, NextStageInv, NextFits DEF IInv
<1>2. BindInv'
  <2>1. ASSUME NEW n \in Name, NEW x \in Value, DoChange(n, x) PROVE BindInv'
    <3>1. frozen' = frozen /\ \A v \in Var : ~frozen[v]
      BY <2>1 DEF DoChange, Change, IInv, StageInv
    <3>2. \A f \in Fn : Candidates(f)' = {}
      BY <3>1, NothingFrozen DEF Candidates, AssignVarsFrozen
    <3>3. \A f \in Fn : ~fixed'[f] /\ Target(f)' = NoMvfn
      BY <2>1 DEF DoChange, Change, IInv, StageInv, BindInv, Target
    <3> QED BY <3>2, <3>3 DEF BindInv
  <2>2. ASSUME NEW v \in Var, ApplyVar(v), NEW f \in Fn
        PROVE  /\ fixed'[f] => \E i \in DOMAIN mvfns[f] :
                 IsFirst(i, Candidates(f)') /\ Target(f)' = mvfns[f][i]
               /\ ~fixed'[f] => Target(f)' = NoMvfn
               /\ Candidates(f)' # {} => fixed'[f] \/ f \in work'
    <3>1. fixed' = fixed /\ Target(f)' = Target(f) /\ work = {} /\ work' = LinkedFns(v)
      BY <2>2 DEF ApplyVar, Target
    <3>2. CASE Candidates(f) # {}
      <4>1. Candidates(f)' = Candidates(f)
        BY <2>2, <3>2, FreezingKeepsChoice DEF IInv
      <4> QED BY <3>1, <4>1 DEF IInv, BindInv
    <3>3. CASE Candidates(f) = {}
      <4>1. ~fixed[f]
        BY <3>3 DEF IInv, BindInv, IsFirst
      <4>2. f \notin LinkedFns(v) => Candidates(f)' = {}
        BY <2>2, <3>3, FreezingGivesChoice DEF IInv
      <4> QED BY <3>1, <4>1, <4>2 DEF IInv, BindInv
    <3> QED BY <3>2, <3>3
  <2>3. ASSUME NEW f \in Fn, ApplyFn(f) PROVE BindInv'
    <3>1. \A g \in Fn : Candidates(g)' = Candidates(g)
      BY <2>3 DEF ApplyFn, Candidates, AssignVarsFrozen, Active, IsActive
    <3>2. work' = work \ {f}
      BY <2>3 DEF ApplyFn
    <3>3. CASE Candidates(f) = {} /\ UNCHANGED <<text, fixed>>
      BY <3>1, <3>2, <3>3 DEF IInv, BindInv, Target
    <3>4. ASSUME NEW i \in DOMAIN mvfns[f], Bind(f, i) PROVE BindInv'
      <4>1. /\ Target(f)' = mvfns[f][i]
            /\ \A g \in Fn \ {f} : Target(g)' = Target(g)
        BY <3>4, BindTarget DEF IInv
      <4>2. /\ fixed'[f]
            /\ \A g \in Fn \ {f} : fixed'[g] = fixed[g]
        BY <3>4 DEF Bind, IInv, TTypeOK, TypeOK
      <4>3. IsFirst(i, Candidates(f)')
        BY <3>1, <3>4 DEF Bind
      <4> QED BY <3>1, <3>2, <4>1, <4>2, <4>3 DEF IInv, BindInv
    <3> QED BY <2>3, <3>3, <3>4 DEF ApplyFn
  <2>4. CASE Quiet
    <3>1. \A g \in Fn : Candidates(g)' = Candidates(g) /\ Target(g)' = Target(g)
      BY <2>4 DEF Quiet, Candidates, AssignVarsFrozen, Active, IsActive, Target
    <3> QED BY <2>4, <3>1 DEF Quiet, IInv, BindInv
  <2> QED BY <2>1, <2>2, <2>3, <2>4, StepCases DEF BindInv
<1> QED BY <1>1, <1>2 DEF IInv

LEMMA Invariant == ASSUME WellFormed PROVE TSafeSpec /\ ProbeFits => []IInv
  BY InitIInv, NextIInv, PTL DEF TSafeSpec
-----------------------------------------------------------------------------
(* The bindings. *)

(* A function is only bound to a variant that its final configuration      *)
(* selects; for every well-formed executable and every list of options.    *)
THEOREM BoundCorrectly ==
  ASSUME WellFormed PROVE TSafeSpec /\ ProbeFits => []BoundMatchesConfig
<1>1. IInv => BoundMatchesConfig
  BY VariantOfIndex DEF IInv, BindInv, BoundMatchesConfig, IsFirst, Candidates
<1> QED BY <1>1, Invariant, PTL

(* What write relies on, and module InfoArea starts from: a function it     *)
(* drops (is_fixed) depends on variables, and it drops all of these too.   *)
BoundIsCommitted ==
  \A f \in Fn : fixed[f] =>
    \A m \in Variants(f) : VarsOf(m) # {} /\ \A v \in VarsOf(m) : frozen[v]

(* MVFn::apply looks at the variables of one variant only; since all       *)
(* variants guard the same ones it commits none but a decided function.    *)
THEOREM BoundOnlyWhenCommitted ==
  ASSUME WellFormed PROVE TSafeSpec /\ ProbeFits => []BoundIsCommitted
<1>1. BoundMatchesConfig => BoundIsCommitted
  <2> SUFFICES ASSUME BoundMatchesConfig,
                      NEW f \in Fn, fixed[f], NEW m \in Variants(f)
               PROVE  VarsOf(m) # {} /\ \A v \in VarsOf(m) : frozen[v]
    BY DEF BoundIsCommitted
  <2>1. PICK n \in Variants(f) : AssignVarsFrozen(n)
    BY DEF BoundMatchesConfig
  <2>2. VarsOf(m) # {} /\ VarsOf(m) = VarsOf(n)
    BY DEF WellFormed, Uniform
  <2>3. \A v \in VarsOf(n) : frozen[v]
    BY <2>1 DEF AssignVarsFrozen, VarsOf
  <2> QED BY <2>2, <2>3
<1> QED BY <1>1, BoundCorrectly, PTL

(* When an option has been processed every function is bound that can be.  *)
THEOREM NothingMissed ==
  ASSUME WellFormed PROVE TSafeSpec /\ ProbeFits => []DecidedIsBound
<1>1. IInv => DecidedIsBound
  BY DEF IInv, BindInv, DecidedIsBound, Idle
<1> QED BY <1>1, Invariant, PTL

(* A step that binds f leaves every other binding alone and finds for f    *)
(* what f was bound to before, if it was.                                  *)
LEMMA BindingsStay ==
  ASSUME WellFormed, IInv, [TNext]_tvars, NEW f \in Fn, fixed[f]
  PROVE  fixed'[f] /\ Target(f)' = Target(f)
<1>1. ASSUME NEW n \in Name, NEW x \in Value, DoChange(n, x)
      PROVE  fixed'[f] /\ Target(f)' = Target(f)
  BY <1>1 DEF DoChange, Change, Target
<1>2. ASSUME NEW v \in Var, ApplyVar(v) PROVE fixed'[f] /\ Target(f)' = Target(f)
  BY <1>2 DEF ApplyVar, Target
<1>3. ASSUME NEW g \in Fn, ApplyFn(g) PROVE fixed'[f] /\ Target(f)' = Target(f)
  <2>1. CASE UNCHANGED <<text, fixed>>
    BY <2>1 DEF Target
  <2>2. ASSUME NEW i \in DOMAIN mvfns[g], Bind(g, i)
        PROVE  fixed'[f] /\ Target(f)' = Target(f)
    <3>1. fixed'[f]
      BY <2>2 DEF Bind, IInv, TTypeOK, TypeOK
    <3>2. Target(f)' = Target(f)
      BY <2>2, BindTarget, RebindSame DEF IInv
    <3> QED BY <3>1, <3>2
  <2> QED BY <1>3, <2>1, <2>2 DEF ApplyFn
<1>4. CASE Quiet
  BY <1>4 DEF Quiet, Target
<1> QED BY <1>1, <1>2, <1>3, <1>4, StepCases

(* No binding is ever undone or replaced, although MVFn::apply runs again  *)
(* and again for a function that is already bound.                         *)
THEOREM BindingsAreForEver ==
  ASSUME WellFormed PROVE TSafeSpec /\ ProbeFits => BoundForever
<1>1. IInv /\ [TNext]_tvars
      => [\A f \in Fn : fixed[f] => fixed'[f] /\ Target(f)' = Target(f)]_tvars
  BY BindingsStay
<1> QED BY <1>1, Invariant, PTL DEF TSafeSpec, BoundForever
-----------------------------------------------------------------------------
(* The bytes. *)

LEMMA InitLiveText == TInit => LiveTextExact
<1> SUFFICES ASSUME TInit PROVE LiveTextExact
  OBVIOUS
<1>1. \A a : CallPatched(a) = {} /\ EntryPatched(a) = {}
  BY CallsiteAssumption DEF TInit, Init, CallPatched, EntryPatched
<1> QED BY <1>1 DEF TInit, Init, LiveTextExact

(* Dead code is never revived. *)
LEMMA DeadStays ==
  ASSUME WellFormed, IInv, [TNext]_tvars
  PROVE  Dead \subseteq Dead'
<1>1. ASSUME NEW f \in Fn, fixed[f] PROVE fixed'[f] /\ DeadOf(f)' = DeadOf(f)
  BY <1>1, BindingsStay DEF DeadOf
<1> QED BY <1>1 DEF Dead

(* Binding f keeps live code exact. *)
LEMMA BindLiveText ==
  ASSUME WellFormed, IInv, LiveTextExact, [TNext]_tvars,
         NEW f \in Fn, NEW i \in DOMAIN mvfns[f], Bind(f, i)
  PROVE  LiveTextExact'
<1> DEFINE m == mvfns[f][i]
<1>1. Target(f)' = m /\ \A g \in Fn \ {f} : Target(g)' = Target(g)
  BY BindTarget DEF IInv
<1>2. fixed'[f] /\ \A g \in Fn \ {f} : fixed'[g] = fixed[g]
  BY DEF Bind, IInv, TTypeOK, TypeOK
<1> SUFFICES ASSUME NEW a \in Addr, a \notin Dead'
             PROVE  /\ \A c \in CallPatched(a)' : text'[a] = CallCell(c, Target(csFn[c])', a)
                    /\ \A g \in EntryPatched(a)' : text'[a] = JumpCell(g, Target(g)', a)
                    /\ CallPatched(a)' = {} /\ EntryPatched(a)' = {} => text'[a] = Code
  BY DEF LiveTextExact
<1>3. a \notin Dead
  BY DeadStays
<1>4. a \notin DeadOf(f)'
  BY <1>2 DEF Dead
<1>5. a \in FnBody(f) => a \in Entry(f)
  BY <1>4 DEF DeadOf
<1>6. \A n \in Variants(f) : n # m => a \notin Body(n)
  BY <1>1, <1>4 DEF DeadOf
<1>7. a \in Entry(f) => text'[a] = JumpCell(f, m, a)
  BY BindEffect DEF IInv
<1>8. \A c \in Callsite : csFn[c] = f /\ a \in Site(c) => text'[a] = CallCell(c, m, a)
  BY BindEffect DEF IInv
<1>9. \/ \E c \in Callsite : csFn[c] = f /\ a \in Site(c)
      \/ a \in Entry(f)
      \/ text'[a] = text[a]
  BY <1>5, <1>6, BindEffect DEF IInv
<1>10. \A c, d \in Callsite : a \in Site(c) /\ a \in Site(d) => c = d
  BY DEF WellFormed, SitesDisjoint
<1>11. \A c \in Callsite, g \in Fn : ~(a \in Site(c) /\ a \in Entry(g))
  BY DEF WellFormed, SitesDisjoint
<1>12. \A g, h \in Fn : a \in Entry(g) /\ a \in Entry(h) => g = h
  BY EntryIsCode DEF WellFormed, BodiesDisjoint
<1> HIDE DEF m
<1>13. ASSUME NEW c \in CallPatched(a)' PROVE text'[a] = CallCell(c, Target(csFn[c])', a)
  <2>1. c \in Callsite /\ a \in Site(c) /\ fixed'[csFn[c]] /\ csFn[c] \in Fn
    BY <1>13, CallsiteAssumption DEF CallPatched
  <2>2. CASE csFn[c] = f
    BY <1>1, <1>8, <2>1, <2>2
  <2>3. CASE csFn[c] # f
    <3>1. text'[a] = text[a]
      BY <1>9, <1>10, <1>11, <2>1, <2>3
    <3>2. c \in CallPatched(a)
      BY <1>2, <2>1, <2>3 DEF CallPatched
    <3>3. text[a] = CallCell(c, Target(csFn[c]), a)
      BY <1>3, <3>2 DEF LiveTextExact
    <3> QED BY <1>1, <2>1, <2>3, <3>1, <3>3
  <2> QED BY <2>2, <2>3
<1>14. ASSUME NEW g \in EntryPatched(a)' PROVE text'[a] = JumpCell(g, Target(g)', a)
  <2>1. g \in Fn /\ a \in Entry(g) /\ fixed'[g]
    BY <1>14 DEF EntryPatched
  <2>2. CASE g = f
    BY <1>1, <1>7, <2>1, <2>2
  <2>3. CASE g # f
    <3>1. text'[a] = text[a]
      BY <1>9, <1>11, <1>12, <2>1, <2>3
    <3>2. g \in EntryPatched(a)
      BY <1>2, <2>1, <2>3 DEF EntryPatched
    <3>3. text[a] = JumpCell(g, Target(g), a)
      BY <1>3, <3>2 DEF LiveTextExact
    <3> QED BY <1>1, <2>1, <2>3, <3>1, <3>3
  <2> QED BY <2>2, <2>3
<1>15. ASSUME CallPatched(a)' = {}, EntryPatched(a)' = {} PROVE text'[a] = Code
  <2>1. CallPatched(a) = {} /\ EntryPatched(a) = {}
    BY <1>2, <1>15, CallsiteAssumption DEF CallPatched, EntryPatched
  <2>2. text[a] = Code
    BY <1>3, <2>1 DEF LiveTextExact
  <2>3. a \notin Entry(f) /\ \A c \in Callsite : ~(csFn[c] = f /\ a \in Site(c))
    BY <1>2, <1>15 DEF CallPatched, EntryPatched
  <2> QED BY <1>9, <2>2, <2>3
<1> QED BY <1>13, <1>14, <1>15

LEMMA NextLiveText ==
  ASSUME WellFormed PROVE IInv /\ LiveTextExact /\ [TNext]_tvars => LiveTextExact'
<1> SUFFICES ASSUME IInv, LiveTextExact, [TNext]_tvars PROVE LiveTextExact'
  OBVIOUS
<1>1. CASE UNCHANGED <<text, fixed>>
  <2>1. Dead' = Dead /\ \A f \in Fn : Target(f)' = Target(f)
    BY <1>1 DEF Dead, DeadOf, Target
  <2>2. \A a : CallPatched(a)' = CallPatched(a) /\ EntryPatched(a)' = EntryPatched(a)
    BY <1>1 DEF CallPatched, EntryPatched
  <2> QED BY <1>1, <2>1, <2>2, CallsiteAssumption DEF LiveTextExact, CallPatched, EntryPatched
<1>2. ASSUME NEW f \in Fn, ApplyFn(f) PROVE LiveTextExact'
  BY <1>1, <1>2, BindLiveText DEF ApplyFn
<1> QED BY <1>1, <1>2, StepCases DEF DoChange, Change, ApplyVar, Quiet

(* Outside dead code every byte of the output is determined by what is     *)
(* bound, in whatever order functions were bound, guarded and bound again. *)
THEOREM LiveCodeExact ==
  ASSUME WellFormed PROVE TSafeSpec /\ ProbeFits => []LiveTextExact
<1>1. TInit /\ ProbeFits => LiveTextExact
  BY InitLiveText
<1> QED BY <1>1, NextLiveText, Invariant, PTL DEF TSafeSpec

(* If no probed size is too large, no trap ever lands on live code.        *)
THEOREM NoLiveTrap ==
  ASSUME WellFormed PROVE TSafeSpec /\ ProbeFits => []TrapOnlyDeadCode
<1>1. IInv /\ LiveTextExact => TrapOnlyDeadCode
  <2> SUFFICES ASSUME IInv, LiveTextExact, NEW a \in Addr \ Dead
               PROVE  text[a].op # "trap"
    BY DEF TrapOnlyDeadCode
  <2>1. ASSUME NEW c \in CallPatched(a) PROVE text[a].op # "trap"
    <3>1. text[a] = CallCell(c, Target(csFn[c]), a)
      BY DEF LiveTextExact
    <3> QED BY <3>1 DEF CallCell
  <2>2. ASSUME NEW f \in EntryPatched(a) PROVE text[a].op # "trap"
    <3>1. text[a] = JumpCell(f, Target(f), a)
      BY DEF LiveTextExact
    <3> QED BY <3>1 DEF JumpCell
  <2>3. CASE CallPatched(a) = {} /\ EntryPatched(a) = {}
    BY <2>3 DEF LiveTextExact, Code
  <2> QED BY <2>1, <2>2, <2>3
<1> QED BY <1>1, Invariant, LiveCodeExact, PTL

(* Binding f writes at each address an instruction of f's patch points or, *)
(* if guarding, a trap wherever the guard reaches.                         *)
LEMMA BindCells ==
  ASSUME NEW f \in Fn, NEW i \in DOMAIN mvfns[f], Bind(f, i), NEW a \in Addr
  PROVE  \/ text'[a].op \notin {"trap", "code"}
         \/ text'[a] = Trap
         \/ text'[a] = text[a] /\ ~(guard /\ a \in GuardArea(f, i))
<1> DEFINE m == mvfns[f][i]
           t == IF guard THEN Guarded(text, f, i) ELSE text
<1>1. text' = Patched(t, f, m) /\ m \in Mvfn
  BY VariantOfIndex DEF Bind
<1>2. CASE \E c \in CallsitesOf(f) : a \in Site(c)
  <2>1. PICK c \in Callsite : text'[a] = CallCell(c, m, a)
    <3>1. (CHOOSE c \in CallsitesOf(f) : a \in Site(c)) \in Callsite
      BY <1>2 DEF CallsitesOf
    <3> HIDE DEF t, m
    <3> QED BY <1>1, <1>2, <3>1 DEF Patched
  <2> QED BY <1>1, <2>1, PatchedCell
<1>3. CASE ~(\E c \in CallsitesOf(f) : a \in Site(c)) /\ a \in Entry(f)
  <2>1. text'[a] = JumpCell(f, m, a)
    <3> HIDE DEF t, m
    <3> QED BY <1>1, <1>3 DEF Patched
  <2> QED BY <1>1, <2>1, PatchedCell
<1>4. CASE ~(\E c \in CallsitesOf(f) : a \in Site(c)) /\ a \notin Entry(f)
  <2>1. text'[a] = t[a]
    <3> HIDE DEF t, m
    <3> QED BY <1>1, <1>4 DEF Patched
  <2> QED BY <2>1 DEF Guarded
<1> QED BY <1>2, <1>3, <1>4

(* If no probed size falls short, the guard reaches all code that binding  *)
(* f makes dead.                                                           *)
LEMMA GuardReachesAll ==
  ASSUME WellFormed, IInv, ProbeCovers,
         NEW f \in Fn, NEW i \in DOMAIN mvfns[f], Bind(f, i), NEW a \in DeadOf(f)'
  PROVE  a \in GuardArea(f, i)
<1>1. Target(f)' = mvfns[f][i]
  BY BindTarget DEF IInv
<1>2. CASE a \in FnBody(f)
  <2>1. fnAt[f] \in Nat /\ fnLen[f] \in Nat /\ fnSize[f] \in Nat /\ fnSize[f] >= fnLen[f]
    BY FnAssumption DEF IInv, TTypeOK, TypeOK, ProbeCovers
  <2> QED BY <1>2, <2>1 DEF FnBody, GuardArea, Span
<1>3. ASSUME NEW n \in Variants(f), n # Target(f)', a \in Body(n)
      PROVE  a \in GuardArea(f, i)
  <2>1. PICK j \in DOMAIN mvfns[f] : n = mvfns[f][j]
    BY DEF Variants
  <2>2. j # i
    BY <1>1, <1>3, <2>1
  <2>3. n \in Mvfn
    BY <2>1, VariantOfIndex
  <2>4. /\ mvfnAt[n] \in Nat /\ mvfnLen[n] \in Nat /\ mvfnSize[n] \in Nat
        /\ mvfnSize[n] >= mvfnLen[n]
    BY <2>3, MvfnAssumption DEF IInv, TTypeOK, TypeOK, ProbeCovers
  <2>5. a \in Span(mvfnAt[n], mvfnSize[n])
    BY <1>3, <2>4 DEF Body, Span
  <2> QED BY <2>1, <2>2, <2>5 DEF GuardArea
<1> QED BY <1>2, <1>3 DEF DeadOf

LEMMA NextGuardComplete ==
  ASSUME WellFormed
  PROVE  IInv /\ ProbeCovers /\ GuardComplete /\ [TNext]_tvars => GuardComplete'
<1> SUFFICES ASSUME IInv, ProbeCovers, GuardComplete, [TNext]_tvars PROVE GuardComplete'
  OBVIOUS
<1>1. CASE UNCHANGED <<text, fixed, guard>>
  <2>1. Dead' = Dead
    BY <1>1 DEF Dead, DeadOf, Target
  <2> QED BY <1>1, <2>1 DEF GuardComplete
<1>2. ASSUME NEW f \in Fn, NEW i \in DOMAIN mvfns[f], Bind(f, i), guard' = guard
      PROVE  GuardComplete'
  <2> SUFFICES ASSUME guard, NEW a \in Addr \cap Dead' PROVE text'[a].op # "code"
    BY <1>2 DEF GuardComplete
  <2>1. PICK g \in Fn : fixed'[g] /\ a \in DeadOf(g)'
    BY DEF Dead
  <2>2. CASE g = f
    <3>1. a \in GuardArea(f, i)
      BY <1>2, <2>1, <2>2, GuardReachesAll
    <3> QED BY <1>2, <3>1, BindCells DEF Trap
  <2>3. CASE g # f
    <3>1. fixed[g] /\ Target(g)' = Target(g)
      BY <1>2, <2>1, <2>3, BindTarget DEF Bind, IInv, TTypeOK, TypeOK
    <3>2. a \in DeadOf(g)
      BY <2>1, <3>1 DEF DeadOf
    <3>3. text[a].op # "code"
      BY <3>1, <3>2 DEF GuardComplete, Dead
    <3> QED BY <1>2, <3>3, BindCells DEF Trap
  <2> QED BY <2>2, <2>3
<1>3. ASSUME NEW f \in Fn, ApplyFn(f) PROVE GuardComplete'
  BY <1>1, <1>2, <1>3 DEF ApplyFn
<1> QED BY <1>1, <1>3, StepCases DEF DoChange, Change, ApplyVar, Quiet

LEMMA NextCovers == ProbeCovers /\ [TNext]_tvars => ProbeCovers'
<1> SUFFICES ASSUME ProbeCovers, [TNext]_tvars PROVE ProbeCovers'
  OBVIOUS
<1>1. UNCHANGED <<fnSize, mvfnSize>>
  BY StepCases DEF DoChange, Change, ApplyVar, ApplyFn, Quiet
<1> QED BY <1>1 DEF ProbeCovers

(* If the probed sizes are those of the bodies, a guarded run leaves no    *)
(* byte of code that it made unreachable.                                  *)
THEOREM AllDeadCodeGuarded ==
  ASSUME WellFormed PROVE TSafeSpec /\ ProbeFits /\ ProbeCovers => []GuardComplete
<1>1. TInit => GuardComplete
  <2> SUFFICES ASSUME TInit PROVE Dead = {}
    BY DEF GuardComplete
  <2> QED BY DEF TInit, Init, Dead
<1> QED BY <1>1, NextGuardComplete, NextCovers, Invariant, PTL DEF TSafeSpec
-----------------------------------------------------------------------------
(* The descriptors of the output. *)

KeptInv ==
  stage = "written" => /\ kept \in {Retained, Nothing}
                       /\ ~all => kept = Retained

LEMMA NextKept == StageInv /\ KeptInv /\ [TNext]_tvars => KeptInv'
<1> SUFFICES ASSUME StageInv, KeptInv, [TNext]_tvars PROVE KeptInv'
  OBVIOUS
<1> USE DEF KeptInv
<1>1. ASSUME NEW n \in Name, NEW x \in Value, DoChange(n, x) PROVE KeptInv'
  BY <1>1 DEF DoChange
<1>2. CASE ChangeThrows \/ ChangeFails \/ ChangesDone
  BY <1>2 DEF ChangeThrows, ChangeFails, ChangesDone, Goto
<1>3. ASSUME NEW n \in Name, DoApply(n) PROVE KeptInv'
  BY <1>3 DEF DoApply
<1>4. CASE AppliesDone
  BY <1>4 DEF AppliesDone, DoApplyAll, NoApplyAll, Goto
<1>5. CASE ApplyStep
  BY <1>5 DEF ApplyStep, Step, ApplyVar, ApplyFn, StageInv, Idle
<1>6. CASE AllDone
  BY <1>6 DEF AllDone, Goto
<1>7. CASE WriteEnds
  <2>1. Retained' = Retained
    BY <1>7 DEF WriteEnds, Write, WriteThrows, Retained, vars
  <2> QED BY <1>7, <2>1 DEF WriteEnds, Write, WriteThrows, Goto
<1>8. CASE Exited \/ UNCHANGED tvars
  <2>1. UNCHANGED tvars
    BY <1>8 DEF Exited
  <2>2. Retained' = Retained
    BY <2>1 DEF Retained, tvars, vars
  <2> QED BY <2>1, <2>2 DEF tvars
<1> QED BY <1>1, <1>2, <1>3, <1>4, <1>5, <1>6, <1>7, <1>8 DEF TNext

LEMMA KeptInvariant == TSafeSpec => []KeptInv
<1>1. TInit => KeptInv
  BY DEF TInit, KeptInv
<1> QED BY <1>1, NextKept, TypeCorrect, InitStageInv, NextStageInv, PTL DEF TSafeSpec

(* A call site that stays listed is still the compiler's call, unless it   *)
(* is in dead code.                                                        *)
THEOREM KeptSitesIntact ==
  ASSUME WellFormed PROVE TSafeSpec /\ ProbeFits => []KeptLiveSitesAreCalls
<1>1. KeptInv /\ LiveTextExact => KeptLiveSitesAreCalls
  <2> SUFFICES ASSUME KeptInv, LiveTextExact, stage = "written",
                      NEW c \in kept.callsites, NEW a \in Site(c) \ Dead
               PROVE  text[a] = Code
    BY DEF KeptLiveSitesAreCalls
  <2>1. c \in Callsite /\ ~fixed[csFn[c]]
    BY DEF KeptInv, Retained, Nothing
  <2>2. a \in Addr
    BY <2>1 DEF WellFormed, SitesDisjoint
  <2>3. CallPatched(a) = {}
    BY <2>1 DEF CallPatched, WellFormed, SitesDisjoint
  <2>4. EntryPatched(a) = {}
    BY <2>1 DEF EntryPatched, WellFormed, SitesDisjoint
  <2> QED BY <2>2, <2>3, <2>4 DEF LiveTextExact
<1> QED BY <1>1, KeptInvariant, LiveCodeExact, PTL

(* A partial tailoring leaves everything tunable that was not committed:   *)
(* no function depending on a free variable is bound or loses a call site. *)
THEOREM FreeStaysTunable ==
  ASSUME WellFormed PROVE TSafeSpec /\ ProbeFits => []StillTunable
<1>1. IInv /\ KeptInv => StillTunable
  <2> SUFFICES ASSUME IInv, KeptInv, stage = "written", ~all,
                      NEW v \in Var, ~frozen[v]
               PROVE  /\ v \in kept.vars
                      /\ LinkedFns(v) \subseteq kept.fns
                      /\ \A f \in LinkedFns(v) : CallsitesOf(f) \subseteq kept.callsites
    BY DEF StillTunable
  <2>1. kept = Retained
    BY DEF KeptInv
  <2>2. ASSUME NEW f \in LinkedFns(v) PROVE ~fixed[f]
    <3>1. f \in Fn
      BY DEF LinkedFns
    <3>2. PICK m \in Variants(f) : \E as \in assigns[m] : as.var = v
      BY DEF LinkedFns
    <3>3. ~AssignVarsFrozen(m)
      BY <3>2 DEF AssignVarsFrozen
    <3>4. Candidates(f) = {}
      BY <3>1, <3>3, CandidateFreezesAll
    <3> QED BY <3>1, <3>4 DEF IInv, BindInv, IsFirst
  <2> QED BY <2>1, <2>2 DEF Retained, LinkedFns, CallsitesOf
<1> QED BY <1>1, KeptInvariant, Invariant, PTL
-----------------------------------------------------------------------------
(* The refinement. *)

LEMMA InitRefines == ASSUME WellFormed PROVE TInit => C!AInit
<1> SUFFICES ASSUME TInit PROVE C!AInit
  OBVIOUS
<1>1. \A f \in Fn : Target(f) = NoMvfn
  BY EntryIsCode DEF TInit, Init, Target, Code
<1> QED BY <1>1 DEF TInit, Init, C!AInit

LEMMA StepRefines ==
  ASSUME WellFormed PROVE IInv /\ [TNext]_tvars => [C!ANext]_(C!avars)
<1> SUFFICES ASSUME IInv, [TNext]_tvars PROVE C!ANext \/ UNCHANGED C!avars
  OBVIOUS
<1>1. ASSUME NEW n \in Name, NEW x \in Value, DoChange(n, x) PROVE C!ANext
  <2>1. {v \in Var : frozen[v]} = {}
    BY <1>1 DEF DoChange, IInv, StageInv
  <2>2. C!Configure(Named(n), x)
    BY <1>1, <2>1 DEF C!Configure, DoChange, Change, Target
  <2>3. Named(n) \in SUBSET Var
    BY DEF Named
  <2> QED BY <2>2, <2>3 DEF C!ANext
<1>2. ASSUME NEW v \in Var, ApplyVar(v) PROVE C!ANext
  <2>1. {u \in Var : frozen'[u]} = {u \in Var : frozen[u]} \cup {v}
    BY <1>2 DEF ApplyVar, IInv, TTypeOK, TypeOK
  <2>2. C!Commit(v)
    BY <1>2, <2>1 DEF C!Commit, ApplyVar, Target
  <2> QED BY <2>2 DEF C!ANext
<1>3. ASSUME NEW f \in Fn, ApplyFn(f) PROVE C!ANext \/ UNCHANGED C!avars
  <2>1. value' = value /\ frozen' = frozen
    BY <1>3 DEF ApplyFn
  <2>2. CASE UNCHANGED <<text, fixed>>
    BY <2>1, <2>2 DEF C!avars, Target
  <2>3. ASSUME NEW i \in DOMAIN mvfns[f], Bind(f, i)
        PROVE  C!ANext \/ UNCHANGED C!avars
    <3>1. /\ Target(f)' = mvfns[f][i]
          /\ \A g \in Fn \ {f} : Target(g)' = Target(g)
      BY <2>3, BindTarget DEF IInv
    <3>2. CASE fixed[f]
      <4>1. \A g \in Fn : Target(g)' = Target(g)
        BY <2>3, <3>1, <3>2, RebindSame
      <4> QED BY <2>1, <4>1 DEF C!avars
    <3>3. CASE ~fixed[f]
      <4>1. Target(f) = NoMvfn
        BY <3>3 DEF IInv, BindInv
      <4>2. C!Admits(mvfns[f][i])
        <5>1. AssignVarsFrozen(mvfns[f][i]) /\ Active(mvfns[f][i]) /\ mvfns[f][i] \in Mvfn
          BY <2>3, VariantOfIndex DEF Bind, IsFirst, Candidates
        <5> QED BY <5>1, MvfnAssumption DEF C!Admits, AssignVarsFrozen, Active, IsActive
      <4>3. [g \in Fn |-> Target(g)'] = [[g \in Fn |-> Target(g)] EXCEPT ![f] = mvfns[f][i]]
        BY <3>1
      <4>4. C!Bind(f, mvfns[f][i])
        BY <2>1, <4>1, <4>2, <4>3 DEF C!Bind
      <4> QED BY <2>3, <4>4 DEF C!ANext, C!BindSome
    <3> QED BY <3>2, <3>3
  <2> QED BY <1>3, <2>2, <2>3 DEF ApplyFn
<1>4. CASE Quiet
  BY <1>4 DEF Quiet, C!avars, Target
<1> QED BY <1>1, <1>2, <1>3, <1>4, StepCases

(* Every run of the command does what Commitment promises: through all the *)
(* patching, guarding and rebinding, the entries of the functions show one *)
(* binding each, made once, after its variables were committed.            *)
THEOREM TailorImplementsCommitment ==
  ASSUME WellFormed PROVE TSafeSpec /\ ProbeFits => RefinesCommitment
<1> QED BY InitRefines, StepRefines, Invariant, PTL
        DEF TSafeSpec, RefinesCommitment, C!ASafeSpec
=============================================================================
