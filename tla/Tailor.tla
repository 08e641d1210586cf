------------------------------- MODULE Tailor -------------------------------
(***************************************************************************)
(* One run of the command bintail with an output file: main sets the       *)
(* variables of every -s option, applies the variable of every -a option,  *)
(* applies all variables if -A was given, and writes the output.  The      *)
(* engine's state and steps are those of Multiverse.                       *)
(***************************************************************************)
EXTENDS Multiverse

VARIABLES
  stage,    \* where main is
  all,      \* was -A given?
  kept      \* the descriptors of the executable, in the end of the output

tvars == <<vars, stage, all, kept>>

Stage == {"change", "apply", "applyAll", "write", "written", "aborted"}

Everything == [vars |-> Var, fns |-> Fn, callsites |-> Callsite]
Nothing == [vars |-> {}, fns |-> {}, callsites |-> {}]

TInit == Init /\ stage = "change" /\ all \in BOOLEAN /\ kept = Everything

Goto(s) == stage' = s /\ UNCHANGED <<all, kept>>

(* Mutant: options take effect in the order of the command line. *)
DoChangeAnytime(n, x) ==
  /\ stage \in {"change", "apply"}
  /\ Change(n, x)
  /\ UNCHANGED <<stage, all, kept>>

(* One -s option.  It may name no variable, one, or several. *)
DoChange(n, x) ==
  /\ stage = "change"
  /\ Change(n, x)
  /\ UNCHANGED <<stage, all, kept>>

(* std::stoi throws on an option without a number and nothing catches it.  *)
ChangeThrows == stage = "change" /\ Goto("aborted") /\ UNCHANGED vars

(* The assertion of set_value. *)
ChangeFails ==
  /\ stage = "change"
  /\ \E n \in Name : ~ChangeAsserts(n)
  /\ Goto("aborted")
  /\ UNCHANGED vars

ChangesDone == stage = "change" /\ Goto("apply") /\ UNCHANGED vars

(* One -a option; every call passes the same guard flag. *)
DoApply(n) ==
  /\ stage = "apply"
  /\ Apply(n, guard)
  /\ UNCHANGED <<stage, all, kept>>

DoApplyAll ==
  /\ stage = "apply" /\ all
  /\ ApplyAll(guard)
  /\ Goto("applyAll")

NoApplyAll ==
  /\ stage = "apply" /\ ~all /\ Idle
  /\ Goto("write")
  /\ UNCHANGED vars

AppliesDone == DoApplyAll \/ NoApplyAll

ApplyStep == Step /\ UNCHANGED <<stage, all, kept>>

AllDone == stage = "applyAll" /\ Idle /\ Goto("write") /\ UNCHANGED vars

(* Mutants: the call sites of fixed functions stay listed; functions that  *)
(* depend on any frozen variable are dropped.                              *)
RetainedAllSites ==
  [vars      |-> {v \in Var : ~frozen[v]},
   fns       |-> {f \in Fn : ~fixed[f]},
   callsites |-> Callsite]
RetainedUntouched ==
  [vars      |-> {v \in Var : ~frozen[v]},
   fns       |-> {f \in Fn : \A v \in Var : frozen[v] => f \notin LinkedFns(v)},
   callsites |-> {c \in Callsite : ~fixed[csFn[c]]}]

(* The multiverse sections are written without the frozen variables, the   *)
(* fixed functions and their call sites; under -A init_write has dropped   *)
(* the sections themselves before anything was applied.                    *)
Retained ==
  [vars      |-> {v \in Var : ~frozen[v]},
   fns       |-> {f \in Fn : ~fixed[f]},
   callsites |-> {c \in Callsite : ~fixed[csFn[c]]}]

Write ==
  /\ stage = "write"
  /\ stage' = "written"
  /\ kept' = IF all THEN Nothing ELSE Retained
  /\ UNCHANGED <<vars, all>>

(* write_ptr and update_relocs_sym throw before anything is written. *)
WriteThrows == stage = "write" /\ Goto("aborted") /\ UNCHANGED vars

WriteEnds == Write \/ WriteThrows

Exited == stage \in {"written", "aborted"} /\ UNCHANGED tvars

TNext ==
  \/ \E n \in Name, x \in Value : DoChange(n, x)
  \/ ChangeThrows
  \/ ChangeFails
  \/ ChangesDone
  \/ \E n \in Name : DoApply(n)
  \/ AppliesDone
  \/ ApplyStep
  \/ AllDone
  \/ WriteEnds
  \/ Exited

TSafeSpec == TInit /\ [][TNext]_tvars

(* main is sequential and argv finite: every loop it enters it leaves.     *)
Fairness ==
  /\ WF_tvars(ChangesDone)
  /\ SF_tvars(AppliesDone)
  /\ WF_tvars(ApplyStep)
  /\ WF_tvars(AllDone)
  /\ WF_tvars(WriteEnds)

TSpec == TSafeSpec /\ Fairness
-----------------------------------------------------------------------------
(* Hypotheses on the executable, by which the properties are proved.       *)

VarsOf(m) == {as.var : as \in assigns[m]}

(* The compiler specializes a function for a fixed set of variables.       *)
Uniform ==
  \A f \in Fn : \A m \in Variants(f) :
    /\ VarsOf(m) # {}
    /\ \A n \in Variants(f) : VarsOf(n) = VarsOf(m)

(* A descriptor belongs to one function. *)
Owned ==
  \A f, g \in Fn : \A i \in DOMAIN mvfns[f], j \in DOMAIN mvfns[g] :
    mvfns[f][i] = mvfns[g][j] => f = g /\ i = j

EntryInBody == \A f \in Fn : fnLen[f] >= 5 /\ Entry(f) \subseteq Addr

BodiesDisjoint ==
  /\ \A f, g \in Fn : f # g => FnBody(f) \cap FnBody(g) = {}
  /\ \A f \in Fn, m \in Mvfn : FnBody(f) \cap Body(m) = {}
  /\ \A m, n \in Mvfn : m # n => Body(m) \cap Body(n) = {}

(* No call instruction overlaps another one or the bytes of an entry jump. *)
SitesDisjoint ==
  /\ \A c \in Callsite : Site(c) \subseteq Addr
  /\ \A c, d \in Callsite : c # d => Site(c) \cap Site(d) = {}
  /\ \A c \in Callsite, f \in Fn : Site(c) \cap Entry(f) = {}

WellFormed == Uniform /\ Owned /\ EntryInBody /\ BodiesDisjoint /\ SitesDisjoint

(* The probed sizes do not exceed, or do not fall short of, the bodies     *)
(* they are probed for.                                                    *)
ProbeFits ==
  /\ \A f \in Fn : fnSize[f] <= fnLen[f]
  /\ \A m \in Mvfn : mvfnSize[m] <= mvfnLen[m]

ProbeCovers ==
  /\ \A f \in Fn : fnSize[f] >= fnLen[f]
  /\ \A m \in Mvfn : mvfnSize[m] >= mvfnLen[m]
-----------------------------------------------------------------------------
(* Properties. *)

TTypeOK ==
  /\ TypeOK
  /\ stage \in Stage
  /\ all \in BOOLEAN
  /\ kept \in [vars : SUBSET Var, fns : SUBSET Fn, callsites : SUBSET Callsite]

Target(f) == text[fnAt[f]].to

(* Code that cannot be reached any more: of a bound function the generic   *)
(* body behind the entry jump, and every variant that was not selected.    *)
DeadOf(f) ==
  (FnBody(f) \ Entry(f)) \cup
  UNION {Body(m) : m \in {n \in Variants(f) : n # Target(f)}}
Dead == UNION {DeadOf(f) : f \in {g \in Fn : fixed[g]}}

(* "Guard unused code" (main.cc:61): the fill of MVFn::apply never lands   *)
(* on code that can still be executed, whatever else was patched or        *)
(* filled before.                                                          *)
TrapOnlyDeadCode == \A a \in Addr \ Dead : text[a].op # "trap"

(* MVFn::apply over patches and guards of several functions, in whatever   *)
(* order std::set yields them: outside dead code the output is determined  *)
(* by which functions are bound and to what.  The call sites and the entry *)
(* of a bound function all reach its one target, every other byte is still *)
(* that of the input.                                                      *)
CallPatched(a) == {c \in Callsite : a \in Site(c) /\ fixed[csFn[c]]}
EntryPatched(a) == {f \in Fn : a \in Entry(f) /\ fixed[f]}

LiveTextExact ==
  \A a \in Addr \ Dead :
    /\ \A c \in CallPatched(a) : text[a] = CallCell(c, Target(csFn[c]), a)
    /\ \A f \in EntryPatched(a) : text[a] = JumpCell(f, Target(f), a)
    /\ CallPatched(a) = {} /\ EntryPatched(a) = {} => text[a] = Code

(* With the guard on, no byte of an unselected body survives: not those of *)
(* the generic body, nor of any variant but the target (MVFn::apply, fill).*)
GuardComplete ==
  guard => \A a \in Addr \cap Dead : text[a].op # "code"

(* A function is bound only to a variant that the final configuration      *)
(* selects, and only when all variables the variant depends on have been   *)
(* committed (find_if in MVFn::apply).                                     *)
BoundMatchesConfig ==
  \A f \in Fn : fixed[f] =>
    \E m \in Variants(f) : m = Target(f) /\ Active(m) /\ AssignVarsFrozen(m)

(* Between two applies no binding is missing: a function depending only on *)
(* committed variables, with a variant for their values, is bound, however *)
(* its variables were spread over the -a options.                          *)
DecidedIsBound ==
  Idle => \A f \in Fn : Candidates(f) # {} => fixed[f]

(* A bound function is never unbound and never bound to something else by  *)
(* a later apply (MVFn::apply runs again for every variable it is linked   *)
(* to and does not look at its own frozen flag).                           *)
BoundForever ==
  [][\A f \in Fn : fixed[f] => fixed'[f] /\ Target(f)' = Target(f)]_tvars

(* A call site that stays listed in __multiverse_callsite_ and is not dead *)
(* still is the call the runtime, or bintail itself, expects there.        *)
KeptLiveSitesAreCalls ==
  stage = "written" =>
    \A c \in kept.callsites : \A a \in Site(c) \ Dead : text[a] = Code

(* Nothing that still varies loses its descriptor in a partial tailoring:  *)
(* a variable not committed, and each function that depends on one, can    *)
(* still be committed by the runtime (generate of the four sections).      *)
StillTunable ==
  stage = "written" /\ ~all =>
    \A v \in Var : ~frozen[v] =>
      /\ v \in kept.vars
      /\ LinkedFns(v) \subseteq kept.fns
      /\ \A f \in LinkedFns(v) : CallsitesOf(f) \subseteq kept.callsites

(* "find var & save ptr to it" (bintail.cc:139): read again, every         *)
(* assignment of a function that stays listed finds its variable.          *)
(* Violated by a partial tailoring: a function over two variables, one of  *)
(* them applied, stays without that one's descriptor, and the member var   *)
(* of its assignments stays uninitialized (mvelem.cc:57, 64, 146).         *)
KeptFnsResolve ==
  stage = "written" =>
    \A f \in kept.fns : \A m \in Variants(f) : VarsOf(m) \subseteq kept.vars

(* Nothing that stays listed is left pointing into garbage: what            *)
(* decode_callsite (mvelem.cc:415) demands of the input, the output still  *)
(* satisfies.  Violated: a guard of one function fills a call site of      *)
(* another one that still varies.                                          *)
KeptSitesAreCalls ==
  stage = "written" =>
    \A c \in kept.callsites : \A a \in Site(c) : text[a] = Code

(* "-s var=value  Set variable to value." (main.cc:62): the program starts *)
(* with the value its variants were selected for.  Violated by variables   *)
(* outside .data.                                                          *)
SetReachesMemory == stage = "written" => image = value

(* Every run ends, with an output or by an exception. *)
Termination == <>(stage \in {"written", "aborted"})

(* The abstract promise; a function is bound to what its entry jumps to.   *)
C == INSTANCE Commitment WITH
       cfg <- value,
       committed <- {v \in Var : frozen[v]},
       binding <- [f \in Fn |-> Target(f)],
       Generic <- NoMvfn

RefinesCommitment == C!ASafeSpec

(* And its progress: what can be bound, is bound before the run ends. *)
BindsWhatItCan == C!AFairness
=============================================================================
