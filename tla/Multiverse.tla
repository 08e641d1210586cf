------------------------------ MODULE Multiverse ------------------------------
(***************************************************************************)
(* The variability engine of bintail: the multiverse variables, functions, *)
(* variants and patch points that Bintail's constructor reads from an      *)
(* executable, and the three operations of the library that change them:   *)
(* change (set a variable), apply and apply_all (remove its variance).     *)
(*                                                                         *)
(* The executable is a parameter.  The code section is modelled cell by    *)
(* cell, one cell per byte, because what can go wrong is where a guard     *)
(* fill or a patch lands; what a byte encodes is abstracted to the kind of *)
(* instruction it belongs to and the variant that instruction reaches.     *)
(***************************************************************************)
EXTENDS Integers, Sequences, FiniteSets

CONSTANTS
  Var,        \* MVVar objects: the entries of __multiverse_var_
  Fn,         \* MVFn objects: the entries of __multiverse_fn_
  Mvfn,       \* MVmvfn objects: the variants of all functions
  NoMvfn,     \* "no variant"
  Callsite,   \* the entries of __multiverse_callsite_
  Name,       \* names of variables and functions
  Value       \* values a variable may hold or be set to

CONSTANTS
  varName, inData, width,        \* per variable: name, lies in .data?, bytes
  fnName, fnAt, fnLen, mvfns,    \* per function: name, body, vector of variants
  assigns, kind, mvfnAt, mvfnLen, \* per variant: guards, decoded type, body
  csFn, csAt, csLen,             \* per call site: callee, address, 5 or 6 bytes
  syms,                          \* the symbol table, in file order
  endsIn,                        \* endsIn[n]: the names that end in n
  Garbage,                       \* sizes an uninitialized st_size may have
  TextSize

Addr == 0 .. TextSize - 1
MvfnKind == {"none", "nop", "constant", "cli", "sti"}

ASSUME NameAssumption ==
  /\ varName \in [Var -> Name]
  /\ fnName \in [Fn -> Name]
  /\ endsIn \in [Name -> SUBSET Name]
  /\ \A n \in Name : n \in endsIn[n]

ASSUME ValueAssumption == Value \subseteq Nat /\ 0 \in Value

ASSUME VarAssumption ==
  /\ inData \in [Var -> BOOLEAN]
  /\ width \in [Var -> {1, 2, 4, 8}]

ASSUME FnAssumption ==
  /\ mvfns \in [Fn -> Seq(Mvfn)]
  /\ fnAt \in [Fn -> Nat]
  /\ fnLen \in [Fn -> Nat]

ASSUME MvfnAssumption ==
  /\ NoMvfn \notin Mvfn
  /\ \A m \in Mvfn : \A as \in assigns[m] : as.var \in Var
  /\ kind \in [Mvfn -> MvfnKind]
  /\ mvfnAt \in [Mvfn -> Nat]
  /\ mvfnLen \in [Mvfn -> Nat]

ASSUME CallsiteAssumption ==
  /\ csFn \in [Callsite -> Fn]
  /\ csAt \in [Callsite -> Nat]
  /\ csLen \in [Callsite -> {5, 6}]

ASSUME SymbolAssumption ==
  /\ Garbage \subseteq Nat
  /\ \A i \in DOMAIN syms : syms[i].size \in Nat

VARIABLES
  value,      \* MVVar::_value
  image,      \* what the variable's memory holds when the program starts
  frozen,     \* MVVar::frozen
  fixed,      \* MVFn::frozen
  text,       \* the bytes of .text in the output
  fnSize,     \* MVFn::symbol.sym.st_size
  mvfnSize,   \* MVmvfn::symbol.sym.st_size
  guard,      \* the guard argument of the running apply
  todo,       \* variables the running apply still has to visit
  work        \* functions the visited variable still has to apply

vars == <<value, image, frozen, fixed, text, fnSize, mvfnSize, guard, todo, work>>
-----------------------------------------------------------------------------
(* The parsed executable. *)

Variants(f) == {mvfns[f][i] : i \in DOMAIN mvfns[f]}

(* Mutant: functions are linked only if they depend on nothing else. *)
LinkedFnsAlone(v) ==
  {f \in Fn : \E m \in Variants(f) : \A as \in assigns[m] : as.var = v}

(* MVVar::fns, filled by probe_var: the functions with a variant that      *)
(* assigns the variable.                                                   *)
LinkedFns(v) ==
  {f \in Fn : \E m \in Variants(f) : \E as \in assigns[m] : as.var = v}

(* Mutant: indirect calls are not linked to their function. *)
DirectCallsitesOf(f) == {c \in Callsite : csFn[c] = f /\ csLen[c] = 5}

Named(n) == {v \in Var : varName[v] = n}
CallsitesOf(f) == {c \in Callsite : csFn[c] = f}

Span(at, len) == at .. at + len - 1
FnBody(f) == Span(fnAt[f], fnLen[f])
Body(m) == Span(mvfnAt[m], mvfnLen[m])
Entry(f) == Span(fnAt[f], 5)
Site(c) == Span(csAt[c], csLen[c])

Owner(m) == CHOOSE f \in Fn : m \in Variants(f)

(* A symbol that names a variant spells each assignment as <var>_<value>;  *)
(* bit is 0 for "0" and "false", 1 for "1" and "true", 2 for anything      *)
(* else.  check_sym looks for the variable's CURRENT value, and its        *)
(* pattern is not anchored on the left.                                    *)
CheckSym(as, tokens, val) ==
  \E t \in tokens : /\ t.name \in endsIn[varName[as.var]]
                    /\ t.bit = IF val[as.var] = 0 THEN 0 ELSE 1

MvfnSyms(f, m, val) ==
  {i \in DOMAIN syms : /\ syms[i].fn = fnName[f]
                       /\ syms[i].variant
                       /\ \A as \in assigns[m] : CheckSym(as, syms[i].tokens, val)}

FnSyms(f) == {i \in DOMAIN syms : syms[i].fn = fnName[f] /\ ~syms[i].variant}

(* Every matching symbol overwrites the one before; without a match the    *)
(* member stays uninitialized.                                             *)
IsLast(i, S) == i \in S /\ \A j \in S : j <= i
ProbedSize(matches, garbage) ==
  IF \E i \in matches : IsLast(i, matches)
    THEN syms[CHOOSE i \in matches : IsLast(i, matches)].size
    ELSE garbage

ProbeSyms(val) ==
  /\ \E g \in [Fn -> Garbage] :
       fnSize = [f \in Fn |-> ProbedSize(FnSyms(f), g[f])]
  /\ \E g \in [Mvfn -> Garbage] :
       mvfnSize = [m \in Mvfn |-> ProbedSize(MvfnSyms(Owner(m), m, val), g[m])]
-----------------------------------------------------------------------------
(* The code section. *)

Cell == [op : {"code", "trap", "jmp", "call", "inline", "operand"},
         to : Mvfn \cup {NoMvfn}]
Code == [op |-> "code", to |-> NoMvfn]
Trap == [op |-> "trap", to |-> NoMvfn]

(* patchpoint_apply on the function's own patch point: jmp <variant>.      *)
JumpCell(f, m, a) ==
  [op |-> IF a = fnAt[f] THEN "jmp" ELSE "operand", to |-> m]

(* patchpoint_apply on a call: the body of a trivial variant is put in     *)
(* place of the call, any other variant is called.                         *)
CallCell(c, m, a) ==
  [op |-> IF a # csAt[c] THEN "operand"
          ELSE IF kind[m] = "none" THEN "call" ELSE "inline",
   to |-> m]

(* The patch points of f in the order of MVFn::pps: the entry jump first,  *)
(* so a call site that overlaps it wins.                                   *)
Patched(t, f, m) ==
  [a \in Addr |->
     IF \E c \in CallsitesOf(f) : a \in Site(c)
       THEN CallCell(CHOOSE c \in CallsitesOf(f) : a \in Site(c), m, a)
       ELSE IF a \in Entry(f) THEN JumpCell(f, m, a) ELSE t[a]]

(* Mutants of the guard: the selected variant is filled too; the generic   *)
(* body is not.                                                            *)
GuardAreaAll(f, i) ==
  Span(fnAt[f], fnSize[f]) \cup
  UNION {Span(mvfnAt[mvfns[f][j]], mvfnSize[mvfns[f][j]]) : j \in DOMAIN mvfns[f]}
GuardAreaVariants(f, i) ==
  UNION {Span(mvfnAt[mvfns[f][j]], mvfnSize[mvfns[f][j]]) :
           j \in DOMAIN mvfns[f] \ {i}}

(* The bytes that the guard fills when variant i of f is selected: as many *)
(* as the probed symbol of each other variant, and of f itself, says.      *)
GuardArea(f, i) ==
  Span(fnAt[f], fnSize[f]) \cup
  UNION {Span(mvfnAt[mvfns[f][j]], mvfnSize[mvfns[f][j]]) :
           j \in DOMAIN mvfns[f] \ {i}}

Guarded(t, f, i) ==
  LET area == GuardArea(f, i)
  IN [a \in Addr |-> IF a \in area THEN Trap ELSE t[a]]
-----------------------------------------------------------------------------
(* Selection of a variant. *)

IsActive(as) == as.lo <= value[as.var] /\ value[as.var] <= as.hi
Active(m) == \A as \in assigns[m] : IsActive(as)
AssignVarsFrozen(m) == \A as \in assigns[m] : frozen[as.var]

(* Mutant: a variant is selected before all its variables are applied. *)
CandidatesEarly(f) == {i \in DOMAIN mvfns[f] : Active(mvfns[f][i])}

Candidates(f) ==
  {i \in DOMAIN mvfns[f] : AssignVarsFrozen(mvfns[f][i]) /\ Active(mvfns[f][i])}
IsFirst(i, S) == i \in S /\ \A j \in S : i <= j
-----------------------------------------------------------------------------
(* Bintail::Bintail: everything is read from the file; the symbol sizes    *)
(* are probed with the values found there.                                 *)
Init ==
  /\ value \in {val \in [Var -> Value] : \A v \in Var : inData[v] \/ val[v] = 0}
  /\ image = value
  /\ frozen = [v \in Var |-> FALSE]
  /\ fixed = [f \in Fn |-> FALSE]
  /\ text = [a \in Addr |-> Code]
  /\ ProbeSyms(value)
  /\ guard \in BOOLEAN
  /\ todo = {}
  /\ work = {}

Idle == todo = {} /\ work = {}

(* set_value asserts a width of 4 before it writes to .data. *)
ChangeAsserts(n) == \A v \in Named(n) : inData[v] => width[v] = 4

Change(n, x) ==
  /\ Idle
  /\ ChangeAsserts(n)
  /\ value' = [v \in Var |-> IF v \in Named(n) THEN x ELSE value[v]]
  /\ image' = [v \in Var |-> IF v \in Named(n) /\ inData[v] THEN x ELSE image[v]]
  /\ UNCHANGED <<frozen, fixed, text, fnSize, mvfnSize, guard, todo, work>>

(* apply(name, guard) and apply_all(guard): a loop over the variables that *)
(* match.  The order of the vector is the linker's; the model allows any.  *)
StartApply(vs, g) ==
  /\ Idle
  /\ todo' = vs
  /\ guard' = g
  /\ UNCHANGED <<value, image, frozen, fixed, text, fnSize, mvfnSize, work>>

Apply(n, g) == StartApply(Named(n), g)
ApplyAll(g) == StartApply(Var, g)

(* Mutant: the loop does not move on to the next variable. *)
ApplyVarAgain(v) ==
  /\ work = {}
  /\ v \in todo
  /\ work' = LinkedFns(v)
  /\ frozen' = [frozen EXCEPT ![v] = TRUE]
  /\ UNCHANGED <<value, image, fixed, text, fnSize, mvfnSize, guard, todo>>

(* MVVar::apply: freeze, then apply every linked function, in the order of *)
(* a std::set of pointers, which is any order.                             *)
ApplyVar(v) ==
  /\ work = {}
  /\ v \in todo
  /\ todo' = todo \ {v}
  /\ work' = LinkedFns(v)
  /\ frozen' = [frozen EXCEPT ![v] = TRUE]
  /\ UNCHANGED <<value, image, fixed, text, fnSize, mvfnSize, guard>>

(* MVFn::apply: bind the function to its first variant whose variables are *)
(* all frozen and whose guards hold, if there is one.                      *)
Bind(f, i) ==
  /\ IsFirst(i, Candidates(f))
  /\ text' = Patched(IF guard THEN Guarded(text, f, i) ELSE text, f, mvfns[f][i])
  /\ fixed' = [fixed EXCEPT ![f] = TRUE]

(* Mutant: the result of find_if is used without comparing it with end();  *)
(* the patch jumps to whatever lies behind the last variant.               *)
ApplyFnUnchecked(f) ==
  /\ f \in work
  /\ work' = work \ {f}
  /\ \/ /\ Candidates(f) = {}
        /\ text' = [a \in Addr |->
             IF a \in Entry(f) THEN JumpCell(f, "behind the vector", a) ELSE text[a]]
        /\ fixed' = [fixed EXCEPT ![f] = TRUE]
     \/ \E i \in DOMAIN mvfns[f] : Bind(f, i)
  /\ UNCHANGED <<value, image, frozen, fnSize, mvfnSize, guard, todo>>

ApplyFn(f) ==
  /\ f \in work
  /\ work' = work \ {f}
  /\ \/ Candidates(f) = {} /\ UNCHANGED <<text, fixed>>
     \/ \E i \in DOMAIN mvfns[f] : Bind(f, i)
  /\ UNCHANGED <<value, image, frozen, fnSize, mvfnSize, guard, todo>>

Step == (\E v \in Var : ApplyVar(v)) \/ (\E f \in Fn : ApplyFn(f))
-----------------------------------------------------------------------------
(* The state is well typed: cells are instructions of known variants, only *)
(* linked functions are being applied.                                     *)
TypeOK ==
  /\ value \in [Var -> Value]
  /\ image \in [Var -> Value]
  /\ frozen \in [Var -> BOOLEAN]
  /\ fixed \in [Fn -> BOOLEAN]
  /\ text \in [Addr -> Cell]
  /\ fnSize \in [Fn -> Nat]
  /\ mvfnSize \in [Mvfn -> Nat]
  /\ guard \in BOOLEAN
  /\ todo \subseteq Var
  /\ work \subseteq Fn

(* "Remove variance" (bintail.cc:216): what has been applied is not        *)
(* changed any more.  It is main that sees to it, by making every change   *)
(* before it applies anything; change itself does not look at the frozen   *)
(* flag.                                                                   *)
VarianceRemoved ==
  [][\A v \in Var : frozen[v] => frozen'[v] /\ value'[v] = value[v]]_vars
=============================================================================
