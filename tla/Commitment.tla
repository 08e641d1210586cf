----------------------------- MODULE Commitment -----------------------------
(***************************************************************************)
(* What tailoring an executable promises, without code bytes, symbols or   *)
(* loops: variables are configured, then committed one by one; a function  *)
(* may be bound, once, to a variant all of whose variables are committed   *)
(* and whose guards the configuration satisfies.  A binding is for ever    *)
(* and nothing is configured after the first commitment.                   *)
(***************************************************************************)
EXTENDS Integers, Sequences

CONSTANTS Var, Fn, Mvfn, Value,
          mvfns,      \* per function: the vector of its variants
          assigns,    \* per variant: its guards [var, lo, hi]
          Generic     \* the binding of a function that still varies

VARIABLES cfg, committed, binding

avars == <<cfg, committed, binding>>

ATypeOK ==
  /\ cfg \in [Var -> Value]
  /\ committed \subseteq Var
  /\ binding \in [Fn -> Mvfn \cup {Generic}]

Admits(m) ==
  \A as \in assigns[m] : /\ as.var \in committed
                         /\ as.lo <= cfg[as.var] /\ cfg[as.var] <= as.hi

AInit ==
  /\ cfg \in [Var -> Value]
  /\ committed = {}
  /\ binding = [f \in Fn |-> Generic]

Configure(vs, x) ==
  /\ committed = {}
  /\ cfg' = [v \in Var |-> IF v \in vs THEN x ELSE cfg[v]]
  /\ UNCHANGED <<committed, binding>>

Commit(v) ==
  /\ committed' = committed \cup {v}
  /\ UNCHANGED <<cfg, binding>>

Bind(f, m) ==
  /\ binding[f] = Generic
  /\ Admits(m)
  /\ binding' = [binding EXCEPT ![f] = m]
  /\ UNCHANGED <<cfg, committed>>

BindSome(f) == \E i \in DOMAIN mvfns[f] : Bind(f, mvfns[f][i])

ANext ==
  \/ \E vs \in SUBSET Var, x \in Value : Configure(vs, x)
  \/ \E v \in Var : Commit(v)
  \/ \E f \in Fn : BindSome(f)

ASafeSpec == AInit /\ [][ANext]_avars

(* A function that can be bound is bound in the end. *)
AFairness == \A f \in Fn : WF_avars(BindSome(f))
=============================================================================
