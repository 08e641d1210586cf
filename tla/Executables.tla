----------------------------- MODULE Executables ------------------------------
(***************************************************************************)
(* Small executables, to instantiate Multiverse and Tailor for TLC.  All   *)
(* have the functions                                                      *)
(*   f over {a}        two variants, one returning a constant              *)
(*   g over {a, b}     three variants, b merged away in the first          *)
(*   k over {c}        one variant                                         *)
(*   h                 a function pointer without variants                 *)
(* f and g call each other, from their generic bodies and from variants,   *)
(* so that a guard of one meets the patch points of the other.             *)
(***************************************************************************)
EXTENDS Integers, Sequences

XVar == {"a", "b", "c", "d"}
XFn == {"f", "g", "k", "h"}
XMvfn == {"f0", "f1", "g1", "g2", "g3", "k0"}
XName == {"a", "b", "d", "x", "f", "g", "k", "h"}
XValue == 0 .. 2
XfnName == [f \in XFn |-> f]

(* b and c are two static variables of one name; d is a 1-byte variable.   *)
XvarName == [v \in XVar |-> IF v = "c" THEN "b" ELSE v]
XinData == [v \in XVar |-> v \in {"a", "d"}]
Xwidth == [v \in XVar |-> IF v = "d" THEN 1 ELSE 4]
XendsIn == [n \in XName |-> {n}]

G(v, lo, hi) == [var |-> v, lo |-> lo, hi |-> hi]
Xassigns ==
  [m \in XMvfn |->
     CASE m = "f0" -> {G("a", 0, 0)}
       [] m = "f1" -> {G("a", 1, 1)}
       [] m = "g1" -> {G("a", 0, 0), G("b", 0, 1)}
       [] m = "g2" -> {G("a", 1, 1), G("b", 0, 0)}
       [] m = "g3" -> {G("a", 1, 1), G("b", 1, 1)}
       [] m = "k0" -> {G("c", 0, 0)}]
Xkind ==
  [m \in XMvfn |-> IF m = "f0" THEN "constant" ELSE IF m = "k0" THEN "nop" ELSE "none"]

Xmvfns ==
  [f \in XFn |-> CASE f = "f" -> <<"f0", "f1">>
                    [] f = "g" -> <<"g1", "g2", "g3">>
                    [] f = "k" -> <<"k0">>
                    [] f = "h" -> <<>>]

Even ==
  [f |-> <<0, 12>>, f0 |-> <<12, 7>>, f1 |-> <<19, 7>>,
   g |-> <<26, 12>>, g1 |-> <<38, 7>>, g2 |-> <<45, 7>>, g3 |-> <<52, 7>>,
   k |-> <<59, 6>>, k0 |-> <<65, 2>>, h |-> <<67, 5>>]

(* f0 is short, and g, hence code of another function, follows f1.         *)
Uneven ==
  [f |-> <<0, 12>>, f1 |-> <<12, 7>>, f0 |-> <<19, 2>>,
   g |-> <<21, 12>>, g1 |-> <<33, 7>>, g2 |-> <<40, 7>>, g3 |-> <<47, 7>>,
   k |-> <<54, 6>>, k0 |-> <<60, 2>>, h |-> <<62, 5>>]

At(l, names) == [x \in names |-> l[x][1]]
Len2(l, names) == [x \in names |-> l[x][2]]
E_fnAt == At(Even, XFn)
E_fnLen == Len2(Even, XFn)
E_mvfnAt == At(Even, XMvfn)
E_mvfnLen == Len2(Even, XMvfn)
U_fnAt == At(Uneven, XFn)
U_fnLen == Len2(Uneven, XFn)
U_mvfnAt == At(Uneven, XMvfn)
U_mvfnLen == Len2(Uneven, XMvfn)

(* Call sites: f in g and g1, g in f and f1, one of each in main.          *)
XCallsite == {"f_in_g", "f_in_g1", "g_in_f", "g_in_f1", "f_in_main", "g_in_main", "k_in_main"}
XcsFn ==
  [c \in XCallsite |-> IF c \in {"g_in_f", "g_in_f1", "g_in_main"} THEN "g"
                        ELSE IF c = "k_in_main" THEN "k" ELSE "f"]
Indirect == {"f_in_g1", "k_in_main"}
XcsLen == [c \in XCallsite |-> IF c \in Indirect THEN 6 ELSE 5]
SitesIn(l) ==
  [c \in XCallsite |->
     CASE c = "f_in_g"  -> l.g[1] + 6
       [] c = "f_in_g1" -> l.g1[1]
       [] c = "g_in_f"  -> l.f[1] + 6
       [] c = "g_in_f1" -> l.f1[1] + 1
       [] c = "f_in_main" -> l.h[1] + 5
       [] c = "g_in_main" -> l.h[1] + 10
       [] c = "k_in_main" -> l.h[1] + 15]
E_csAt == SitesIn(Even)
U_csAt == SitesIn(Uneven)

Sym(f, tokens, size) ==
  [fn |-> f, variant |-> tokens # {}, tokens |-> tokens, size |-> size]
T(n, b) == [name |-> n, bit |-> b]
SymsOf(l) ==
  <<Sym("f", {}, l.f[2]),
    Sym("f", {T("a", 0)}, l.f0[2]),
    Sym("f", {T("a", 1)}, l.f1[2]),
    Sym("g", {}, l.g[2]),
    Sym("g", {T("a", 0), T("b", 0)}, l.g1[2]),
    Sym("g", {T("a", 1), T("b", 0)}, l.g2[2]),
    Sym("g", {T("a", 1), T("b", 1)}, l.g3[2]),
    Sym("k", {}, l.k[2]),
    Sym("k", {T("b", 0)}, l.k0[2]),
    Sym("h", {}, l.h[2])>>
E_syms == SymsOf(Even)
U_syms == SymsOf(Uneven)
E_TextSize == Even.h[1] + 5 + 17
U_TextSize == Uneven.h[1] + 5 + 17
=============================================================================
