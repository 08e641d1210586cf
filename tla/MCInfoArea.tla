----------------------------- MODULE MCInfoArea -----------------------------
(* Small executables for InfoArea: f over {a}, g over {a, b}, and a        *)
(* function pointer h without variants; one without call sites.            *)
EXTENDS InfoArea

XVars == <<"a", "b">>
XFns == <<"f", "h", "g">>
XSites == <<"f1", "g1", "h1", "f2">>
Orders == {<<"mvdata", "mvfn", "mvvar", "mvcs">>, <<"mvcs", "mvvar", "mvfn", "mvdata">>,
           <<"mvvar", "mvfn", "mvcs", "mvdata">>, <<"mvfn", "mvdata", "mvcs", "mvvar">>}
XExes ==
  [vars : {XVars}, fns : {XFns}, sites : {XSites}, order : Orders]
  \cup [vars : {<<"b", "a">>}, fns : {<<"g">>}, sites : {<<>>}, order : Orders]
XUninit == {[off |-> 0, at |-> 0], [off |-> 99, at |-> 7]}
XnAssigns == [f |-> <<1, 1>>, h |-> <<>>, g |-> <<2, 2, 2>>]
XdependsOn == [f |-> {"a"}, h |-> {}, g |-> {"a", "b"}]
Xcallee == [f1 |-> "f", f2 |-> "f", g1 |-> "g", h1 |-> "h"]
XptrAt == [mvvar |-> [start |-> 93, stop |-> 94], mvfn |-> [start |-> 95, stop |-> 96],
           mvcs |-> [start |-> 97, stop |-> 98]]
Xothers == <<TRUE, TRUE, FALSE>>
Xtail == <<3, 5>>
=============================================================================
