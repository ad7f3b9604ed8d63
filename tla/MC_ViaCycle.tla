--------------------------- MODULE MC_ViaCycle ---------------------------
(***************************************************************************)
(* Two tables linked both ways: l1 in t1 links to t2 and l2 in t2 links   *)
(* to t1.  The primary p2 can look up p1 through l2, and p1 can look up a *)
(* field named nY through l1, which y2 in t2 carries once created.        *)
(***************************************************************************)
EXTENDS FieldDependencies, TLC

CONSTANTS p1, l1, p2, l2, y2, t1, t2, nP, nL, nM, nY

VCFields == {p1, l1, p2, l2, y2}
VCTables == {t1, t2}
VCNames == {nP, nL, nM, nY}
VCTableOf == [f \in VCFields |-> IF f \in {p1, l1} THEN t1 ELSE t2]
VCLinkTo == [f \in VCFields |-> CASE f = l1 -> t2 [] f = l2 -> t1 [] OTHER -> NULL]
VCPrimaryOf == [t \in VCTables |-> IF t = t1 THEN p1 ELSE p2]
VCInitName == (p1 :> nP) @@ (l1 :> nL) @@ (p2 :> nP) @@ (l2 :> nM) @@ (y2 :> nY)
VCInitial == {p1, p2}
VCRefChoices ==
    (p1 :> {{}, {Through(nL, nY)}}) @@ (l1 :> {{}}) @@
    (p2 :> {{}, {Through(nM, nP)}}) @@ (l2 :> {{}}) @@ (y2 :> {{}})
VCRenameTo == [f \in VCFields |-> {VCInitName[f]}]
VCStr == [x \in VCFields \cup {NULL} \cup VCNames |-> x]
=============================================================================
