----------------------- MODULE MC_FieldDependencies -----------------------
(***************************************************************************)
(* Two tables: t1 holds its primary p1, a link row field l1 to t2 and a   *)
(* field x1; t2 holds its primary p2 and a field y2.  Names are shared    *)
(* between the tables so that a name can resolve in one and not the      *)
(* other.  The definitions range over direct references, a lookup        *)
(* through l1 and a two-reference formula.                                *)
(***************************************************************************)
EXTENDS FieldDependencies, TLC

CONSTANTS p1, l1, x1, p2, y2, t1, t2, nP, nL, nX, nY, nN

MCFields == {p1, l1, x1, p2, y2}
MCTables == {t1, t2}
MCNames == {nP, nL, nX, nY}
MCTableOf == [f \in MCFields |-> IF f \in {p1, l1, x1} THEN t1 ELSE t2]
MCLinkTo == [f \in MCFields |-> IF f = l1 THEN t2 ELSE NULL]
MCPrimaryOf == [t \in MCTables |-> IF t = t1 THEN p1 ELSE p2]
MCInitName == (p1 :> nP) @@ (l1 :> nL) @@ (x1 :> nX) @@ (p2 :> nP) @@ (y2 :> nY)
MCInitial == {p1, p2}
MCRefChoices ==
    (p1 :> {{}, {Bare(nX)}}) @@
    (l1 :> {{}}) @@
    (x1 :> {{}, {Through(nL, nY)}, {Through(nP, nY)}}) @@
    (p2 :> {{}}) @@
    (y2 :> {{}, {Bare(nP)}})
(* The definitions of the check_for_circular run add a lookup through l1 *)
(* of a target that y2 can be renamed to, and a bare reference to p1     *)
(* beside the lookup through the plain field p1.                         *)
MCCheckRefChoices ==
    [MCRefChoices EXCEPT ![x1] = @ \cup {{Through(nL, nX)}, {Bare(nP)}}]
MCRenameTo ==
    (p1 :> {nP, nY}) @@ (l1 :> {nL}) @@ (x1 :> {nX}) @@ (p2 :> {nP}) @@ (y2 :> {nY, nX})
(* str() gives distinct texts to ids, None and the names.                 *)
MCStr == [x \in MCFields \cup {NULL} \cup MCNames |-> x]
(* The key collision run adds a name nN whose text is "None", the text    *)
(* str() gives NULL, and lets x1 look up nN through l1.                   *)
MCKeyNames == MCNames \cup {nN}
MCNoneStr == [x \in MCFields \cup {NULL} \cup MCKeyNames |-> IF x = nN THEN NULL ELSE x]
MCKeyRefChoices == [MCRefChoices EXCEPT ![x1] = @ \cup {{Through(nL, nN)}}]
(* The same instance with nN printed as a name of its own.                *)
MCKeyStr == [x \in MCFields \cup {NULL} \cup MCKeyNames |-> x]
=============================================================================
