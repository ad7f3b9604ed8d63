------------------- MODULE FieldDependencies_acyclic_proofs -------------------
(***************************************************************************)
(* Proof of DependencyGraphAcyclic: no sequence of field operations       *)
(* closes a cycle of resolved FieldDependency rows.                       *)
(*                                                                         *)
(* ReachableFrom(E, t) is the least set of edge targets that holds the    *)
(* successors of t and that no edge of E leaves.  Its first lemmas say    *)
(* just that, and give monotonicity and transitivity without induction.   *)
(* The rebuild adds edges out of f only, each checked by                  *)
(* will_cause_circular_dep against the rows before the write; the repair  *)
(* adds edges into f only, each checked against the rows after the       *)
(* rebuild.  AddOutEdgesAcyclic and AddInEdgesAcyclic show that a batch   *)
(* of such edges, each checked alone against the old graph, keeps the     *)
(* graph acyclic; the break only removes edges.                           *)
(***************************************************************************)
EXTENDS FieldDependencies_row_proofs

(* A graph in which no node reaches itself.                               *)
Acyclic(E) == \A x : x \notin ReachableFrom(E, x)

-----------------------------------------------------------------------------
(* Reachability as a least closed set.                                    *)

(* The successors of t are reachable from t.                              *)
LEMMA ReachSucc ==
    ASSUME NEW E, NEW t
    PROVE  Successors(E, {t}) \subseteq ReachableFrom(E, t)
BY DEF ReachableFrom, Successors, Targets

(* No edge leaves the set of fields reachable from t.                     *)
LEMMA ReachClosed ==
    ASSUME NEW E, NEW t
    PROVE  Closed(E, ReachableFrom(E, t))
<1> SUFFICES ASSUME NEW e \in E, e[1] \in ReachableFrom(E, t)
             PROVE  e[2] \in ReachableFrom(E, t)
  BY DEF Closed, Successors
<1>1. e[2] \in Targets(E)
  BY DEF Targets
<1>2. ASSUME NEW S \in SUBSET Targets(E), Successors(E, {t}) \subseteq S, Closed(E, S)
      PROVE  e[2] \in S
  <2>1. e[1] \in S
    BY <1>2 DEF ReachableFrom
  <2>. QED
    BY <1>2, <2>1 DEF Closed, Successors
<1>. QED
  BY <1>1, <1>2 DEF ReachableFrom

(* Any set that holds t's successors and that no edge leaves holds every  *)
(* field reachable from t.                                                *)
LEMMA ReachLeast ==
    ASSUME NEW E, NEW t, NEW S, Successors(E, {t}) \subseteq S, Closed(E, S)
    PROVE  ReachableFrom(E, t) \subseteq S
<1> DEFINE S2 == S \cap Targets(E)
<1>1. Successors(E, {t}) \subseteq S2
  BY DEF Successors, Targets
<1>2. Closed(E, S2)
  BY DEF Closed, Successors, Targets
<1>. QED
  BY <1>1, <1>2 DEF ReachableFrom

(* More edges reach more fields.                                          *)
LEMMA ReachMono ==
    ASSUME NEW E, NEW F, E \subseteq F, NEW t
    PROVE  ReachableFrom(E, t) \subseteq ReachableFrom(F, t)
<1> DEFINE R == ReachableFrom(F, t)
<1>1. Successors(E, {t}) \subseteq R
  <2>1. Successors(E, {t}) \subseteq Successors(F, {t})
    BY DEF Successors
  <2>. QED
    BY <2>1, ReachSucc
<1>2. Closed(E, R)
  <2>1. Successors(E, R) \subseteq Successors(F, R)
    BY DEF Successors
  <2>. QED
    BY <2>1, ReachClosed DEF Closed
<1>. QED
  BY <1>1, <1>2, ReachLeast

(* What a field reachable from t reaches is reachable from t.            *)
LEMMA ReachTrans ==
    ASSUME NEW E, NEW t, NEW g \in ReachableFrom(E, t)
    PROVE  ReachableFrom(E, g) \subseteq ReachableFrom(E, t)
<1>1. Successors(E, {g}) \subseteq ReachableFrom(E, t)
  <2>1. Successors(E, {g}) \subseteq Successors(E, ReachableFrom(E, t))
    BY DEF Successors
  <2>. QED
    BY <2>1, ReachClosed DEF Closed
<1>. QED
  BY <1>1, ReachClosed, ReachLeast

(* A subgraph of an acyclic graph is acyclic.                             *)
LEMMA AcyclicMono ==
    ASSUME NEW E, NEW F, E \subseteq F, Acyclic(F)
    PROVE  Acyclic(E)
BY ReachMono DEF Acyclic

-----------------------------------------------------------------------------
(* Adding a batch of edges, each checked alone against the old graph.    *)

(* Edges out of one field f, to targets none of which reaches f, close   *)
(* no cycle: a cycle through a new edge f -> t would return from t to f  *)
(* along old edges, or through a second new edge, which again leaves f.  *)
LEMMA AddOutEdgesAcyclic ==
    ASSUME NEW E, NEW f, NEW T, Acyclic(E),
           \A t \in T : t # f /\ f \notin ReachableFrom(E, t)
    PROVE  Acyclic(E \cup ({f} \X T))
<1> DEFINE F  == E \cup ({f} \X T)
<1> SUFFICES ASSUME NEW g PROVE g \notin ReachableFrom(F, g)
  BY DEF Acyclic
<1> DEFINE RG == ReachableFrom(E, g)
           U  == UNION {{t} \cup ReachableFrom(E, t) : t \in T}
<1>0. g \notin RG
  BY DEF Acyclic
<1>1. CASE f \in RG \cup {g}
  <2> DEFINE S == RG \cup U
  <2>1. Successors(F, {g}) \subseteq S
    <3> SUFFICES ASSUME NEW e \in F, e[1] = g PROVE e[2] \in S
      BY DEF Successors
    <3>1. CASE e \in E
      BY <3>1, ReachSucc DEF Successors
    <3>. QED
      BY <3>1
  <2>2. Closed(F, S)
    <3> SUFFICES ASSUME NEW e \in F, e[1] \in S PROVE e[2] \in S
      BY DEF Closed, Successors
    <3>1. CASE e \in {f} \X T
      BY <3>1
    <3>2. CASE e \in E /\ e[1] \in RG
      BY <3>2, ReachClosed DEF Closed, Successors
    <3>3. CASE e \in E /\ e[1] \in U
      <4>1. PICK t \in T : e[1] \in {t} \cup ReachableFrom(E, t)
        BY <3>3
      <4>2. e[2] \in ReachableFrom(E, t)
        BY <3>3, <4>1, ReachSucc, ReachClosed DEF Closed, Successors
      <4>. QED
        BY <4>2
    <3>. QED
      BY <3>1, <3>2, <3>3
  <2>3. g \notin U
    <3> SUFFICES ASSUME NEW t \in T, g \in {t} \cup ReachableFrom(E, t) PROVE FALSE
      OBVIOUS
    <3>1. f \in {t} \cup ReachableFrom(E, t)
      <4>1. CASE f = g
        BY <4>1
      <4>2. CASE f \in RG
        BY <4>2, ReachTrans
      <4>. QED
        BY <1>1, <4>1, <4>2
    <3>. QED
      BY <3>1
  <2>. QED
    BY <1>0, <2>1, <2>2, <2>3, ReachLeast
<1>2. CASE f \notin RG \cup {g}
  <2>1. Successors(F, {g}) \subseteq RG
    <3> SUFFICES ASSUME NEW e \in F, e[1] = g PROVE e[2] \in RG
      BY DEF Successors
    <3>1. e \in E
      BY <1>2
    <3>. QED
      BY <3>1, ReachSucc DEF Successors
  <2>2. Closed(F, RG)
    <3> SUFFICES ASSUME NEW e \in F, e[1] \in RG PROVE e[2] \in RG
      BY DEF Closed, Successors
    <3>1. e \in E
      BY <1>2
    <3>. QED
      BY <3>1, ReachClosed DEF Closed, Successors
  <2>. QED
    BY <1>0, <2>1, <2>2, ReachLeast
<1>. QED
  BY <1>1, <1>2

(* Edges into one field f, from sources none of which f reaches, close  *)
(* no cycle: a cycle through a new edge a -> f would return from f to a. *)
LEMMA AddInEdgesAcyclic ==
    ASSUME NEW E, NEW f, NEW A, Acyclic(E),
           \A a \in A : a # f /\ a \notin ReachableFrom(E, f)
    PROVE  Acyclic(E \cup (A \X {f}))
<1> DEFINE F  == E \cup (A \X {f})
<1> SUFFICES ASSUME NEW g PROVE g \notin ReachableFrom(F, g)
  BY DEF Acyclic
<1> DEFINE RG == ReachableFrom(E, g)
           RF == ReachableFrom(E, f)
<1>0. g \notin RG
  BY DEF Acyclic
<1>1. CASE \E a \in A : a \in RG \cup {g}
  <2> DEFINE S == RG \cup {f} \cup RF
  <2>1. Successors(F, {g}) \subseteq S
    <3> SUFFICES ASSUME NEW e \in F, e[1] = g PROVE e[2] \in S
      BY DEF Successors
    <3>1. CASE e \in E
      BY <3>1, ReachSucc DEF Successors
    <3>. QED
      BY <3>1
  <2>2. Closed(F, S)
    <3> SUFFICES ASSUME NEW e \in F, e[1] \in S PROVE e[2] \in S
      BY DEF Closed, Successors
    <3>1. CASE e \in A \X {f}
      BY <3>1
    <3>2. CASE e \in E /\ e[1] \in RG
      BY <3>2, ReachClosed DEF Closed, Successors
    <3>3. CASE e \in E /\ e[1] = f
      BY <3>3, ReachSucc DEF Successors
    <3>4. CASE e \in E /\ e[1] \in RF
      BY <3>4, ReachClosed DEF Closed, Successors
    <3>. QED
      BY <3>1, <3>2, <3>3, <3>4
  <2>3. g # f /\ g \notin RF
    <3>1. PICK a \in A : a \in RG \cup {g}
      BY <1>1
    <3>2. a # f /\ a \notin RF
      OBVIOUS
    <3>3. g = f => FALSE
      BY <3>1, <3>2
    <3>4. g \in RF => FALSE
      BY <3>1, <3>2, ReachTrans
    <3>. QED
      BY <3>3, <3>4
  <2>. QED
    BY <1>0, <2>1, <2>2, <2>3, ReachLeast
<1>2. CASE ~\E a \in A : a \in RG \cup {g}
  <2>1. Successors(F, {g}) \subseteq RG
    <3> SUFFICES ASSUME NEW e \in F, e[1] = g PROVE e[2] \in RG
      BY DEF Successors
    <3>1. e \in E
      BY <1>2
    <3>. QED
      BY <3>1, ReachSucc DEF Successors
  <2>2. Closed(F, RG)
    <3> SUFFICES ASSUME NEW e \in F, e[1] \in RG PROVE e[2] \in RG
      BY DEF Closed, Successors
    <3>1. e \in E
      BY <1>2
    <3>. QED
      BY <3>1, ReachClosed DEF Closed, Successors
  <2>. QED
    BY <1>0, <2>1, <2>2, ReachLeast
<1>. QED
  BY <1>1, <1>2

-----------------------------------------------------------------------------
(* What each operation does to the graph of resolved rows.               *)

(* will_cause_circular_dep walks the graph of dependency and via edges,   *)
(* which holds every resolved dependency edge.                            *)
LEMMA EdgesInGraph ==
    ASSUME NEW d
    PROVE  DependencyEdges(d) \subseteq Graph(d)
BY DEF DependencyEdges, Resolved, Graph

(* A row after the rebuild is deleted, kept, or one of the rows created.  *)
LEMMA RebuildRowOrigin ==
    ASSUME NEW fl, NEW d, NEW f, NEW i \in RowIds
    PROVE  LET e == RebuildFieldDependencies(fl, d, f)
           IN  e[i] = NULL \/ e[i] = d[i] \/ e[i] \in ToCreate(fl, d, f)
<1> DEFINE new   == ToCreate(fl, d, f)
           gone  == ToDelete(fl, d, f)
           alloc == CHOOSE g \in [new -> FreeIds(d)] : IsInjective(g)
           e     == RebuildFieldDependencies(fl, d, f)
<1>1. e[i] = IF i \in gone THEN NULL
             ELSE IF \E r \in new : alloc[r] = i THEN CHOOSE r \in new : alloc[r] = i
             ELSE d[i]
  BY DEF RebuildFieldDependencies
<1>2. (\E r \in new : alloc[r] = i) => (CHOOSE r \in new : alloc[r] = i) \in new
  OBVIOUS
<1>. QED
  BY <1>1, <1>2

(* The targets of the resolved rows a rebuild of f creates.               *)
NewTargets(fl, d, f) ==
    {r.dependency : r \in {r \in ToCreate(fl, d, f) : r.dependency # NULL}}

(* A rebuild of f adds only edges from f to the targets of created rows,  *)
(* and when it does not raise CircularFieldDependencyError none of those  *)
(* targets is f or reaches f over the graph before the write.             *)
LEMMA RebuildAddsOut ==
    ASSUME NEW fl, NEW d, NEW f, ~CreatesCycle(fl, d, f)
    PROVE  /\ DependencyEdges(RebuildFieldDependencies(fl, d, f))
                  \subseteq DependencyEdges(d) \cup ({f} \X NewTargets(fl, d, f))
           /\ \A t \in NewTargets(fl, d, f) :
                  t # f /\ f \notin ReachableFrom(DependencyEdges(d), t)
<1> DEFINE e == RebuildFieldDependencies(fl, d, f)
<1>1. DependencyEdges(e) \subseteq DependencyEdges(d) \cup ({f} \X NewTargets(fl, d, f))
  <2> SUFFICES ASSUME NEW i \in UsedIds(e), e[i].dependency # NULL
               PROVE  <<e[i].dependant, e[i].dependency>>
                          \in DependencyEdges(d) \cup ({f} \X NewTargets(fl, d, f))
    BY DEF DependencyEdges, Resolved, Rows
  <2>1. CASE e[i] = d[i]
    BY <2>1 DEF DependencyEdges, Resolved, Rows, UsedIds
  <2>2. CASE e[i] \in ToCreate(fl, d, f)
    <3>1. e[i].dependant = f
      BY <2>2, ToCreateNew, NewDependenciesDependant
    <3>. QED
      BY <2>2, <3>1 DEF NewTargets
  <2>. QED
    BY <2>1, <2>2, RebuildRowOrigin DEF UsedIds
<1>2. ASSUME NEW t \in NewTargets(fl, d, f)
      PROVE  t # f /\ f \notin ReachableFrom(DependencyEdges(d), t)
  <2>1. t # f /\ f \notin ReachableFrom(Graph(d), t)
    BY <1>2 DEF NewTargets, CreatesCycle, WillCauseCircularDep
  <2>. QED
    BY <2>1, EdgesInGraph, ReachMono
<1>. QED
  BY <1>1, <1>2

(* A rebuild that does not raise keeps the graph acyclic.                 *)
LEMMA RebuildAcyclic ==
    ASSUME NEW fl, NEW d, NEW f, ~CreatesCycle(fl, d, f), Acyclic(DependencyEdges(d))
    PROVE  Acyclic(DependencyEdges(RebuildFieldDependencies(fl, d, f)))
<1>1. Acyclic(DependencyEdges(d) \cup ({f} \X NewTargets(fl, d, f)))
  BY RebuildAddsOut, AddOutEdgesAcyclic
<1>. QED
  BY <1>1, RebuildAddsOut, AcyclicMono

(* The rows update_fields_with_broken_references points at f, and their  *)
(* dependants.                                                            *)
RepairedIds(fl, d, f) ==
    {i \in BrokenFixedByName(fl, d, f) : ~WillCauseCircularDep(d, d[i].dependant, f)}

RepairSources(fl, d, f) == {d[i].dependant : i \in RepairedIds(fl, d, f)}

(* The rewrite of a row by the repair points it at f.                    *)
LEMMA RepairRowTarget ==
    ASSUME NEW r \in DepRec, NEW f
    PROVE  [r EXCEPT !.dependency = f, !.broken = NULL].dependency = f
BY DEF DepRec

(* The repair adds only edges into f, each from a dependant that is not f *)
(* and that f does not reach over the graph the repair was given.         *)
LEMMA RepairAddsIn ==
    ASSUME NEW fl, NEW d \in DepTable, NEW f \in Fields
    PROVE  /\ DependencyEdges(UpdateFieldsWithBrokenReferences(fl, d, f))
                  \subseteq DependencyEdges(d) \cup (RepairSources(fl, d, f) \X {f})
           /\ \A a \in RepairSources(fl, d, f) :
                  a # f /\ a \notin ReachableFrom(DependencyEdges(d), f)
<1> DEFINE e == UpdateFieldsWithBrokenReferences(fl, d, f)
<1>1. DependencyEdges(e) \subseteq DependencyEdges(d) \cup (RepairSources(fl, d, f) \X {f})
  <2> SUFFICES ASSUME NEW i \in UsedIds(e), e[i].dependency # NULL
               PROVE  <<e[i].dependant, e[i].dependency>>
                          \in DependencyEdges(d) \cup (RepairSources(fl, d, f) \X {f})
    BY DEF DependencyEdges, Resolved, Rows
  <2>1. CASE i \in RepairedIds(fl, d, f)
    <3>1. d[i] \in DepRec
      BY <2>1 DEF RepairedIds, BrokenFixedByName, UsedIds, DepTable, WellFormedDep
    <3>2. e[i] = [d[i] EXCEPT !.dependency = f, !.broken = NULL]
      BY <2>1 DEF UpdateFieldsWithBrokenReferences, RepairedIds, UsedIds
    <3>3. e[i].dependant = d[i].dependant /\ e[i].dependency = f
      BY <3>1, <3>2, RepairRowRewrite, RepairRowTarget
    <3>. QED
      BY <2>1, <3>3 DEF RepairSources
  <2>2. CASE i \notin RepairedIds(fl, d, f)
    <3>1. e[i] = d[i]
      BY <2>2 DEF UpdateFieldsWithBrokenReferences, RepairedIds, UsedIds
    <3>. QED
      BY <3>1 DEF DependencyEdges, Resolved, Rows, UsedIds
  <2>. QED
    BY <2>1, <2>2
<1>2. ASSUME NEW a \in RepairSources(fl, d, f)
      PROVE  a # f /\ a \notin ReachableFrom(DependencyEdges(d), f)
  <2>1. a # f /\ a \notin ReachableFrom(Graph(d), f)
    BY <1>2 DEF RepairSources, RepairedIds, WillCauseCircularDep
  <2>. QED
    BY <2>1, EdgesInGraph, ReachMono
<1>. QED
  BY <1>1, <1>2

(* The repair keeps the graph acyclic, although it resolves several rows *)
(* in one bulk_update checked against the rows before it: every row it  *)
(* resolves points at the same field f.                                   *)
LEMMA RepairAcyclic ==
    ASSUME NEW fl, NEW d \in DepTable, NEW f \in Fields, Acyclic(DependencyEdges(d))
    PROVE  Acyclic(DependencyEdges(UpdateFieldsWithBrokenReferences(fl, d, f)))
<1>1. Acyclic(DependencyEdges(d) \cup (RepairSources(fl, d, f) \X {f}))
  BY RepairAddsIn, AddInEdgesAcyclic
<1>. QED
  BY <1>1, RepairAddsIn, AcyclicMono

(* The break only removes edges.                                          *)
LEMMA BreakAcyclic ==
    ASSUME NEW fl \in FieldTable, NEW d \in DepTable, NEW f \in Fields,
           Acyclic(DependencyEdges(d))
    PROVE  Acyclic(DependencyEdges(BreakDependenciesForField(fl, d, f)))
BY BreakEdges, AcyclicMono

(* A rebuild of f followed by the repair of f keeps the graph acyclic.    *)
LEMMA RebuildAndRepairAcyclic ==
    ASSUME NEW fl \in FieldTable, NEW d \in DepTable, NEW f \in Fields,
           ~CreatesCycle(fl, d, f), Acyclic(DependencyEdges(d))
    PROVE  Acyclic(DependencyEdges(RebuildAndRepair(fl, d, f)))
<1>1. RebuildFieldDependencies(fl, d, f) \in DepTable
  BY RebuildType
<1>2. Acyclic(DependencyEdges(RebuildFieldDependencies(fl, d, f)))
  BY RebuildAcyclic
<1>. QED
  BY <1>1, <1>2, RepairAcyclic DEF RebuildAndRepair

-----------------------------------------------------------------------------
(* The invariant.                                                         *)

(* Every operation of the field lifecycle keeps the graph acyclic: each   *)
(* one that writes rows either rebuilds and repairs, only rebuilds, or   *)
(* breaks, and a rebuild that would close a cycle raises and is rolled   *)
(* back.                                                                   *)
LEMMA NextAcyclic ==
    ASSUME TypeOK, Acyclic(DependencyEdges(deps)), Next, fields' \in FieldTable
    PROVE  Acyclic(DependencyEdges(deps'))
<1> USE DEF TypeOK, DepTable
<1>1. ASSUME NEW f \in Fields, \E R \in RefsFor(f) : CreateField(f, R)
      PROVE  Acyclic(DependencyEdges(deps'))
  <2>1. PICK R \in RefsFor(f) : CreateField(f, R)
    BY <1>1
  <2>2. deps' = RebuildAndRepair(fields', deps, f) /\ ~CreatesCycle(fields', deps, f)
    BY <2>1 DEF CreateField, CanRebuild, RebuildFails
  <2>. QED
    BY <2>2, RebuildAndRepairAcyclic
<1>2. ASSUME NEW f \in Fields, \E n \in RenameTo[f] : RenameField(f, n)
      PROVE  Acyclic(DependencyEdges(deps'))
  <2>1. PICK n \in RenameTo[f] : RenameField(f, n)
    BY <1>2
  <2>2. deps' = RebuildAndRepair(fields', deps, f) /\ ~CreatesCycle(fields', deps, f)
    BY <2>1 DEF RenameField, CanRebuild, RebuildFails
  <2>. QED
    BY <2>2, RebuildAndRepairAcyclic
<1>3. ASSUME NEW f \in Fields, \E R \in RefsFor(f) : UpdateFieldRefs(f, R)
      PROVE  Acyclic(DependencyEdges(deps'))
  <2>1. PICK R \in RefsFor(f) : UpdateFieldRefs(f, R)
    BY <1>3
  <2>2. deps' = RebuildFieldDependencies(fields', deps, f) /\ ~CreatesCycle(fields', deps, f)
    BY <2>1 DEF UpdateFieldRefs, CanRebuild, RebuildFails
  <2>. QED
    BY <2>2, RebuildAcyclic
<1>4. ASSUME NEW f \in Fields, RebuildField(f) PROVE Acyclic(DependencyEdges(deps'))
  <2>1. deps' = RebuildFieldDependencies(fields, deps, f) /\ ~CreatesCycle(fields, deps, f)
    BY <1>4 DEF RebuildField, CanRebuild, RebuildFails
  <2>. QED
    BY <2>1, RebuildAcyclic
<1>5. ASSUME NEW f \in Fields, TrashField(f) PROVE Acyclic(DependencyEdges(deps'))
  <2>1. deps' = BreakDependenciesForField(fields', deps, f)
    BY <1>5 DEF TrashField
  <2>. QED
    BY <2>1, BreakAcyclic
<1>6. ASSUME NEW f \in Fields, RestoreField(f) PROVE Acyclic(DependencyEdges(deps'))
  <2>1. deps' = RebuildAndRepair(fields', deps, f) /\ ~CreatesCycle(fields', deps, f)
    BY <1>6 DEF RestoreField, CanRebuild, RebuildFails
  <2>. QED
    BY <2>1, RebuildAndRepairAcyclic
<1>. QED
  BY <1>1, <1>2, <1>3, <1>4, <1>5, <1>6 DEF Next

(* The inductive invariant: the rows are well typed and their graph of    *)
(* resolved dependencies acyclic over every node, field or not.          *)
AcyclicInv == TypeOK /\ Acyclic(DependencyEdges(deps))

(* DependencyGraphAcyclic holds in every reachable state: no sequence of *)
(* create_field, update_field, delete_field, restore and dependant       *)
(* rebuilds leaves a field that depends on itself through resolved       *)
(* FieldDependency rows, although rebuild_field_dependencies and          *)
(* update_fields_with_broken_references each write several rows checked *)
(* one by one against the graph before the write.                         *)
THEOREM AcyclicCorrect == Spec => []DependencyGraphAcyclic
<1>1. Init => AcyclicInv
  <2> SUFFICES ASSUME Init PROVE AcyclicInv
    OBVIOUS
  <2>1. DependencyEdges(deps) = {}
    BY DEF Init, DependencyEdges, Resolved, Rows, UsedIds
  <2>2. \A x : ReachableFrom({}, x) = {}
    BY DEF ReachableFrom, Targets
  <2>. QED
    BY <2>1, <2>2, InitTypeOK DEF AcyclicInv, Acyclic
<1>2. AcyclicInv /\ [Next]_vars => AcyclicInv'
  <2> SUFFICES ASSUME AcyclicInv, [Next]_vars PROVE AcyclicInv'
    OBVIOUS
  <2>1. CASE Next
    <3>1. fields' \in FieldTable /\ deps' \in DepTable
      BY <2>1, NextFieldsType, NextDepsType DEF AcyclicInv
    <3>2. Acyclic(DependencyEdges(deps'))
      BY <2>1, <3>1, NextAcyclic DEF AcyclicInv
    <3>. QED
      BY <3>1, <3>2 DEF AcyclicInv, TypeOK, FieldTable, DepTable
  <2>2. CASE UNCHANGED vars
    BY <2>2 DEF vars, AcyclicInv, TypeOK
  <2>. QED
    BY <2>1, <2>2
<1>3. AcyclicInv => DependencyGraphAcyclic
  BY DEF AcyclicInv, Acyclic, DependencyGraphAcyclic
<1>. QED
  BY <1>1, <1>2, <1>3, PTL DEF Spec

====
