------------------ MODULE FieldDependencies_refinement_proofs ------------------
(***************************************************************************)
(* Proof that the row table implements the graph-level contract of       *)
(* DependencyGraph under the mapping of FieldDependencies!Abstract.        *)
(***************************************************************************)
EXTENDS FieldDependencies_live_proofs, FiniteSetTheorems, FunctionTheorems

-----------------------------------------------------------------------------
(* Finiteness: the rebuild creates finitely many rows, so bulk_create can *)
(* give each of them a distinct free id whenever RowsAvailable holds.      *)

(* There is an injection from a finite set into any finite set at least   *)
(* as large.                                                               *)
LEMMA InjectionExists ==
    ASSUME NEW S, NEW T, IsFiniteSet(S), IsFiniteSet(T),
           Cardinality(S) <= Cardinality(T)
    PROVE  \E g \in [S -> T] : IsInjective(g)
<1> DEFINE n == Cardinality(S)
           m == Cardinality(T)
<1>1. n \in Nat /\ m \in Nat
  BY FS_CardinalityType
<1>2. ASSUME NEW k \in Nat PROVE Cardinality(1..k) = k /\ IsFiniteSet(1..k)
  <2>1. Cardinality(1..k) = (IF 1 > k THEN 0 ELSE k-1+1) /\ IsFiniteSet(1..k)
    BY FS_Interval
  <2>. QED
    BY <2>1
<1>3. ExistsBijection(S, 1..n) /\ ExistsBijection(1..m, T)
  <2>1. ExistsBijection(S, 1..n)
    BY <1>1, <1>2, FS_SameCardinalityBij
  <2>2. ExistsBijection(1..m, T)
    BY <1>1, <1>2, FS_SameCardinalityBij
  <2>. QED
    BY <2>1, <2>2
<1>4. ExistsInjection(S, 1..n) /\ ExistsInjection(1..m, T)
  BY <1>3 DEF ExistsBijection, ExistsInjection, Bijection
<1>5. ExistsInjection(1..n, 1..m)
  BY <1>1, Fun_NatInjLeq
<1>6. ExistsInjection(S, T)
  BY <1>4, <1>5, Fun_ExistsInjTransitive
<1>. QED
  BY <1>6 DEF ExistsInjection, Injection

(* The descriptor records are finitely many.                               *)
LEMMA DescriptorFinite == IsFiniteSet(Descriptor)
<1> DEFINE P == (Names \cup {NULL}) \X Names
           g == [p \in P |-> Through(p[1], p[2])]
<1>1. IsFiniteSet(P)
  BY ConstantsAssumption, FS_AddElement, FS_Product
<1>2. g \in Surjection(P, Descriptor)
  <2>1. g \in [P -> Descriptor]
    BY DEF Through, Descriptor
  <2>2. ASSUME NEW t \in Descriptor PROVE \E p \in P : g[p] = t
    <3>1. <<t.through, t.name>> \in P /\ g[<<t.through, t.name>>] = t
      BY DEF Descriptor, Through
    <3>. QED
      BY <3>1
  <2>. QED
    BY <2>1, <2>2 DEF Surjection
<1>. QED
  BY <1>1, <1>2, FS_Surjection

(* A set of at most six given elements is finite.                          *)
LEMMA SixFinite ==
    ASSUME NEW a, NEW b, NEW c, NEW x, NEW y, NEW z
    PROVE  IsFiniteSet({a, b, c, x, y, z})
<1>1. IsFiniteSet({a, b})
  <2>1. IsFiniteSet({a})
    BY FS_Singleton
  <2>. QED
    BY <2>1, FS_AddElement
<1>2. IsFiniteSet({a, b, c})
  BY <1>1, FS_AddElement
<1>3. IsFiniteSet({a, b, c, x})
  BY <1>2, FS_AddElement
<1>4. IsFiniteSet({a, b, c, x, y})
  BY <1>3, FS_AddElement
<1>. QED
  BY <1>4, FS_AddElement

(* One descriptor is constructed into at most six candidate rows.         *)
LEMMA ConstructDependencyFinite ==
    ASSUME NEW fl, NEW f, NEW ref
    PROVE  IsFiniteSet(ConstructDependency(fl, f, ref))
<1> DEFINE table  == TableOf[f]
           direct == LookupByName(fl, table, ref.name)
           via    == LookupByName(fl, table, ref.through)
           target == IF via # NULL /\ IsLink(via)
                     THEN LookupByName(fl, LinkTo[via], ref.name) ELSE NULL
           E == {Dep(f, direct, NULL, NULL), Dep(f, NULL, NULL, ref.name),
                 Dep(f, NULL, NULL, ref.through), Dep(f, via, NULL, NULL),
                 Dep(f, NULL, via, ref.name), Dep(f, target, via, NULL)}
<1>1. ConstructDependency(fl, f, ref) \subseteq E
  <2>1. CASE ref.through = NULL
    BY <2>1 DEF ConstructDependency
  <2>2. CASE ref.through # NULL /\ via = NULL
    BY <2>2 DEF ConstructDependency
  <2>3. CASE ref.through # NULL /\ via # NULL /\ ~IsLink(via)
    BY <2>3 DEF ConstructDependency
  <2>4. CASE ref.through # NULL /\ via # NULL /\ IsLink(via) /\ target = NULL
    BY <2>4 DEF ConstructDependency
  <2>5. CASE ref.through # NULL /\ via # NULL /\ IsLink(via) /\ target # NULL
    BY <2>5 DEF ConstructDependency
  <2>. QED
    BY <2>1, <2>2, <2>3, <2>4, <2>5
<1>2. IsFiniteSet(E)
  BY SixFinite
<1>. QED
  BY <1>1, <1>2, FS_Subset

(* The desired rows of a rebuild are finitely many.                       *)
LEMMA NewDependenciesFinite ==
    ASSUME NEW fl \in FieldTable, NEW f \in Fields
    PROVE  IsFiniteSet(NewDependencies(fl, f))
<1> DEFINE D == FieldDependencies(fl, f)
           F == {ConstructDependency(fl, f, ref) : ref \in D}
           g == [ref \in D |-> ConstructDependency(fl, f, ref)]
<1>1. IsFiniteSet(D)
  BY FieldDependenciesType, DescriptorFinite, FS_Subset
<1>2. g \in Surjection(D, F)
  BY DEF Surjection
<1>3. IsFiniteSet(F)
  BY <1>1, <1>2, FS_Surjection
<1>4. \A T \in F : IsFiniteSet(T)
  BY ConstructDependencyFinite
<1>. QED
  BY <1>3, <1>4, FS_UNION DEF NewDependencies

(* Hence, when RowsAvailable holds, the allocation of bulk_create maps the *)
(* created rows one to one into free ids.                                 *)
LEMMA AllocFree ==
    ASSUME NEW fl \in FieldTable, NEW d, NEW f \in Fields, RowsAvailable(fl, d, f)
    PROVE  LET alloc == CHOOSE g \in [ToCreate(fl, d, f) -> FreeIds(d)] : IsInjective(g)
           IN  alloc \in [ToCreate(fl, d, f) -> FreeIds(d)] /\ IsInjective(alloc)
<1>1. IsFiniteSet(ToCreate(fl, d, f))
  BY NewDependenciesFinite, ToCreateNew, FS_Subset
<1>2. IsFiniteSet(FreeIds(d))
  <2>1. IsFiniteSet(RowIds)
    BY ConstantsAssumption, FS_Interval DEF RowIds
  <2>. QED
    BY <2>1, FS_Subset DEF FreeIds
<1>. QED
  BY <1>1, <1>2, InjectionExists DEF RowsAvailable

-----------------------------------------------------------------------------
(* From rows to edges.                                                     *)

(* Edges not out of f survive a step that keeps every row of another      *)
(* dependant.                                                              *)
LEMMA EdgesOutside ==
    ASSUME NEW d, NEW e, NEW f,
           \A i \in RowIds : d[i] # NULL /\ d[i].dependant # f => e[i] = d[i]
    PROVE  {x \in DependencyEdges(d) : x[1] # f} \subseteq DependencyEdges(e)
<1> SUFFICES ASSUME NEW r \in Resolved(d), r.dependant # f
             PROVE  <<r.dependant, r.dependency>> \in DependencyEdges(e)
  BY DEF DependencyEdges
<1>1. PICK i \in UsedIds(d) : d[i] = r
  BY DEF Resolved, Rows
<1>2. e[i] = r /\ i \in UsedIds(e)
  BY <1>1 DEF UsedIds
<1>3. r \in Resolved(e)
  BY <1>2 DEF Resolved, Rows
<1>. QED
  BY <1>3 DEF DependencyEdges

(* Every edge survives a step that keeps every resolved row.               *)
LEMMA EdgesKept ==
    ASSUME NEW d, NEW e,
           \A i \in RowIds : d[i] # NULL /\ d[i].dependency # NULL => e[i] = d[i]
    PROVE  DependencyEdges(d) \subseteq DependencyEdges(e)
<1> SUFFICES ASSUME NEW r \in Resolved(d)
             PROVE  <<r.dependant, r.dependency>> \in DependencyEdges(e)
  BY DEF DependencyEdges
<1>1. PICK i \in UsedIds(d) : d[i] = r
  BY DEF Resolved, Rows
<1>2. r.dependency # NULL
  BY DEF Resolved
<1>3. e[i] = r /\ i \in UsedIds(e)
  BY <1>1, <1>2 DEF UsedIds
<1>4. r \in Resolved(e)
  BY <1>2, <1>3 DEF Resolved, Rows
<1>. QED
  BY <1>4 DEF DependencyEdges

(* A step whose changed resolved rows all depend on f adds edges into f   *)
(* only.                                                                   *)
LEMMA EdgesAddedInto ==
    ASSUME NEW d, NEW e, NEW f,
           \A i \in RowIds : e[i] # NULL /\ e[i].dependency # NULL =>
                                 e[i] = d[i] \/ e[i].dependency = f
    PROVE  \A x \in DependencyEdges(e) \ DependencyEdges(d) : x[2] = f
<1> SUFFICES ASSUME NEW r \in Resolved(e),
                    <<r.dependant, r.dependency>> \notin DependencyEdges(d)
             PROVE  r.dependency = f
  BY DEF DependencyEdges
<1>1. PICK i \in UsedIds(e) : e[i] = r
  BY DEF Resolved, Rows
<1>2. r.dependency # NULL
  BY DEF Resolved
<1>3. CASE e[i] = d[i]
  <2>1. r \in Resolved(d)
    BY <1>1, <1>2, <1>3 DEF UsedIds, Resolved, Rows
  <2>. QED
    BY <2>1 DEF DependencyEdges
<1>. QED
  BY <1>1, <1>2, <1>3 DEF UsedIds

-----------------------------------------------------------------------------
(* What each operation does to rows of other fields.                      *)

(* Every constructed row has the rebuilt field as its dependant.          *)
LEMMA NewDependenciesDependant ==
    ASSUME NEW fl, NEW f
    PROVE  \A r \in NewDependencies(fl, f) : r.dependant = f
<1> SUFFICES ASSUME NEW ref, NEW r \in ConstructDependency(fl, f, ref)
             PROVE  r.dependant = f
  BY DEF NewDependencies
<1> DEFINE table  == TableOf[f]
           via    == LookupByName(fl, table, ref.through)
           target == IF via # NULL /\ IsLink(via)
                     THEN LookupByName(fl, LinkTo[via], ref.name) ELSE NULL
<1>1. CASE ref.through = NULL
  BY <1>1 DEF ConstructDependency, Dep
<1>2. CASE ref.through # NULL /\ via = NULL
  BY <1>2 DEF ConstructDependency, Dep
<1>3. CASE ref.through # NULL /\ via # NULL /\ ~IsLink(via)
  BY <1>3 DEF ConstructDependency, Dep
<1>4. CASE ref.through # NULL /\ via # NULL /\ IsLink(via) /\ target = NULL
  BY <1>4 DEF ConstructDependency, Dep
<1>5. CASE ref.through # NULL /\ via # NULL /\ IsLink(via) /\ target # NULL
  BY <1>5 DEF ConstructDependency, Dep
<1>. QED
  BY <1>1, <1>2, <1>3, <1>4, <1>5

(* rebuild_field_dependencies writes only rows of f: it deletes rows of f *)
(* and creates rows of f in ids that were free.                           *)
LEMMA RebuildFrame ==
    ASSUME NEW fl \in FieldTable, NEW d, NEW f \in Fields, RowsAvailable(fl, d, f),
           NEW i \in RowIds
    PROVE  LET e == RebuildFieldDependencies(fl, d, f)
           IN  /\ d[i] # NULL /\ d[i].dependant # f => e[i] = d[i]
               /\ e[i] # NULL /\ e[i].dependant # f => e[i] = d[i]
<1> DEFINE new   == ToCreate(fl, d, f)
           gone  == ToDelete(fl, d, f)
           alloc == CHOOSE g \in [new -> FreeIds(d)] : IsInjective(g)
           e     == RebuildFieldDependencies(fl, d, f)
<1>1. alloc \in [new -> FreeIds(d)]
  BY AllocFree
<1>2. gone \subseteq CurrentIds(d, f)
  BY ToDeleteCurrent
<1>3. \A r \in new : r.dependant = f
  BY ToCreateNew, NewDependenciesDependant
<1>4. e[i] = IF i \in gone THEN NULL
             ELSE IF \E r \in new : alloc[r] = i THEN CHOOSE r \in new : alloc[r] = i
             ELSE d[i]
  BY DEF RebuildFieldDependencies
<1>5. ASSUME d[i] # NULL, d[i].dependant # f PROVE e[i] = d[i]
  <2>1. i \notin gone
    BY <1>2, <1>5 DEF CurrentIds
  <2>2. ~\E r \in new : alloc[r] = i
    BY <1>1, <1>5 DEF FreeIds, UsedIds
  <2>. QED
    BY <1>4, <2>1, <2>2
<1>6. ASSUME e[i] # NULL, e[i].dependant # f PROVE e[i] = d[i]
  <2>1. i \notin gone
    BY <1>4, <1>6
  <2>2. ~\E r \in new : alloc[r] = i
    BY <1>3, <1>4, <1>6, <2>1
  <2>. QED
    BY <1>4, <2>1, <2>2
<1>. QED
  BY <1>5, <1>6

(* update_fields_with_broken_references changes only broken rows, and     *)
(* points each of them at f.                                               *)
LEMMA RepairFrame ==
    ASSUME NEW fl \in FieldTable, NEW d \in DepTable, NEW f \in Fields, NEW i \in RowIds
    PROVE  LET e == UpdateFieldsWithBrokenReferences(fl, d, f)
           IN  /\ d[i] # NULL /\ d[i].dependency # NULL => e[i] = d[i]
               /\ e[i] # NULL /\ e[i].dependency # NULL =>
                      e[i] = d[i] \/ e[i].dependency = f
<1> DEFINE e == UpdateFieldsWithBrokenReferences(fl, d, f)
<1>1. CASE i \in BrokenFixedByName(fl, d, f) /\ ~WillCauseCircularDep(d, d[i].dependant, f)
  <2>1. e[i] = [d[i] EXCEPT !.dependency = f, !.broken = NULL]
    BY <1>1 DEF UpdateFieldsWithBrokenReferences
  <2>2. d[i] \in WellFormedDep /\ d[i].broken = fl[f].name
    BY <1>1 DEF BrokenFixedByName, UsedIds, DepTable
  <2>3. fl[f].name # NULL
    BY ConstantsAssumption DEF FieldTable, FieldRec
  <2>4. d[i].dependency = NULL
    BY <2>2, <2>3 DEF WellFormedDep
  <2>5. e[i].dependency = f
    BY <2>1, <2>2 DEF WellFormedDep, DepRec
  <2>. QED
    BY <2>4, <2>5
<1>2. CASE ~(i \in BrokenFixedByName(fl, d, f) /\ ~WillCauseCircularDep(d, d[i].dependant, f))
  BY <1>2 DEF UpdateFieldsWithBrokenReferences
<1>. QED
  BY <1>1, <1>2

(* Each update of break_dependencies_for_field deletes rows or clears     *)
(* their dependency, and leaves every other row as it is.                 *)
LEMMA BreakFrame ==
    ASSUME NEW fl \in FieldTable, NEW d \in DepTable, NEW f \in Fields
    PROVE  LET n == fl[f].name
               a == DeleteOwnDependencies(d, f)
               b == BreakDependants(a, f, n)
               c == BreakVias(b, f, n)
           IN  \A i \in RowIds :
                  /\ a[i] # NULL /\ a[i].dependency # NULL => a[i] = d[i]
                  /\ b[i] # NULL /\ b[i].dependency # NULL => b[i] = a[i]
                  /\ c[i] # NULL /\ c[i].dependency # NULL => c[i] = b[i]
<1> DEFINE n == fl[f].name
           a == DeleteOwnDependencies(d, f)
           b == BreakDependants(a, f, n)
           c == BreakVias(b, f, n)
<1>1. n \in Names /\ NULL \notin Names
  BY ConstantsAssumption DEF FieldTable, FieldRec
<1>2. \A i \in RowIds : a[i] # NULL => a[i] = d[i] /\ a[i] \in DepRec
  BY DEF DeleteOwnDependencies, DepTable, WellFormedDep
<1>3. \A i \in RowIds : b[i] # NULL /\ b[i].dependency # NULL => b[i] = a[i]
  <2> SUFFICES ASSUME NEW i \in RowIds, b[i] # NULL, b[i].dependency # NULL
               PROVE  b[i] = a[i]
    OBVIOUS
  <2>1. CASE a[i] # NULL /\ a[i].dependency = f
    <3>1. b[i] = [a[i] EXCEPT !.dependency = NULL, !.broken = n]
      BY <2>1 DEF BreakDependants
    <3>2. LET r == [a[i] EXCEPT !.dependency = NULL, !.broken = n]
          IN  r.dependency = NULL
      BY <1>1, <1>2, <2>1, BreakRowRewrite
    <3>. QED
      BY <3>1, <3>2
  <2>. QED
    BY <2>1 DEF BreakDependants
<1>4. \A i \in RowIds : b[i] # NULL => b[i] \in DepRec
  <2> SUFFICES ASSUME NEW i \in RowIds, b[i] # NULL PROVE b[i] \in DepRec
    OBVIOUS
  <2>1. CASE a[i] # NULL /\ a[i].dependency = f
    <3>1. b[i] = [a[i] EXCEPT !.dependency = NULL, !.broken = n]
      BY <2>1 DEF BreakDependants
    <3>2. LET r == [a[i] EXCEPT !.dependency = NULL, !.broken = n]
          IN  r \in DepRec
      BY <1>1, <1>2, <2>1, BreakRowRewrite
    <3>. QED
      BY <3>1, <3>2
  <2>. QED
    BY <1>2, <2>1 DEF BreakDependants
<1>5. \A i \in RowIds : c[i] # NULL /\ c[i].dependency # NULL => c[i] = b[i]
  <2> SUFFICES ASSUME NEW i \in RowIds, c[i] # NULL, c[i].dependency # NULL
               PROVE  c[i] = b[i]
    OBVIOUS
  <2>1. CASE b[i] # NULL /\ b[i].via = f
    <3>1. c[i] = [b[i] EXCEPT !.dependency = NULL, !.broken = n, !.via = NULL]
      BY <2>1 DEF BreakVias
    <3>2. LET r == [b[i] EXCEPT !.dependency = NULL, !.broken = n, !.via = NULL]
          IN  r.dependency = NULL
      BY <1>1, <1>4, <2>1, BreakRowRewrite
    <3>. QED
      BY <3>1, <3>2
  <2>. QED
    BY <2>1 DEF BreakVias
<1>. QED
  BY <1>2, <1>3, <1>5

-----------------------------------------------------------------------------
(* What each operation does to the edges.                                 *)

(* A rebuild of f leaves every edge not out of f as it is.                *)
LEMMA RebuildEdges ==
    ASSUME NEW fl \in FieldTable, NEW d, NEW f \in Fields, RowsAvailable(fl, d, f)
    PROVE  LET e == RebuildFieldDependencies(fl, d, f)
           IN  {x \in DependencyEdges(e) : x[1] # f} = {x \in DependencyEdges(d) : x[1] # f}
<1> DEFINE e == RebuildFieldDependencies(fl, d, f)
<1>1. {x \in DependencyEdges(d) : x[1] # f} \subseteq DependencyEdges(e)
  <2>1. \A i \in RowIds : d[i] # NULL /\ d[i].dependant # f => e[i] = d[i]
    BY RebuildFrame
  <2>. QED
    BY <2>1, EdgesOutside
<1>2. {x \in DependencyEdges(e) : x[1] # f} \subseteq DependencyEdges(d)
  <2>1. \A i \in RowIds : e[i] # NULL /\ e[i].dependant # f => d[i] = e[i]
    BY RebuildFrame
  <2>. QED
    BY <2>1, EdgesOutside
<1>. QED
  BY <1>1, <1>2

(* A rebuild of f followed by the repair of f removes edges out of f only *)
(* and adds edges out of or into f only.                                  *)
LEMMA RebuildAndRepairEdges ==
    ASSUME NEW fl \in FieldTable, NEW d \in DepTable, NEW f \in Fields,
           RowsAvailable(fl, d, f)
    PROVE  LET e == RebuildAndRepair(fl, d, f)
           IN  /\ {x \in DependencyEdges(d) : x[1] # f} \subseteq DependencyEdges(e)
               /\ \A x \in DependencyEdges(e) \ DependencyEdges(d) : x[1] = f \/ x[2] = f
<1> DEFINE d1 == RebuildFieldDependencies(fl, d, f)
           e  == UpdateFieldsWithBrokenReferences(fl, d1, f)
<1>1. d1 \in DepTable
  BY RebuildType
<1>2. {x \in DependencyEdges(d1) : x[1] # f} = {x \in DependencyEdges(d) : x[1] # f}
  BY RebuildEdges
<1>3. DependencyEdges(d1) \subseteq DependencyEdges(e)
  <2>1. \A i \in RowIds : d1[i] # NULL /\ d1[i].dependency # NULL => e[i] = d1[i]
    BY <1>1, RepairFrame
  <2>. QED
    BY <2>1, EdgesKept
<1>4. \A x \in DependencyEdges(e) \ DependencyEdges(d1) : x[2] = f
  <2>1. \A i \in RowIds : e[i] # NULL /\ e[i].dependency # NULL =>
                             e[i] = d1[i] \/ e[i].dependency = f
    BY <1>1, RepairFrame
  <2>. QED
    BY <2>1, EdgesAddedInto
<1>. QED
  BY <1>2, <1>3, <1>4 DEF RebuildAndRepair

(* The break of f removes edges and adds none.                            *)
LEMMA BreakEdges ==
    ASSUME NEW fl \in FieldTable, NEW d \in DepTable, NEW f \in Fields
    PROVE  DependencyEdges(BreakDependenciesForField(fl, d, f)) \subseteq DependencyEdges(d)
<1> DEFINE n == fl[f].name
           a == DeleteOwnDependencies(d, f)
           b == BreakDependants(a, f, n)
           c == BreakVias(b, f, n)
<1>1. DependencyEdges(a) \subseteq DependencyEdges(d)
  <2>1. \A i \in RowIds : a[i] # NULL /\ a[i].dependency # NULL => d[i] = a[i]
    BY BreakFrame
  <2>. QED
    BY <2>1, EdgesKept
<1>2. DependencyEdges(b) \subseteq DependencyEdges(a)
  <2>1. \A i \in RowIds : b[i] # NULL /\ b[i].dependency # NULL => a[i] = b[i]
    BY BreakFrame
  <2>. QED
    BY <2>1, EdgesKept
<1>3. DependencyEdges(c) \subseteq DependencyEdges(b)
  <2>1. \A i \in RowIds : c[i] # NULL /\ c[i].dependency # NULL => b[i] = c[i]
    BY BreakFrame
  <2>. QED
    BY <2>1, EdgesKept
<1>. QED
  BY <1>1, <1>2, <1>3 DEF BreakDependenciesForField

(* Rows with live endpoints give edges between live fields.                *)
LEMMA EdgesBetweenLive ==
    ASSUME NEW fl, NEW d,
           \A r \in Rows(d) : r.dependant \in Live(fl) /\ r.dependency \in Live(fl) \cup {NULL}
    PROVE  DependencyEdges(d) \subseteq Live(fl) \X Live(fl)
BY DEF DependencyEdges, Resolved

-----------------------------------------------------------------------------
(* Every step of the row table is a step of the abstract graph or leaves  *)
(* it unchanged.                                                           *)

(* A create, rename or restore whose field table fl makes f live and      *)
(* keeps every other field as it was is a Relink step.                    *)
LEMMA RelinkStep ==
    ASSUME TypeOK, NEW f \in Fields, NEW fl \in FieldTable,
           Live(fl) \in {Live(fields), Live(fields) \cup {f}}, f \in Live(fl),
           RowsAvailable(fl, deps, f),
           fields' = fl, deps' = RebuildAndRepair(fl, deps, f),
           DependencyEdges(deps') \subseteq Live(fields') \X Live(fields')
    PROVE  Abstract!Relink(f)
<1>1. deps \in DepTable
  BY DEF TypeOK, DepTable
<1>2. /\ {x \in DependencyEdges(deps) : x[1] # f} \subseteq DependencyEdges(deps')
      /\ \A x \in DependencyEdges(deps') \ DependencyEdges(deps) : x[1] = f \/ x[2] = f
  BY <1>1, RebuildAndRepairEdges
<1>. QED
  BY <1>2 DEF Abstract!Relink, Abstract!Out, Abstract!BetweenLive

(* A definition change or a rebuild of a live f is a Rebuild step.        *)
LEMMA RebuildStep ==
    ASSUME NEW f \in Live(fields), NEW fl \in FieldTable, Live(fl) = Live(fields),
           RowsAvailable(fl, deps, f),
           fields' = fl, deps' = RebuildFieldDependencies(fl, deps, f),
           DependencyEdges(deps') \subseteq Live(fields') \X Live(fields')
    PROVE  Abstract!Rebuild(f)
<1>0. f \in Fields
  BY DEF Live
<1>1. {x \in DependencyEdges(deps') : x[1] # f} = {x \in DependencyEdges(deps) : x[1] # f}
  <2>1. LET e == RebuildFieldDependencies(fl, deps, f)
        IN  {x \in DependencyEdges(e) : x[1] # f} = {x \in DependencyEdges(deps) : x[1] # f}
    BY <1>0, RebuildEdges
  <2>. QED
    BY <2>1
<1>. QED
  BY <1>1 DEF Abstract!Rebuild, Abstract!OthersUnchanged, Abstract!Out,
             Abstract!BetweenLive

LEMMA StepRefines ==
    ASSUME TypeOK, LiveEndpoints', [Next]_vars
    PROVE  [Abstract!AbsNext]_Abstract!absVars
<1>0. fields \in FieldTable /\ deps \in DepTable
  BY DEF TypeOK, FieldTable, DepTable
<1>b. DependencyEdges(deps') \subseteq Live(fields') \X Live(fields')
  BY EdgesBetweenLive DEF LiveEndpoints
<1>r. ASSUME NEW f \in Fields, NEW R \in RefsFor(f)
      PROVE  R \in SUBSET Descriptor
  BY ConstantsAssumption DEF RefsFor
<1>1. ASSUME NEW f \in Fields, NEW R \in RefsFor(f), CreateField(f, R)
      PROVE  Abstract!AbsNext
  <2> DEFINE fl == [fields EXCEPT ![f] = [state |-> "live", name |-> fields[f].name,
                                         refs |-> R]]
  <2>1. fields' = fl /\ deps' = RebuildAndRepair(fl, deps, f) /\ RowsAvailable(fl, deps, f)
    BY <1>1 DEF CreateField, CanRebuild
  <2>2. fl \in FieldTable
    BY <1>0, <1>r DEF FieldTable, FieldRec, FieldStates
  <2>3. Live(fl) = Live(fields) \cup {f}
    BY <1>0 DEF Live, FieldTable
  <2>4. Abstract!Relink(f)
    BY <2>1, <2>2, <2>3, <1>b, RelinkStep
  <2>. QED
    BY <2>4 DEF Abstract!AbsNext
<1>2. ASSUME NEW f \in Fields, NEW n \in RenameTo[f], RenameField(f, n)
      PROVE  Abstract!AbsNext
  <2> DEFINE fl == [fields EXCEPT ![f].name = n]
  <2>1. fields' = fl /\ deps' = RebuildAndRepair(fl, deps, f) /\ RowsAvailable(fl, deps, f)
        /\ fields[f].state = "live"
    BY <1>2 DEF RenameField, CanRebuild
  <2>2. fl \in FieldTable
    <3>1. n \in Names /\ fields[f] \in FieldRec
      BY <1>0, ConstantsAssumption DEF FieldTable
    <3>2. [fields[f] EXCEPT !.name = n] \in FieldRec
      BY <3>1 DEF FieldRec
    <3>. QED
      BY <1>0, <3>2 DEF FieldTable
  <2>3. Live(fl) = Live(fields) /\ f \in Live(fl)
    BY <1>0, <2>1 DEF Live, FieldTable
  <2>4. Abstract!Relink(f)
    BY <2>1, <2>2, <2>3, <1>b, RelinkStep
  <2>. QED
    BY <2>4 DEF Abstract!AbsNext
<1>3. ASSUME NEW f \in Fields, NEW R \in RefsFor(f), UpdateFieldRefs(f, R)
      PROVE  Abstract!AbsNext
  <2> DEFINE fl == [fields EXCEPT ![f].refs = R]
  <2>1. fields' = fl /\ deps' = RebuildFieldDependencies(fl, deps, f)
        /\ RowsAvailable(fl, deps, f) /\ fields[f].state = "live"
    BY <1>3 DEF UpdateFieldRefs, CanRebuild
  <2>2. fl \in FieldTable
    BY <1>0, <1>r DEF FieldTable, FieldRec
  <2>3. Live(fl) = Live(fields) /\ f \in Live(fields)
    BY <1>0, <2>1 DEF Live, FieldTable
  <2>4. Abstract!Rebuild(f)
    BY <2>1, <2>2, <2>3, <1>b, RebuildStep
  <2>. QED
    BY <2>4 DEF Abstract!AbsNext
<1>4. ASSUME NEW f \in Fields, RebuildField(f)
      PROVE  Abstract!AbsNext
  <2>1. fields' = fields /\ deps' = RebuildFieldDependencies(fields, deps, f)
        /\ RowsAvailable(fields, deps, f) /\ f \in Live(fields)
    BY <1>4 DEF RebuildField, CanRebuild, Live
  <2>2. Abstract!Rebuild(f)
    BY <2>1, <1>0, <1>b, RebuildStep
  <2>. QED
    BY <2>2 DEF Abstract!AbsNext
<1>5. ASSUME NEW f \in Fields, TrashField(f)
      PROVE  Abstract!AbsNext
  <2> DEFINE fl == [fields EXCEPT ![f].state = "trashed"]
  <2>1. fields' = fl /\ deps' = BreakDependenciesForField(fl, deps, f)
        /\ f \in Live(fields)
    BY <1>5 DEF TrashField, Live
  <2>2. fl \in FieldTable
    BY <1>0 DEF FieldTable, FieldRec, FieldStates
  <2>3. Live(fl) = Live(fields) \ {f}
    BY <1>0, TrashLive
  <2>4. DependencyEdges(deps') \subseteq DependencyEdges(deps)
    BY <1>0, <2>1, <2>2, BreakEdges
  <2>5. Abstract!Disconnect(f)
    BY <2>1, <2>3, <2>4, <1>b DEF Abstract!Disconnect, Abstract!BetweenLive
  <2>. QED
    BY <2>5 DEF Abstract!AbsNext
<1>6. ASSUME NEW f \in Fields, RestoreField(f)
      PROVE  Abstract!AbsNext
  <2> DEFINE fl == [fields EXCEPT ![f].state = "live"]
  <2>1. fields' = fl /\ deps' = RebuildAndRepair(fl, deps, f) /\ RowsAvailable(fl, deps, f)
    BY <1>6 DEF RestoreField, CanRebuild
  <2>2. fl \in FieldTable
    BY <1>0 DEF FieldTable, FieldRec, FieldStates
  <2>3. Live(fl) = Live(fields) \cup {f}
    BY <1>0 DEF Live, FieldTable
  <2>4. Abstract!Relink(f)
    BY <2>1, <2>2, <2>3, <1>b, RelinkStep
  <2>. QED
    BY <2>4 DEF Abstract!AbsNext
<1>7. CASE UNCHANGED vars
  BY <1>7 DEF vars, Abstract!absVars
<1>. QED
  BY <1>1, <1>2, <1>3, <1>4, <1>5, <1>6, <1>7 DEF Next

(* The row table implements DependencyGraph: the refinement checked by    *)
(* ImplementsDependencyGraph, for every value of the constants.           *)
THEOREM Refinement == Spec => ImplementsDependencyGraph
<1>1. Init => Abstract!AbsInit
  <2> SUFFICES ASSUME Init PROVE Abstract!AbsInit
    OBVIOUS
  <2>1. Live(fields) = Initial
    BY ConstantsAssumption DEF Init, Live
  <2>2. DependencyEdges(deps) = {}
    BY DEF Init, DependencyEdges, Resolved, Rows, UsedIds
  <2>. QED
    BY <2>1, <2>2 DEF Abstract!AbsInit
<1>2. TypeOK /\ LiveEndpoints' /\ [Next]_vars => [Abstract!AbsNext]_Abstract!absVars
  BY StepRefines
<1>. QED
  BY <1>1, <1>2, TypeCorrect, LiveEndpointsCorrect, PTL
     DEF Spec, ImplementsDependencyGraph, Abstract!AbsSpec

=============================================================================
