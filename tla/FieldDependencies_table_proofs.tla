-------------------- MODULE FieldDependencies_table_proofs --------------------
(***************************************************************************)
(* Proof that a resolved row without via always targets a field of its    *)
(* dependant's own table.                                                  *)
(***************************************************************************)
EXTENDS FieldDependencies_refinement_proofs

(* A resolved row without via joins two fields of one table.              *)
DirectOK(r) ==
    r.dependency # NULL /\ r.via = NULL => TableOf[r.dependency] = TableOf[r.dependant]

DirectRows(d) == \A i \in RowIds : d[i] # NULL => DirectOK(d[i])

TableInv == TypeOK /\ DirectRows(deps)

LEMMA DirectRowsIff ==
    DirectRows(deps) <=> DirectTargetInOwnTable
BY DEF DirectRows, DirectOK, DirectTargetInOwnTable, Resolved, Rows, UsedIds

(* _construct_dependency resolves a bare name and a via name in the       *)
(* field's own table, and a target only through a via.                    *)
LEMMA ConstructDependencyDirect ==
    ASSUME NEW fl, NEW f, NEW ref
    PROVE  \A r \in ConstructDependency(fl, f, ref) : DirectOK(r)
<1> DEFINE table  == TableOf[f]
           direct == LookupByName(fl, table, ref.name)
           via    == LookupByName(fl, table, ref.through)
           target == IF via # NULL /\ IsLink(via)
                     THEN LookupByName(fl, LinkTo[via], ref.name) ELSE NULL
<1>1. direct # NULL => TableOf[direct] = table
  BY LookupByNameLive
<1>2. via # NULL => TableOf[via] = table
  BY LookupByNameLive
<1>3. CASE ref.through = NULL
  BY <1>1, <1>3 DEF ConstructDependency, Dep, DirectOK
<1>4. CASE ref.through # NULL /\ via = NULL
  BY <1>4 DEF ConstructDependency, Dep, DirectOK
<1>5. CASE ref.through # NULL /\ via # NULL /\ ~IsLink(via)
  BY <1>2, <1>5 DEF ConstructDependency, Dep, DirectOK
<1>6. CASE ref.through # NULL /\ via # NULL /\ IsLink(via) /\ target = NULL
  BY <1>6 DEF ConstructDependency, Dep, DirectOK
<1>7. CASE ref.through # NULL /\ via # NULL /\ IsLink(via) /\ target # NULL
  BY <1>2, <1>7 DEF ConstructDependency, Dep, DirectOK
<1>. QED
  BY <1>3, <1>4, <1>5, <1>6, <1>7

LEMMA RebuildDirect ==
    ASSUME NEW fl, NEW d, NEW f, DirectRows(d)
    PROVE  DirectRows(RebuildFieldDependencies(fl, d, f))
<1> DEFINE new   == ToCreate(fl, d, f)
           alloc == CHOOSE g \in [new -> FreeIds(d)] : IsInjective(g)
<1>1. \A r \in new : DirectOK(r)
  BY ToCreateNew, ConstructDependencyDirect DEF NewDependencies
<1>2. ASSUME NEW i \in RowIds, \E r \in new : alloc[r] = i
      PROVE  DirectOK(CHOOSE r \in new : alloc[r] = i)
  BY <1>1, <1>2
<1>. QED
  BY <1>2 DEF RebuildFieldDependencies, DirectRows

(* A repaired row keeps its via; with no via it was matched by the first  *)
(* clause, its dependant's table being f's.                               *)
LEMMA RepairDirect ==
    ASSUME NEW fl, NEW d \in DepTable, NEW f \in Fields, DirectRows(d)
    PROVE  DirectRows(UpdateFieldsWithBrokenReferences(fl, d, f))
<1>1. ASSUME NEW i \in BrokenFixedByName(fl, d, f)
      PROVE  DirectOK([d[i] EXCEPT !.dependency = f, !.broken = NULL])
  <2>1. d[i] \in DepRec
    BY <1>1 DEF BrokenFixedByName, UsedIds, DepTable, WellFormedDep
  <2>2. d[i].via = NULL => TableOf[d[i].dependant] = TableOf[f]
    BY <1>1 DEF BrokenFixedByName
  <2>. QED
    BY <2>1, <2>2 DEF DepRec, DirectOK
<1>. QED
  BY <1>1 DEF UpdateFieldsWithBrokenReferences, DirectRows

(* The break only deletes rows and clears dependencies.                   *)
LEMMA BreakDirect ==
    ASSUME NEW fl \in FieldTable, NEW d \in DepTable, NEW f \in Fields, DirectRows(d)
    PROVE  DirectRows(BreakDependenciesForField(fl, d, f))
<1> DEFINE n == fl[f].name
           a == DeleteOwnDependencies(d, f)
           b == BreakDependants(a, f, n)
           c == BreakVias(b, f, n)
<1>1. \A i \in RowIds :
         /\ a[i] # NULL /\ a[i].dependency # NULL => a[i] = d[i]
         /\ b[i] # NULL /\ b[i].dependency # NULL => b[i] = a[i]
         /\ c[i] # NULL /\ c[i].dependency # NULL => c[i] = b[i]
  BY BreakFrame
<1>2. DirectRows(b) /\ DirectRows(c)
  BY <1>1 DEF DirectRows, DirectOK
<1>. QED
  BY <1>2 DEF BreakDependenciesForField
LEMMA RebuildAndRepairDirect ==
    ASSUME NEW fl \in FieldTable, NEW d \in DepTable, NEW f \in Fields, DirectRows(d)
    PROVE  DirectRows(RebuildAndRepair(fl, d, f))
<1>1. DirectRows(RebuildFieldDependencies(fl, d, f))
  BY RebuildDirect
<1>2. RebuildFieldDependencies(fl, d, f) \in DepTable
  BY RebuildType
<1>. QED
  BY <1>1, <1>2, RepairDirect DEF RebuildAndRepair

(* Every action keeps the direct rows within one table: each one sets    *)
(* the rows by a rebuild, a rebuild and repair, or a break.               *)
LEMMA NextDirect ==
    ASSUME TableInv, Next
    PROVE  DirectRows(deps')
<1> USE DEF TableInv, TypeOK
<1>0. fields' \in FieldTable /\ deps \in DepTable
  BY NextFieldsType DEF FieldTable, DepTable
<1>1. ASSUME NEW f \in Fields, \E R \in RefsFor(f) : CreateField(f, R)
      PROVE  DirectRows(deps')
  <2>1. PICK R \in RefsFor(f) : CreateField(f, R)
    BY <1>1
  <2>. QED
    BY <2>1, <1>0, RebuildAndRepairDirect DEF CreateField
<1>2. ASSUME NEW f \in Fields, \E n \in RenameTo[f] : RenameField(f, n)
      PROVE  DirectRows(deps')
  <2>1. PICK n \in RenameTo[f] : RenameField(f, n)
    BY <1>2
  <2>. QED
    BY <2>1, <1>0, RebuildAndRepairDirect DEF RenameField
<1>3. ASSUME NEW f \in Fields, \E R \in RefsFor(f) : UpdateFieldRefs(f, R)
      PROVE  DirectRows(deps')
  <2>1. PICK R \in RefsFor(f) : UpdateFieldRefs(f, R)
    BY <1>3
  <2>. QED
    BY <2>1, RebuildDirect DEF UpdateFieldRefs
<1>4. ASSUME NEW f \in Fields, RebuildField(f) PROVE DirectRows(deps')
  BY <1>4, RebuildDirect DEF RebuildField
<1>5. ASSUME NEW f \in Fields, TrashField(f) PROVE DirectRows(deps')
  BY <1>5, <1>0, BreakDirect DEF TrashField
<1>6. ASSUME NEW f \in Fields, RestoreField(f) PROVE DirectRows(deps')
  BY <1>6, <1>0, RebuildAndRepairDirect DEF RestoreField
<1>. QED
  BY <1>1, <1>2, <1>3, <1>4, <1>5, <1>6 DEF Next

(* A FieldDependency row with a dependency and no via joins two fields   *)
(* of one table: _construct_dependency looks a bare name up in the       *)
(* field's own table, and the repair of broken references only fills in  *)
(* the dependency of a via-less row whose dependant shares f's table.    *)
THEOREM DirectTargetCorrect == Spec => []DirectTargetInOwnTable
<1>1. Init => TableInv
  <2> SUFFICES ASSUME Init PROVE TableInv
    OBVIOUS
  <2>1. DirectRows(deps)
    BY DEF Init, DirectRows
  <2>. QED
    BY <2>1, InitTypeOK DEF TableInv
<1>2. TableInv /\ [Next]_vars => TableInv'
  <2> SUFFICES ASSUME TableInv, [Next]_vars PROVE TableInv'
    OBVIOUS
  <2>1. TypeOK'
    <3>1. CASE Next
      BY <3>1, NextFieldsType, NextDepsType DEF TableInv, TypeOK, FieldTable, DepTable
    <3>2. CASE UNCHANGED vars
      BY <3>2 DEF TableInv, vars, TypeOK
    <3>. QED
      BY <3>1, <3>2
  <2>2. CASE Next
    BY <2>1, <2>2, NextDirect DEF TableInv
  <2>3. CASE UNCHANGED vars
    BY <2>1, <2>3 DEF TableInv, vars, DirectRows, DirectOK
  <2>. QED
    BY <2>2, <2>3
<1>3. TableInv => DirectTargetInOwnTable
  BY DirectRowsIff DEF TableInv
<1>. QED
  BY <1>1, <1>2, <1>3, PTL DEF Spec

(* Every via of a FieldDependency row is a link row field of its         *)
(* dependant's table, for every instance: the via is only ever set by    *)
(* _construct_dependency to a link field found in the field's own table. *)
THEOREM ViaIsLinkCorrect == Spec => []ViaIsLinkInOwnTable
BY LiveEndpointsCorrect, PTL
=============================================================================
