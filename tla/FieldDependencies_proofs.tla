----------------------- MODULE FieldDependencies_proofs -----------------------
(***************************************************************************)
(* Proofs about FieldDependencies, for every value of the constants that  *)
(* satisfies ConstantsAssumption.                                          *)
(***************************************************************************)
EXTENDS FieldDependencies, TLAPS

FieldTable == [Fields -> FieldRec]
DepTable == [RowIds -> WellFormedDep \cup {NULL}]

-----------------------------------------------------------------------------
(* Lemmas on the helpers the operations are built from.                   *)

(* A lookup by name yields a field or NULL.                               *)
LEMMA LookupByNameType ==
    ASSUME NEW fl \in FieldTable, NEW t, NEW n
    PROVE  LookupByName(fl, t, n) \in Fields \cup {NULL}
BY DEF LookupByName, Live

(* The descriptors get_field_dependencies returns are descriptors.       *)
LEMMA FieldDependenciesType ==
    ASSUME NEW fl \in FieldTable, NEW f \in Fields
    PROVE  FieldDependencies(fl, f) \subseteq Descriptor
<1>1. CASE IsLink(f)
  <2>1. PrimaryOf[LinkTo[f]] \in Fields
    BY <1>1, ConstantsAssumption DEF IsLink
  <2>2. fl[f].name \in Names /\ fl[PrimaryOf[LinkTo[f]]].name \in Names
    BY <2>1 DEF FieldTable, FieldRec
  <2>. QED
    BY <1>1, <2>2 DEF FieldDependencies, Through, Descriptor
<1>2. CASE ~IsLink(f)
  BY <1>2 DEF FieldDependencies, FieldTable, FieldRec
<1>. QED
  BY <1>1, <1>2

(* Every row one descriptor is constructed into is well formed.           *)
LEMMA ConstructDependencyType ==
    ASSUME NEW fl \in FieldTable, NEW f \in Fields, NEW ref \in Descriptor
    PROVE  ConstructDependency(fl, f, ref) \subseteq WellFormedDep
<1> DEFINE table  == TableOf[f]
           direct == LookupByName(fl, table, ref.name)
           via    == LookupByName(fl, table, ref.through)
           target == IF via # NULL /\ IsLink(via)
                     THEN LookupByName(fl, LinkTo[via], ref.name) ELSE NULL
<1>1. direct \in Fields \cup {NULL} /\ via \in Fields \cup {NULL}
      /\ target \in Fields \cup {NULL}
  BY LookupByNameType
<1>2. ref.through \in Names \cup {NULL} /\ ref.name \in Names
  BY DEF Descriptor
<1>3. NULL \notin Names
  BY ConstantsAssumption
<1> DEFINE S == {Dep(f, x, NULL, NULL) : x \in Fields}
                \cup {Dep(f, NULL, NULL, n) : n \in Names}
                \cup {Dep(f, NULL, x, n) : x \in Fields, n \in Names}
                \cup {Dep(f, x, y, NULL) : x, y \in Fields}
<1>4. ConstructDependency(fl, f, ref) \subseteq S
  <2>1. CASE ref.through = NULL
    BY <2>1, <1>1, <1>2 DEF ConstructDependency
  <2>2. CASE ref.through # NULL /\ via = NULL
    BY <2>2, <1>2 DEF ConstructDependency
  <2>3. CASE ref.through # NULL /\ via # NULL /\ ~IsLink(via)
    BY <2>3, <1>1 DEF ConstructDependency
  <2>4. CASE ref.through # NULL /\ via # NULL /\ IsLink(via) /\ target = NULL
    BY <2>4, <1>1, <1>2 DEF ConstructDependency
  <2>5. CASE ref.through # NULL /\ via # NULL /\ IsLink(via) /\ target # NULL
    BY <2>5, <1>1 DEF ConstructDependency
  <2>. QED
    BY <2>1, <2>2, <2>3, <2>4, <2>5
<1>5. S \subseteq WellFormedDep
  <2>1. NULL \notin Fields
    BY ConstantsAssumption
  <2>. QED
    BY <1>3, <2>1 DEF Dep, WellFormedDep, DepRec
<1>. QED
  BY <1>4, <1>5

(* So is every row of the desired set of a rebuild.                       *)
LEMMA NewDependenciesType ==
    ASSUME NEW fl \in FieldTable, NEW f \in Fields
    PROVE  NewDependencies(fl, f) \subseteq WellFormedDep
BY FieldDependenciesType, ConstructDependencyType DEF NewDependencies

(* The rows the rebuild creates are new rows: the dicts by str keep one   *)
(* existing row per key.                                                  *)
LEMMA ToCreateNew ==
    ASSUME NEW fl, NEW d, NEW f
    PROVE  ToCreate(fl, d, f) \subseteq NewDependencies(fl, f)
<1> SUFFICES ASSUME NEW k \in Keys(NewDependencies(fl, f))
             PROVE  (CHOOSE r \in NewDependencies(fl, f) : Key(r) = k)
                        \in NewDependencies(fl, f)
  BY DEF ToCreate, NewByKey
<1>1. \E r \in NewDependencies(fl, f) : Key(r) = k
  BY DEF Keys
<1>. QED
  BY <1>1

(* The ids the rebuild deletes are ids of the field's own rows.           *)
LEMMA ToDeleteCurrent ==
    ASSUME NEW fl, NEW d, NEW f
    PROVE  ToDelete(fl, d, f) \subseteq CurrentIds(d, f)
<1> SUFFICES ASSUME NEW k \in Keys(Current(d, f))
             PROVE  (CHOOSE i \in CurrentIds(d, f) : Key(d[i]) = k) \in CurrentIds(d, f)
  BY DEF ToDelete
<1>1. \E i \in CurrentIds(d, f) : Key(d[i]) = k
  BY DEF Keys, Current
<1>. QED
  BY <1>1

(* rebuild_field_dependencies keeps the row table well formed.            *)
LEMMA RebuildType ==
    ASSUME NEW fl \in FieldTable, NEW d \in DepTable, NEW f \in Fields
    PROVE  RebuildFieldDependencies(fl, d, f) \in DepTable
<1> DEFINE new   == ToCreate(fl, d, f)
           gone  == ToDelete(fl, d, f)
           alloc == CHOOSE g \in [new -> FreeIds(d)] : IsInjective(g)
<1>1. new \subseteq WellFormedDep
  BY NewDependenciesType, ToCreateNew
<1>2. ASSUME NEW i \in RowIds, \E r \in new : alloc[r] = i
      PROVE  (CHOOSE r \in new : alloc[r] = i) \in WellFormedDep
  BY <1>1, <1>2
<1>. QED
  BY <1>2 DEF RebuildFieldDependencies, DepTable

(* break_dependencies_for_field keeps the row table well formed.          *)
LEMMA BreakType ==
    ASSUME NEW fl \in FieldTable, NEW d \in DepTable, NEW f \in Fields
    PROVE  BreakDependenciesForField(fl, d, f) \in DepTable
<1>1. fl[f].name \in Names /\ NULL \notin Names
  BY ConstantsAssumption DEF FieldTable, FieldRec
<1>2. ASSUME NEW e \in DepTable PROVE DeleteOwnDependencies(e, f) \in DepTable
  BY DEF DeleteOwnDependencies, DepTable
<1>3. ASSUME NEW e \in DepTable PROVE BreakDependants(e, f, fl[f].name) \in DepTable
  BY <1>1 DEF BreakDependants, DepTable, WellFormedDep, DepRec
<1>4. ASSUME NEW e \in DepTable PROVE BreakVias(e, f, fl[f].name) \in DepTable
  BY <1>1 DEF BreakVias, DepTable, WellFormedDep, DepRec
<1>. QED
  BY <1>2, <1>3, <1>4 DEF BreakDependenciesForField

(* update_fields_with_broken_references keeps the row table well formed.  *)
LEMMA RepairType ==
    ASSUME NEW fl \in FieldTable, NEW d \in DepTable, NEW f \in Fields
    PROVE  UpdateFieldsWithBrokenReferences(fl, d, f) \in DepTable
<1>1. f # NULL
  BY ConstantsAssumption
<1>2. ASSUME NEW i \in BrokenFixedByName(fl, d, f)
      PROVE  d[i] \in WellFormedDep
  BY DEF BrokenFixedByName, UsedIds, DepTable
<1>. QED
  BY <1>1, <1>2 DEF UpdateFieldsWithBrokenReferences, DepTable, WellFormedDep, DepRec

-----------------------------------------------------------------------------
(* Type correctness of the whole specification.                           *)

LEMMA InitTypeOK == Init => TypeOK
<1> SUFFICES ASSUME Init PROVE TypeOK
  OBVIOUS
<1>1. \A f \in Fields : InitName[f] \in Names
  BY ConstantsAssumption
<1>. QED
  BY <1>1 DEF Init, TypeOK, FieldRec, FieldStates

(* A field record changed by an action is still a field record.           *)
LEMMA NextFieldsType ==
    ASSUME TypeOK, Next
    PROVE  fields' \in FieldTable
<1> USE DEF TypeOK, FieldTable, FieldRec, FieldStates
<1>1. ASSUME NEW f \in Fields, \E R \in RefsFor(f) : CreateField(f, R)
      PROVE  fields' \in FieldTable
  <2>1. PICK R \in RefsFor(f) : CreateField(f, R)
    BY <1>1
  <2>2. R \in SUBSET Descriptor
    BY ConstantsAssumption DEF RefsFor
  <2>. QED
    BY <2>1, <2>2 DEF CreateField
<1>2. ASSUME NEW f \in Fields, \E n \in RenameTo[f] : RenameField(f, n)
      PROVE  fields' \in FieldTable
  <2>1. PICK n \in RenameTo[f] : RenameField(f, n)
    BY <1>2
  <2>2. n \in Names
    BY ConstantsAssumption
  <2>. QED
    BY <2>1, <2>2 DEF RenameField
<1>3. ASSUME NEW f \in Fields, \E R \in RefsFor(f) : UpdateFieldRefs(f, R)
      PROVE  fields' \in FieldTable
  <2>1. PICK R \in RefsFor(f) : UpdateFieldRefs(f, R)
    BY <1>3
  <2>2. R \in SUBSET Descriptor
    BY ConstantsAssumption DEF RefsFor
  <2>. QED
    BY <2>1, <2>2 DEF UpdateFieldRefs
<1>4. ASSUME NEW f \in Fields, RebuildField(f) PROVE fields' \in FieldTable
  BY <1>4 DEF RebuildField
<1>5. ASSUME NEW f \in Fields, TrashField(f) PROVE fields' \in FieldTable
  BY <1>5 DEF TrashField, FieldStates
<1>6. ASSUME NEW f \in Fields, RestoreField(f) PROVE fields' \in FieldTable
  BY <1>6 DEF RestoreField, FieldStates
<1>. QED
  BY <1>1, <1>2, <1>3, <1>4, <1>5, <1>6 DEF Next

(* The row table stays well formed: each action writes the result of a    *)
(* rebuild, a break or a rebuild followed by a repair, computed from the  *)
(* new field table.                                                       *)
LEMMA NextDepsType ==
    ASSUME TypeOK, Next, fields' \in FieldTable
    PROVE  deps' \in DepTable
<1> USE DEF TypeOK, DepTable
<1>1. ASSUME NEW f \in Fields, \E R \in RefsFor(f) : CreateField(f, R)
      PROVE  deps' \in DepTable
  <2>1. PICK R \in RefsFor(f) : CreateField(f, R)
    BY <1>1
  <2>2. deps' = RebuildAndRepair(fields', deps, f)
    BY <2>1 DEF CreateField
  <2>. QED
    BY <2>2, RebuildType, RepairType DEF RebuildAndRepair
<1>2. ASSUME NEW f \in Fields, \E n \in RenameTo[f] : RenameField(f, n)
      PROVE  deps' \in DepTable
  <2>1. PICK n \in RenameTo[f] : RenameField(f, n)
    BY <1>2
  <2>2. deps' = RebuildAndRepair(fields', deps, f)
    BY <2>1 DEF RenameField
  <2>. QED
    BY <2>2, RebuildType, RepairType DEF RebuildAndRepair
<1>3. ASSUME NEW f \in Fields, \E R \in RefsFor(f) : UpdateFieldRefs(f, R)
      PROVE  deps' \in DepTable
  <2>1. PICK R \in RefsFor(f) : UpdateFieldRefs(f, R)
    BY <1>3
  <2>2. deps' = RebuildFieldDependencies(fields', deps, f)
    BY <2>1 DEF UpdateFieldRefs
  <2>. QED
    BY <2>2, RebuildType
<1>4. ASSUME NEW f \in Fields, RebuildField(f) PROVE deps' \in DepTable
  BY <1>4, RebuildType DEF RebuildField, FieldTable
<1>5. ASSUME NEW f \in Fields, TrashField(f) PROVE deps' \in DepTable
  BY <1>5, BreakType DEF TrashField
<1>6. ASSUME NEW f \in Fields, RestoreField(f) PROVE deps' \in DepTable
  BY <1>6, RebuildType, RepairType DEF RestoreField, RebuildAndRepair
<1>. QED
  BY <1>1, <1>2, <1>3, <1>4, <1>5, <1>6 DEF Next

(* Every reachable state is well typed: fields are field records and     *)
(* every FieldDependency row is either resolved or broken, never both.   *)
THEOREM TypeCorrect == Spec => []TypeOK
<1>1. Init => TypeOK
  BY InitTypeOK
<1>2. TypeOK /\ [Next]_vars => TypeOK'
  <2> SUFFICES ASSUME TypeOK, [Next]_vars PROVE TypeOK'
    OBVIOUS
  <2>1. CASE Next
    BY <2>1, NextFieldsType, NextDepsType DEF TypeOK, FieldTable, DepTable
  <2>2. CASE UNCHANGED vars
    BY <2>2 DEF vars, TypeOK
  <2>. QED
    BY <2>1, <2>2
<1>. QED
  BY <1>1, <1>2, PTL DEF Spec

=============================================================================
