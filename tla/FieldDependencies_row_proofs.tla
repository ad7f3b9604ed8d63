---------------------- MODULE FieldDependencies_row_proofs ----------------------
(***************************************************************************)
(* Proof of the action property RowLifecycle: a FieldDependency row is    *)
(* only ever changed in place by the break or by the repair, and a        *)
(* rebuild only deletes rows and creates rows at free ids.                *)
(***************************************************************************)
EXTENDS FieldDependencies_refinement_proofs

(* How the three operations may change a row that exists before and      *)
(* after them.                                                             *)
KeepsRows(d, e) == \A i \in RowIds : d[i] # NULL /\ e[i] # NULL => e[i] = d[i]

BreaksRows(d, e) ==
    \A i \in RowIds :
        d[i] # NULL /\ e[i] # NULL /\ e[i] # d[i] =>
            /\ e[i] \in DepRec
            /\ e[i].dependant = d[i].dependant
            /\ e[i].dependency = NULL
            /\ e[i].via \in {d[i].via, NULL}

RepairsRows(d, e) ==
    \A i \in RowIds :
        /\ d[i] = NULL => e[i] = NULL
        /\ d[i] # NULL /\ e[i] # d[i] =>
              /\ e[i].dependant = d[i].dependant
              /\ d[i].dependency = NULL /\ e[i].broken = NULL
              /\ e[i].via = d[i].via

(* The rewrite of a row by the repair keeps its dependant and via.       *)
LEMMA RepairRowRewrite ==
    ASSUME NEW r \in DepRec, NEW f \in Fields
    PROVE  /\ [r EXCEPT !.dependency = f, !.broken = NULL].dependant = r.dependant
           /\ [r EXCEPT !.dependency = f, !.broken = NULL].via = r.via
           /\ [r EXCEPT !.dependency = f, !.broken = NULL].broken = NULL
BY DEF DepRec

(* A rebuild deletes stale rows and puts the new ones at free ids.        *)
LEMMA RebuildKeeps ==
    ASSUME NEW fl \in FieldTable, NEW d, NEW f \in Fields, RowsAvailable(fl, d, f)
    PROVE  KeepsRows(d, RebuildFieldDependencies(fl, d, f))
<1> DEFINE new   == ToCreate(fl, d, f)
           gone  == ToDelete(fl, d, f)
           alloc == CHOOSE g \in [new -> FreeIds(d)] : IsInjective(g)
           e     == RebuildFieldDependencies(fl, d, f)
<1>1. alloc \in [new -> FreeIds(d)]
  BY AllocFree
<1>2. ASSUME NEW i \in RowIds, d[i] # NULL, e[i] # NULL PROVE e[i] = d[i]
  <2>1. e[i] = IF i \in gone THEN NULL
               ELSE IF \E r \in new : alloc[r] = i THEN CHOOSE r \in new : alloc[r] = i
               ELSE d[i]
    BY DEF RebuildFieldDependencies
  <2>2. i \notin gone
    BY <1>2, <2>1
  <2>3. ~\E r \in new : alloc[r] = i
    BY <1>1, <1>2 DEF FreeIds, UsedIds
  <2>. QED
    BY <2>1, <2>2, <2>3
<1>. QED
  BY <1>2 DEF KeepsRows

(* The repair only fills the dependency of a broken row, keeping its     *)
(* dependant and via.                                                      *)
LEMMA RepairRepairs ==
    ASSUME NEW fl \in FieldTable, NEW d \in DepTable, NEW f \in Fields
    PROVE  RepairsRows(d, UpdateFieldsWithBrokenReferences(fl, d, f))
<1> DEFINE e == UpdateFieldsWithBrokenReferences(fl, d, f)
<1>1. ASSUME NEW i \in RowIds,
             i \in BrokenFixedByName(fl, d, f) /\ ~WillCauseCircularDep(d, d[i].dependant, f)
      PROVE  /\ d[i] # NULL
             /\ e[i].dependant = d[i].dependant
             /\ d[i].dependency = NULL /\ e[i].broken = NULL
             /\ e[i].via = d[i].via
  <2>1. e[i] = [d[i] EXCEPT !.dependency = f, !.broken = NULL]
    BY <1>1 DEF UpdateFieldsWithBrokenReferences
  <2>2. d[i] \in WellFormedDep /\ d[i].broken = fl[f].name
    BY <1>1 DEF BrokenFixedByName, UsedIds, DepTable
  <2>3. fl[f].name # NULL
    BY ConstantsAssumption DEF FieldTable, FieldRec
  <2>4. d[i].dependency = NULL
    BY <2>2, <2>3 DEF WellFormedDep
  <2>5. LET r == [d[i] EXCEPT !.dependency = f, !.broken = NULL]
        IN  r.dependant = d[i].dependant /\ r.via = d[i].via /\ r.broken = NULL
    BY <2>2, RepairRowRewrite DEF WellFormedDep
  <2>6. d[i] # NULL
    BY <1>1 DEF BrokenFixedByName, UsedIds
  <2>. QED
    BY <2>1, <2>4, <2>5, <2>6
<1>2. ASSUME NEW i \in RowIds,
             ~(i \in BrokenFixedByName(fl, d, f) /\ ~WillCauseCircularDep(d, d[i].dependant, f))
      PROVE  e[i] = d[i]
  BY <1>2 DEF UpdateFieldsWithBrokenReferences
<1>. QED
  BY <1>1, <1>2 DEF RepairsRows
-----------------------------------------------------------------------------
(* The break, update by update.                                           *)

RecTable == [RowIds -> DepRec \cup {NULL}]

NullStays(d, e) == \A i \in RowIds : d[i] = NULL => e[i] = NULL

(* Two breaking updates in a row break rows the same way.                 *)
LEMMA BreaksCompose ==
    ASSUME NEW d, NEW a, NEW b, BreaksRows(d, a), BreaksRows(a, b), NullStays(a, b)
    PROVE  BreaksRows(d, b)
<1> SUFFICES ASSUME NEW i \in RowIds, d[i] # NULL, b[i] # NULL, b[i] # d[i]
             PROVE  /\ b[i] \in DepRec
                    /\ b[i].dependant = d[i].dependant
                    /\ b[i].dependency = NULL
                    /\ b[i].via \in {d[i].via, NULL}
  BY DEF BreaksRows
<1>1. a[i] # NULL
  BY DEF NullStays
<1>2. CASE a[i] = d[i]
  BY <1>1, <1>2 DEF BreaksRows
<1>3. CASE a[i] # d[i] /\ b[i] = a[i]
  BY <1>1, <1>3 DEF BreaksRows
<1>4. CASE a[i] # d[i] /\ b[i] # a[i]
  BY <1>1, <1>4 DEF BreaksRows
<1>. QED
  BY <1>2, <1>3, <1>4

LEMMA DeleteBreaks ==
    ASSUME NEW d \in RecTable, NEW f
    PROVE  LET a == DeleteOwnDependencies(d, f)
           IN  BreaksRows(d, a) /\ a \in RecTable
BY DEF DeleteOwnDependencies, BreaksRows, RecTable

LEMMA DependantsBreaks ==
    ASSUME NEW d \in RecTable, NEW f, NEW n \in Names, NULL \notin Names
    PROVE  LET b == BreakDependants(d, f, n)
           IN  BreaksRows(d, b) /\ NullStays(d, b) /\ b \in RecTable
<1> DEFINE b == BreakDependants(d, f, n)
<1>1. ASSUME NEW i \in RowIds, d[i] # NULL, d[i].dependency = f
      PROVE  /\ b[i] \in DepRec
             /\ b[i].dependant = d[i].dependant
             /\ b[i].dependency = NULL
             /\ b[i].via = d[i].via
  <2>1. b[i] = [d[i] EXCEPT !.dependency = NULL, !.broken = n]
    BY <1>1 DEF BreakDependants
  <2>2. LET r == [d[i] EXCEPT !.dependency = NULL, !.broken = n]
        IN  /\ r \in DepRec /\ r.dependant = d[i].dependant
            /\ r.dependency = NULL /\ r.via = d[i].via
    BY <1>1, BreakRowRewrite DEF RecTable
  <2>. QED
    BY <2>1, <2>2
<1>2. ASSUME NEW i \in RowIds, ~(d[i] # NULL /\ d[i].dependency = f)
      PROVE  b[i] = d[i]
  BY <1>2 DEF BreakDependants
<1>. QED
  BY <1>1, <1>2 DEF BreaksRows, NullStays, RecTable, BreakDependants

LEMMA ViasBreaks ==
    ASSUME NEW d \in RecTable, NEW f, NEW n \in Names, NULL \notin Names
    PROVE  LET c == BreakVias(d, f, n)
           IN  BreaksRows(d, c) /\ NullStays(d, c) /\ c \in RecTable
<1> DEFINE c == BreakVias(d, f, n)
<1>1. ASSUME NEW i \in RowIds, d[i] # NULL, d[i].via = f
      PROVE  /\ c[i] \in DepRec
             /\ c[i].dependant = d[i].dependant
             /\ c[i].dependency = NULL
             /\ c[i].via = NULL
  <2>1. c[i] = [d[i] EXCEPT !.dependency = NULL, !.broken = n, !.via = NULL]
    BY <1>1 DEF BreakVias
  <2>2. LET r == [d[i] EXCEPT !.dependency = NULL, !.broken = n, !.via = NULL]
        IN  /\ r \in DepRec /\ r.dependant = d[i].dependant
            /\ r.dependency = NULL /\ r.via = NULL
    BY <1>1, BreakRowRewrite DEF RecTable
  <2>. QED
    BY <2>1, <2>2
<1>2. ASSUME NEW i \in RowIds, ~(d[i] # NULL /\ d[i].via = f)
      PROVE  c[i] = d[i]
  BY <1>2 DEF BreakVias
<1>. QED
  BY <1>1, <1>2 DEF BreaksRows, NullStays, RecTable, BreakVias

(* break_dependencies_for_field deletes rows and clears dependencies and *)
(* vias, and changes a row in no other way.                               *)
LEMMA BreakBreaks ==
    ASSUME NEW fl \in FieldTable, NEW d \in DepTable, NEW f \in Fields
    PROVE  BreaksRows(d, BreakDependenciesForField(fl, d, f))
<1> DEFINE n == fl[f].name
           a == DeleteOwnDependencies(d, f)
           b == BreakDependants(a, f, n)
           c == BreakVias(b, f, n)
<1>1. n \in Names /\ NULL \notin Names
  BY ConstantsAssumption DEF FieldTable, FieldRec
<1>2. d \in RecTable
  BY DEF DepTable, RecTable, WellFormedDep
<1>3. BreaksRows(d, a) /\ a \in RecTable
  BY <1>2, DeleteBreaks
<1>4. BreaksRows(a, b) /\ NullStays(a, b) /\ b \in RecTable
  BY <1>1, <1>3, DependantsBreaks
<1>5. BreaksRows(b, c) /\ NullStays(b, c)
  BY <1>1, <1>4, ViasBreaks
<1>6. BreaksRows(d, b)
  BY <1>3, <1>4, BreaksCompose
<1>7. BreaksRows(d, c)
  BY <1>5, <1>6, BreaksCompose
<1>. QED
  BY <1>6, <1>7 DEF BreakDependenciesForField
-----------------------------------------------------------------------------
(* From the operations to the steps.                                      *)

RowChange(d, e) ==
    \A i \in RowIds :
        d[i] # NULL /\ e[i] # NULL /\ e[i] # d[i] =>
            /\ e[i].dependant = d[i].dependant
            /\ \/ e[i].dependency = NULL /\ e[i].via \in {d[i].via, NULL}
               \/ /\ d[i].dependency = NULL /\ e[i].broken = NULL
                  /\ e[i].via = d[i].via

LEMMA RebuildChange ==
    ASSUME NEW fl \in FieldTable, NEW d, NEW f \in Fields, RowsAvailable(fl, d, f)
    PROVE  RowChange(d, RebuildFieldDependencies(fl, d, f))
BY RebuildKeeps DEF KeepsRows, RowChange

(* The repair after the rebuild only touches rows the rebuild kept.       *)
LEMMA RebuildAndRepairChange ==
    ASSUME NEW fl \in FieldTable, NEW d \in DepTable, NEW f \in Fields,
           RowsAvailable(fl, d, f)
    PROVE  RowChange(d, RebuildAndRepair(fl, d, f))
<1> DEFINE m == RebuildFieldDependencies(fl, d, f)
           e == UpdateFieldsWithBrokenReferences(fl, m, f)
<1>1. KeepsRows(d, m)
  BY RebuildKeeps
<1>2. m \in DepTable
  BY RebuildType
<1>3. RepairsRows(m, e)
  BY <1>2, RepairRepairs
<1>4. RowChange(d, e)
  <2> SUFFICES ASSUME NEW i \in RowIds, d[i] # NULL, e[i] # NULL, e[i] # d[i]
               PROVE  /\ e[i].dependant = d[i].dependant
                      /\ d[i].dependency = NULL /\ e[i].broken = NULL
                      /\ e[i].via = d[i].via
    BY DEF RowChange
  <2>1. m[i] # NULL
    BY <1>3 DEF RepairsRows
  <2>2. m[i] = d[i]
    BY <1>1, <2>1 DEF KeepsRows
  <2>. QED
    BY <1>3, <2>1, <2>2 DEF RepairsRows
<1>. QED
  BY <1>4 DEF RebuildAndRepair

LEMMA BreakChange ==
    ASSUME NEW fl \in FieldTable, NEW d \in DepTable, NEW f \in Fields
    PROVE  RowChange(d, BreakDependenciesForField(fl, d, f))
BY BreakBreaks DEF BreaksRows, RowChange

LEMMA NextRowChange ==
    ASSUME TypeOK, Next
    PROVE  RowChange(deps, deps')
<1> USE DEF TypeOK
<1>0. fields' \in FieldTable /\ deps \in DepTable
  BY NextFieldsType DEF FieldTable, DepTable
<1>1. ASSUME NEW f \in Fields, \E R \in RefsFor(f) : CreateField(f, R)
      PROVE  RowChange(deps, deps')
  <2>1. PICK R \in RefsFor(f) : CreateField(f, R)
    BY <1>1
  <2>. QED
    BY <2>1, <1>0, RebuildAndRepairChange DEF CreateField, CanRebuild
<1>2. ASSUME NEW f \in Fields, \E n \in RenameTo[f] : RenameField(f, n)
      PROVE  RowChange(deps, deps')
  <2>1. PICK n \in RenameTo[f] : RenameField(f, n)
    BY <1>2
  <2>. QED
    BY <2>1, <1>0, RebuildAndRepairChange DEF RenameField, CanRebuild
<1>3. ASSUME NEW f \in Fields, \E R \in RefsFor(f) : UpdateFieldRefs(f, R)
      PROVE  RowChange(deps, deps')
  <2>1. PICK R \in RefsFor(f) : UpdateFieldRefs(f, R)
    BY <1>3
  <2>. QED
    BY <2>1, <1>0, RebuildChange DEF UpdateFieldRefs, CanRebuild
<1>4. ASSUME NEW f \in Fields, RebuildField(f) PROVE RowChange(deps, deps')
  BY <1>4, RebuildChange DEF RebuildField, CanRebuild, FieldTable
<1>5. ASSUME NEW f \in Fields, TrashField(f) PROVE RowChange(deps, deps')
  BY <1>5, <1>0, BreakChange DEF TrashField
<1>6. ASSUME NEW f \in Fields, RestoreField(f) PROVE RowChange(deps, deps')
  BY <1>6, <1>0, RebuildAndRepairChange DEF RestoreField, CanRebuild
<1>. QED
  BY <1>1, <1>2, <1>3, <1>4, <1>5, <1>6 DEF Next

(* A FieldDependency row is only changed in place by the break (which    *)
(* clears its dependency and possibly its via) or by the repair (which    *)
(* fills the dependency of a broken row and keeps its via); its dependant *)
(* never changes, and rebuild_field_dependencies never rewrites a row.    *)
THEOREM RowLifecycleCorrect == Spec => RowLifecycle
<1>1. TypeOK /\ [Next]_vars => [RowTransitions]_deps
  <2> SUFFICES ASSUME TypeOK, [Next]_vars PROVE [RowTransitions]_deps
    OBVIOUS
  <2>1. CASE Next
    BY <2>1, NextRowChange DEF RowChange, RowTransitions
  <2>2. CASE UNCHANGED vars
    BY <2>2 DEF vars
  <2>. QED
    BY <2>1, <2>2
<1>. QED
  BY <1>1, TypeCorrect, PTL DEF Spec, RowLifecycle
=============================================================================
