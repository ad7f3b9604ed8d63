-------------------- MODULE FieldDependencies_live_proofs --------------------
(***************************************************************************)
(* Proof that no FieldDependency row refers to a field that is not live,  *)
(* and that every via is a link row field of its dependant's table.       *)
(***************************************************************************)
EXTENDS FieldDependencies_proofs

(* A row all of whose fields are live in fl, with a proper via.           *)
GoodRow(fl, r) ==
    /\ r.dependant \in Live(fl)
    /\ r.dependency \in Live(fl) \cup {NULL}
    /\ r.via \in Live(fl) \cup {NULL}
    /\ r.via # NULL => IsLink(r.via) /\ TableOf[r.via] = TableOf[r.dependant]

GoodRows(fl, d) == \A i \in RowIds : d[i] # NULL => GoodRow(fl, d[i])

(* The inductive invariant: the type invariant and good rows.             *)
LiveInv == TypeOK /\ GoodRows(fields, deps)

-----------------------------------------------------------------------------
(* GoodRows of the current state is the pair of checked invariants.       *)
LEMMA GoodRowsIff ==
    ASSUME TypeOK
    PROVE  GoodRows(fields, deps) <=> LiveEndpoints /\ ViaIsLinkInOwnTable
BY DEF GoodRows, GoodRow, LiveEndpoints, ViaIsLinkInOwnTable, Rows, UsedIds

(* A lookup that finds a field finds a live one of the table asked for.   *)
LEMMA LookupByNameLive ==
    ASSUME NEW fl, NEW t, NEW n, LookupByName(fl, t, n) # NULL
    PROVE  /\ LookupByName(fl, t, n) \in Live(fl)
           /\ TableOf[LookupByName(fl, t, n)] = t
BY DEF LookupByName

(* A live field only ever constructs good rows.                           *)
LEMMA ConstructDependencyGood ==
    ASSUME NEW fl, NEW f \in Live(fl), NEW ref
    PROVE  \A r \in ConstructDependency(fl, f, ref) : GoodRow(fl, r)
<1> DEFINE table  == TableOf[f]
           direct == LookupByName(fl, table, ref.name)
           via    == LookupByName(fl, table, ref.through)
           target == IF via # NULL /\ IsLink(via)
                     THEN LookupByName(fl, LinkTo[via], ref.name) ELSE NULL
<1>1. direct \in Live(fl) \cup {NULL}
  BY LookupByNameLive
<1>2. via # NULL => via \in Live(fl) /\ TableOf[via] = table
  BY LookupByNameLive
<1>3. target \in Live(fl) \cup {NULL}
  BY LookupByNameLive
<1>4. CASE ref.through = NULL
  BY <1>4, <1>1 DEF ConstructDependency, Dep, GoodRow
<1>5. CASE ref.through # NULL /\ via = NULL
  BY <1>5 DEF ConstructDependency, Dep, GoodRow
<1>6. CASE ref.through # NULL /\ via # NULL /\ ~IsLink(via)
  BY <1>6, <1>2 DEF ConstructDependency, Dep, GoodRow
<1>7. CASE ref.through # NULL /\ via # NULL /\ IsLink(via) /\ target = NULL
  BY <1>7, <1>2 DEF ConstructDependency, Dep, GoodRow
<1>8. CASE ref.through # NULL /\ via # NULL /\ IsLink(via) /\ target # NULL
  BY <1>8, <1>2, <1>3 DEF ConstructDependency, Dep, GoodRow
<1>. QED
  BY <1>4, <1>5, <1>6, <1>7, <1>8

(* So are all rows of the desired set of a rebuild.                       *)
LEMMA NewDependenciesGood ==
    ASSUME NEW fl, NEW f \in Live(fl)
    PROVE  \A r \in NewDependencies(fl, f) : GoodRow(fl, r)
BY ConstructDependencyGood DEF NewDependencies

(* Good rows stay good when no live field stops being live.              *)
LEMMA GoodRowsMono ==
    ASSUME NEW fl, NEW fl2, NEW d, Live(fl) \subseteq Live(fl2), GoodRows(fl, d)
    PROVE  GoodRows(fl2, d)
BY DEF GoodRows, GoodRow

(* rebuild_field_dependencies of a live field writes only good rows.     *)
LEMMA RebuildGood ==
    ASSUME NEW fl, NEW d, NEW f \in Live(fl), GoodRows(fl, d)
    PROVE  GoodRows(fl, RebuildFieldDependencies(fl, d, f))
<1> DEFINE new   == ToCreate(fl, d, f)
           alloc == CHOOSE g \in [new -> FreeIds(d)] : IsInjective(g)
<1>1. \A r \in new : GoodRow(fl, r)
  BY NewDependenciesGood, ToCreateNew
<1>2. ASSUME NEW i \in RowIds, \E r \in new : alloc[r] = i
      PROVE  GoodRow(fl, CHOOSE r \in new : alloc[r] = i)
  BY <1>1, <1>2
<1>. QED
  BY <1>2 DEF RebuildFieldDependencies, GoodRows

(* Repair points rows at f, which is live, and keeps their dependant and *)
(* via.                                                                   *)
LEMMA RepairGood ==
    ASSUME NEW fl, NEW d \in DepTable, NEW f \in Live(fl), GoodRows(fl, d)
    PROVE  GoodRows(fl, UpdateFieldsWithBrokenReferences(fl, d, f))
<1>1. ASSUME NEW i \in RowIds, d[i] # NULL
      PROVE  GoodRow(fl, [d[i] EXCEPT !.dependency = f, !.broken = NULL])
  <2>1. d[i] \in DepRec
    BY <1>1 DEF DepTable, WellFormedDep
  <2>2. GoodRow(fl, d[i])
    BY <1>1 DEF GoodRows
  <2>. QED
    BY <2>1, <2>2 DEF DepRec, GoodRow
<1>2. ASSUME NEW i \in BrokenFixedByName(fl, d, f) PROVE d[i] # NULL
  BY DEF BrokenFixedByName, UsedIds
<1>. QED
  BY <1>1, <1>2 DEF UpdateFieldsWithBrokenReferences, GoodRows

(* The two rewrites of a row by the break are rows with the same         *)
(* dependant, no dependency and the via kept or cleared.                  *)
LEMMA BreakRowRewrite ==
    ASSUME NEW r \in DepRec, NEW n \in Names, NULL \notin Names
    PROVE  /\ [r EXCEPT !.dependency = NULL, !.broken = n] \in DepRec
           /\ [r EXCEPT !.dependency = NULL, !.broken = n].dependant = r.dependant
           /\ [r EXCEPT !.dependency = NULL, !.broken = n].via = r.via
           /\ [r EXCEPT !.dependency = NULL, !.broken = n].dependency = NULL
           /\ [r EXCEPT !.dependency = NULL, !.broken = n, !.via = NULL] \in DepRec
           /\ [r EXCEPT !.dependency = NULL, !.broken = n, !.via = NULL].dependant
              = r.dependant
           /\ [r EXCEPT !.dependency = NULL, !.broken = n, !.via = NULL].via = NULL
           /\ [r EXCEPT !.dependency = NULL, !.broken = n, !.via = NULL].dependency
              = NULL
BY DEF DepRec

(* Trashing f makes exactly f stop being live.                            *)
LEMMA TrashLive ==
    ASSUME NEW fl0 \in FieldTable, NEW f \in Fields,
           NEW fl, fl = [fl0 EXCEPT ![f].state = "trashed"]
    PROVE  Live(fl) = Live(fl0) \ {f}
BY DEF Live, FieldTable, FieldRec

(* break_dependencies_for_field on the trashed f leaves only good rows:   *)
(* the own rows of f are deleted, rows depending on f lose their          *)
(* dependency, and rows through f exist only if f is a link row field,    *)
(* whose vias the last update clears.                                     *)
LEMMA BreakGood ==
    ASSUME NEW fl0 \in FieldTable, NEW d \in DepTable, NEW f \in Fields,
           GoodRows(fl0, d),
           NEW fl, fl = [fl0 EXCEPT ![f].state = "trashed"]
    PROVE  GoodRows(fl, BreakDependenciesForField(fl, d, f))
<1> DEFINE n == fl[f].name
           a == DeleteOwnDependencies(d, f)
           b == BreakDependants(a, f, n)
           c == BreakVias(b, f, n)
           (* a row good for fl0 that does not mention f as dependant,    *)
           (* dependency or via is good for fl                            *)
           Clear(r, k) == /\ r \in DepRec /\ GoodRow(fl0, r) /\ r.dependant # f
                          /\ (k >= 1 => r.dependency # f) /\ (k >= 2 => r.via # f)
<1>1. n \in Names /\ f # NULL /\ NULL \notin Names
  BY ConstantsAssumption DEF FieldTable, FieldRec
<1>2. \A i \in RowIds : a[i] # NULL => Clear(a[i], 0)
  BY DEF DeleteOwnDependencies, GoodRows, DepTable, WellFormedDep
<1>3. \A i \in RowIds : b[i] # NULL => Clear(b[i], 1)
  <2> SUFFICES ASSUME NEW i \in RowIds, b[i] # NULL PROVE Clear(b[i], 1)
    OBVIOUS
  <2>1. a[i] # NULL /\ Clear(a[i], 0)
    BY <1>2 DEF BreakDependants
  <2>2. CASE a[i].dependency = f
    <3>1. b[i] = [a[i] EXCEPT !.dependency = NULL, !.broken = n]
      BY <2>1, <2>2 DEF BreakDependants
    <3>2. /\ b[i] \in DepRec
          /\ b[i].dependant = a[i].dependant /\ b[i].via = a[i].via
          /\ b[i].dependency = NULL
      <4>1. a[i] \in DepRec
        BY <2>1
      <4>2. LET r == [a[i] EXCEPT !.dependency = NULL, !.broken = n]
            IN  r \in DepRec /\ r.dependant = a[i].dependant /\ r.via = a[i].via
                /\ r.dependency = NULL
        BY <4>1, <1>1, BreakRowRewrite
      <4>. QED
        BY <3>1, <4>2
    <3>. QED
      BY <3>2, <2>1, <1>1 DEF GoodRow
  <2>3. CASE a[i].dependency # f
    <3>1. b[i] = a[i]
      BY <2>3 DEF BreakDependants
    <3>. QED
      BY <3>1, <2>1, <2>3
  <2>. QED
    BY <2>2, <2>3
<1>4. \A i \in RowIds : c[i] # NULL => Clear(c[i], 2)
  <2> SUFFICES ASSUME NEW i \in RowIds, c[i] # NULL PROVE Clear(c[i], 2)
    OBVIOUS
  <2>1. b[i] # NULL /\ Clear(b[i], 1)
    BY <1>3 DEF BreakVias
  <2>2. CASE b[i].via = f
    <3>1. c[i] = [b[i] EXCEPT !.dependency = NULL, !.broken = n, !.via = NULL]
      BY <2>1, <2>2 DEF BreakVias
    <3>2. /\ c[i] \in DepRec
          /\ c[i].dependant = b[i].dependant /\ c[i].via = NULL
          /\ c[i].dependency = NULL
      <4>1. b[i] \in DepRec
        BY <2>1
      <4>2. LET r == [b[i] EXCEPT !.dependency = NULL, !.broken = n, !.via = NULL]
            IN  r \in DepRec /\ r.dependant = b[i].dependant /\ r.via = NULL
                /\ r.dependency = NULL
        BY <4>1, <1>1, BreakRowRewrite
      <4>. QED
        BY <3>1, <4>2
    <3>. QED
      BY <3>2, <2>1, <1>1 DEF GoodRow
  <2>3. CASE b[i].via # f
    <3>1. c[i] = b[i]
      BY <2>3 DEF BreakVias
    <3>. QED
      BY <3>1, <2>1, <2>3
  <2>. QED
    BY <2>2, <2>3
<1>5. ~IsLink(f) => \A i \in RowIds : b[i] # NULL => Clear(b[i], 2)
  <2> SUFFICES ASSUME ~IsLink(f), NEW i \in RowIds, b[i] # NULL
               PROVE  Clear(b[i], 2)
    OBVIOUS
  <2>1. Clear(b[i], 1)
    BY <1>3
  <2>2. b[i].via # f
    BY <2>1, <1>1 DEF GoodRow
  <2>. QED
    BY <2>1, <2>2
<1>6. \A r : Clear(r, 2) => GoodRow(fl, r)
  <2> SUFFICES ASSUME NEW r, Clear(r, 2) PROVE GoodRow(fl, r)
    OBVIOUS
  <2>1. Live(fl) = Live(fl0) \ {f}
    BY TrashLive
  <2>2. GoodRow(fl0, r) /\ r.dependant # f /\ r.dependency # f /\ r.via # f
    OBVIOUS
  <2>. QED
    BY <2>1, <2>2 DEF GoodRow
<1>. QED
  BY <1>4, <1>5, <1>6 DEF BreakDependenciesForField, GoodRows

-----------------------------------------------------------------------------
(* Every action keeps the rows good.  The operations other than trashing  *)
(* make no field stop being live and leave the field they work on live,   *)
(* so the old rows stay good and the rebuild and repair add good ones.    *)
LEMMA NextGoodRows ==
    ASSUME LiveInv, Next
    PROVE  GoodRows(fields', deps')
<1> USE DEF LiveInv, TypeOK
<1>0. fields' \in FieldTable /\ deps \in DepTable
  BY NextFieldsType DEF FieldTable, DepTable
(* The shape shared by the creating, renaming and restoring actions.     *)
<1>a. ASSUME NEW f \in Fields, Live(fields) \subseteq Live(fields'),
             f \in Live(fields'),
             deps' = RebuildAndRepair(fields', deps, f)
      PROVE  GoodRows(fields', deps')
  <2>1. GoodRows(fields', deps)
    BY <1>a, GoodRowsMono
  <2>2. GoodRows(fields', RebuildFieldDependencies(fields', deps, f))
    BY <1>a, <2>1, RebuildGood
  <2>3. RebuildFieldDependencies(fields', deps, f) \in DepTable
    BY <1>0, RebuildType
  <2>. QED
    BY <1>a, <2>2, <2>3, RepairGood DEF RebuildAndRepair
<1>1. ASSUME NEW f \in Fields, \E R \in RefsFor(f) : CreateField(f, R)
      PROVE  GoodRows(fields', deps')
  <2>1. PICK R \in RefsFor(f) : CreateField(f, R)
    BY <1>1
  <2>2. Live(fields) \subseteq Live(fields') /\ f \in Live(fields')
    BY <2>1 DEF CreateField, Live, FieldTable
  <2>3. deps' = RebuildAndRepair(fields', deps, f)
    BY <2>1 DEF CreateField
  <2>. QED
    BY <2>2, <2>3, <1>a
<1>2. ASSUME NEW f \in Fields, \E n \in RenameTo[f] : RenameField(f, n)
      PROVE  GoodRows(fields', deps')
  <2>1. PICK n \in RenameTo[f] : RenameField(f, n)
    BY <1>2
  <2>2. Live(fields) \subseteq Live(fields') /\ f \in Live(fields')
    BY <2>1 DEF RenameField, Live, FieldTable
  <2>3. deps' = RebuildAndRepair(fields', deps, f)
    BY <2>1 DEF RenameField
  <2>. QED
    BY <2>2, <2>3, <1>a
<1>3. ASSUME NEW f \in Fields, \E R \in RefsFor(f) : UpdateFieldRefs(f, R)
      PROVE  GoodRows(fields', deps')
  <2>1. PICK R \in RefsFor(f) : UpdateFieldRefs(f, R)
    BY <1>3
  <2>2. Live(fields) \subseteq Live(fields') /\ f \in Live(fields')
    BY <2>1 DEF UpdateFieldRefs, Live, FieldTable
  <2>3. deps' = RebuildFieldDependencies(fields', deps, f)
    BY <2>1 DEF UpdateFieldRefs
  <2>. QED
    BY <2>2, <2>3, GoodRowsMono, RebuildGood
<1>4. ASSUME NEW f \in Fields, RebuildField(f) PROVE GoodRows(fields', deps')
  <2>1. f \in Live(fields) /\ fields' = fields
        /\ deps' = RebuildFieldDependencies(fields, deps, f)
    BY <1>4 DEF RebuildField, Live
  <2>. QED
    BY <2>1, RebuildGood
<1>5. ASSUME NEW f \in Fields, TrashField(f) PROVE GoodRows(fields', deps')
  <2>1. fields' = [fields EXCEPT ![f].state = "trashed"]
        /\ deps' = BreakDependenciesForField(fields', deps, f)
    BY <1>5 DEF TrashField
  <2>. QED
    BY <2>1, <1>0, BreakGood DEF FieldTable
<1>6. ASSUME NEW f \in Fields, RestoreField(f) PROVE GoodRows(fields', deps')
  <2>1. Live(fields) \subseteq Live(fields') /\ f \in Live(fields')
    BY <1>6 DEF RestoreField, Live, FieldTable
  <2>2. deps' = RebuildAndRepair(fields', deps, f)
    BY <1>6 DEF RestoreField
  <2>. QED
    BY <2>1, <2>2, <1>a
<1>. QED
  BY <1>1, <1>2, <1>3, <1>4, <1>5, <1>6 DEF Next

(* No FieldDependency row ever names a field that is not live, and every *)
(* via is a link row field of its dependant's table: the break of a       *)
(* trashed field clears it from every row, and construction and repair   *)
(* only name live fields.                                                 *)
THEOREM LiveEndpointsCorrect == Spec => [](LiveEndpoints /\ ViaIsLinkInOwnTable)
<1>1. Init => LiveInv
  <2> SUFFICES ASSUME Init PROVE LiveInv
    OBVIOUS
  <2>1. GoodRows(fields, deps)
    BY DEF Init, GoodRows
  <2>. QED
    BY <2>1, InitTypeOK DEF LiveInv
<1>2. LiveInv /\ [Next]_vars => LiveInv'
  <2> SUFFICES ASSUME LiveInv, [Next]_vars PROVE LiveInv'
    OBVIOUS
  <2>1. TypeOK'
    <3>1. CASE Next
      BY <3>1, NextFieldsType, NextDepsType DEF LiveInv, TypeOK, FieldTable, DepTable
    <3>2. CASE UNCHANGED vars
      BY <3>2 DEF LiveInv, vars, TypeOK
    <3>. QED
      BY <3>1, <3>2
  <2>2. CASE Next
    BY <2>1, <2>2, NextGoodRows DEF LiveInv
  <2>3. CASE UNCHANGED vars
    BY <2>1, <2>3 DEF LiveInv, vars, GoodRows, GoodRow, Live
  <2>. QED
    BY <2>2, <2>3
<1>3. LiveInv => LiveEndpoints /\ ViaIsLinkInOwnTable
  BY GoodRowsIff DEF LiveInv
<1>. QED
  BY <1>1, <1>2, <1>3, PTL DEF Spec

=============================================================================
