---------------------- MODULE FieldDependencies_key_proofs ----------------------
(***************************************************************************)
(* When no field name has the str of a field id or of None, the str key   *)
(* identifies a row, and rebuild_field_dependencies persists every row    *)
(* the definition asks for.  The key_collision run shows the rebuild      *)
(* losing a desired row when this condition fails.                        *)
(***************************************************************************)
EXTENDS FieldDependencies_row_proofs

(* No name prints like an id or like None.                                *)
StrDisjoint == \A x \in Fields \cup {NULL}, n \in Names : Str[x] # Str[n]

LEMMA StrInjective ==
    /\ \A a, b \in Fields \cup {NULL} : Str[a] = Str[b] => a = b
    /\ \A a, b \in Names : Str[a] = Str[b] => a = b
<1>1. IsInjective([x \in Fields \cup {NULL} |-> Str[x]])
      /\ IsInjective([n \in Names |-> Str[n]])
  BY ConstantsAssumption
<1>. QED
  BY <1>1 DEF IsInjective

(* Under StrDisjoint, equal keys mean equal rows.                         *)
LEMMA KeyInjective ==
    ASSUME StrDisjoint, NEW r \in WellFormedDep, NEW s \in WellFormedDep,
           Key(r) = Key(s)
    PROVE  r = s
<1>1. r \in DepRec /\ s \in DepRec
  BY DEF WellFormedDep
<1>2. CASE r.dependency # NULL /\ s.dependency # NULL
  <2>1. Str[r.dependant] = Str[s.dependant] /\ Str[r.dependency] = Str[s.dependency]
        /\ Str[r.via] = Str[s.via]
    BY <1>2 DEF Key
  <2>2. r.dependant = s.dependant /\ r.dependency = s.dependency /\ r.via = s.via
    BY <1>1, <2>1, StrInjective DEF DepRec
  <2>3. r.broken = NULL /\ s.broken = NULL
    BY <1>2 DEF WellFormedDep
  <2>. QED
    BY <1>1, <2>2, <2>3 DEF DepRec
<1>3. CASE r.dependency = NULL /\ s.dependency = NULL
  <2>1. Str[r.dependant] = Str[s.dependant] /\ Str[r.via] = Str[s.via]
        /\ Str[r.broken] = Str[s.broken]
    BY <1>3 DEF Key
  <2>2. r.broken \in Names /\ s.broken \in Names
    BY <1>1, <1>3 DEF WellFormedDep, DepRec
  <2>3. r.dependant = s.dependant /\ r.via = s.via /\ r.broken = s.broken
    BY <1>1, <2>1, <2>2, StrInjective DEF DepRec
  <2>. QED
    BY <1>1, <1>3, <2>3 DEF DepRec
<1>4. CASE r.dependency # NULL /\ s.dependency = NULL
  <2>1. Str[r.via] = Str[s.broken]
    BY <1>4 DEF Key
  <2>2. s.broken \in Names /\ r.via \in Fields \cup {NULL}
    BY <1>1, <1>4 DEF WellFormedDep, DepRec
  <2>. QED
    BY <2>1, <2>2 DEF StrDisjoint
<1>5. CASE r.dependency = NULL /\ s.dependency # NULL
  <2>1. Str[s.via] = Str[r.broken]
    BY <1>5 DEF Key
  <2>2. r.broken \in Names /\ s.via \in Fields \cup {NULL}
    BY <1>1, <1>5 DEF WellFormedDep, DepRec
  <2>. QED
    BY <2>1, <2>2 DEF StrDisjoint
<1>. QED
  BY <1>2, <1>3, <1>4, <1>5
(* A desired row whose key is current: the current row of that key is    *)
(* the desired row itself, and no row with a desired key is deleted.      *)
(* A desired row whose key is not current: it is the row new_deps_by_str  *)
(* keeps for its key, and bulk_create writes it at a free id.             *)
LEMMA RebuildPersists ==
    ASSUME StrDisjoint, NEW fl \in FieldTable, NEW d \in DepTable, NEW f \in Fields,
           RowsAvailable(fl, d, f)
    PROVE  NewDependencies(fl, f) \subseteq Current(RebuildFieldDependencies(fl, d, f), f)
<1> DEFINE new   == ToCreate(fl, d, f)
           gone  == ToDelete(fl, d, f)
           alloc == CHOOSE g \in [new -> FreeIds(d)] : IsInjective(g)
           e     == RebuildFieldDependencies(fl, d, f)
           ND    == NewDependencies(fl, f)
<1>1. alloc \in [new -> FreeIds(d)] /\ IsInjective(alloc)
  BY AllocFree
<1>2. ND \subseteq WellFormedDep /\ \A r \in ND : r.dependant = f
  BY NewDependenciesType, NewDependenciesDependant
<1>3. \A i \in RowIds :
         e[i] = IF i \in gone THEN NULL
                ELSE IF \E r \in new : alloc[r] = i THEN CHOOSE r \in new : alloc[r] = i
                ELSE d[i]
  BY DEF RebuildFieldDependencies
<1>4. \A i \in CurrentIds(d, f) : d[i] \in WellFormedDep
  BY DEF CurrentIds, UsedIds, DepTable
<1> SUFFICES ASSUME NEW r \in ND PROVE r \in Current(e, f)
  OBVIOUS
<1>5. CASE Key(r) \in Keys(Current(d, f))
  <2>1. PICK i \in CurrentIds(d, f) : Key(d[i]) = Key(r)
    BY <1>5 DEF Keys, Current
  <2>2. d[i] = r
    BY <1>2, <1>4, <2>1, KeyInjective
  <2>3. i \notin gone
    <3> SUFFICES ASSUME NEW k \in Keys(Current(d, f)) \ Keys(ND),
                        (CHOOSE j \in CurrentIds(d, f) : Key(d[j]) = k) = i
                 PROVE  FALSE
      BY DEF ToDelete
    <3>1. \E j \in CurrentIds(d, f) : Key(d[j]) = k
      BY DEF Keys, Current
    <3>2. Key(d[i]) = k
      BY <3>1
    <3>3. Key(r) \in Keys(ND)
      BY DEF Keys
    <3>. QED
      BY <2>1, <3>2, <3>3
  <2>4. ~\E s \in new : alloc[s] = i
    BY <1>1 DEF FreeIds, CurrentIds, UsedIds
  <2>5. e[i] = r
    BY <1>3, <2>2, <2>3, <2>4 DEF CurrentIds, UsedIds
  <2>6. r # NULL
    BY <1>2, ConstantsAssumption DEF WellFormedDep
  <2>7. i \in CurrentIds(e, f)
    BY <1>2, <2>5, <2>6 DEF CurrentIds, UsedIds
  <2>. QED
    BY <2>5, <2>7 DEF Current
<1>6. CASE Key(r) \notin Keys(Current(d, f))
  <2> DEFINE c == CHOOSE s \in ND : Key(s) = Key(r)
  <2>1. c \in ND /\ Key(c) = Key(r)
    OBVIOUS
  <2>2. c = r
    BY <1>2, <2>1, KeyInjective
  <2>3. r \in new
    <3>1. Key(r) \in Keys(ND)
      BY DEF Keys
    <3>2. r \in NewByKey(fl, f)
      BY <2>2, <3>1 DEF NewByKey
    <3>. QED
      BY <1>6, <3>2 DEF ToCreate
  <2> DEFINE i == alloc[r]
  <2>4. i \in FreeIds(d) /\ i \in RowIds
    BY <1>1, <2>3 DEF FreeIds
  <2>5. i \notin gone
    BY <2>4, ToDeleteCurrent DEF FreeIds, CurrentIds
  <2>6. (CHOOSE s \in new : alloc[s] = i) = r
    BY <1>1, <2>3 DEF IsInjective
  <2>7. e[i] = r
    BY <1>3, <2>3, <2>4, <2>5, <2>6
  <2>8. r # NULL
    BY <1>2, ConstantsAssumption DEF WellFormedDep
  <2>9. i \in CurrentIds(e, f)
    BY <1>2, <2>4, <2>7, <2>8 DEF CurrentIds, UsedIds
  <2>. QED
    BY <2>7, <2>9 DEF Current
<1>. QED
  BY <1>5, <1>6
LEMMA WithRefsType ==
    ASSUME TypeOK, NEW f \in Fields, NEW R \in RefsFor(f)
    PROVE  WithRefs(f, R) \in FieldTable
<1>1. R \in SUBSET Descriptor
  BY ConstantsAssumption DEF RefsFor
<1>2. fields \in FieldTable
  BY DEF TypeOK, FieldTable
<1>. QED
  BY <1>1, <1>2 DEF WithRefs, FieldTable, FieldRec

(* Spec 4.4: whenever no field name prints like a field id or like None, *)
(* rebuild_field_dependencies leaves every row the definition asks for    *)
(* among the field's rows: the diff by str key in lines 176-186 then      *)
(* compares rows, not strings.                                             *)
THEOREM RebuildPersistsCorrect ==
    ASSUME StrDisjoint PROVE Spec => []RebuildPersistsDesired
<1>1. TypeOK => RebuildPersistsDesired
  <2> SUFFICES ASSUME TypeOK, NEW f \in Live(fields), NEW R \in RefsFor(f),
                      CanRebuild(WithRefs(f, R), deps, f)
               PROVE  NewDependencies(WithRefs(f, R), f) \subseteq
                          Current(RebuildFieldDependencies(WithRefs(f, R), deps, f), f)
    BY DEF RebuildPersistsDesired
  <2>1. f \in Fields
    BY DEF Live
  <2>2. WithRefs(f, R) \in FieldTable /\ deps \in DepTable
    BY <2>1, WithRefsType DEF TypeOK, DepTable
  <2>. QED
    BY <2>1, <2>2, RebuildPersists DEF CanRebuild
<1>. QED
  BY <1>1, TypeCorrect, PTL
-----------------------------------------------------------------------------
(* Rebuilding twice.                                                       *)

(* The current rows of f have distinct keys.                              *)
DistinctKeys(d, f) ==
    \A i, j \in CurrentIds(d, f) : Key(d[i]) = Key(d[j]) => i = j

(* With one row per key, every stale row is deleted: after the rebuild    *)
(* every key of f's rows is a desired key.                                *)
LEMMA RebuildNoStale ==
    ASSUME NEW fl \in FieldTable, NEW d \in DepTable, NEW f \in Fields,
           RowsAvailable(fl, d, f), DistinctKeys(d, f)
    PROVE  Keys(Current(RebuildFieldDependencies(fl, d, f), f)) \subseteq
               Keys(NewDependencies(fl, f))
<1> DEFINE new   == ToCreate(fl, d, f)
           gone  == ToDelete(fl, d, f)
           alloc == CHOOSE g \in [new -> FreeIds(d)] : IsInjective(g)
           e     == RebuildFieldDependencies(fl, d, f)
           ND    == NewDependencies(fl, f)
<1>1. alloc \in [new -> FreeIds(d)]
  BY AllocFree
<1>2. new \subseteq ND
  BY ToCreateNew
<1> SUFFICES ASSUME NEW i \in CurrentIds(e, f) PROVE Key(e[i]) \in Keys(ND)
  BY DEF Keys, Current
<1>3. i \in RowIds /\ e[i] # NULL
  BY DEF CurrentIds, UsedIds
<1>4. e[i] = IF i \in gone THEN NULL
             ELSE IF \E r \in new : alloc[r] = i THEN CHOOSE r \in new : alloc[r] = i
             ELSE d[i]
  BY <1>3 DEF RebuildFieldDependencies
<1>5. i \notin gone
  BY <1>3, <1>4
<1>6. CASE \E r \in new : alloc[r] = i
  <2>1. e[i] \in new
    BY <1>4, <1>5, <1>6
  <2>. QED
    BY <1>2, <2>1 DEF Keys
<1>7. CASE ~\E r \in new : alloc[r] = i
  <2>1. e[i] = d[i]
    BY <1>4, <1>5, <1>7
  <2>2. i \in CurrentIds(d, f)
    BY <1>3, <2>1 DEF CurrentIds, UsedIds
  <2> SUFFICES ASSUME Key(d[i]) \notin Keys(ND) PROVE FALSE
    BY <2>1
  <2> DEFINE k == Key(d[i])
             j == CHOOSE j \in CurrentIds(d, f) : Key(d[j]) = k
  <2>3. k \in Keys(Current(d, f))
    BY <2>2 DEF Keys, Current
  <2>4. j \in gone
    BY <2>3 DEF ToDelete
  <2>5. j \in CurrentIds(d, f) /\ Key(d[j]) = k
    BY <2>2
  <2>6. j = i
    BY <2>2, <2>5 DEF DistinctKeys
  <2>. QED
    BY <1>5, <2>4, <2>6
<1>. QED
  BY <1>6, <1>7

(* A second rebuild after a rebuild of a field with one row per key has   *)
(* nothing to create and nothing to delete.                               *)
LEMMA RebuildTwice ==
    ASSUME StrDisjoint, NEW fl \in FieldTable, NEW d \in DepTable, NEW f \in Fields,
           RowsAvailable(fl, d, f), DistinctKeys(d, f)
    PROVE  LET d1 == RebuildFieldDependencies(fl, d, f)
           IN  ToCreate(fl, d1, f) = {} /\ ToDelete(fl, d1, f) = {}
<1> DEFINE d1 == RebuildFieldDependencies(fl, d, f)
           ND == NewDependencies(fl, f)
<1>1. ND \subseteq Current(d1, f)
  BY RebuildPersists
<1>2. Keys(Current(d1, f)) \subseteq Keys(ND)
  BY RebuildNoStale
<1>3. NewByKey(fl, f) \subseteq ND
  <2> SUFFICES ASSUME NEW k \in Keys(ND)
               PROVE  (CHOOSE r \in ND : Key(r) = k) \in ND
    BY DEF NewByKey
  <2>1. \E r \in ND : Key(r) = k
    BY DEF Keys
  <2>. QED
    BY <2>1
<1>4. ToCreate(fl, d1, f) = {}
  BY <1>1, <1>3 DEF ToCreate, Keys
<1>5. Keys(Current(d1, f)) \ Keys(ND) = {}
  BY <1>2
<1>6. ToDelete(fl, d1, f) = {}
  BY <1>5 DEF ToDelete
<1>. QED
  BY <1>4, <1>6

(* Spec 4.4 and _assert_rebuilding_changes_nothing: as long as no two    *)
(* FieldDependency rows are equal and no name prints like an id or None,  *)
(* a second rebuild_field_dependencies creates and deletes nothing.  The  *)
(* rebuild_idempotent run fails only through the duplicate rows of        *)
(* finding 2, and key_collision through the str key.                      *)
THEOREM RebuildIdempotentIfNoDuplicates ==
    ASSUME StrDisjoint PROVE Spec => []IdempotentWithoutDuplicates
<1>1. TypeOK => IdempotentWithoutDuplicates
  <2> SUFFICES ASSUME TypeOK, NoDuplicateRows, NEW f \in Live(fields),
                      NEW R \in RefsFor(f), CanRebuild(WithRefs(f, R), deps, f)
               PROVE  LET d1 == RebuildFieldDependencies(WithRefs(f, R), deps, f)
                      IN  ToCreate(WithRefs(f, R), d1, f) = {}
                          /\ ToDelete(WithRefs(f, R), d1, f) = {}
    BY DEF IdempotentWithoutDuplicates, RebuildIdempotent
  <2>1. f \in Fields
    BY DEF Live
  <2>2. WithRefs(f, R) \in FieldTable /\ deps \in DepTable
    BY <2>1, WithRefsType DEF TypeOK, DepTable
  <2>3. DistinctKeys(deps, f)
    <3> SUFFICES ASSUME NEW i \in CurrentIds(deps, f), NEW j \in CurrentIds(deps, f),
                        Key(deps[i]) = Key(deps[j])
                 PROVE  i = j
      BY DEF DistinctKeys
    <3>1. deps[i] \in WellFormedDep /\ deps[j] \in WellFormedDep
      BY <2>2 DEF CurrentIds, UsedIds, DepTable
    <3>2. deps[i] = deps[j]
      BY <3>1, KeyInjective
    <3>. QED
      BY <3>2 DEF NoDuplicateRows, CurrentIds
  <2>. QED
    BY <2>1, <2>2, <2>3, RebuildTwice DEF CanRebuild
<1>. QED
  BY <1>1, TypeCorrect, PTL
=============================================================================
