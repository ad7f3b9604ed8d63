-------------------------- MODULE FieldDependencies --------------------------
(***************************************************************************)
(* The field dependency graph of a Baserow workspace, as maintained by     *)
(* fields/dependencies/depedency_rebuilder.py.                             *)
(*                                                                         *)
(* Two tables are modelled:                                                *)
(*   fields : the Field rows (lifecycle state, name, and the references    *)
(*            its definition names, i.e. get_field_dependencies);          *)
(*   deps   : the FieldDependency rows, a function from row ids to a      *)
(*            record <<dependant, dependency, via, broken name>> or NULL   *)
(*            for an unused id.  Rows are kept by id because the code     *)
(*            diffs by semantic key while the database keeps duplicates.  *)
(*                                                                         *)
(* Every field lifecycle operation is one atomic action: the handler runs  *)
(* it in one database transaction, and an exception raised by the rebuild  *)
(* rolls the whole operation back, so a failing attempt is a stutter.     *)
(***************************************************************************)
EXTENDS Naturals, FiniteSets, Functions

CONSTANTS
    Fields,      \* field ids (model values)
    Tables,      \* table ids
    Names,       \* field names that can occur
    NULL,        \* the database NULL / Python None
    MaxRows,     \* number of FieldDependency row ids available
    TableOf,     \* Field.table
    LinkTo,      \* LinkRowField.link_row_table, NULL for other field types
    PrimaryOf,   \* the primary field of each table
    InitName,    \* the name each field has when the model starts
    Initial,     \* the fields that exist when the model starts
    RefChoices,  \* per field, the reference sets its definition may name
    RenameTo,    \* per field, the names a rename may give it
    Str          \* str() of a field id, of None and of a name

RowIds == 1..MaxRows

(* A dependency descriptor of get_field_dependencies: a bare name, or a    *)
(* (via field name, target name) tuple.  through = NULL is the bare form. *)
Descriptor == [through : Names \cup {NULL}, name : Names]
Bare(n) == [through |-> NULL, name |-> n]
Through(v, n) == [through |-> v, name |-> n]

FieldStates == {"absent", "live", "trashed"}
FieldRec == [state : FieldStates, name : Names, refs : SUBSET Descriptor]

(* A FieldDependency row.                                                  *)
DepRec == [dependant : Fields, dependency : Fields \cup {NULL},
           via : Fields \cup {NULL}, broken : Names \cup {NULL}]
(* A row is resolved (a dependency, no broken name) or broken (a broken  *)
(* name, no dependency).                                                  *)
WellFormedDep == {r \in DepRec : (r.dependency = NULL) <=> (r.broken # NULL)}
Dep(dt, dy, v, b) == [dependant |-> dt, dependency |-> dy, via |-> v, broken |-> b]

IsLink(f) == LinkTo[f] # NULL

ASSUME ConstantsAssumption ==
    /\ NULL \notin Fields \cup Tables \cup Names
    /\ NULL \notin DepRec
    /\ MaxRows \in Nat
    /\ IsFiniteSet(Names)
    /\ TableOf \in [Fields -> Tables]
    /\ LinkTo \in [Fields -> Tables \cup {NULL}]
    /\ PrimaryOf \in [Tables -> Fields]
    /\ InitName \in [Fields -> Names]
    /\ Initial \subseteq Fields
    /\ RefChoices \in [Fields -> SUBSET SUBSET Descriptor]
    /\ RenameTo \in [Fields -> SUBSET Names]
    /\ DOMAIN Str = Fields \cup {NULL} \cup Names
    /\ IsInjective([x \in Fields \cup {NULL} |-> Str[x]])
    /\ IsInjective([n \in Names |-> Str[n]])
    /\ \A t \in Tables : TableOf[PrimaryOf[t]] = t /\ ~IsLink(PrimaryOf[t])
    /\ \A t \in Tables : PrimaryOf[t] \in Initial
    /\ \A f \in Initial : ~IsLink(f)
    /\ \A f, g \in Initial :
          f # g /\ TableOf[f] = TableOf[g] => InitName[f] # InitName[g]

VARIABLES fields, deps
vars == <<fields, deps>>

-----------------------------------------------------------------------------
(* Field lookup and the field types' get_field_dependencies.              *)

Live(fl) == {f \in Fields : fl[f].state = "live"}

(* FieldCache.lookup_by_name: the live field of table t named n, or NULL. *)
LookupByName(fl, t, n) ==
    IF \E f \in Live(fl) : TableOf[f] = t /\ fl[f].name = n
    THEN CHOOSE f \in Live(fl) : TableOf[f] = t /\ fl[f].name = n
    ELSE NULL

(* get_field_dependencies: a link row field depends through itself on the *)
(* primary field of the table it links to; other fields on the references *)
(* their definition names.                                                 *)
FieldDependencies(fl, f) ==
    IF IsLink(f) THEN {Through(fl[f].name, fl[PrimaryOf[LinkTo[f]]].name)}
    ELSE fl[f].refs

-----------------------------------------------------------------------------
(* The dependency graph the circular reference checker walks: an edge from *)
(* dependant to dependency for every resolved row, and from dependant to   *)
(* via wherever via is set.                                               *)

UsedIds(d) == {i \in RowIds : d[i] # NULL}
Rows(d) == {d[i] : i \in UsedIds(d)}

Graph(d) ==
    {<<r.dependant, r.dependency>> : r \in {r \in Rows(d) : r.dependency # NULL}}
    \cup {<<r.dependant, r.via>> : r \in {r \in Rows(d) : r.via # NULL}}

Successors(E, S) == {e[2] : e \in {e \in E : e[1] \in S}}

(* A set of fields that no edge of E leaves.                             *)
Closed(E, S) == Successors(E, S) \subseteq S

Targets(E) == {e[2] : e \in E}

(* The fields reachable from t in one or more steps of E: the least set  *)
(* of edge targets that holds t's successors and that no edge leaves.    *)
ReachableFrom(E, t) ==
    {g \in Targets(E) :
        \A S \in SUBSET Targets(E) : Successors(E, {t}) \subseteq S /\ Closed(E, S) => g \in S}

(* will_cause_circular_dep(from, to): adding from -> to closes a cycle.   *)
WillCauseCircularDep(d, from, to) ==
    from = to \/ from \in ReachableFrom(Graph(d), to)

-----------------------------------------------------------------------------
(* Mutant: a via field is taken for a link row field whatever its type.   *)
ConstructDependencyAnyVia(fl, f, ref) ==
    LET table  == TableOf[f]
        direct == LookupByName(fl, table, ref.name)
        via    == LookupByName(fl, table, ref.through)
        target == IF via # NULL THEN LookupByName(fl, LinkTo[via], ref.name) ELSE NULL
    IN  IF ref.through = NULL
        THEN {IF direct = NULL THEN Dep(f, NULL, NULL, ref.name)
              ELSE Dep(f, direct, NULL, NULL)}
        ELSE CASE via = NULL -> {Dep(f, NULL, NULL, ref.through)}
               [] via # NULL /\ target = NULL -> {Dep(f, NULL, via, ref.name)}
               [] via # NULL /\ target # NULL ->
                      {Dep(f, target, via, NULL)}
                      \cup (IF f # via THEN {Dep(f, via, NULL, NULL)} ELSE {})

(* _construct_dependency: the rows one descriptor stands for.             *)
ConstructDependency(fl, f, ref) ==
    LET table  == TableOf[f]
        direct == LookupByName(fl, table, ref.name)
        via    == LookupByName(fl, table, ref.through)
        target == IF via # NULL /\ IsLink(via)
                  THEN LookupByName(fl, LinkTo[via], ref.name) ELSE NULL
    IN  IF ref.through = NULL
        THEN {IF direct = NULL THEN Dep(f, NULL, NULL, ref.name)
              ELSE Dep(f, direct, NULL, NULL)}
        ELSE CASE via = NULL -> {Dep(f, NULL, NULL, ref.through)}
               [] via # NULL /\ ~IsLink(via) -> {Dep(f, via, NULL, NULL)}
               [] via # NULL /\ IsLink(via) /\ target = NULL ->
                      {Dep(f, NULL, via, ref.name)}
               [] via # NULL /\ IsLink(via) /\ target # NULL ->
                      {Dep(f, target, via, NULL)}
                      \cup (IF f # via THEN {Dep(f, via, NULL, NULL)} ELSE {})

(* The SelfReferenceFieldDependencyError raised while constructing.       *)
SelfReference(fl, f) ==
    \E ref \in FieldDependencies(fl, f) :
        ref.through = NULL /\ ref.name = fl[f].name

NewDependencies(fl, f) ==
    UNION {ConstructDependency(fl, f, ref) : ref \in FieldDependencies(fl, f)}

(* Mutant: the current rows are read from every dependant.               *)
CurrentIdsAllDependants(d, f) == UsedIds(d)

(* field_instance.dependencies.all()                                      *)
CurrentIds(d, f) == {i \in UsedIds(d) : d[i].dependant = f}
Current(d, f) == {d[i] : i \in CurrentIds(d, f)}

(* FieldDependency.__str__ (spec 6): "dependant:dependency:via" for a      *)
(* resolved row, "dependant:via:broken_reference_field_name" for a broken *)
(* one; NULL is written "None".                                           *)
Key(r) ==
    IF r.dependency # NULL THEN <<Str[r.dependant], Str[r.dependency], Str[r.via]>>
    ELSE <<Str[r.dependant], Str[r.via], Str[r.broken]>>

Keys(S) == {Key(r) : r \in S}

(* new_deps_by_str: one new row per key.  The dict keeps the last row of  *)
(* each key; which one is last depends on the descriptors' order, and     *)
(* CHOOSE takes one of them.                                              *)
NewByKey(fl, f) ==
    {CHOOSE r \in NewDependencies(fl, f) : Key(r) = k :
        k \in Keys(NewDependencies(fl, f))}

(* Mutant: new rows are matched with the current ones by their target.   *)
ToCreateByTarget(fl, d, f) ==
    {r \in NewByKey(fl, f) : r.dependency \notin {c.dependency : c \in Current(d, f)}}

(* The new rows whose key is not popped from current_deps_by_str.         *)
ToCreate(fl, d, f) == {r \in NewByKey(fl, f) : Key(r) \notin Keys(Current(d, f))}

(* Mutant: only one stale row is deleted per rebuild.                     *)
ToDeleteOne(fl, d, f) ==
    LET stale == Keys(Current(d, f)) \ Keys(NewDependencies(fl, f))
    IN  IF stale = {} THEN {}
        ELSE {CHOOSE i \in CurrentIds(d, f) : Key(d[i]) = CHOOSE k \in stale : TRUE}

(* current_deps_by_str keeps one row per key; the rows left in it after    *)
(* the new keys are popped are deleted.  Which row of a key the dict      *)
(* keeps follows the query order; CHOOSE takes one of them.               *)
ToDelete(fl, d, f) ==
    {CHOOSE i \in CurrentIds(d, f) : Key(d[i]) = k :
        k \in Keys(Current(d, f)) \ Keys(NewDependencies(fl, f))}

(* The CircularFieldDependencyError raised before anything is persisted.  *)
CreatesCycle(fl, d, f) ==
    \E r \in ToCreate(fl, d, f) :
        r.dependency # NULL /\ WillCauseCircularDep(d, f, r.dependency)

RebuildFails(fl, d, f) == SelfReference(fl, f) \/ CreatesCycle(fl, d, f)

FreeIds(d) == RowIds \ UsedIds(d)

(* Mutant: new rows may take the ids of the rows being deleted, i.e. the  *)
(* stale rows are rewritten in place.                                      *)
RebuildFieldDependenciesReuseIds(fl, d, f) ==
    LET new   == ToCreate(fl, d, f)
        gone  == ToDelete(fl, d, f)
        alloc == CHOOSE g \in [new -> FreeIds(d) \cup gone] : IsInjective(g)
    IN  [i \in RowIds |->
            IF \E r \in new : alloc[r] = i THEN CHOOSE r \in new : alloc[r] = i
            ELSE IF i \in gone THEN NULL
            ELSE d[i]]

(* bulk_create needs a fresh id for every new row.                         *)
RowsAvailable(fl, d, f) == Cardinality(ToCreate(fl, d, f)) <= Cardinality(FreeIds(d))

(* rebuild_field_dependencies: bulk_create the new rows, delete the stale. *)
RebuildFieldDependencies(fl, d, f) ==
    LET new   == ToCreate(fl, d, f)
        gone  == ToDelete(fl, d, f)
        alloc == CHOOSE g \in [new -> FreeIds(d)] : IsInjective(g)
    IN  [i \in RowIds |->
            IF i \in gone THEN NULL
            ELSE IF \E r \in new : alloc[r] = i THEN CHOOSE r \in new : alloc[r] = i
            ELSE d[i]]

-----------------------------------------------------------------------------
(* The three updates of break_dependencies_for_field, in their order.     *)
DeleteOwnDependencies(d, f) ==
    [i \in RowIds |-> IF d[i] # NULL /\ d[i].dependant = f THEN NULL ELSE d[i]]

BreakDependants(d, f, n) ==
    [i \in RowIds |->
        IF d[i] # NULL /\ d[i].dependency = f
        THEN [d[i] EXCEPT !.dependency = NULL, !.broken = n] ELSE d[i]]

BreakVias(d, f, n) ==
    [i \in RowIds |->
        IF d[i] # NULL /\ d[i].via = f
        THEN [d[i] EXCEPT !.dependency = NULL, !.broken = n, !.via = NULL] ELSE d[i]]

(* Mutant: the vias update is left out.                                   *)
BreakDependenciesKeepVias(fl, d, f) ==
    BreakDependants(DeleteOwnDependencies(d, f), f, fl[f].name)

(* break_dependencies_for_field: the field's own rows are deleted, rows    *)
(* depending on it become broken, and for a link row field the rows going *)
(* through it lose their via as well, after the dependants update.        *)
BreakDependenciesForField(fl, d, f) ==
    LET broken == BreakDependants(DeleteOwnDependencies(d, f), f, fl[f].name)
    IN  IF IsLink(f) THEN BreakVias(broken, f, fl[f].name) ELSE broken

(* Mutant: broken rows are matched by name alone.                         *)
BrokenFixedByNameAnyTable(fl, d, f) ==
    {i \in UsedIds(d) : d[i].broken = fl[f].name}

(* The query of update_fields_with_broken_references: broken rows naming   *)
(* f whose dependant is in f's table, or whose via links to f's table.    *)
BrokenFixedByName(fl, d, f) ==
    {i \in UsedIds(d) :
        /\ d[i].broken = fl[f].name
        /\ \/ TableOf[d[i].dependant] = TableOf[f]
           \/ d[i].via # NULL /\ LinkTo[d[i].via] = TableOf[f]}

(* Mutant: the broken name is not cleared on repair.                      *)
UpdateFieldsWithBrokenReferencesKeepName(fl, d, f) ==
    LET fixed == {i \in BrokenFixedByName(fl, d, f) :
                     ~WillCauseCircularDep(d, d[i].dependant, f)}
    IN  [i \in RowIds |->
            IF i \in fixed THEN [d[i] EXCEPT !.dependency = f] ELSE d[i]]

(* Mutant: repair without the circular dependency check.                  *)
UpdateFieldsWithBrokenReferencesUnchecked(fl, d, f) ==
    [i \in RowIds |->
        IF i \in BrokenFixedByName(fl, d, f)
        THEN [d[i] EXCEPT !.dependency = f, !.broken = NULL]
        ELSE d[i]]

(* Every match that would not close a cycle, checked against the rows as  *)
(* they are before the bulk_update, is pointed at f.                      *)
UpdateFieldsWithBrokenReferences(fl, d, f) ==
    LET fixed == {i \in BrokenFixedByName(fl, d, f) :
                     ~WillCauseCircularDep(d, d[i].dependant, f)}
    IN  [i \in RowIds |->
            IF i \in fixed THEN [d[i] EXCEPT !.dependency = f, !.broken = NULL]
            ELSE d[i]]

-----------------------------------------------------------------------------
(* check_for_circular and _get_dependency_field: the validation run on a   *)
(* field definition without touching the graph.  For a (via, target)       *)
(* descriptor whose via is not a link row field, via.link_row_table does  *)
(* not exist and the lookup raises.                                       *)
GetDependencyFieldCrashes(fl, f, ref) ==
    LET via == LookupByName(fl, TableOf[f], ref.through)
    IN  ref.through # NULL /\ via # NULL /\ ~IsLink(via)

GetDependencyField(fl, f, ref) ==
    LET via == LookupByName(fl, TableOf[f], ref.through)
    IN  CASE ref.through = NULL -> LookupByName(fl, TableOf[f], ref.name)
          [] ref.through # NULL /\ via = NULL -> NULL
          [] ref.through # NULL /\ via # NULL -> LookupByName(fl, LinkTo[via], ref.name)

CheckForCircularRaises(fl, d, f) ==
    \E ref \in FieldDependencies(fl, f) :
        \/ GetDependencyFieldCrashes(fl, f, ref)
        \/ LET g == GetDependencyField(fl, f, ref)
           IN  g # NULL /\ (fl[f].name = fl[g].name \/ WillCauseCircularDep(d, f, g))

-----------------------------------------------------------------------------
(* The field lifecycle handler.  Each operation rebuilds the field's own  *)
(* rows and, when the field may now match broken references by name,     *)
(* repairs them; a rebuild that raises rolls the operation back.          *)

CanRebuild(fl, d, f) == ~RebuildFails(fl, d, f) /\ RowsAvailable(fl, d, f)

RebuildAndRepair(fl, d, f) ==
    UpdateFieldsWithBrokenReferences(fl, RebuildFieldDependencies(fl, d, f), f)

NameFree(fl, t, n) == LookupByName(fl, t, n) = NULL

Primaries == {PrimaryOf[t] : t \in Tables}

RefsFor(f) == IF IsLink(f) THEN {{}} ELSE RefChoices[f]

Init ==
    /\ fields = [f \in Fields |->
                   [state |-> IF f \in Initial THEN "live" ELSE "absent",
                    name  |-> InitName[f],
                    refs  |-> {}]]
    /\ deps = [i \in RowIds |-> NULL]

(* create_field: a new field, named InitName[f] (any other name is reached *)
(* by a rename), with its definition.                                      *)
CreateField(f, R) ==
    /\ fields[f].state = "absent"
    /\ NameFree(fields, TableOf[f], fields[f].name)
    /\ LET fl == [fields EXCEPT ![f] = [state |-> "live", name |-> fields[f].name,
                                       refs |-> R]]
       IN  /\ CanRebuild(fl, deps, f)
           /\ fields' = fl
           /\ deps' = RebuildAndRepair(fl, deps, f)

(* update_field changing the name.                                        *)
RenameField(f, n) ==
    /\ fields[f].state = "live"
    /\ NameFree(fields, TableOf[f], n)
    /\ LET fl == [fields EXCEPT ![f].name = n]
       IN  /\ CanRebuild(fl, deps, f)
           /\ fields' = fl
           /\ deps' = RebuildAndRepair(fl, deps, f)

(* update_field changing the definition (formula, lookup target).         *)
UpdateFieldRefs(f, R) ==
    /\ fields[f].state = "live"
    /\ ~IsLink(f)
    /\ R # fields[f].refs
    /\ LET fl == [fields EXCEPT ![f].refs = R]
       IN  /\ CanRebuild(fl, deps, f)
           /\ fields' = fl
           /\ deps' = RebuildFieldDependencies(fl, deps, f)

(* FieldDependencyHandler.rebuild_dependencies on a live field, as run on *)
(* the dependants of a changed field.                                     *)
RebuildField(f) ==
    /\ fields[f].state = "live"
    /\ CanRebuild(fields, deps, f)
    /\ deps' = RebuildFieldDependencies(fields, deps, f)
    /\ UNCHANGED fields

(* delete_field: the field is trashed and its dependencies broken.        *)
TrashField(f) ==
    /\ fields[f].state = "live"
    /\ f \notin Primaries
    /\ LET fl == [fields EXCEPT ![f].state = "trashed"]
       IN  /\ fields' = fl
           /\ deps' = BreakDependenciesForField(fl, deps, f)

(* Restoring a trashed field from the trash.                              *)
RestoreField(f) ==
    /\ fields[f].state = "trashed"
    /\ NameFree(fields, TableOf[f], fields[f].name)
    /\ LET fl == [fields EXCEPT ![f].state = "live"]
       IN  /\ CanRebuild(fl, deps, f)
           /\ fields' = fl
           /\ deps' = RebuildAndRepair(fl, deps, f)

Next ==
    \E f \in Fields :
        \/ \E R \in RefsFor(f) : CreateField(f, R)
        \/ \E n \in RenameTo[f] : RenameField(f, n)
        \/ \E R \in RefsFor(f) : UpdateFieldRefs(f, R)
        \/ RebuildField(f)
        \/ TrashField(f)
        \/ RestoreField(f)

Spec == Init /\ [][Next]_vars

-----------------------------------------------------------------------------
(* Type correctness: every field row is well formed, and every dependency *)
(* row is either resolved (a dependency, no broken name) or broken (a     *)
(* broken name, no dependency).                                           *)
TypeOK ==
    /\ fields \in [Fields -> FieldRec]
    /\ deps \in [RowIds -> WellFormedDep \cup {NULL}]

Resolved(d) == {r \in Rows(d) : r.dependency # NULL}

(* The graph of resolved dependency rows, dependant -> dependency.        *)
DependencyEdges(d) == {<<r.dependant, r.dependency>> : r \in Resolved(d)}

(* The rebuild and the repair together never close a cycle of resolved   *)
(* dependencies: every resolved row they add passed will_cause_circular_dep *)
(* against the rows as they were before the write, several rows at once.  *)
DependencyGraphAcyclic ==
    \A f \in Fields : f \notin ReachableFrom(DependencyEdges(deps), f)

(* No row refers to a field that is not live: breaking a trashed field     *)
(* removes it as dependant, dependency and (for link row fields) via, and *)
(* no rebuild or repair points a row at a trashed or absent field.        *)
LiveEndpoints ==
    \A r \in Rows(deps) :
        /\ r.dependant \in Live(fields)
        /\ r.dependency \in Live(fields) \cup {NULL}
        /\ r.via \in Live(fields) \cup {NULL}

(* A resolved row without via targets a field of the dependant's own      *)
(* table, whichever of construction and name repair resolved it.          *)
DirectTargetInOwnTable ==
    \A r \in Resolved(deps) :
        r.via = NULL => TableOf[r.dependency] = TableOf[r.dependant]

(* Spec 3: a via, when set, is a link row field of the dependant's table;  *)
(* _construct_dependency sets it only for a via name resolving to a link  *)
(* row field, and a trashed via is cleared by the break.                  *)
ViaIsLinkInOwnTable ==
    \A r \in Rows(deps) :
        r.via # NULL => IsLink(r.via) /\ TableOf[r.via] = TableOf[r.dependant]

(* A row is only ever changed in place by being broken (its dependency    *)
(* cleared, its via kept or cleared) or by being repaired (its broken     *)
(* name replaced by a dependency, its via kept); its dependant never      *)
(* changes.  Rebuilds create and delete rows rather than rewrite them.    *)
RowTransitions ==
    \A i \in RowIds :
        deps[i] # NULL /\ deps'[i] # NULL /\ deps'[i] # deps[i] =>
            /\ deps'[i].dependant = deps[i].dependant
            /\ \/ deps'[i].dependency = NULL /\ deps'[i].via \in {deps[i].via, NULL}
               \/ /\ deps[i].dependency = NULL /\ deps'[i].broken = NULL
                  /\ deps'[i].via = deps[i].via

RowLifecycle == [][RowTransitions]_deps

(* The row table implements the graph-level contract of the docstrings:   *)
(* a rebuild changes only the field's own out-edges, the rebuild and      *)
(* repair of a create, rename or restore add edges only at the field, and *)
(* a trash only removes edges.  The resolved rows, read as edges, and the *)
(* live fields are the abstract state.                                     *)
Abstract == INSTANCE DependencyGraph
                WITH live <- Live(fields), graph <- DependencyEdges(deps)

ImplementsDependencyGraph == Abstract!AbsSpec

-----------------------------------------------------------------------------
(* Statements of the spec and the tests that the code does not meet; each  *)
(* is checked by a run that expects a violation.                           *)

(* The field with definition R substituted, as update_field sees it.      *)
WithRefs(f, R) == IF IsLink(f) THEN fields ELSE [fields EXCEPT ![f].refs = R]

(* Spec 3: a resolved row with a via targets a field of the table the via *)
(* links to.  update_fields_with_broken_references also matches a broken *)
(* via row by its dependant's table, so a field of that table with the    *)
(* missing target's name is taken as the target.                           *)
ViaTargetInLinkedTable ==
    \A r \in Resolved(deps) :
        r.via # NULL => TableOf[r.dependency] = LinkTo[r.via]

(* Spec 4.4 and _assert_rebuilding_changes_nothing: rebuilding a field a   *)
(* second time, with nothing changed in between, creates and deletes no   *)
(* row.  Breaking a link row field can turn two rows of one dependant     *)
(* into equal broken rows, and the rebuild's dict by str deletes only one *)
(* of them.                                                                *)
RebuildIdempotent ==
    \A f \in Live(fields) : \A R \in RefsFor(f) :
        LET fl == WithRefs(f, R)
            d1 == RebuildFieldDependencies(fl, deps, f)
        IN  CanRebuild(fl, deps, f) =>
                ToCreate(fl, d1, f) = {} /\ ToDelete(fl, d1, f) = {}

(* Spec 3: no two rows are equal.  The break of a link row field can make *)
(* two rows of a lookup equal (lines 28 and 30).                          *)
NoDuplicateRows ==
    \A i, j \in UsedIds(deps) : i # j => deps[i] # deps[j]

(* The rebuild is idempotent wherever the rows are not duplicated: the    *)
(* second rebuild of finding 2 deletes a row only because the break left  *)
(* two equal rows, which current_deps_by_str holds under one key.         *)
IdempotentWithoutDuplicates == NoDuplicateRows => RebuildIdempotent

(* Spec 4.4: a rebuild persists exactly the field's desired edge set, and *)
(* spec 3 keeps one row per edge.  Once the break has made two rows of a  *)
(* field equal, current_deps_by_str (line 176) holds one of them; when    *)
(* their key is desired it is popped, and the other copy is in neither    *)
(* dict, so the delete at line 199 never reaches it.                      *)
RebuildLeavesNoCopies ==
    \A f \in Live(fields) : \A R \in RefsFor(f) :
        LET fl == WithRefs(f, R)
            d1 == RebuildFieldDependencies(fl, deps, f)
        IN  CanRebuild(fl, deps, f) =>
                \A i, j \in CurrentIds(d1, f) : i # j => d1[i] # d1[j]

(* Spec 4.4: a rebuild persists every row of the desired edge set.  Spec  *)
(* 6 writes the key of a resolved row without via as "a:b:None" and the   *)
(* key of a broken row through via b naming "None" as "a:b:None" too, so  *)
(* current_deps_by_str pops the desired row's key on the stale broken row *)
(* and the desired row is never created.                                  *)
RebuildPersistsDesired ==
    \A f \in Live(fields) : \A R \in RefsFor(f) :
        LET fl == WithRefs(f, R)
        IN  CanRebuild(fl, deps, f) =>
                NewDependencies(fl, f) \subseteq
                    Current(RebuildFieldDependencies(fl, deps, f), f)

(* The graph of spec 3: resolved rows, each with its implicit companion   *)
(* edge dependant -> via (a link row field's own row through itself      *)
(* excluded).                                                             *)
CompanionEdges(d) ==
    DependencyEdges(d)
    \cup {<<r.dependant, r.via>> :
            r \in {r \in Resolved(d) : r.via \notin {NULL, r.dependant}}}

(* Spec 3: the resolved rows with their companion via edges are acyclic.  *)
(* A broken row keeping its via is never cycle checked, and repairing it  *)
(* checks only dependant -> target, so the companion edge to the via can  *)
(* close a cycle.                                                         *)
ViaGraphAcyclic ==
    \A f \in Fields : f \notin ReachableFrom(CompanionEdges(deps), f)

(* check_for_circular, run to validate a definition, raises exactly when   *)
(* rebuilding the field with that definition would raise.                  *)
CheckMatchesRebuild ==
    \A f \in Live(fields) : \A R \in RefsFor(f) :
        CheckForCircularRaises(WithRefs(f, R), deps, f)
            <=> RebuildFails(WithRefs(f, R), deps, f)

=============================================================================
