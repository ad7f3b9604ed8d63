# Field dependency graph: TLA+ models, model checking and proofs

This directory models how Baserow keeps the graph of field dependencies up to
date. Each dependency is a `FieldDependency` row of the form (dependant,
dependency, via, broken name). The model covers how fields are created,
renamed, redefined, trashed and restored. The code is in
`src/backend/src/baserow/contrib/database/fields/dependencies/depedency_rebuilder.py`.
Its behaviour is pinned down by `test_dependency_rebuilder.py` and
`test_lookup_field_type.py` under `src/backend/tests`.

## 1. The system

Five parts work together:

| part | code | state it changes |
|---|---|---|
| Dependency Constructor | `_construct_dependency` (lines 67-142) | none (returns unsaved rows) |
| Dependency Rebuilder | `rebuild_field_dependencies` (145-200) | creates and deletes rows of one dependant |
| Break propagator | `break_dependencies_for_field` (17-32) | deletes the field's own rows; breaks rows that depend on it or go through it |
| Repair propagator | `update_fields_with_broken_references` (35-64) | points broken rows that name the field back at it |
| Validation | `check_for_circular`, `_get_dependency_field` (203-242) | none (raises or not) |

The following collaborators are not under `src/`, so they are modelled from
`spec.md`:
- `will_cause_circular_dep` (spec 4.2): reachability over the dependency edges and the via edges. `ReachableFrom(E, t)` is the least set of edge targets that holds t's successors and that no edge of E leaves (`Closed`). TLC evaluates it over the subsets of the few targets, and its states and run times are the same as with an iteration of `Successors`. Unlike a recursive definition, it lets the prover reason about reachability without induction.
- `FieldCache.lookup_by_name` (spec 4.1): the live field of a table that has a given name.
- The field handler: it runs the rebuild, the break and the repair at each lifecycle event, inside a transaction that rolls back when the rebuild raises (spec 4.5 and 7).
- `FieldDependency.__str__`: the key used for diffing. Following the test `test_str_of_field_dependency_uniquely_identifies_it`, it is modelled as equality of the whole row.

Four behaviours are hard here:
- A row is resolved or broken, and the via survives some breaks but not others.
- The break runs three bulk updates in a fixed order.
- The rebuild diffs rows through a dict keyed by str, which collapses equal rows.
- The repair checks every candidate against the rows as they were before the bulk update.

## 2. Modules

- **`FieldDependencies.tla`** is the component model. It has two variables:
  - `fields`: each field's state (absent, live or trashed), its name and the descriptors its definition names.
  - `deps`: the row table, indexed by row id `1..MaxRows`. A cell is `NULL` or a row record.

  Rows are kept by id, not as a set. The database keeps two equal rows as two rows, while the code diffs by key, and findings 2 and 5 below depend on that difference.

  Helper operators:
  - `ConstructDependency` has one branch per return statement of `_construct_dependency`.
  - `Key` is the str key of a row as spec 6 gives it: the triple of the str of dependant, dependency and via for a resolved row, and of dependant, via and broken name for a broken one. The constant `Str` is `str()` of ids, `None` and names. The key is kept as a tuple of strings, so that two rows collide exactly when their strings would.
  - `RebuildFieldDependencies` computes the new rows, `NewByKey` (one desired row per key, as `new_deps_by_str` does), `ToCreate`, `ToDelete` (one id per distinct stale key, as `current_deps_by_str` does) and `CreatesCycle`. It then writes the new rows to fresh ids and deletes the stale ones.
  - `BreakDependenciesForField` composes `DeleteOwnDependencies`, `BreakDependants` and `BreakVias`, in the code's order (lines 27, 28, 29-32).
  - `UpdateFieldsWithBrokenReferences` applies the two-clause query `BrokenFixedByName` and the cycle check made against the rows before the update.
  - `CheckForCircularRaises` models `check_for_circular`. This includes the `AttributeError` that `_get_dependency_field` raises on a via that is not a link row field.

  Actions (one per handler operation). Each one is a whole transaction, and a rebuild that would raise disables it (`CanRebuild`):
  - `CreateField`: rebuild, then repair.
  - `RenameField`: rebuild, then repair.
  - `UpdateFieldRefs`: a definition change, which only rebuilds.
  - `RebuildField`: the rebuild the handler runs on a dependant.
  - `TrashField`: the break. Primary fields cannot be trashed.
  - `RestoreField`: rebuild, then repair, provided the name is free.

  A link row field depends through itself on the primary field of the table it links to, as the test at lines 86-111 asserts.
- **`MC_FieldDependencies.tla`** is the instance for TLC. It has two tables:
  - t1 holds primary p1, link row field l1 (which links to t2) and field x1.
  - t2 holds primary p2 and field y2.

  Four names are used, and both primaries start with the same name.
  - Definitions per field: p1 may name x1; x1 may look up nY through l1, or name nY through the plain field p1; y2 may name p1's name.
  - Renames: p1 may be renamed to nY, and y2 to nX. So a broken reference can be repaired by a field of either table.
- **`MC_ViaCycle.tla`** is a second instance with links in both directions, l1: t1 -> t2 and l2: t2 -> t1. The two primaries may look each other up.
- **`DependencyGraph.tla`** is the abstract specification: what the docstrings of the three operations promise about the set of `<<dependant, dependency>>` edges between live fields.
  - `Rebuild(f)` changes only f's out-edges (lines 151-152, "does not affect any dependencies from other fields to this field").
  - `Relink(f)` is a create, rename or restore. It keeps every edge not out of f and adds edges only at f (lines 37-38).
  - `Disconnect(f)` is a trash. It only removes edges (lines 19-20).
  - Every edge joins two live fields.

  `FieldDependencies` instantiates it as `Abstract` with `live <- Live(fields)` and `graph <- DependencyEdges(deps)`. `ImplementsDependencyGraph` is `Abstract!AbsSpec`.
- **`MC_KeyCollision.cfg`** runs the main instance with a name `nN` whose str is that of `None` (`MCNoneStr`), and one more definition for x1, a lookup of nN through l1.
- **`FieldDependencies_proofs.tla`** holds the type-correctness proof.
- **`FieldDependencies_live_proofs.tla`** holds the proof of `LiveEndpoints` and `ViaIsLinkInOwnTable`.
- **`FieldDependencies_refinement_proofs.tla`** holds the proof that the row table implements `DependencyGraph`.
- **`FieldDependencies_table_proofs.tla`** holds the proof of `DirectTargetInOwnTable`.
- **`FieldDependencies_row_proofs.tla`** holds the proof of the action property `RowLifecycle`.
- **`FieldDependencies_key_proofs.tla`** holds the proofs about the str key: under `StrDisjoint`, a rebuild persists every desired row, and a second rebuild changes nothing unless rows are duplicated.
- **`FieldDependencies_acyclic_proofs.tla`** holds the proof of `DependencyGraphAcyclic`, with the reachability lemmas it rests on.
- **`MC_RebuildPersists.cfg`** is the key_collision instance with `Str <- MCKeyStr`, which prints nN as a name of its own.
- **`MC_IdempotentWithoutDuplicates.cfg`** is the main instance with `MaxRows = 4`, checking `IdempotentWithoutDuplicates`. The property evaluates two rebuilds per field and definition in every state. With four ids the ToDeleteOne mutant still breaks the property.

## 3. Runs

| run | cfg | result | what it shows |
|---|---|---|---|
| field_dependencies | `MC_FieldDependencies.cfg` (4 row ids) | pass, 14,070 states, about 15 s | The safety properties listed below hold over every sequence of operations. |
| via_target_in_linked_table | `MC_ViaTargetInLinkedTable.cfg` | violation | Finding 1 |
| rebuild_idempotent | `MC_RebuildIdempotent.cfg` | violation | Finding 2 |
| rebuild_leaves_no_copies | `MC_RebuildLeavesNoCopies.cfg` | violation | Finding 5 |
| check_matches_rebuild | `MC_CheckMatchesRebuild.cfg` (adds two definitions for x1) | violation | Finding 3 |
| via_graph_acyclic | `MC_ViaCycle.cfg` | violation | Finding 4 |
| key_collision | `MC_KeyCollision.cfg` | violation | Finding 6 |
| rebuild_persists | `MC_RebuildPersists.cfg` (4 row ids) | pass, 18,688 states, about 25 s | `RebuildPersistsDesired`: with str keeping names apart from ids and None, every rebuild leaves every desired row in place. The instance is the one in which key_collision loses a row, and with `MCNoneStr` it loses one at 4 row ids too. |
| idempotent_without_duplicates | `MC_IdempotentWithoutDuplicates.cfg` | pass, 14,070 states, about 15 s | `IdempotentWithoutDuplicates`: in every state with no two equal rows, a second rebuild of any field creates and deletes nothing. Finding 2 therefore needs the equal rows the break of findings 2 and 5 makes. |

The properties of the passing run:
- `TypeOK`: every row is resolved or broken, never both.
- `DependencyGraphAcyclic`: the resolved edges are acyclic. The rebuild and the repair each check cycles against the rows as they were before the write.
- `LiveEndpoints`: no row names a field that is not live.
- `DirectTargetInOwnTable`: a resolved row without a via targets a field of its dependant's table.
- `ViaIsLinkInOwnTable` (spec 3): a via is a link row field of the dependant's table.
- `RowLifecycle`: a row is only changed in place by a break or a repair, never rewritten by a rebuild.
- `ImplementsDependencyGraph`: the edge set refines `DependencyGraph` under the mapping above.

Each of these properties has a mutant in `PROJECT.json`: a plausible bug in the mapped code that TLC catches under the same cfg.
- Repair without the cycle check.
- Repair that keeps the broken name.
- A break that keeps vias.
- A name match that ignores the table.
- A construction that takes any via for a link.
- A rebuild that rewrites stale rows in place.
- A rebuild that counts the rows of every dependant as the field's current rows, and so deletes other fields' edges.
- A rebuild that matches new rows with current ones by their target (rebuild_persists).
- A rebuild that deletes only one stale row (idempotent_without_duplicates).

The main cfg gives `Str` an injective value, so no key collides there. With injective str, `RebuildPersistsDesired` (every desired row is present after a rebuild) also holds over the main instance; only the key_collision cfg makes it fail.

**Bounds.**
- Row ids bound the table: 4 in the passing runs, 6 in most violation runs. In the code the row count has no bound, so the bound is a real cap: an operation whose `bulk_create` would need more ids than are free is not taken (`RowsAvailable`).
  - Four ids keep these runs fast, and every mutant of the passing runs is caught with them. The violation runs keep 6 ids, so that their traces are not cut short by `RowsAvailable`.
- Three fields in t1 and two in t2 are the fewest for which each of the following occurs:
  - a via to another table;
  - a plain field used as a via;
  - a same-named field in each table;
  - a trashed link with a lookup through it;
  - a restore.
- Model values are not declared symmetric, because the fields play different roles.

**Fairness.** There is none, and no liveness property is checked. Every step is a user operation, and nothing in the code promises that a later operation happens.

## 4. Findings

The check runs TLC with two workers, which may report a longer trace than the shortest one given here, with steps that play no part in the finding.

1. **Wrong-table repair** (`update_fields_with_broken_references`, line 46). The first clause matches a broken via row by its dependant's table. So a field of t1 renamed to the missing target's name becomes the target of x1's lookup through l1, which links to t2.
2. **Duplicate broken rows and a non-idempotent rebuild** (lines 28, 30 and 176).
   - Trashing l1 turns x1's two rows into equal broken rows.
   - The rebuild's `current_deps_by_str` keeps one of them, so each rebuild deletes only one duplicate.
   - This goes against spec 3 (no duplicates), spec 4.4 and `_assert_rebuilding_changes_nothing`.
3. **Validation disagrees with the rebuild** (lines 219 and 237). `check_for_circular` crashes on a via that is a plain field, which the constructor accepts. It also rejects a same-named target in another table as a self reference.
4. **Companion via edge closes a cycle** (lines 117-124 and 191). Neither a broken via row nor its repair checks the implicit dependant -> via edge, so the graph of spec 3 and 8 can become cyclic.

5. **A rebuild keeps a copy of a desired row** (lines 176 and 199). `RebuildLeavesNoCopies` says that after a rebuild no two rows of the field are equal. TLC's shortest trace (one worker) has five states:
   - create l1, then y2;
   - create x1, looking up y2's name through l1, which gives a direct row x1 -> l1 and a via row x1 -> y2 through l1;
   - trash l1. The break (lines 28 and 30) turns both rows into the same broken row naming l1.
   - A rebuild of x1 with its unchanged definition desires that broken row. Its key is popped from `current_deps_by_str`, which holds one of the two copies. The other copy is in neither dict, so the delete at line 199 never reaches it.

   Spec 4.4 says the rebuild persists exactly the field's outbound edges, and spec 3 allows no two equal broken edges. Finding 2 is the other half: when the copies' key is not desired, the rebuild deletes one id per key.

6. **Colliding str keys** (lines 176-177). A resolved row a -> b without via has key `a:b:None`. A broken row of a through b whose missing target is named "None" has the same key. TLC's shortest trace (one worker) has three states:
   - create x1 looking up nY through the absent l1, which gives a broken row naming nL;
   - create l1, whose repair makes that row the direct row x1 -> l1;
   - in that state, x1's definition looking up nN (whose str is that of None) through l1 wants the broken row x1 through l1 naming nN. That row has the key of the existing row, so the rebuild keeps the existing row and never creates the desired one.

   Spec 8 says rows differing in any of the four fields get distinct keys. The format of spec 6 does not ensure it. The exact format is in `models.py`, which is not in this repository, so the model takes it from spec 6.

A spec gap (scenario 3 says via = null for a link row field's own row, but the test and the code set via = the link field) is recorded in `PROJECT.json`. The model follows the code.

## 5. Proofs

`tlapm` checks all seven proof modules completely. The proofs rest only on `ConstantsAssumption`:
- NULL is distinct from every field, table and name, and is not a row (`None` is not a `FieldDependency`).
- The constants have their types.
- A primary field is in its own table and is not a link row field.
- The initial fields have unique names per table.
- `Names` is finite, and `Str` is injective on ids and `None`, and on names. The refinement proof needs finiteness: a rebuild must find fresh ids for its new rows.

- **`TypeCorrect`: `Spec => []TypeOK`.** `TypeOK` is inductive as it stands.
  - Per-operator lemmas show that construction, rebuild, break and repair map well-formed tables to well-formed tables.
  - `ConstructDependencyType` shows that every constructed row falls into one of four shapes, each of which is well formed.
  - The step is split into one case per action, with the action's witnesses picked.
- **`LiveEndpointsCorrect`: `Spec => [](LiveEndpoints /\ ViaIsLinkInOwnTable)`.**
  - `LiveEndpoints` alone is not inductive: trashing a plain field clears it from dependencies but not from vias (line 29). It holds only because no via is a plain field.
  - The inductive invariant `LiveInv` is `TypeOK` together with `GoodRows`, which says every row is live and has a proper via. `GoodRowsIff` shows `GoodRows` equals the two properties.
  - Construction and rebuild of a live field add only good rows, and repair keeps the dependant and the via.
  - `BreakGood` follows the three updates in order: after them, no row mentions the trashed field.
  - Every other action leaves the set of live fields the same or larger (`GoodRowsMono`).

- **`DirectTargetCorrect`: `Spec => []DirectTargetInOwnTable`.** The invariant is only about the rows, so `TypeOK` together with it is inductive.
  - Construction looks a bare name up in the field's own table, and a via target is only set with a via.
  - Repair gives a row without a via a dependency only through the first clause, which requires the dependant to be in f's table.
  - Break leaves every resolved row as it was (`BreakFrame`).

  `ViaIsLinkCorrect` restates the via half of `LiveEndpointsCorrect` on its own.
- **`Refinement`: `Spec => ImplementsDependencyGraph`.**
  - Initial states map to `AbsInit`, since no rows exist.
  - `StepRefines` maps each action to an abstract step, using `TypeOK` and `LiveEndpoints` in the next state.
  - A rebuild leaves the rows of every other dependant untouched (`RebuildFrame`). It therefore changes only f's out-edges.
  - The repair only turns broken rows into rows with dependency f (`RepairFrame`). A break only deletes or clears rows (`BreakFrame`).
  - `EdgesBetweenLive` follows from `LiveEndpoints`.
  - A rebuild must write its new rows to free ids. That needs the desired rows to be finite: `NewDependenciesFinite` bounds them by the finitely many descriptors, and `AllocFree` then shows the chosen injection into free ids exists.

- **`RowLifecycleCorrect`: `Spec => RowLifecycle`.** It is an action property, proved from `TypeOK` and a lemma per operation about how a row present before and after may differ.
  - A rebuild keeps every row it neither deletes nor creates (`RebuildKeeps`). It creates only at free ids.
  - The repair only fills the dependency of a broken row and keeps its dependant and via (`RepairRepairs`). It never makes a row appear.
  - The break's three updates each only delete or clear (`DeleteBreaks`, `DependantsBreaks`, `ViasBreaks`), and `BreaksCompose` chains them.
  - A rebuild followed by the repair touches only rows the rebuild kept.
- **`RebuildPersistsCorrect`: `StrDisjoint` implies `Spec => []RebuildPersistsDesired`.**
  - `StrDisjoint` says no name's str equals the str of a field id or of None. Under it, `KeyInjective` shows that two well-formed rows with equal keys are equal. That is the claim of spec 8 that the code relies on.
  - `RebuildPersists`: take a desired row. If its key is current, the current row with that key is the row itself, and no row with a desired key is deleted. Otherwise it is the row `new_deps_by_str` keeps for its key, and it is written at a free id.
  - The condition is a hypothesis, not an assumption on the constants. The key_collision run shows what happens without it. The instance of rebuild_persists satisfies it.
- **`RebuildIdempotentIfNoDuplicates`: `StrDisjoint` implies `Spec => []IdempotentWithoutDuplicates`.**
  - Without equal rows, the current rows of a field have distinct keys, so every stale key's single row is deleted (`RebuildNoStale`).
  - After the rebuild, every desired row is present (`RebuildPersists`) and every key is desired. A second rebuild therefore finds nothing to create or delete (`RebuildTwice`).

- **`AcyclicCorrect`: `Spec => []DependencyGraphAcyclic`** (`FieldDependencies_acyclic_proofs`).
  - The inductive invariant `AcyclicInv` is `TypeOK` together with `Acyclic(DependencyEdges(deps))`, which says no node reaches itself, field or not. Nodes that are not fields reach nothing, so this is `TypeOK /\ DependencyGraphAcyclic`, which the field_dependencies run checks.
  - Reachability lemmas follow from the least-set definition alone: successors are reachable (`ReachSucc`), no edge leaves the reachable set (`ReachClosed`), every closed set that holds the successors holds it (`ReachLeast`), and it is monotone in the edges (`ReachMono`) and transitive (`ReachTrans`).
  - The difficulty is that each operation writes several rows, and each row is checked alone against the graph before the write. That is unsafe for arbitrary batches. It is safe for the two batch shapes the code produces:
    - The rebuild of f adds only edges out of f (`RebuildAddsOut`), to targets that are not f and do not reach f. `AddOutEdgesAcyclic` shows such a batch closes no cycle: a path back to f would leave a target along old edges, or along a new edge, which again leaves f.
    - The repair adds only edges into f (`RepairAddsIn`), from dependants that f does not reach over the graph after the rebuild. `AddInEdgesAcyclic` is the mirror argument.
  - The closed sets used are the old reachable set of g, plus, when a new edge can be entered from g, what the new edges' targets reach.
  - The code checks against the graph with via edges, which includes the dependency edges (`EdgesInGraph`). By `ReachMono`, that check implies the check over dependency edges alone.
  - The break only removes edges (`BreakEdges`), and a subgraph of an acyclic graph is acyclic (`AcyclicMono`).

The six violations stay with TLC only.
Liveness and ENABLED are out of the prover's reach, and the project claims none.

## 6. Not modelled

- Changing a field's type (FieldHandler). This would let a via become a plain field, which the break at line 29 would then never clear.
- The memoisation of `FieldCache`.
- Formula parsing: descriptors are inputs.
- Import/export and row value computation.
- The characters of the str key. Only the collisions the format of spec 6 allows are modelled.
- Concurrent transactions: spec 5 assumes one writer per transaction, and each action is atomic.

## 7. Plan for later work

- Model retyping a link row field.
- Model the `FieldCache` kept across a rename in one handler call.
