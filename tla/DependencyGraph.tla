--------------------------- MODULE DependencyGraph ---------------------------
(***************************************************************************)
(* What the three operations of depedency_rebuilder.py promise about the   *)
(* graph of field dependencies, seen as a set of <<dependant, dependency>> *)
(* edges between live fields, as their docstrings state it:               *)
(*   rebuild_field_dependencies "does not affect any dependencies from     *)
(*     other fields to this field": only the field's own out-edges change; *)
(*   break_dependencies_for_field "ensures no fields depend on it any      *)
(*     more": edges are only removed, and none is left at the field;       *)
(*   update_fields_with_broken_references finds the fields "which should   *)
(*     now depend on field": it only adds edges into the field.            *)
(* The row table, ids, vias and broken names are not visible here.        *)
(***************************************************************************)
CONSTANTS Fields, Initial

VARIABLES live, graph
absVars == <<live, graph>>

Out(G, f) == {e \in G : e[1] = f}

(* The edges the field does not own are the same before and after.        *)
OthersUnchanged(f) == graph' \ Out(graph', f) = graph \ Out(graph, f)

(* Every edge joins two live fields.                                       *)
BetweenLive == graph' \subseteq live' \X live'

AbsInit == live = Initial /\ graph = {}

(* A definition change or a rebuild of a dependant: the field's           *)
(* out-edges are reset, every other edge is left alone.                   *)
Rebuild(f) ==
    /\ f \in live
    /\ live' = live
    /\ OthersUnchanged(f)
    /\ BetweenLive

(* A create, rename or restore: the rebuild of the field followed by the  *)
(* repair, which may add edges into the field and removes none.           *)
Relink(f) ==
    /\ f \in live'
    /\ live' \in {live, live \cup {f}}
    /\ graph \ Out(graph, f) \subseteq graph'
    /\ \A e \in graph' \ graph : e[1] = f \/ e[2] = f
    /\ BetweenLive

(* A trash: edges are only removed, and none touches the field after.     *)
Disconnect(f) ==
    /\ f \in live
    /\ live' = live \ {f}
    /\ graph' \subseteq graph
    /\ BetweenLive

AbsNext == \E f \in Fields : Rebuild(f) \/ Relink(f) \/ Disconnect(f)

AbsSpec == AbsInit /\ [][AbsNext]_absVars

=============================================================================
