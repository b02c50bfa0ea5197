------------------------------ MODULE DocsPrune ------------------------------
(***************************************************************************)
(* What docs_auth.js of api_handler/docs does to the OpenAPI document      *)
(* before it is shown: the operations that are not allowed are taken out,  *)
(* and then the components that nothing refers to any more                 *)
(* (pruneUnusedComponents).                                                *)
(*                                                                         *)
(* Operations and components refer to components.  A reference to a part   *)
(* of a component is one to the component; the names of a security         *)
(* requirement are references too, except that a name nothing answers to   *)
(* is passed over.  Whatever else cannot be followed is Broken.  The head  *)
(* of the document counts like an operation that is always allowed.        *)
(***************************************************************************)
EXTENDS FiniteSets

CONSTANTS Documented, Component,
          Broken,    \* a reference that cannot be followed
          Absent,    \* a name that nothing answers to
          OperationRefs, ComponentRefs  \* what each of them may refer to

ASSUME DocumentAssumption ==
    OperationRefs \cup ComponentRefs \subseteq SUBSET (Component \cup {Broken, Absent})

VARIABLES operationRefs, componentRefs, \* the document
          allowed,    \* the operations the server allows
          showAll,    \* or all of them
          pc,
          operations, \* what is left of the document
          components,
          pending, visited, retained, unresolved

script == <<operationRefs, componentRefs, allowed, showAll, pc, operations,
            components, pending, visited, retained, unresolved>>
served == <<operationRefs, componentRefs, allowed, showAll>>

Value == Documented \cup Component
RefsOf(value) == IF value \in Documented THEN operationRefs[value]
                 ELSE componentRefs[value]

ScriptTypeOK ==
    /\ operationRefs \in [Documented -> OperationRefs]
    /\ componentRefs \in [Component -> ComponentRefs]
    /\ allowed \subseteq Documented /\ showAll \in BOOLEAN
    /\ pc \in {"loaded", "follow", "ready"}
    /\ operations \subseteq Documented
    /\ components \subseteq Component
    /\ retained \subseteq Component
    /\ pending \subseteq operations \cup retained
    /\ visited \subseteq operations \cup retained
    /\ unresolved \in BOOLEAN

ScriptInit ==
    /\ operationRefs \in [Documented -> OperationRefs]
    /\ componentRefs \in [Component -> ComponentRefs]
    /\ allowed \in SUBSET Documented
    /\ showAll \in BOOLEAN
    /\ pc = "loaded"
    /\ operations = Documented
    /\ components = Component
    /\ pending = {}
    /\ visited = {}
    /\ retained = {}
    /\ unresolved = FALSE

(* The document as it came is shown to those who may see all of it. *)
FilterOperations ==
    /\ pc = "loaded"
    /\ IF showAll THEN pc' = "ready" /\ UNCHANGED <<operations, pending>>
       ELSE /\ pc' = "follow"
            /\ operations' = operations \cap allowed
            /\ pending' = operations'
    /\ UNCHANGED <<served, components, visited, retained, unresolved>>

Retained(fresh) == retained \cup fresh

(* Mutant: a component is retained, but not looked into. *)
PendingUnread(value, fresh) == pending \ {value}

(* Mutant: everything that is referred to is looked into again. *)
PendingAgain(value, fresh) == (pending \ {value}) \cup (RefsOf(value) \cap Component)

(* What is retained for the first time is looked into later. *)
Pending(value, fresh) == (pending \cup fresh) \ (visited \cup {value})

(* The order in which the values are looked into does not matter. *)
Follow(value) ==
    LET fresh == (RefsOf(value) \cap Component) \ retained
    IN  /\ pc = "follow"
        /\ value \in pending
        /\ visited' = visited \cup {value}
        /\ retained' = Retained(fresh)
        /\ pending' = Pending(value, fresh)
        /\ unresolved' = (unresolved \/ Broken \in RefsOf(value))
        /\ UNCHANGED <<served, pc, operations, components>>

(* Mutant: a reference that cannot be followed changes nothing. *)
KeptAnyway(keep, doubt) == keep

(* Nothing is taken out of a document that is not understood. *)
Kept(keep, doubt) == IF doubt THEN components ELSE keep

RemoveUnused ==
    /\ pc = "follow"
    /\ pending = {}
    /\ components' = Kept(components \cap retained, unresolved)
    /\ pc' = "ready"
    /\ UNCHANGED <<served, operations, pending, visited, retained, unresolved>>

ScriptNext == FilterOperations \/ (\E value \in Value : Follow(value)) \/ RemoveUnused

(* The script runs to its end. *)
ScriptSpec == ScriptInit /\ [][ScriptNext]_script /\ WF_script(ScriptNext)

-----------------------------------------------------------------------------
(* What the operations that are shown refer to, directly or not: the least *)
(* set of components that holds what they and its members refer to.        *)
Closed(set) == \A v \in operations \cup set : RefsOf(v) \cap Component \subseteq set
Reached == {w \in Component : \A set \in SUBSET Component : Closed(set) => w \in set}
Whole == \A v \in operations \cup Reached : Broken \notin RefsOf(v)

(* The whole document is shown to those who may see all of it.  Otherwise  *)
(* what only hidden operations refer to is taken out with them and nothing *)
(* else is, so that no reference is left dangling, unless something that   *)
(* is shown cannot be followed to its end: then nothing is taken out.      *)
PrunedExactly ==
    pc = "ready" =>
       components = IF ~ showAll /\ Whole THEN Reached ELSE Component

(* However the components refer to each other, the page gets its document. *)
PageIsShown == <>(pc = "ready")
=============================================================================
