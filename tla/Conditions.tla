----------------------------- MODULE Conditions -----------------------------
(***************************************************************************)
(* The types of exceptional conditions (src/src/ccevents-conditions.c) and *)
(* the initialisation of the library (src/src/ccevents-core.c), which puts *)
(* them below the root type of the CCExceptions library.                   *)
(*                                                                         *)
(* A type is a descriptor with a pointer to its parent.  Condition objects *)
(* have no fields but the pointer to their descriptor and are allocated    *)
(* statically: an object is identified with its descriptor here.           *)
(***************************************************************************)
EXTENDS TLC

CONSTANT NULL

(***************************************************************************)
(* The parents as they are initialised by the compiler.                    *)
(***************************************************************************)

descriptor_base == "base" :> NULL

timeval_descriptors ==
  "timeval" :> "base" @@
  "timeval_invalid" :> "timeval" @@ "timeval_overflow" :> "timeval"

timeout_descriptors ==
  "timeout" :> "base" @@
  "timeout_invalid" :> "timeout" @@ "timeout_overflow" :> "timeout"

static_parents == descriptor_base @@ timeval_descriptors @@ timeout_descriptors

Descriptors == DOMAIN static_parents
Types == Descriptors \cup {"root"}

VARIABLES parent,      \* descriptor |-> its parent
          initialised, \* the static variable of ccevents_init
          ready        \* ccevents_init returned

vars == <<parent, initialised, ready>>

\* A type and those above it.
lineage[D \in Types \cup {NULL}] ==
  IF D \in Descriptors THEN {D} \cup lineage[parent[D]] ELSE {D}

\* In CCExceptions: a walk from the descriptor of C along the parents.
cce_is_condition(C, D) == D \in lineage[C]

\* The predicates ccevents_condition_is_base, _is_timeval and so on.
ccevents_condition_is(C, D) == cce_is_condition(C, D)

Init == parent = static_parents /\ initialised = FALSE /\ ready = FALSE

ccevents_conditions_module_initialisation ==
  parent' = [parent EXCEPT !["base"] = "root"]

\* Called by the loader, being a constructor, and again by programs.
ccevents_init ==
  /\ \/ /\ initialised
        /\ ccevents_conditions_module_initialisation
        /\ initialised' = TRUE
     \/ ~initialised /\ UNCHANGED <<parent, initialised>>
  /\ ready' = TRUE

Spec == Init /\ [][ccevents_init]_vars

\* What the documentation says of the types: once the library is initialised
\* every condition it raises is one of the root type, the parent of the base type
\* (ccevents.texi:305).  The comment at ccevents-conditions.c:39 expects the
\* initialisation to see to it.
ConditionsDescendFromRoot ==
  ready => \A C \in Descriptors : ccevents_condition_is(C, "root")
=============================================================================
