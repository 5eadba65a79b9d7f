------------------------------- MODULE Scope -------------------------------
(***************************************************************************)
(* What scope_symtab.h promises of the symbol table: a scope is a finite   *)
(* map from names to attributes.  A name is declared once and keeps its    *)
(* attributes; its offset is the number of names declared before it.       *)
(*                                                                         *)
(* The promise holds as long as no name is added to a full scope: whoever  *)
(* does that (Misuse) voids it, and afterwards anything may happen.        *)
(***************************************************************************)
EXTENDS Integers, FiniteSets

CONSTANTS
  Names,         \* the identifiers
  Capacity       \* MAX_SCOPE_SIZE

VARIABLES
  scope,         \* the attributes of the declared names
  void           \* a name has been added to a full scope

vars == <<scope, void>>

Kinds == {"constant", "variable"}
Attributes == [loc : Nat, kind : Kinds, offset : Nat]

Init == /\ DOMAIN scope = {}
        /\ void = FALSE

Declare ==
  /\ ~void
  /\ Cardinality(DOMAIN scope) < Capacity
  /\ \E name \in Names \ DOMAIN scope :
       /\ DOMAIN scope' = DOMAIN scope \cup {name}
       /\ \A n \in DOMAIN scope : scope'[n] = scope[n]
       /\ scope'[name] \in Attributes
       /\ scope'[name].offset = Cardinality(DOMAIN scope)
  /\ UNCHANGED void

Misuse == /\ void \/ Cardinality(DOMAIN scope) >= Capacity
          /\ void' = TRUE

Next == Declare \/ Misuse

Spec == Init /\ [][Next]_vars
=============================================================================
