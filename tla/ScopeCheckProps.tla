-------------------------- MODULE ScopeCheckProps --------------------------
(***************************************************************************)
(* What the declaration checker of ScopeCheck.tla must guarantee.          *)
(***************************************************************************)
EXTENDS ScopeCheck

\* What each function expects of the node it is called with.
Expected ==
  [scope_check_program |-> {"program_ast"},
   scope_check_constDecls |-> {"const_decl_ast"},
   scope_check_constDecl |-> {"const_decl_ast"},
   scope_check_varDecls |-> {"var_decl_ast"},
   scope_check_varDecl |-> {"var_decl_ast"},
   scope_check_stmt |-> StmtTags, stmts |-> StmtTags,
   scope_check_assignStmt |-> {"assign_ast"},
   scope_check_beginStmt |-> {"begin_ast"},
   scope_check_ifStmt |-> {"if_ast"}, scope_check_while |-> {"while_ast"},
   scope_check_readStmt |-> {"read_ast"},
   scope_check_writeStmt |-> {"write_ast"},
   scope_check_cond |-> CondTags, scope_check_expr |-> ExprTags,
   scope_check_ident |-> {"assign_ast", "read_ast", "ident_ast"},
   scope_check_bin_expr |-> {"bin_cond_ast", "bin_expr_ast"}]

CallNames == DOMAIN Expected

\* The calls that loop over a list.
ListCalls == {"scope_check_constDecls", "scope_check_varDecls", "stmts"}

Calls ==
  {c \in [do : CallNames, p : 0 .. Len(heap)] :
     \/ c.p = NULL /\ c.do \in ListCalls
     \/ c.p # NULL /\ heap[c.p].tag \in Expected[c.do]}

VerdictKinds == {"not_started", "checking", "accepted", "already declared",
                 "not declared", "bail", "crash"}

\* The type invariant: every function is called with a node that it expects.
TypeOK ==
  /\ heap \in Seq(Nodes)
  /\ root \in 1 .. Len(heap)
  /\ symtab.size \in Nat
  /\ DOMAIN symtab = {"size", "entries"}
  /\ \A i \in DOMAIN symtab.entries : i \in Nat /\ symtab.entries[i] \in Slots
  /\ work \in Seq(Calls)
  /\ verdict \in [kind : VerdictKinds, loc : Nat, name : Names \cup {NoText}]

-----------------------------------------------------------------------------
(* The table.                                                              *)

Overflowed == symtab.size > MaxScopeSize

\* The table is a list of distinct names whose offsets are their indices,
\* and every slot in use has been written: nothing reads the slots that
\* scope_create leaves uninitialized.
TableIsAList ==
  ~Overflowed =>
    \A i \in 0 .. symtab.size - 1 :
      /\ symtab.entries[i].id \in Names
      /\ symtab.entries[i].offset = i
      /\ \A j \in 0 .. i - 1 : symtab.entries[j].id # symtab.entries[i].id

\* The scope that the table stands for.
DeclaredNames == {symtab.entries[i].id : i \in 0 .. symtab.size - 1}

ScopeOf ==
  [name \in DeclaredNames |->
     LET slot == scope_lookup(name)
     IN  [loc |-> slot.loc, kind |-> slot.kind, offset |-> slot.offset]]

Abstract == INSTANCE Scope WITH
  scope <- ScopeOf, void <- Overflowed, Capacity <- MaxScopeSize

\* The table is the scope that scope_symtab.h promises: a name is declared
\* once, keeps its attributes, and its offset is its number.
RefinesScope == Abstract!Spec

-----------------------------------------------------------------------------
(* The verdict.                                                            *)

\* The nodes of the list that starts at lst.
Chain(lst) ==
  LET from[p \in 0 .. Len(heap)] ==
        IF p = NULL THEN <<>> ELSE <<p>> \o from[heap[p].next]
  IN  from[lst]

\* The declarations of the program, in order.
Decls == Chain(heap[root].kids[1]) \o Chain(heap[root].kids[2])

\* The nodes that use a name in node p, in the order of the text.  Those of the
\* nodes that p points to are given: uses[q].one for the node q alone, and
\* uses[q].all for the list that starts at q.
UsesAt(p, uses) ==
  LET n == heap[p]
      kid(k) == uses[n.kids[k]].one
  IN  CASE n.tag = "begin_ast" -> uses[n.kids[1]].all
        [] n.tag = "if_ast" -> kid(1) \o kid(2) \o kid(3)
        [] n.tag \in {"while_ast", "bin_cond_ast", "bin_expr_ast"} -> kid(1) \o kid(2)
        [] n.tag = "assign_ast" -> <<p>> \o kid(1)
        [] n.tag \in {"odd_cond_ast", "write_ast"} -> kid(1)
        [] n.tag \in {"read_ast", "ident_ast"} -> <<p>>
        [] OTHER -> <<>>

\* The nodes of the program that use a name, in the order of the text.
Uses ==
  LET uses[p \in 0 .. Len(heap)] ==
        IF p = NULL THEN [one |-> <<>>, all |-> <<>>]
        ELSE [one |-> UsesAt(p, uses),
              all |-> UsesAt(p, uses) \o uses[heap[p].next].all]
  IN  uses[heap[root].kids[3]].one

Name(p) == heap[p].name
Second(k) == \E j \in 1 .. k - 1 : Name(Decls[j]) = Name(Decls[k])
Undeclared(k) == \A j \in DOMAIN Decls : Name(Decls[j]) # Name(Uses[k])

\* The error is the one at the node p.
ErrorAt(p) == verdict.loc = heap[p].loc /\ verdict.name = Name(p)

\* As long as the table holds all names, the check accepts exactly the programs
\* without a second declaration and an undeclared use, and otherwise reports
\* the first error of the text: second declarations first, and then uses in
\* the order they are written.  A table that has overflowed may lose a name.
VerdictIsFirstError ==
  LET seconds == {k \in DOMAIN Decls : Second(k)}
      undeclared == {k \in DOMAIN Uses : Undeclared(k)}
      First(ks, nodes) ==
        \E k \in ks : ErrorAt(nodes[k]) /\ \A j \in ks : k <= j
  IN  ~Overflowed =>
        /\ verdict.kind = "accepted" => seconds = {} /\ undeclared = {}
        /\ verdict.kind = "already declared" => First(seconds, Decls)
        /\ verdict.kind = "not declared" => seconds = {} /\ First(undeclared, Uses)

\* The check bails out only where memory may run out, in scope_initialize and
\* when a name is added: no node of a program the parser builds reaches one of
\* the "unexpected type_tag" calls of bail_with_error.
BailsOnlyWithoutSpace ==
  verdict.kind = "bail" =>
    \/ symtab = NoTable
    \/ work # <<>> /\ Head(work).do \in {"scope_check_constDecl", "scope_check_varDecl"}

\* While a program is checked, the table holds its first declarations, each
\* with the attributes of its own node.
TableHoldsDeclarations ==
  ~Overflowed =>
    \A i \in 0 .. symtab.size - 1 :
      LET d == heap[Decls[i + 1]]
          kind == IF d.tag = "const_decl_ast" THEN "constant" ELSE "variable"
      IN  symtab.entries[i] = create_id_attrs(d.name, d.loc, kind, i)

-----------------------------------------------------------------------------
\* The check of every program ends.
Terminates == <>Ended

\* scope_add is never called on a full scope (its Requires comment,
\* scope_symtab.c:63).
NeverAddsToFullScope == [][symtab'.size > symtab.size => ~scope_full]_vars

\* An accepted program neither reads nor writes a constant (README.md:8).
ConstantsAreNotWritten ==
  verdict.kind = "accepted" =>
    \A k \in DOMAIN Uses :
      heap[Uses[k]].tag \in {"assign_ast", "read_ast"} =>
        scope_lookup(Name(Uses[k])).kind # "constant"
=============================================================================
