----------------------------- MODULE ScopeCheck -----------------------------
(***************************************************************************)
(* The declaration checker of scope_check.c: a walk over the tree that     *)
(* enters the declarations into the symbol table and looks up every use.   *)
(*                                                                         *)
(* work is the rest of the walk: the calls the active functions have yet   *)
(* to perform, in order.  Executing a call replaces it by those its body   *)
(* makes.                                                                  *)
(***************************************************************************)
EXTENDS AST, Symtab

CONSTANT Programs  \* the trees to check: records [heap, root]

ASSUME ProgramsAssumption ==
  \A prog \in Programs :
    /\ prog.heap \in Seq(Nodes)
    /\ WellFormed(prog.heap)
    /\ prog.root \in 1 .. Len(prog.heap)
    /\ prog.heap[prog.root].tag = "program_ast"
    /\ \A p \in 1 .. Len(prog.heap) :
         /\ prog.heap[p].name \in Names \cup {NoText}
         /\ prog.heap[p].tag \in NamedTags => prog.heap[p].name \in Names

VARIABLES
  heap,           \* the nodes
  root,           \* the program
  work,           \* the calls to be performed
  verdict         \* how far the check is, or how it ended

vars == <<heap, root, symtab, work, verdict>>

Verdict(kind, floc, name) == [kind |-> kind, loc |-> floc, name |-> name]
NotStarted == Verdict("not_started", 0, NoText)
Checking == Verdict("checking", 0, NoText)

Ended == verdict.kind \notin {"not_started", "checking"}

-----------------------------------------------------------------------------
Call(f, p) == [do |-> f, p |-> p]

At(f) == /\ verdict = Checking
         /\ work # <<>>
         /\ Head(work).do = f

\* The argument of the call, and the node it points to.
Arg == Head(work).p
Node == heap[Arg]

\* Replace the call by body.
Do(body) == /\ work' = body \o Tail(work)
            /\ UNCHANGED <<heap, root, symtab, verdict>>

\* Report an error at a location and exit.
general_error(kind, floc, name) ==
  /\ verdict' = Verdict(kind, floc, name)
  /\ UNCHANGED <<heap, root, symtab, work>>

bail_with_error == general_error("bail", 0, NoText)
Crash == general_error("crash", 0, NoText)

-----------------------------------------------------------------------------
\* scope_initialize: there may be no space, and the loop of scope_create
\* writes below the array if its variable happens to start negative.
ScopeInitialize ==
  /\ verdict = NotStarted
  /\ \/ /\ symtab' \in CreatedTables
        /\ verdict' = Checking
        /\ UNCHANGED <<heap, root, work>>
     \/ bail_with_error
     \/ Crash

\* strcmp on an entry that is not an association may crash.
LookupCrashes == Damaged /\ Crash

\* scope_insert and scope_add, with the two allocations that may fail.  A
\* write past the end of the table may crash at once.
scope_insert(assoc) ==
  \/ /\ scope_add(assoc)
     /\ work' = Tail(work)
     /\ UNCHANGED <<heap, root, verdict>>
  \/ /\ scope_full
     /\ scope_add(assoc)
     /\ verdict' = Verdict("crash", 0, NoText)
     /\ UNCHANGED <<heap, root, work>>
  \/ bail_with_error

\* A second declaration of a name is reported at its own location.
add_ident_to_scope(name, kind, floc) ==
  \/ LookupCrashes
  \/ IF scope_defined(name)
     THEN general_error("already declared", floc, name)
     ELSE scope_insert(create_id_attrs(name, floc, kind, scope_size))

scope_check_ident(floc, name) ==
  \/ LookupCrashes
  \/ IF scope_defined(name) THEN Do(<<>>)
     ELSE general_error("not declared", floc, name)

-----------------------------------------------------------------------------
ScopeCheckProgram ==
  /\ At("scope_check_program")
  /\ Do(<<Call("scope_check_constDecls", Node.kids[1]),
          Call("scope_check_varDecls", Node.kids[2]),
          Call("scope_check_stmt", Node.kids[3])>>)

\* Mutant: the loop does not move on to the rest of the list.
DoListStuck(check) ==
  IF ast_list_is_empty(Arg) THEN Do(<<>>)
  ELSE Do(<<Call(check, Arg), Call(Head(work).do, Arg)>>)

\* The loop over a list: check its first element, then the rest of it.
DoList(check) ==
  IF ast_list_is_empty(Arg) THEN Do(<<>>)
  ELSE Do(<<Call(check, Arg), Call(Head(work).do, ast_list_rest(heap, Arg))>>)

ScopeCheckConstDecls ==
  At("scope_check_constDecls") /\ DoList("scope_check_constDecl")

ScopeCheckConstDecl ==
  /\ At("scope_check_constDecl")
  /\ add_ident_to_scope(Node.name, "constant", Node.loc)

ScopeCheckVarDecls ==
  At("scope_check_varDecls") /\ DoList("scope_check_varDecl")

\* Mutant: a variable is entered as a constant.
ScopeCheckVarAsConst ==
  /\ At("scope_check_varDecl")
  /\ add_ident_to_scope(Node.name, "constant", Node.loc)

ScopeCheckVarDecl ==
  /\ At("scope_check_varDecl")
  /\ add_ident_to_scope(Node.name, "variable", Node.loc)

\* The function that scope_check_stmt calls for each kind of statement.
StmtChecker ==
  [assign_ast |-> "scope_check_assignStmt", begin_ast |-> "scope_check_beginStmt",
   if_ast |-> "scope_check_ifStmt", read_ast |-> "scope_check_readStmt",
   write_ast |-> "scope_check_writeStmt", while_ast |-> "scope_check_while"]

ScopeCheckStmt ==
  /\ At("scope_check_stmt")
  /\ IF Node.tag = "skip_ast" THEN Do(<<>>)
     ELSE IF Node.tag \in DOMAIN StmtChecker
     THEN Do(<<Call(StmtChecker[Node.tag], Arg)>>)
     ELSE bail_with_error

\* Mutant: the name that is assigned to is not looked up.
ScopeCheckAssignValue ==
  /\ At("scope_check_assignStmt")
  /\ Do(<<Call("scope_check_expr", Node.kids[1])>>)

\* The name is looked up before the expression; the expression is checked
\* only if that succeeds.
ScopeCheckAssignStmt ==
  /\ At("scope_check_assignStmt")
  /\ Do(<<Call("scope_check_ident", Arg), Call("scope_check_expr", Node.kids[1])>>)

ScopeCheckBeginStmt ==
  /\ At("scope_check_beginStmt")
  /\ Do(<<Call("stmts", Node.kids[1])>>)

ScopeCheckStmts == At("stmts") /\ DoList("scope_check_stmt")

ScopeCheckWhile ==
  /\ At("scope_check_while")
  /\ Do(<<Call("scope_check_cond", Node.kids[1]),
          Call("scope_check_stmt", Node.kids[2])>>)

\* Mutant: the else part is not checked.
ScopeCheckIfThen ==
  /\ At("scope_check_ifStmt")
  /\ Do(<<Call("scope_check_cond", Node.kids[1]),
          Call("scope_check_stmt", Node.kids[2])>>)

ScopeCheckIfStmt ==
  /\ At("scope_check_ifStmt")
  /\ Do(<<Call("scope_check_cond", Node.kids[1]),
          Call("scope_check_stmt", Node.kids[2]),
          Call("scope_check_stmt", Node.kids[3])>>)

ScopeCheckCond ==
  /\ At("scope_check_cond")
  /\ CASE Node.tag = "odd_cond_ast" -> Do(<<Call("scope_check_expr", Node.kids[1])>>)
       [] Node.tag = "bin_cond_ast" -> Do(<<Call("scope_check_bin_expr", Arg)>>)
       [] OTHER -> bail_with_error

ScopeCheckReadStmt ==
  /\ At("scope_check_readStmt")
  /\ Do(<<Call("scope_check_ident", Arg)>>)

ScopeCheckWriteStmt ==
  /\ At("scope_check_writeStmt")
  /\ Do(<<Call("scope_check_expr", Node.kids[1])>>)

\* Mutant: numbers are forgotten.
ScopeCheckExprNoNumbers ==
  /\ At("scope_check_expr")
  /\ CASE Node.tag = "ident_ast" -> Do(<<Call("scope_check_ident", Arg)>>)
       [] Node.tag = "bin_expr_ast" -> Do(<<Call("scope_check_bin_expr", Arg)>>)
       [] OTHER -> bail_with_error

ScopeCheckExpr ==
  /\ At("scope_check_expr")
  /\ CASE Node.tag = "ident_ast" -> Do(<<Call("scope_check_ident", Arg)>>)
       [] Node.tag = "bin_expr_ast" -> Do(<<Call("scope_check_bin_expr", Arg)>>)
       [] Node.tag = "number_ast" -> Do(<<>>)
       [] OTHER -> bail_with_error

\* The name a node mentions, checked at the node's location.
ScopeCheckIdent ==
  /\ At("scope_check_ident")
  /\ scope_check_ident(Node.loc, Node.name)

\* Also called for a bin_cond: its two expressions lie where those of a
\* bin_expr do.
ScopeCheckBinExpr ==
  /\ At("scope_check_bin_expr")
  /\ Do(<<Call("scope_check_expr", Node.kids[1]),
          Call("scope_check_expr", Node.kids[2])>>)

-----------------------------------------------------------------------------
\* scope_check_program has returned to main, which returns EXIT_SUCCESS.
Return == /\ verdict = Checking
          /\ work = <<>>
          /\ general_error("accepted", 0, NoText)

Stay == Ended /\ UNCHANGED vars

NoTable == [size |-> 0, entries |-> [i \in {} |-> EmptySlot(NullId)]]

Init == /\ \E prog \in Programs : heap = prog.heap /\ root = prog.root
        /\ symtab = NoTable
        /\ work = <<Call("scope_check_program", root)>>
        /\ verdict = NotStarted

CheckDecls == \/ ScopeCheckConstDecls \/ ScopeCheckConstDecl
              \/ ScopeCheckVarDecls \/ ScopeCheckVarDecl

CheckStmts == \/ ScopeCheckStmt \/ ScopeCheckAssignStmt \/ ScopeCheckBeginStmt
              \/ ScopeCheckStmts \/ ScopeCheckWhile \/ ScopeCheckIfStmt
              \/ ScopeCheckReadStmt \/ ScopeCheckWriteStmt

CheckExprs == \/ ScopeCheckCond \/ ScopeCheckExpr \/ ScopeCheckIdent
              \/ ScopeCheckBinExpr

Step == \/ ScopeInitialize \/ ScopeCheckProgram \/ CheckDecls \/ CheckStmts
        \/ CheckExprs \/ Return

Next == Step \/ Stay

Spec == Init /\ [][Next]_vars

\* The check is one sequential process that nothing can block.
FairSpec == Spec /\ WF_vars(Step)
=============================================================================
