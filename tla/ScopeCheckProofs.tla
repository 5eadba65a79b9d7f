-------------------------- MODULE ScopeCheckProofs --------------------------
(***************************************************************************)
(* Proofs about the declaration checker and the symbol table, for every    *)
(* set of programs and every capacity of the table.                        *)
(***************************************************************************)
EXTENDS ScopeCheckProps, ASTProofs, FiniteSetTheorems

\* The tree is fixed and well formed.
HeapOK ==
  /\ TreeOK(heap)
  /\ root \in 1 .. Len(heap)
  /\ heap[root].tag = "program_ast"
  /\ \A p \in 1 .. Len(heap) :
       /\ heap[p].name \in Names \cup {NoText}
       /\ heap[p].tag \in NamedTags => heap[p].name \in Names

\* The table is typed, and its slots in use exist.
TableOK ==
  /\ symtab.size \in Nat
  /\ 0 .. symtab.size - 1 \subseteq DOMAIN symtab.entries
  /\ DOMAIN symtab = {"size", "entries"}
  /\ \A i \in DOMAIN symtab.entries : i \in Nat /\ symtab.entries[i] \in Slots

\* Each slot in use holds a name of its own.
Counted ==
  ~Overflowed => /\ IsFiniteSet(DeclaredNames)
                 /\ Cardinality(DeclaredNames) = symtab.size

TableInv == TableOK /\ TableIsAList /\ Counted

VerdictOK ==
  /\ verdict \in [kind : VerdictKinds, loc : Nat, name : Names \cup {NoText}]
  /\ verdict.kind = "not_started" => symtab = NoTable
  /\ BailsOnlyWithoutSpace

\* The inductive invariant.
IInv == HeapOK /\ TableInv /\ work \in Seq(Calls) /\ VerdictOK

-----------------------------------------------------------------------------
(* Calls.                                                                  *)

LEMMA CallType ==
  ASSUME HeapOK, NEW f \in CallNames, NEW p \in 1 .. Len(heap),
         heap[p].tag \in Expected[f]
  PROVE  Call(f, p) \in Calls
BY DEF Call, Calls, NULL, HeapOK, TreeOK

LEMMA NullCallType ==
  ASSUME HeapOK, NEW f \in ListCalls
  PROVE  Call(f, NULL) \in Calls
BY DEF Call, Calls, NULL, HeapOK, TreeOK, ListCalls, CallNames, Expected

LEMMA KidCallType ==
  ASSUME HeapOK, NEW f \in CallNames, NEW p \in 1 .. Len(heap), NEW k,
         Points(heap, p, k, Expected[f])
  PROVE  Call(f, heap[p].kids[k]) \in Calls
BY CallType DEF Points

\* The call at the head of the walk.
LEMMA HeadCall ==
  ASSUME IInv, work # <<>>
  PROVE  /\ HeapOK
         /\ Head(work).do \in CallNames
         /\ \/ Arg = NULL /\ Head(work).do \in ListCalls
            \/ Arg \in 1 .. Len(heap) /\ heap[Arg].tag \in Expected[Head(work).do]
<1>1. Head(work) \in Calls
  BY DEF IInv
<1>2. Len(heap) \in Nat
  BY DEF IInv, HeapOK, TreeOK
<1> QED
  BY <1>1, <1>2 DEF IInv, Calls, Arg, NULL

\* The same for a function that is never called with a null pointer.
LEMMA NodeCall ==
  ASSUME IInv, work # <<>>, Head(work).do \notin ListCalls
  PROVE  /\ HeapOK
         /\ Arg \in 1 .. Len(heap)
         /\ heap[Arg].tag \in Expected[Head(work).do]
BY HeadCall

-----------------------------------------------------------------------------
(* Steps that leave the table alone.                                       *)

LEMMA SameScope ==
  ASSUME UNCHANGED symtab
  PROVE  UNCHANGED Abstract!vars
BY DEF Abstract!vars, ScopeOf, DeclaredNames, scope_lookup, Overflowed

LEMMA SameTable ==
  ASSUME TableInv, UNCHANGED symtab
  PROVE  TableInv'
BY DEF TableInv, TableOK, TableIsAList, Counted, Overflowed, DeclaredNames

LEMMA SameHeap ==
  ASSUME HeapOK, UNCHANGED <<heap, root>>
  PROVE  HeapOK' /\ Calls' = Calls
BY DEF HeapOK, TreeOK, Calls

LEMMA DoStep ==
  ASSUME IInv, work # <<>>, verdict = Checking, NEW body \in Seq(Calls),
         work' = body \o Tail(work), UNCHANGED <<heap, root, symtab, verdict>>
  PROVE  IInv' /\ UNCHANGED Abstract!vars
<1>1. HeapOK' /\ Calls' = Calls
  BY SameHeap DEF IInv
<1>2. TableInv' /\ UNCHANGED Abstract!vars
  BY SameTable, SameScope DEF IInv
<1>3. work' \in Seq(Calls)
  <2>1. Tail(work) \in Seq(Calls)
    BY DEF IInv
  <2> QED
    BY <2>1
<1>4. verdict' = verdict /\ verdict.kind = "checking"
  BY DEF Checking, Verdict
<1>5. VerdictOK'
  BY <1>4 DEF IInv, VerdictOK, BailsOnlyWithoutSpace
<1> QED
  BY <1>1, <1>2, <1>3, <1>5 DEF IInv

\* The same for bodies of zero to three calls.
LEMMA Do0Step ==
  ASSUME IInv, work # <<>>, verdict = Checking,
         work' = <<>> \o Tail(work),
         UNCHANGED <<heap, root, symtab, verdict>>
  PROVE  IInv' /\ UNCHANGED Abstract!vars
<1>1. <<>> \in Seq(Calls)
  OBVIOUS
<1> QED
  BY <1>1, DoStep

LEMMA Do1Step ==
  ASSUME IInv, work # <<>>, verdict = Checking, NEW c1 \in Calls,
         work' = <<c1>> \o Tail(work),
         UNCHANGED <<heap, root, symtab, verdict>>
  PROVE  IInv' /\ UNCHANGED Abstract!vars
<1>1. <<c1>> \in Seq(Calls)
  OBVIOUS
<1> QED
  BY <1>1, DoStep

LEMMA Do2Step ==
  ASSUME IInv, work # <<>>, verdict = Checking, NEW c1 \in Calls, NEW c2 \in Calls,
         work' = <<c1, c2>> \o Tail(work),
         UNCHANGED <<heap, root, symtab, verdict>>
  PROVE  IInv' /\ UNCHANGED Abstract!vars
<1>1. <<c1, c2>> \in Seq(Calls)
  OBVIOUS
<1> QED
  BY <1>1, DoStep

LEMMA Do3Step ==
  ASSUME IInv, work # <<>>, verdict = Checking,
         NEW c1 \in Calls, NEW c2 \in Calls, NEW c3 \in Calls,
         work' = <<c1, c2, c3>> \o Tail(work),
         UNCHANGED <<heap, root, symtab, verdict>>
  PROVE  IInv' /\ UNCHANGED Abstract!vars
<1>1. <<c1, c2, c3>> \in Seq(Calls)
  OBVIOUS
<1> QED
  BY <1>1, DoStep

LEMMA ErrorStep ==
  ASSUME IInv, NEW kind \in VerdictKinds \ {"not_started"},
         NEW floc \in Nat, NEW name \in Names \cup {NoText},
         verdict' = [kind |-> kind, loc |-> floc, name |-> name],
         UNCHANGED <<heap, root, symtab, work>>,
         kind = "bail" =>
           \/ symtab = NoTable
           \/ work # <<>> /\ Head(work).do \in {"scope_check_constDecl", "scope_check_varDecl"}
  PROVE  IInv' /\ UNCHANGED Abstract!vars
<1>1. HeapOK' /\ Calls' = Calls
  BY SameHeap DEF IInv
<1>2. TableInv' /\ UNCHANGED Abstract!vars
  BY SameTable, SameScope DEF IInv
<1>3. work' \in Seq(Calls)
  BY DEF IInv
<1>5. VerdictOK'
  BY DEF IInv, VerdictOK, BailsOnlyWithoutSpace
<1> QED
  BY <1>1, <1>2, <1>3, <1>5 DEF IInv

LEMMA CrashStep ==
  ASSUME IInv, Crash
  PROVE  IInv' /\ UNCHANGED Abstract!vars
<1>1. "crash" \in VerdictKinds \ {"not_started"} /\ 0 \in Nat /\ NoText \in Names \cup {NoText}
  BY DEF VerdictKinds
<1> QED
  BY <1>1, ErrorStep DEF Crash, general_error, Verdict

-----------------------------------------------------------------------------
(* The functions that neither loop nor touch the table.                    *)

\* Checking a list: its first element, then the rest of it.
LEMMA ListStep ==
  ASSUME IInv, NEW f \in ListCalls, NEW check \in CallNames,
         Expected[check] = Expected[f],
         work # <<>>, verdict = Checking, Head(work).do = f,
         IF Arg = NULL THEN work' = <<>> \o Tail(work)
         ELSE work' = <<Call(check, Arg), Call(f, heap[Arg].next)>> \o Tail(work),
         UNCHANGED <<heap, root, symtab, verdict>>
  PROVE  IInv' /\ UNCHANGED Abstract!vars
<1>0. HeapOK /\ TreeOK(heap)
  BY DEF IInv, HeapOK
<1>1. CASE Arg = NULL
  BY <1>1, Do0Step
<1>2. CASE Arg # NULL
  <2>1. Arg \in 1 .. Len(heap) /\ heap[Arg].tag \in Expected[f] /\ f \in CallNames
    BY <1>2, HeadCall
  <2>2. Call(check, Arg) \in Calls
    BY <1>0, <2>1, CallType
  <2>3. /\ Expected[f] \in {{"const_decl_ast"}, {"var_decl_ast"}, StmtTags}
        /\ heap[Arg].tag \in ListTags \cup StmtTags
    BY <2>1 DEF Expected, ListCalls, ListTags
  <2>4. \/ heap[Arg].next = NULL
        \/ /\ heap[Arg].next \in 1 .. Len(heap)
           /\ heap[heap[Arg].next].tag \in Expected[f]
    BY <1>0, <2>1, <2>3, NextSlot DEF ListTags, StmtTags
  <2>5. Call(f, heap[Arg].next) \in Calls
    BY <1>0, <2>1, <2>4, CallType, NullCallType
  <2> QED
    BY <1>2, <2>2, <2>5, Do2Step
<1> QED
  BY <1>1, <1>2

LEMMA ProgramStep ==
  ASSUME IInv, ScopeCheckProgram
  PROVE  IInv' /\ UNCHANGED Abstract!vars
<1>0. HeapOK /\ TreeOK(heap)
  BY DEF IInv, HeapOK
<1>1. /\ work # <<>> /\ verdict = Checking
      /\ Arg \in 1 .. Len(heap) /\ heap[Arg].tag = "program_ast"
  BY NodeCall DEF ScopeCheckProgram, At, ListCalls, Expected
<1>2. Call("scope_check_constDecls", heap[Arg].kids[1]) \in Calls
  BY <1>0, <1>1, SlotsOfProgram, KidCallType, NullCallType DEF Expected, CallNames, ListCalls
<1>3. Call("scope_check_varDecls", heap[Arg].kids[2]) \in Calls
  BY <1>0, <1>1, SlotsOfProgram, KidCallType, NullCallType DEF Expected, CallNames, ListCalls
<1>4. Call("scope_check_stmt", heap[Arg].kids[3]) \in Calls
  BY <1>0, <1>1, SlotsOfProgram, KidCallType DEF Expected, CallNames
<1>5. Do(<<Call("scope_check_constDecls", heap[Arg].kids[1]),
           Call("scope_check_varDecls", heap[Arg].kids[2]),
           Call("scope_check_stmt", heap[Arg].kids[3])>>)
  BY DEF ScopeCheckProgram, Node
<1> QED
  BY <1>1, <1>2, <1>3, <1>4, <1>5, Do3Step DEF Do

LEMMA StmtSteps ==
  ASSUME IInv, CheckStmts
  PROVE  IInv' /\ UNCHANGED Abstract!vars
<1>0. HeapOK /\ TreeOK(heap)
  BY DEF IInv, HeapOK
<1>1. CASE ScopeCheckStmt
  <2>0. /\ work # <<>> /\ verdict = Checking
        /\ Arg \in 1 .. Len(heap) /\ heap[Arg].tag \in StmtTags
    BY <1>1, NodeCall DEF ScopeCheckStmt, At, ListCalls, Expected
  <2>1. CASE heap[Arg].tag = "skip_ast"
    BY <1>1, <2>0, <2>1, Do0Step DEF ScopeCheckStmt, Node, Do
  <2>2. CASE heap[Arg].tag # "skip_ast"
    <3>1. heap[Arg].tag \in DOMAIN StmtChecker
      BY <2>0, <2>2 DEF StmtTags, StmtChecker
    <3>2. /\ StmtChecker[heap[Arg].tag] \in CallNames
          /\ heap[Arg].tag \in Expected[StmtChecker[heap[Arg].tag]]
      BY <3>1 DEF StmtChecker, Expected, CallNames
    <3>3. Call(StmtChecker[heap[Arg].tag], Arg) \in Calls
      BY <1>0, <2>0, <3>2, CallType
    <3>4. Do(<<Call(StmtChecker[heap[Arg].tag], Arg)>>)
      BY <1>1, <2>2, <3>1 DEF ScopeCheckStmt, Node
    <3> QED
      BY <2>0, <3>3, <3>4, Do1Step DEF Do
  <2> QED
    BY <2>1, <2>2
<1>2. CASE ScopeCheckAssignStmt
  <2>0. /\ work # <<>> /\ verdict = Checking
        /\ Arg \in 1 .. Len(heap) /\ heap[Arg].tag \in Expected["scope_check_assignStmt"]
    BY <1>2, NodeCall DEF ScopeCheckAssignStmt, At, ListCalls
  <2>1. Call("scope_check_ident", Arg) \in Calls
    BY <1>0, <2>0, CallType DEF Expected, CallNames
  <2>2. Call("scope_check_expr", heap[Arg].kids[1]) \in Calls
    BY <1>0, <2>0, SlotsOfUnary, KidCallType DEF Expected, CallNames
  <2>3. Do(<<Call("scope_check_ident", Arg),
               Call("scope_check_expr", heap[Arg].kids[1])>>)
    BY <1>2 DEF ScopeCheckAssignStmt, Node
  <2> QED
    BY <2>0, <2>1, <2>2, <2>3, Do2Step DEF Do
<1>3. CASE ScopeCheckBeginStmt
  <2>0. /\ work # <<>> /\ verdict = Checking
        /\ Arg \in 1 .. Len(heap) /\ heap[Arg].tag \in Expected["scope_check_beginStmt"]
    BY <1>3, NodeCall DEF ScopeCheckBeginStmt, At, ListCalls
  <2>1. Call("stmts", heap[Arg].kids[1]) \in Calls
    BY <1>0, <2>0, SlotsOfUnary, KidCallType DEF Expected, CallNames
  <2>2. Do(<<Call("stmts", heap[Arg].kids[1])>>)
    BY <1>3 DEF ScopeCheckBeginStmt, Node
  <2> QED
    BY <2>0, <2>1, <2>2, Do1Step DEF Do
<1>4. CASE ScopeCheckStmts
  <2>1. /\ "stmts" \in ListCalls /\ "scope_check_stmt" \in CallNames
        /\ Expected["scope_check_stmt"] = Expected["stmts"]
    BY DEF ListCalls, CallNames, Expected
  <2> QED
    BY <1>4, <2>1, ListStep DEF ScopeCheckStmts, At, DoList, Do, ast_list_is_empty, ast_list_rest
<1>5. CASE ScopeCheckWhile
  <2>0. /\ work # <<>> /\ verdict = Checking
        /\ Arg \in 1 .. Len(heap) /\ heap[Arg].tag \in Expected["scope_check_while"]
    BY <1>5, NodeCall DEF ScopeCheckWhile, At, ListCalls
  <2>1. Call("scope_check_cond", heap[Arg].kids[1]) \in Calls
    BY <1>0, <2>0, SlotsOfWhile, KidCallType DEF Expected, CallNames
  <2>2. Call("scope_check_stmt", heap[Arg].kids[2]) \in Calls
    BY <1>0, <2>0, SlotsOfWhile, KidCallType DEF Expected, CallNames
  <2>3. Do(<<Call("scope_check_cond", heap[Arg].kids[1]),
               Call("scope_check_stmt", heap[Arg].kids[2])>>)
    BY <1>5 DEF ScopeCheckWhile, Node
  <2> QED
    BY <2>0, <2>1, <2>2, <2>3, Do2Step DEF Do
<1>6. CASE ScopeCheckIfStmt
  <2>0. /\ work # <<>> /\ verdict = Checking
        /\ Arg \in 1 .. Len(heap) /\ heap[Arg].tag \in Expected["scope_check_ifStmt"]
    BY <1>6, NodeCall DEF ScopeCheckIfStmt, At, ListCalls
  <2>1. Call("scope_check_cond", heap[Arg].kids[1]) \in Calls
    BY <1>0, <2>0, SlotsOfIf, KidCallType DEF Expected, CallNames
  <2>2. Call("scope_check_stmt", heap[Arg].kids[2]) \in Calls
    BY <1>0, <2>0, SlotsOfIf, KidCallType DEF Expected, CallNames
  <2>3. Call("scope_check_stmt", heap[Arg].kids[3]) \in Calls
    BY <1>0, <2>0, SlotsOfIf, KidCallType DEF Expected, CallNames
  <2>4. Do(<<Call("scope_check_cond", heap[Arg].kids[1]),
               Call("scope_check_stmt", heap[Arg].kids[2]),
               Call("scope_check_stmt", heap[Arg].kids[3])>>)
    BY <1>6 DEF ScopeCheckIfStmt, Node
  <2> QED
    BY <2>0, <2>1, <2>2, <2>3, <2>4, Do3Step DEF Do
<1>7. CASE ScopeCheckReadStmt
  <2>0. /\ work # <<>> /\ verdict = Checking
        /\ Arg \in 1 .. Len(heap) /\ heap[Arg].tag \in Expected["scope_check_readStmt"]
    BY <1>7, NodeCall DEF ScopeCheckReadStmt, At, ListCalls
  <2>1. Call("scope_check_ident", Arg) \in Calls
    BY <1>0, <2>0, CallType DEF Expected, CallNames
  <2>2. Do(<<Call("scope_check_ident", Arg)>>)
    BY <1>7 DEF ScopeCheckReadStmt, Node
  <2> QED
    BY <2>0, <2>1, <2>2, Do1Step DEF Do
<1>8. CASE ScopeCheckWriteStmt
  <2>0. /\ work # <<>> /\ verdict = Checking
        /\ Arg \in 1 .. Len(heap) /\ heap[Arg].tag \in Expected["scope_check_writeStmt"]
    BY <1>8, NodeCall DEF ScopeCheckWriteStmt, At, ListCalls
  <2>1. Call("scope_check_expr", heap[Arg].kids[1]) \in Calls
    BY <1>0, <2>0, SlotsOfUnary, KidCallType DEF Expected, CallNames
  <2>2. Do(<<Call("scope_check_expr", heap[Arg].kids[1])>>)
    BY <1>8 DEF ScopeCheckWriteStmt, Node
  <2> QED
    BY <2>0, <2>1, <2>2, Do1Step DEF Do
<1> QED
  BY <1>1, <1>2, <1>3, <1>4, <1>5, <1>6, <1>7, <1>8 DEF CheckStmts

\* Every node has a location and perhaps a name.
LEMMA NodeFields ==
  ASSUME HeapOK, NEW p \in 1 .. Len(heap)
  PROVE  /\ heap[p].loc \in Nat
         /\ heap[p].name \in Names \cup {NoText}
         /\ heap[p].tag \in NamedTags => heap[p].name \in Names
<1>1. heap[p] \in Nodes
  BY DEF HeapOK, TreeOK
<1>2. heap[p].loc \in Nat
  BY <1>1 DEF Nodes
<1> QED
  BY <1>2 DEF HeapOK, TreeOK

LEMMA ExprSteps ==
  ASSUME IInv, CheckExprs
  PROVE  IInv' /\ UNCHANGED Abstract!vars
<1>0. HeapOK /\ TreeOK(heap)
  BY DEF IInv, HeapOK
<1>1. CASE ScopeCheckCond
  <2>0. /\ work # <<>> /\ verdict = Checking
        /\ Arg \in 1 .. Len(heap) /\ heap[Arg].tag \in CondTags
    BY <1>1, NodeCall DEF ScopeCheckCond, At, ListCalls, Expected
  <2>1. CASE heap[Arg].tag = "odd_cond_ast"
    <3>1. Call("scope_check_expr", heap[Arg].kids[1]) \in Calls
      BY <1>0, <2>0, <2>1, SlotsOfUnary, KidCallType DEF Expected, CallNames
    <3>2. Do(<<Call("scope_check_expr", heap[Arg].kids[1])>>)
      BY <1>1, <2>1 DEF ScopeCheckCond, Node
    <3> QED
      BY <2>0, <3>1, <3>2, Do1Step DEF Do
  <2>2. CASE heap[Arg].tag = "bin_cond_ast"
    <3>1. Call("scope_check_bin_expr", Arg) \in Calls
      BY <1>0, <2>0, <2>2, CallType DEF Expected, CallNames
    <3>2. Do(<<Call("scope_check_bin_expr", Arg)>>)
      BY <1>1, <2>2 DEF ScopeCheckCond, Node
    <3> QED
      BY <2>0, <3>1, <3>2, Do1Step DEF Do
  <2> QED
    BY <2>0, <2>1, <2>2 DEF CondTags
<1>2. CASE ScopeCheckExpr
  <2>0. /\ work # <<>> /\ verdict = Checking
        /\ Arg \in 1 .. Len(heap) /\ heap[Arg].tag \in ExprTags
    BY <1>2, NodeCall DEF ScopeCheckExpr, At, ListCalls, Expected
  <2>1. CASE heap[Arg].tag = "ident_ast"
    <3>1. Call("scope_check_ident", Arg) \in Calls
      BY <1>0, <2>0, <2>1, CallType DEF Expected, CallNames
    <3>2. Do(<<Call("scope_check_ident", Arg)>>)
      BY <1>2, <2>1 DEF ScopeCheckExpr, Node
    <3> QED
      BY <2>0, <3>1, <3>2, Do1Step DEF Do
  <2>2. CASE heap[Arg].tag = "bin_expr_ast"
    <3>1. Call("scope_check_bin_expr", Arg) \in Calls
      BY <1>0, <2>0, <2>2, CallType DEF Expected, CallNames
    <3>2. Do(<<Call("scope_check_bin_expr", Arg)>>)
      BY <1>2, <2>2 DEF ScopeCheckExpr, Node
    <3> QED
      BY <2>0, <3>1, <3>2, Do1Step DEF Do
  <2>3. CASE heap[Arg].tag = "number_ast"
    <3>1. Do(<<>>)
      BY <1>2, <2>3 DEF ScopeCheckExpr, Node
    <3> QED
      BY <2>0, <3>1, Do0Step DEF Do
  <2> QED
    BY <2>0, <2>1, <2>2, <2>3 DEF ExprTags
<1>3. CASE ScopeCheckIdent
  <2>0. /\ work # <<>> /\ verdict = Checking
        /\ Arg \in 1 .. Len(heap)
    BY <1>3, NodeCall DEF ScopeCheckIdent, At, ListCalls
  <2>1. CASE LookupCrashes
    BY <2>1, CrashStep DEF LookupCrashes
  <2>2. CASE Do(<<>>)
    BY <2>0, <2>2, Do0Step DEF Do
  <2>3. CASE general_error("not declared", heap[Arg].loc, heap[Arg].name)
    <3>1. /\ "not declared" \in VerdictKinds \ {"not_started"}
          /\ heap[Arg].loc \in Nat /\ heap[Arg].name \in Names \cup {NoText}
      BY <1>0, <2>0, NodeFields DEF VerdictKinds
    <3> QED
      BY <2>3, <3>1, ErrorStep DEF general_error, Verdict
  <2> QED
    BY <1>3, <2>1, <2>2, <2>3 DEF ScopeCheckIdent, scope_check_ident, Node
<1>4. CASE ScopeCheckBinExpr
  <2>0. /\ work # <<>> /\ verdict = Checking
        /\ Arg \in 1 .. Len(heap)
        /\ heap[Arg].tag \in {"bin_cond_ast", "bin_expr_ast"}
    BY <1>4, NodeCall DEF ScopeCheckBinExpr, At, ListCalls, Expected
  <2>1. /\ Call("scope_check_expr", heap[Arg].kids[1]) \in Calls
        /\ Call("scope_check_expr", heap[Arg].kids[2]) \in Calls
    BY <1>0, <2>0, SlotsOfBinary, KidCallType DEF Expected, CallNames
  <2>2. Do(<<Call("scope_check_expr", heap[Arg].kids[1]),
             Call("scope_check_expr", heap[Arg].kids[2])>>)
    BY <1>4 DEF ScopeCheckBinExpr, Node
  <2> QED
    BY <2>0, <2>1, <2>2, Do2Step DEF Do
<1> QED
  BY <1>1, <1>2, <1>3, <1>4 DEF CheckExprs

-----------------------------------------------------------------------------
(* The table as a list of distinct names.                                  *)

\* scope_lookup, for any table.
LookupIn(tab, name) ==
  LET found == {i \in 0 .. tab.size - 1 : tab.entries[i].id = name}
  IN  IF found = {} THEN EmptySlot(NullId)
      ELSE tab.entries[CHOOSE i \in found : \A j \in found : i <= j]

\* A name that is in one slot only is found there.
LEMMA LookupInAt ==
  ASSUME NEW tab, tab.size \in Nat, NEW i \in 0 .. tab.size - 1,
         \A j \in 0 .. tab.size - 1 : tab.entries[j].id = tab.entries[i].id => j = i
  PROVE  LookupIn(tab, tab.entries[i].id) = tab.entries[i]
<1> DEFINE found == {j \in 0 .. tab.size - 1 : tab.entries[j].id = tab.entries[i].id}
<1>1. found = {i}
  OBVIOUS
<1>2. (CHOOSE k \in found : \A j \in found : k <= j) = i
  BY <1>1
<1> QED
  BY <1>1, <1>2 DEF LookupIn

LEMMA DistinctNames ==
  ASSUME TableInv, ~Overflowed,
         NEW i \in 0 .. symtab.size - 1, NEW j \in 0 .. symtab.size - 1,
         symtab.entries[i].id = symtab.entries[j].id
  PROVE  i = j
BY DEF TableInv, TableOK, TableIsAList

\* A name is defined when it is one of those declared.
LEMMA DefinedNames ==
  ASSUME TableInv, ~Overflowed, NEW name \in Names
  PROVE  scope_defined(name) <=> name \in DeclaredNames
<1>1. CASE name \in DeclaredNames
  <2>1. PICK i \in 0 .. symtab.size - 1 : symtab.entries[i].id = name
    BY <1>1 DEF DeclaredNames
  <2>2. LookupIn(symtab, name) = symtab.entries[i]
    BY <2>1, LookupInAt, DistinctNames DEF TableInv, TableOK
  <2>3. EmptySlot(NullId).id \notin Names
    BY NamesAssumption DEF EmptySlot
  <2> QED
    BY <1>1, <2>1, <2>2, <2>3 DEF scope_defined, scope_lookup, LookupIn
<1>2. CASE name \notin DeclaredNames
  BY <1>2 DEF scope_defined, scope_lookup, DeclaredNames
<1> QED
  BY <1>1, <1>2

-----------------------------------------------------------------------------
(* Adding to the table.                                                    *)

\* What add_ident_to_scope adds.
NewSlots == [id : Names, loc : Nat, kind : Kinds, offset : {symtab.size}]

\* Writing to the table leaves it typed, wherever it writes.
LEMMA WrittenType ==
  ASSUME TableOK, NEW assoc \in NewSlots,
         NEW entries \in Written(symtab.size, assoc),
         symtab' = [size |-> symtab.size + 1, entries |-> entries]
  PROVE  TableOK'
<1> DEFINE written == [j \in DOMAIN symtab.entries \cup {symtab.size} |->
                         IF j = symtab.size THEN assoc ELSE symtab.entries[j]]
<1>1. assoc \in Slots
  BY DEF NewSlots, Slots, TableOK
<1>2. \A i \in DOMAIN written : i \in Nat /\ written[i] \in Slots
  BY <1>1 DEF TableOK
<1>3. \/ entries = written
      \/ \E j \in 0 .. symtab.size : entries = [written EXCEPT ![j].id = JunkId]
  BY DEF Written
<1>4. \A i \in DOMAIN entries : i \in Nat /\ entries[i] \in Slots
  <2>1. CASE entries = written
    BY <1>2, <2>1
  <2>2. ASSUME NEW j \in 0 .. symtab.size, entries = [written EXCEPT ![j].id = JunkId]
        PROVE  \A i \in DOMAIN entries : i \in Nat /\ entries[i] \in Slots
    <3> TAKE i \in DOMAIN entries
    <3>1. i \in DOMAIN written
      BY <2>2
    <3>2. i \in Nat /\ written[i] \in Slots
      BY <1>2, <3>1
    <3>3. [written[i] EXCEPT !.id = JunkId] \in Slots
      BY <3>2 DEF Slots
    <3>4. entries[i] = written[i] \/ entries[i] = [written[i] EXCEPT !.id = JunkId]
      BY <2>2, <3>1
    <3> QED
      BY <3>2, <3>3, <3>4
  <2> QED
    BY <1>3, <2>1, <2>2
<1>5. DOMAIN entries = DOMAIN symtab.entries \cup {symtab.size}
  BY <1>3
<1> QED
  BY <1>4, <1>5 DEF TableOK

\* The abstract scope counts as the table does.
LEMMA SameCardinality ==
  ASSUME NEW S
  PROVE  Abstract!Cardinality(S) = Cardinality(S)
BY DEF Abstract!Cardinality, Cardinality

\* A name is added to a table that is not full.
LEMMA RoomStep ==
  ASSUME TableInv, ~Overflowed, ~scope_full,
         NEW assoc \in NewSlots, assoc.id \notin DeclaredNames,
         NEW entries \in Written(symtab.size, assoc),
         symtab' = [size |-> symtab.size + 1, entries |-> entries]
  PROVE  TableInv' /\ Abstract!Next
<1> DEFINE n == symtab.size
<1>0. n \in Nat /\ n < MaxScopeSize /\ MaxScopeSize \in Nat
  BY MaxScopeSizeAssumption DEF TableInv, TableOK, scope_full, scope_size
<1>1. /\ symtab'.size = n + 1
      /\ symtab'.entries[n] = assoc
      /\ \A i \in 0 .. n - 1 : symtab'.entries[i] = symtab.entries[i]
  BY <1>0 DEF Written, TableInv, TableOK
<1>2. /\ \A i \in 0 .. n - 1 : symtab.entries[i].id \in DeclaredNames
      /\ assoc.id \in Names /\ assoc.offset = n
  BY DEF DeclaredNames, NewSlots
<1>3. ~Overflowed'
  BY <1>0, <1>1 DEF Overflowed
<1>4. TableIsAList'
  <2> SUFFICES ASSUME NEW i \in 0 .. n
               PROVE  /\ symtab'.entries[i].id \in Names
                      /\ symtab'.entries[i].offset = i
                      /\ \A j \in 0 .. i - 1 :
                           symtab'.entries[j].id # symtab'.entries[i].id
    BY <1>0, <1>1 DEF TableIsAList
  <2>1. CASE i = n
    BY <1>0, <1>1, <1>2, <2>1
  <2>2. CASE i # n
    <3>1. i \in 0 .. n - 1
      BY <1>0, <2>2
    <3>2. /\ symtab.entries[i].id \in Names
          /\ symtab.entries[i].offset = i
          /\ \A j \in 0 .. i - 1 : symtab.entries[j].id # symtab.entries[i].id
      BY <3>1 DEF TableInv, TableIsAList
    <3> QED
      BY <1>0, <1>1, <3>1, <3>2
  <2> QED
    BY <2>1, <2>2
<1>5. DeclaredNames' = DeclaredNames \cup {assoc.id}
  BY <1>0, <1>1 DEF DeclaredNames
<1>6. /\ IsFiniteSet(DeclaredNames')
      /\ Cardinality(DeclaredNames') = n + 1
  <2>1. IsFiniteSet(DeclaredNames) /\ Cardinality(DeclaredNames) = n
    BY DEF TableInv, Counted
  <2> QED
    BY <1>5, <2>1, FS_AddElement
<1>7. Counted'
  BY <1>1, <1>6 DEF Counted
<1>8. TableInv'
  BY <1>4, <1>7, WrittenType DEF TableInv
\* The new name is found with its attributes, and the others as before.
<1>9. LookupIn(symtab', assoc.id) = assoc
  <2>1. \A j \in 0 .. n : symtab'.entries[j].id = symtab'.entries[n].id => j = n
    BY <1>0, <1>1, <1>2
  <2> QED
    BY <1>0, <1>1, <2>1, LookupInAt
<1>10. \A name \in DeclaredNames : LookupIn(symtab', name) = LookupIn(symtab, name)
  <2> TAKE name \in DeclaredNames
  <2>1. PICK i \in 0 .. n - 1 : symtab.entries[i].id = name
    BY DEF DeclaredNames
  <2>2. LookupIn(symtab, name) = symtab.entries[i]
    BY <1>0, <2>1, LookupInAt, DistinctNames
  <2>3. \A j \in 0 .. n : symtab'.entries[j].id = symtab'.entries[i].id => j = i
    BY <1>0, <1>1, <2>1, DistinctNames
  <2>4. i \in 0 .. symtab'.size - 1 /\ symtab'.entries[i].id = name
    BY <1>0, <1>1, <2>1
  <2>5. LookupIn(symtab', name) = symtab'.entries[i]
    BY <1>0, <1>1, <2>3, <2>4, LookupInAt
  <2> QED
    BY <1>1, <2>1, <2>2, <2>5
<1> DEFINE Attrs(slot) == [loc |-> slot.loc, kind |-> slot.kind, offset |-> slot.offset]
<1>11. /\ ScopeOf = [name \in DeclaredNames |-> Attrs(LookupIn(symtab, name))]
       /\ ScopeOf' = [name \in DeclaredNames' |-> Attrs(LookupIn(symtab', name))]
  BY DEF ScopeOf, scope_lookup, LookupIn
<1>12. Abstract!Declare
  <2>1. DOMAIN ScopeOf = DeclaredNames /\ DOMAIN (ScopeOf') = DeclaredNames \cup {assoc.id}
    BY <1>5, <1>11
  <2>2. Cardinality(DOMAIN ScopeOf) = n
    BY <2>1 DEF TableInv, Counted
  <2>3. \A name \in DOMAIN ScopeOf : ScopeOf'[name] = ScopeOf[name]
    BY <1>5, <1>10, <1>11
  <2>4. ScopeOf'[assoc.id] = Attrs(assoc)
    BY <1>5, <1>9, <1>11
  <2>5. Attrs(assoc) \in Abstract!Attributes /\ Attrs(assoc).offset = n
    BY <1>0 DEF Abstract!Attributes, Abstract!Kinds, Kinds, NewSlots
  <2>6. assoc.id \in Names \ DOMAIN ScopeOf
    BY <1>2, <2>1
  <2>7. /\ Overflowed' = Overflowed
        /\ ~Overflowed
    BY <1>0, <1>1 DEF Overflowed
  <2>8. /\ DOMAIN (ScopeOf') = DOMAIN ScopeOf \cup {assoc.id}
        /\ ScopeOf'[assoc.id] \in Abstract!Attributes
        /\ ScopeOf'[assoc.id].offset = Cardinality(DOMAIN ScopeOf)
    BY <2>1, <2>2, <2>4, <2>5
  <2>9. Cardinality(DOMAIN ScopeOf) < MaxScopeSize
    BY <1>0, <2>2
  <2> HIDE DEF n, Attrs
  <2> QED
    BY <2>3, <2>6, <2>7, <2>8, <2>9, SameCardinality, Zenon DEF Abstract!Declare
<1> QED
  BY <1>8, <1>12 DEF Abstract!Next

\* A name is added to a full table: the contract is void.
LEMMA FullStep ==
  ASSUME TableInv, scope_full,
         NEW assoc \in NewSlots, NEW entries \in Written(symtab.size, assoc),
         symtab' = [size |-> symtab.size + 1, entries |-> entries]
  PROVE  TableInv' /\ Abstract!Next
<1>1. Overflowed'
  BY MaxScopeSizeAssumption DEF Overflowed, scope_full, scope_size, TableInv, TableOK
<1>2. TableInv'
  BY <1>1, WrittenType DEF TableInv, TableIsAList, Counted
<1>3. DOMAIN ScopeOf = DeclaredNames
  BY DEF ScopeOf
<1>4. Overflowed \/ Cardinality(DOMAIN ScopeOf) >= MaxScopeSize
  BY <1>3 DEF TableInv, Counted, scope_full, scope_size
<1>5. Overflowed' = TRUE
  <2>1. symtab'.size > MaxScopeSize
    BY <1>1 DEF Overflowed
  <2> QED
    BY <2>1 DEF Overflowed
<1>6. Abstract!Misuse
  BY <1>4, <1>5, SameCardinality, Zenon DEF Abstract!Misuse
<1> QED
  BY <1>2, <1>6 DEF Abstract!Next

-----------------------------------------------------------------------------
(* Declarations.                                                           *)

\* add_ident_to_scope, called for the declaration at the head of the walk.
LEMMA AddStep ==
  ASSUME IInv, work # <<>>, verdict = Checking,
         Head(work).do \in {"scope_check_constDecl", "scope_check_varDecl"},
         NEW kind \in Kinds, add_ident_to_scope(heap[Arg].name, kind, heap[Arg].loc)
  PROVE  IInv' /\ [Abstract!Next]_Abstract!vars
<1> DEFINE name == heap[Arg].name
           floc == heap[Arg].loc
           assoc == create_id_attrs(name, floc, kind, scope_size)
<1>0. HeapOK /\ TableInv /\ VerdictOK
  BY DEF IInv
<1>1. Arg \in 1 .. Len(heap) /\ heap[Arg].tag \in ListTags
  BY NodeCall DEF ListCalls, Expected, ListTags
<1>2. name \in Names /\ floc \in Nat
  BY <1>0, <1>1, NodeFields DEF NamedTags
<1>3. assoc \in NewSlots
  BY <1>2 DEF NewSlots, create_id_attrs, scope_size
<1>4. CASE LookupCrashes
  BY <1>4, CrashStep DEF LookupCrashes
<1>5. CASE general_error("already declared", floc, name)
  <2>1. "already declared" \in VerdictKinds \ {"not_started"}
    BY DEF VerdictKinds
  <2>2. name \in Names \cup {NoText}
    BY <1>2
  <2> QED
    BY <1>2, <1>5, <2>1, <2>2, ErrorStep DEF general_error, Verdict
<1>6. CASE bail_with_error
  <2>1. /\ "bail" \in VerdictKinds \ {"not_started"} /\ 0 \in Nat
        /\ NoText \in Names \cup {NoText}
    BY DEF VerdictKinds
  <2> QED
    BY <1>6, <2>1, ErrorStep DEF bail_with_error, general_error, Verdict
\* The name is added.
<1>7. ASSUME scope_add(assoc), ~scope_defined(name)
      PROVE  TableInv' /\ Abstract!Next
  <2>1. PICK entries \in Written(symtab.size, assoc) :
          symtab' = [size |-> symtab.size + 1, entries |-> entries]
    BY <1>7 DEF scope_add
  <2>2. CASE scope_full
    BY <1>0, <1>3, <2>1, <2>2, FullStep
  <2>3. CASE ~scope_full
    <3>1. ~Overflowed
      BY <2>3, MaxScopeSizeAssumption, <1>0
      DEF Overflowed, scope_full, scope_size, TableInv, TableOK
    <3>2. assoc.id \notin DeclaredNames
      BY <1>0, <1>2, <1>7, <3>1, DefinedNames DEF create_id_attrs
    <3> QED
      BY <1>0, <1>3, <2>1, <2>3, <3>1, <3>2, RoomStep
  <2> QED
    BY <2>2, <2>3
<1>8. ASSUME ~scope_defined(name), scope_add(assoc), UNCHANGED <<heap, root>>,
             \/ work' = Tail(work) /\ verdict' = verdict
             \/ work' = work /\ verdict' = Verdict("crash", 0, NoText)
      PROVE  IInv' /\ [Abstract!Next]_Abstract!vars
  <2>1. TableInv' /\ Abstract!Next
    BY <1>7, <1>8
  <2>2. HeapOK' /\ Calls' = Calls
    BY <1>0, <1>8, SameHeap
  <2>3. work' \in Seq(Calls)
    BY <1>8, <2>2 DEF IInv
  <2>4. VerdictOK'
    <3>1. /\ verdict.kind = "checking"
          /\ verdict \in [kind : VerdictKinds, loc : Nat, name : Names \cup {NoText}]
      BY <1>0 DEF VerdictOK, Checking, Verdict
    <3>2. verdict'.kind \in {"checking", "crash"}
      BY <1>8, <3>1 DEF Verdict
    <3>3. verdict' \in [kind : VerdictKinds, loc : Nat, name : Names \cup {NoText}]
      <4>1. "crash" \in VerdictKinds /\ NoText \in Names \cup {NoText} /\ 0 \in Nat
        BY DEF VerdictKinds
      <4> QED
        BY <1>8, <3>1, <4>1 DEF Verdict
    <3> QED
      BY <3>2, <3>3 DEF VerdictOK, BailsOnlyWithoutSpace
  <2> QED
    BY <2>1, <2>2, <2>3, <2>4 DEF IInv
<1> QED
  BY <1>4, <1>5, <1>6, <1>8 DEF add_ident_to_scope, scope_insert

LEMMA DeclSteps ==
  ASSUME IInv, CheckDecls
  PROVE  IInv' /\ [Abstract!Next]_Abstract!vars
<1>1. CASE ScopeCheckConstDecls
  BY <1>1, ListStep
  DEF ScopeCheckConstDecls, At, DoList, Do, ast_list_is_empty, ast_list_rest,
      ListCalls, CallNames, Expected
<1>2. CASE ScopeCheckVarDecls
  BY <1>2, ListStep
  DEF ScopeCheckVarDecls, At, DoList, Do, ast_list_is_empty, ast_list_rest,
      ListCalls, CallNames, Expected
<1>3. CASE ScopeCheckConstDecl
  <2>1. "constant" \in Kinds
    BY DEF Kinds
  <2> QED
    BY <1>3, <2>1, AddStep DEF ScopeCheckConstDecl, At, Node
<1>4. CASE ScopeCheckVarDecl
  <2>1. "variable" \in Kinds
    BY DEF Kinds
  <2> QED
    BY <1>4, <2>1, AddStep DEF ScopeCheckVarDecl, At, Node
<1> QED
  BY <1>1, <1>2, <1>3, <1>4 DEF CheckDecls

-----------------------------------------------------------------------------
(* Creating the table, and the end of the check.                           *)

\* No name is declared in a table of size 0.
LEMMA EmptyScope ==
  ASSUME symtab.size = 0
  PROVE  DeclaredNames = {} /\ DOMAIN ScopeOf = {} /\ ~Overflowed
<1>1. 0 .. symtab.size - 1 = {}
  OBVIOUS
<1>2. DeclaredNames = {}
  BY <1>1 DEF DeclaredNames
<1>3. ~Overflowed
  BY MaxScopeSizeAssumption DEF Overflowed
<1> QED
  BY <1>2, <1>3 DEF ScopeOf

LEMMA EmptyTable ==
  ASSUME symtab.size = 0, TableOK
  PROVE  TableInv
<1>1. 0 .. symtab.size - 1 = {}
  OBVIOUS
<1> QED
  BY <1>1, EmptyScope, FS_EmptySet DEF TableInv, TableIsAList, Counted

LEMMA CreatedTableType ==
  ASSUME NEW tab \in CreatedTables
  PROVE  /\ tab.size = 0
         /\ DOMAIN tab = {"size", "entries"}
         /\ \A i \in DOMAIN tab.entries : i \in Nat /\ tab.entries[i] \in Slots
<1>1. EmptySlot(NullId) \in Slots /\ EmptySlot(JunkId) \in Slots
  BY DEF EmptySlot, Slots, Kinds
<1>2. PICK j \in 0 .. MaxScopeSize :
        tab = [size |-> 0,
               entries |-> [i \in 0 .. MaxScopeSize - 1 |->
                              EmptySlot(IF i < j THEN JunkId ELSE NullId)]]
  BY DEF CreatedTables
<1>3. \A i \in 0 .. MaxScopeSize - 1 :
        i \in Nat /\ EmptySlot(IF i < j THEN JunkId ELSE NullId) \in Slots
  BY <1>1
<1> QED
  BY <1>2, <1>3

LEMMA InitializeStep ==
  ASSUME IInv, ScopeInitialize
  PROVE  IInv' /\ UNCHANGED Abstract!vars
<1>0. /\ verdict = NotStarted /\ verdict.kind = "not_started" /\ symtab = NoTable
  BY DEF IInv, VerdictOK, ScopeInitialize, NotStarted, Verdict
<1>1. CASE /\ symtab' \in CreatedTables
           /\ verdict' = Checking
           /\ UNCHANGED <<heap, root, work>>
  <2>1. HeapOK' /\ Calls' = Calls
    BY <1>1, SameHeap DEF IInv
  <2>2. symtab.size = 0
    BY <1>0 DEF NoTable
  <2>3. symtab'.size = 0 /\ TableOK'
    BY <1>1, CreatedTableType DEF TableOK
  <2>4. TableInv'
    <3>1. 0 .. symtab'.size - 1 = {} /\ DeclaredNames' = {} /\ ~Overflowed'
      BY <2>3, MaxScopeSizeAssumption DEF DeclaredNames, Overflowed
    <3> QED
      BY <2>3, <3>1, FS_EmptySet DEF TableInv, TableIsAList, Counted
  <2>8. UNCHANGED Abstract!vars
    <3>1. DeclaredNames = {} /\ DeclaredNames' = {}
      BY <2>2, <2>3 DEF DeclaredNames
    <3>2. ScopeOf' = ScopeOf
      BY <3>1 DEF ScopeOf
    <3>3. Overflowed' = Overflowed
      BY <2>2, <2>3, MaxScopeSizeAssumption DEF Overflowed
    <3> QED
      BY <3>2, <3>3 DEF Abstract!vars
  <2>6. work' \in Seq(Calls)
    BY <1>1, <2>1 DEF IInv
  <2>7. VerdictOK'
    BY <1>1 DEF VerdictOK, VerdictKinds, Checking, Verdict, BailsOnlyWithoutSpace
  <2> QED
    BY <2>1, <2>4, <2>6, <2>7, <2>8 DEF IInv
<1>2. CASE bail_with_error
  <2>1. /\ "bail" \in VerdictKinds \ {"not_started"} /\ 0 \in Nat
        /\ NoText \in Names \cup {NoText}
    BY DEF VerdictKinds
  <2> QED
    BY <1>0, <1>2, <2>1, ErrorStep DEF bail_with_error, general_error, Verdict
<1>3. CASE Crash
  BY <1>3, CrashStep
<1> QED
  BY <1>1, <1>2, <1>3 DEF ScopeInitialize

LEMMA ReturnStep ==
  ASSUME IInv, Return
  PROVE  IInv' /\ UNCHANGED Abstract!vars
<1>1. /\ "accepted" \in VerdictKinds \ {"not_started"} /\ 0 \in Nat
      /\ NoText \in Names \cup {NoText}
  BY DEF VerdictKinds
<1> QED
  BY <1>1, ErrorStep DEF Return, general_error, Verdict

LEMMA StayStep ==
  ASSUME IInv, UNCHANGED vars
  PROVE  IInv' /\ UNCHANGED Abstract!vars
<1>1. HeapOK' /\ Calls' = Calls
  BY SameHeap DEF IInv, vars
<1>2. TableInv' /\ UNCHANGED Abstract!vars
  BY SameTable, SameScope DEF IInv, vars
<1>3. work' \in Seq(Calls)
  BY <1>1 DEF IInv, vars
<1>4. VerdictOK'
  BY DEF IInv, VerdictOK, BailsOnlyWithoutSpace, vars
<1> QED
  BY <1>1, <1>2, <1>3, <1>4 DEF IInv

-----------------------------------------------------------------------------
(* The theorems about calls and the table.                                 *)

\* Before the first step: the checker has been handed a well-formed program.
Started ==
  /\ HeapOK
  /\ symtab = NoTable
  /\ work = <<Call("scope_check_program", root)>>
  /\ verdict = NotStarted

LEMMA StartInv == Started => IInv
<1> SUFFICES ASSUME Started PROVE IInv
  OBVIOUS
<1>1. symtab = NoTable /\ symtab.size = 0
  BY DEF Started, NoTable
<1>2. TableOK
  BY <1>1 DEF NoTable, TableOK
<1>3. work \in Seq(Calls)
  <2>1. Call("scope_check_program", root) \in Calls
    BY CallType DEF Started, HeapOK, TreeOK, CallNames, Expected
  <2> QED
    BY <2>1 DEF Started
<1>4. VerdictOK
  BY <1>1 DEF Started, VerdictOK, VerdictKinds, NotStarted, Verdict, BailsOnlyWithoutSpace
<1> QED
  BY <1>1, <1>2, <1>3, <1>4, EmptyTable DEF IInv, Started

LEMMA InitInv ==
  ASSUME Init
  PROVE  IInv /\ Abstract!Init
<1>1. PICK prog \in Programs : heap = prog.heap /\ root = prog.root
  BY DEF Init
<1>2. HeapOK
  BY <1>1, ProgramsAssumption DEF HeapOK, TreeOK
<1>3. IInv
  BY <1>2, StartInv DEF Init, Started
<1>4. symtab.size = 0
  BY DEF Init, NoTable
<1> QED
  BY <1>3, <1>4, EmptyScope DEF Abstract!Init

LEMMA NextInv ==
  ASSUME IInv, [Next]_vars
  PROVE  IInv' /\ [Abstract!Next]_Abstract!vars
<1>1. CASE ScopeInitialize
  BY <1>1, InitializeStep
<1>2. CASE ScopeCheckProgram
  BY <1>2, ProgramStep
<1>3. CASE CheckDecls
  BY <1>3, DeclSteps
<1>4. CASE CheckStmts
  BY <1>4, StmtSteps
<1>5. CASE CheckExprs
  BY <1>5, ExprSteps
<1>6. CASE Return
  BY <1>6, ReturnStep
<1>7. CASE UNCHANGED vars
  BY <1>7, StayStep
<1> QED
  BY <1>1, <1>2, <1>3, <1>4, <1>5, <1>6, <1>7 DEF Next, Step, Stay

\* The tree, the table, the walk and the verdict stay consistent in every state.
THEOREM Invariant == Spec => []IInv
<1>1. Init => IInv
  BY InitInv
<1>2. IInv /\ [Next]_vars => IInv'
  BY NextInv
<1> QED
  BY <1>1, <1>2, PTL DEF Spec

LEMMA IInvImpliesTypeOK == IInv => TypeOK
BY DEF IInv, HeapOK, TreeOK, TableInv, TableOK, VerdictOK, TypeOK

\* The checker does not change the tree.
LEMMA StepKeepsTree == ASSUME Step PROVE UNCHANGED <<heap, root>>
<1>1. CASE ScopeInitialize
  BY <1>1 DEF ScopeInitialize, bail_with_error, Crash, general_error
<1>2. ASSUME NEW body, Do(body)
      PROVE  UNCHANGED <<heap, root>>
  BY <1>2 DEF Do
<1>3. ASSUME NEW kind, NEW floc, NEW name, general_error(kind, floc, name)
      PROVE  UNCHANGED <<heap, root>>
  BY <1>3 DEF general_error
<1>4. ASSUME NEW assoc, scope_insert(assoc)
      PROVE  UNCHANGED <<heap, root>>
  BY <1>3, <1>4 DEF scope_insert, bail_with_error
<1>5. CASE CheckDecls
  BY <1>2, <1>3, <1>4, <1>5 DEF CheckDecls, ScopeCheckConstDecls, ScopeCheckConstDecl,
     ScopeCheckVarDecls, ScopeCheckVarDecl, DoList, add_ident_to_scope, LookupCrashes, Crash
<1>6. CASE CheckStmts
  BY <1>2, <1>3, <1>6 DEF CheckStmts, ScopeCheckStmt, ScopeCheckAssignStmt,
     ScopeCheckBeginStmt, ScopeCheckStmts, ScopeCheckWhile, ScopeCheckIfStmt,
     ScopeCheckReadStmt, ScopeCheckWriteStmt, DoList, bail_with_error
<1>7. CASE CheckExprs
  BY <1>2, <1>3, <1>7 DEF CheckExprs, ScopeCheckCond, ScopeCheckExpr, ScopeCheckIdent,
     ScopeCheckBinExpr, scope_check_ident, LookupCrashes, Crash, bail_with_error
<1> QED
  BY <1>1, <1>2, <1>3, <1>5, <1>6, <1>7 DEF Step, ScopeCheckProgram, Return

\* Whatever the program and the capacity, each function of scope_check.c is
\* called with a node of a kind it expects, or, if it loops, with NULL.
THEOREM TypeCorrect == Spec => []TypeOK
BY IInvImpliesTypeOK, Invariant, PTL

\* A table that has not overflowed is a list of distinct names whose offsets
\* are their indices, and no slot in use is uninitialized.
THEOREM TableIsCorrect == Spec => []TableIsAList
<1>1. IInv => TableIsAList
  BY DEF IInv, TableInv
<1> QED
  BY <1>1, Invariant, PTL

\* The "unexpected type_tag" calls of bail_with_error are unreachable.
THEOREM BailsAreForSpace == Spec => []BailsOnlyWithoutSpace
<1>1. IInv => BailsOnlyWithoutSpace
  BY DEF IInv, VerdictOK
<1> QED
  BY <1>1, Invariant, PTL

\* The table implements the scope that scope_symtab.h promises: every step of
\* the checker declares a new name, voids the contract, or changes nothing.
THEOREM Refinement == Spec => RefinesScope
<1>1. Init => Abstract!Init
  BY InitInv
<1>2. IInv /\ [Next]_vars => [Abstract!Next]_Abstract!vars
  BY NextInv
<1> QED
  BY <1>1, <1>2, Invariant, PTL DEF Spec, RefinesScope, Abstract!Spec

-----------------------------------------------------------------------------
(* The lists and the uses of a tree exist: its pointers lead nowhere twice.*)

\* The pointers to nodes of a rank below k.
RankBelow(r, k) == {p \in 0 .. Len(heap) : p = NULL \/ r[p] < k}

LEMMA RankSteps ==
  ASSUME HeapOK, NEW b \in Nat, NEW r \in [1 .. Len(heap) -> 0 .. b], Ranked(heap, r),
         NEW k \in Nat
  PROVE  /\ RankBelow(r, 0) = {NULL} /\ NULL \in RankBelow(r, k)
         /\ RankBelow(r, b + 1) = 0 .. Len(heap)
         /\ RankBelow(r, k) \subseteq RankBelow(r, k + 1)
         /\ \A p \in RankBelow(r, k + 1) \ {NULL} :
              /\ p \in 1 .. Len(heap)
              /\ heap[p].next \in RankBelow(r, k)
              /\ heap[p].tag \in DOMAIN SlotTags =>
                   \A j \in DOMAIN SlotTags[heap[p].tag] : heap[p].kids[j] \in RankBelow(r, k)
<1>1. Len(heap) \in Nat
  BY DEF HeapOK, TreeOK
<1>2. \A p \in 1 .. Len(heap) : r[p] \in 0 .. b
  OBVIOUS
<1>3. \A p \in 0 .. Len(heap) : p = NULL \/ p \in 1 .. Len(heap)
  BY <1>1 DEF NULL
<1>4. /\ RankBelow(r, 0) = {NULL} /\ NULL \in RankBelow(r, k)
      /\ RankBelow(r, b + 1) = 0 .. Len(heap)
      /\ RankBelow(r, k) \subseteq RankBelow(r, k + 1)
  BY <1>1, <1>2, <1>3 DEF RankBelow, NULL
<1>5. ASSUME NEW p \in RankBelow(r, k + 1) \ {NULL}
      PROVE  /\ p \in 1 .. Len(heap)
             /\ \A q : Lower(heap, r, p, q) => q \in RankBelow(r, k)
  BY <1>1, <1>2, <1>3 DEF RankBelow, Lower, NULL
<1>6. ASSUME NEW p \in RankBelow(r, k + 1) \ {NULL}
      PROVE  /\ p \in 1 .. Len(heap)
             /\ heap[p].next \in RankBelow(r, k)
             /\ heap[p].tag \in DOMAIN SlotTags =>
                  \A j \in DOMAIN SlotTags[heap[p].tag] : heap[p].kids[j] \in RankBelow(r, k)
  BY <1>5, <1>6 DEF Ranked, LinksOf
<1> QED
  BY <1>4, <1>6

LEMMA SeqsOf ==
  ASSUME NEW T
  PROVE  /\ <<>> \in Seq(T) /\ \A p \in T : <<p>> \in Seq(T)
         /\ \A x, y \in Seq(T) : x \o y \in Seq(T)
OBVIOUS

\* The equation of Chain, for the pointers of D.
ChainFrom(p, f) == IF p = NULL THEN <<>> ELSE <<p>> \o f[heap[p].next]
ChainIn(D, f) == f = [p \in D |-> ChainFrom(p, f)]

LEMMA ChainExists ==
  ASSUME HeapOK, Acyclic(heap)
  PROVE  \E f : ChainIn(0 .. Len(heap), f)
<1>0. PICK b \in Nat : \E r \in [1 .. Len(heap) -> 0 .. b] : Ranked(heap, r)
  BY DEF Acyclic
<1>1. PICK r \in [1 .. Len(heap) -> 0 .. b] : Ranked(heap, r)
  BY <1>0
<1> DEFINE S == {k \in 0 .. b + 1 : \E f : ChainIn(RankBelow(r, k), f)}
<1>2. 0 \in S
  <2> DEFINE f == [p \in {NULL} |-> <<>>]
  <2>1. f = [p \in {NULL} |-> ChainFrom(p, f)]
    BY DEF ChainFrom
  <2>2. RankBelow(r, 0) = {NULL}
    BY <1>1, RankSteps
  <2> HIDE DEF f
  <2>3. ChainIn(RankBelow(r, 0), f)
    BY <2>1, <2>2 DEF ChainIn
  <2> QED
    BY <2>3
<1>3. ASSUME NEW k \in 0 .. b, k \in S
      PROVE  k + 1 \in S
  <2> DEFINE C == RankBelow(r, k)
             D == RankBelow(r, k + 1)
  <2>1. PICK f : ChainIn(C, f)
    BY <1>3
  <2>2. /\ C \subseteq D
        /\ \A p \in D \ {NULL} : p \in 1 .. Len(heap) /\ heap[p].next \in C
    BY <1>1, RankSteps
  <2> DEFINE g == [p \in D |-> ChainFrom(p, f)]
  <2> HIDE DEF C, D
  <2>3. \A p \in C : f[p] = ChainFrom(p, f)
    BY <2>1 DEF ChainIn
  <2>4. \A p \in D : g[p] = ChainFrom(p, f)
    OBVIOUS
  <2> HIDE DEF g
  <2>5. \A p \in C : g[p] = f[p]
    BY <2>2, <2>3, <2>4
  <2>6. \A p \in D : ChainFrom(p, g) = ChainFrom(p, f)
    BY <2>2, <2>5 DEF ChainFrom
  <2>7. ChainIn(D, g)
    BY <2>4, <2>6 DEF ChainIn, g
  <2> QED
    BY <2>7 DEF D
<1>4. b + 1 \in S
  <2> HIDE DEF S
  <2>1. b + 1 \in Nat /\ \A k \in 0 .. b + 1 - 1 : k \in 0 .. b
    OBVIOUS
  <2> QED
    BY <1>2, <1>3, <2>1, Upward
<1> QED
  BY <1>1, <1>4, RankSteps

\* Chain goes along the list.
LEMMA ChainIs ==
  ASSUME HeapOK, Acyclic(heap)
  PROVE  /\ Chain(NULL) = <<>>
         /\ \A p \in 1 .. Len(heap) : Chain(p) = <<p>> \o Chain(heap[p].next)
         /\ \A p \in 0 .. Len(heap) : Chain(p) \in Seq(1 .. Len(heap))
<1> DEFINE C == CHOOSE f : ChainIn(0 .. Len(heap), f)
<1>1. \A p : Chain(p) = C[p]
  BY DEF Chain, ChainIn, ChainFrom
<1>2. ChainIn(0 .. Len(heap), C)
  BY ChainExists
<1> HIDE DEF C
<1>3. Len(heap) \in Nat /\ NULL \in 0 .. Len(heap) /\ 1 .. Len(heap) \subseteq 0 .. Len(heap)
  BY DEF HeapOK, TreeOK, NULL
<1>4. \A p \in 0 .. Len(heap) : C[p] = ChainFrom(p, C)
  BY <1>2 DEF ChainIn
<1>5. C[NULL] = <<>>
  BY <1>3, <1>4 DEF ChainFrom
<1>6. ASSUME NEW p \in 1 .. Len(heap)
      PROVE  C[p] = <<p>> \o C[heap[p].next]
  <2>1. p # NULL
    BY DEF NULL
  <2>2. C[p] = ChainFrom(p, C)
    BY <1>3, <1>4
  <2> QED
    BY <2>1, <2>2 DEF ChainFrom
<1>7. PICK b \in Nat : \E r \in [1 .. Len(heap) -> 0 .. b] : Ranked(heap, r)
  BY DEF Acyclic
<1>8. PICK r \in [1 .. Len(heap) -> 0 .. b] : Ranked(heap, r)
  BY <1>7
<1> DEFINE S == {k \in 0 .. b + 1 : \A p \in RankBelow(r, k) : C[p] \in Seq(1 .. Len(heap))}
<1>9. 0 \in S
  <2>1. C[NULL] \in Seq(1 .. Len(heap))
    BY <1>5, SeqsOf
  <2>2. RankBelow(r, 0) = {NULL}
    BY <1>8, RankSteps
  <2> QED
    BY <2>1, <2>2
<1>10. ASSUME NEW k \in 0 .. b, k \in S
       PROVE  k + 1 \in S
  <2>1. ASSUME NEW p \in RankBelow(r, k + 1)
        PROVE  C[p] \in Seq(1 .. Len(heap))
    <3>1. CASE p = NULL
      BY <1>5, <3>1, SeqsOf
    <3>2. CASE p # NULL
      <4>1. k \in Nat /\ p \in RankBelow(r, k + 1) \ {NULL}
        BY <2>1, <3>2
      <4>2. p \in 1 .. Len(heap) /\ heap[p].next \in RankBelow(r, k)
        BY <1>8, <4>1, RankSteps
      <4>3. C[heap[p].next] \in Seq(1 .. Len(heap))
        BY <1>10, <4>2
      <4> QED
        BY <1>6, <4>2, <4>3, SeqsOf
    <3> QED
      BY <3>1, <3>2
  <2> QED
    BY <2>1
<1>11. b + 1 \in S
  <2> HIDE DEF S
  <2>1. b + 1 \in Nat /\ \A k \in 0 .. b + 1 - 1 : k \in 0 .. b
    OBVIOUS
  <2> QED
    BY <1>9, <1>10, <2>1, Upward
<1>12. \A p \in 0 .. Len(heap) : C[p] \in Seq(1 .. Len(heap))
  BY <1>8, <1>11, RankSteps
<1> QED
  BY <1>1, <1>5, <1>6, <1>12

-----------------------------------------------------------------------------
(* The same for the uses of a name.                                        *)

Reading == [one : Seq(1 .. Len(heap)), all : Seq(1 .. Len(heap))]

UsesFrom(p, f) ==
  IF p = NULL THEN [one |-> <<>>, all |-> <<>>]
  ELSE [one |-> UsesAt(p, f), all |-> UsesAt(p, f) \o f[heap[p].next].all]

UsesIn(D, f) == f = [p \in D |-> UsesFrom(p, f)]

\* The uses of a node are those of the nodes in its slots.
LEMMA UsesOfSlots ==
  ASSUME NEW p, NEW f, NEW g,
         heap[p].tag \in DOMAIN SlotTags =>
           \A k \in DOMAIN SlotTags[heap[p].tag] : f[heap[p].kids[k]] = g[heap[p].kids[k]]
  PROVE  UsesAt(p, f) = UsesAt(p, g)
<1>1. CASE heap[p].tag = "if_ast"
  <2>1. {1, 2, 3} \subseteq DOMAIN SlotTags[heap[p].tag] /\ heap[p].tag \in DOMAIN SlotTags
    BY <1>1 DEF SlotTags
  <2>2. \A k \in {1, 2, 3} : f[heap[p].kids[k]] = g[heap[p].kids[k]]
    BY <2>1
  <2> QED
    BY <1>1, <2>2 DEF UsesAt
<1>2. CASE heap[p].tag \in {"while_ast", "bin_cond_ast", "bin_expr_ast"}
  <2>1. {1, 2} \subseteq DOMAIN SlotTags[heap[p].tag] /\ heap[p].tag \in DOMAIN SlotTags
    BY <1>2 DEF SlotTags
  <2>2. \A k \in {1, 2} : f[heap[p].kids[k]] = g[heap[p].kids[k]]
    BY <2>1
  <2> QED
    BY <1>2, <2>2 DEF UsesAt
<1>3. CASE heap[p].tag \in {"begin_ast", "assign_ast", "odd_cond_ast", "write_ast"}
  <2>1. 1 \in DOMAIN SlotTags[heap[p].tag] /\ heap[p].tag \in DOMAIN SlotTags
    BY <1>3 DEF SlotTags
  <2>2. f[heap[p].kids[1]] = g[heap[p].kids[1]]
    BY <2>1
  <2> QED
    BY <1>3, <2>2 DEF UsesAt
<1>4. CASE heap[p].tag \notin {"if_ast", "while_ast", "bin_cond_ast", "bin_expr_ast",
                              "begin_ast", "assign_ast", "odd_cond_ast", "write_ast"}
  BY <1>4 DEF UsesAt
<1> QED
  BY <1>1, <1>2, <1>3, <1>4

LEMMA UsesOfSlotsType ==
  ASSUME NEW p \in 1 .. Len(heap), NEW f,
         heap[p].tag \in DOMAIN SlotTags =>
           \A k \in DOMAIN SlotTags[heap[p].tag] : f[heap[p].kids[k]] \in Reading
  PROVE  UsesAt(p, f) \in Seq(1 .. Len(heap))
<1> DEFINE T == Seq(1 .. Len(heap))
<1>0. <<>> \in T /\ <<p>> \in T /\ \A x, y \in T : x \o y \in T
  BY SeqsOf
<1> HIDE DEF T
<1>5. \A x \in Reading : x.one \in T /\ x.all \in T
  BY DEF Reading, T
<1>1. CASE heap[p].tag = "if_ast"
  <2>1. {1, 2, 3} \subseteq DOMAIN SlotTags[heap[p].tag] /\ heap[p].tag \in DOMAIN SlotTags
    BY <1>1 DEF SlotTags
  <2>2. \A k \in {1, 2, 3} : f[heap[p].kids[k]].one \in T
    BY <1>5, <2>1
  <2>3. UsesAt(p, f) \in T
    BY <1>0, <1>1, <2>2 DEF UsesAt
  <2> QED
    BY <2>3 DEF T
<1>2. CASE heap[p].tag \in {"while_ast", "bin_cond_ast", "bin_expr_ast"}
  <2>1. {1, 2} \subseteq DOMAIN SlotTags[heap[p].tag] /\ heap[p].tag \in DOMAIN SlotTags
    BY <1>2 DEF SlotTags
  <2>2. \A k \in {1, 2} : f[heap[p].kids[k]].one \in T
    BY <1>5, <2>1
  <2>3. UsesAt(p, f) \in T
    BY <1>0, <1>2, <2>2 DEF UsesAt
  <2> QED
    BY <2>3 DEF T
<1>3. CASE heap[p].tag \in {"begin_ast", "assign_ast", "odd_cond_ast", "write_ast"}
  <2>1. 1 \in DOMAIN SlotTags[heap[p].tag] /\ heap[p].tag \in DOMAIN SlotTags
    BY <1>3 DEF SlotTags
  <2>2. f[heap[p].kids[1]].one \in T /\ f[heap[p].kids[1]].all \in T
    BY <1>5, <2>1
  <2>3. UsesAt(p, f) \in T
    BY <1>0, <1>3, <2>2 DEF UsesAt
  <2> QED
    BY <2>3 DEF T
<1>4. CASE heap[p].tag \notin {"if_ast", "while_ast", "bin_cond_ast", "bin_expr_ast",
                              "begin_ast", "assign_ast", "odd_cond_ast", "write_ast"}
  <2>1. UsesAt(p, f) \in T
    BY <1>0, <1>4 DEF UsesAt
  <2> QED
    BY <2>1 DEF T
<1> QED
  BY <1>1, <1>2, <1>3, <1>4

LEMMA UsesExist ==
  ASSUME HeapOK, Acyclic(heap)
  PROVE  \E f : UsesIn(0 .. Len(heap), f)
<1>0. PICK b \in Nat : \E r \in [1 .. Len(heap) -> 0 .. b] : Ranked(heap, r)
  BY DEF Acyclic
<1>1. PICK r \in [1 .. Len(heap) -> 0 .. b] : Ranked(heap, r)
  BY <1>0
<1> DEFINE S == {k \in 0 .. b + 1 : \E f : UsesIn(RankBelow(r, k), f)}
<1>2. 0 \in S
  <2> DEFINE f == [p \in {NULL} |-> [one |-> <<>>, all |-> <<>>]]
  <2>1. f = [p \in {NULL} |-> UsesFrom(p, f)]
    BY DEF UsesFrom
  <2>2. RankBelow(r, 0) = {NULL}
    BY <1>1, RankSteps
  <2> HIDE DEF f
  <2>3. UsesIn(RankBelow(r, 0), f)
    BY <2>1, <2>2 DEF UsesIn
  <2> QED
    BY <2>3
<1>3. ASSUME NEW k \in 0 .. b, k \in S
      PROVE  k + 1 \in S
  <2> DEFINE C == RankBelow(r, k)
             D == RankBelow(r, k + 1)
  <2>1. PICK f : UsesIn(C, f)
    BY <1>3
  <2>2. /\ C \subseteq D
        /\ \A p \in D \ {NULL} :
             /\ heap[p].next \in C
             /\ heap[p].tag \in DOMAIN SlotTags =>
                  \A j \in DOMAIN SlotTags[heap[p].tag] : heap[p].kids[j] \in C
    BY <1>1, RankSteps
  <2> DEFINE g == [p \in D |-> UsesFrom(p, f)]
  <2> HIDE DEF C, D
  <2>3. \A p \in C : f[p] = UsesFrom(p, f)
    BY <2>1 DEF UsesIn
  <2>4. \A p \in D : g[p] = UsesFrom(p, f)
    OBVIOUS
  <2> HIDE DEF g
  <2>5. \A p \in C : g[p] = f[p]
    BY <2>2, <2>3, <2>4
  <2>6. ASSUME NEW p \in D
        PROVE  UsesFrom(p, g) = UsesFrom(p, f)
    <3>1. CASE p = NULL
      BY <3>1 DEF UsesFrom
    <3>2. CASE p # NULL
      <4>1. heap[p].next \in C /\ g[heap[p].next] = f[heap[p].next]
        BY <2>2, <2>5, <3>2
      <4>2. heap[p].tag \in DOMAIN SlotTags =>
              \A j \in DOMAIN SlotTags[heap[p].tag] : g[heap[p].kids[j]] = f[heap[p].kids[j]]
        BY <2>2, <2>5, <3>2
      <4>3. UsesAt(p, g) = UsesAt(p, f)
        BY <4>2, UsesOfSlots
      <4> QED
        BY <3>2, <4>1, <4>3 DEF UsesFrom
    <3> QED
      BY <3>1, <3>2
  <2>7. UsesIn(D, g)
    BY <2>4, <2>6 DEF UsesIn, g
  <2> QED
    BY <2>7 DEF D
<1>4. b + 1 \in S
  <2> HIDE DEF S
  <2>1. b + 1 \in Nat /\ \A k \in 0 .. b + 1 - 1 : k \in 0 .. b
    OBVIOUS
  <2> QED
    BY <1>2, <1>3, <2>1, Upward
<1> QED
  BY <1>1, <1>4, RankSteps

\* The uses below each node.
UsesMap == CHOOSE f : UsesIn(0 .. Len(heap), f)

LEMMA UsesMapIs ==
  ASSUME HeapOK, Acyclic(heap)
  PROVE  /\ Uses = UsesMap[heap[root].kids[3]].one
         /\ UsesMap[NULL].all = <<>>
         /\ \A p \in 1 .. Len(heap) :
              /\ UsesMap[p].one = UsesAt(p, UsesMap)
              /\ UsesMap[p].all = UsesMap[p].one \o UsesMap[heap[p].next].all
         /\ \A p \in 0 .. Len(heap) : UsesMap[p] \in Reading
<1>1. Uses = UsesMap[heap[root].kids[3]].one
  BY DEF Uses, UsesMap, UsesIn, UsesFrom
<1>2. UsesIn(0 .. Len(heap), UsesMap)
  BY UsesExist DEF UsesMap
<1>3. Len(heap) \in Nat /\ NULL \in 0 .. Len(heap) /\ 1 .. Len(heap) \subseteq 0 .. Len(heap)
  BY DEF HeapOK, TreeOK, NULL
<1>4. \A p \in 0 .. Len(heap) : UsesMap[p] = UsesFrom(p, UsesMap)
  BY <1>2 DEF UsesIn
<1>5. UsesMap[NULL] = [one |-> <<>>, all |-> <<>>]
  BY <1>3, <1>4 DEF UsesFrom
<1>6. ASSUME NEW p \in 1 .. Len(heap)
      PROVE  UsesMap[p] = [one |-> UsesAt(p, UsesMap),
                           all |-> UsesAt(p, UsesMap) \o UsesMap[heap[p].next].all]
  <2>1. p # NULL
    BY DEF NULL
  <2>2. UsesMap[p] = UsesFrom(p, UsesMap)
    BY <1>3, <1>4
  <2> QED
    BY <2>1, <2>2 DEF UsesFrom
<1>7. PICK b \in Nat : \E r \in [1 .. Len(heap) -> 0 .. b] : Ranked(heap, r)
  BY DEF Acyclic
<1>8. PICK r \in [1 .. Len(heap) -> 0 .. b] : Ranked(heap, r)
  BY <1>7
<1> DEFINE S == {k \in 0 .. b + 1 : \A p \in RankBelow(r, k) : UsesMap[p] \in Reading}
<1>9. UsesMap[NULL] \in Reading
  BY <1>5, SeqsOf DEF Reading
<1>10. 0 \in S
  <2>1. RankBelow(r, 0) = {NULL}
    BY <1>8, RankSteps
  <2> QED
    BY <1>9, <2>1
<1>11. ASSUME NEW k \in 0 .. b, k \in S
       PROVE  k + 1 \in S
  <2>0. \A p \in RankBelow(r, k + 1) \ {NULL} :
          /\ p \in 1 .. Len(heap)
          /\ heap[p].next \in RankBelow(r, k)
          /\ heap[p].tag \in DOMAIN SlotTags =>
               \A j \in DOMAIN SlotTags[heap[p].tag] : heap[p].kids[j] \in RankBelow(r, k)
    <3>1. k \in Nat
      OBVIOUS
    <3> QED
      BY ONLY <1>8, <3>1, HeapOK, b \in Nat, r \in [1 .. Len(heap) -> 0 .. b], RankSteps
  <2>1. ASSUME NEW p \in RankBelow(r, k + 1)
        PROVE  UsesMap[p] \in Reading
    <3>1. CASE p = NULL
      BY <1>9, <3>1
    <3>2. CASE p # NULL
      <4>1. /\ p \in 1 .. Len(heap) /\ heap[p].next \in RankBelow(r, k)
            /\ heap[p].tag \in DOMAIN SlotTags =>
                 \A j \in DOMAIN SlotTags[heap[p].tag] : heap[p].kids[j] \in RankBelow(r, k)
        BY <2>0, <3>2
      <4>2. UsesMap[heap[p].next].all \in Seq(1 .. Len(heap))
        <5>1. UsesMap[heap[p].next] \in Reading
          BY <1>11, <4>1
        <5> QED
          BY <5>1 DEF Reading
      <4>3. UsesAt(p, UsesMap) \in Seq(1 .. Len(heap))
        <5>1. heap[p].tag \in DOMAIN SlotTags =>
                \A j \in DOMAIN SlotTags[heap[p].tag] : UsesMap[heap[p].kids[j]] \in Reading
          BY <1>11, <4>1
        <5> QED
          BY <4>1, <5>1, UsesOfSlotsType
      <4>4. UsesAt(p, UsesMap) \o UsesMap[heap[p].next].all \in Seq(1 .. Len(heap))
        BY <4>2, <4>3, SeqsOf
      <4> QED
        <5>1. UsesMap[p] = [one |-> UsesAt(p, UsesMap),
                            all |-> UsesAt(p, UsesMap) \o UsesMap[heap[p].next].all]
          BY <1>6, <4>1
        <5> QED
          BY ONLY <4>3, <4>4, <5>1 DEF Reading
    <3> QED
      BY <3>1, <3>2
  <2> QED
    BY <2>1
<1>12. b + 1 \in S
  <2> HIDE DEF S
  <2>1. b + 1 \in Nat /\ \A k \in 0 .. b + 1 - 1 : k \in 0 .. b
    OBVIOUS
  <2> QED
    BY <1>10, <1>11, <2>1, Upward
<1>13. \A p \in 0 .. Len(heap) : UsesMap[p] \in Reading
  BY <1>8, <1>12, RankSteps
<1>14. /\ UsesMap[NULL].all = <<>>
       /\ \A p \in 1 .. Len(heap) :
            /\ UsesMap[p].one = UsesAt(p, UsesMap)
            /\ UsesMap[p].all = UsesMap[p].one \o UsesMap[heap[p].next].all
  <2>1. UsesMap[NULL].all = <<>>
    BY <1>5
  <2>2. ASSUME NEW p \in 1 .. Len(heap)
        PROVE  /\ UsesMap[p].one = UsesAt(p, UsesMap)
               /\ UsesMap[p].all = UsesMap[p].one \o UsesMap[heap[p].next].all
    <3>1. UsesMap[p] = [one |-> UsesAt(p, UsesMap),
                        all |-> UsesAt(p, UsesMap) \o UsesMap[heap[p].next].all]
      BY <1>6
    <3> DEFINE x == UsesAt(p, UsesMap)
               y == UsesAt(p, UsesMap) \o UsesMap[heap[p].next].all
    <3>2. UsesMap[p].one = x /\ UsesMap[p].all = y
      <4> HIDE DEF x, y
      <4> QED
        BY <3>1 DEF x, y
    <3> QED
      BY <3>2
  <2> QED
    BY <2>1, <2>2
<1> QED
  BY <1>1, <1>13, <1>14

-----------------------------------------------------------------------------
(* What is read from the tree, and what part of it a call stands for.      *)

Readings ==
  [decls |-> Decls, uses |-> Uses, list |-> [p \in 0 .. Len(heap) |-> Chain(p)],
   below |-> UsesMap, root |-> root]

LEMMA SameReadings == ASSUME UNCHANGED <<heap, root>> PROVE UNCHANGED Readings
BY DEF Readings, Decls, Chain, Uses, UsesMap, UsesIn, UsesFrom, UsesAt

Pointers == 0 .. Len(heap)
NodeSeqs == Seq(1 .. Len(heap))

\* Kids of the program.
Slot(k) == heap[root].kids[k]

LEMMA ReadingsAre ==
  ASSUME HeapOK, Acyclic(heap), NEW R, R = Readings
  PROVE  /\ R.decls = Decls /\ R.uses = Uses
         /\ R.decls = R.list[Slot(1)] \o R.list[Slot(2)]
         /\ R.uses = R.below[Slot(3)].one
         /\ R.list[NULL] = <<>> /\ R.below[NULL].all = <<>>
         /\ \A p \in 1 .. Len(heap) :
              /\ R.list[p] = <<p>> \o R.list[heap[p].next]
              /\ R.below[p].one = UsesAt(p, R.below)
              /\ R.below[p].all = R.below[p].one \o R.below[heap[p].next].all
         /\ \A p \in Pointers :
              /\ R.list[p] \in NodeSeqs
              /\ R.below[p].one \in NodeSeqs /\ R.below[p].all \in NodeSeqs
         /\ R.decls \in NodeSeqs /\ R.uses \in NodeSeqs
<1> DEFINE L == [p \in Pointers |-> Chain(p)]
<1>1. R.decls = Decls /\ R.uses = Uses /\ R.list = L /\ R.below = UsesMap
  BY DEF Readings, Pointers
<1>2. \A p \in Pointers : L[p] = Chain(p)
  OBVIOUS
<1> HIDE DEF L
<1>3. /\ Len(heap) \in Nat /\ NULL \in Pointers /\ 1 .. Len(heap) \subseteq Pointers
      /\ Slot(1) \in Pointers /\ Slot(2) \in Pointers /\ Slot(3) \in Pointers
      /\ \A p \in 1 .. Len(heap) : heap[p].next \in Pointers
  <2>1. /\ Len(heap) \in Nat /\ NULL \in Pointers
    BY DEF HeapOK, TreeOK, NULL, Pointers
  <2>2. Slot(1) \in Pointers /\ Slot(2) \in Pointers /\ Slot(3) \in Pointers
    BY <2>1, SlotsOfProgram DEF HeapOK, TreeOK, Points, Slot, Pointers, NULL
  <2>3. \A p \in 1 .. Len(heap) : heap[p].next \in Pointers
    BY <2>1, AcyclicNext DEF Pointers, NULL
  <2> QED
    BY <2>1, <2>2, <2>3 DEF Pointers
<1>4. /\ Chain(NULL) = <<>>
      /\ \A p \in 1 .. Len(heap) : Chain(p) = <<p>> \o Chain(heap[p].next)
      /\ \A p \in Pointers : Chain(p) \in NodeSeqs
  BY ChainIs DEF Pointers, NodeSeqs
<1>5. /\ Uses = UsesMap[Slot(3)].one
      /\ UsesMap[NULL].all = <<>>
      /\ \A p \in 1 .. Len(heap) :
           /\ UsesMap[p].one = UsesAt(p, UsesMap)
           /\ UsesMap[p].all = UsesMap[p].one \o UsesMap[heap[p].next].all
      /\ \A p \in Pointers : UsesMap[p].one \in NodeSeqs /\ UsesMap[p].all \in NodeSeqs
  BY UsesMapIs DEF Slot, Pointers, NodeSeqs, Reading
<1>6. Decls = L[Slot(1)] \o L[Slot(2)]
  BY <1>2, <1>3 DEF Decls, Slot
<1>7. L[NULL] = <<>> /\ \A p \in 1 .. Len(heap) : L[p] = <<p>> \o L[heap[p].next]
  BY <1>2, <1>3, <1>4
<1>8. \A p \in Pointers : L[p] \in NodeSeqs
  BY <1>2, <1>4
<1>9. Decls \in NodeSeqs
  BY <1>3, <1>6, <1>8, SeqsOf DEF NodeSeqs
<1>10. Uses \in NodeSeqs
  BY <1>3, <1>5
<1> QED
  BY ONLY <1>1, <1>5, <1>6, <1>7, <1>8, <1>9, <1>10

EnterCalls == {"scope_check_constDecl", "scope_check_varDecl"}
EnterLists == {"scope_check_constDecls", "scope_check_varDecls"}

\* The declarations that a call enters, and the uses that it checks.
DeclsOf(R, c) ==
  CASE c.do = "scope_check_program" -> R.decls
    [] c.do \in EnterLists -> R.list[c.p]
    [] c.do \in EnterCalls -> <<c.p>>
    [] OTHER -> <<>>

UsesOf(R, c) ==
  CASE c.do = "scope_check_program" -> R.uses
    [] c.do \in EnterLists \cup EnterCalls -> <<>>
    [] c.do = "stmts" -> R.below[c.p].all
    [] c.do = "scope_check_ident" -> <<c.p>>
    [] OTHER -> R.below[c.p].one

\* A call that is made when all declarations have been entered.
Late(c) == c.do \notin {"scope_check_program"} \cup EnterLists \cup EnterCalls

\* The part of the sequence s after its first i elements, up to the j-th, is x.
Run(s, i, x, j) == j = i + Len(x) /\ \A k \in 1 .. Len(x) : s[i + k] = x[k]

\* How many declarations have been entered and uses checked.
Places(R) == [d : 0 .. Len(R.decls), u : 0 .. Len(R.uses)]

\* The call c goes from place s to place t.
Piece(R, c, s, t) ==
  /\ Run(R.decls, s.d, DeclsOf(R, c), t.d)
  /\ Run(R.uses, s.u, UsesOf(R, c), t.u)
  /\ Late(c) => s.d = Len(R.decls)
  /\ c.do = "scope_check_program" => c.p = R.root

\* The calls w go from s to t.
Covers(R, w, s, t) ==
  /\ \E S : w \in Seq(S)
  /\ \E ts \in Seq(Places(R)) :
       /\ Len(ts) = Len(w) + 1 /\ ts[1] = s /\ ts[Len(w) + 1] = t
       /\ \A k \in 1 .. Len(w) : Piece(R, w[k], ts[k], ts[k + 1])

LEMMA RunConcat ==
  ASSUME NEW s, NEW T, NEW x \in Seq(T), NEW y \in Seq(T), NEW i \in Nat, NEW j \in Nat,
         Run(s, i, x \o y, j)
  PROVE  /\ i + Len(x) \in i .. j
         /\ Run(s, i, x, i + Len(x))
         /\ Run(s, i + Len(x), y, j)
<1> DEFINE a == Len(x)
           b == Len(y)
           z == x \o y
<1>1. a \in Nat /\ b \in Nat /\ Len(z) = a + b
  OBVIOUS
<1>2. /\ \A k \in 1 .. a : z[k] = x[k]
      /\ \A k \in 1 .. b : z[a + k] = y[k]
  OBVIOUS
<1>3. j = i + Len(z) /\ \A k \in 1 .. Len(z) : s[i + k] = z[k]
  BY DEF Run
<1> HIDE DEF a, b, z
<1>4. \A k \in 1 .. a : s[i + k] = x[k]
  BY <1>1, <1>2, <1>3
<1>5. ASSUME NEW k \in 1 .. b
      PROVE  s[i + a + k] = y[k]
  <2>1. a + k \in 1 .. Len(z) /\ i + (a + k) = i + a + k
    BY <1>1
  <2> QED
    BY <1>2, <1>3, <2>1
<1>6. j = i + a + b /\ i + a \in i .. j
  BY <1>1, <1>3
<1> QED
  BY <1>4, <1>5, <1>6 DEF Run, a, b

LEMMA RunNothing ==
  ASSUME NEW s, NEW i, NEW j, Run(s, i, <<>>, j), i \in Nat
  PROVE  j = i
BY DEF Run

LEMMA CoversHead ==
  ASSUME NEW R, NEW p, NEW s, NEW t, Covers(R, p, s, t), p # <<>>
  PROVE  \E m \in Places(R) : Piece(R, Head(p), s, m) /\ Covers(R, Tail(p), m, t)
<1>1. PICK S : p \in Seq(S)
  BY DEF Covers
<1>2. PICK ts \in Seq(Places(R)) :
        /\ Len(ts) = Len(p) + 1 /\ ts[1] = s /\ ts[Len(p) + 1] = t
        /\ \A k \in 1 .. Len(p) : Piece(R, p[k], ts[k], ts[k + 1])
  BY DEF Covers
<1> DEFINE n == Len(p)
           q == Tail(p)
           us == Tail(ts)
<1>3. n \in Nat /\ n >= 1 /\ Head(p) = p[1]
  BY <1>1
<1>4. /\ q \in Seq(S) /\ Len(q) = n - 1
      /\ \A k \in 1 .. n - 1 : q[k] = p[k + 1]
  BY <1>1, <1>3
<1>5. /\ us \in Seq(Places(R)) /\ Len(us) = n
      /\ \A k \in 1 .. n : us[k] = ts[k + 1]
      /\ us[1] \in Places(R)
  BY <1>2, <1>3
<1> HIDE DEF n, q, us
<1>6. Piece(R, Head(p), s, us[1])
  BY <1>2, <1>3, <1>5 DEF n
<1>7. us[Len(q) + 1] = t
  BY <1>2, <1>3, <1>4, <1>5 DEF n
<1>8. \A k \in 1 .. Len(q) : Piece(R, q[k], us[k], us[k + 1])
  <2> TAKE k \in 1 .. Len(q)
  <2>1. k \in 1 .. n - 1 /\ k \in 1 .. n /\ k + 1 \in 1 .. n /\ k + 1 \in 1 .. Len(p)
    BY <1>3, <1>4 DEF n
  <2>2. Piece(R, p[k + 1], ts[k + 1], ts[k + 1 + 1])
    BY <1>2, <2>1
  <2>3. q[k] = p[k + 1] /\ us[k] = ts[k + 1] /\ us[k + 1] = ts[k + 1 + 1]
    BY <1>4, <1>5, <2>1
  <2> QED
    BY <2>2, <2>3
<1>9. Covers(R, q, us[1], t)
  <2>1. (\E V : q \in Seq(V)) /\ Len(us) = Len(q) + 1
    BY <1>3, <1>4, <1>5
  <2> QED
    BY <1>5, <1>7, <1>8, <2>1 DEF Covers
<1> QED
  BY <1>5, <1>6, <1>9 DEF q

LEMMA CoversConcat ==
  ASSUME NEW R, NEW p, NEW q, NEW s, NEW m, NEW t, Covers(R, p, s, m), Covers(R, q, m, t)
  PROVE  Covers(R, p \o q, s, t)
<1>1. PICK S : p \in Seq(S)
  BY DEF Covers
<1>2. PICK T : q \in Seq(T)
  BY DEF Covers
<1>3. PICK ts \in Seq(Places(R)) :
        /\ Len(ts) = Len(p) + 1 /\ ts[1] = s /\ ts[Len(p) + 1] = m
        /\ \A k \in 1 .. Len(p) : Piece(R, p[k], ts[k], ts[k + 1])
  BY DEF Covers
<1>4. PICK us \in Seq(Places(R)) :
        /\ Len(us) = Len(q) + 1 /\ us[1] = m /\ us[Len(q) + 1] = t
        /\ \A k \in 1 .. Len(q) : Piece(R, q[k], us[k], us[k + 1])
  BY DEF Covers
<1> DEFINE a == Len(p)
           b == Len(q)
           w == p \o q
           vs == [k \in 1 .. a + b + 1 |-> IF k <= a THEN ts[k] ELSE us[k - a]]
<1>5. a \in Nat /\ b \in Nat
  BY <1>1, <1>2
<1>6. p \in Seq(S \cup T) /\ q \in Seq(S \cup T)
  BY <1>1, <1>2
<1>7. /\ w \in Seq(S \cup T) /\ Len(w) = a + b
      /\ \A k \in 1 .. a + b : w[k] = IF k <= a THEN p[k] ELSE q[k - a]
  BY <1>5, <1>6
<1>8. /\ vs \in Seq(Places(R)) /\ Len(vs) = a + b + 1
      /\ \A k \in 1 .. a + b + 1 : vs[k] = IF k <= a THEN ts[k] ELSE us[k - a]
  BY <1>3, <1>4, <1>5
<1> HIDE DEF a, b, w, vs
<1>9. vs[a + 1] = us[1] /\ us[1] = m /\ ts[a + 1] = m
  BY <1>3, <1>4, <1>5, <1>8 DEF a
<1>10. vs[1] = s
  <2>1. CASE a = 0
    BY <1>3, <1>5, <1>9, <2>1
  <2>2. CASE a # 0
    BY <1>3, <1>5, <1>8, <2>2
  <2> QED
    BY <2>1, <2>2
<1>11. vs[a + b + 1] = t
  <2>1. a + b + 1 - a = b + 1 /\ a + b + 1 \in 1 .. a + b + 1
    BY <1>5
  <2>2. vs[a + b + 1] = us[b + 1]
    BY <1>5, <1>8, <2>1
  <2> QED
    BY <1>4, <2>2 DEF b
<1>12. \A k \in 1 .. a + b : Piece(R, w[k], vs[k], vs[k + 1])
  <2> TAKE k \in 1 .. a + b
  <2>1. CASE k \in 1 .. a
    <3>1. Piece(R, p[k], ts[k], ts[k + 1])
      BY <1>3, <2>1 DEF a
    <3>2. w[k] = p[k] /\ vs[k] = ts[k]
      BY <1>5, <1>7, <1>8, <2>1
    <3>3. vs[k + 1] = ts[k + 1]
      <4>1. CASE k = a
        BY <1>9, <4>1
      <4>2. CASE k # a
        BY <1>5, <1>8, <2>1, <4>2
      <4> QED
        BY <4>1, <4>2
    <3> QED
      BY <3>1, <3>2, <3>3
  <2>2. CASE k \in a + 1 .. a + b
    <3>1. k - a \in 1 .. b
      BY <1>5, <2>2
    <3>2. Piece(R, q[k - a], us[k - a], us[k - a + 1])
      BY <1>4, <3>1 DEF b
    <3>3. w[k] = q[k - a]
      BY <1>5, <1>7, <2>2
    <3>4. vs[k] = us[k - a]
      BY <1>5, <1>8, <2>2
    <3>5. vs[k + 1] = us[k - a + 1]
      <4>1. k + 1 - a = k - a + 1 /\ k + 1 \in 1 .. a + b + 1 /\ ~(k + 1 <= a)
        BY <1>5, <2>2
      <4>2. \A j \in 1 .. a + b + 1 : ~(j <= a) => vs[j] = us[j - a]
        BY <1>8
      <4>3. vs[k + 1] = us[k + 1 - a]
        BY <1>5, <2>2, <4>1, <4>2
      <4> QED
        BY <4>1, <4>3
    <3> QED
      BY <3>2, <3>3, <3>4, <3>5
  <2> QED
    BY <1>5, <2>1, <2>2
<1>13. \E V : w \in Seq(V)
  BY <1>7
<1>14. Covers(R, w, s, t)
  BY <1>7, <1>8, <1>10, <1>11, <1>12, <1>13 DEF Covers
<1> QED
  BY <1>14 DEF w

\* One, two or three calls.
LEMMA Covers0 == ASSUME NEW R, NEW s \in Places(R) PROVE Covers(R, <<>>, s, s)
<1> DEFINE ts == <<s>>
<1>1. ts \in Seq(Places(R)) /\ Len(ts) = 1 /\ ts[1] = s
  OBVIOUS
<1>2. <<>> \in Seq({}) /\ Len(<<>>) = 0
  OBVIOUS
<1> HIDE DEF ts
<1> QED
  BY <1>1, <1>2 DEF Covers

LEMMA Covers1 ==
  ASSUME NEW R, NEW a,
         NEW s \in Places(R), NEW t \in Places(R),
         Piece(R, a, s, t)
  PROVE  Covers(R, <<a>>, s, t)
<1> DEFINE p == <<a>>
           ts == <<s, t>>
<1>1. p \in Seq({a}) /\ Len(p) = 1 /\ p[1] = a
  OBVIOUS
<1>2. /\ ts \in Seq(Places(R)) /\ Len(ts) = 2
      /\ ts[1] = s /\ ts[2] = t
  OBVIOUS
<1> HIDE DEF p, ts
<1>3. \A k \in 1 .. Len(p) : Piece(R, p[k], ts[k], ts[k + 1])
  BY <1>1, <1>2
<1>4. \E S : p \in Seq(S)
  BY <1>1
<1>5. Covers(R, p, s, t)
  BY <1>1, <1>2, <1>3, <1>4 DEF Covers
<1> QED
  BY <1>5 DEF p

LEMMA Covers2 ==
  ASSUME NEW R, NEW a, NEW b,
         NEW s \in Places(R), NEW m1 \in Places(R), NEW t \in Places(R),
         Piece(R, a, s, m1), Piece(R, b, m1, t)
  PROVE  Covers(R, <<a, b>>, s, t)
<1> DEFINE p == <<a, b>>
           ts == <<s, m1, t>>
<1>1. p \in Seq({a, b}) /\ Len(p) = 2 /\ p[1] = a /\ p[2] = b
  OBVIOUS
<1>2. /\ ts \in Seq(Places(R)) /\ Len(ts) = 3
      /\ ts[1] = s /\ ts[2] = m1 /\ ts[3] = t
  OBVIOUS
<1> HIDE DEF p, ts
<1>3. \A k \in 1 .. Len(p) : Piece(R, p[k], ts[k], ts[k + 1])
  BY <1>1, <1>2
<1>4. \E S : p \in Seq(S)
  BY <1>1
<1>5. Covers(R, p, s, t)
  BY <1>1, <1>2, <1>3, <1>4 DEF Covers
<1> QED
  BY <1>5 DEF p

LEMMA Covers3 ==
  ASSUME NEW R, NEW a, NEW b, NEW c,
         NEW s \in Places(R), NEW m1 \in Places(R), NEW m2 \in Places(R), NEW t \in Places(R),
         Piece(R, a, s, m1), Piece(R, b, m1, m2), Piece(R, c, m2, t)
  PROVE  Covers(R, <<a, b, c>>, s, t)
<1> DEFINE p == <<a, b, c>>
           ts == <<s, m1, m2, t>>
<1>1. p \in Seq({a, b, c}) /\ Len(p) = 3 /\ p[1] = a /\ p[2] = b /\ p[3] = c
  OBVIOUS
<1>2. /\ ts \in Seq(Places(R)) /\ Len(ts) = 4
      /\ ts[1] = s /\ ts[2] = m1 /\ ts[3] = m2 /\ ts[4] = t
  OBVIOUS
<1> HIDE DEF p, ts
<1>3. \A k \in 1 .. Len(p) : Piece(R, p[k], ts[k], ts[k + 1])
  BY <1>1, <1>2
<1>4. \E S : p \in Seq(S)
  BY <1>1
<1>5. Covers(R, p, s, t)
  BY <1>1, <1>2, <1>3, <1>4 DEF Covers
<1> QED
  BY <1>5 DEF p

\* A body of no call, of one, two or three.
LEMMA Body0 ==
  ASSUME NEW R, NEW c, NEW s \in Places(R), NEW t \in Places(R), Piece(R, c, s, t),
         DeclsOf(R, c) = <<>>, UsesOf(R, c) = <<>>
  PROVE  Covers(R, <<>>, s, t)
<1>1. s.d \in Nat /\ s.u \in Nat
  BY DEF Places
<1>2. t.d = s.d /\ t.u = s.u
  BY <1>1, RunNothing DEF Piece
<1>3. t = s
  BY <1>2 DEF Places
<1> QED
  BY <1>3, Covers0

LEMMA Body1 ==
  ASSUME NEW R, NEW c, NEW c1, NEW s \in Places(R), NEW t \in Places(R), Piece(R, c, s, t),
         DeclsOf(R, c1) = DeclsOf(R, c), UsesOf(R, c1) = UsesOf(R, c), Late(c1) => Late(c),
         c1.do # "scope_check_program"
  PROVE  Covers(R, <<c1>>, s, t)
<1>1. Piece(R, c1, s, t)
  BY DEF Piece
<1> QED
  BY <1>1, Covers1

\* Where the second of two parts begins.
LEMMA PieceParts ==
  ASSUME NEW R, NEW c, NEW T, NEW s \in Places(R), NEW t \in Places(R), Piece(R, c, s, t),
         NEW x \in Seq(T), NEW y \in Seq(T), NEW u \in Seq(T), NEW v \in Seq(T),
         DeclsOf(R, c) = x \o y, UsesOf(R, c) = u \o v,
         Len(R.decls) \in Nat, Len(R.uses) \in Nat
  PROVE  \E m \in Places(R) :
           /\ Run(R.decls, s.d, x, m.d) /\ Run(R.uses, s.u, u, m.u)
           /\ Run(R.decls, m.d, y, t.d) /\ Run(R.uses, m.u, v, t.u)
<1>1. /\ s.d \in Nat /\ s.u \in Nat /\ t.d \in 0 .. Len(R.decls) /\ t.u \in 0 .. Len(R.uses)
      /\ t.d \in Nat /\ t.u \in Nat
  BY DEF Places
<1>2. Run(R.decls, s.d, x \o y, t.d) /\ Run(R.uses, s.u, u \o v, t.u)
  BY DEF Piece
<1> DEFINE a == s.d + Len(x)
           b == s.u + Len(u)
<1>3. a \in s.d .. t.d /\ Run(R.decls, s.d, x, a) /\ Run(R.decls, a, y, t.d)
  BY <1>1, <1>2, RunConcat
<1>4. b \in s.u .. t.u /\ Run(R.uses, s.u, u, b) /\ Run(R.uses, b, v, t.u)
  BY <1>1, <1>2, RunConcat
<1> HIDE DEF a, b
<1>5. [d |-> a, u |-> b] \in Places(R)
  BY <1>1, <1>3, <1>4 DEF Places
<1> QED
  BY <1>3, <1>4, <1>5

LEMMA Body2 ==
  ASSUME NEW R, NEW c, NEW c1, NEW c2, NEW T,
         NEW s \in Places(R), NEW t \in Places(R), Piece(R, c, s, t),
         DeclsOf(R, c1) \in Seq(T), DeclsOf(R, c2) \in Seq(T),
         UsesOf(R, c1) \in Seq(T), UsesOf(R, c2) \in Seq(T),
         DeclsOf(R, c) = DeclsOf(R, c1) \o DeclsOf(R, c2),
         UsesOf(R, c) = UsesOf(R, c1) \o UsesOf(R, c2),
         Len(R.decls) \in Nat, Len(R.uses) \in Nat,
         Late(c1) => Late(c),
         Late(c2) => Late(c) /\ DeclsOf(R, c1) = <<>>,
         c1.do # "scope_check_program", c2.do # "scope_check_program"
  PROVE  Covers(R, <<c1, c2>>, s, t)
<1>1. PICK m \in Places(R) :
        /\ Run(R.decls, s.d, DeclsOf(R, c1), m.d) /\ Run(R.uses, s.u, UsesOf(R, c1), m.u)
        /\ Run(R.decls, m.d, DeclsOf(R, c2), t.d) /\ Run(R.uses, m.u, UsesOf(R, c2), t.u)
  BY PieceParts
<1>2. Piece(R, c1, s, m)
  BY <1>1 DEF Piece
<1>3. Late(c2) => m.d = Len(R.decls)
  <2> SUFFICES ASSUME Late(c2)
               PROVE  m.d = Len(R.decls)
    OBVIOUS
  <2>1. s.d = Len(R.decls) /\ s.d \in Nat
    BY DEF Piece, Places
  <2> QED
    BY <1>1, <2>1, RunNothing
<1>4. Piece(R, c2, m, t)
  BY <1>1, <1>3 DEF Piece
<1> QED
  BY <1>2, <1>4, Covers2

LEMMA Body3 ==
  ASSUME NEW R, NEW c, NEW c1, NEW c2, NEW c3, NEW T,
         NEW s \in Places(R), NEW t \in Places(R), Piece(R, c, s, t),
         DeclsOf(R, c1) \in Seq(T), DeclsOf(R, c2) \in Seq(T), DeclsOf(R, c3) \in Seq(T),
         UsesOf(R, c1) \in Seq(T), UsesOf(R, c2) \in Seq(T), UsesOf(R, c3) \in Seq(T),
         DeclsOf(R, c) = DeclsOf(R, c1) \o DeclsOf(R, c2) \o DeclsOf(R, c3),
         UsesOf(R, c) = UsesOf(R, c1) \o UsesOf(R, c2) \o UsesOf(R, c3),
         Len(R.decls) \in Nat, Len(R.uses) \in Nat,
         Late(c1) => Late(c),
         Late(c2) => Late(c) /\ DeclsOf(R, c1) = <<>>,
         \A m \in Places(R) :
           Late(c3) /\ Run(R.decls, m.d, DeclsOf(R, c3), t.d) => m.d = Len(R.decls),
         c1.do # "scope_check_program", c2.do # "scope_check_program",
         c3.do # "scope_check_program"
  PROVE  Covers(R, <<c1, c2, c3>>, s, t)
<1> DEFINE x == DeclsOf(R, c1) \o DeclsOf(R, c2)
           u == UsesOf(R, c1) \o UsesOf(R, c2)
<1>1. x \in Seq(T) /\ u \in Seq(T)
  BY SeqsOf
<1>2. PICK m \in Places(R) :
        /\ Run(R.decls, s.d, x, m.d) /\ Run(R.uses, s.u, u, m.u)
        /\ Run(R.decls, m.d, DeclsOf(R, c3), t.d) /\ Run(R.uses, m.u, UsesOf(R, c3), t.u)
  BY <1>1, PieceParts
<1>3. Piece(R, c3, m, t)
  BY <1>2 DEF Piece
<1>4. s.d \in Nat /\ s.u \in Nat /\ m.d \in 0 .. Len(R.decls) /\ m.u \in 0 .. Len(R.uses)
  BY DEF Places
<1> DEFINE a == s.d + Len(DeclsOf(R, c1))
           b == s.u + Len(UsesOf(R, c1))
           n == [d |-> a, u |-> b]
<1>5. /\ a \in s.d .. m.d /\ Run(R.decls, s.d, DeclsOf(R, c1), a)
      /\ Run(R.decls, a, DeclsOf(R, c2), m.d)
  <2>1. m.d \in Nat
    BY <1>4
  <2> QED
    BY <1>2, <1>4, <2>1, RunConcat
<1>6. /\ b \in s.u .. m.u /\ Run(R.uses, s.u, UsesOf(R, c1), b)
      /\ Run(R.uses, b, UsesOf(R, c2), m.u)
  <2>1. m.u \in Nat
    BY <1>4
  <2> QED
    BY <1>2, <1>4, <2>1, RunConcat
<1>7. Late(c2) => a = s.d
  BY <1>4
<1>8. Late(c1) \/ Late(c2) => s.d = Len(R.decls)
  BY DEF Piece
<1> HIDE DEF a, b
<1>9. n \in Places(R) /\ n.d = a /\ n.u = b
  BY <1>4, <1>5, <1>6 DEF Places
<1>10. Piece(R, c1, s, n) /\ Piece(R, c2, n, m)
  BY <1>5, <1>6, <1>7, <1>8, <1>9 DEF Piece
<1> HIDE DEF n
<1> QED
  BY <1>3, <1>9, <1>10, Covers3

-----------------------------------------------------------------------------
(* The invariant of the walk.                                              *)

\* The calls left go from what has been entered and checked to the end, and
\* no use checked so far is undeclared.
WalkFrom(s) ==
  /\ s \in Places(Readings)
  /\ s.d = symtab.size
  /\ Covers(Readings, work, s, [d |-> Len(Decls), u |-> Len(Uses)])
  /\ ~Overflowed => \A j \in 1 .. s.u : ~Undeclared(j)

WalkInv ==
  /\ Acyclic(heap)
  /\ verdict \in {NotStarted, Checking} => \E s : WalkFrom(s)
  /\ TableHoldsDeclarations
  /\ VerdictIsFirstError

Known == IInv /\ WalkInv

LEMMA KnownReadings ==
  ASSUME Known
  PROVE  /\ HeapOK /\ Acyclic(heap) /\ TableInv
         /\ Decls \in NodeSeqs /\ Len(Decls) \in Nat
         /\ Uses \in NodeSeqs /\ Len(Uses) \in Nat
         /\ Readings.decls = Decls /\ Readings.uses = Uses
         /\ symtab.size \in Nat
<1>1. HeapOK /\ Acyclic(heap) /\ TableInv
  BY DEF Known, IInv, WalkInv
<1>2. /\ Readings.decls = Decls /\ Readings.uses = Uses
      /\ Readings.decls \in NodeSeqs /\ Readings.uses \in NodeSeqs
  BY <1>1, ReadingsAre
<1>3. symtab.size \in Nat
  BY <1>1 DEF TableInv, TableOK
<1>4. \A x \in NodeSeqs : Len(x) \in Nat
  BY DEF NodeSeqs
<1> QED
  BY <1>1, <1>2, <1>3, <1>4

LEMMA SameTree ==
  ASSUME Acyclic(heap), UNCHANGED <<heap, root>>
  PROVE  /\ Acyclic(heap)' /\ Readings' = Readings /\ Decls' = Decls /\ Uses' = Uses
         /\ \A p : Name(p)' = Name(p)
         /\ \A j : Undeclared(j)' <=> Undeclared(j)
         /\ \A j : Second(j)' <=> Second(j)
<1>1. Readings' = Readings
  BY SameReadings
<1>2. Decls' = Decls /\ Uses' = Uses
  BY DEF Decls, Chain, Uses, UsesAt
<1>3. \A p : Name(p)' = Name(p)
  BY DEF Name
<1>4. \A j : Undeclared(j)' <=> Undeclared(j)
  BY <1>2 DEF Undeclared, Name
<1>5. \A j : Second(j)' <=> Second(j)
  BY <1>2 DEF Second, Name
<1> QED
  BY <1>1, <1>2, <1>3, <1>4, <1>5

LEMMA TableStays ==
  ASSUME TableHoldsDeclarations, UNCHANGED <<heap, root, symtab>>
  PROVE  TableHoldsDeclarations'
<1>1. Decls' = Decls
  BY DEF Decls, Chain
<1> QED
  BY <1>1 DEF TableHoldsDeclarations, Overflowed

LEMMA NoVerdictYet ==
  ASSUME verdict.kind \in {"not_started", "checking", "bail", "crash"}
  PROVE  VerdictIsFirstError
BY DEF VerdictIsFirstError

\* A step that only replaces the first call by those it makes.
LEMMA WalkOn ==
  ASSUME Known, verdict = Checking, work # <<>>, UNCHANGED <<heap, root, symtab, verdict>>,
         NEW body, work' = body \o Tail(work),
         \A s, t \in Places(Readings) :
           /\ s.d = symtab.size
           /\ Piece(Readings, Head(work), s, t)
           /\ ~Overflowed => \A j \in 1 .. s.u : ~Undeclared(j)
           => \E m \in Places(Readings) :
                /\ m.d = symtab.size
                /\ Covers(Readings, body, m, t)
                /\ ~Overflowed => \A j \in 1 .. m.u : ~Undeclared(j)
  PROVE  WalkInv'
<1> DEFINE e == [d |-> Len(Decls), u |-> Len(Uses)]
<1>1. PICK s : WalkFrom(s)
  BY DEF Known, WalkInv
<1>2. PICK t \in Places(Readings) : /\ Piece(Readings, Head(work), s, t)
                                    /\ Covers(Readings, Tail(work), t, e)
  BY <1>1, CoversHead DEF WalkFrom
<1>3. PICK m \in Places(Readings) :
        /\ m.d = symtab.size
        /\ Covers(Readings, body, m, t)
        /\ ~Overflowed => \A j \in 1 .. m.u : ~Undeclared(j)
  BY <1>1, <1>2 DEF WalkFrom
<1>4. Covers(Readings, body \o Tail(work), m, e)
  BY <1>2, <1>3, CoversConcat
<1>5. /\ Acyclic(heap)' /\ Readings' = Readings /\ Decls' = Decls /\ Uses' = Uses
      /\ \A j : Undeclared(j)' <=> Undeclared(j)
  BY SameTree DEF Known, WalkInv
<1>6. Overflowed' <=> Overflowed
  BY DEF Overflowed
<1>7. WalkFrom(m)'
  BY <1>3, <1>4, <1>5, <1>6 DEF WalkFrom
<1>8. VerdictIsFirstError'
  <2>1. verdict'.kind = "checking"
    BY DEF Checking, Verdict
  <2> QED
    BY <2>1 DEF VerdictIsFirstError
<1> QED
  BY <1>5, <1>7, <1>8, TableStays DEF Known, WalkInv

\* The process ends early, without a verdict on the program.
LEMMA WalkBreaks ==
  ASSUME Known, UNCHANGED <<heap, root, symtab>>,
         verdict'.kind \in {"bail", "crash"}
  PROVE  WalkInv'
<1>1. Acyclic(heap)'
  BY SameTree DEF Known, WalkInv
<1>2. verdict' \notin {NotStarted, Checking}
  BY DEF NotStarted, Checking, Verdict
<1>3. (verdict \notin {NotStarted, Checking})'
  BY <1>2 DEF NotStarted, Checking, Verdict
<1>4. VerdictIsFirstError'
  BY DEF VerdictIsFirstError
<1> QED
  BY <1>1, <1>3, <1>4, TableStays DEF Known, WalkInv

-----------------------------------------------------------------------------
(* What the calls a function makes cover is what the function covers.      *)

\* A step that only goes deeper into the tree.
LEMMA WalkDown ==
  ASSUME Known, verdict = Checking, work # <<>>, UNCHANGED <<heap, root, symtab, verdict>>,
         NEW body, work' = body \o Tail(work),
         \A s, t \in Places(Readings) :
           Piece(Readings, Head(work), s, t) => Covers(Readings, body, s, t)
  PROVE  WalkInv'
<1>1. ASSUME NEW s \in Places(Readings), NEW t \in Places(Readings),
             s.d = symtab.size, Piece(Readings, Head(work), s, t),
             ~Overflowed => \A j \in 1 .. s.u : ~Undeclared(j)
      PROVE  \E m \in Places(Readings) :
               /\ m.d = symtab.size
               /\ Covers(Readings, body, m, t)
               /\ ~Overflowed => \A j \in 1 .. m.u : ~Undeclared(j)
  BY <1>1
<1> QED
  BY <1>1, WalkOn

LEMMA CallIs == ASSUME NEW f, NEW p PROVE Call(f, p).do = f /\ Call(f, p).p = p
BY DEF Call

\* The calls that check a node for undeclared uses.
NodeCalls == {"scope_check_stmt", "scope_check_assignStmt", "scope_check_beginStmt",
              "scope_check_ifStmt", "scope_check_while", "scope_check_readStmt",
              "scope_check_writeStmt", "scope_check_cond", "scope_check_expr",
              "scope_check_bin_expr"}

\* What each call enters and checks.
LEMMA CallParts ==
  ASSUME NEW R, NEW c
  PROVE  /\ c.do = "scope_check_program" =>
              DeclsOf(R, c) = R.decls /\ UsesOf(R, c) = R.uses /\ ~Late(c)
         /\ c.do \in EnterLists =>
              DeclsOf(R, c) = R.list[c.p] /\ UsesOf(R, c) = <<>> /\ ~Late(c)
         /\ c.do \in EnterCalls =>
              DeclsOf(R, c) = <<c.p>> /\ UsesOf(R, c) = <<>> /\ ~Late(c)
         /\ c.do = "stmts" =>
              DeclsOf(R, c) = <<>> /\ UsesOf(R, c) = R.below[c.p].all /\ Late(c)
         /\ c.do = "scope_check_ident" =>
              DeclsOf(R, c) = <<>> /\ UsesOf(R, c) = <<c.p>> /\ Late(c)
         /\ c.do \in NodeCalls =>
              DeclsOf(R, c) = <<>> /\ UsesOf(R, c) = R.below[c.p].one /\ Late(c)
BY DEF DeclsOf, UsesOf, Late, EnterLists, EnterCalls, NodeCalls

\* The uses of a node, by its tag.
LEMMA UsesAtTags ==
  ASSUME NEW p, NEW f
  PROVE  /\ heap[p].tag = "begin_ast" => UsesAt(p, f) = f[heap[p].kids[1]].all
         /\ heap[p].tag = "if_ast" =>
              UsesAt(p, f) = f[heap[p].kids[1]].one \o f[heap[p].kids[2]].one
                               \o f[heap[p].kids[3]].one
         /\ heap[p].tag \in {"while_ast", "bin_cond_ast", "bin_expr_ast"} =>
              UsesAt(p, f) = f[heap[p].kids[1]].one \o f[heap[p].kids[2]].one
         /\ heap[p].tag = "assign_ast" => UsesAt(p, f) = <<p>> \o f[heap[p].kids[1]].one
         /\ heap[p].tag \in {"odd_cond_ast", "write_ast"} =>
              UsesAt(p, f) = f[heap[p].kids[1]].one
         /\ heap[p].tag \in {"read_ast", "ident_ast"} => UsesAt(p, f) = <<p>>
         /\ heap[p].tag \in {"skip_ast", "number_ast"} => UsesAt(p, f) = <<>>
BY DEF UsesAt

\* What there is to read below a node and in its list.
LEMMA NodeReadings ==
  ASSUME HeapOK, Acyclic(heap), NEW R, R = Readings
  PROVE  /\ Len(R.decls) \in Nat /\ Len(R.uses) \in Nat
         /\ \A p \in 1 .. Len(heap) :
              /\ R.list[p] = <<p>> \o R.list[heap[p].next]
              /\ R.below[p].one = UsesAt(p, R.below)
              /\ R.below[p].all = R.below[p].one \o R.below[heap[p].next].all
              /\ <<p>> \in NodeSeqs /\ p \in Pointers
              /\ heap[p].next \in Pointers
         /\ \A p \in Pointers :
              /\ R.list[p] \in NodeSeqs
              /\ R.below[p].one \in NodeSeqs /\ R.below[p].all \in NodeSeqs
         /\ R.list[NULL] = <<>> /\ R.below[NULL].all = <<>> /\ <<>> \in NodeSeqs
<1>1. \A p \in 1 .. Len(heap) : <<p>> \in NodeSeqs
  BY SeqsOf DEF NodeSeqs
<1>2. <<>> \in NodeSeqs /\ \A x \in NodeSeqs : Len(x) \in Nat
  BY DEF NodeSeqs
<1>3. \A p \in 1 .. Len(heap) : p \in Pointers /\ heap[p].next \in Pointers
  <2>1. Len(heap) \in Nat
    BY DEF HeapOK, TreeOK
  <2>2. \A p \in 1 .. Len(heap) : heap[p].next \in Pointers
    BY <2>1, AcyclicNext DEF Pointers, NULL
  <2> QED
    BY <2>1, <2>2 DEF Pointers
<1>4. /\ R.decls \in NodeSeqs /\ R.uses \in NodeSeqs
      /\ R.list[NULL] = <<>> /\ R.below[NULL].all = <<>>
      /\ \A p \in 1 .. Len(heap) :
           /\ R.list[p] = <<p>> \o R.list[heap[p].next]
           /\ R.below[p].one = UsesAt(p, R.below)
           /\ R.below[p].all = R.below[p].one \o R.below[heap[p].next].all
      /\ \A p \in Pointers :
           /\ R.list[p] \in NodeSeqs
           /\ R.below[p].one \in NodeSeqs /\ R.below[p].all \in NodeSeqs
  BY ReadingsAre
<1> QED
  BY <1>1, <1>2, <1>3, <1>4

\* A list of declarations.
LEMMA EnterListCovers ==
  ASSUME HeapOK, Acyclic(heap), NEW R, R = Readings, NEW c,
         c.do \in EnterLists, NEW f \in EnterCalls, c.p \in Pointers,
         NEW s \in Places(R), NEW t \in Places(R), Piece(R, c, s, t)
  PROVE  /\ c.p = NULL => Covers(R, <<>>, s, t)
         /\ c.p # NULL => Covers(R, <<Call(f, c.p), Call(c.do, heap[c.p].next)>>, s, t)
<1>1. DeclsOf(R, c) = R.list[c.p] /\ UsesOf(R, c) = <<>>
  BY CallParts
<1>2. ASSUME c.p = NULL
      PROVE  Covers(R, <<>>, s, t)
  <2>1. DeclsOf(R, c) = <<>>
    BY <1>1, <1>2, NodeReadings
  <2> QED
    BY <1>1, <2>1, Body0
<1>3. ASSUME c.p # NULL
      PROVE  Covers(R, <<Call(f, c.p), Call(c.do, heap[c.p].next)>>, s, t)
  <2> DEFINE c1 == Call(f, c.p)
             c2 == Call(c.do, heap[c.p].next)
  <2>1. c.p \in 1 .. Len(heap)
    BY <1>3 DEF HeapOK, TreeOK, Pointers, NULL
  <2>2. /\ DeclsOf(R, c1) = <<c.p>> /\ UsesOf(R, c1) = <<>> /\ ~Late(c1)
        /\ DeclsOf(R, c2) = R.list[heap[c.p].next] /\ UsesOf(R, c2) = <<>> /\ ~Late(c2)
    BY CallParts, CallIs
  <2>3. /\ <<c.p>> \in NodeSeqs /\ R.list[heap[c.p].next] \in NodeSeqs /\ <<>> \in NodeSeqs
        /\ R.list[c.p] = <<c.p>> \o R.list[heap[c.p].next]
        /\ Len(R.decls) \in Nat /\ Len(R.uses) \in Nat
    BY <2>1, NodeReadings
  <2>4. <<>> = <<>> \o <<>>
    OBVIOUS
  <2>8. c1.do # "scope_check_program" /\ c2.do # "scope_check_program"
    BY CallIs DEF EnterCalls, EnterLists
  <2> HIDE DEF c1, c2
  <2>5. /\ DeclsOf(R, c1) \in Seq(1 .. Len(heap)) /\ DeclsOf(R, c2) \in Seq(1 .. Len(heap))
        /\ UsesOf(R, c1) \in Seq(1 .. Len(heap)) /\ UsesOf(R, c2) \in Seq(1 .. Len(heap))
    BY <2>2, <2>3 DEF NodeSeqs
  <2>6. /\ DeclsOf(R, c) = DeclsOf(R, c1) \o DeclsOf(R, c2)
        /\ UsesOf(R, c) = UsesOf(R, c1) \o UsesOf(R, c2)
    BY <1>1, <2>2, <2>3, <2>4
  <2>7. Covers(R, <<c1, c2>>, s, t)
    BY <2>2, <2>3, <2>5, <2>6, <2>8, Body2
  <2> QED
    BY <2>7 DEF c1, c2
<1> QED
  BY <1>2, <1>3

\* A list of statements.
LEMMA StmtListCovers ==
  ASSUME HeapOK, Acyclic(heap), NEW R, R = Readings, NEW c,
         c.do = "stmts", c.p \in Pointers,
         NEW s \in Places(R), NEW t \in Places(R), Piece(R, c, s, t)
  PROVE  /\ c.p = NULL => Covers(R, <<>>, s, t)
         /\ c.p # NULL =>
              Covers(R, <<Call("scope_check_stmt", c.p), Call("stmts", heap[c.p].next)>>, s, t)
<1>1. DeclsOf(R, c) = <<>> /\ UsesOf(R, c) = R.below[c.p].all /\ Late(c)
  BY CallParts
<1>2. ASSUME c.p = NULL
      PROVE  Covers(R, <<>>, s, t)
  <2>1. UsesOf(R, c) = <<>>
    BY <1>1, <1>2, NodeReadings
  <2> QED
    BY <1>1, <2>1, Body0
<1>3. ASSUME c.p # NULL
      PROVE  Covers(R, <<Call("scope_check_stmt", c.p), Call("stmts", heap[c.p].next)>>, s, t)
  <2> DEFINE c1 == Call("scope_check_stmt", c.p)
             c2 == Call("stmts", heap[c.p].next)
  <2>1. c.p \in 1 .. Len(heap)
    BY <1>3 DEF HeapOK, TreeOK, Pointers, NULL
  <2>2. /\ DeclsOf(R, c1) = <<>> /\ UsesOf(R, c1) = R.below[c.p].one
        /\ DeclsOf(R, c2) = <<>> /\ UsesOf(R, c2) = R.below[heap[c.p].next].all
    BY CallParts, CallIs DEF NodeCalls
  <2>3. /\ R.below[c.p].one \in NodeSeqs /\ R.below[heap[c.p].next].all \in NodeSeqs
        /\ <<>> \in NodeSeqs
        /\ R.below[c.p].all = R.below[c.p].one \o R.below[heap[c.p].next].all
        /\ Len(R.decls) \in Nat /\ Len(R.uses) \in Nat
    BY <2>1, NodeReadings
  <2>4. <<>> = <<>> \o <<>>
    OBVIOUS
  <2>8. c1.do # "scope_check_program" /\ c2.do # "scope_check_program"
    BY CallIs DEF EnterCalls, EnterLists
  <2> HIDE DEF c1, c2
  <2>5. /\ DeclsOf(R, c1) \in Seq(1 .. Len(heap)) /\ DeclsOf(R, c2) \in Seq(1 .. Len(heap))
        /\ UsesOf(R, c1) \in Seq(1 .. Len(heap)) /\ UsesOf(R, c2) \in Seq(1 .. Len(heap))
    BY <2>2, <2>3 DEF NodeSeqs
  <2>6. /\ DeclsOf(R, c) = DeclsOf(R, c1) \o DeclsOf(R, c2)
        /\ UsesOf(R, c) = UsesOf(R, c1) \o UsesOf(R, c2)
    BY <1>1, <2>2, <2>3, <2>4
  <2>7. Covers(R, <<c1, c2>>, s, t)
    BY <1>1, <2>2, <2>3, <2>5, <2>6, <2>8, Body2
  <2> QED
    BY <2>7 DEF c1, c2
<1> QED
  BY <1>2, <1>3

\* The program: its declarations, and then its statement.
LEMMA ProgramCovers ==
  ASSUME HeapOK, Acyclic(heap), NEW R, R = Readings, NEW c,
         c.do = "scope_check_program",
         NEW s \in Places(R), NEW t \in Places(R), Piece(R, c, s, t)
  PROVE  Covers(R, <<Call("scope_check_constDecls", Slot(1)),
                     Call("scope_check_varDecls", Slot(2)),
                     Call("scope_check_stmt", Slot(3))>>, s, t)
<1> DEFINE c1 == Call("scope_check_constDecls", Slot(1))
           c2 == Call("scope_check_varDecls", Slot(2))
           c3 == Call("scope_check_stmt", Slot(3))
<1>1. DeclsOf(R, c) = R.decls /\ UsesOf(R, c) = R.uses
  BY CallParts
<1>2. /\ DeclsOf(R, c1) = R.list[Slot(1)] /\ UsesOf(R, c1) = <<>> /\ ~Late(c1)
      /\ DeclsOf(R, c2) = R.list[Slot(2)] /\ UsesOf(R, c2) = <<>> /\ ~Late(c2)
      /\ DeclsOf(R, c3) = <<>> /\ UsesOf(R, c3) = R.below[Slot(3)].one
  BY CallParts, CallIs DEF NodeCalls, EnterLists
<1>3. Slot(1) \in Pointers /\ Slot(2) \in Pointers /\ Slot(3) \in Pointers
  <2>1. Len(heap) \in Nat
    BY DEF HeapOK, TreeOK
  <2> QED
    BY <2>1, SlotsOfProgram DEF HeapOK, TreeOK, Points, Slot, Pointers, NULL
<1>4. /\ R.list[Slot(1)] \in NodeSeqs /\ R.list[Slot(2)] \in NodeSeqs
      /\ R.below[Slot(3)].one \in NodeSeqs /\ <<>> \in NodeSeqs
      /\ Len(R.decls) \in Nat /\ Len(R.uses) \in Nat
  BY <1>3, NodeReadings
<1>5. /\ R.decls = R.list[Slot(1)] \o R.list[Slot(2)]
      /\ R.uses = R.below[Slot(3)].one
  BY ReadingsAre
<1>6. ASSUME NEW x \in NodeSeqs
      PROVE  x = x \o <<>> /\ x = <<>> \o <<>> \o x
  BY DEF NodeSeqs
<1>7. /\ R.decls \in NodeSeqs /\ R.uses \in NodeSeqs
  BY ReadingsAre
<1>8. /\ c1.do # "scope_check_program" /\ c2.do # "scope_check_program"
       /\ c3.do # "scope_check_program"
  BY CallIs
<1> HIDE DEF c1, c2, c3
<1>9. /\ DeclsOf(R, c1) \in Seq(1 .. Len(heap)) /\ DeclsOf(R, c2) \in Seq(1 .. Len(heap))
      /\ DeclsOf(R, c3) \in Seq(1 .. Len(heap))
      /\ UsesOf(R, c1) \in Seq(1 .. Len(heap)) /\ UsesOf(R, c2) \in Seq(1 .. Len(heap))
      /\ UsesOf(R, c3) \in Seq(1 .. Len(heap))
  BY <1>2, <1>4 DEF NodeSeqs
<1>10. DeclsOf(R, c) = DeclsOf(R, c1) \o DeclsOf(R, c2) \o DeclsOf(R, c3)
  BY <1>1, <1>2, <1>5, <1>6, <1>7
<1>11. UsesOf(R, c) = UsesOf(R, c1) \o UsesOf(R, c2) \o UsesOf(R, c3)
  BY <1>1, <1>2, <1>5, <1>6, <1>7
<1>12. ASSUME NEW m \in Places(R), Run(R.decls, m.d, DeclsOf(R, c3), t.d)
       PROVE  m.d = Len(R.decls)
  <2>1. /\ m.d \in Nat /\ s.d \in Nat /\ t.d \in 0 .. Len(R.decls)
        /\ t.d = s.d + Len(R.decls)
    BY <1>1 DEF Places, Piece, Run
  <2> QED
    BY <1>2, <1>4, <1>12, <2>1, RunNothing
<1>13. Covers(R, <<c1, c2, c3>>, s, t)
  BY <1>2, <1>4, <1>9, <1>10, <1>11, <1>12, <1>8, Body3
<1> QED
  BY <1>13 DEF c1, c2, c3

\* What a function called with one node makes of it: no call, one, two or three.
LEMMA Node0Covers ==
  ASSUME HeapOK, Acyclic(heap), NEW R, R = Readings, NEW c, c.do \in NodeCalls,
         c.p \in 1 .. Len(heap), heap[c.p].tag \in {"skip_ast", "number_ast"},
         NEW s \in Places(R), NEW t \in Places(R), Piece(R, c, s, t)
  PROVE  Covers(R, <<>>, s, t)
<1>1. DeclsOf(R, c) = <<>> /\ UsesOf(R, c) = R.below[c.p].one
  BY CallParts
<1>2. R.below[c.p].one = <<>>
  <2>1. R.below[c.p].one = UsesAt(c.p, R.below)
    BY NodeReadings
  <2>2. UsesAt(c.p, R.below) = <<>>
    BY UsesAtTags
  <2> QED
    BY <2>1, <2>2
<1> QED
  BY <1>1, <1>2, Body0

LEMMA Node1Covers ==
  ASSUME HeapOK, Acyclic(heap), NEW R, R = Readings, NEW c, c.do \in NodeCalls,
         c.p \in 1 .. Len(heap), NEW c1, Late(c1), DeclsOf(R, c1) = <<>>,
         UsesOf(R, c1) = R.below[c.p].one,
         NEW s \in Places(R), NEW t \in Places(R), Piece(R, c, s, t)
  PROVE  Covers(R, <<c1>>, s, t)
BY CallParts, Body1 DEF Late

LEMMA Node2Covers ==
  ASSUME HeapOK, Acyclic(heap), NEW R, R = Readings, NEW c, c.do \in NodeCalls,
         c.p \in 1 .. Len(heap),
         NEW c1, Late(c1), DeclsOf(R, c1) = <<>>, UsesOf(R, c1) \in NodeSeqs,
         NEW c2, Late(c2), DeclsOf(R, c2) = <<>>, UsesOf(R, c2) \in NodeSeqs,
         R.below[c.p].one = UsesOf(R, c1) \o UsesOf(R, c2),
         NEW s \in Places(R), NEW t \in Places(R), Piece(R, c, s, t)
  PROVE  Covers(R, <<c1, c2>>, s, t)
<1>1. DeclsOf(R, c) = <<>> /\ UsesOf(R, c) = R.below[c.p].one /\ Late(c)
  BY CallParts
<1>2. <<>> = <<>> \o <<>>
  OBVIOUS
<1>3. <<>> \in Seq(1 .. Len(heap)) /\ Len(R.decls) \in Nat /\ Len(R.uses) \in Nat
  BY NodeReadings DEF NodeSeqs
<1>4. /\ DeclsOf(R, c1) \in Seq(1 .. Len(heap)) /\ DeclsOf(R, c2) \in Seq(1 .. Len(heap))
      /\ UsesOf(R, c1) \in Seq(1 .. Len(heap)) /\ UsesOf(R, c2) \in Seq(1 .. Len(heap))
  BY <1>3 DEF NodeSeqs
<1>5. /\ DeclsOf(R, c) = DeclsOf(R, c1) \o DeclsOf(R, c2)
      /\ UsesOf(R, c) = UsesOf(R, c1) \o UsesOf(R, c2)
  BY <1>1, <1>2
<1> QED
  BY <1>1, <1>3, <1>4, <1>5, Body2 DEF Late

LEMMA Node3Covers ==
  ASSUME HeapOK, Acyclic(heap), NEW R, R = Readings, NEW c, c.do \in NodeCalls,
         c.p \in 1 .. Len(heap),
         NEW c1, Late(c1), DeclsOf(R, c1) = <<>>, UsesOf(R, c1) \in NodeSeqs,
         NEW c2, Late(c2), DeclsOf(R, c2) = <<>>, UsesOf(R, c2) \in NodeSeqs,
         NEW c3, Late(c3), DeclsOf(R, c3) = <<>>, UsesOf(R, c3) \in NodeSeqs,
         R.below[c.p].one = UsesOf(R, c1) \o UsesOf(R, c2) \o UsesOf(R, c3),
         NEW s \in Places(R), NEW t \in Places(R), Piece(R, c, s, t)
  PROVE  Covers(R, <<c1, c2, c3>>, s, t)
<1>1. DeclsOf(R, c) = <<>> /\ UsesOf(R, c) = R.below[c.p].one /\ Late(c)
  BY CallParts
<1>2. <<>> = <<>> \o <<>> \o <<>>
  OBVIOUS
<1>3. <<>> \in Seq(1 .. Len(heap)) /\ Len(R.decls) \in Nat /\ Len(R.uses) \in Nat
  BY NodeReadings DEF NodeSeqs
<1>4. /\ DeclsOf(R, c1) \in Seq(1 .. Len(heap)) /\ DeclsOf(R, c2) \in Seq(1 .. Len(heap))
      /\ DeclsOf(R, c3) \in Seq(1 .. Len(heap))
      /\ UsesOf(R, c1) \in Seq(1 .. Len(heap)) /\ UsesOf(R, c2) \in Seq(1 .. Len(heap))
      /\ UsesOf(R, c3) \in Seq(1 .. Len(heap))
  BY <1>3 DEF NodeSeqs
<1>5. /\ DeclsOf(R, c) = DeclsOf(R, c1) \o DeclsOf(R, c2) \o DeclsOf(R, c3)
      /\ UsesOf(R, c) = UsesOf(R, c1) \o UsesOf(R, c2) \o UsesOf(R, c3)
  BY <1>1, <1>2
<1>6. ASSUME NEW m \in Places(R), Run(R.decls, m.d, DeclsOf(R, c3), t.d)
      PROVE  m.d = Len(R.decls)
  <2>1. s.d \in Nat /\ m.d \in Nat
    BY DEF Places
  <2>2. s.d = Len(R.decls) /\ Run(R.decls, s.d, <<>>, t.d)
    BY <1>1 DEF Piece
  <2>3. t.d = s.d /\ t.d = m.d
    BY <1>6, <2>1, <2>2, RunNothing
  <2> QED
    BY <2>2, <2>3
<1> QED
  BY <1>1, <1>3, <1>4, <1>5, <1>6, Body3 DEF Late

\* What the calls that check kid k cover, and those that check the node itself.
LEMMA KidCalls ==
  ASSUME HeapOK, Acyclic(heap), NEW R, R = Readings, NEW p \in 1 .. Len(heap)
  PROVE  /\ \A k, tags : Points(heap, p, k, tags) =>
              /\ \A f \in NodeCalls :
                   /\ Late(Call(f, heap[p].kids[k]))
                   /\ DeclsOf(R, Call(f, heap[p].kids[k])) = <<>>
                   /\ UsesOf(R, Call(f, heap[p].kids[k])) = R.below[heap[p].kids[k]].one
                   /\ UsesOf(R, Call(f, heap[p].kids[k])) \in NodeSeqs
              /\ Late(Call("stmts", heap[p].kids[k]))
              /\ DeclsOf(R, Call("stmts", heap[p].kids[k])) = <<>>
              /\ UsesOf(R, Call("stmts", heap[p].kids[k])) = R.below[heap[p].kids[k]].all
         /\ \A f \in NodeCalls :
              /\ Late(Call(f, p)) /\ DeclsOf(R, Call(f, p)) = <<>>
              /\ UsesOf(R, Call(f, p)) = R.below[p].one
         /\ /\ Late(Call("scope_check_ident", p))
            /\ DeclsOf(R, Call("scope_check_ident", p)) = <<>>
            /\ UsesOf(R, Call("scope_check_ident", p)) = <<p>>
            /\ UsesOf(R, Call("scope_check_ident", p)) \in NodeSeqs
<1>1. ASSUME NEW k, NEW tags, Points(heap, p, k, tags)
      PROVE  /\ \A f \in NodeCalls :
                  /\ Late(Call(f, heap[p].kids[k]))
                  /\ DeclsOf(R, Call(f, heap[p].kids[k])) = <<>>
                  /\ UsesOf(R, Call(f, heap[p].kids[k])) = R.below[heap[p].kids[k]].one
                  /\ UsesOf(R, Call(f, heap[p].kids[k])) \in NodeSeqs
             /\ Late(Call("stmts", heap[p].kids[k]))
             /\ DeclsOf(R, Call("stmts", heap[p].kids[k])) = <<>>
             /\ UsesOf(R, Call("stmts", heap[p].kids[k])) = R.below[heap[p].kids[k]].all
  <2>1. heap[p].kids[k] \in Pointers
    BY <1>1 DEF Points, Pointers, HeapOK, TreeOK
  <2>2. R.below[heap[p].kids[k]].one \in NodeSeqs
    BY <2>1, NodeReadings
  <2> QED
    BY <2>2, CallParts, CallIs
<1>2. <<p>> \in NodeSeqs
  BY NodeReadings
<1>3. /\ \A f \in NodeCalls :
           /\ Late(Call(f, p)) /\ DeclsOf(R, Call(f, p)) = <<>>
           /\ UsesOf(R, Call(f, p)) = R.below[p].one
      /\ Late(Call("scope_check_ident", p))
      /\ DeclsOf(R, Call("scope_check_ident", p)) = <<>>
      /\ UsesOf(R, Call("scope_check_ident", p)) = <<p>>
  BY CallParts, CallIs
<1> QED
  BY <1>1, <1>2, <1>3

\* The first call of the walk is a call for a node.
LEMMA FirstCall ==
  ASSUME Known, work # <<>>, Head(work).do \in NodeCalls
  PROVE  /\ HeapOK /\ TreeOK(heap) /\ Acyclic(heap)
         /\ Head(work).p = Arg /\ Arg \in 1 .. Len(heap)
         /\ heap[Arg].tag \in Expected[Head(work).do]
<1>1. Head(work).do \notin ListCalls
  BY DEF NodeCalls, ListCalls
<1>2. HeapOK /\ TreeOK(heap) /\ Acyclic(heap)
  BY DEF Known, IInv, WalkInv, HeapOK
<1> QED
  BY <1>1, <1>2, NodeCall DEF Known, Arg

\* A step that goes from a node to what it consists of.
LEMMA NodeStep ==
  ASSUME Known, verdict = Checking, work # <<>>, Head(work).do \in NodeCalls,
         NEW body, Do(body),
         \/ body = <<>> /\ heap[Arg].tag \in {"skip_ast", "number_ast"}
         \/ \E c1 :
              /\ body = <<c1>>
              /\ Late(c1) /\ DeclsOf(Readings, c1) = <<>>
              /\ Readings.below[Arg].one = UsesOf(Readings, c1)
         \/ \E c1, c2 :
              /\ body = <<c1, c2>>
              /\ Late(c1) /\ DeclsOf(Readings, c1) = <<>> /\ UsesOf(Readings, c1) \in NodeSeqs
              /\ Late(c2) /\ DeclsOf(Readings, c2) = <<>> /\ UsesOf(Readings, c2) \in NodeSeqs
              /\ Readings.below[Arg].one = UsesOf(Readings, c1) \o UsesOf(Readings, c2)
         \/ \E c1, c2, c3 :
              /\ body = <<c1, c2, c3>>
              /\ Late(c1) /\ DeclsOf(Readings, c1) = <<>> /\ UsesOf(Readings, c1) \in NodeSeqs
              /\ Late(c2) /\ DeclsOf(Readings, c2) = <<>> /\ UsesOf(Readings, c2) \in NodeSeqs
              /\ Late(c3) /\ DeclsOf(Readings, c3) = <<>> /\ UsesOf(Readings, c3) \in NodeSeqs
              /\ Readings.below[Arg].one =
                   UsesOf(Readings, c1) \o UsesOf(Readings, c2) \o UsesOf(Readings, c3)
  PROVE  WalkInv'
<1> DEFINE R == Readings
           c == Head(work)
<1>1. /\ HeapOK /\ Acyclic(heap) /\ c.p = Arg /\ c.p \in 1 .. Len(heap)
      /\ c.do \in NodeCalls /\ R = Readings
  BY FirstCall
<1>2. work' = body \o Tail(work) /\ UNCHANGED <<heap, root, symtab, verdict>>
  BY DEF Do
<1> HIDE DEF R, c
<1>3. ASSUME NEW s \in Places(R), NEW t \in Places(R), Piece(R, c, s, t)
      PROVE  Covers(R, body, s, t)
  <2>1. CASE body = <<>> /\ heap[Arg].tag \in {"skip_ast", "number_ast"}
    BY <1>1, <1>3, <2>1, Node0Covers
  <2>2. ASSUME NEW c1, body = <<c1>>, Late(c1), DeclsOf(R, c1) = <<>>,
               R.below[Arg].one = UsesOf(R, c1)
        PROVE  Covers(R, body, s, t)
    BY <1>1, <1>3, <2>2, Node1Covers
  <2>3. ASSUME NEW c1, NEW c2, body = <<c1, c2>>,
               Late(c1), DeclsOf(R, c1) = <<>>, UsesOf(R, c1) \in NodeSeqs,
               Late(c2), DeclsOf(R, c2) = <<>>, UsesOf(R, c2) \in NodeSeqs,
               R.below[Arg].one = UsesOf(R, c1) \o UsesOf(R, c2)
        PROVE  Covers(R, body, s, t)
    BY <1>1, <1>3, <2>3, Node2Covers
  <2>4. ASSUME NEW c1, NEW c2, NEW c3, body = <<c1, c2, c3>>,
               Late(c1), DeclsOf(R, c1) = <<>>, UsesOf(R, c1) \in NodeSeqs,
               Late(c2), DeclsOf(R, c2) = <<>>, UsesOf(R, c2) \in NodeSeqs,
               Late(c3), DeclsOf(R, c3) = <<>>, UsesOf(R, c3) \in NodeSeqs,
               R.below[Arg].one = UsesOf(R, c1) \o UsesOf(R, c2) \o UsesOf(R, c3)
        PROVE  Covers(R, body, s, t)
    BY <1>1, <1>3, <2>4, Node3Covers
  <2> QED
    BY <2>1, <2>2, <2>3, <2>4 DEF R
<1>4. \A s, t \in Places(Readings) :
        Piece(Readings, Head(work), s, t) => Covers(Readings, body, s, t)
  BY <1>3 DEF R, c
<1> QED
  BY <1>2, <1>4, WalkDown

LEMMA StmtWalk ==
  ASSUME Known, CheckStmts
  PROVE  WalkInv'
<1> DEFINE R == Readings
           f == Readings.below
<1>1. HeapOK /\ TreeOK(heap) /\ Acyclic(heap) /\ R = Readings /\ f = R.below
  BY DEF Known, IInv, WalkInv, HeapOK
<1> HIDE DEF R, f
<1>2. ASSUME NEW p \in 1 .. Len(heap) PROVE R.below[p].one = UsesAt(p, f)
  BY <1>1, NodeReadings
<1>3. CASE ScopeCheckStmt
  <2>0. /\ work # <<>> /\ verdict = Checking /\ Head(work).do = "scope_check_stmt"
        /\ Head(work).do \in NodeCalls
    BY <1>3 DEF ScopeCheckStmt, At, NodeCalls
  <2>1. Arg \in 1 .. Len(heap) /\ heap[Arg].tag \in StmtTags
    BY <2>0, FirstCall DEF Expected
  <2>2. CASE heap[Arg].tag = "skip_ast"
    <3>1. Do(<<>>)
      BY <1>3, <2>2 DEF ScopeCheckStmt, Node
    <3> QED
      BY <2>0, <2>2, <3>1, NodeStep
  <2>3. CASE heap[Arg].tag # "skip_ast"
    <3>1. heap[Arg].tag \in DOMAIN StmtChecker
      BY <2>1, <2>3 DEF StmtTags, StmtChecker
    <3>2. StmtChecker[heap[Arg].tag] \in NodeCalls
      BY <3>1 DEF StmtChecker, NodeCalls
    <3> DEFINE c1 == Call(StmtChecker[heap[Arg].tag], Arg)
    <3>3. Do(<<c1>>)
      BY <1>3, <2>3, <3>1 DEF ScopeCheckStmt, Node
    <3>4. Late(c1) /\ DeclsOf(R, c1) = <<>> /\ UsesOf(R, c1) = R.below[Arg].one
      BY <1>1, <2>1, <3>2, KidCalls
    <3> HIDE DEF c1
    <3> QED
      BY <1>1, <2>0, <3>3, <3>4, NodeStep
  <2> QED
    BY <2>2, <2>3
<1>4. CASE ScopeCheckAssignStmt
  <2> DEFINE c1 == Call("scope_check_ident", Arg)
             c2 == Call("scope_check_expr", heap[Arg].kids[1])
  <2>0. /\ work # <<>> /\ verdict = Checking /\ Head(work).do = "scope_check_assignStmt"
        /\ Head(work).do \in NodeCalls /\ Do(<<c1, c2>>)
    BY <1>4 DEF ScopeCheckAssignStmt, At, NodeCalls, Node
  <2>1. Arg \in 1 .. Len(heap) /\ heap[Arg].tag = "assign_ast"
    BY <2>0, FirstCall DEF Expected
  <2>2. Points(heap, Arg, 1, ExprTags)
    BY <1>1, <2>1, SlotsOfUnary
  <2>3. /\ Late(c1) /\ DeclsOf(R, c1) = <<>> /\ UsesOf(R, c1) = <<Arg>>
        /\ UsesOf(R, c1) \in NodeSeqs
    BY <1>1, <2>1, KidCalls
  <2>4. /\ Late(c2) /\ DeclsOf(R, c2) = <<>> /\ UsesOf(R, c2) = f[heap[Arg].kids[1]].one
        /\ UsesOf(R, c2) \in NodeSeqs
    BY <1>1, <2>1, <2>2, KidCalls DEF NodeCalls
  <2>5. R.below[Arg].one = UsesOf(R, c1) \o UsesOf(R, c2)
    BY <1>2, <2>1, <2>3, <2>4, UsesAtTags
  <2> HIDE DEF c1, c2
  <2> QED
    BY <1>1, <2>0, <2>3, <2>4, <2>5, NodeStep
<1>5. CASE ScopeCheckBeginStmt
  <2> DEFINE c1 == Call("stmts", heap[Arg].kids[1])
  <2>0. /\ work # <<>> /\ verdict = Checking /\ Head(work).do = "scope_check_beginStmt"
        /\ Head(work).do \in NodeCalls /\ Do(<<c1>>)
    BY <1>5 DEF ScopeCheckBeginStmt, At, NodeCalls, Node
  <2>1. Arg \in 1 .. Len(heap) /\ heap[Arg].tag = "begin_ast"
    BY <2>0, FirstCall DEF Expected
  <2>2. Points(heap, Arg, 1, StmtTags)
    BY <1>1, <2>1, SlotsOfUnary
  <2>3. Late(c1) /\ DeclsOf(R, c1) = <<>> /\ UsesOf(R, c1) = f[heap[Arg].kids[1]].all
    BY <1>1, <2>1, <2>2, KidCalls
  <2>4. R.below[Arg].one = UsesOf(R, c1)
    BY <1>2, <2>1, <2>3, UsesAtTags
  <2> HIDE DEF c1
  <2> QED
    BY <1>1, <2>0, <2>3, <2>4, NodeStep
<1>6. CASE ScopeCheckStmts
  <2> DEFINE c == Head(work)
  <2>1. /\ work # <<>> /\ verdict = Checking /\ c.do = "stmts" /\ c.p = Arg
        /\ Arg \in Pointers
    <3>1. work # <<>> /\ verdict = Checking /\ c.do = "stmts" /\ c.p = Arg
      BY <1>6 DEF ScopeCheckStmts, At, Arg
    <3>2. Arg = NULL \/ Arg \in 1 .. Len(heap)
      BY <3>1, HeadCall DEF Known
    <3> QED
      BY <1>1, <3>1, <3>2 DEF HeapOK, TreeOK, Pointers, NULL
  <2> HIDE DEF c
  <2>2. CASE Arg = NULL
    <3>1. Do(<<>>)
      BY <1>6, <2>2 DEF ScopeCheckStmts, DoList, ast_list_is_empty
    <3>2. work' = <<>> \o Tail(work) /\ UNCHANGED <<heap, root, symtab, verdict>>
      BY <3>1 DEF Do
    <3>3. \A s, t \in Places(Readings) : Piece(Readings, c, s, t) => Covers(Readings, <<>>, s, t)
      BY <1>1, <2>1, <2>2, StmtListCovers
    <3> QED
      BY <2>1, <3>2, <3>3, WalkDown DEF c
  <2>3. CASE Arg # NULL
    <3> DEFINE body == <<Call("scope_check_stmt", Arg), Call("stmts", heap[Arg].next)>>
    <3>1. Do(body)
      BY <1>6, <2>1, <2>3 DEF ScopeCheckStmts, DoList, ast_list_is_empty, ast_list_rest, c
    <3>2. work' = body \o Tail(work) /\ UNCHANGED <<heap, root, symtab, verdict>>
      BY <3>1 DEF Do
    <3>3. \A s, t \in Places(Readings) : Piece(Readings, c, s, t) => Covers(Readings, body, s, t)
      BY <1>1, <2>1, <2>3, StmtListCovers
    <3> HIDE DEF body
    <3> QED
      BY <2>1, <3>2, <3>3, WalkDown DEF c
  <2> QED
    BY <2>2, <2>3
<1>7. CASE ScopeCheckWhile
  <2> DEFINE c1 == Call("scope_check_cond", heap[Arg].kids[1])
             c2 == Call("scope_check_stmt", heap[Arg].kids[2])
  <2>0. /\ work # <<>> /\ verdict = Checking /\ Head(work).do = "scope_check_while"
        /\ Head(work).do \in NodeCalls /\ Do(<<c1, c2>>)
    BY <1>7 DEF ScopeCheckWhile, At, NodeCalls, Node
  <2>1. Arg \in 1 .. Len(heap) /\ heap[Arg].tag = "while_ast"
    BY <2>0, FirstCall DEF Expected
  <2>2. Points(heap, Arg, 1, CondTags) /\ Points(heap, Arg, 2, StmtTags)
    BY <1>1, <2>1, SlotsOfWhile
  <2>3. /\ Late(c1) /\ DeclsOf(R, c1) = <<>> /\ UsesOf(R, c1) = f[heap[Arg].kids[1]].one
        /\ UsesOf(R, c1) \in NodeSeqs
    BY <1>1, <2>1, <2>2, KidCalls DEF NodeCalls
  <2>4. /\ Late(c2) /\ DeclsOf(R, c2) = <<>> /\ UsesOf(R, c2) = f[heap[Arg].kids[2]].one
        /\ UsesOf(R, c2) \in NodeSeqs
    BY <1>1, <2>1, <2>2, KidCalls DEF NodeCalls
  <2>5. R.below[Arg].one = UsesOf(R, c1) \o UsesOf(R, c2)
    BY <1>2, <2>1, <2>3, <2>4, UsesAtTags
  <2> HIDE DEF c1, c2
  <2> QED
    BY <1>1, <2>0, <2>3, <2>4, <2>5, NodeStep
<1>8. CASE ScopeCheckIfStmt
  <2> DEFINE c1 == Call("scope_check_cond", heap[Arg].kids[1])
             c2 == Call("scope_check_stmt", heap[Arg].kids[2])
             c3 == Call("scope_check_stmt", heap[Arg].kids[3])
  <2>0. /\ work # <<>> /\ verdict = Checking /\ Head(work).do = "scope_check_ifStmt"
        /\ Head(work).do \in NodeCalls /\ Do(<<c1, c2, c3>>)
    BY <1>8 DEF ScopeCheckIfStmt, At, NodeCalls, Node
  <2>1. Arg \in 1 .. Len(heap) /\ heap[Arg].tag = "if_ast"
    BY <2>0, FirstCall DEF Expected
  <2>2. /\ Points(heap, Arg, 1, CondTags) /\ Points(heap, Arg, 2, StmtTags)
        /\ Points(heap, Arg, 3, StmtTags)
    BY <1>1, <2>1, SlotsOfIf
  <2>3. /\ Late(c1) /\ DeclsOf(R, c1) = <<>> /\ UsesOf(R, c1) = f[heap[Arg].kids[1]].one
        /\ UsesOf(R, c1) \in NodeSeqs
    BY <1>1, <2>1, <2>2, KidCalls DEF NodeCalls
  <2>4. /\ Late(c2) /\ DeclsOf(R, c2) = <<>> /\ UsesOf(R, c2) = f[heap[Arg].kids[2]].one
        /\ UsesOf(R, c2) \in NodeSeqs
    BY <1>1, <2>1, <2>2, KidCalls DEF NodeCalls
  <2>5. /\ Late(c3) /\ DeclsOf(R, c3) = <<>> /\ UsesOf(R, c3) = f[heap[Arg].kids[3]].one
        /\ UsesOf(R, c3) \in NodeSeqs
    BY <1>1, <2>1, <2>2, KidCalls DEF NodeCalls
  <2>6. R.below[Arg].one = UsesOf(R, c1) \o UsesOf(R, c2) \o UsesOf(R, c3)
    BY <1>2, <2>1, <2>3, <2>4, <2>5, UsesAtTags
  <2> HIDE DEF c1, c2, c3
  <2> QED
    BY <1>1, <2>0, <2>3, <2>4, <2>5, <2>6, NodeStep
<1>9. CASE ScopeCheckReadStmt
  <2> DEFINE c1 == Call("scope_check_ident", Arg)
  <2>0. /\ work # <<>> /\ verdict = Checking /\ Head(work).do = "scope_check_readStmt"
        /\ Head(work).do \in NodeCalls /\ Do(<<c1>>)
    BY <1>9 DEF ScopeCheckReadStmt, At, NodeCalls
  <2>1. Arg \in 1 .. Len(heap) /\ heap[Arg].tag = "read_ast"
    BY <2>0, FirstCall DEF Expected
  <2>2. Late(c1) /\ DeclsOf(R, c1) = <<>> /\ UsesOf(R, c1) = <<Arg>>
    BY <1>1, <2>1, KidCalls
  <2>3. R.below[Arg].one = UsesOf(R, c1)
    BY <1>2, <2>1, <2>2, UsesAtTags
  <2> HIDE DEF c1
  <2> QED
    BY <1>1, <2>0, <2>2, <2>3, NodeStep
<1>10. CASE ScopeCheckWriteStmt
  <2> DEFINE c1 == Call("scope_check_expr", heap[Arg].kids[1])
  <2>0. /\ work # <<>> /\ verdict = Checking /\ Head(work).do = "scope_check_writeStmt"
        /\ Head(work).do \in NodeCalls /\ Do(<<c1>>)
    BY <1>10 DEF ScopeCheckWriteStmt, At, NodeCalls, Node
  <2>1. Arg \in 1 .. Len(heap) /\ heap[Arg].tag = "write_ast"
    BY <2>0, FirstCall DEF Expected
  <2>2. Points(heap, Arg, 1, ExprTags)
    BY <1>1, <2>1, SlotsOfUnary
  <2>3. Late(c1) /\ DeclsOf(R, c1) = <<>> /\ UsesOf(R, c1) = f[heap[Arg].kids[1]].one
    BY <1>1, <2>1, <2>2, KidCalls DEF NodeCalls
  <2>4. R.below[Arg].one = UsesOf(R, c1)
    BY <1>2, <2>1, <2>3, UsesAtTags
  <2> HIDE DEF c1
  <2> QED
    BY <1>1, <2>0, <2>3, <2>4, NodeStep
<1> QED
  BY <1>3, <1>4, <1>5, <1>6, <1>7, <1>8, <1>9, <1>10 DEF CheckStmts

LEMMA ExprWalk ==
  ASSUME Known, ScopeCheckCond \/ ScopeCheckExpr \/ ScopeCheckBinExpr
  PROVE  WalkInv'
<1> DEFINE R == Readings
           f == Readings.below
<1>0. HeapOK /\ TreeOK(heap) /\ Acyclic(heap) /\ R = Readings /\ f = R.below
  BY DEF Known, IInv, WalkInv, HeapOK
<1> HIDE DEF R, f
<1>1. ASSUME NEW p \in 1 .. Len(heap) PROVE R.below[p].one = UsesAt(p, f)
  BY <1>0, NodeReadings
\* Another function is called with the same node.
<1>2. ASSUME Arg \in 1 .. Len(heap), NEW g \in NodeCalls, Do(<<Call(g, Arg)>>),
             verdict = Checking, work # <<>>, Head(work).do \in NodeCalls
      PROVE  WalkInv'
  <2> DEFINE c1 == Call(g, Arg)
  <2>1. Late(c1) /\ DeclsOf(R, c1) = <<>> /\ UsesOf(R, c1) = R.below[Arg].one /\ Do(<<c1>>)
    BY <1>0, <1>2, KidCalls
  <2> HIDE DEF c1
  <2> QED
    BY <1>0, <1>2, <2>1, NodeStep
<1>3. CASE ScopeCheckCond
  <2>0. /\ work # <<>> /\ verdict = Checking /\ Head(work).do = "scope_check_cond"
        /\ Head(work).do \in NodeCalls
    BY <1>3 DEF ScopeCheckCond, At, NodeCalls
  <2>1. Arg \in 1 .. Len(heap) /\ heap[Arg].tag \in CondTags
    BY <2>0, FirstCall DEF Expected
  <2>2. CASE heap[Arg].tag = "odd_cond_ast"
    <3> DEFINE c1 == Call("scope_check_expr", heap[Arg].kids[1])
    <3>1. Do(<<c1>>)
      BY <1>3, <2>2 DEF ScopeCheckCond, Node
    <3>2. Points(heap, Arg, 1, ExprTags)
      BY <1>0, <2>1, <2>2, SlotsOfUnary
    <3>3. Late(c1) /\ DeclsOf(R, c1) = <<>> /\ UsesOf(R, c1) = f[heap[Arg].kids[1]].one
      BY <1>0, <2>1, <3>2, KidCalls DEF NodeCalls
    <3>4. R.below[Arg].one = UsesOf(R, c1)
      BY <1>1, <2>1, <2>2, <3>3, UsesAtTags
    <3> HIDE DEF c1
    <3> QED
      BY <1>0, <2>0, <3>1, <3>3, <3>4, NodeStep
  <2>3. CASE heap[Arg].tag = "bin_cond_ast"
    <3>1. Do(<<Call("scope_check_bin_expr", Arg)>>) /\ "scope_check_bin_expr" \in NodeCalls
      BY <1>3, <2>3 DEF ScopeCheckCond, Node, NodeCalls
    <3> QED
      BY <1>2, <2>0, <2>1, <3>1
  <2> QED
    BY <2>1, <2>2, <2>3 DEF CondTags
<1>4. CASE ScopeCheckExpr
  <2>0. /\ work # <<>> /\ verdict = Checking /\ Head(work).do = "scope_check_expr"
        /\ Head(work).do \in NodeCalls
    BY <1>4 DEF ScopeCheckExpr, At, NodeCalls
  <2>1. Arg \in 1 .. Len(heap) /\ heap[Arg].tag \in ExprTags
    BY <2>0, FirstCall DEF Expected
  <2>2. CASE heap[Arg].tag = "ident_ast"
    <3> DEFINE c1 == Call("scope_check_ident", Arg)
    <3>1. Do(<<c1>>)
      BY <1>4, <2>2 DEF ScopeCheckExpr, Node
    <3>2. Late(c1) /\ DeclsOf(R, c1) = <<>> /\ UsesOf(R, c1) = <<Arg>>
      BY <1>0, <2>1, KidCalls
    <3>3. R.below[Arg].one = UsesOf(R, c1)
      BY <1>1, <2>1, <2>2, <3>2, UsesAtTags
    <3> HIDE DEF c1
    <3> QED
      BY <1>0, <2>0, <3>1, <3>2, <3>3, NodeStep
  <2>3. CASE heap[Arg].tag = "bin_expr_ast"
    <3>1. Do(<<Call("scope_check_bin_expr", Arg)>>) /\ "scope_check_bin_expr" \in NodeCalls
      BY <1>4, <2>3 DEF ScopeCheckExpr, Node, NodeCalls
    <3> QED
      BY <1>2, <2>0, <2>1, <3>1
  <2>4. CASE heap[Arg].tag = "number_ast"
    <3>1. Do(<<>>)
      BY <1>4, <2>4 DEF ScopeCheckExpr, Node
    <3> QED
      BY <2>0, <2>4, <3>1, NodeStep
  <2> QED
    BY <2>1, <2>2, <2>3, <2>4 DEF ExprTags
<1>5. CASE ScopeCheckBinExpr
  <2> DEFINE c1 == Call("scope_check_expr", heap[Arg].kids[1])
             c2 == Call("scope_check_expr", heap[Arg].kids[2])
  <2>0. /\ work # <<>> /\ verdict = Checking /\ Head(work).do = "scope_check_bin_expr"
        /\ Head(work).do \in NodeCalls /\ Do(<<c1, c2>>)
    BY <1>5 DEF ScopeCheckBinExpr, At, NodeCalls, Node
  <2>1. Arg \in 1 .. Len(heap) /\ heap[Arg].tag \in {"bin_cond_ast", "bin_expr_ast"}
    BY <2>0, FirstCall DEF Expected
  <2>2. Points(heap, Arg, 1, ExprTags) /\ Points(heap, Arg, 2, ExprTags)
    BY <1>0, <2>1, SlotsOfBinary
  <2>3. /\ Late(c1) /\ DeclsOf(R, c1) = <<>> /\ UsesOf(R, c1) = f[heap[Arg].kids[1]].one
        /\ UsesOf(R, c1) \in NodeSeqs
    BY <1>0, <2>1, <2>2, KidCalls DEF NodeCalls
  <2>4. /\ Late(c2) /\ DeclsOf(R, c2) = <<>> /\ UsesOf(R, c2) = f[heap[Arg].kids[2]].one
        /\ UsesOf(R, c2) \in NodeSeqs
    BY <1>0, <2>1, <2>2, KidCalls DEF NodeCalls
  <2>5. R.below[Arg].one = UsesOf(R, c1) \o UsesOf(R, c2)
    BY <1>1, <2>1, <2>3, <2>4, UsesAtTags
  <2> HIDE DEF c1, c2
  <2> QED
    BY <1>0, <2>0, <2>3, <2>4, <2>5, NodeStep
<1> QED
  BY <1>3, <1>4, <1>5

LEMMA ProgramWalk ==
  ASSUME Known, ScopeCheckProgram
  PROVE  WalkInv'
<1> DEFINE c == Head(work)
           body == <<Call("scope_check_constDecls", heap[Arg].kids[1]),
                     Call("scope_check_varDecls", heap[Arg].kids[2]),
                     Call("scope_check_stmt", heap[Arg].kids[3])>>
<1>1. /\ work # <<>> /\ verdict = Checking /\ c.do = "scope_check_program" /\ c.p = Arg
      /\ work' = body \o Tail(work) /\ UNCHANGED <<heap, root, symtab, verdict>>
  BY DEF ScopeCheckProgram, At, Do, Node, Arg
<1>2. HeapOK /\ Acyclic(heap)
  BY DEF Known, IInv, WalkInv
<1> HIDE DEF c
<1>3. ASSUME NEW s \in Places(Readings), NEW t \in Places(Readings), Piece(Readings, c, s, t)
      PROVE  Covers(Readings, body, s, t)
  <2>1. c.p = root
    BY <1>1, <1>3 DEF Piece, Readings
  <2> QED
    BY <1>1, <1>2, <1>3, <2>1, ProgramCovers DEF Slot
<1> HIDE DEF body
<1> QED
  BY <1>1, <1>3, WalkDown DEF c

\* A list of declarations.
LEMMA EnterListWalk ==
  ASSUME Known, NEW f \in EnterCalls, work # <<>>, verdict = Checking,
         Head(work).do \in EnterLists, DoList(f)
  PROVE  WalkInv'
<1> DEFINE c == Head(work)
<1>0. HeapOK /\ Acyclic(heap)
  BY DEF Known, IInv, WalkInv
<1>1. c.do \in EnterLists /\ c.p = Arg /\ Arg \in Pointers
  <2>1. Arg = NULL \/ Arg \in 1 .. Len(heap)
    BY HeadCall DEF Known
  <2> QED
    BY <1>0, <2>1 DEF HeapOK, TreeOK, Pointers, NULL, Arg
<1> HIDE DEF c
<1>2. CASE Arg = NULL
  <2>1. work' = <<>> \o Tail(work) /\ UNCHANGED <<heap, root, symtab, verdict>>
    BY <1>2 DEF DoList, ast_list_is_empty, Do
  <2>2. \A s, t \in Places(Readings) : Piece(Readings, c, s, t) => Covers(Readings, <<>>, s, t)
    BY <1>0, <1>1, <1>2, EnterListCovers
  <2> QED
    BY <2>1, <2>2, WalkDown DEF c
<1>3. CASE Arg # NULL
  <2> DEFINE body == <<Call(f, Arg), Call(c.do, heap[Arg].next)>>
  <2>1. work' = body \o Tail(work) /\ UNCHANGED <<heap, root, symtab, verdict>>
    BY <1>3 DEF DoList, ast_list_is_empty, ast_list_rest, Do, c
  <2>2. \A s, t \in Places(Readings) : Piece(Readings, c, s, t) => Covers(Readings, body, s, t)
    BY <1>0, <1>1, <1>3, EnterListCovers
  <2> HIDE DEF body
  <2> QED
    BY <2>1, <2>2, WalkDown DEF c
<1> QED
  BY <1>2, <1>3

-----------------------------------------------------------------------------
(* What has been entered, and the errors.                                  *)

\* The names in the table are those of the first declarations.
LEMMA Entered ==
  ASSUME TableInv, TableHoldsDeclarations, ~Overflowed
  PROVE  /\ \A k \in 1 .. symtab.size :
              k - 1 \in 0 .. symtab.size - 1 /\ symtab.entries[k - 1].id = Name(Decls[k])
         /\ \A name : name \in DeclaredNames <=>
                        \E k \in 1 .. symtab.size : Name(Decls[k]) = name
         /\ \A j, k \in 1 .. symtab.size : Name(Decls[j]) = Name(Decls[k]) => j = k
<1>1. symtab.size \in Nat
  BY DEF TableInv, TableOK
<1>2. ASSUME NEW i \in 0 .. symtab.size - 1
      PROVE  i + 1 \in 1 .. symtab.size /\ symtab.entries[i].id = Name(Decls[i + 1])
  <2>1. i + 1 \in 1 .. symtab.size
    BY <1>1
  <2> DEFINE d == heap[Decls[i + 1]]
  <2>2. \E kind : symtab.entries[i] = create_id_attrs(d.name, d.loc, kind, i)
    BY DEF TableHoldsDeclarations
  <2>3. symtab.entries[i].id = d.name
    BY <2>2 DEF create_id_attrs
  <2> QED
    BY <2>1, <2>3 DEF Name
<1>3. ASSUME NEW k \in 1 .. symtab.size
      PROVE  k - 1 \in 0 .. symtab.size - 1 /\ symtab.entries[k - 1].id = Name(Decls[k])
  <2>1. k - 1 \in 0 .. symtab.size - 1 /\ k - 1 + 1 = k
    BY <1>1
  <2>2. symtab.entries[k - 1].id = Name(Decls[k - 1 + 1])
    BY <1>2, <2>1
  <2> QED
    BY <2>1, <2>2
<1>4. \A name : name \in DeclaredNames <=> \E k \in 1 .. symtab.size : Name(Decls[k]) = name
  BY <1>2, <1>3 DEF DeclaredNames
<1>5. ASSUME NEW j \in 1 .. symtab.size, NEW k \in 1 .. symtab.size,
             Name(Decls[j]) = Name(Decls[k])
      PROVE  j = k
  <2>1. j - 1 = k - 1
    BY <1>3, <1>5, DistinctNames
  <2> QED
    BY <1>1, <2>1
<1> QED
  BY <1>3, <1>4, <1>5

\* The check ends with the verdict that the text calls for.
LEMMA WalkEnds ==
  ASSUME Known, UNCHANGED <<heap, root, symtab>>, VerdictIsFirstError',
         verdict'.kind \notin {"not_started", "checking"}
  PROVE  WalkInv'
<1>1. Acyclic(heap)'
  BY SameTree DEF Known, WalkInv
<1>2. (verdict \notin {NotStarted, Checking})'
  BY DEF NotStarted, Checking, Verdict
<1> QED
  BY <1>1, <1>2, TableStays DEF Known, WalkInv

\* No name of the first i declarations is declared twice, and the next is.
LEMMA FirstSecond ==
  ASSUME Acyclic(heap), UNCHANGED <<heap, root>>,
         verdict'.kind = "already declared",
         NEW k \in DOMAIN Decls, Overflowed' <=> Overflowed,
         verdict'.loc = heap[Decls[k]].loc, verdict'.name = Name(Decls[k]),
         ~Overflowed => Second(k) /\ \A j \in DOMAIN Decls : Second(j) => k <= j
  PROVE  VerdictIsFirstError'
<1>1. /\ Decls' = Decls
      /\ \A j : Second(j)' <=> Second(j)
  BY SameTree
<1>2. ErrorAt(Decls[k])'
  BY <1>1 DEF ErrorAt, Name
<1>3. ~Overflowed' => \E i \in {j \in DOMAIN Decls' : Second(j)'} :
                        /\ verdict'.loc = heap'[Decls'[i]].loc
                        /\ verdict'.name = Name(Decls[i])'
                        /\ \A j \in {l \in DOMAIN Decls' : Second(l)'} : i <= j
  BY <1>1 DEF Name
<1> QED
  BY <1>3 DEF VerdictIsFirstError, ErrorAt

\* No declaration is a second one once all have been entered.
LEMMA NoSeconds ==
  ASSUME TableInv, TableHoldsDeclarations, ~Overflowed, Len(Decls) \in Nat,
         NEW n \in 0 .. symtab.size, NEW k \in 1 .. n
  PROVE  ~Second(k)
<1>1. symtab.size \in Nat
  BY DEF TableInv, TableOK
<1>2. ASSUME NEW j \in 1 .. k - 1
      PROVE  Name(Decls[j]) # Name(Decls[k])
  <2>1. j \in 1 .. symtab.size /\ k \in 1 .. symtab.size /\ j # k
    BY <1>1
  <2> QED
    BY <2>1, Entered
<1> QED
  BY <1>2 DEF Second

\* Looking up a use.
LEMMA IdentWalk ==
  ASSUME Known, ScopeCheckIdent
  PROVE  WalkInv'
<1> DEFINE R == Readings
           c == Head(work)
           name == heap[Arg].name
           floc == heap[Arg].loc
           e == [d |-> Len(Decls), u |-> Len(Uses)]
<1>0. /\ HeapOK /\ Acyclic(heap) /\ TableInv /\ TableHoldsDeclarations
      /\ Len(Decls) \in Nat /\ Len(Uses) \in Nat
      /\ R.decls = Decls /\ R.uses = Uses /\ symtab.size \in Nat
      /\ Decls \in NodeSeqs /\ Uses \in NodeSeqs
  BY KnownReadings DEF Known, WalkInv
<1>1. /\ work # <<>> /\ verdict = Checking /\ c.do = "scope_check_ident" /\ c.p = Arg
      /\ scope_check_ident(floc, name)
  BY DEF ScopeCheckIdent, At, Node, Arg
<1>2. Arg \in 1 .. Len(heap) /\ heap[Arg].tag \in NamedTags
  BY <1>1, NodeCall DEF Known, ListCalls, Expected, NamedTags
<1>3. name \in Names
  BY <1>0, <1>2, NodeFields
<1> HIDE DEF R, c, e
\* The name that is looked up is the next use of the text.
<1>4. ASSUME NEW s \in Places(R), NEW t \in Places(R), Piece(R, c, s, t)
      PROVE  /\ s.d \in Nat /\ s.u \in Nat
             /\ t = [d |-> Len(Decls), u |-> s.u + 1] /\ s.d = Len(Decls)
             /\ s.u + 1 \in DOMAIN Uses /\ Uses[s.u + 1] = Arg
  <2>1. /\ DeclsOf(R, c) = <<>> /\ UsesOf(R, c) = <<Arg>> /\ Late(c)
    BY <1>1, CallParts
  <2>2. /\ s.d = Len(Decls) /\ Run(Decls, s.d, <<>>, t.d) /\ Run(Uses, s.u, <<Arg>>, t.u)
    BY <1>0, <1>4, <2>1 DEF Piece
  <2>3. s.d \in Nat /\ s.u \in Nat /\ t.u \in 0 .. Len(Uses) /\ t = [d |-> t.d, u |-> t.u]
    BY <1>0 DEF Places
  <2>4. t.d = s.d
    BY <2>2, <2>3, RunNothing
  <2>5. t.u = s.u + 1 /\ Uses[s.u + 1] = Arg
    BY <2>2, <2>3 DEF Run
  <2>6. s.u + 1 \in 1 .. Len(Uses)
    BY <1>0, <2>3, <2>5
  <2>7. DOMAIN Uses = 1 .. Len(Uses)
    BY <1>0 DEF NodeSeqs
  <2> QED
    BY <2>2, <2>3, <2>4, <2>5, <2>6, <2>7
\* It is one of those declared if and only if it is found.
<1>5. ASSUME NEW k, Uses[k] = Arg, symtab.size = Len(Decls), ~Overflowed
      PROVE  Undeclared(k) <=> ~scope_defined(name)
  <2>1. DOMAIN Decls = 1 .. symtab.size
    BY <1>0, <1>5 DEF NodeSeqs
  <2>2. scope_defined(name) <=> \E j \in 1 .. symtab.size : Name(Decls[j]) = name
    BY <1>0, <1>3, <1>5, DefinedNames, Entered
  <2>3. Name(Uses[k]) = name
    BY <1>5 DEF Name
  <2> QED
    BY <2>1, <2>2, <2>3 DEF Undeclared
<1>6. CASE LookupCrashes
  BY <1>6, WalkBreaks DEF LookupCrashes, Crash, general_error, Verdict
<1>7. CASE scope_defined(name) /\ Do(<<>>)
  <2>1. work' = <<>> \o Tail(work) /\ UNCHANGED <<heap, root, symtab, verdict>>
    BY <1>7 DEF Do
  <2>2. ASSUME NEW s \in Places(R), NEW t \in Places(R),
               s.d = symtab.size, Piece(R, c, s, t),
               ~Overflowed => \A j \in 1 .. s.u : ~Undeclared(j)
        PROVE  \E m \in Places(R) :
                 /\ m.d = symtab.size /\ Covers(R, <<>>, m, t)
                 /\ ~Overflowed => \A j \in 1 .. m.u : ~Undeclared(j)
    <3>1. /\ s.u \in Nat /\ t.d = symtab.size /\ t.u = s.u + 1
          /\ symtab.size = Len(Decls) /\ Uses[s.u + 1] = Arg
      BY <1>4, <2>2
    <3>2. Covers(R, <<>>, t, t)
      BY Covers0
    <3>3. ASSUME ~Overflowed, NEW j \in 1 .. t.u
          PROVE  ~Undeclared(j)
      <4>1. CASE j \in 1 .. s.u
        BY <2>2, <3>3, <4>1
      <4>2. CASE j = s.u + 1
        BY <1>5, <1>7, <3>1, <3>3, <4>2
      <4> QED
        BY <3>1, <4>1, <4>2
    <3> QED
      BY <3>1, <3>2, <3>3
  <2> QED
    BY <1>1, <2>1, <2>2, WalkOn DEF R, c
<1>8. CASE ~scope_defined(name) /\ general_error("not declared", floc, name)
  <2>0. /\ verdict' = Verdict("not declared", floc, name) /\ UNCHANGED <<heap, root, symtab, work>>
        /\ verdict'.kind = "not declared" /\ verdict'.loc = floc /\ verdict'.name = name
    BY <1>8 DEF general_error, Verdict
  <2>1. PICK s : WalkFrom(s)
    BY <1>1 DEF Known, WalkInv
  <2>2. PICK t \in Places(R) : Piece(R, c, s, t)
    BY <1>1, <2>1, CoversHead DEF WalkFrom, R, c
  <2>3. /\ s \in Places(R) /\ s.d = symtab.size
        /\ ~Overflowed => \A j \in 1 .. s.u : ~Undeclared(j)
    BY <2>1 DEF WalkFrom, R
  <2> DEFINE k == s.u + 1
  <2>4. /\ k \in DOMAIN Uses /\ Uses[k] = Arg /\ symtab.size = Len(Decls)
        /\ s.u \in Nat
    BY <1>4, <2>2, <2>3
  <2>5. ASSUME ~Overflowed
        PROVE  /\ Undeclared(k)
               /\ \A j \in DOMAIN Uses : Undeclared(j) => k <= j
               /\ \A j \in DOMAIN Decls : ~Second(j)
    <3>1. Undeclared(k)
      BY <1>5, <1>8, <2>4, <2>5
    <3>2. \A j \in DOMAIN Uses : j \in Nat \ {0}
      BY <1>0 DEF NodeSeqs
    <3>3. \A j \in DOMAIN Uses : Undeclared(j) => k <= j
      BY <2>3, <2>4, <2>5, <3>2
    <3>4. DOMAIN Decls = 1 .. symtab.size /\ symtab.size \in 0 .. symtab.size
      BY <1>0, <2>4 DEF NodeSeqs
    <3>5. \A j \in DOMAIN Decls : ~Second(j)
      BY <1>0, <2>5, <3>4, NoSeconds
    <3> QED
      BY <3>1, <3>3, <3>5
  <2> HIDE DEF k
  <2>6. /\ Decls' = Decls /\ Uses' = Uses
        /\ \A j : Second(j)' <=> Second(j)
        /\ \A j : Undeclared(j)' <=> Undeclared(j)
    BY <1>0, <2>0, SameTree
  <2>7. Overflowed' <=> Overflowed
    BY <2>0 DEF Overflowed
  <2>8. /\ verdict'.loc = heap[Uses[k]].loc /\ verdict'.name = heap[Uses[k]].name
    BY <2>0, <2>4
  <2>9. VerdictIsFirstError'
    <3>1. ~Overflowed' =>
            /\ \A j \in DOMAIN Decls' : ~Second(j)'
            /\ \E i \in {j \in DOMAIN Uses' : Undeclared(j)'} :
                 /\ verdict'.loc = heap'[Uses'[i]].loc /\ verdict'.name = heap'[Uses'[i]].name
                 /\ \A j \in {l \in DOMAIN Uses' : Undeclared(l)'} : i <= j
      BY <2>0, <2>4, <2>5, <2>6, <2>7, <2>8
    <3> QED
      BY <2>0, <3>1 DEF VerdictIsFirstError, ErrorAt, Name
  <2> QED
    BY <2>0, <2>9, WalkEnds
<1> QED
  BY <1>1, <1>6, <1>7, <1>8 DEF scope_check_ident

\* The kind of name that a declaration declares.
KindOf(d) == IF heap[d].tag = "const_decl_ast" THEN "constant" ELSE "variable"

\* The declaration that is entered next.
LEMMA NextDecl ==
  ASSUME Known, verdict = Checking, work # <<>>, Head(work).do \in EnterCalls
  PROVE  \E s, t \in Places(Readings) :
           /\ s.d = symtab.size /\ s.d \in Nat /\ s.u \in Nat
           /\ t.d = s.d + 1 /\ t.u = s.u
           /\ s.d + 1 \in DOMAIN Decls /\ Decls[s.d + 1] = Arg
           /\ ~Overflowed => \A j \in 1 .. s.u : ~Undeclared(j)
           /\ Covers(Readings, Tail(work), t, [d |-> Len(Decls), u |-> Len(Uses)])
<1> DEFINE R == Readings
           c == Head(work)
           e == [d |-> Len(Decls), u |-> Len(Uses)]
<1>1. /\ Len(Decls) \in Nat /\ Len(Uses) \in Nat
      /\ R.decls = Decls /\ R.uses = Uses /\ symtab.size \in Nat
      /\ Decls \in NodeSeqs /\ Uses \in NodeSeqs
  BY KnownReadings
<1>2. PICK s : WalkFrom(s)
  BY DEF Known, WalkInv
<1>3. PICK t \in Places(R) : Piece(R, c, s, t) /\ Covers(R, Tail(work), t, e)
  BY <1>2, CoversHead DEF WalkFrom
<1>4. /\ s \in Places(R) /\ s.d = symtab.size
      /\ ~Overflowed => \A j \in 1 .. s.u : ~Undeclared(j)
  BY <1>2 DEF WalkFrom
<1>5. c.do \in EnterCalls /\ c.p = Arg
  BY DEF Arg
<1> HIDE DEF R, c, e
<1>6. DeclsOf(R, c) = <<Arg>> /\ UsesOf(R, c) = <<>>
  BY <1>5, CallParts
<1>7. Run(Decls, s.d, <<Arg>>, t.d) /\ Run(Uses, s.u, <<>>, t.u)
  BY <1>1, <1>3, <1>6 DEF Piece
<1>8. /\ s.d \in Nat /\ s.u \in Nat /\ t.d \in 0 .. Len(Decls)
  BY <1>1, <1>4 DEF Places
<1>9. t.u = s.u
  BY <1>7, <1>8, RunNothing
<1>10. t.d = s.d + 1 /\ Decls[s.d + 1] = Arg
  BY <1>7, <1>8 DEF Run
<1>11. s.d + 1 \in DOMAIN Decls
  BY <1>1, <1>8, <1>10 DEF NodeSeqs
<1> QED
  BY <1>3, <1>4, <1>8, <1>9, <1>10, <1>11 DEF R, e

\* Entering a declaration.
LEMMA AddWalk ==
  ASSUME Known, verdict = Checking, work # <<>>, Head(work).do \in EnterCalls,
         add_ident_to_scope(heap[Arg].name, KindOf(Arg), heap[Arg].loc)
  PROVE  WalkInv'
<1> DEFINE R == Readings
           name == heap[Arg].name
           floc == heap[Arg].loc
           assoc == create_id_attrs(name, floc, KindOf(Arg), scope_size)
           e == [d |-> Len(Decls), u |-> Len(Uses)]
<1>0. /\ HeapOK /\ Acyclic(heap) /\ TableInv /\ TableHoldsDeclarations
      /\ Len(Decls) \in Nat /\ symtab.size \in Nat /\ Decls \in NodeSeqs
  BY KnownReadings DEF Known, WalkInv
<1>1. Arg \in 1 .. Len(heap) /\ heap[Arg].tag \in ListTags
  BY NodeCall DEF Known, ListCalls, EnterCalls, Expected, ListTags
<1>2. name \in Names
  BY <1>0, <1>1, NodeFields DEF NamedTags
<1>3. PICK s \in Places(R), t \in Places(R) :
        /\ s.d = symtab.size /\ s.d \in Nat /\ s.u \in Nat
        /\ t.d = s.d + 1 /\ t.u = s.u
        /\ s.d + 1 \in DOMAIN Decls /\ Decls[s.d + 1] = Arg
        /\ ~Overflowed => \A j \in 1 .. s.u : ~Undeclared(j)
        /\ Covers(R, Tail(work), t, e)
  BY NextDecl
<1> HIDE DEF R, e
<1>4. CASE LookupCrashes
  BY <1>4, WalkBreaks DEF LookupCrashes, Crash, general_error, Verdict
<1>5. CASE bail_with_error
  BY <1>5, WalkBreaks DEF bail_with_error, general_error, Verdict
<1>6. CASE scope_defined(name) /\ general_error("already declared", floc, name)
  <2> DEFINE k == symtab.size + 1
  <2>1. /\ UNCHANGED <<heap, root, symtab, work>>
        /\ verdict'.kind = "already declared" /\ verdict'.loc = floc /\ verdict'.name = name
    BY <1>6 DEF general_error, Verdict
  <2>2. k \in DOMAIN Decls /\ Decls[k] = Arg
    BY <1>3
  <2>3. ASSUME ~Overflowed
        PROVE  Second(k) /\ \A j \in DOMAIN Decls : Second(j) => k <= j
    <3>1. PICK i \in 1 .. symtab.size : Name(Decls[i]) = name
      BY <1>0, <1>2, <1>6, <2>3, DefinedNames, Entered
    <3>2. Name(Decls[k]) = name
      BY <2>2 DEF Name
    <3>3. i \in 1 .. k - 1
      BY <1>0
    <3>4. Second(k)
      BY <3>1, <3>2, <3>3 DEF Second
    <3>5. \A j \in 1 .. symtab.size : ~Second(j)
      BY <1>0, <2>3, NoSeconds
    <3>6. \A j \in DOMAIN Decls : j \in Nat \ {0}
      BY <1>0 DEF NodeSeqs
    <3>7. \A j \in DOMAIN Decls : Second(j) => k <= j
      BY <1>0, <3>5, <3>6
    <3> QED
      BY <3>4, <3>7
  <2>4. Overflowed' <=> Overflowed
    BY <2>1 DEF Overflowed
  <2>5. verdict'.loc = heap[Decls[k]].loc /\ verdict'.name = Name(Decls[k])
    BY <2>1, <2>2 DEF Name
  <2> HIDE DEF k
  <2>6. VerdictIsFirstError'
    BY <1>0, <2>1, <2>2, <2>3, <2>4, <2>5, FirstSecond
  <2> QED
    BY <2>1, <2>6, WalkEnds
\* The name is added: to the table, or past its end.
<1>7. ASSUME ~scope_defined(name), scope_add(assoc), UNCHANGED <<heap, root>>
      PROVE  /\ symtab'.size = symtab.size + 1
             /\ TableHoldsDeclarations'
             /\ Overflowed' <=> scope_full
             /\ Overflowed => Overflowed'
  <2>1. PICK entries \in Written(symtab.size, assoc) :
          symtab' = [size |-> symtab.size + 1, entries |-> entries]
    BY <1>7 DEF scope_add
  <2>2. symtab'.size = symtab.size + 1 /\ symtab'.entries = entries
    BY <2>1
  <2>3. (Overflowed' <=> scope_full) /\ (Overflowed => Overflowed')
    BY <1>0, <2>2, MaxScopeSizeAssumption DEF Overflowed, scope_full, scope_size
  <2>4. Decls' = Decls
    BY <1>0, <1>7, SameTree
  <2>5. ASSUME ~Overflowed', NEW i \in 0 .. symtab'.size - 1
        PROVE  LET d == heap'[Decls'[i + 1]]
                   kind == IF d.tag = "const_decl_ast" THEN "constant" ELSE "variable"
               IN  symtab'.entries[i] = create_id_attrs(d.name, d.loc, kind, i)
    <3>1. ~scope_full /\ ~Overflowed /\ symtab.size < MaxScopeSize
      BY <1>0, <2>3, <2>5, MaxScopeSizeAssumption DEF scope_full, scope_size
    <3>2. /\ symtab'.entries[symtab.size] = assoc
          /\ \A j \in 0 .. symtab.size - 1 : symtab'.entries[j] = symtab.entries[j]
      BY <1>0, <2>1, <3>1 DEF Written, TableInv, TableOK
    <3>3. CASE i = symtab.size
      <4>1. heap'[Decls'[i + 1]] = heap[Arg]
        BY <1>3, <1>7, <2>4, <3>3
      <4>2. symtab'.entries[i] = create_id_attrs(heap[Arg].name, heap[Arg].loc, KindOf(Arg), i)
        BY <3>2, <3>3 DEF scope_size
      <4> QED
        BY <4>1, <4>2 DEF KindOf
    <3>4. CASE i \in 0 .. symtab.size - 1
      <4>1. symtab'.entries[i] = symtab.entries[i]
        BY <3>2, <3>4
      <4>2. heap'[Decls'[i + 1]] = heap[Decls[i + 1]]
        BY <1>7, <2>4
      <4> QED
        BY <1>0, <3>1, <3>4, <4>1, <4>2 DEF TableHoldsDeclarations
    <3> QED
      BY <1>0, <2>2, <3>3, <3>4
  <2>6. TableHoldsDeclarations'
    BY <2>5 DEF TableHoldsDeclarations
  <2> QED
    BY <2>2, <2>3, <2>6
<1>8. CASE /\ ~scope_defined(name) /\ scope_add(assoc)
           /\ work' = Tail(work) /\ UNCHANGED <<heap, root, verdict>>
  <2>1. /\ symtab'.size = symtab.size + 1 /\ TableHoldsDeclarations'
        /\ Overflowed => Overflowed'
    BY <1>7, <1>8
  <2>2. /\ Acyclic(heap)' /\ Readings' = Readings /\ Decls' = Decls /\ Uses' = Uses
        /\ \A j : Undeclared(j)' <=> Undeclared(j)
    BY <1>0, <1>8, SameTree
  <2>3. WalkFrom(t)'
    BY <1>3, <1>8, <2>1, <2>2 DEF WalkFrom, R, e
  <2>4. VerdictIsFirstError'
    <3>1. verdict'.kind = "checking"
      BY <1>8 DEF Checking, Verdict
    <3> QED
      BY <3>1 DEF VerdictIsFirstError
  <2> QED
    BY <2>1, <2>2, <2>3, <2>4 DEF WalkInv
<1>9. CASE /\ ~scope_defined(name) /\ scope_add(assoc)
           /\ verdict' = Verdict("crash", 0, NoText) /\ UNCHANGED <<heap, root, work>>
  <2>1. TableHoldsDeclarations'
    BY <1>7, <1>9
  <2>2. Acyclic(heap)'
    BY <1>0, <1>9, SameTree
  <2>3. verdict'.kind = "crash"
    BY <1>9 DEF Verdict
  <2>4. (verdict \notin {NotStarted, Checking})'
    BY <2>3 DEF NotStarted, Checking, Verdict
  <2>5. VerdictIsFirstError'
    BY <2>3 DEF VerdictIsFirstError
  <2> QED
    BY <2>1, <2>2, <2>4, <2>5 DEF WalkInv
<1> QED
  BY <1>4, <1>5, <1>6, <1>8, <1>9 DEF add_ident_to_scope, scope_insert

LEMMA DeclWalk ==
  ASSUME Known, CheckDecls
  PROVE  WalkInv'
<1>1. CASE ScopeCheckConstDecls
  BY <1>1, EnterListWalk DEF ScopeCheckConstDecls, At, EnterCalls, EnterLists
<1>2. CASE ScopeCheckVarDecls
  BY <1>2, EnterListWalk DEF ScopeCheckVarDecls, At, EnterCalls, EnterLists
<1>3. CASE ScopeCheckConstDecl
  <2>1. /\ verdict = Checking /\ work # <<>> /\ Head(work).do = "scope_check_constDecl"
        /\ add_ident_to_scope(heap[Arg].name, "constant", heap[Arg].loc)
    BY <1>3 DEF ScopeCheckConstDecl, At, Node
  <2>2. heap[Arg].tag = "const_decl_ast"
    BY <2>1, NodeCall DEF Known, ListCalls, Expected
  <2>3. KindOf(Arg) = "constant"
    BY <2>2 DEF KindOf
  <2> QED
    BY <2>1, <2>3, AddWalk DEF EnterCalls
<1>4. CASE ScopeCheckVarDecl
  <2>1. /\ verdict = Checking /\ work # <<>> /\ Head(work).do = "scope_check_varDecl"
        /\ add_ident_to_scope(heap[Arg].name, "variable", heap[Arg].loc)
    BY <1>4 DEF ScopeCheckVarDecl, At, Node
  <2>2. heap[Arg].tag = "var_decl_ast"
    BY <2>1, NodeCall DEF Known, ListCalls, Expected
  <2>3. KindOf(Arg) = "variable"
    BY <2>2 DEF KindOf
  <2> QED
    BY <2>1, <2>3, AddWalk DEF EnterCalls
<1> QED
  BY <1>1, <1>2, <1>3, <1>4 DEF CheckDecls

\* A table without entries holds what it should.
LEMMA NothingEntered ==
  ASSUME symtab.size = 0
  PROVE  TableHoldsDeclarations
<1>1. 0 .. symtab.size - 1 = {}
  OBVIOUS
<1> QED
  BY <1>1 DEF TableHoldsDeclarations

LEMMA InitializeWalk ==
  ASSUME Known, ScopeInitialize
  PROVE  WalkInv'
<1>0. /\ verdict = NotStarted /\ symtab.size = 0
  BY DEF Known, IInv, VerdictOK, ScopeInitialize, NotStarted, Verdict, NoTable
<1>1. CASE /\ symtab' \in CreatedTables
           /\ verdict' = Checking
           /\ UNCHANGED <<heap, root, work>>
  <2>1. symtab'.size = 0
    BY <1>1, CreatedTableType
  <2>2. TableHoldsDeclarations'
    <3>1. 0 .. symtab'.size - 1 = {}
      BY <2>1
    <3> QED
      BY <3>1 DEF TableHoldsDeclarations
  <2>3. PICK s : WalkFrom(s)
    BY <1>0 DEF Known, WalkInv
  <2>4. /\ Acyclic(heap)' /\ Readings' = Readings /\ Decls' = Decls /\ Uses' = Uses
        /\ \A j : Undeclared(j)' <=> Undeclared(j)
    BY <1>1, SameTree DEF Known, WalkInv
  <2>5. ~Overflowed
    BY <1>0, EmptyScope
  <2>6. WalkFrom(s)'
    BY <1>0, <1>1, <2>1, <2>3, <2>4, <2>5 DEF WalkFrom
  <2>7. VerdictIsFirstError'
    <3>1. verdict'.kind = "checking"
      BY <1>1 DEF Checking, Verdict
    <3> QED
      BY <3>1 DEF VerdictIsFirstError
  <2> QED
    BY <2>2, <2>4, <2>6, <2>7 DEF WalkInv
<1>2. CASE bail_with_error
  BY <1>2, WalkBreaks DEF bail_with_error, general_error, Verdict
<1>3. CASE Crash
  BY <1>3, WalkBreaks DEF Crash, general_error, Verdict
<1> QED
  BY <1>1, <1>2, <1>3 DEF ScopeInitialize

\* The check is over when all declarations and all uses have been read.
LEMMA ReturnWalk ==
  ASSUME Known, Return
  PROVE  WalkInv'
<1>0. /\ Acyclic(heap) /\ TableInv /\ TableHoldsDeclarations
      /\ Len(Decls) \in Nat /\ symtab.size \in Nat /\ Decls \in NodeSeqs /\ Uses \in NodeSeqs
  BY KnownReadings DEF Known, WalkInv
<1>1. /\ verdict = Checking /\ work = <<>> /\ UNCHANGED <<heap, root, symtab, work>>
      /\ verdict'.kind = "accepted"
  BY DEF Return, general_error, Verdict
<1>2. PICK s : WalkFrom(s)
  BY <1>1 DEF Known, WalkInv
<1>3. s = [d |-> Len(Decls), u |-> Len(Uses)]
  <2>1. Len(<<>>) = 0
    OBVIOUS
  <2> QED
    BY <1>1, <1>2, <2>1 DEF WalkFrom, Covers
<1>4. ASSUME ~Overflowed
      PROVE  (\A j \in DOMAIN Decls : ~Second(j)) /\ (\A j \in DOMAIN Uses : ~Undeclared(j))
  <2>1. s.d = symtab.size /\ \A j \in 1 .. s.u : ~Undeclared(j)
    BY <1>2, <1>4 DEF WalkFrom
  <2>2. /\ DOMAIN Decls = 1 .. symtab.size /\ DOMAIN Uses = 1 .. s.u
        /\ symtab.size \in 0 .. symtab.size
    BY <1>0, <1>3, <2>1 DEF NodeSeqs
  <2>3. \A j \in 1 .. symtab.size : ~Second(j)
    BY <1>0, <1>4, <2>2, NoSeconds
  <2> QED
    BY <2>1, <2>2, <2>3
<1>5. /\ Decls' = Decls /\ Uses' = Uses
      /\ \A j : Second(j)' <=> Second(j)
      /\ \A j : Undeclared(j)' <=> Undeclared(j)
  BY <1>0, <1>1, SameTree
<1>6. Overflowed' <=> Overflowed
  BY <1>1 DEF Overflowed
<1>7. VerdictIsFirstError'
  <2>1. ~Overflowed' => /\ \A j \in DOMAIN Decls' : ~Second(j)'
                        /\ \A j \in DOMAIN Uses' : ~Undeclared(j)'
    BY <1>4, <1>5, <1>6
  <2> QED
    BY <1>1, <2>1 DEF VerdictIsFirstError
<1> QED
  BY <1>1, <1>7, WalkEnds

\* Nothing happens.
LEMMA StayWalk ==
  ASSUME Known, UNCHANGED vars
  PROVE  WalkInv'
<1>1. UNCHANGED <<heap, root, symtab, work, verdict>>
  BY DEF vars
<1>2. /\ Acyclic(heap)' /\ Readings' = Readings /\ Decls' = Decls /\ Uses' = Uses
      /\ \A j : Second(j)' <=> Second(j)
      /\ \A j : Undeclared(j)' <=> Undeclared(j)
  BY <1>1, SameTree DEF Known, WalkInv
<1>3. Overflowed' <=> Overflowed
  BY <1>1 DEF Overflowed
<1>4. ASSUME NEW s, WalkFrom(s) PROVE WalkFrom(s)'
  BY <1>1, <1>2, <1>3, <1>4 DEF WalkFrom
<1>5. (verdict \in {NotStarted, Checking})' => verdict \in {NotStarted, Checking}
  BY <1>1 DEF NotStarted, Checking
<1>6. VerdictIsFirstError'
  BY <1>1, <1>2, <1>3 DEF Known, WalkInv, VerdictIsFirstError, ErrorAt, Name
<1>7. (verdict \in {NotStarted, Checking})' => \E s : WalkFrom(s)'
  BY <1>4, <1>5 DEF Known, WalkInv
<1> QED
  BY <1>1, <1>2, <1>6, <1>7, TableStays DEF Known, WalkInv

LEMMA StartWalk ==
  ASSUME Started, Acyclic(heap)
  PROVE  WalkInv
<1> DEFINE R == Readings
           c == Call("scope_check_program", root)
           s == [d |-> 0, u |-> 0]
           e == [d |-> Len(Decls), u |-> Len(Uses)]
<1>1. /\ HeapOK /\ symtab.size = 0 /\ work = <<c>> /\ verdict = NotStarted
  BY DEF Started, NoTable
<1>2. R.decls = Decls /\ R.uses = Uses /\ R.root = root /\ Decls \in NodeSeqs /\ Uses \in NodeSeqs
  BY <1>1, ReadingsAre DEF Readings
<1>3. Len(Decls) \in Nat /\ Len(Uses) \in Nat
  BY <1>2 DEF NodeSeqs
<1>4. s \in Places(R) /\ e \in Places(R)
  BY <1>2, <1>3 DEF Places
<1>5. /\ DeclsOf(R, c) = Decls /\ UsesOf(R, c) = Uses /\ ~Late(c) /\ c.p = R.root
  BY <1>2, CallParts, CallIs
<1> HIDE DEF R, c
<1>6. Run(Decls, 0, Decls, Len(Decls)) /\ Run(Uses, 0, Uses, Len(Uses))
  BY <1>3 DEF Run
<1>7. Piece(R, c, s, e)
  BY <1>2, <1>5, <1>6 DEF Piece
<1>8. Covers(R, work, s, e)
  BY <1>1, <1>4, <1>7, Covers1
<1>9. WalkFrom(s)
  BY <1>1, <1>4, <1>8 DEF WalkFrom, R
<1>10. TableHoldsDeclarations
  BY <1>1, NothingEntered
<1>11. VerdictIsFirstError
  <2>1. verdict.kind = "not_started"
    BY <1>1 DEF NotStarted, Verdict
  <2> QED
    BY <2>1, NoVerdictYet
<1> QED
  BY <1>9, <1>10, <1>11 DEF WalkInv

LEMMA NextWalk ==
  ASSUME Known, [Next]_vars
  PROVE  WalkInv'
<1>1. CASE ScopeInitialize
  BY <1>1, InitializeWalk
<1>2. CASE ScopeCheckProgram
  BY <1>2, ProgramWalk
<1>3. CASE CheckDecls
  BY <1>3, DeclWalk
<1>4. CASE CheckStmts
  BY <1>4, StmtWalk
<1>5. CASE ScopeCheckCond \/ ScopeCheckExpr \/ ScopeCheckBinExpr
  BY <1>5, ExprWalk
<1>6. CASE ScopeCheckIdent
  BY <1>6, IdentWalk
<1>7. CASE Return
  BY <1>7, ReturnWalk
<1>8. CASE UNCHANGED vars
  BY <1>8, StayWalk
<1> QED
  BY <1>1, <1>2, <1>3, <1>4, <1>5, <1>6, <1>7, <1>8 DEF Next, Step, Stay, CheckExprs

-----------------------------------------------------------------------------
(* The theorems about the walk.                                            *)

\* Where every pointer leads down, the check goes through the text once, in order.
THEOREM WalkIsInOrder ==
  ASSUME \A prog \in Programs : Acyclic(prog.heap)
  PROVE  Spec => []Known
<1>1. Init => Known
  <2> SUFFICES ASSUME Init PROVE Known
    OBVIOUS
  <2>1. PICK prog \in Programs : heap = prog.heap /\ root = prog.root
    BY DEF Init
  <2>2. Acyclic(heap)
    BY <2>1
  <2>3. HeapOK
    BY <2>1, ProgramsAssumption DEF HeapOK, TreeOK
  <2>4. Started
    BY <2>3 DEF Init, Started
  <2> QED
    BY <2>2, <2>4, StartInv, StartWalk DEF Known
<1>2. Known /\ [Next]_vars => Known'
  BY NextInv, NextWalk DEF Known
<1> QED
  BY <1>1, <1>2, PTL DEF Spec

\* The first error in the order of the text is the one reported, and a program
\* is accepted only if it has none, whatever the program and the capacity:
\* scope_check.c stops at the first name declared twice or used undeclared.
THEOREM FirstErrorsReported ==
  ASSUME \A prog \in Programs : Acyclic(prog.heap)
  PROVE  Spec => []VerdictIsFirstError
<1>1. Known => VerdictIsFirstError
  BY DEF Known, WalkInv
<1> QED
  BY <1>1, WalkIsInOrder, PTL

\* The table holds the declarations that have been checked, in their order,
\* each as the constant or variable it was declared as and where it was declared.
THEOREM DeclarationsAreHeld ==
  ASSUME \A prog \in Programs : Acyclic(prog.heap)
  PROVE  Spec => []TableHoldsDeclarations
<1>1. Known => TableHoldsDeclarations
  BY DEF Known, WalkInv
<1> QED
  BY <1>1, WalkIsInOrder, PTL
=============================================================================
