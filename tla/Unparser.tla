------------------------------ MODULE Unparser ------------------------------
(***************************************************************************)
(* The unparser of unparser.c: a walk over the tree that prints a program. *)
(*                                                                         *)
(* rest is what the active functions have yet to do, in order: calls of    *)
(* functions, and words to print.  Executing a call replaces it by what the*)
(* body of the function does.                                              *)
(*                                                                         *)
(* What is printed is a sequence of words, the texts that the lexer takes  *)
(* for tokens, and of gaps: a space or a newline printed between them.     *)
(* How deep a line is indented is left out: it always starts after a gap.  *)
(***************************************************************************)
EXTENDS AST

CONSTANT Programs  \* the trees to print: records [heap, root]

ASSUME ProgramsAssumption ==
  \A prog \in Programs :
    /\ prog.heap \in Seq(Nodes)
    /\ WellFormed(prog.heap)
    /\ prog.root \in 1 .. Len(prog.heap)
    /\ prog.heap[prog.root].tag = "program_ast"
    /\ \A p \in 1 .. Len(prog.heap) :
         prog.heap[p].tag = "const_decl_ast" => prog.heap[p].num \in Nat

VARIABLES
  heap,           \* the nodes
  root,           \* the program
  rest,           \* what is still to be done
  out,            \* what has been printed
  status          \* "printing", "printed" or "bail"

vars == <<heap, root, rest, out, status>>

-----------------------------------------------------------------------------
(* Words.                                                                  *)

Word(typ) == [typ |-> typ, text |-> NoText, value |-> 0]
Name(text) == [typ |-> "identsym", text |-> text, value |-> 0]
Gap == Word("gap")

\* The words of "%d": a minus sign is a token of its own.
Decimal(n) ==
  LET digits(k) == [typ |-> "numbersym", text |-> "digits", value |-> k]
  IN  IF n < 0 THEN <<Word("minussym"), digits(-n)>> ELSE <<digits(n)>>

-----------------------------------------------------------------------------
(* Instructions.  do is "print", or the name of a C function called with   *)
(* the node p; semi is its argument addSemiToEnd.                          *)

Emit(words) == [do |-> "print", p |-> NULL, semi |-> FALSE, words |-> words]
CallStmt(f, p, semi) == [do |-> f, p |-> p, semi |-> semi, words |-> <<>>]
Call(f, p) == CallStmt(f, p, FALSE)

At(f) == /\ status = "printing"
         /\ rest # <<>>
         /\ Head(rest).do = f

Arg == Head(rest).p
Semi == Head(rest).semi
Node == heap[Arg]
Kid(k) == Node.kids[k]

\* Print words and replace the call by body.
PrintThen(words, body) == /\ out' = out \o words
                          /\ rest' = body \o Tail(rest)
                          /\ UNCHANGED <<heap, root, status>>
Do(body) == PrintThen(<<>>, body)

bail_with_error == status' = "bail" /\ UNCHANGED <<heap, root, rest, out>>

PrintWords == At("print") /\ PrintThen(Head(rest).words, <<>>)

newlineAndOptionalSemi(semi) == IF semi THEN <<Word("semisym"), Gap>> ELSE <<Gap>>

-----------------------------------------------------------------------------
(* Programs and declarations.                                              *)

UnparseProgram ==
  /\ At("unparseProgram")
  /\ Do(<<Call("unparseBlock", Arg), Emit(<<Word("periodsym"), Gap>>)>>)

UnparseBlock ==
  /\ At("unparseBlock")
  /\ Do(<<Call("unparseConstDecls", Kid(1)), Call("unparseVarDecls", Kid(2)),
          Call("unparseStmt", Kid(3))>>)

\* Mutant: only the first declaration is printed.
DoListFirst(unparse) ==
  IF ast_list_is_empty(Arg) THEN Do(<<>>) ELSE Do(<<Call(unparse, Arg)>>)

\* The loop over a list of declarations.
DoList(unparse) ==
  IF ast_list_is_empty(Arg) THEN Do(<<>>)
  ELSE Do(<<Call(unparse, Arg), Call(Head(rest).do, ast_list_rest(heap, Arg))>>)

UnparseConstDecls == At("unparseConstDecls") /\ DoList("unparseConstDecl")

UnparseConstDecl ==
  /\ At("unparseConstDecl")
  /\ PrintThen(<<Word("constsym"), Gap, Name(Node.name), Gap, Word("eqsym"), Gap>>
                 \o Decimal(Node.num) \o <<Word("semisym"), Gap>>, <<>>)

UnparseVarDecls == At("unparseVarDecls") /\ DoList("unparseVarDecl")

\* Mutant: nothing separates the keyword from the name.
UnparseVarDeclTight ==
  /\ At("unparseVarDecl")
  /\ PrintThen(<<Word("varsym"), Name(Node.name), Word("semisym"), Gap>>, <<>>)

UnparseVarDecl ==
  /\ At("unparseVarDecl")
  /\ PrintThen(<<Word("varsym"), Gap, Name(Node.name), Word("semisym"), Gap>>, <<>>)

-----------------------------------------------------------------------------
(* Statements.                                                             *)

\* The function that unparseStmt calls for each kind of statement.
StmtUnparser ==
  [assign_ast |-> "unparseAssignStmt", begin_ast |-> "unparseBeginStmt",
   if_ast |-> "unparseIfStmt", while_ast |-> "unparseWhileStmt",
   read_ast |-> "unparseReadStmt", write_ast |-> "unparseWriteStmt",
   skip_ast |-> "unparseSkipStmt"]

UnparseStmt ==
  /\ At("unparseStmt")
  /\ IF Node.tag \in DOMAIN StmtUnparser
     THEN Do(<<CallStmt(StmtUnparser[Node.tag], Arg, Semi)>>)
     ELSE bail_with_error

UnparseAssignStmt ==
  /\ At("unparseAssignStmt")
  /\ PrintThen(<<Name(Node.name), Gap, Word("becomessym"), Gap>>,
               <<Call("unparseExpr", Kid(1)), Emit(newlineAndOptionalSemi(Semi))>>)

UnparseBeginStmt ==
  /\ At("unparseBeginStmt")
  /\ PrintThen(<<Word("beginsym"), Gap>>,
               <<Call("unparseStmtList", Kid(1)),
                 Emit(<<Word("endsym")>> \o newlineAndOptionalSemi(Semi))>>)

\* Print the statement at the head of a list, with a semicolon if another
\* one follows, and go on with the rest of the list.
DoStmts(lst) ==
  LET nxt == ast_list_rest(heap, lst)
  IN  Do(<<CallStmt("unparseStmt", lst, ~ast_list_is_empty(nxt)),
           Call("stmtsLoop", nxt)>>)

\* The first statement of the list, which is not empty, before the loop.
UnparseStmtList == At("unparseStmtList") /\ DoStmts(Arg)

\* Mutant: the loop forgets to move on.
StmtsLoopStuck ==
  /\ At("stmtsLoop")
  /\ IF ast_list_is_empty(Arg) THEN Do(<<>>) ELSE Do(<<Call("stmtsLoop", Arg)>>)

StmtsLoop ==
  /\ At("stmtsLoop")
  /\ IF ast_list_is_empty(Arg) THEN Do(<<>>) ELSE DoStmts(Arg)

\* Mutant: the then part takes the semicolon that belongs after the else part.
UnparseIfStmtSemi ==
  /\ At("unparseIfStmt")
  /\ PrintThen(<<Word("ifsym"), Gap>>,
               <<Call("unparseCondition", Kid(1)), Emit(<<Gap, Word("thensym"), Gap>>),
                 CallStmt("unparseStmt", Kid(2), Semi), Emit(<<Word("elsesym"), Gap>>),
                 CallStmt("unparseStmt", Kid(3), Semi)>>)

UnparseIfStmt ==
  /\ At("unparseIfStmt")
  /\ PrintThen(<<Word("ifsym"), Gap>>,
               <<Call("unparseCondition", Kid(1)), Emit(<<Gap, Word("thensym"), Gap>>),
                 Call("unparseStmt", Kid(2)), Emit(<<Word("elsesym"), Gap>>),
                 CallStmt("unparseStmt", Kid(3), Semi)>>)

\* Mutant: the semicolon after the body is left to the loop, which prints none.
UnparseWhileStmtNoSemi ==
  /\ At("unparseWhileStmt")
  /\ PrintThen(<<Word("whilesym"), Gap>>,
               <<Call("unparseCondition", Kid(1)), Emit(<<Gap, Word("dosym"), Gap>>),
                 Call("unparseStmt", Kid(2))>>)

UnparseWhileStmt ==
  /\ At("unparseWhileStmt")
  /\ PrintThen(<<Word("whilesym"), Gap>>,
               <<Call("unparseCondition", Kid(1)), Emit(<<Gap, Word("dosym"), Gap>>),
                 CallStmt("unparseStmt", Kid(2), Semi)>>)

UnparseReadStmt ==
  /\ At("unparseReadStmt")
  /\ PrintThen(<<Word("readsym"), Gap, Name(Node.name)>>
                 \o newlineAndOptionalSemi(Semi), <<>>)

UnparseWriteStmt ==
  /\ At("unparseWriteStmt")
  /\ PrintThen(<<Word("writesym"), Gap>>,
               <<Call("unparseExpr", Kid(1)), Emit(newlineAndOptionalSemi(Semi))>>)

UnparseSkipStmt ==
  /\ At("unparseSkipStmt")
  /\ PrintThen(<<Word("skipsym")>> \o newlineAndOptionalSemi(Semi), <<>>)

-----------------------------------------------------------------------------
(* Conditions and expressions.                                             *)

UnparseCondition ==
  /\ At("unparseCondition")
  /\ CASE Node.tag = "odd_cond_ast" -> Do(<<Call("unparseOddCond", Arg)>>)
       [] Node.tag = "bin_cond_ast" -> Do(<<Call("unparseBinRelCond", Arg)>>)
       [] OTHER -> bail_with_error

\* Mutant: the condition is printed as if it were its expression.
UnparseOddCondItself ==
  /\ At("unparseOddCond")
  /\ PrintThen(<<Word("oddsym"), Gap>>, <<Call("unparseExpr", Arg)>>)

UnparseOddCond ==
  /\ At("unparseOddCond")
  /\ PrintThen(<<Word("oddsym"), Gap>>, <<Call("unparseExpr", Kid(1))>>)

UnparseBinRelCond ==
  /\ At("unparseBinRelCond")
  /\ Do(<<Call("unparseExpr", Kid(1)), Emit(<<Gap>>), Call("unparseRelOp", Arg),
          Emit(<<Gap>>), Call("unparseExpr", Kid(2))>>)

\* The words of the operators.
RelOpWord ==
  [eqop |-> "eqsym", neqop |-> "neqsym", ltop |-> "lessym", leqop |-> "leqsym",
   gtop |-> "gtrsym", geqop |-> "geqsym"]
ArithOpWord ==
  [addop |-> "plussym", subop |-> "minussym", multop |-> "multsym", divop |-> "divsym"]

\* The operator of a node, or an internal error.
PrintOp(words) ==
  IF Node.op \in DOMAIN words THEN PrintThen(<<Word(words[Node.op])>>, <<>>)
  ELSE bail_with_error

UnparseRelOp == At("unparseRelOp") /\ PrintOp(RelOpWord)
UnparseArithOp == At("unparseArithOp") /\ PrintOp(ArithOpWord)

\* Mutant: numbers are forgotten.
UnparseExprNoNumbers ==
  /\ At("unparseExpr")
  /\ CASE Node.tag = "bin_expr_ast" -> Do(<<Call("unparseBinExpr", Arg)>>)
       [] Node.tag = "ident_ast" -> Do(<<Call("unparseIdent", Arg)>>)
       [] OTHER -> bail_with_error

UnparseExpr ==
  /\ At("unparseExpr")
  /\ CASE Node.tag = "bin_expr_ast" -> Do(<<Call("unparseBinExpr", Arg)>>)
       [] Node.tag = "ident_ast" -> Do(<<Call("unparseIdent", Arg)>>)
       [] Node.tag = "number_ast" -> Do(<<Call("unparseNumber", Arg)>>)
       [] OTHER -> bail_with_error

\* Mutant: no parentheses.
UnparseBinExprBare ==
  /\ At("unparseBinExpr")
  /\ Do(<<Call("unparseExpr", Kid(1)), Emit(<<Gap>>), Call("unparseArithOp", Arg),
          Emit(<<Gap>>), Call("unparseExpr", Kid(2))>>)

UnparseBinExpr ==
  /\ At("unparseBinExpr")
  /\ PrintThen(<<Word("lparensym")>>,
               <<Call("unparseExpr", Kid(1)), Emit(<<Gap>>),
                 Call("unparseArithOp", Arg), Emit(<<Gap>>),
                 Call("unparseExpr", Kid(2)), Emit(<<Word("rparensym")>>)>>)

UnparseIdent == At("unparseIdent") /\ PrintThen(<<Name(Node.name)>>, <<>>)
UnparseNumber == At("unparseNumber") /\ PrintThen(Decimal(Node.num), <<>>)

-----------------------------------------------------------------------------
\* unparseProgram has returned to main.
Return == /\ status = "printing"
          /\ rest = <<>>
          /\ status' = "printed"
          /\ UNCHANGED <<heap, root, rest, out>>

Stay == status # "printing" /\ UNCHANGED vars

Init == /\ \E prog \in Programs : heap = prog.heap /\ root = prog.root
        /\ rest = <<Call("unparseProgram", root)>>
        /\ out = <<>>
        /\ status = "printing"

UnparseDecls == \/ UnparseConstDecls \/ UnparseConstDecl
                \/ UnparseVarDecls \/ UnparseVarDecl

UnparseStmts == \/ UnparseStmt \/ UnparseAssignStmt \/ UnparseBeginStmt
                \/ UnparseStmtList \/ StmtsLoop \/ UnparseIfStmt \/ UnparseWhileStmt
                \/ UnparseReadStmt \/ UnparseWriteStmt \/ UnparseSkipStmt

UnparseExprs == \/ UnparseCondition \/ UnparseOddCond \/ UnparseBinRelCond
                \/ UnparseRelOp \/ UnparseExpr \/ UnparseBinExpr
                \/ UnparseArithOp \/ UnparseIdent \/ UnparseNumber

Step == \/ UnparseProgram \/ UnparseBlock \/ UnparseDecls \/ UnparseStmts
        \/ UnparseExprs \/ PrintWords \/ Return

Next == Step \/ Stay

Spec == Init /\ [][Next]_vars

\* One sequential process that nothing can block.
FairSpec == Spec /\ WF_vars(Step)
=============================================================================
