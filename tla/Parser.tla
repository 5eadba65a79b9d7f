------------------------------- MODULE Parser -------------------------------
(***************************************************************************)
(* The recursive descent parser of parser.c, with what it uses of the      *)
(* lexer (lexer_open, lexer_next, lexer_done).                             *)
(*                                                                         *)
(* The C call stack is flattened into two sequences.  todo is the rest of  *)
(* the running computation: the calls, token checks and tree constructions *)
(* that the active functions have yet to perform, in order.  vals holds the*)
(* AST pointers kept in the local variables of those functions and their   *)
(* results not used yet, oldest first.  Executing a call replaces it in    *)
(* todo by the body of the function, in which the tokens that the C code   *)
(* saves in local variables are already filled in.                         *)
(*                                                                         *)
(* The input is chosen while it is read: each lexer_next returns any token *)
(* the lexer could return there, or fails on a lexical error.              *)
(***************************************************************************)
EXTENDS AST

CONSTANTS
  Lexemes,        \* the tokens to choose from: records [typ, text, value]
  MaxTokens       \* bound on the number of tokens before the end of the file

VARIABLES
  currToken,      \* the token being looked at (currToken in parser.c)
  done,           \* lexer_done()
  eaten,          \* history: the tokens before currToken
  heap,           \* the nodes allocated so far
  todo,           \* the rest of the computation, a sequence of instructions
  vals,           \* local pointer variables and pending results
  outcome         \* how far the compilation is, or how it ended

vars == <<currToken, done, eaten, heap, todo, vals, outcome>>

ASSUME LexemesAssumption ==
  \A x \in Lexemes : /\ DOMAIN x = {"typ", "text", "value"}
                     /\ x.typ \in TokenTypes \ {"eofsym"}
                     /\ x.text \in Texts
                     /\ x.value \in Nat
ASSUME MaxTokensAssumption == MaxTokens \in Nat

-----------------------------------------------------------------------------
(* Instructions.  do is a token type for eat(do), the name of a C function *)
(* for a call, and otherwise the name of a piece of a function's body.  tok*)
(* is a saved token and node a node to be allocated.                       *)

Instr(do, tok, node) == [do |-> do, tok |-> tok, node |-> node]

eat(tt) == Instr(tt, ZeroToken, ast_allocate(ZeroToken))
Call(f) == Instr(f, ZeroToken, ast_allocate(ZeroToken))
CallWith(f, tok) == Instr(f, tok, ast_allocate(ZeroToken))
Make(node) == Instr("make", ZeroToken, node)
Finish(f, node) == Instr(f, ZeroToken, node)

\* The number of pointers a constructor takes.
Arity(node) ==
  CASE node.tag \in {"const_decl_ast", "var_decl_ast", "read_ast", "skip_ast",
                     "ident_ast", "number_ast"} -> 0
    [] node.tag \in {"assign_ast", "begin_ast", "write_ast", "odd_cond_ast",
                     "unset"} -> 1
    [] node.tag \in {"while_ast", "bin_cond_ast", "bin_expr_ast"} -> 2
    [] node.tag \in {"if_ast", "program_ast"} -> 3

-----------------------------------------------------------------------------
Running == [kind |-> "running", expected |-> {}]

Ended == outcome.kind \notin {"not_open", "running"}

\* The instruction f is the next to be executed.
At(f) == /\ outcome = Running
         /\ todo # <<>>
         /\ Head(todo).do = f

See(tt) == currToken.typ = tt

\* Replace the current instruction by body.
Do(body) ==
  /\ todo' = body \o Tail(todo)
  /\ UNCHANGED <<currToken, done, eaten, heap, vals, outcome>>

\* parse_error_unexpected: report the expected token types and exit.
parse_error_unexpected(expected) ==
  /\ outcome' = [kind |-> "syntax_error", expected |-> expected]
  /\ UNCHANGED <<currToken, done, eaten, heap, todo, vals>>

bail_with_error ==
  /\ outcome' = [kind |-> "bail", expected |-> {}]
  /\ UNCHANGED <<currToken, done, eaten, heap, todo, vals>>

\* The pointers on top of vals: Val(1) is the latest.
Val(k) == vals[Len(vals) - k + 1]

\* Consume the n latest pointers and leave those of ps in their place.
Replace(n, ps) == vals' = SubSeq(vals, 1, Len(vals) - n) \o ps

-----------------------------------------------------------------------------
(* Tokens.                                                                 *)

\* The next token of the file, the n-th: it exits on a lexical error, bails out
\* when there is no space for the text or when a number is too long, and aborts
\* when its assertion fails.
lexer_next(n) ==
  \/ /\ \/ /\ n <= MaxTokens
           /\ \E x \in Lexemes : currToken' = Token(x, n)
        \/ currToken' = EofToken(n)
     /\ done' = (currToken'.typ = "eofsym")
     /\ outcome' = Running
  \/ /\ \E kind \in {"lexical_error", "bail", "abort"} :
          outcome' = [kind |-> kind, expected |-> {}]
     /\ UNCHANGED <<currToken, done>>

advance ==
  IF done THEN UNCHANGED <<currToken, done, outcome>>
  ELSE lexer_next(Len(eaten) + 2)

Eat ==
  /\ outcome = Running
  /\ todo # <<>>
  /\ Head(todo).do \in TokenTypes
  /\ IF See(Head(todo).do)
     THEN /\ advance
          /\ eaten' = Append(eaten, currToken)
          /\ todo' = Tail(todo)
          /\ UNCHANGED <<heap, vals>>
     ELSE parse_error_unexpected({Head(todo).do})

\* parser_open: the file cannot be opened, or its first token is read.
ParserOpen ==
  /\ outcome.kind = "not_open"
  /\ \/ bail_with_error
     \/ /\ lexer_next(1)
        /\ UNCHANGED <<eaten, heap, todo, vals>>

-----------------------------------------------------------------------------
(* Building trees.                                                         *)

\* The n latest pointers, oldest first.
Top(n) == SubSeq(vals, Len(vals) - n + 1, Len(vals))

\* Allocate a node with the given kids, which consumes the n latest pointers.
\* ast_allocate bails out when there is no space.
Build(node, n, kids) ==
  \/ /\ heap' = Append(heap, [node EXCEPT !.kids = kids])
     /\ Replace(n, <<Len(heap')>>)
     /\ todo' = Tail(todo)
     /\ UNCHANGED <<currToken, done, eaten, outcome>>
  \/ bail_with_error

\* Call a constructor with the latest Arity(node) pointers.
Allocate ==
  /\ At("make")
  /\ LET node == Head(todo).node
     IN  Build(node, Arity(node), Top(Arity(node)))

\* last = ret, for the list of one element just returned.
StartList ==
  /\ At("startList")
  /\ Replace(1, <<Val(1), Val(1)>>)
  /\ todo' = Tail(todo)
  /\ UNCHANGED <<currToken, done, eaten, heap, outcome>>

\* Mutant: last becomes the first element of newTail, not its last.
AddAstToEndLosingTail ==
  /\ At("add_AST_to_end")
  /\ IF ast_list_is_empty(Val(3))
     THEN Replace(3, <<Val(1), Val(1)>>) /\ UNCHANGED heap
     ELSE /\ heap' = ast_list_splice(heap, Val(2), Val(1))
          /\ Replace(3, <<Val(3), Val(1)>>)
  /\ todo' = Tail(todo)
  /\ UNCHANGED <<currToken, done, eaten, outcome>>

\* Mutant: splice at the head of the list, not at its end.
AddAstAfterHead ==
  /\ At("add_AST_to_end")
  /\ LET newLast == ast_list_last_elem(heap, Val(1))
     IN  IF ast_list_is_empty(Val(3))
         THEN Replace(3, <<Val(1), newLast>>) /\ UNCHANGED heap
         ELSE /\ heap' = ast_list_splice(heap, Val(3), Val(1))
              /\ Replace(3, <<Val(3), newLast>>)
  /\ todo' = Tail(todo)
  /\ UNCHANGED <<currToken, done, eaten, outcome>>

\* add_AST_to_end(&ret, &last, newTail), for the newTail just returned.
AddAstToEnd ==
  /\ At("add_AST_to_end")
  /\ LET ret == Val(3)
         last == Val(2)
         newTail == Val(1)
         newLast == ast_list_last_elem(heap, newTail)
     IN  IF ast_list_is_empty(ret)
         THEN Replace(3, <<newTail, newLast>>) /\ UNCHANGED heap
         ELSE /\ heap' = ast_list_splice(heap, last, newTail)
              /\ Replace(3, <<ret, newLast>>)
  /\ todo' = Tail(todo)
  /\ UNCHANGED <<currToken, done, eaten, outcome>>

\* last goes out of scope and the list ret remains.
EndList ==
  /\ Replace(1, <<>>)
  /\ todo' = Tail(todo)
  /\ UNCHANGED <<currToken, done, eaten, heap, outcome>>

DropLast == At("dropLast") /\ EndList

-----------------------------------------------------------------------------
(* Programs and blocks.                                                    *)

ParseyParse ==
  /\ At("parseyParse")
  /\ Do(<<Call("parseBlock"), eat("periodsym")>>)

\* Mutant: variables are declared before constants.
ParseBlockVarsFirst ==
  /\ At("parseBlock")
  /\ Do(<<Call("parseVarDecls"), Call("parseConstDecls"), Call("parseStmts"),
          Call("makeProgram")>>)

ParseBlock ==
  /\ At("parseBlock")
  /\ Do(<<Call("parseConstDecls"), Call("parseVarDecls"), Call("parseStmts"),
          Call("makeProgram")>>)

\* The end of parseBlock: the program is located where its first part is.
MakeProgram ==
  /\ At("makeProgram")
  /\ LET const_defs == Val(3)
         var_decls == Val(2)
         stmt == Val(1)
         BuildAt(p) == Build(ast_program([loc |-> heap[p].loc]), 3, Top(3))
     IN  IF ~ast_list_is_empty(const_defs)
         THEN IF heap[const_defs].tag = "const_decl_ast"
              THEN BuildAt(const_defs)
              ELSE bail_with_error
         ELSE IF ~ast_list_is_empty(var_decls)
         THEN IF heap[var_decls].tag = "var_decl_ast"
              THEN BuildAt(var_decls)
              ELSE bail_with_error
         ELSE BuildAt(stmt)

-----------------------------------------------------------------------------
(* Declarations.                                                           *)

\* Begin a list: ret = last = ast_list_empty_list().
DoWithList(body) ==
  /\ todo' = body \o Tail(todo)
  /\ vals' = vals \o <<NULL, NULL>>
  /\ UNCHANGED <<currToken, done, eaten, heap, outcome>>

ParseConstDecls ==
  /\ At("parseConstDecls")
  /\ DoWithList(<<CallWith("constDeclsLoop", currToken)>>)

ConstDeclsLoop ==
  /\ At("constDeclsLoop")
  /\ LET const_sym == Head(todo).tok
     IN  IF See("constsym")
         THEN Do(<<eat("constsym"), CallWith("parseConstDecl", const_sym),
                   Call("add_AST_to_end"), eat("semisym"),
                   CallWith("constDeclsLoop", const_sym)>>)
         ELSE EndList

ParseConstDecl ==
  /\ At("parseConstDecl")
  /\ Do(<<CallWith("parseConstIdent", Head(todo).tok), Call("startList"),
          Call("constDeclLoop")>>)

ConstDeclLoop ==
  /\ At("constDeclLoop")
  /\ IF See("commasym")
     THEN Do(<<eat("commasym"), Call("nextConstIdent"),
               Call("add_AST_to_end"), Call("constDeclLoop")>>)
     ELSE EndList

\* parseConstIdent(idTemp): the definition is located at idTemp, which is the
\* const_sym of the caller or, after a comma, the token that follows it.
ParseConstIdent ==
  LET DoFor(idTemp) ==
        Do(<<eat("identsym"), eat("eqsym"),
             Finish("constNumber", ast_const_def(idTemp, currToken.text, 0))>>)
  IN  \/ At("parseConstIdent") /\ DoFor(Head(todo).tok)
      \/ At("nextConstIdent") /\ DoFor(currToken)

\* The rest of parseConstIdent, from numToken = currToken on.
ConstNumber ==
  /\ At("constNumber")
  /\ Do(<<eat("numbersym"),
          Make([Head(todo).node EXCEPT !.num = currToken.value])>>)

ParseVarDecls ==
  /\ At("parseVarDecls")
  /\ DoWithList(<<Call("varDeclsLoop")>>)

VarDeclsLoop ==
  /\ At("varDeclsLoop")
  /\ IF See("varsym")
     THEN Do(<<eat("varsym"), Call("parseVarDecl"), Call("add_AST_to_end"),
               eat("semisym"), Call("varDeclsLoop")>>)
     ELSE EndList

ParseVarDecl ==
  /\ At("parseVarDecl")
  /\ Do(<<Call("parseVarIdent"), Call("startList"), Call("varDeclLoop")>>)

VarDeclLoop ==
  /\ At("varDeclLoop")
  /\ IF See("commasym")
     THEN Do(<<eat("commasym"), Call("parseVarIdent"),
               Call("add_AST_to_end"), Call("varDeclLoop")>>)
     ELSE EndList

\* parseVarIdent(idTemp): both callers have just set idTemp = currToken.
ParseVarIdent ==
  /\ At("parseVarIdent")
  /\ Do(<<eat("identsym"), Make(ast_var_decl(currToken, currToken.text))>>)

-----------------------------------------------------------------------------
(* Statements.                                                             *)

\* Mutant: skip does not begin a statement.
StmtParserWithoutSkip ==
  [identsym |-> "parseAssignStmt", beginsym |-> "parseBeginStmt",
   ifsym |-> "parseIfStmt", whilesym |-> "parseWhileStmt",
   readsym |-> "parseReadStmt", writesym |-> "parseWriteStmt"]

\* can_begin_stmt, with the function that parseStmt calls for each.
StmtParser ==
  [identsym |-> "parseAssignStmt", beginsym |-> "parseBeginStmt",
   ifsym |-> "parseIfStmt", whilesym |-> "parseWhileStmt",
   readsym |-> "parseReadStmt", writesym |-> "parseWriteStmt",
   skipsym |-> "parseSkipStmt"]

ParseStmts == At("parseStmts") /\ Do(<<Call("parseStmt")>>)

ParseStmt ==
  /\ At("parseStmt")
  /\ IF currToken.typ \in DOMAIN StmtParser
     THEN Do(<<Call(StmtParser[currToken.typ])>>)
     ELSE parse_error_unexpected(DOMAIN StmtParser)

ParseAssignStmt ==
  /\ At("parseAssignStmt")
  /\ Do(<<eat("identsym"), eat("becomessym"), Call("parseExpr"),
          Make(ast_assign_stmt(currToken, currToken.text))>>)

ParseBeginStmt ==
  /\ At("parseBeginStmt")
  /\ Do(<<eat("beginsym"), Call("parseStmt"), Call("startList"),
          Call("parseStmtList"), Call("add_AST_to_end"), Call("dropLast"),
          eat("endsym"), Make(ast_begin_stmt(currToken))>>)

ParseStmtList ==
  /\ At("parseStmtList")
  /\ DoWithList(<<Call("stmtListLoop")>>)

StmtListLoop ==
  /\ At("stmtListLoop")
  /\ IF See("semisym")
     THEN Do(<<eat("semisym"), Call("parseStmt"), Call("add_AST_to_end"),
               Call("stmtListLoop")>>)
     ELSE EndList

ParseIfStmt ==
  /\ At("parseIfStmt")
  /\ Do(<<eat("ifsym"), Call("parseCondition"), eat("thensym"),
          Call("parseStmt"), eat("elsesym"), Call("parseStmt"),
          Make(ast_if_stmt(currToken))>>)

\* Mutant: the condition of a loop is any expression.
ParseWhileExpr ==
  /\ At("parseWhileStmt")
  /\ Do(<<eat("whilesym"), Call("parseExpr"), eat("dosym"),
          Call("parseStmt"), Make(ast_while_stmt(currToken))>>)

ParseWhileStmt ==
  /\ At("parseWhileStmt")
  /\ Do(<<eat("whilesym"), Call("parseCondition"), eat("dosym"),
          Call("parseStmt"), Make(ast_while_stmt(currToken))>>)

ParseReadStmt ==
  /\ At("parseReadStmt")
  /\ Do(<<eat("readsym"), CallWith("readIdent", currToken)>>)

\* Mutant: the statement is located at the name it reads.
ReadIdentAtName ==
  /\ At("readIdent")
  /\ Do(<<eat("identsym"), Make(ast_read_stmt(currToken, currToken.text))>>)

\* The rest of parseReadStmt, from idToken = currToken on.
ReadIdent ==
  /\ At("readIdent")
  /\ Do(<<eat("identsym"),
          Make(ast_read_stmt(Head(todo).tok, currToken.text))>>)

ParseWriteStmt ==
  /\ At("parseWriteStmt")
  /\ Do(<<eat("writesym"), Call("parseExpr"), Make(ast_write_stmt(currToken))>>)

\* Mutant: a semicolon ends the statement.
ParseSkipSemicolon ==
  /\ At("parseSkipStmt")
  /\ Do(<<eat("skipsym"), eat("semisym"), Make(ast_skip_stmt(currToken))>>)

ParseSkipStmt ==
  /\ At("parseSkipStmt")
  /\ Do(<<eat("skipsym"), Make(ast_skip_stmt(currToken))>>)

-----------------------------------------------------------------------------
(* Conditions.                                                             *)

ParseCondition ==
  /\ At("parseCondition")
  /\ IF See("oddsym")
     THEN Do(<<eat("oddsym"), Call("parseExpr"), Make(ast_odd_cond(currToken))>>)
     ELSE Do(<<Call("parseExpr"), CallWith("which_one", currToken)>>)

RelOpOf ==
  [eqsym |-> "eqop", neqsym |-> "neqop", lessym |-> "ltop", leqsym |-> "leqop",
   gtrsym |-> "gtop", geqsym |-> "geqop"]

\* which_one, and the rest of parseCondition.  On any other token which_one
\* eats nothing and returns its variable op uninitialized.
WhichOne ==
  /\ At("which_one")
  /\ LET temp == Head(todo).tok
     IN  IF currToken.typ \in DOMAIN RelOpOf
         THEN Do(<<eat(currToken.typ), Call("parseExpr"),
                   Make(ast_bin_cond(temp, RelOpOf[currToken.typ]))>>)
         ELSE \E op \in RelOps \cup {GarbageOp} :
                Do(<<Call("parseExpr"), Make(ast_bin_cond(temp, op))>>)

-----------------------------------------------------------------------------
(* Expressions.                                                            *)

AddSubOp == [plussym |-> "addop", minussym |-> "subop"]
MultDivOp == [multsym |-> "multop", divsym |-> "divop"]

ParseExpr ==
  /\ At("parseExpr")
  /\ Do(<<Call("parseTerm"), CallWith("exprLoop", currToken)>>)

\* Mutant: the loop does not parse the term after a sign.
ExprLoopForever ==
  /\ At("exprLoop")
  /\ IF currToken.typ \in SignSyms THEN Do(<<Head(todo)>>) ELSE Do(<<>>)

ExprLoop ==
  /\ At("exprLoop")
  /\ IF currToken.typ \in SignSyms
     THEN Do(<<Call("parseAddSubTerm"), CallWith("binExpr", Head(todo).tok),
               Head(todo)>>)
     ELSE Do(<<>>)

ParseTerm ==
  /\ At("parseTerm")
  /\ Do(<<Call("parseFactor"), CallWith("termLoop", currToken)>>)

TermLoop ==
  /\ At("termLoop")
  /\ IF currToken.typ \in DOMAIN MultDivOp
     THEN Do(<<Call("parseMultDivFactor"),
               CallWith("binExpr", Head(todo).tok), Head(todo)>>)
     ELSE Do(<<>>)

\* Mutant: the operator is read from the wrong field of the pair.
BinExprWrongField ==
  /\ At("binExpr")
  /\ LET rght == heap[Val(1)]
     IN  Build(ast_bin_expr(Head(todo).tok, rght.tag), 2, <<Val(2), rght.kids[1]>>)

\* exp = ast_bin_expr(fst, exp, rght->data.op_expr.arith_op, ...exp)
BinExpr ==
  /\ At("binExpr")
  /\ LET exp == Val(2)
         rght == heap[Val(1)]
     IN  Build(ast_bin_expr(Head(todo).tok, rght.op), 2, <<exp, rght.kids[1]>>)

ParseMultDivFactor ==
  /\ At("parseMultDivFactor")
  /\ IF currToken.typ \in DOMAIN MultDivOp
     THEN Do(<<eat(currToken.typ), Call("parseFactor"),
               Make(ast_op_expr(currToken, MultDivOp[currToken.typ]))>>)
     ELSE parse_error_unexpected(DOMAIN MultDivOp)

ParseAddSubTerm ==
  /\ At("parseAddSubTerm")
  /\ IF currToken.typ \in DOMAIN AddSubOp
     THEN Do(<<eat(currToken.typ), Call("parseTerm"),
               Make(ast_op_expr(currToken, AddSubOp[currToken.typ]))>>)
     ELSE parse_error_unexpected(DOMAIN AddSubOp)

ParseFactor ==
  /\ At("parseFactor")
  /\ CASE See("identsym") -> Do(<<Call("parseIdentExpr")>>)
       [] See("lparensym") -> Do(<<Call("parseParenExpr")>>)
       [] currToken.typ \in SignSyms -> Do(<<CallWith("parseOpExpr", currToken)>>)
       [] See("numbersym") -> Do(<<Call("parseNumber")>>)
       [] OTHER -> parse_error_unexpected({"identsym", "lparensym", "numbersym"})

ParseOpExpr ==
  /\ At("parseOpExpr")
  /\ IF Head(todo).tok.typ \in SignSyms
     THEN Do(<<Call("parseNumber")>>)
     ELSE parse_error_unexpected(SignSyms)

ParseParenExpr ==
  /\ At("parseParenExpr")
  /\ Do(<<eat("lparensym"), Call("parseExpr"), eat("rparensym"),
          CallWith("relocate", currToken)>>)

\* Mutant: the expression keeps the location it has inside its parentheses.
KeepLocation ==
  /\ At("relocate")
  /\ todo' = Tail(todo)
  /\ UNCHANGED <<currToken, done, eaten, heap, vals, outcome>>

\* The end of parseParenExpr: the expression is relocated to its parenthesis.
RelocateParenExpr ==
  /\ At("relocate")
  /\ heap' = [heap EXCEPT ![Val(1)].loc = Head(todo).tok.loc]
  /\ todo' = Tail(todo)
  /\ UNCHANGED <<currToken, done, eaten, vals, outcome>>

ParseIdentExpr ==
  /\ At("parseIdentExpr")
  /\ Do(<<eat("identsym"), Make(ast_ident(currToken, currToken.text))>>)

ParseNumber ==
  /\ At("parseNumber")
  /\ CASE currToken.typ \in SignSyms ->
            Do(<<eat(currToken.typ), CallWith("signedValue", currToken)>>)
       [] See("numbersym") ->
            Do(<<eat("numbersym"), Make(ast_number(currToken, currToken.value))>>)
       [] OTHER -> parse_error_unexpected(SignSyms \cup {"numbersym"})

\* The rest of parseNumber after a sign, from value = currToken on.
SignedValue ==
  /\ At("signedValue")
  /\ LET sign == Head(todo).tok
         value == IF sign.typ = "minussym" THEN currToken.value * (-1)
                  ELSE currToken.value
     IN  Do(<<eat("numbersym"), Make(ast_number(sign, value))>>)

-----------------------------------------------------------------------------
(* The parser as a whole.                                                  *)

\* parseyParse has returned the program to main.
Return == /\ outcome = Running
          /\ todo = <<>>
          /\ outcome' = [kind |-> "parsed", expected |-> {}]
          /\ UNCHANGED <<currToken, done, eaten, heap, todo, vals>>

\* The parser has returned or exited: it takes no step any more.
Stay == Ended /\ UNCHANGED vars

Init == /\ currToken = ZeroToken
        /\ done = TRUE
        /\ eaten = <<>>
        /\ heap = <<>>
        /\ todo = <<Call("parseyParse")>>
        /\ vals = <<>>
        /\ outcome = [kind |-> "not_open", expected |-> {}]

ParseDecls == \/ ParseConstDecls \/ ConstDeclsLoop \/ ParseConstDecl
              \/ ConstDeclLoop \/ ParseConstIdent \/ ConstNumber
              \/ ParseVarDecls \/ VarDeclsLoop \/ ParseVarDecl \/ VarDeclLoop
              \/ ParseVarIdent

ParseStatements == \/ ParseStmts \/ ParseStmt \/ ParseAssignStmt
                   \/ ParseBeginStmt \/ ParseStmtList \/ StmtListLoop
                   \/ ParseIfStmt \/ ParseWhileStmt \/ ParseReadStmt
                   \/ ReadIdent \/ ParseWriteStmt \/ ParseSkipStmt
                   \/ ParseCondition \/ WhichOne

ParseExpressions == \/ ParseExpr \/ ExprLoop \/ ParseTerm \/ TermLoop
                    \/ BinExpr \/ ParseMultDivFactor \/ ParseAddSubTerm
                    \/ ParseFactor \/ ParseOpExpr \/ ParseParenExpr
                    \/ RelocateParenExpr \/ ParseIdentExpr \/ ParseNumber
                    \/ SignedValue

BuildTrees == Allocate \/ StartList \/ AddAstToEnd \/ DropLast \/ MakeProgram

Step == \/ ParserOpen \/ ParseyParse \/ ParseBlock \/ ParseDecls
        \/ ParseStatements \/ ParseExpressions \/ BuildTrees \/ Eat \/ Return

Next == Step \/ Stay

Spec == Init /\ [][Next]_vars

\* The compiler is one sequential process that nothing can block.
FairSpec == Spec /\ WF_vars(Step)
=============================================================================
