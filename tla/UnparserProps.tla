--------------------------- MODULE UnparserProps ---------------------------
(***************************************************************************)
(* What the unparser of Unparser.tla must guarantee.                       *)
(***************************************************************************)
EXTENDS Unparser, Grammar

\* What each function expects of the node it is called with.
Expected ==
  [unparseProgram |-> {"program_ast"}, unparseBlock |-> {"program_ast"},
   unparseConstDecls |-> {"const_decl_ast"}, unparseConstDecl |-> {"const_decl_ast"},
   unparseVarDecls |-> {"var_decl_ast"}, unparseVarDecl |-> {"var_decl_ast"},
   unparseStmt |-> StmtTags, unparseStmtList |-> StmtTags, stmtsLoop |-> StmtTags,
   unparseAssignStmt |-> {"assign_ast"}, unparseBeginStmt |-> {"begin_ast"},
   unparseIfStmt |-> {"if_ast"}, unparseWhileStmt |-> {"while_ast"},
   unparseReadStmt |-> {"read_ast"}, unparseWriteStmt |-> {"write_ast"},
   unparseSkipStmt |-> {"skip_ast"},
   unparseCondition |-> CondTags, unparseOddCond |-> {"odd_cond_ast"},
   unparseBinRelCond |-> {"bin_cond_ast"}, unparseRelOp |-> {"bin_cond_ast"},
   unparseExpr |-> ExprTags, unparseBinExpr |-> {"bin_expr_ast"},
   unparseArithOp |-> {"bin_expr_ast"}, unparseIdent |-> {"ident_ast"},
   unparseNumber |-> {"number_ast"}]

\* The calls that loop over a list.
ListCalls == {"unparseConstDecls", "unparseVarDecls", "stmtsLoop"}

\* The provers do not know that "digits" is a member of STRING.
Items == [typ : TokenTypes \cup {"gap"}, text : Texts \cup {"digits"}, value : Int]

Instrs == [do : DOMAIN Expected \cup {"print"}, p : 0 .. Len(heap),
           semi : BOOLEAN, words : Seq(Items)]

\* An instruction prints, or calls a function with a node it expects.
Fits(i) ==
  \/ i.do = "print"
  \/ i.do \in ListCalls /\ i.p = NULL
  \/ i.do \in DOMAIN Expected /\ i.p # NULL /\ heap[i.p].tag \in Expected[i.do]

\* The type invariant: no function is called with a node it does not expect,
\* and only the loops over lists are called with NULL.
TypeOK ==
  /\ heap \in Seq(Nodes)
  /\ root \in 1 .. Len(heap)
  /\ rest \in Seq(Instrs)
  /\ \A k \in 1 .. Len(rest) : Fits(rest[k])
  /\ out \in Seq(Items)
  /\ status \in {"printing", "printed", "bail"}

-----------------------------------------------------------------------------
\* The tokens that the lexer finds in items printed, if it finds each word.
AddToken(tokens, item) == IF item = Gap THEN tokens ELSE Append(tokens, item.typ)

TokensOf(items) ==
  LET found[k \in 0 .. Len(items)] ==
        IF k = 0 THEN <<>> ELSE AddToken(found[k - 1], items[k])
  IN  found[Len(items)]

Printed == TokensOf(out)

\* The words printed form a program of the grammar in the comments of
\* parser.c, semicolons included, and what was printed before a bail out is
\* the beginning of one.
PrintsAProgram ==
  /\ status = "printed" => Derivable(DocumentedRightSides, Printed)
  /\ status = "bail" => ViablePrefix(DocumentedRightSides, Printed)

SymbolSyms == {"periodsym", "semisym", "commasym", "becomessym", "lparensym",
               "rparensym"} \cup RelOpSyms \cup SignSyms \cup MultDivSyms

\* Two words that are one for the lexer if nothing separates them: names,
\* numbers and keywords, and the first character of a longer symbol.
Merge(v, w) ==
  \/ v \notin SymbolSyms \cup {"gap"} /\ w \notin SymbolSyms \cup {"gap"}
  \/ v \in {"lessym", "gtrsym"} /\ w \in {"eqsym", "gtrsym", "geqsym"}

\* The lexer reads the words that the unparser meant.
WordsStayApart == \A k \in 1 .. Len(out) - 1 : ~Merge(out[k].typ, out[k + 1].typ)

\* The unparser bails out only at an operator that is none: the calls of
\* bail_with_error for unexpected type tags are unreachable.
BailsOnlyForOperators ==
  status = "bail" =>
    /\ rest # <<>>
    /\ \/ Head(rest).do = "unparseRelOp" /\ Node.op \notin RelOps
       \/ Head(rest).do = "unparseArithOp" /\ Node.op \notin ArithOps

\* Every tree is printed to its end.
Terminates == <>(status # "printing")
=============================================================================
