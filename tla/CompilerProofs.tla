--------------------------- MODULE CompilerProofs ---------------------------
(***************************************************************************)
(* Proofs about the driver, for every file, every capacity of the symbol   *)
(* table and every size of stdio's buffer: first whatever the phases do,   *)
(* and then with what is proved about each of them.                        *)
(***************************************************************************)
EXTENDS RoundTrip, TLAPS, SequenceTheorems

\* The order of the phases: nothing is checked before all is printed.
PhaseInv ==
  /\ phase \in {"parse", "close", "unparse"} => verdict = Checker!NotStarted
  /\ phase = "check" \/ verdict # Checker!NotStarted => status = "printed"

LEMMA NextPhase == ASSUME PhaseInv, [Next]_vars PROVE PhaseInv'
<1>1. CASE Parse
  BY <1>1 DEF Parse, GoTo, Fail, Exit, PhaseInv, unparserVars, checkerVars
<1>2. CASE ParserClose
  BY <1>2 DEF ParserClose, GoTo, Fail, Exit, PhaseInv, checkerVars
<1>3. CASE UnparseProgram
  BY <1>3 DEF UnparseProgram, GoTo, Fail, Exit, PhaseInv
<1>4. CASE CheckProgram
  BY <1>4 DEF CheckProgram, GoTo, Fail, Exit, PhaseInv, unparserVars
<1>5. CASE UNCHANGED vars
  BY <1>5 DEF vars, unparserVars, checkerVars, PhaseInv
<1> QED
  BY <1>1, <1>2, <1>3, <1>4, <1>5 DEF Next, Step, Stay

\* Whatever the declarations are found to be, the program has been printed to
\* its end by then.
THEOREM NoVerdictBeforePrinted ==
  Spec => [](verdict # Checker!NotStarted => status = "printed")
<1>1. Init => PhaseInv
  BY DEF Init, PhaseInv
<1>2. PhaseInv /\ [Next]_vars => PhaseInv'
  BY NextPhase
<1>3. PhaseInv => (verdict # Checker!NotStarted => status = "printed")
  BY DEF PhaseInv
<1> QED
  BY <1>1, <1>2, <1>3, PTL DEF Spec

-----------------------------------------------------------------------------
(* What is proved about the phases, on the driver's variables.             *)

OfParser == INSTANCE ParserTreeProofs
OfUnparser == INSTANCE UnparserProofs WITH Programs <- {}
OfChecker == INSTANCE ScopeCheckProofs WITH Programs <- {}

\* The steps of the driver's phases are those that the proofs are about.
LEMMA ParserSteps == ASSUME Parser!Step PROVE OfParser!Step
BY DEF Parser!TokenTypes, Parser!SignSyms, Parser!NoText, Parser!Token, Parser!EofToken,
     Parser!ZeroToken, Parser!NULL, Parser!NoOp, Parser!RelOps, Parser!GarbageOp,
     Parser!ast_allocate, Parser!ast_program, Parser!ast_const_def, Parser!ast_var_decl,
     Parser!ast_assign_stmt, Parser!ast_begin_stmt, Parser!ast_if_stmt,
     Parser!ast_while_stmt, Parser!ast_read_stmt, Parser!ast_write_stmt,
     Parser!ast_skip_stmt, Parser!ast_odd_cond, Parser!ast_bin_cond, Parser!ast_op_expr,
     Parser!ast_bin_expr, Parser!ast_ident, Parser!ast_number, Parser!ast_list_is_empty,
     Parser!ast_list_rest, Parser!ast_list_last_elem, Parser!ast_list_splice,
     Parser!Instr, Parser!eat, Parser!Call, Parser!CallWith, Parser!Make, Parser!Finish,
     Parser!Arity, Parser!Running, Parser!At, Parser!See, Parser!Do,
     Parser!parse_error_unexpected, Parser!bail_with_error, Parser!Val, Parser!Replace,
     Parser!lexer_next, Parser!advance, Parser!Eat, Parser!ParserOpen, Parser!Top,
     Parser!Build, Parser!Allocate, Parser!StartList, Parser!AddAstToEnd,
     Parser!EndList, Parser!DropLast, Parser!ParseyParse, Parser!ParseBlock,
     Parser!MakeProgram, Parser!DoWithList, Parser!ParseConstDecls,
     Parser!ConstDeclsLoop, Parser!ParseConstDecl, Parser!ConstDeclLoop,
     Parser!ParseConstIdent, Parser!ConstNumber, Parser!ParseVarDecls,
     Parser!VarDeclsLoop, Parser!ParseVarDecl, Parser!VarDeclLoop, Parser!ParseVarIdent,
     Parser!StmtParser, Parser!ParseStmts, Parser!ParseStmt, Parser!ParseAssignStmt,
     Parser!ParseBeginStmt, Parser!ParseStmtList, Parser!StmtListLoop,
     Parser!ParseIfStmt, Parser!ParseWhileStmt, Parser!ParseReadStmt, Parser!ReadIdent,
     Parser!ParseWriteStmt, Parser!ParseSkipStmt, Parser!ParseCondition, Parser!RelOpOf,
     Parser!WhichOne, Parser!AddSubOp, Parser!MultDivOp, Parser!ParseExpr,
     Parser!ExprLoop, Parser!ParseTerm, Parser!TermLoop, Parser!BinExpr,
     Parser!ParseMultDivFactor, Parser!ParseAddSubTerm, Parser!ParseFactor,
     Parser!ParseOpExpr, Parser!ParseParenExpr, Parser!RelocateParenExpr,
     Parser!ParseIdentExpr, Parser!ParseNumber, Parser!SignedValue, Parser!Return,
     Parser!ParseDecls, Parser!ParseStatements, Parser!ParseExpressions,
     Parser!BuildTrees, Parser!Step, OfParser!TokenTypes, OfParser!SignSyms,
     OfParser!NoText, OfParser!Token, OfParser!EofToken, OfParser!ZeroToken,
     OfParser!NULL, OfParser!NoOp, OfParser!RelOps, OfParser!GarbageOp,
     OfParser!ast_allocate, OfParser!ast_program, OfParser!ast_const_def,
     OfParser!ast_var_decl, OfParser!ast_assign_stmt, OfParser!ast_begin_stmt,
     OfParser!ast_if_stmt, OfParser!ast_while_stmt, OfParser!ast_read_stmt,
     OfParser!ast_write_stmt, OfParser!ast_skip_stmt, OfParser!ast_odd_cond,
     OfParser!ast_bin_cond, OfParser!ast_op_expr, OfParser!ast_bin_expr,
     OfParser!ast_ident, OfParser!ast_number, OfParser!ast_list_is_empty,
     OfParser!ast_list_rest, OfParser!ast_list_last_elem, OfParser!ast_list_splice,
     OfParser!Instr, OfParser!eat, OfParser!Call, OfParser!CallWith, OfParser!Make,
     OfParser!Finish, OfParser!Arity, OfParser!Running, OfParser!At, OfParser!See,
     OfParser!Do, OfParser!parse_error_unexpected, OfParser!bail_with_error,
     OfParser!Val, OfParser!Replace, OfParser!lexer_next, OfParser!advance,
     OfParser!Eat, OfParser!ParserOpen, OfParser!Top, OfParser!Build, OfParser!Allocate,
     OfParser!StartList, OfParser!AddAstToEnd, OfParser!EndList, OfParser!DropLast,
     OfParser!ParseyParse, OfParser!ParseBlock, OfParser!MakeProgram,
     OfParser!DoWithList, OfParser!ParseConstDecls, OfParser!ConstDeclsLoop,
     OfParser!ParseConstDecl, OfParser!ConstDeclLoop, OfParser!ParseConstIdent,
     OfParser!ConstNumber, OfParser!ParseVarDecls, OfParser!VarDeclsLoop,
     OfParser!ParseVarDecl, OfParser!VarDeclLoop, OfParser!ParseVarIdent,
     OfParser!StmtParser, OfParser!ParseStmts, OfParser!ParseStmt,
     OfParser!ParseAssignStmt, OfParser!ParseBeginStmt, OfParser!ParseStmtList,
     OfParser!StmtListLoop, OfParser!ParseIfStmt, OfParser!ParseWhileStmt,
     OfParser!ParseReadStmt, OfParser!ReadIdent, OfParser!ParseWriteStmt,
     OfParser!ParseSkipStmt, OfParser!ParseCondition, OfParser!RelOpOf,
     OfParser!WhichOne, OfParser!AddSubOp, OfParser!MultDivOp, OfParser!ParseExpr,
     OfParser!ExprLoop, OfParser!ParseTerm, OfParser!TermLoop, OfParser!BinExpr,
     OfParser!ParseMultDivFactor, OfParser!ParseAddSubTerm, OfParser!ParseFactor,
     OfParser!ParseOpExpr, OfParser!ParseParenExpr, OfParser!RelocateParenExpr,
     OfParser!ParseIdentExpr, OfParser!ParseNumber, OfParser!SignedValue,
     OfParser!Return, OfParser!ParseDecls, OfParser!ParseStatements,
     OfParser!ParseExpressions, OfParser!BuildTrees, OfParser!Step

LEMMA UnparserSteps == ASSUME Unparser!Step PROVE OfUnparser!Step
BY DEF Unparser!NoText, Unparser!NULL, Unparser!ast_list_is_empty, Unparser!ast_list_rest,
     Unparser!Word, Unparser!Name, Unparser!Gap, Unparser!Decimal, Unparser!Emit,
     Unparser!CallStmt, Unparser!Call, Unparser!At, Unparser!Arg, Unparser!Semi,
     Unparser!Node, Unparser!Kid, Unparser!PrintThen, Unparser!Do,
     Unparser!bail_with_error, Unparser!PrintWords, Unparser!newlineAndOptionalSemi,
     Unparser!UnparseProgram, Unparser!UnparseBlock, Unparser!DoList,
     Unparser!UnparseConstDecls, Unparser!UnparseConstDecl, Unparser!UnparseVarDecls,
     Unparser!UnparseVarDecl, Unparser!StmtUnparser, Unparser!UnparseStmt,
     Unparser!UnparseAssignStmt, Unparser!UnparseBeginStmt, Unparser!DoStmts,
     Unparser!UnparseStmtList, Unparser!StmtsLoop, Unparser!UnparseIfStmt,
     Unparser!UnparseWhileStmt, Unparser!UnparseReadStmt, Unparser!UnparseWriteStmt,
     Unparser!UnparseSkipStmt, Unparser!UnparseCondition, Unparser!UnparseOddCond,
     Unparser!UnparseBinRelCond, Unparser!RelOpWord, Unparser!ArithOpWord,
     Unparser!PrintOp, Unparser!UnparseRelOp, Unparser!UnparseArithOp,
     Unparser!UnparseExpr, Unparser!UnparseBinExpr, Unparser!UnparseIdent,
     Unparser!UnparseNumber, Unparser!Return, Unparser!UnparseDecls,
     Unparser!UnparseStmts, Unparser!UnparseExprs, Unparser!Step, OfUnparser!NoText,
     OfUnparser!NULL, OfUnparser!ast_list_is_empty, OfUnparser!ast_list_rest,
     OfUnparser!Word, OfUnparser!Name, OfUnparser!Gap, OfUnparser!Decimal,
     OfUnparser!Emit, OfUnparser!CallStmt, OfUnparser!Call, OfUnparser!At,
     OfUnparser!Arg, OfUnparser!Semi, OfUnparser!Node, OfUnparser!Kid,
     OfUnparser!PrintThen, OfUnparser!Do, OfUnparser!bail_with_error,
     OfUnparser!PrintWords, OfUnparser!newlineAndOptionalSemi,
     OfUnparser!UnparseProgram, OfUnparser!UnparseBlock, OfUnparser!DoList,
     OfUnparser!UnparseConstDecls, OfUnparser!UnparseConstDecl,
     OfUnparser!UnparseVarDecls, OfUnparser!UnparseVarDecl, OfUnparser!StmtUnparser,
     OfUnparser!UnparseStmt, OfUnparser!UnparseAssignStmt, OfUnparser!UnparseBeginStmt,
     OfUnparser!DoStmts, OfUnparser!UnparseStmtList, OfUnparser!StmtsLoop,
     OfUnparser!UnparseIfStmt, OfUnparser!UnparseWhileStmt, OfUnparser!UnparseReadStmt,
     OfUnparser!UnparseWriteStmt, OfUnparser!UnparseSkipStmt,
     OfUnparser!UnparseCondition, OfUnparser!UnparseOddCond,
     OfUnparser!UnparseBinRelCond, OfUnparser!RelOpWord, OfUnparser!ArithOpWord,
     OfUnparser!PrintOp, OfUnparser!UnparseRelOp, OfUnparser!UnparseArithOp,
     OfUnparser!UnparseExpr, OfUnparser!UnparseBinExpr, OfUnparser!UnparseIdent,
     OfUnparser!UnparseNumber, OfUnparser!Return, OfUnparser!UnparseDecls,
     OfUnparser!UnparseStmts, OfUnparser!UnparseExprs, OfUnparser!Step

LEMMA CheckerSteps == ASSUME Checker!Step PROVE OfChecker!Step
BY DEF Checker!NoText, Checker!NULL, Checker!ast_list_is_empty, Checker!ast_list_rest,
     Checker!NullId, Checker!JunkId, Checker!EmptySlot, Checker!CreatedTables,
     Checker!scope_size, Checker!scope_full, Checker!scope_lookup,
     Checker!scope_defined, Checker!create_id_attrs, Checker!Written, Checker!scope_add,
     Checker!Damaged, Checker!Verdict, Checker!NotStarted, Checker!Checking,
     Checker!Call, Checker!At, Checker!Arg, Checker!Node, Checker!Do,
     Checker!general_error, Checker!bail_with_error, Checker!Crash,
     Checker!ScopeInitialize, Checker!LookupCrashes, Checker!scope_insert,
     Checker!add_ident_to_scope, Checker!scope_check_ident, Checker!ScopeCheckProgram,
     Checker!DoList, Checker!ScopeCheckConstDecls, Checker!ScopeCheckConstDecl,
     Checker!ScopeCheckVarDecls, Checker!ScopeCheckVarDecl, Checker!StmtChecker,
     Checker!ScopeCheckStmt, Checker!ScopeCheckAssignStmt, Checker!ScopeCheckBeginStmt,
     Checker!ScopeCheckStmts, Checker!ScopeCheckWhile, Checker!ScopeCheckIfStmt,
     Checker!ScopeCheckCond, Checker!ScopeCheckReadStmt, Checker!ScopeCheckWriteStmt,
     Checker!ScopeCheckExpr, Checker!ScopeCheckIdent, Checker!ScopeCheckBinExpr,
     Checker!Return, Checker!CheckDecls, Checker!CheckStmts, Checker!CheckExprs,
     Checker!Step, OfChecker!NoText, OfChecker!NULL, OfChecker!ast_list_is_empty,
     OfChecker!ast_list_rest, OfChecker!NullId, OfChecker!JunkId, OfChecker!EmptySlot,
     OfChecker!CreatedTables, OfChecker!scope_size, OfChecker!scope_full,
     OfChecker!scope_lookup, OfChecker!scope_defined, OfChecker!create_id_attrs,
     OfChecker!Written, OfChecker!scope_add, OfChecker!Damaged, OfChecker!Verdict,
     OfChecker!NotStarted, OfChecker!Checking, OfChecker!Call, OfChecker!At,
     OfChecker!Arg, OfChecker!Node, OfChecker!Do, OfChecker!general_error,
     OfChecker!bail_with_error, OfChecker!Crash, OfChecker!ScopeInitialize,
     OfChecker!LookupCrashes, OfChecker!scope_insert, OfChecker!add_ident_to_scope,
     OfChecker!scope_check_ident, OfChecker!ScopeCheckProgram, OfChecker!DoList,
     OfChecker!ScopeCheckConstDecls, OfChecker!ScopeCheckConstDecl,
     OfChecker!ScopeCheckVarDecls, OfChecker!ScopeCheckVarDecl, OfChecker!StmtChecker,
     OfChecker!ScopeCheckStmt, OfChecker!ScopeCheckAssignStmt,
     OfChecker!ScopeCheckBeginStmt, OfChecker!ScopeCheckStmts,
     OfChecker!ScopeCheckWhile, OfChecker!ScopeCheckIfStmt, OfChecker!ScopeCheckCond,
     OfChecker!ScopeCheckReadStmt, OfChecker!ScopeCheckWriteStmt,
     OfChecker!ScopeCheckExpr, OfChecker!ScopeCheckIdent, OfChecker!ScopeCheckBinExpr,
     OfChecker!Return, OfChecker!CheckDecls, OfChecker!CheckStmts, OfChecker!CheckExprs,
     OfChecker!Step

ParserInv ==
  /\ OfParser!TreeInv /\ OfParser!NamesInv /\ OfParser!Ending
  /\ OfParser!ControlOK /\ OfParser!DerivationInv

LEMMA InitParserInv == ASSUME Parser!Init PROVE ParserInv
<1>1. OfParser!Init
  BY DEF Parser!NoText, Parser!ZeroToken, Parser!NULL, Parser!NoOp, Parser!ast_allocate,
     Parser!Instr, Parser!Call, Parser!Init, OfParser!NoText, OfParser!ZeroToken,
     OfParser!NULL, OfParser!NoOp, OfParser!ast_allocate, OfParser!Instr, OfParser!Call,
     OfParser!Init
<1>2. OfParser!TreeInv
  BY <1>1, OfParser!InitTyped, LexemesAssumption, MaxTokensAssumption
     DEF OfParser!Texts, OfParser!NoText, Texts, NoText, TokenTypes, OfParser!TokenTypes
<1>3. OfParser!NamesInv
  BY <1>1, OfParser!InitNames, LexemesAssumption, MaxTokensAssumption
     DEF OfParser!Texts, OfParser!NoText, Texts, NoText, TokenTypes, OfParser!TokenTypes
<1>4. OfParser!Ending
  BY <1>1 DEF OfParser!Init, OfParser!Ending
<1>5. OfParser!ControlOK
  BY <1>1, OfParser!InitRefines, LexemesAssumption, MaxTokensAssumption
     DEF OfParser!Texts, OfParser!NoText, Texts, NoText, TokenTypes, OfParser!TokenTypes
<1>6. OfParser!DerivationInv
  BY <1>1, OfParser!DerivationInit, LexemesAssumption, MaxTokensAssumption
     DEF OfParser!Texts, OfParser!NoText, Texts, NoText, TokenTypes, OfParser!TokenTypes
<1> QED
  BY <1>2, <1>3, <1>4, <1>5, <1>6 DEF ParserInv

LEMMA NextParserInv ==
  ASSUME ParserInv, Parser!Step \/ UNCHANGED parserVars
  PROVE  ParserInv'
<1>1. OfParser!Next \/ UNCHANGED OfParser!vars
  BY ParserSteps DEF OfParser!Next, OfParser!vars, parserVars
<1>2. OfParser!TreeInv'
  BY <1>1, OfParser!NextTyped, LexemesAssumption, MaxTokensAssumption
     DEF ParserInv, OfParser!Texts, OfParser!NoText, Texts, NoText, TokenTypes, OfParser!TokenTypes
<1>3. OfParser!NamesInv'
  BY <1>1, OfParser!NextNames, LexemesAssumption, MaxTokensAssumption
     DEF ParserInv, OfParser!Texts, OfParser!NoText, Texts, NoText, TokenTypes, OfParser!TokenTypes
<1>4. OfParser!Ending'
  BY <1>1, OfParser!NextEnding, LexemesAssumption, MaxTokensAssumption
     DEF ParserInv, OfParser!Texts, OfParser!NoText, Texts, NoText, TokenTypes, OfParser!TokenTypes
<1>5. OfParser!ControlOK'
  BY <1>1, OfParser!NextParses, LexemesAssumption, MaxTokensAssumption
     DEF ParserInv, OfParser!Texts, OfParser!NoText, Texts, NoText, TokenTypes, OfParser!TokenTypes
<1>6. OfParser!DerivationInv'
  BY <1>1, OfParser!DerivationNext, LexemesAssumption, MaxTokensAssumption
     DEF ParserInv, OfParser!Texts, OfParser!NoText, Texts, NoText, TokenTypes, OfParser!TokenTypes
<1> QED
  BY <1>2, <1>3, <1>4, <1>5, <1>6 DEF ParserInv

LEMMA UnparserStarts == (OfUnparser!Started => OfUnparser!IInv)'
<1>1. OfUnparser!Started => OfUnparser!IInv
  BY OfUnparser!StartInv
<1> QED
  BY <1>1, PTL

LEMMA PrinterStarts ==
  (OfUnparser!Started /\ OfUnparser!UnsignedConsts => OfUnparser!DerivInv)'
<1>1. OfUnparser!Started /\ OfUnparser!UnsignedConsts => OfUnparser!DerivInv
  BY OfUnparser!StartDerives
<1> QED
  BY <1>1, PTL

LEMMA EndStarts == (OfUnparser!Started => OfUnparser!EndInv)'
<1>1. OfUnparser!Started => OfUnparser!EndInv
  BY OfUnparser!StartEnds
<1> QED
  BY <1>1, PTL

\* What the unparser prints stays the beginning of a program.
LEMMA PrinterGoesOn ==
  ASSUME OfUnparser!IInv, OfUnparser!DerivInv, OfUnparser!EndInv,
         OfUnparser!Step \/ UNCHANGED OfUnparser!vars
  PROVE  OfUnparser!IInv' /\ OfUnparser!DerivInv' /\ OfUnparser!EndInv'
<1>1. [OfUnparser!Next]_OfUnparser!vars
  BY DEF OfUnparser!Next
<1>2. OfUnparser!IInv' /\ OfUnparser!DerivInv'
  BY <1>1, OfUnparser!NextInv, OfUnparser!NextDerives
<1>3. CASE UNCHANGED OfUnparser!vars
  <2>1. UNCHANGED <<heap, root, rest, out>>
    BY <1>3 DEF OfUnparser!vars
  <2>2. OfUnparser!EndInv'
    BY <2>1 DEF OfUnparser!EndInv
  <2> QED
    BY <1>2, <2>2
<1>4. CASE OfUnparser!Step
  BY <1>2, <1>4, OfUnparser!StepKeepsEnd
<1> QED
  BY <1>3, <1>4

\* The parser's declarations have numbers without a sign.
LEMMA ParsedConsts == ASSUME ParserInv PROVE OfUnparser!UnsignedConsts
BY DEF ParserInv, OfParser!NamesInv, OfParser!NameFits, OfUnparser!UnsignedConsts

LEMMA CheckerStarts == (OfChecker!Started /\ OfChecker!Acyclic(heap) => OfChecker!Known)'
<1>1. OfChecker!Started => OfChecker!IInv
  BY OfChecker!StartInv, MaxScopeSizeAssumption, NamesAssumption
     DEF OfChecker!NullId, OfChecker!JunkId, Checker!NullId, Checker!JunkId, NoText
<1>2. OfChecker!Started /\ OfChecker!Acyclic(heap) => OfChecker!WalkInv
  BY OfChecker!StartWalk, MaxScopeSizeAssumption, NamesAssumption
     DEF OfChecker!NullId, OfChecker!JunkId, Checker!NullId, Checker!JunkId, NoText
<1>3. OfChecker!Started /\ OfChecker!Acyclic(heap) => OfChecker!Known
  BY <1>1, <1>2 DEF OfChecker!Known
<1> QED
  BY <1>3, PTL

LEMMA CheckerGoesOn ==
  ASSUME OfChecker!Known, OfChecker!Step \/ UNCHANGED OfChecker!vars
  PROVE  OfChecker!Known'
<1>1. OfChecker!IInv /\ [OfChecker!Next]_OfChecker!vars
  BY DEF OfChecker!Known, OfChecker!Next
<1>2. OfChecker!IInv'
  BY <1>1, OfChecker!NextInv, MaxScopeSizeAssumption, NamesAssumption
     DEF OfChecker!NullId, OfChecker!JunkId, Checker!NullId, Checker!JunkId, NoText
<1>3. OfChecker!WalkInv'
  BY <1>1, OfChecker!NextWalk, MaxScopeSizeAssumption, NamesAssumption
     DEF OfChecker!NullId, OfChecker!JunkId, Checker!NullId, Checker!JunkId, NoText
<1> QED
  BY <1>2, <1>3 DEF OfChecker!Known

\* A well-formed tree is one for every phase.
LEMMA SameTrees ==
  ASSUME OfParser!TreeOK(heap)
  PROVE  OfUnparser!TreeOK(heap) /\ OfChecker!TreeOK(heap)
BY DEF OfParser!NoText, OfParser!Texts, OfParser!NULL, OfParser!NoOp, OfParser!ListTags,
     OfParser!StmtTags, OfParser!CondTags, OfParser!ExprTags, OfParser!AstTags,
     OfParser!ArithOps, OfParser!RelOps, OfParser!GarbageOp, OfParser!Ops,
     OfParser!Nodes, OfParser!SlotTags, OfParser!MayBeEmpty, OfParser!SlotFits,
     OfParser!NextFits, OfParser!WellFormed, OfParser!TreeOK, OfUnparser!NoText,
     OfUnparser!Texts, OfUnparser!NULL, OfUnparser!NoOp, OfUnparser!ListTags,
     OfUnparser!StmtTags, OfUnparser!CondTags, OfUnparser!ExprTags, OfUnparser!AstTags,
     OfUnparser!ArithOps, OfUnparser!RelOps, OfUnparser!GarbageOp, OfUnparser!Ops,
     OfUnparser!Nodes, OfUnparser!SlotTags, OfUnparser!MayBeEmpty, OfUnparser!SlotFits,
     OfUnparser!NextFits, OfUnparser!WellFormed, OfUnparser!TreeOK, OfChecker!NoText,
     OfChecker!Texts, OfChecker!NULL, OfChecker!NoOp, OfChecker!ListTags,
     OfChecker!StmtTags, OfChecker!CondTags, OfChecker!ExprTags, OfChecker!AstTags,
     OfChecker!ArithOps, OfChecker!RelOps, OfChecker!GarbageOp, OfChecker!Ops,
     OfChecker!Nodes, OfChecker!SlotTags, OfChecker!MayBeEmpty, OfChecker!SlotFits,
     OfChecker!NextFits, OfChecker!WellFormed, OfChecker!TreeOK

\* The parser's trees have no cycles for the checker either.
LEMMA SameCycles ==
  ASSUME ParserInv
  PROVE  OfChecker!Acyclic(heap)
<1>1. OfParser!Acyclic(heap)
  BY OfParser!TreeInvImpliesAcyclic, LexemesAssumption, MaxTokensAssumption
     DEF ParserInv, OfParser!Texts, OfParser!NoText, Texts, NoText, TokenTypes, OfParser!TokenTypes
<1>2. /\ OfParser!NULL = OfChecker!NULL /\ OfParser!SlotTags = OfChecker!SlotTags
  BY DEF OfParser!NULL, OfParser!StmtTags, OfParser!CondTags, OfParser!ExprTags,
     OfParser!SlotTags, OfChecker!NULL, OfChecker!StmtTags, OfChecker!CondTags,
     OfChecker!ExprTags, OfChecker!SlotTags
<1>3. \A p : OfParser!LinksOf(heap, p) = OfChecker!LinksOf(heap, p)
  BY <1>2 DEF OfParser!LinksOf, OfChecker!LinksOf
<1>4. \A r : OfParser!Ranked(heap, r) <=> OfChecker!Ranked(heap, r)
  BY <1>2, <1>3 DEF OfParser!Ranked, OfParser!Lower, OfChecker!Ranked, OfChecker!Lower
<1> QED
  BY <1>1, <1>4 DEF OfParser!Acyclic, OfChecker!Acyclic

-----------------------------------------------------------------------------
(* The phases one after the other.                                         *)

\* The inductive invariant: the parser hands a well-formed tree over to the
\* unparser and leaves it alone from then on, the unparser hands it over to
\* the checker, and a phase that has not begun has changed nothing.
PhasesInv ==
  /\ ParserInv
  /\ phase \in {"parse", "close", "unparse", "check", "exited", "killed"}
  /\ phase = "close" => outcome.kind = "parsed"
  /\ phase \in {"parse", "close"} => root = NULL
  /\ phase = "unparse" => root # NULL /\ status = "printing"
  /\ phase = "check" => status = "printed"
  /\ root = NULL => status = "printing" /\ rest = <<>> /\ out = <<>>
  /\ root # NULL => /\ OfUnparser!IInv
                    /\ OfUnparser!DerivInv
                    /\ OfUnparser!EndInv
                    /\ heap[root].tag = "program_ast"
  /\ status = "printed" => OfChecker!Known
  /\ status # "printed" => /\ symtab = Checker!NoTable
                          /\ work = <<>>
                          /\ verdict = Checker!NotStarted

LEMMA ParsePhase == ASSUME PhasesInv, Parse PROVE PhasesInv'
<1>1. ParserInv'
  BY NextParserInv DEF PhasesInv, Parse
<1>2. root = NULL /\ status = "printing" /\ rest = <<>> /\ out = <<>>
  BY DEF PhasesInv, Parse
<1>3. /\ phase' \in {"parse", "close", "exited", "killed"}
      /\ phase' = "close" => outcome'.kind = "parsed"
  BY DEF Parse, GoTo, Fail, Exit
<1>4. UNCHANGED <<root, rest, out, status, symtab, work, verdict>>
  BY DEF Parse, unparserVars, checkerVars
<1> QED
  BY <1>1, <1>2, <1>3, <1>4 DEF PhasesInv

LEMMA ClosePhase == ASSUME PhasesInv, ParserClose PROVE PhasesInv'
<1>1. ParserInv'
  BY NextParserInv DEF PhasesInv, ParserClose
<1>2. /\ root = NULL /\ status = "printing" /\ rest = <<>> /\ out = <<>>
      /\ symtab = Checker!NoTable /\ work = <<>> /\ verdict = Checker!NotStarted
  BY DEF PhasesInv, ParserClose
<1>3. UNCHANGED <<heap, vals, out, status, symtab, work, verdict>>
  BY DEF ParserClose, parserVars, checkerVars
<1>4. CASE Fail("bail") /\ UNCHANGED <<root, rest>>
  BY <1>1, <1>2, <1>3, <1>4 DEF PhasesInv, Fail, Exit
<1>5. CASE /\ GoTo("unparse")
           /\ root' = vals[1]
           /\ rest' = <<Unparser!Call("unparseProgram", root')>>
  <2>1. todo = <<>>
    BY DEF PhasesInv, ParserInv, ParserClose, OfParser!Ending
  <2>2. root' \in 1 .. Len(heap') /\ heap'[root'].tag = "program_ast"
    BY <1>3, <1>5, <2>1, OfParser!RootIsProgram, LexemesAssumption, MaxTokensAssumption
       DEF PhasesInv, ParserInv, OfParser!Texts, OfParser!NoText, Texts, NoText,
           TokenTypes, OfParser!TokenTypes
  <2>3. OfUnparser!TreeOK(heap')
    BY <1>3, SameTrees DEF PhasesInv, ParserInv, OfParser!TreeInv, OfParser!HeapOK
  <2>4. OfUnparser!Started'
    BY <1>2, <1>3, <1>5, <2>2, <2>3
       DEF OfUnparser!Started, OfUnparser!Call, OfUnparser!CallStmt, Unparser!Call,
           Unparser!CallStmt
  <2>5. OfUnparser!IInv' /\ OfUnparser!DerivInv' /\ OfUnparser!EndInv'
    <3>1. OfUnparser!UnsignedConsts
      BY ParsedConsts DEF PhasesInv
    <3>2. OfUnparser!UnsignedConsts'
      BY <1>3, <3>1 DEF OfUnparser!UnsignedConsts
    <3> QED
      BY <2>4, <3>2, UnparserStarts, PrinterStarts, EndStarts
  <2>6. root' # NULL /\ phase' = "unparse"
    BY <1>5, <2>2 DEF NULL, GoTo
  <2> QED
    BY <1>1, <1>2, <1>3, <2>2, <2>5, <2>6 DEF PhasesInv
<1> QED
  BY <1>4, <1>5 DEF ParserClose

\* The names in a tree that the parser has built.
LEMMA NamesForChecker ==
  ASSUME ParserInv, NEW p \in 1 .. Len(heap)
  PROVE  /\ heap[p].name \in Names \cup {NoText}
         /\ heap[p].tag \in NamedTags => heap[p].name \in Names
<1>1. OfParser!NameFits(heap[p])
  BY DEF ParserInv, OfParser!NamesInv
<1>2. OfParser!IdentTexts \subseteq Names
  BY NamesAssumption DEF OfParser!IdentTexts
<1>3. OfParser!NamedTags = NamedTags /\ OfParser!NoText = NoText
  BY DEF OfParser!NamedTags, NamedTags, OfParser!ListTags, ListTags, OfParser!NoText, NoText
<1> QED
  BY <1>1, <1>2, <1>3 DEF OfParser!NameFits

LEMMA UnparsePhase == ASSUME PhasesInv, UnparseProgram PROVE PhasesInv'
<1>1. OfUnparser!Step /\ OfUnparser!IInv /\ OfUnparser!DerivInv /\ OfUnparser!EndInv
  BY UnparserSteps DEF PhasesInv, UnparseProgram
<1>2. OfUnparser!IInv' /\ OfUnparser!DerivInv' /\ OfUnparser!EndInv'
  BY <1>1, PrinterGoesOn
<1>3. UNCHANGED <<heap, root, currToken, done, eaten, todo, vals, outcome, symtab, verdict>>
  BY <1>1, OfUnparser!StepKeepsTree DEF UnparseProgram
<1>4. ParserInv'
  BY <1>3, NextParserInv DEF PhasesInv, parserVars
<1>5. /\ root # NULL /\ status = "printing" /\ heap[root].tag = "program_ast"
      /\ symtab = Checker!NoTable /\ work = <<>> /\ verdict = Checker!NotStarted
  BY DEF PhasesInv, UnparseProgram
<1>6. CASE status' = "printing"
  BY <1>2, <1>3, <1>4, <1>5, <1>6 DEF PhasesInv, UnparseProgram
<1>7. CASE status' = "printed"
  <2>1. phase' = "check" /\ work' = <<Checker!Call("scope_check_program", root)>>
    BY <1>7 DEF UnparseProgram, GoTo
  <2>2. OfChecker!TreeOK(heap)
    BY SameTrees DEF PhasesInv, ParserInv, OfParser!TreeInv, OfParser!HeapOK
  <2>3. root \in 1 .. Len(heap)
    BY <1>1 DEF OfUnparser!IInv
  <2>4. OfChecker!HeapOK'
    BY <1>3, <1>5, <2>2, <2>3, NamesForChecker
       DEF PhasesInv, OfChecker!HeapOK, OfChecker!NamedTags, NamedTags, OfChecker!ListTags,
           ListTags, OfChecker!NoText, NoText
  <2>5. OfChecker!Started'
    BY <1>3, <1>5, <2>1, <2>4
       DEF OfChecker!Started, OfChecker!Call, Checker!Call, OfChecker!NotStarted,
           Checker!NotStarted, OfChecker!Verdict, Checker!Verdict, OfChecker!NoTable,
           Checker!NoTable, OfChecker!EmptySlot, Checker!EmptySlot, OfChecker!NullId,
           Checker!NullId, OfChecker!NoText, Checker!NoText
  <2>6. OfChecker!Known'
    <3>1. OfChecker!Acyclic(heap)
      BY SameCycles DEF PhasesInv
    <3>2. OfChecker!Acyclic(heap)'
      BY <1>3, <3>1 DEF OfChecker!Acyclic, OfChecker!Ranked, OfChecker!Lower,
         OfChecker!LinksOf
    <3> QED
      BY <2>5, <3>2, CheckerStarts
  <2> QED
    BY <1>2, <1>3, <1>4, <1>5, <1>7, <2>1, <2>6 DEF PhasesInv
<1>8. CASE status' \notin {"printing", "printed"}
  <2>1. phase' = "exited" /\ work' = work
    BY <1>8 DEF UnparseProgram, Fail, Exit
  <2> QED
    BY <1>2, <1>3, <1>4, <1>5, <1>8, <2>1 DEF PhasesInv
<1> QED
  BY <1>6, <1>7, <1>8

LEMMA CheckPhase == ASSUME PhasesInv, CheckProgram PROVE PhasesInv'
<1>1. OfChecker!Step /\ OfChecker!Known /\ OfChecker!IInv /\ status = "printed"
  BY CheckerSteps DEF PhasesInv, CheckProgram, OfChecker!Known
<1>2. OfChecker!Known'
  BY <1>1, CheckerGoesOn
<1>3. /\ UNCHANGED <<heap, root, currToken, done, eaten, todo, vals, outcome>>
      /\ UNCHANGED <<rest, out, status>>
  BY <1>1, OfChecker!StepKeepsTree, MaxScopeSizeAssumption, NamesAssumption
     DEF OfChecker!NullId, OfChecker!JunkId, Checker!NullId, Checker!JunkId, NoText, CheckProgram, unparserVars
<1>4. ParserInv'
  BY <1>3, NextParserInv DEF PhasesInv, parserVars
<1>5. root # NULL
  BY <1>1 DEF PhasesInv
<1>6. OfUnparser!IInv' /\ OfUnparser!DerivInv' /\ OfUnparser!EndInv'
  BY <1>3, <1>5, PrinterGoesOn DEF PhasesInv, OfUnparser!vars
<1>7. phase' \in {"check", "exited", "killed"}
  BY DEF CheckProgram, GoTo, Fail, Exit
<1> QED
  BY <1>1, <1>2, <1>3, <1>4, <1>5, <1>6, <1>7 DEF PhasesInv

LEMMA InitPhases == Init => PhasesInv
<1> SUFFICES ASSUME Init PROVE PhasesInv
  OBVIOUS
<1>1. ParserInv
  BY InitParserInv DEF Init
<1> QED
  BY <1>1 DEF Init, PhasesInv

LEMMA NextPhases == ASSUME PhasesInv, [Next]_vars PROVE PhasesInv'
<1>1. CASE UNCHANGED vars
  <2>1. /\ UNCHANGED <<heap, root, rest, out, status, symtab, work, verdict, phase>>
        /\ UNCHANGED parserVars
    BY <1>1 DEF vars, parserVars, unparserVars, checkerVars
  <2>2. ParserInv'
    BY <2>1, NextParserInv DEF PhasesInv
  <2>3. root # NULL => OfUnparser!IInv' /\ OfUnparser!DerivInv' /\ OfUnparser!EndInv'
    BY <2>1, PrinterGoesOn DEF PhasesInv, OfUnparser!vars
  <2>4. status = "printed" => OfChecker!Known'
    BY <2>1, CheckerGoesOn DEF PhasesInv, OfChecker!vars
  <2> QED
    BY <2>1, <2>2, <2>3, <2>4 DEF PhasesInv, parserVars
<1> QED
  BY <1>1, ParsePhase, ClosePhase, UnparsePhase, CheckPhase DEF Next, Step, Stay

LEMMA PhasesInvariance == Spec => []PhasesInv
BY InitPhases, NextPhases, PTL DEF Spec

-----------------------------------------------------------------------------
(* What follows for the compiler.                                          *)

LEMMA OnlyGarbageFails ==
  ASSUME PhasesInv
  PROVE  /\ Printer!BailsOnlyForOperators
         /\ status = "bail" => heap[Head(rest).p].op = GarbageOp
<1>1. status = "bail" => OfUnparser!IInv /\ OfUnparser!BailsOnlyForOperators
  BY DEF PhasesInv, OfUnparser!IInv
<1>2. OfUnparser!BailsOnlyForOperators <=> Printer!BailsOnlyForOperators
  BY DEF OfUnparser!ArithOps, OfUnparser!RelOps, OfUnparser!Arg, OfUnparser!Node,
     OfUnparser!BailsOnlyForOperators, Printer!ArithOps, Printer!RelOps, Printer!Arg,
     Printer!Node, Printer!BailsOnlyForOperators
<1>3. Printer!BailsOnlyForOperators
  BY <1>1, <1>2 DEF Printer!BailsOnlyForOperators
<1>4. ASSUME status = "bail"
      PROVE  heap[Head(rest).p].op = GarbageOp
  <2> DEFINE i == Head(rest)
             p == i.p
  <2>1. /\ rest # <<>>
        /\ \/ i.do = "unparseRelOp" /\ heap[p].op \notin OfUnparser!RelOps
           \/ i.do = "unparseArithOp" /\ heap[p].op \notin OfUnparser!ArithOps
    BY <1>1, <1>4 DEF OfUnparser!BailsOnlyForOperators, OfUnparser!Node, OfUnparser!Arg
  <2>2. i \in OfUnparser!GoodInstrs
    BY <1>1, <1>4, <2>1 DEF OfUnparser!IInv
  <2>3. /\ i.do \in DOMAIN OfUnparser!Expected /\ i.do # "print"
        /\ i.do \notin OfUnparser!ListCalls
        /\ OfUnparser!Expected["unparseRelOp"] = {"bin_cond_ast"}
        /\ OfUnparser!Expected["unparseArithOp"] = {"bin_expr_ast"}
    BY <2>1, OfUnparser!ExpectedTags DEF OfUnparser!ListCalls
  <2>4. /\ p \in 0 .. Len(heap) /\ p # OfUnparser!NULL
        /\ heap[p].tag \in OfUnparser!Expected[i.do]
    BY <2>2, <2>3 DEF OfUnparser!GoodInstrs, OfUnparser!Instrs, OfUnparser!Fits
  <2>5. Len(heap) \in Nat /\ \A q \in 1 .. Len(heap) : OfParser!OpFits(heap[q])
    BY DEF PhasesInv, ParserInv, OfParser!TreeInv, OfParser!HeapOK, OfParser!TreeOK
  <2>6. OfParser!OpFits(heap[p])
    BY <2>4, <2>5 DEF OfUnparser!NULL
  <2> QED
    BY <2>1, <2>3, <2>4, <2>6
       DEF OfParser!OpFits, OfParser!RelOps, OfParser!ArithOps, OfParser!GarbageOp, GarbageOp,
           OfUnparser!RelOps, OfUnparser!ArithOps
<1> QED
  BY <1>3, <1>4

LEMMA OnlySpaceFails == ASSUME PhasesInv PROVE Judge!BailsOnlyWithoutSpace
<1>1. CASE status = "printed"
  <2>1. OfChecker!BailsOnlyWithoutSpace
    BY <1>1 DEF PhasesInv, OfChecker!Known, OfChecker!IInv, OfChecker!VerdictOK
  <2> QED
    BY <2>1 DEF OfChecker!NullId, OfChecker!EmptySlot, OfChecker!NoTable,
       OfChecker!BailsOnlyWithoutSpace, Judge!NullId, Judge!EmptySlot, Judge!NoTable,
       Judge!BailsOnlyWithoutSpace
<1>2. CASE status # "printed"
  BY <1>2 DEF PhasesInv, Judge!BailsOnlyWithoutSpace, Checker!NotStarted, Checker!Verdict
<1> QED
  BY <1>1, <1>2

LEMMA FailuresAreOutside == ASSUME PhasesInv PROVE FailsOnlyOutside
BY OnlyGarbageFails, OnlySpaceFails DEF FailsOnlyOutside

\* No phase meets a tree that it does not expect: each internal error is one of
\* memory, of a file, or of the operator that which_one made up.
THEOREM PhasesAgree == Spec => []FailsOnlyOutside
<1>1. PhasesInv => FailsOnlyOutside
  BY FailuresAreOutside
<1> QED
  BY <1>1, PhasesInvariance, PTL

-----------------------------------------------------------------------------
(* Standard output.                                                        *)

\* As long as there is no message, what is printed is in the file or, the last
\* of it, in the buffer.
Holds(s, items) ==
  /\ s = [file |-> s.file, buffer |-> s.buffer]
  /\ s.file \in Seq(OfUnparser!Items)
  /\ s.buffer \in Seq(OfUnparser!Items)
  /\ Len(s.buffer) < BufferSize
  /\ s.file \o s.buffer = items

\* The process exits: all of it is in the file, and then one message or two.
Told(s, items) ==
  \E messages \in {<<Message>>, <<Message, Message>>} :
    s = [file |-> items \o messages, buffer |-> <<>>]

Failures == {"bail", "lexical_error", "syntax_error", "already declared", "not declared"}

LEMMA FlushKeeps ==
  ASSUME NEW s, NEW items, Holds(s, items)
  PROVE  Flush(s) = [file |-> items, buffer |-> <<>>]
BY DEF Holds, Flush

LEMMA FileSet ==
  ASSUME NEW a, NEW b, NEW x
  PROVE  [[file |-> a, buffer |-> b] EXCEPT !.file = x] = [file |-> x, buffer |-> b]
OBVIOUS

LEMMA TellAdds ==
  ASSUME NEW S, NEW t \in Seq(S), Message \in S
  PROVE  /\ Flush([file |-> t, buffer |-> <<>>]) = [file |-> t, buffer |-> <<>>]
         /\ Tell([file |-> t, buffer |-> <<>>]) = [file |-> t \o <<Message>>, buffer |-> <<>>]
         /\ t \o <<Message>> \in Seq(S)
<1>1. t \o <<>> = t
  BY ConcatEmptySeq
<1>2. Append(t, Message) = t \o <<Message>> /\ t \o <<Message>> \in Seq(S)
  OBVIOUS
<1>3. Flush([file |-> t, buffer |-> <<>>]) = [file |-> t, buffer |-> <<>>]
  BY <1>1 DEF Flush
<1>4. Tell([file |-> t, buffer |-> <<>>]) = [file |-> Append(t, Message), buffer |-> <<>>]
  <2>1. [file |-> t, buffer |-> <<>>].file = t
    OBVIOUS
  <2>2. Tell([file |-> t, buffer |-> <<>>])
          = [[file |-> t, buffer |-> <<>>] EXCEPT !.file = Append(t, Message)]
    BY <2>1, Zenon DEF Tell
  <2> QED
    BY <2>2, FileSet, Zenon
<1> QED
  BY <1>2, <1>3, <1>4

\* Each error function leaves everything that was printed, and then a message.
LEMMA ErrorsTell ==
  ASSUME NEW items \in Seq(OfUnparser!Items), NEW s, Holds(s, items),
         NEW failure \in Failures
  PROVE  Told(ErrorFunction(failure, s), items)
<1> DEFINE All == OfUnparser!Items \cup {Message}
           File(t) == [file |-> t, buffer |-> <<>>]
           once == items \o <<Message>>
           twice == once \o <<Message>>
<1>1. items \in Seq(All) /\ Message \in All
  OBVIOUS
<1>2. twice = items \o <<Message, Message>>
  BY <1>1
<1> HIDE DEF All
<1>3. Flush(s) = File(items)
  BY FlushKeeps
<1>4. /\ Tell(File(items)) = File(once) /\ once \in Seq(All)
      /\ Flush(File(once)) = File(once)
  BY <1>1, TellAdds
<1> HIDE DEF once
<1>5. /\ Tell(File(once)) = File(twice) /\ twice \in Seq(All)
      /\ Flush(File(twice)) = File(twice)
  BY <1>1, <1>4, TellAdds
<1> HIDE DEF File, twice
<1>6. bail_with_error(s) = File(once)
  BY <1>3, <1>4 DEF bail_with_error, vbail_with_error
<1>7. /\ lexical_error(s) = File(twice)
      /\ general_error(s) = File(twice)
      /\ parse_error_unexpected(s) = File(twice)
  BY <1>3, <1>4, <1>5
     DEF lexical_error, general_error, parse_error_unexpected, bail_with_error, vbail_with_error
<1>8. ErrorFunction(failure, s) \in {File(once), File(twice)}
  BY <1>6, <1>7 DEF ErrorFunction, Failures
<1> QED
  BY <1>2, <1>8 DEF Told, File, once

LEMMA FullBuffers ==
  ASSUME NEW n \in Nat
  PROVE  /\ BufferSize * (n \div BufferSize) \in 0 .. n
         /\ n - BufferSize * (n \div BufferSize) < BufferSize
BY BufferSizeAssumption

LEMMA Halves ==
  ASSUME NEW S, NEW t \in Seq(S), NEW n \in 0 .. Len(t)
  PROVE  /\ SubSeq(t, 1, n) \in Seq(S) /\ SubSeq(t, n + 1, Len(t)) \in Seq(S)
         /\ Len(SubSeq(t, n + 1, Len(t))) = Len(t) - n
         /\ SubSeq(t, 1, n) \o SubSeq(t, n + 1, Len(t)) = t
<1> DEFINE u == SubSeq(t, 1, n)
           v == SubSeq(t, n + 1, Len(t))
<1>1. /\ u \in Seq(S) /\ Len(u) = n /\ \A k \in 1 .. n : u[k] = t[k]
  OBVIOUS
<1>2. /\ v \in Seq(S) /\ Len(v) = Len(t) - n
      /\ \A k \in 1 .. Len(t) - n : v[k] = t[n + k]
  OBVIOUS
<1> HIDE DEF u, v
<1>3. u \o v \in Seq(S) /\ Len(u \o v) = Len(t)
  BY <1>1, <1>2
<1>4. ASSUME NEW k \in 1 .. Len(u \o v) PROVE (u \o v)[k] = t[k]
  <2>1. k \in 1 .. Len(u) + Len(v) /\ Len(u) = n /\ Len(v) = Len(t) - n
    BY <1>1, <1>2, <1>3
  <2>2. (u \o v)[k] = IF k <= Len(u) THEN u[k] ELSE v[k - Len(u)]
    BY <1>1, <1>2, <2>1, ConcatProperties
  <2>3. CASE k <= n
    BY <1>1, <2>1, <2>2, <2>3
  <2>4. CASE k > n
    <3>1. k - n \in 1 .. Len(t) - n /\ n + (k - n) = k
      BY <2>1, <2>4
    <3>2. v[k - n] = t[k]
      BY <1>2, <3>1
    <3> QED
      BY <2>1, <2>2, <2>4, <3>2
  <2> QED
    BY <2>1, <2>3, <2>4
<1>5. u \o v = t
  BY <1>3, <1>4, SeqEqual
<1> QED
  BY <1>1, <1>2, <1>5 DEF u, v

\* What is printed is added, whatever part of it reaches the file.
LEMMA PutAdds ==
  ASSUME NEW items, NEW s, Holds(s, items), NEW words \in Seq(OfUnparser!Items)
  PROVE  Holds(Put(s, words), items \o words)
<1>1. /\ s.file \in Seq(OfUnparser!Items) /\ s.buffer \in Seq(OfUnparser!Items)
      /\ s.file \o s.buffer = items
  BY DEF Holds
<1>2. PICK file \in Seq(OfUnparser!Items), all \in Seq(OfUnparser!Items) :
        file = s.file /\ all = s.buffer \o words
  BY <1>1, ConcatProperties
<1>3. file \o all = items \o words
  <2>1. PICK buffer \in Seq(OfUnparser!Items) : buffer = s.buffer
    BY <1>1
  <2>2. (file \o buffer) \o words = file \o (buffer \o words)
    BY ConcatAssociative
  <2> QED
    BY <1>1, <1>2, <2>1, <2>2
<1>4. PICK full \in 0 .. Len(all) :
        full = BufferSize * (Len(all) \div BufferSize) /\ Len(all) - full < BufferSize
  BY FullBuffers
<1>5. PICK u \in Seq(OfUnparser!Items), v \in Seq(OfUnparser!Items) :
        u = SubSeq(all, 1, full) /\ v = SubSeq(all, full + 1, Len(all))
  BY Halves
<1>6. Len(v) < BufferSize /\ u \o v = all
  BY <1>4, <1>5, Halves
<1>7. Put(s, words) = [file |-> file \o u, buffer |-> v]
  BY <1>2, <1>4, <1>5 DEF Put
<1>8. (file \o u) \o v = items \o words
  <2>1. (file \o u) \o v = file \o (u \o v)
    BY ConcatAssociative
  <2> QED
    BY <1>3, <1>6, <2>1
<1>9. file \o u \in Seq(OfUnparser!Items)
  BY ConcatProperties
<1>10. PICK r : r = Put(s, words)
  OBVIOUS
<1>11. r.file = file \o u /\ r.buffer = v /\ r = [file |-> r.file, buffer |-> r.buffer]
  BY <1>7, <1>10
<1> QED
  BY <1>6, <1>8, <1>9, <1>10, <1>11 DEF Holds

\* The inductive invariant: nothing that was printed is lost or out of place
\* until the process ends, and there is a message only when it has exited.
StdioInv ==
  /\ phase # "exited" => Holds(stdio, out)
  /\ phase = "exited" =>
       IF verdict.kind = "accepted" THEN stdio = [file |-> out, buffer |-> <<>>]
       ELSE Told(stdio, out)

LEMMA OutputType == ASSUME PhasesInv PROVE out \in Seq(OfUnparser!Items)
<1>1. CASE root = NULL
  BY <1>1 DEF PhasesInv
<1>2. CASE root # NULL
  BY <1>2 DEF PhasesInv, OfUnparser!IInv
<1> QED
  BY <1>1, <1>2

LEMMA InitStdio ==
  ASSUME out = <<>>, phase = "parse", stdio = NothingPrinted
  PROVE  StdioInv
BY BufferSizeAssumption DEF StdioInv, Holds, NothingPrinted

LEMMA InitStdioNext ==
  (out = <<>> /\ phase = "parse" /\ stdio = NothingPrinted => StdioInv)'
<1>1. out = <<>> /\ phase = "parse" /\ stdio = NothingPrinted => StdioInv
  BY InitStdio
<1> QED
  BY <1>1, PTL

\* A step that prints nothing.
LEMMA GoOn ==
  ASSUME StdioInv, phase # "exited", NEW p, p # "exited", GoTo(p), UNCHANGED out
  PROVE  StdioInv'
BY DEF StdioInv, GoTo

\* A step that ends with a message.
LEMMA FailTells ==
  ASSUME PhasesInv, StdioInv, phase # "exited", NEW failure \in Failures, Fail(failure),
         verdict'.kind # "accepted", UNCHANGED out
  PROVE  StdioInv'
<1>1. Told(ErrorFunction(failure, stdio), out)
  BY OutputType, ErrorsTell DEF StdioInv
<1> QED
  BY <1>1 DEF StdioInv, Fail, Exit

LEMMA NextStdio ==
  ASSUME PhasesInv, PhasesInv', StdioInv, [Next]_vars
  PROVE  StdioInv'
<1>1. CASE Parse
  <2>1. /\ phase = "parse" /\ UNCHANGED <<out, status, verdict>> /\ status = "printing"
        /\ verdict'.kind = "not_started"
    BY <1>1 DEF Parse, PhasesInv, unparserVars, checkerVars, Checker!NotStarted,
                Checker!Verdict
  <2>2. outcome'.kind \in {"not_open", "running", "parsed", "syntax_error",
                           "lexical_error", "bail", "abort"}
    BY DEF PhasesInv, ParserInv, OfParser!ControlOK, OfParser!Outcomes
  <2> QED
    BY <1>1, <2>1, <2>2, GoOn, FailTells DEF Parse, Failures
<1>2. CASE ParserClose
  <2>1. /\ phase = "close" /\ UNCHANGED <<out, status, verdict>> /\ status = "printing"
        /\ verdict'.kind = "not_started"
    BY <1>2 DEF ParserClose, PhasesInv, checkerVars, Checker!NotStarted, Checker!Verdict
  <2> QED
    BY <1>2, <2>1, GoOn, FailTells DEF ParserClose, Failures
<1>3. CASE UnparseProgram
  <2>1. /\ phase = "unparse" /\ status = "printing" /\ verdict' = verdict
        /\ verdict'.kind = "not_started"
        /\ OfUnparser!Step /\ OfUnparser!IInv
    BY <1>3, UnparserSteps DEF UnparseProgram, PhasesInv, Checker!NotStarted, Checker!Verdict
  <2>2. CASE status' = "printing"
    <3>1. /\ stdio' = Put(stdio, SubSeq(out', Len(out) + 1, Len(out')))
          /\ phase' = phase
      BY <1>3, <2>2 DEF UnparseProgram
    <3>2. PICK words \in Seq(OfUnparser!Items) : out' = out \o words
      BY <2>1, OfUnparser!StepAddsWords
    <3>3. SubSeq(out \o words, Len(out) + 1, Len(out \o words)) = words
      BY OutputType
    <3>4. Holds(Put(stdio, words), out \o words)
      BY <2>1, PutAdds DEF StdioInv
    <3> QED
      BY <2>1, <3>1, <3>2, <3>3, <3>4 DEF StdioInv
  <2>3. CASE status' # "printing"
    <3>1. UNCHANGED out
      BY <2>1, <2>3, OfUnparser!StepKeepsTree
    <3> QED
      BY <1>3, <2>1, <2>3, <3>1, GoOn, FailTells DEF UnparseProgram, Failures
  <2> QED
    BY <2>2, <2>3
<1>4. CASE CheckProgram
  <2>1. phase = "check" /\ UNCHANGED <<out, status>> /\ status = "printed"
    BY <1>4 DEF CheckProgram, PhasesInv, unparserVars
  <2>2. verdict'.kind \in {"not_started", "checking", "accepted", "already declared",
                           "not declared", "bail", "crash"}
    BY <2>1 DEF PhasesInv, OfChecker!Known, OfChecker!IInv, OfChecker!VerdictOK,
                OfChecker!VerdictKinds
  <2>3. ASSUME verdict'.kind = "accepted", Exit(Flush(stdio)) PROVE StdioInv'
    <3>1. Flush(stdio) = [file |-> out, buffer |-> <<>>]
      BY <2>1, FlushKeeps DEF StdioInv
    <3> QED
      BY <2>1, <2>3, <3>1 DEF StdioInv, Exit
  <2> QED
    BY <1>4, <2>1, <2>2, <2>3, GoOn, FailTells DEF CheckProgram, Failures
<1>5. CASE UNCHANGED vars
  <2>1. UNCHANGED <<out, verdict, phase, stdio>>
    BY <1>5 DEF vars, unparserVars, checkerVars
  <2> QED
    BY <2>1 DEF StdioInv
<1> QED
  BY <1>1, <1>2, <1>3, <1>4, <1>5 DEF Next, Step, Stay

LEMMA MessageIsNoItem == Message.typ = "message" /\ \A x \in OfUnparser!Items : x.typ # "message"
BY DEF Message, Unparser!Word, OfUnparser!Items, OfUnparser!TokenTypes

\* What a process that has exited leaves.
LEMMA FileIs ==
  ASSUME PhasesInv, StdioInv, phase = "exited"
  PROVE  /\ stdio.buffer = <<>> /\ Len(out) <= Len(stdio.file)
         /\ stdio.file \in Seq(OfUnparser!Items \cup {Message})
         /\ \A k \in 1 .. Len(out) : stdio.file[k] = out[k]
         /\ \A k \in Len(out) + 1 .. Len(stdio.file) : stdio.file[k] = Message
         /\ verdict.kind = "accepted" <=> Len(out) = Len(stdio.file)
<1>1. out \in Seq(OfUnparser!Items) /\ Len(out) \in Nat
  BY OutputType
<1>2. CASE verdict.kind = "accepted"
  <2>1. stdio.file = out /\ stdio.buffer = <<>>
    BY <1>2 DEF StdioInv
  <2> QED
    BY <1>1, <1>2, <2>1
<1>3. CASE verdict.kind # "accepted"
  <2>1. PICK messages \in {<<Message>>, <<Message, Message>>} :
          stdio = [file |-> out \o messages, buffer |-> <<>>]
    BY <1>3 DEF StdioInv, Told
  <2>2. /\ messages \in Seq({Message}) /\ Len(messages) \in {1, 2}
        /\ \A k \in 1 .. Len(messages) : messages[k] = Message
    <3>1. CASE messages = <<Message>>
      BY <3>1
    <3>2. CASE messages = <<Message, Message>>
      BY <3>2
    <3> QED
      BY <3>1, <3>2
  <2>3. PICK f : f = out \o messages
    OBVIOUS
  <2>4. /\ Len(f) = Len(out) + Len(messages)
        /\ \A k \in 1 .. Len(out) : f[k] = out[k]
        /\ \A k \in Len(out) + 1 .. Len(f) : f[k] = messages[k - Len(out)]
        /\ f \in Seq(OfUnparser!Items \cup {Message})
    BY <1>1, <2>2, <2>3
  <2>5. \A k \in Len(out) + 1 .. Len(f) : k - Len(out) \in 1 .. Len(messages)
    BY <1>1, <2>2, <2>4
  <2>6. stdio.file = f /\ stdio.buffer = <<>>
    BY <2>1, <2>3
  <2>7. Len(out) < Len(f)
    <3>1. PICK m \in Nat, n \in {1, 2} : m = Len(out) /\ n = Len(messages)
      BY <1>1, <2>2, Zenon
    <3>2. Len(f) = m + n
      BY <2>4, <3>1, Zenon
    <3>3. m < m + n
      OBVIOUS
    <3> QED
      BY <3>1, <3>2, <3>3, Zenon
  <2>8. \A k \in Len(out) + 1 .. Len(f) : f[k] = Message
    BY <2>2, <2>4, <2>5
  <2> QED
    BY <1>1, <1>3, <2>4, <2>6, <2>7, <2>8
<1> QED
  BY <1>2, <1>3

LEMMA Beginning ==
  ASSUME NEW S, NEW s \in Seq(S), NEW t \in Seq(S)
  PROVE  /\ Len(s) \in 0 .. Len(s \o t)
         /\ \A k \in 1 .. Len(s) : s[k] = (s \o t)[k]
BY ConcatProperties

LEMMA StdioInvImpliesMessageComesLast ==
  ASSUME PhasesInv, StdioInv
  PROVE  MessageComesLast
<1>1. Len(out) \in Nat
  BY OutputType
<1>2. CASE phase = "exited"
  BY <1>1, <1>2, FileIs DEF MessageComesLast
<1>3. CASE phase # "exited"
  <2>1. /\ stdio.file \in Seq(OfUnparser!Items) /\ stdio.buffer \in Seq(OfUnparser!Items)
        /\ out = stdio.file \o stdio.buffer
    BY <1>3 DEF StdioInv, Holds
  <2>2. /\ Len(stdio.file) \in 0 .. Len(out)
        /\ \A k \in 1 .. Len(stdio.file) : stdio.file[k] = out[k]
    BY <2>1, Beginning
  <2> QED
    BY <1>3, <2>2 DEF MessageComesLast
<1> QED
  BY <1>2, <1>3

LEMMA StdioType ==
  ASSUME PhasesInv, StdioInv
  PROVE  /\ stdio \in [file : Seq(Printer!Items \cup {Message}), buffer : Seq(Printer!Items)]
         /\ Len(stdio.buffer) < BufferSize
<1>1. Printer!Items = OfUnparser!Items
  BY DEF Printer!Items, OfUnparser!Items, Printer!TokenTypes, OfUnparser!TokenTypes,
     Printer!Texts, OfUnparser!Texts, Printer!NoText, OfUnparser!NoText
<1>2. /\ stdio = [file |-> stdio.file, buffer |-> stdio.buffer]
      /\ stdio.file \in Seq(OfUnparser!Items \cup {Message})
      /\ stdio.buffer \in Seq(OfUnparser!Items)
      /\ Len(stdio.buffer) < BufferSize
  <2>1. CASE phase = "exited"
    <3>1. stdio = [file |-> stdio.file, buffer |-> stdio.buffer]
      BY <2>1 DEF StdioInv, Told
    <3>2. stdio.buffer = <<>> /\ stdio.file \in Seq(OfUnparser!Items \cup {Message})
      BY <2>1, FileIs
    <3>3. <<>> \in Seq(OfUnparser!Items) /\ Len(<<>>) < BufferSize
      BY BufferSizeAssumption
    <3> QED
      BY <3>1, <3>2, <3>3
  <2>2. CASE phase # "exited"
    BY <2>2 DEF StdioInv, Holds
  <2> QED
    BY <2>1, <2>2
<1> QED
  BY <1>1, <1>2

\* Whichever error function ends the process and whatever is still in stdio's
\* buffer then, its message comes after everything that was printed, nothing
\* printed is missing, and only an accepted program has no message.
THEOREM MessagesComeLast == Spec => []MessageComesLast
<1>1. Init => StdioInv
  BY InitStdio DEF Init
<1>2. PhasesInv /\ PhasesInv' /\ StdioInv /\ [Next]_vars => StdioInv'
  BY NextStdio
<1>3. PhasesInv /\ StdioInv => MessageComesLast
  BY StdioInvImpliesMessageComesLast
<1> QED
  BY <1>1, <1>2, <1>3, PhasesInvariance, PTL DEF Spec

-----------------------------------------------------------------------------
(* What is proved about the phases, for the whole compiler.                *)

LEMMA SameTypes ==
  ASSUME PhasesInv
  PROVE  /\ Reader!TypeOK
         /\ root # NULL => Printer!TypeOK
         /\ status = "printed" => Judge!TypeOK
<1>1. Reader!TypeOK
  <2>1. OfParser!TypeOK
    BY OfParser!TreeInvImpliesTypeOK, LexemesAssumption, MaxTokensAssumption
       DEF PhasesInv, ParserInv, OfParser!Texts, OfParser!NoText, Texts, NoText,
           TokenTypes, OfParser!TokenTypes
  <2> QED
    BY <2>1 DEF OfParser!TokenTypes, OfParser!NoText, OfParser!Texts, OfParser!TokenRecords,
       OfParser!NoOp, OfParser!ListTags, OfParser!StmtTags, OfParser!CondTags,
       OfParser!ExprTags, OfParser!AstTags, OfParser!ArithOps, OfParser!RelOps,
       OfParser!GarbageOp, OfParser!Ops, OfParser!Nodes, OfParser!TreeSteps,
       OfParser!SignSyms, OfParser!Nonterminal, OfParser!InstructionNames, OfParser!Instructions,
       OfParser!Outcomes, OfParser!ControlOK, OfParser!TypeOK, Reader!TokenTypes,
       Reader!NoText, Reader!Texts, Reader!TokenRecords, Reader!NoOp, Reader!ListTags,
       Reader!StmtTags, Reader!CondTags, Reader!ExprTags, Reader!AstTags,
       Reader!ArithOps, Reader!RelOps, Reader!GarbageOp, Reader!Ops, Reader!Nodes,
       Reader!TreeSteps, Reader!SignSyms, Reader!Nonterminal, Reader!InstructionNames,
       Reader!Instructions, Reader!Outcomes, Reader!ControlOK, Reader!TypeOK
<1>2. ASSUME root # NULL PROVE Printer!TypeOK
  <2>1. OfUnparser!TypeOK
    BY <1>2, OfUnparser!IInvImpliesTypeOK DEF PhasesInv
  <2> QED
    BY <2>1 DEF OfUnparser!TokenTypes, OfUnparser!NoText, OfUnparser!Texts, OfUnparser!NULL,
       OfUnparser!NoOp, OfUnparser!ListTags, OfUnparser!StmtTags, OfUnparser!CondTags,
       OfUnparser!ExprTags, OfUnparser!AstTags, OfUnparser!ArithOps, OfUnparser!RelOps,
       OfUnparser!GarbageOp, OfUnparser!Ops, OfUnparser!Nodes, OfUnparser!Expected,
       OfUnparser!ListCalls, OfUnparser!Items, OfUnparser!Instrs, OfUnparser!Fits,
       OfUnparser!TypeOK, Printer!TokenTypes, Printer!NoText, Printer!Texts,
       Printer!NULL, Printer!NoOp, Printer!ListTags, Printer!StmtTags, Printer!CondTags,
       Printer!ExprTags, Printer!AstTags, Printer!ArithOps, Printer!RelOps,
       Printer!GarbageOp, Printer!Ops, Printer!Nodes, Printer!Expected,
       Printer!ListCalls, Printer!Items, Printer!Instrs, Printer!Fits, Printer!TypeOK
<1>3. ASSUME status = "printed" PROVE Judge!TypeOK
  <2>1. OfChecker!TypeOK
    BY <1>3, OfChecker!IInvImpliesTypeOK, MaxScopeSizeAssumption, NamesAssumption
       DEF PhasesInv, OfChecker!Known, OfChecker!NullId, OfChecker!JunkId, Checker!NullId,
           Checker!JunkId, NoText
  <2> QED
    BY <2>1 DEF OfChecker!NoText, OfChecker!Texts, OfChecker!NULL, OfChecker!NoOp,
       OfChecker!ListTags, OfChecker!StmtTags, OfChecker!CondTags, OfChecker!ExprTags,
       OfChecker!AstTags, OfChecker!ArithOps, OfChecker!RelOps, OfChecker!GarbageOp,
       OfChecker!Ops, OfChecker!Nodes, OfChecker!Kinds, OfChecker!NullId,
       OfChecker!JunkId, OfChecker!Slots, OfChecker!EmptySlot, OfChecker!scope_lookup,
       OfChecker!scope_defined, OfChecker!Damaged, OfChecker!Verdict, OfChecker!Do,
       OfChecker!general_error, OfChecker!Crash, OfChecker!LookupCrashes,
       OfChecker!scope_check_ident, OfChecker!Expected, OfChecker!CallNames,
       OfChecker!ListCalls, OfChecker!Calls, OfChecker!VerdictKinds, OfChecker!TypeOK,
       Judge!NoText, Judge!Texts, Judge!NULL, Judge!NoOp, Judge!ListTags,
       Judge!StmtTags, Judge!CondTags, Judge!ExprTags, Judge!AstTags, Judge!ArithOps,
       Judge!RelOps, Judge!GarbageOp, Judge!Ops, Judge!Nodes, Judge!Kinds, Judge!NullId,
       Judge!JunkId, Judge!Slots, Judge!EmptySlot, Judge!scope_lookup,
       Judge!scope_defined, Judge!Damaged, Judge!Verdict, Judge!Do, Judge!general_error,
       Judge!Crash, Judge!LookupCrashes, Judge!scope_check_ident, Judge!Expected,
       Judge!CallNames, Judge!ListCalls, Judge!Calls, Judge!VerdictKinds, Judge!TypeOK
<1> QED
  BY <1>1, <1>2, <1>3

LEMMA InvImpliesTypeOK == ASSUME PhasesInv, StdioInv PROVE TypeOK
<1>1. work # <<>> => status = "printed"
  BY DEF PhasesInv
<1> QED
  BY <1>1, SameTypes, StdioType DEF PhasesInv, TypeOK

\* In every state of every compilation, each phase finds its own state and the
\* tree of the phases before it as its own type invariant says.
THEOREM TypeCorrect == Spec => []TypeOK
<1>1. PhasesInv /\ StdioInv => TypeOK
  BY InvImpliesTypeOK
<1>2. Init => StdioInv
  BY InitStdio DEF Init
<1>3. PhasesInv /\ PhasesInv' /\ StdioInv /\ [Next]_vars => StdioInv'
  BY NextStdio
<1> QED
  BY <1>1, <1>2, <1>3, PhasesInvariance, PTL DEF Spec

\* What the proofs about the phases say of every well-formed tree holds of the
\* trees that the compiler builds: no two words of its output are read as one.
THEOREM NoWordsMerge == Spec => []Printer!WordsStayApart
<1>1. ASSUME PhasesInv PROVE Printer!WordsStayApart
  <2>1. CASE root # NULL
    <3>1. OfUnparser!WordsStayApart
      BY <1>1, <2>1, OfUnparser!IInvImpliesWordsStayApart DEF PhasesInv
    <3> QED
      BY <3>1 DEF OfUnparser!SignSyms, OfUnparser!MultDivSyms, OfUnparser!RelOpSyms,
         OfUnparser!SymbolSyms, OfUnparser!Merge, OfUnparser!WordsStayApart,
         Printer!SignSyms, Printer!MultDivSyms, Printer!RelOpSyms, Printer!SymbolSyms,
         Printer!Merge, Printer!WordsStayApart
  <2>2. CASE root = NULL
    BY <1>1, <2>2 DEF PhasesInv, Printer!WordsStayApart
  <2> QED
    BY <2>1, <2>2
<1> QED
  BY <1>1, PhasesInvariance, PTL

\* The grammar that the proofs about the unparser are about is this one, and so
\* is the recognizer.
LEMMA SameRules == OfUnparser!DocumentedRightSides = DocumentedRightSides
BY DEF DocumentedRightSides, RightSides, DocumentedRules, ProgramRules,
       ConstDeclRules, VarDeclRules, StmtRules, ConditionRules,
       ExprRules, FactorRules, SignSyms, MultDivSyms, RelOpSyms,
       OfUnparser!DocumentedRightSides, OfUnparser!RightSides,
       OfUnparser!DocumentedRules, OfUnparser!ProgramRules,
       OfUnparser!ConstDeclRules, OfUnparser!VarDeclRules,
       OfUnparser!StmtRules, OfUnparser!ConditionRules,
       OfUnparser!ExprRules, OfUnparser!FactorRules,
       OfUnparser!SignSyms, OfUnparser!MultDivSyms,
       OfUnparser!RelOpSyms

LEMMA SameRecognizer ==
  ASSUME NEW R, NEW w
  PROVE  OfUnparser!Derivable(R, w) <=> Derivable(R, w)
<1>1. ASSUME NEW f
      PROVE  /\ OfUnparser!SkipActs(f) = SkipActs(f)
             /\ OfUnparser!IsSettled(f) <=> IsSettled(f)
  BY DEF SkipActs, OfUnparser!SkipActs, IsSettled, OfUnparser!IsSettled, TokenTypes,
         OfUnparser!TokenTypes
<1>2. ASSUME NEW f PROVE OfUnparser!Rewrites(R, f) = Rewrites(R, f)
  <2> DEFINE theirs == {OfUnparser!SkipActs(rhs \o Tail(f)) : rhs \in R[Head(f)]}
             ours == {SkipActs(rhs \o Tail(f)) : rhs \in R[Head(f)]}
  <2>1. ASSUME NEW rhs \in R[Head(f)]
        PROVE  OfUnparser!SkipActs(rhs \o Tail(f)) = SkipActs(rhs \o Tail(f))
    BY <1>1
  <2>2. theirs = ours
    BY <2>1
  <2>3. OfUnparser!Rewrites(R, f) = IF OfUnparser!IsSettled(f) THEN {f} ELSE theirs
    BY DEF OfUnparser!Rewrites
  <2>4. Rewrites(R, f) = IF IsSettled(f) THEN {f} ELSE ours
    BY DEF Rewrites
  <2> HIDE DEF theirs, ours
  <2> QED
    BY <1>1, <2>2, <2>3, <2>4
<1>3. ASSUME NEW F PROVE OfUnparser!Round(R, F) = Round(R, F)
  <2> DEFINE theirs == {OfUnparser!Rewrites(R, f) : f \in F}
             ours == {Rewrites(R, f) : f \in F}
  <2>1. ASSUME NEW f \in F
        PROVE  /\ OfUnparser!Rewrites(R, f) = Rewrites(R, f)
               /\ OfUnparser!IsSettled(f) <=> IsSettled(f)
    BY <1>1, <1>2
  <2>2. theirs = ours
    BY <2>1
  <2>3. OfUnparser!Round(R, F)
          = IF \A f \in F : OfUnparser!IsSettled(f) THEN F ELSE UNION theirs
    BY DEF OfUnparser!Round
  <2>4. Round(R, F) = IF \A f \in F : IsSettled(f) THEN F ELSE UNION ours
    BY DEF Round
  <2>5. (\A f \in F : OfUnparser!IsSettled(f)) <=> (\A f \in F : IsSettled(f))
    BY <2>1
  <2> HIDE DEF theirs, ours
  <2> QED
    BY <2>2, <2>3, <2>4, <2>5
<1>4. ASSUME NEW F PROVE OfUnparser!Settled(R, F) = Settled(R, F)
  <2> DEFINE theirs == {OfUnparser!SkipActs(f) : f \in F}
             ours == {SkipActs(f) : f \in F}
             their(F0) == OfUnparser!Round(R, F0)
             our(F0) == Round(R, F0)
  <2>1. ASSUME NEW f \in F PROVE OfUnparser!SkipActs(f) = SkipActs(f)
    BY <1>1
  <2>2. theirs = ours
    BY <2>1
  <2>3. OfUnparser!Settled(R, F)
          = their(their(their(their(their(their(their(their(their(theirs)))))))))
    BY DEF OfUnparser!Settled
  <2>4. Settled(R, F) = our(our(our(our(our(our(our(our(our(ours)))))))))
    BY DEF Settled
  <2>5. ASSUME NEW F0 PROVE their(F0) = our(F0)
    BY <1>3
  <2> HIDE DEF theirs, ours, their, our
  <2> QED
    BY <2>2, <2>3, <2>4, <2>5
<1>5. OfUnparser!FormsAfter(R, w) = FormsAfter(R, w)
  BY <1>4 DEF FormsAfter, OfUnparser!FormsAfter
<1> QED
  BY <1>5 DEF Derivable, OfUnparser!Derivable

LEMMA SameRulesRead == OfParser!DocumentedRightSides = DocumentedRightSides
BY DEF DocumentedRightSides, RightSides, DocumentedRules, ProgramRules,
       ConstDeclRules, VarDeclRules, StmtRules, ConditionRules,
       ExprRules, FactorRules, SignSyms, MultDivSyms, RelOpSyms,
       OfParser!DocumentedRightSides, OfParser!RightSides,
       OfParser!DocumentedRules, OfParser!ProgramRules,
       OfParser!ConstDeclRules, OfParser!VarDeclRules,
       OfParser!StmtRules, OfParser!ConditionRules,
       OfParser!ExprRules, OfParser!FactorRules,
       OfParser!SignSyms, OfParser!MultDivSyms,
       OfParser!RelOpSyms

LEMMA SameRecognizerRead ==
  ASSUME NEW R, NEW w
  PROVE  OfParser!Derivable(R, w) <=> Derivable(R, w)
<1>1. ASSUME NEW f
      PROVE  /\ OfParser!SkipActs(f) = SkipActs(f)
             /\ OfParser!IsSettled(f) <=> IsSettled(f)
  BY DEF SkipActs, OfParser!SkipActs, IsSettled, OfParser!IsSettled, TokenTypes,
         OfParser!TokenTypes
<1>2. ASSUME NEW f PROVE OfParser!Rewrites(R, f) = Rewrites(R, f)
  <2> DEFINE theirs == {OfParser!SkipActs(rhs \o Tail(f)) : rhs \in R[Head(f)]}
             ours == {SkipActs(rhs \o Tail(f)) : rhs \in R[Head(f)]}
  <2>1. ASSUME NEW rhs \in R[Head(f)]
        PROVE  OfParser!SkipActs(rhs \o Tail(f)) = SkipActs(rhs \o Tail(f))
    BY <1>1
  <2>2. theirs = ours
    BY <2>1
  <2>3. OfParser!Rewrites(R, f) = IF OfParser!IsSettled(f) THEN {f} ELSE theirs
    BY DEF OfParser!Rewrites
  <2>4. Rewrites(R, f) = IF IsSettled(f) THEN {f} ELSE ours
    BY DEF Rewrites
  <2> HIDE DEF theirs, ours
  <2> QED
    BY <1>1, <2>2, <2>3, <2>4
<1>3. ASSUME NEW F PROVE OfParser!Round(R, F) = Round(R, F)
  <2> DEFINE theirs == {OfParser!Rewrites(R, f) : f \in F}
             ours == {Rewrites(R, f) : f \in F}
  <2>1. ASSUME NEW f \in F
        PROVE  /\ OfParser!Rewrites(R, f) = Rewrites(R, f)
               /\ OfParser!IsSettled(f) <=> IsSettled(f)
    BY <1>1, <1>2
  <2>2. theirs = ours
    BY <2>1
  <2>3. OfParser!Round(R, F)
          = IF \A f \in F : OfParser!IsSettled(f) THEN F ELSE UNION theirs
    BY DEF OfParser!Round
  <2>4. Round(R, F) = IF \A f \in F : IsSettled(f) THEN F ELSE UNION ours
    BY DEF Round
  <2>5. (\A f \in F : OfParser!IsSettled(f)) <=> (\A f \in F : IsSettled(f))
    BY <2>1
  <2> HIDE DEF theirs, ours
  <2> QED
    BY <2>2, <2>3, <2>4, <2>5
<1>4. ASSUME NEW F PROVE OfParser!Settled(R, F) = Settled(R, F)
  <2> DEFINE theirs == {OfParser!SkipActs(f) : f \in F}
             ours == {SkipActs(f) : f \in F}
             their(F0) == OfParser!Round(R, F0)
             our(F0) == Round(R, F0)
  <2>1. ASSUME NEW f \in F PROVE OfParser!SkipActs(f) = SkipActs(f)
    BY <1>1
  <2>2. theirs = ours
    BY <2>1
  <2>3. OfParser!Settled(R, F)
          = their(their(their(their(their(their(their(their(their(theirs)))))))))
    BY DEF OfParser!Settled
  <2>4. Settled(R, F) = our(our(our(our(our(our(our(our(our(ours)))))))))
    BY DEF Settled
  <2>5. ASSUME NEW F0 PROVE their(F0) = our(F0)
    BY <1>3
  <2> HIDE DEF theirs, ours, their, our
  <2> QED
    BY <2>2, <2>3, <2>4, <2>5
<1>5. OfParser!FormsAfter(R, w) = FormsAfter(R, w)
  BY <1>4 DEF FormsAfter, OfParser!FormsAfter
<1> QED
  BY <1>5 DEF Derivable, OfParser!Derivable

LEMMA PrintsFirst == ASSUME PhasesInv PROVE PrintsBeforeItChecks
<1> SUFFICES ASSUME phase = "check" \/ verdict # Checker!NotStarted
             PROVE  /\ status = "printed"
                    /\ Derivable(DocumentedRightSides, Printer!Printed)
  BY DEF PrintsBeforeItChecks
<1>1. status = "printed" /\ root # NULL
  BY DEF PhasesInv
<1>2. OfUnparser!PrintsAProgram
  BY <1>1, OfUnparser!DerivInvImpliesPrintsAProgram DEF PhasesInv
<1>3. OfUnparser!Derivable(OfUnparser!DocumentedRightSides, OfUnparser!Printed)
  BY <1>1, <1>2 DEF OfUnparser!PrintsAProgram
<1>4. OfUnparser!Printed = Printer!Printed
  BY DEF OfUnparser!Printed, OfUnparser!TokensOf, OfUnparser!AddToken, OfUnparser!Gap,
     OfUnparser!Word, OfUnparser!NoText, Printer!Printed, Printer!TokensOf,
     Printer!AddToken, Printer!Gap, Printer!Word, Printer!NoText
<1>5. OfUnparser!DocumentedRightSides = DocumentedRightSides
  BY SameRules
<1> QED
  BY <1>1, <1>3, <1>4, <1>5, SameRecognizer

\* And what it has printed when it checks the declarations is a program of the
\* grammar, whatever the check says.
THEOREM ChecksWhatItPrinted == Spec => []PrintsBeforeItChecks
<1>1. PhasesInv => PrintsBeforeItChecks
  BY PrintsFirst
<1> QED
  BY <1>1, PhasesInvariance, PTL

\* And the symbol table of the compiler is a list of distinct names whose
\* offsets are their indices, as long as it has not overflowed.
THEOREM TableIsCorrect == Spec => []Judge!TableIsAList
<1>1. ASSUME PhasesInv PROVE Judge!TableIsAList
  <2>1. CASE status = "printed"
    <3>1. OfChecker!TableIsAList
      BY <1>1, <2>1 DEF PhasesInv, OfChecker!Known, OfChecker!IInv, OfChecker!TableInv
    <3> QED
      BY <3>1 DEF OfChecker!Overflowed, OfChecker!TableIsAList, Judge!Overflowed,
         Judge!TableIsAList
  <2>2. CASE status # "printed"
    <3>1. symtab.size = 0
      BY <1>1, <2>2 DEF PhasesInv, Checker!NoTable
    <3> QED
      BY <3>1 DEF Judge!TableIsAList
  <2> QED
    BY <2>1, <2>2
<1> QED
  BY <1>1, PhasesInvariance, PTL

\* Nor has any compiler's tree a cycle, so the table of every compilation holds
\* the declarations checked so far, in their order, each with its attributes.
THEOREM DeclarationsAreHeld == Spec => []Judge!TableHoldsDeclarations
<1>1. ASSUME PhasesInv PROVE Judge!TableHoldsDeclarations
  <2>1. CASE status = "printed"
    <3>1. OfChecker!TableHoldsDeclarations
      BY <1>1, <2>1 DEF PhasesInv, OfChecker!Known, OfChecker!WalkInv
    <3> QED
      BY <3>1 DEF OfChecker!NULL, OfChecker!create_id_attrs, OfChecker!Overflowed,
         OfChecker!Chain, OfChecker!Decls, OfChecker!TableHoldsDeclarations,
         Judge!NULL, Judge!create_id_attrs, Judge!Overflowed, Judge!Chain, Judge!Decls,
         Judge!TableHoldsDeclarations
  <2>2. CASE status # "printed"
    <3>1. symtab.size = 0
      BY <1>1, <2>2 DEF PhasesInv, Checker!NoTable
    <3>2. 0 .. symtab.size - 1 = {}
      BY <3>1
    <3> QED
      BY <3>2 DEF Judge!TableHoldsDeclarations
  <2> QED
    BY <2>1, <2>2
<1> QED
  BY <1>1, PhasesInvariance, PTL

\* The compiler reports the first error that the order of its text has, and
\* accepts no program with one, for every file and every size of the buffers:
\* as long as the table holds all names.
THEOREM FirstErrorIsReported == Spec => []Judge!VerdictIsFirstError
<1>1. ASSUME PhasesInv PROVE Judge!VerdictIsFirstError
  <2>1. CASE status = "printed"
    <3>1. OfChecker!VerdictIsFirstError
      BY <1>1, <2>1 DEF PhasesInv, OfChecker!Known, OfChecker!WalkInv
    <3> QED
      BY <3>1 DEF OfChecker!NULL, OfChecker!Overflowed, OfChecker!Chain, OfChecker!Decls,
         OfChecker!UsesAt, OfChecker!Uses, OfChecker!Name, OfChecker!Second,
         OfChecker!Undeclared, OfChecker!ErrorAt, OfChecker!VerdictIsFirstError,
         Judge!NULL, Judge!Overflowed, Judge!Chain, Judge!Decls, Judge!UsesAt, Judge!Uses,
         Judge!Name, Judge!Second, Judge!Undeclared, Judge!ErrorAt,
         Judge!VerdictIsFirstError
  <2>2. CASE status # "printed"
    <3>1. verdict.kind = "not_started"
      BY <1>1, <2>2 DEF PhasesInv, Checker!NotStarted, Checker!Verdict
    <3> QED
      BY <3>1 DEF Judge!VerdictIsFirstError
  <2> QED
    BY <2>1, <2>2
<1> QED
  BY <1>1, PhasesInvariance, PTL

-----------------------------------------------------------------------------
(* The words of a file that the compiler has printed.                      *)

Trees == INSTANCE ASTProofs

Read(items, n, read) ==
  read = [k \in 0 .. n |-> IF k = 0 THEN <<>> ELSE AddWord(read[k - 1], items[k])]

LEMMA ReadExists ==
  ASSUME NEW items, NEW n \in Nat
  PROVE  \E read : Read(items, n, read)
<1> DEFINE P == {k \in 0 .. n : \E read : Read(items, k, read)}
<1>1. 0 \in P
  <2> DEFINE h == [i \in 0 .. 0 |-> <<>>]
  <2>1. Read(items, 0, h)
    BY DEF Read
  <2> HIDE DEF h
  <2> QED
    BY <2>1
<1>2. ASSUME NEW k \in 0 .. n - 1, k \in P
      PROVE  k + 1 \in P
  <2>1. PICK h : Read(items, k, h)
    BY <1>2
  <2> DEFINE g == [i \in 0 .. k + 1 |-> IF i <= k THEN h[i] ELSE AddWord(h[k], items[k + 1])]
  <2>2. g = [i \in 0 .. k + 1 |-> IF i = 0 THEN <<>> ELSE AddWord(g[i - 1], items[i])]
    <3>1. ASSUME NEW i \in 0 .. k + 1
          PROVE  g[i] = IF i = 0 THEN <<>> ELSE AddWord(g[i - 1], items[i])
      <4>1. CASE i <= k
        <5>1. i \in 0 .. k /\ g[i] = h[i] /\ (i # 0 => i - 1 \in 0 .. k + 1 /\ g[i - 1] = h[i - 1])
          BY <4>1
        <5>2. h[i] = IF i = 0 THEN <<>> ELSE AddWord(h[i - 1], items[i])
          BY <2>1, <5>1 DEF Read
        <5> HIDE DEF g
        <5> QED
          BY <5>1, <5>2
      <4>2. CASE i = k + 1
        <5>1. i # 0 /\ i - 1 = k /\ g[i] = AddWord(h[k], items[k + 1]) /\ g[k] = h[k]
          BY <4>2
        <5> HIDE DEF g
        <5> QED
          BY <4>2, <5>1
      <4> QED
        BY <4>1, <4>2
    <3>2. g = [i \in 0 .. k + 1 |-> g[i]]
      OBVIOUS
    <3> HIDE DEF g
    <3> QED
      BY <3>1, <3>2
  <2>3. Read(items, k + 1, g)
    <3> HIDE DEF g
    <3> QED
      BY <2>2 DEF Read
  <2> HIDE DEF g
  <2> QED
    BY <1>2, <2>3
<1>3. \A k \in 0 .. n : k \in P
  <2> HIDE DEF P
  <2> QED
    BY ONLY n \in Nat, <1>1, <1>2, Trees!Upward
<1> QED
  BY <1>3

LEMMA WordsOfIs ==
  ASSUME NEW items, NEW n \in Nat, ClearLength(items) = n
  PROVE  \E read : Read(items, n, read) /\ WordsOf(items) = read[n]
<1> DEFINE chosen == CHOOSE read : Read(items, n, read)
<1>1. \E read : Read(items, n, read)
  BY ReadExists
<1>2. Read(items, n, chosen)
  BY <1>1
<1>3. WordsOf(items) = chosen[n]
  BY DEF WordsOf, Read
<1> HIDE DEF chosen
<1> QED
  BY <1>2, <1>3

TypesOf(words) == [k \in 1 .. Len(words) |-> words[k].typ]

\* The types of the words read are the tokens that were printed, if all that
\* comes before the messages is read as it was printed.
LEMMA WordTypes ==
  ASSUME NEW items \in Seq(OfUnparser!Items), NEW text, ClearLength(text) = Len(items),
         \A k \in 1 .. Len(items) : text[k] = items[k]
  PROVE  /\ WordsOf(text) \in Seq(OfUnparser!Items)
         /\ TypesOf(WordsOf(text)) = OfUnparser!TokensOf(items)
<1>1. PICK n \in Nat : n = Len(items)
  OBVIOUS
<1>2. PICK read : Read(text, n, read) /\ WordsOf(text) = read[n]
  BY <1>1, WordsOfIs
<1>3. PICK found : OfUnparser!Found(items, n, found) /\ OfUnparser!TokensOf(items) = found[n]
  BY <1>1, OfUnparser!TokensOfIs
<1> DEFINE P == {k \in 0 .. n : /\ read[k] \in Seq(OfUnparser!Items)
                               /\ TypesOf(read[k]) = found[k]}
<1>4. 0 \in P
  <2>1. read[0] = <<>> /\ found[0] = <<>>
    BY <1>2, <1>3 DEF Read, OfUnparser!Found
  <2>2. TypesOf(<<>>) = <<>>
    BY DEF TypesOf
  <2>3. 0 \in 0 .. n /\ <<>> \in Seq(OfUnparser!Items)
    OBVIOUS
  <2>4. read[0] \in Seq(OfUnparser!Items) /\ TypesOf(read[0]) = found[0]
    BY <2>1, <2>2, <2>3
  <2> QED
    BY <2>3, <2>4
<1>5. ASSUME NEW k \in 0 .. n - 1, k \in P
      PROVE  k + 1 \in P
  <2>1. /\ k + 1 \in 0 .. n /\ k + 1 # 0 /\ (k + 1) - 1 = k
        /\ items[k + 1] \in OfUnparser!Items /\ text[k + 1] = items[k + 1]
    BY <1>1
  <2>2. read[k + 1] = AddWord(read[(k + 1) - 1], items[k + 1])
    BY <1>2, <2>1 DEF Read
  <2>3. found[k + 1] = OfUnparser!AddToken(found[(k + 1) - 1], items[k + 1])
    BY <1>3, <2>1 DEF OfUnparser!Found
  <2>4. PICK words \in Seq(OfUnparser!Items), item \in OfUnparser!Items :
          words = read[k] /\ item = items[k + 1]
    BY <1>5, <2>1
  <2>5. TypesOf(words) = found[k]
    BY <1>5, <2>4
  <2>6. OfUnparser!Gap = Unparser!Gap
    BY DEF OfUnparser!Gap, OfUnparser!Word, OfUnparser!NoText, Unparser!Gap, Unparser!Word,
       Unparser!NoText
  <2>7. CASE item = Unparser!Gap
    BY <1>5, <2>1, <2>2, <2>3, <2>4, <2>6, <2>7 DEF AddWord, OfUnparser!AddToken
  <2>8. CASE item # Unparser!Gap
    <3>1. read[k + 1] = Append(words, item) /\ found[k + 1] = Append(TypesOf(words), item.typ)
      BY <2>1, <2>2, <2>3, <2>4, <2>5, <2>6, <2>8 DEF AddWord, OfUnparser!AddToken
    <3>2. TypesOf(Append(words, item)) = Append(TypesOf(words), item.typ)
      BY DEF TypesOf
    <3>3. Append(words, item) \in Seq(OfUnparser!Items)
      OBVIOUS
    <3> QED
      BY <2>1, <3>1, <3>2, <3>3
  <2> QED
    BY <2>7, <2>8
<1>6. \A k \in 0 .. n : k \in P
  <2> HIDE DEF P
  <2> QED
    BY ONLY n \in Nat, <1>4, <1>5, Trees!Upward
<1> QED
  BY <1>2, <1>3, <1>6

\* Where words stay apart the lexer does not read on.
LEMMA ApartIsClear ==
  ASSUME NEW v \in OfUnparser!Items, NEW w \in OfUnparser!Items, ~OfUnparser!Merge(v.typ, w.typ)
  PROVE  ~ReadsOn(v.typ, w.typ)
<1>1. /\ v.typ \in OfUnparser!TokenTypes \cup {"gap"}
      /\ w.typ \in OfUnparser!TokenTypes \cup {"gap"} /\ w.typ # "message"
  BY DEF OfUnparser!Items, OfUnparser!TokenTypes
<1>2. OfUnparser!SymbolSyms = Printer!SymbolSyms
  BY DEF OfUnparser!SymbolSyms, Printer!SymbolSyms, OfUnparser!RelOpSyms,
     Printer!RelOpSyms, OfUnparser!SignSyms, Printer!SignSyms, OfUnparser!MultDivSyms,
     Printer!MultDivSyms
<1> QED
  BY <1>1, <1>2 DEF ReadsOn, Alphanumeric, OfUnparser!Merge

\* All that was printed is read as it was printed, and nothing of a message.
LEMMA PrintedIsClear ==
  ASSUME PhasesInv, StdioInv, phase = "exited", status = "printed"
  PROVE  ClearLength(stdio.file) = Len(out)
<1> DEFINE m == Len(out)
           f == stdio.file
<1>1. out \in Seq(OfUnparser!Items) /\ m \in Nat
  BY OutputType
<1>2. /\ m <= Len(f) /\ Len(f) \in Nat
      /\ \A k \in 1 .. m : f[k] = out[k]
      /\ \A k \in m + 1 .. Len(f) : f[k] = Message
  BY FileIs
<1>3. /\ OfUnparser!IInv /\ OfUnparser!DerivInv /\ OfUnparser!EndInv
  BY DEF PhasesInv
<1>4. out # <<>> /\ out[m] = OfUnparser!Gap
  BY <1>3, OfUnparser!PrintedEnds
<1>5. ASSUME NEW k \in 1 .. m
      PROVE  ~Unclear(f, k)
  <2>1. f[k] \in OfUnparser!Items /\ f[k] # Message
    BY <1>1, <1>2, MessageIsNoItem
  <2>2. CASE k < m
    <3>1. ~OfUnparser!Merge(out[k].typ, out[k + 1].typ)
      BY <1>1, <1>3, <2>2, OfUnparser!IInvImpliesWordsStayApart DEF OfUnparser!WordsStayApart
    <3>2. /\ f[k] = out[k] /\ f[k + 1] = out[k + 1]
          /\ out[k] \in OfUnparser!Items /\ out[k + 1] \in OfUnparser!Items
      BY <1>1, <1>2, <2>2
    <3>3. ~ReadsOn(f[k].typ, f[k + 1].typ)
      BY <3>1, <3>2, ApartIsClear
    <3> QED
      BY <2>1, <3>3 DEF Unclear
  <2>3. CASE k = m
    <3>1. f[k].typ = "gap"
      BY <1>2, <1>4, <2>3 DEF OfUnparser!Gap, OfUnparser!Word
    <3>2. ~ReadsOn(f[k].typ, f[k + 1].typ)
      BY <3>1 DEF ReadsOn, Alphanumeric
    <3> QED
      BY <2>1, <3>2 DEF Unclear
  <2> QED
    BY <1>1, <2>2, <2>3
<1>6. m < Len(f) => Unclear(f, m + 1)
  BY <1>1, <1>2 DEF Unclear
<1> HIDE DEF m, f
<1> DEFINE P(n) == /\ \A k \in 1 .. n : ~Unclear(f, k)
                   /\ n < Len(f) => Unclear(f, n + 1)
<1>7. m \in 0 .. Len(f) /\ P(m)
  BY <1>1, <1>2, <1>5, <1>6
<1>8. ASSUME NEW n \in 0 .. Len(f), P(n)
      PROVE  n = m
  <2>1. CASE n < m
    <3>1. n + 1 \in 1 .. m /\ n < Len(f)
      BY <1>1, <1>2, <2>1
    <3> QED
      BY <1>5, <1>8, <3>1
  <2>2. CASE n > m
    <3>1. m + 1 \in 1 .. n /\ m < Len(f)
      BY <1>1, <1>2, <2>2
    <3> QED
      BY <1>6, <1>8, <3>1
  <2> QED
    BY <1>1, <1>2, <2>1, <2>2
<1>9. ClearLength(f) = CHOOSE n \in 0 .. Len(f) : P(n)
  BY DEF ClearLength
<1> HIDE DEF P
<1> QED
  BY <1>7, <1>8, <1>9 DEF m, f

-----------------------------------------------------------------------------
(* The compiler on its own output.                                         *)

\* What the second compilation reads is a program, and it reads it in order.
SecondInv ==
  Again =>
    /\ first.words \in Seq(OfUnparser!Items)
    /\ OfParser!Derivable(OfParser!DocumentedRightSides, TypesOf(first.words))
    /\ OfParser!Follows(TypesOf(first.words))

LEMMA NewIsInit == ASSUME NewProcess PROVE Init'
BY DEF NewProcess, Init, Parser!Init, ZeroToken, NoText, Parser!ZeroToken, Parser!NoText

LEMMA InitPhasesNext == (Init => PhasesInv)'
BY InitPhases, PTL

LEMMA WordsTyped ==
  ASSUME NEW words \in Seq(OfUnparser!Items)
  PROVE  TypesOf(words) \in Seq(OfParser!TokenTypes \cup {"gap"})
<1>1. \A x \in OfUnparser!Items : x.typ \in OfParser!TokenTypes \cup {"gap"}
  BY DEF OfUnparser!Items, OfUnparser!TokenTypes, OfParser!TokenTypes
<1>2. Len(words) \in Nat /\ \A k \in 1 .. Len(words) : words[k] \in OfUnparser!Items
  OBVIOUS
<1> QED
  BY <1>1, <1>2 DEF TypesOf

LEMMA AgainPhase ==
  ASSUME PhasesInv, StdioInv, CompileAgain
  PROVE  PhasesInv' /\ StdioInv' /\ SecondInv'
<1>1. PhasesInv' /\ StdioInv'
  BY NewIsInit, InitPhasesNext, InitStdioNext DEF CompileAgain, NewProcess
<1>2. /\ status = "printed" /\ root # NULL /\ OfUnparser!IInv /\ OfUnparser!DerivInv
      /\ phase = "exited" /\ first'.words = WordsOf(stdio.file)
  BY DEF PhasesInv, CompileAgain, Words
<1>3. PICK w : w = WordsOf(stdio.file)
  OBVIOUS
<1>4. w \in Seq(OfUnparser!Items) /\ TypesOf(w) = OfUnparser!Printed
  BY <1>2, <1>3, WordTypes, OutputType, FileIs, PrintedIsClear DEF OfUnparser!Printed
<1>5. OfUnparser!Derivable(OfUnparser!DocumentedRightSides, OfUnparser!Printed)
  BY <1>2, OfUnparser!DerivInvImpliesPrintsAProgram DEF OfUnparser!PrintsAProgram
<1>6. OfParser!Derivable(OfParser!DocumentedRightSides, TypesOf(w))
  BY <1>4, <1>5, SameRules, SameRulesRead, SameRecognizer, SameRecognizerRead
<1>7. eaten' = <<>> /\ currToken'.loc = 0 /\ outcome'.kind = "not_open"
  BY DEF CompileAgain, NewProcess, ZeroToken
<1>8. OfParser!Follows(TypesOf(w))'
  <2>1. Len(TypesOf(w)) \in Nat
    BY <1>4 DEF TypesOf
  <2> QED
    BY <1>7, <2>1 DEF OfParser!Follows
<1> QED
  BY <1>1, <1>2, <1>3, <1>4, <1>6, <1>8 DEF SecondInv

LEMMA CompilePhase ==
  ASSUME PhasesInv, StdioInv, SecondInv, Compile
  PROVE  PhasesInv' /\ StdioInv' /\ SecondInv'
<1>1. PhasesInv' /\ StdioInv'
  BY NextPhases, NextStdio DEF Compile, Next
<1>2. CASE ~Again
  <2>1. ~Again'
    BY <1>2 DEF Compile, Again
  <2> QED
    BY <1>1, <2>1 DEF SecondInv
<1>3. CASE Again
  <2>1. PICK w : w = first.words
    OBVIOUS
  <2>2. PICK T : T = TypesOf(w)
    OBVIOUS
  <2>3. /\ w \in Seq(OfUnparser!Items) /\ first' = first
        /\ OfParser!Derivable(OfParser!DocumentedRightSides, T)
        /\ OfParser!Follows(T)
    BY <1>3, <2>1, <2>2 DEF SecondInv, Compile
  <2>4. /\ Len(w) \in Nat /\ Len(T) = Len(w) /\ DOMAIN w = 1 .. Len(w)
        /\ \A n \in 1 .. Len(w) : T[n] = w[n].typ
    BY <2>2, <2>3 DEF TypesOf
  <2>5. /\ OfParser!ControlOK /\ OfParser!DerivationInv
        /\ T \in Seq(OfParser!TokenTypes \cup {"gap"})
    BY <2>2, <2>3, WordsTyped DEF PhasesInv, ParserInv
  <2>6. OfParser!Next \/ UNCHANGED OfParser!vars
    <3>1. CASE Parse
      BY <3>1, ParserSteps DEF Parse, OfParser!Next
    <3>2. CASE ParserClose
      BY <3>2 DEF ParserClose, parserVars, OfParser!vars
    <3>3. CASE UnparseProgram
      <4>1. OfUnparser!Step /\ OfUnparser!IInv
        BY <3>3, UnparserSteps DEF PhasesInv, UnparseProgram
      <4>2. UNCHANGED heap
        BY <4>1, OfUnparser!StepKeepsTree
      <4> QED
        BY <3>3, <4>2 DEF UnparseProgram, OfParser!vars
    <3>4. CASE CheckProgram
      <4>1. OfChecker!Step /\ OfChecker!IInv
        BY <3>4, CheckerSteps DEF PhasesInv, CheckProgram, OfChecker!Known
      <4>2. UNCHANGED heap
        BY <4>1, OfChecker!StepKeepsTree, MaxScopeSizeAssumption, NamesAssumption
           DEF OfChecker!NullId, OfChecker!JunkId, Checker!NullId, Checker!JunkId, NoText
      <4> QED
        BY <3>4, <4>2 DEF CheckProgram, OfParser!vars
    <3> QED
      BY <3>1, <3>2, <3>3, <3>4 DEF Compile, Step
  <2>7. ASSUME currToken' # currToken PROVE OfParser!ReadsFrom(T)
    <3>1. currToken'.loc \in DOMAIN w => currToken' = Token(w[currToken'.loc], currToken'.loc)
      BY <1>3, <2>1, <2>7 DEF Compile, ReadsOutput, Again
    <3>2. currToken'.loc \in DOMAIN w => currToken'.typ = w[currToken'.loc].typ
      BY <3>1 DEF Token
    <3> QED
      BY <2>4, <3>2 DEF OfParser!ReadsFrom
  <2>8. OfParser!Follows(T)'
    BY <2>3, <2>4, <2>5, <2>6, <2>7, OfParser!FollowsNext, LexemesAssumption,
       MaxTokensAssumption
       DEF OfParser!Texts, OfParser!NoText, Texts, NoText, TokenTypes, OfParser!TokenTypes
  <2>9. first'.words = w /\ TypesOf(w) = T
    BY <2>1, <2>2, <2>3
  <2> QED
    BY <1>1, <2>3, <2>8, <2>9 DEF SecondInv
<1> QED
  BY <1>2, <1>3

LEMMA RoundTripInvariance == RoundTripSpec => [](PhasesInv /\ StdioInv /\ SecondInv)
<1>1. RoundTripInit => PhasesInv /\ StdioInv /\ SecondInv
  BY InitPhases, InitStdio DEF RoundTripInit, SecondInv, Again, Init
<1>2. ASSUME PhasesInv, StdioInv, SecondInv, [RoundTripNext]_allVars
      PROVE  PhasesInv' /\ StdioInv' /\ SecondInv'
  <2>1. CASE Compile
    BY <2>1, <1>2, CompilePhase
  <2>2. CASE CompileAgain
    BY <2>2, <1>2, AgainPhase
  <2>3. CASE UNCHANGED allVars
    <3>1. UNCHANGED vars /\ first' = first
      BY <2>3 DEF allVars
    <3>2. PhasesInv' /\ StdioInv'
      BY <1>2, <3>1, NextPhases, NextStdio
    <3>3. UNCHANGED <<currToken, done, eaten, outcome>>
      BY <3>1 DEF vars, parserVars
    <3>4. SecondInv'
      BY <1>2, <3>1, <3>3 DEF SecondInv, Again, OfParser!Follows
    <3> QED
      BY <3>2, <3>4
  <2> QED
    BY <1>2, <2>1, <2>2, <2>3 DEF RoundTripNext, StayEnded
<1> QED
  BY <1>1, <1>2, PTL DEF RoundTripSpec

\* What the compiler prints it accepts as a program when it is given it to
\* compile, however long it is.
THEOREM PrintedProgramsAreRead == RoundTripSpec => []OutputIsAProgram
<1>1. ASSUME PhasesInv, SecondInv PROVE OutputIsAProgram
  <2> SUFFICES ASSUME Again PROVE outcome.kind # "syntax_error"
    BY DEF OutputIsAProgram
  <2>1. PICK T : T = TypesOf(first.words)
    OBVIOUS
  <2>2. T \in Seq(OfParser!TokenTypes \cup {"gap"})
    BY <1>1, <2>1, WordsTyped DEF SecondInv
  <2>3. /\ OfParser!Derivable(OfParser!DocumentedRightSides, T)
        /\ OfParser!Follows(T)
        /\ OfParser!ControlOK /\ OfParser!DerivationInv
    BY <1>1, <2>1 DEF SecondInv, PhasesInv, ParserInv
  <2> QED
    BY <2>2, <2>3, OfParser!FollowsProgram, LexemesAssumption, MaxTokensAssumption
       DEF OfParser!Texts, OfParser!NoText, Texts, NoText, TokenTypes, OfParser!TokenTypes
<1> QED
  BY <1>1, RoundTripInvariance, PTL

\* The second compilation keeps every promise of the first: it finds its state
\* as it expects it, prints before it checks, fails only for what is outside,
\* and its message comes last.
THEOREM SecondKeepsPromises ==
  RoundTripSpec => [](TypeOK /\ MessageComesLast /\ PrintsBeforeItChecks /\ FailsOnlyOutside)
<1>1. ASSUME PhasesInv, StdioInv
      PROVE  TypeOK /\ MessageComesLast /\ PrintsBeforeItChecks /\ FailsOnlyOutside
  BY <1>1, InvImpliesTypeOK, StdioInvImpliesMessageComesLast, PrintsFirst, FailuresAreOutside
<1> QED
  BY <1>1, RoundTripInvariance, PTL
=============================================================================
