---------------------------- MODULE ParserProofs ----------------------------
(***************************************************************************)
(* Proofs about the parser, for every set of lexemes and every input.      *)
(***************************************************************************)
EXTENDS ParserProps, GrammarProofs

-----------------------------------------------------------------------------
(* The refinement mapping applied to sequences of instructions.            *)

Symbols == {Symbol(i) : i \in Instructions}

LEMMA FormOfType ==
  ASSUME NEW s \in Seq(Instructions)
  PROVE  /\ FormOf(s) \in Seq(Symbols)
         /\ Len(FormOf(s)) = Len(s)
         /\ \A k \in 1 .. Len(s) : FormOf(s)[k] = Symbol(s[k])
<1>1. \A k \in 1 .. Len(s) : Symbol(s[k]) \in Symbols
  BY DEF Symbols
<1> QED
  BY <1>1 DEF FormOf

\* The instruction at the head of a computation gives the head of the form.
LEMMA FormOfTail ==
  ASSUME NEW s \in Seq(Instructions), s # <<>>
  PROVE  /\ FormOf(s) # <<>>
         /\ Head(FormOf(s)) = Symbol(Head(s))
         /\ Tail(s) \in Seq(Instructions)
         /\ FormOf(Tail(s)) = Tail(FormOf(s))
<1>1. /\ Len(s) \in Nat \ {0}
      /\ Tail(s) \in Seq(Instructions)
      /\ Len(Tail(s)) = Len(s) - 1
      /\ \A k \in 1 .. Len(s) - 1 : Tail(s)[k] = s[k + 1]
  OBVIOUS
<1>2. FormOf(s) \in Seq(Symbols) /\ Len(FormOf(s)) = Len(s)
  BY FormOfType
<1>3. FormOf(s) # <<>> /\ Head(FormOf(s)) = Symbol(Head(s))
  BY <1>1, <1>2, FormOfType
<1>4. /\ Tail(FormOf(s)) \in Seq(Symbols)
      /\ Len(Tail(FormOf(s))) = Len(s) - 1
      /\ \A k \in 1 .. Len(s) - 1 : Tail(FormOf(s))[k] = FormOf(s)[k + 1]
  BY <1>1, <1>2
<1>5. FormOf(Tail(s)) \in Seq(Symbols) /\ Len(FormOf(Tail(s))) = Len(s) - 1
  BY <1>1, FormOfType
<1>6. \A k \in 1 .. Len(s) - 1 : FormOf(Tail(s))[k] = Tail(FormOf(s))[k]
  <2> TAKE k \in 1 .. Len(s) - 1
  <2>1. FormOf(Tail(s))[k] = Symbol(Tail(s)[k])
    BY <1>1, FormOfType
  <2>2. FormOf(s)[k + 1] = Symbol(s[k + 1])
    BY <1>1, FormOfType
  <2> QED
    BY <1>1, <1>4, <2>1, <2>2
<1> QED
  BY <1>1, <1>3, <1>4, <1>5, <1>6

\* Replacing that instruction by a body replaces that symbol by the form of
\* the body.
LEMMA FormOfConcat ==
  ASSUME NEW s \in Seq(Instructions), NEW t \in Seq(Instructions)
  PROVE  FormOf(s \o t) = FormOf(s) \o FormOf(t)
<1>1. /\ s \o t \in Seq(Instructions)
      /\ Len(s \o t) = Len(s) + Len(t)
      /\ Len(s) \in Nat /\ Len(t) \in Nat
      /\ \A k \in 1 .. Len(s) + Len(t) :
           (s \o t)[k] = IF k <= Len(s) THEN s[k] ELSE t[k - Len(s)]
  OBVIOUS
<1>2. /\ FormOf(s) \in Seq(Symbols) /\ Len(FormOf(s)) = Len(s)
      /\ FormOf(t) \in Seq(Symbols) /\ Len(FormOf(t)) = Len(t)
      /\ FormOf(s \o t) \in Seq(Symbols) /\ Len(FormOf(s \o t)) = Len(s) + Len(t)
  BY <1>1, FormOfType
<1>3. /\ FormOf(s) \o FormOf(t) \in Seq(Symbols)
      /\ Len(FormOf(s) \o FormOf(t)) = Len(s) + Len(t)
      /\ \A k \in 1 .. Len(s) + Len(t) :
           (FormOf(s) \o FormOf(t))[k] =
             IF k <= Len(s) THEN FormOf(s)[k] ELSE FormOf(t)[k - Len(s)]
  BY <1>1, <1>2
<1>4. \A k \in 1 .. Len(s) + Len(t) :
        FormOf(s \o t)[k] = (FormOf(s) \o FormOf(t))[k]
  <2> TAKE k \in 1 .. Len(s) + Len(t)
  <2>1. FormOf(s \o t)[k] = Symbol((s \o t)[k])
    BY <1>1, FormOfType
  <2>2. CASE k <= Len(s)
    <3>1. FormOf(s)[k] = Symbol(s[k])
      BY <1>1, <2>2, FormOfType
    <3> QED
      BY <1>1, <1>3, <2>1, <2>2, <3>1
  <2>3. CASE ~(k <= Len(s))
    <3>1. FormOf(t)[k - Len(s)] = Symbol(t[k - Len(s)])
      BY <1>1, <2>3, FormOfType
    <3> QED
      BY <1>1, <1>3, <2>1, <2>3, <3>1
  <2> QED
    BY <2>2, <2>3
<1> QED
  BY <1>1, <1>2, <1>3, <1>4

\* The form of a body written out.
LEMMA FormOf0 == FormOf(<<>>) = <<>>
BY DEF FormOf
LEMMA FormOf1 ==
  ASSUME NEW a PROVE FormOf(<<a>>) = <<Symbol(a)>>
BY DEF FormOf
LEMMA FormOf2 ==
  ASSUME NEW a, NEW b PROVE FormOf(<<a, b>>) = <<Symbol(a), Symbol(b)>>
BY DEF FormOf
LEMMA FormOf3 ==
  ASSUME NEW a, NEW b, NEW c
  PROVE  FormOf(<<a, b, c>>) = <<Symbol(a), Symbol(b), Symbol(c)>>
BY DEF FormOf
LEMMA FormOf4 ==
  ASSUME NEW a, NEW b, NEW c, NEW d
  PROVE  FormOf(<<a, b, c, d>>) = <<Symbol(a), Symbol(b), Symbol(c), Symbol(d)>>
BY DEF FormOf
LEMMA FormOf5 ==
  ASSUME NEW a, NEW b, NEW c, NEW d, NEW e
  PROVE  FormOf(<<a, b, c, d, e>>)
           = <<Symbol(a), Symbol(b), Symbol(c), Symbol(d), Symbol(e)>>
BY DEF FormOf
LEMMA FormOf7 ==
  ASSUME NEW a, NEW b, NEW c, NEW d, NEW e, NEW f, NEW g
  PROVE  FormOf(<<a, b, c, d, e, f, g>>)
           = <<Symbol(a), Symbol(b), Symbol(c), Symbol(d), Symbol(e), Symbol(f),
               Symbol(g)>>
BY DEF FormOf
LEMMA FormOf8 ==
  ASSUME NEW a, NEW b, NEW c, NEW d, NEW e, NEW f, NEW g, NEW h
  PROVE  FormOf(<<a, b, c, d, e, f, g, h>>)
           = <<Symbol(a), Symbol(b), Symbol(c), Symbol(d), Symbol(e), Symbol(f),
               Symbol(g), Symbol(h)>>
BY DEF FormOf

-----------------------------------------------------------------------------
(* Instructions and their symbols.                                         *)

LEMMA TemplateType ==
  ASSUME NEW t, t.loc \in Nat
  PROVE  ast_allocate(t) \in Nodes
<1>1. "unset" \in AstTags /\ NoOp \in Ops
  BY DEF AstTags, Ops
<1>2. <<>> \in Seq(Nat)
  OBVIOUS
<1>3. NULL \in Nat /\ NoText \in Texts
  BY DEF NULL, Texts
<1> QED
  BY <1>1, <1>2, <1>3 DEF ast_allocate, Nodes

LEMMA ZeroTypes == ZeroToken \in TokenRecords /\ ast_allocate(ZeroToken) \in Nodes
<1>1. "periodsym" \in TokenTypes
  BY DEF TokenTypes
<1>2. NoText \in Texts
  BY DEF Texts
<1>3. ZeroToken \in TokenRecords
  BY <1>1, <1>2 DEF ZeroToken, TokenRecords
<1>4. ZeroToken.loc \in Nat
  BY DEF ZeroToken
<1> QED
  BY <1>3, <1>4, TemplateType

LEMMA EatType ==
  ASSUME NEW tt \in TokenTypes \ {"eofsym"}
  PROVE  eat(tt) \in Instructions /\ Symbol(eat(tt)) = tt
BY ZeroTypes DEF eat, Instr, Instructions, InstructionNames, Symbol, TokenTypes

LEMMA CallType ==
  ASSUME NEW f \in DOMAIN Nonterminal, f # "parseOpExpr"
  PROVE  Call(f) \in Instructions /\ Symbol(Call(f)) = Nonterminal[f]
BY ZeroTypes DEF Call, Instr, Instructions, InstructionNames, Symbol, Nonterminal, TokenTypes, TreeSteps

LEMMA StepType ==
  ASSUME NEW f \in TreeSteps
  PROVE  Call(f) \in Instructions /\ Symbol(Call(f)) = "act"
BY ZeroTypes DEF Call, Instr, Instructions, InstructionNames, Symbol, TokenTypes, TreeSteps

LEMMA CallWithType ==
  ASSUME NEW f \in DOMAIN Nonterminal, NEW t \in TokenRecords,
         f = "parseOpExpr" => t.typ \in SignSyms
  PROVE  CallWith(f, t) \in Instructions /\ Symbol(CallWith(f, t)) = Nonterminal[f]
BY ZeroTypes DEF CallWith, Instr, Instructions, InstructionNames, Symbol, Nonterminal, TokenTypes, TreeSteps

LEMMA StepWithType ==
  ASSUME NEW f \in TreeSteps, NEW t \in TokenRecords
  PROVE  CallWith(f, t) \in Instructions /\ Symbol(CallWith(f, t)) = "act"
BY ZeroTypes DEF CallWith, Instr, Instructions, InstructionNames, Symbol, TokenTypes, TreeSteps

LEMMA FinishType ==
  ASSUME NEW f \in DOMAIN Nonterminal, f # "parseOpExpr", NEW n \in Nodes
  PROVE  Finish(f, n) \in Instructions /\ Symbol(Finish(f, n)) = Nonterminal[f]
BY ZeroTypes DEF Finish, Instr, Instructions, InstructionNames, Symbol, Nonterminal, TokenTypes, TreeSteps

LEMMA MakeType ==
  ASSUME NEW n \in Nodes
  PROVE  Make(n) \in Instructions /\ Symbol(Make(n)) = "act"
BY ZeroTypes DEF Make, Instr, Instructions, InstructionNames, Symbol, TokenTypes, TreeSteps

\* The templates that the constructors fill in.
LEMMA NodeTypes ==
  ASSUME NEW t \in TokenRecords
  PROVE  /\ ast_begin_stmt(t) \in Nodes
         /\ ast_if_stmt(t) \in Nodes
         /\ ast_while_stmt(t) \in Nodes
         /\ ast_write_stmt(t) \in Nodes
         /\ ast_skip_stmt(t) \in Nodes
         /\ ast_odd_cond(t) \in Nodes
         /\ \A n \in Int : ast_number(t, n) \in Nodes
         /\ \A op \in Ops : ast_bin_cond(t, op) \in Nodes /\ ast_op_expr(t, op) \in Nodes
         /\ \A text \in Texts : /\ ast_var_decl(t, text) \in Nodes
                                /\ ast_assign_stmt(t, text) \in Nodes
                                /\ ast_read_stmt(t, text) \in Nodes
                                /\ ast_ident(t, text) \in Nodes
                                /\ \A n \in Int : ast_const_def(t, text, n) \in Nodes
<1>1. t.loc \in Nat
  BY DEF TokenRecords
<1>2. ast_allocate(t) \in Nodes
  BY <1>1, TemplateType
<1>3. ListTags \cup StmtTags \cup CondTags \cup ExprTags \subseteq AstTags
  BY DEF AstTags
<1>4. /\ {"const_decl_ast", "var_decl_ast", "assign_ast", "begin_ast", "if_ast",
          "while_ast", "read_ast", "write_ast", "skip_ast", "odd_cond_ast",
          "bin_cond_ast", "ident_ast", "number_ast"} \subseteq AstTags
  BY <1>3 DEF ListTags, StmtTags, CondTags, ExprTags
<1> QED
  BY <1>2, <1>4 DEF Nodes, ast_const_def, ast_var_decl, ast_assign_stmt,
     ast_begin_stmt, ast_if_stmt, ast_while_stmt, ast_read_stmt, ast_write_stmt,
     ast_skip_stmt, ast_odd_cond, ast_bin_cond, ast_op_expr, ast_ident, ast_number

-----------------------------------------------------------------------------
(* How a step of the parser appears in the derivation.                     *)

\* A function begins with a right-hand side of its symbol that gives up no
\* program the token at hand can continue,
Expands ==
  /\ outcome = Running
  /\ FormOf(todo) # <<>>
  /\ \E rhs : /\ Justified(Head(FormOf(todo)), rhs, currToken.typ)
              /\ FormOf(todo') = rhs \o Tail(FormOf(todo))
  /\ UNCHANGED <<currToken, done, eaten, outcome>>

\* or builds a part of the tree,
Builds ==
  /\ outcome = Running
  /\ FormOf(todo) # <<>>
  /\ Head(FormOf(todo)) = "act"
  /\ FormOf(todo') = Tail(FormOf(todo))
  /\ UNCHANGED <<currToken, done, eaten, outcome>>

\* or eats the token it expects,
Matches ==
  /\ outcome = Running
  /\ FormOf(todo) # <<>>
  /\ Head(FormOf(todo)) = currToken.typ
  /\ FormOf(todo') = Tail(FormOf(todo))
  /\ advance
  /\ currToken.typ # "eofsym"
  /\ eaten' = Append(eaten, currToken)
  /\ WordOf(eaten') = Append(WordOf(eaten), currToken.typ)
  /\ outcome'.kind \in {"running", "lexical_error", "bail", "abort"}
  /\ outcome'.expected = {}

\* or reports that the token cannot start what has to come next,
Reports ==
  /\ outcome = Running
  /\ outcome'.kind = "syntax_error"
  /\ FormOf(todo) # <<>>
  /\ Head(FormOf(todo)) \in Committed
  /\ currToken.typ \notin Starts(Head(FormOf(todo)))
  /\ outcome'.expected \subseteq Starts(Head(FormOf(todo)))
  /\ UNCHANGED <<currToken, done, eaten, todo>>

\* or opens the file, returns, or exits for another reason.
Rests ==
  /\ UNCHANGED <<eaten, todo>>
  /\ \/ outcome' = outcome /\ UNCHANGED <<currToken, done>>
     \/ outcome.kind = "not_open" /\ outcome' = Running /\ lexer_next(1)
     \/ outcome'.kind \in {"lexical_error", "bail", "abort"} /\ outcome'.expected = {}
     \/ /\ outcome = Running /\ outcome' = [kind |-> "parsed", expected |-> {}]
        /\ UNCHANGED <<currToken, done>>

ParseStep == Expands \/ Builds \/ Matches \/ Reports \/ Rests

\* Executing an instruction whose body is a right-hand side of its symbol.
LEMMA ExpandStep ==
  ASSUME ControlOK, todo # <<>>, outcome = Running,
         NEW body \in Seq(Instructions),
         Justified(Symbol(Head(todo)), FormOf(body), currToken.typ),
         todo' = body \o Tail(todo),
         UNCHANGED <<currToken, done, eaten, outcome>>
  PROVE  ControlOK' /\ ParseStep
<1>1. todo \in Seq(Instructions)
  BY DEF ControlOK
<1>2. Tail(todo) \in Seq(Instructions)
  BY <1>1
<1>3. todo' \in Seq(Instructions)
  BY <1>2
<1>4. ControlOK'
  BY <1>3 DEF ControlOK
<1>5. FormOf(todo') = FormOf(body) \o Tail(FormOf(todo))
  BY <1>1, <1>2, FormOfTail, FormOfConcat
<1>6. FormOf(todo) # <<>> /\ Head(FormOf(todo)) = Symbol(Head(todo))
  BY <1>1, FormOfTail
<1>7. Expands
  BY <1>5, <1>6 DEF Expands
<1> QED
  BY <1>4, <1>7 DEF ParseStep

\* Executing a step of tree building.
LEMMA ActStep ==
  ASSUME ControlOK, todo # <<>>, outcome = Running, Head(todo).do \in TreeSteps,
         todo' = Tail(todo),
         UNCHANGED <<currToken, done, eaten, outcome>>
  PROVE  ControlOK' /\ ParseStep
<1>1. Symbol(Head(todo)) = "act"
  BY DEF Symbol, TreeSteps, TokenTypes
<1>2. todo \in Seq(Instructions) /\ Tail(todo) \in Seq(Instructions)
  BY DEF ControlOK
<1>3. ControlOK'
  BY <1>2 DEF ControlOK
<1>4. /\ FormOf(todo) # <<>> /\ Head(FormOf(todo)) = "act"
      /\ FormOf(todo') = Tail(FormOf(todo))
  BY <1>1, <1>2, FormOfTail
<1>5. Builds
  BY <1>4 DEF Builds
<1> QED
  BY <1>3, <1>5 DEF ParseStep

LEMMA AtSymbol ==
  ASSUME NEW f \in DOMAIN Nonterminal, At(f)
  PROVE  /\ todo # <<>> /\ outcome = Running
         /\ Symbol(Head(todo)) = Nonterminal[f]
BY DEF At, Symbol, Nonterminal, TokenTypes, TreeSteps

LEMMA HeadType ==
  ASSUME ControlOK, todo # <<>>
  PROVE  /\ Head(todo) \in Instructions
         /\ Head(todo).tok \in TokenRecords
         /\ Head(todo).node \in Nodes
<1>1. Head(todo) \in Instructions
  BY DEF ControlOK
<1> QED
  BY <1>1 DEF Instructions

LEMMA CurrTokenType ==
  ASSUME ControlOK
  PROVE  /\ currToken \in TokenRecords
         /\ currToken.text \in Texts
         /\ currToken.value \in Int
         /\ currToken.typ \in TokenTypes
BY DEF ControlOK, TokenRecords

\* Leaving a loop: its symbol derives the empty string.
LEMMA EmptyStep ==
  ASSUME ControlOK, todo # <<>>, outcome = Running,
         Justified(Symbol(Head(todo)), <<>>, currToken.typ),
         todo' = Tail(todo) \/ todo' = <<>> \o Tail(todo),
         UNCHANGED <<currToken, done, eaten, outcome>>
  PROVE  ControlOK' /\ ParseStep
<1>1. todo \in Seq(Instructions) /\ Tail(todo) \in Seq(Instructions)
  BY DEF ControlOK
<1>2. <<>> \in Seq(Instructions) /\ todo' = <<>> \o Tail(todo)
  BY <1>1
<1>3. Justified(Symbol(Head(todo)), FormOf(<<>>), currToken.typ)
  BY FormOf0
<1> QED
  BY <1>2, <1>3, ExpandStep

\* Reporting a syntax error.
LEMMA ErrorStep ==
  ASSUME ControlOK, todo # <<>>, outcome = Running,
         Symbol(Head(todo)) \in Committed,
         currToken.typ \notin Starts(Symbol(Head(todo))),
         NEW expected \in SUBSET TokenTypes, expected \subseteq Starts(Symbol(Head(todo))),
         parse_error_unexpected(expected)
  PROVE  ControlOK' /\ ParseStep
<1>1. ControlOK'
  BY DEF parse_error_unexpected, Outcomes, ControlOK
<1>2. FormOf(todo) # <<>> /\ Head(FormOf(todo)) = Symbol(Head(todo))
  BY FormOfTail DEF ControlOK
<1>3. Reports
  BY <1>2 DEF Reports, parse_error_unexpected
<1> QED
  BY <1>1, <1>3 DEF ParseStep

\* Bailing out.
LEMMA BailStep ==
  ASSUME ControlOK, bail_with_error
  PROVE  ControlOK' /\ ParseStep
BY DEF bail_with_error, Outcomes, ControlOK, Rests, ParseStep

\* The functions for declarations follow their productions.
LEMMA DeclSteps ==
  ASSUME ControlOK, ParseDecls
  PROVE  ControlOK' /\ ParseStep
<1> USE DEF Nonterminal
<1>0. /\ currToken \in TokenRecords /\ currToken.text \in Texts
      /\ currToken.value \in Int /\ currToken.typ \in TokenTypes
  BY CurrTokenType
<1>1. CASE ParseConstDecls
  <2> DEFINE body == <<CallWith("constDeclsLoop", currToken)>>
  <2>1. /\ body \in Seq(Instructions)
        /\ FormOf(body) = <<"more-const-decls">>
    BY <1>0, CallWithType, FormOf1 DEF TokenTypes
  <2>2. Justified("const-decls", FormOf(body), currToken.typ)
    BY <2>1, ConstDeclChoices
  <2> QED
    BY <1>1, <2>1, <2>2, AtSymbol, ExpandStep DEF ParseConstDecls, DoWithList
<1>2. CASE ConstDeclsLoop
  <2>0. Head(todo).tok \in TokenRecords
    BY <1>2, HeadType DEF ConstDeclsLoop, At
  <2>1. CASE See("constsym")
    <3> DEFINE body == <<eat("constsym"),
                     CallWith("parseConstDecl", Head(todo).tok),
                     Call("add_AST_to_end"), eat("semisym"),
                     CallWith("constDeclsLoop", Head(todo).tok)>>
    <3>1. /\ body \in Seq(Instructions)
          /\ FormOf(body) = <<"constsym", "const-decl", "act", "semisym", "more-const-decls">>
      BY <1>0, <2>0, EatType, CallType, StepType, CallWithType, FormOf5 DEF TokenTypes, TreeSteps
    <3>2. Justified("more-const-decls", FormOf(body), currToken.typ)
      BY <2>1, <3>1, ConstDeclChoices DEF See
    <3> QED
      BY <1>2, <2>1, <3>1, <3>2, AtSymbol, ExpandStep DEF ConstDeclsLoop, Do
  <2>2. CASE ~See("constsym")
    <3>1. Justified("more-const-decls", <<>>, currToken.typ)
      BY <2>2, ConstDeclChoices DEF See
    <3> QED
      BY <1>2, <2>2, <3>1, AtSymbol, EmptyStep DEF ConstDeclsLoop, EndList
  <2> QED
    BY <2>1, <2>2
<1>3. CASE ParseConstDecl
  <2>0. Head(todo).tok \in TokenRecords
    BY <1>3, HeadType DEF ParseConstDecl, At
  <2> DEFINE body == <<CallWith("parseConstIdent", Head(todo).tok),
                     Call("startList"), Call("constDeclLoop")>>
  <2>1. /\ body \in Seq(Instructions)
        /\ FormOf(body) = <<"const-def", "act", "comma-const-defs">>
    BY <1>0, <2>0, CallType, StepType, CallWithType, FormOf3 DEF TokenTypes, TreeSteps
  <2>2. Justified("const-decl", FormOf(body), currToken.typ)
    BY <2>1, ConstDeclChoices
  <2> QED
    BY <1>3, <2>1, <2>2, AtSymbol, ExpandStep DEF ParseConstDecl, Do
<1>4. CASE ConstDeclLoop
  <2>1. CASE See("commasym")
    <3> DEFINE body == <<eat("commasym"), Call("nextConstIdent"),
                     Call("add_AST_to_end"), Call("constDeclLoop")>>
    <3>1. /\ body \in Seq(Instructions)
          /\ FormOf(body) = <<"commasym", "const-def", "act", "comma-const-defs">>
      BY <1>0, EatType, CallType, StepType, FormOf4 DEF TokenTypes, TreeSteps
    <3>2. Justified("comma-const-defs", FormOf(body), currToken.typ)
      BY <2>1, <3>1, ConstDeclChoices DEF See
    <3> QED
      BY <1>4, <2>1, <3>1, <3>2, AtSymbol, ExpandStep DEF ConstDeclLoop, Do
  <2>2. CASE ~See("commasym")
    <3>1. Justified("comma-const-defs", <<>>, currToken.typ)
      BY <2>2, ConstDeclChoices DEF See
    <3> QED
      BY <1>4, <2>2, <3>1, AtSymbol, EmptyStep DEF ConstDeclLoop, EndList
  <2> QED
    BY <2>1, <2>2
<1>5. CASE ParseConstIdent
  <2>1. CASE At("parseConstIdent") /\ todo' = <<eat("identsym"), eat("eqsym"),
              Finish("constNumber", ast_const_def(Head(todo).tok, currToken.text, 0))>> \o Tail(todo)
    <3>0. Head(todo).tok \in TokenRecords
      BY <2>1, HeadType DEF At
    <3> DEFINE body == <<eat("identsym"), eat("eqsym"),
                     Finish("constNumber", ast_const_def(Head(todo).tok, currToken.text, 0))>>
    <3>1. /\ body \in Seq(Instructions)
          /\ FormOf(body) = <<"identsym", "eqsym", "const-number">>
      BY <1>0, <3>0, EatType, FinishType, NodeTypes, FormOf3 DEF TokenTypes
    <3>2. Justified("const-def", FormOf(body), currToken.typ)
      BY <2>1, <3>1, ConstDeclChoices DEF See
    <3> QED
      BY <1>5, <2>1, <3>1, <3>2, AtSymbol, ExpandStep DEF ParseConstIdent, Do
  <2>2. CASE At("nextConstIdent") /\ todo' = <<eat("identsym"), eat("eqsym"),
              Finish("constNumber", ast_const_def(currToken, currToken.text, 0))>> \o Tail(todo)
    <3> DEFINE body == <<eat("identsym"), eat("eqsym"),
                     Finish("constNumber", ast_const_def(currToken, currToken.text, 0))>>
    <3>1. /\ body \in Seq(Instructions)
          /\ FormOf(body) = <<"identsym", "eqsym", "const-number">>
      BY <1>0, EatType, FinishType, NodeTypes, FormOf3 DEF TokenTypes
    <3>2. Justified("const-def", FormOf(body), currToken.typ)
      BY <2>2, <3>1, ConstDeclChoices DEF See
    <3> QED
      BY <1>5, <2>2, <3>1, <3>2, AtSymbol, ExpandStep DEF ParseConstIdent, Do
  <2> QED
    BY <1>5, <2>1, <2>2 DEF ParseConstIdent, Do
<1>6. CASE ConstNumber
  <2> DEFINE node == [Head(todo).node EXCEPT !.num = currToken.value]
  <2>0. node \in Nodes
    BY <1>6, <1>0, HeadType DEF ConstNumber, At, Nodes
  <2> DEFINE body == <<eat("numbersym"), Make(node)>>
  <2>1. /\ body \in Seq(Instructions)
        /\ FormOf(body) = <<"numbersym", "act">>
    BY <1>0, <2>0, EatType, MakeType, NodeTypes, FormOf2 DEF TokenTypes
  <2>2. Justified("const-number", FormOf(body), currToken.typ)
    BY <2>1, ConstDeclChoices
  <2> QED
    BY <1>6, <2>1, <2>2, AtSymbol, ExpandStep DEF ConstNumber, Do
<1>7. CASE ParseVarDecls
  <2> DEFINE body == <<Call("varDeclsLoop")>>
  <2>1. /\ body \in Seq(Instructions)
        /\ FormOf(body) = <<"more-var-decls">>
    BY <1>0, CallType, FormOf1 DEF TokenTypes
  <2>2. Justified("var-decls", FormOf(body), currToken.typ)
    BY <2>1, VarDeclChoices
  <2> QED
    BY <1>7, <2>1, <2>2, AtSymbol, ExpandStep DEF ParseVarDecls, DoWithList
<1>8. CASE VarDeclsLoop
  <2>1. CASE See("varsym")
    <3> DEFINE body == <<eat("varsym"), Call("parseVarDecl"),
                     Call("add_AST_to_end"), eat("semisym"),
                     Call("varDeclsLoop")>>
    <3>1. /\ body \in Seq(Instructions)
          /\ FormOf(body) = <<"varsym", "var-decl", "act", "semisym", "more-var-decls">>
      BY <1>0, EatType, CallType, StepType, FormOf5 DEF TokenTypes, TreeSteps
    <3>2. Justified("more-var-decls", FormOf(body), currToken.typ)
      BY <2>1, <3>1, VarDeclChoices DEF See
    <3> QED
      BY <1>8, <2>1, <3>1, <3>2, AtSymbol, ExpandStep DEF VarDeclsLoop, Do
  <2>2. CASE ~See("varsym")
    <3>1. Justified("more-var-decls", <<>>, currToken.typ)
      BY <2>2, VarDeclChoices DEF See
    <3> QED
      BY <1>8, <2>2, <3>1, AtSymbol, EmptyStep DEF VarDeclsLoop, EndList
  <2> QED
    BY <2>1, <2>2
<1>9. CASE ParseVarDecl
  <2> DEFINE body == <<Call("parseVarIdent"), Call("startList"),
                     Call("varDeclLoop")>>
  <2>1. /\ body \in Seq(Instructions)
        /\ FormOf(body) = <<"var-ident", "act", "comma-idents">>
    BY <1>0, CallType, StepType, FormOf3 DEF TokenTypes, TreeSteps
  <2>2. Justified("var-decl", FormOf(body), currToken.typ)
    BY <2>1, VarDeclChoices
  <2> QED
    BY <1>9, <2>1, <2>2, AtSymbol, ExpandStep DEF ParseVarDecl, Do
<1>10. CASE VarDeclLoop
  <2>1. CASE See("commasym")
    <3> DEFINE body == <<eat("commasym"), Call("parseVarIdent"),
                     Call("add_AST_to_end"), Call("varDeclLoop")>>
    <3>1. /\ body \in Seq(Instructions)
          /\ FormOf(body) = <<"commasym", "var-ident", "act", "comma-idents">>
      BY <1>0, EatType, CallType, StepType, FormOf4 DEF TokenTypes, TreeSteps
    <3>2. Justified("comma-idents", FormOf(body), currToken.typ)
      BY <2>1, <3>1, VarDeclChoices DEF See
    <3> QED
      BY <1>10, <2>1, <3>1, <3>2, AtSymbol, ExpandStep DEF VarDeclLoop, Do
  <2>2. CASE ~See("commasym")
    <3>1. Justified("comma-idents", <<>>, currToken.typ)
      BY <2>2, VarDeclChoices DEF See
    <3> QED
      BY <1>10, <2>2, <3>1, AtSymbol, EmptyStep DEF VarDeclLoop, EndList
  <2> QED
    BY <2>1, <2>2
<1>11. CASE ParseVarIdent
  <2> DEFINE body == <<eat("identsym"),
                     Make(ast_var_decl(currToken, currToken.text))>>
  <2>1. /\ body \in Seq(Instructions)
        /\ FormOf(body) = <<"identsym", "act">>
    BY <1>0, EatType, MakeType, NodeTypes, FormOf2 DEF TokenTypes
  <2>2. Justified("var-ident", FormOf(body), currToken.typ)
    BY <2>1, VarDeclChoices
  <2> QED
    BY <1>11, <2>1, <2>2, AtSymbol, ExpandStep DEF ParseVarIdent, Do
<1> QED
  BY <1>1, <1>2, <1>3, <1>4, <1>5, <1>6, <1>7, <1>8, <1>9, <1>10, <1>11 DEF ParseDecls

\* The functions for statements and conditions follow their productions, but
\* for a missing relational operator: there the relaxed grammar is needed.
LEMMA StmtSteps ==
  ASSUME ControlOK, ParseStatements
  PROVE  ControlOK' /\ ParseStep
<1> USE DEF Nonterminal
<1>0. /\ currToken \in TokenRecords /\ currToken.text \in Texts
      /\ currToken.value \in Int /\ currToken.typ \in TokenTypes
  BY CurrTokenType
<1>1. CASE ParseStmts
  <2> DEFINE body == <<Call("parseStmt")>>
  <2>1. /\ body \in Seq(Instructions)
        /\ FormOf(body) = <<"stmt">>
    BY <1>0, CallType, FormOf1 DEF TokenTypes
  <2>2. Justified("stmts", FormOf(body), currToken.typ)
    BY <2>1, ProgramChoices
  <2> QED
    BY <1>1, <2>1, <2>2, AtSymbol, ExpandStep DEF ParseStmts, Do
<1>2. CASE ParseStmt
  <2>1. CASE currToken.typ \in DOMAIN StmtParser
    <3> DEFINE f == StmtParser[currToken.typ]
               body == <<Call(f)>>
    <3>1. /\ f \in DOMAIN Nonterminal /\ f # "parseOpExpr"
          /\ Nonterminal[f] \in {"assign-stmt", "begin-stmt", "if-stmt", "while-stmt",
                                "read-stmt", "write-stmt", "skip-stmt"}
      BY <2>1 DEF StmtParser
    <3>2. body \in Seq(Instructions) /\ FormOf(body) = <<Nonterminal[f]>>
      BY <3>1, CallType, FormOf1
    <3>3. currToken.typ \in DOMAIN StmtOf /\ Nonterminal[f] = StmtOf[currToken.typ]
      BY <2>1 DEF StmtParser, StmtOf
    <3>4. Justified("stmt", FormOf(body), currToken.typ)
      BY <3>2, <3>3, StmtChoices
    <3> QED
      BY <1>2, <2>1, <3>2, <3>4, AtSymbol, ExpandStep DEF ParseStmt, Do
  <2>2. CASE currToken.typ \notin DOMAIN StmtParser
    <3>1. DOMAIN StmtParser = StmtStarts /\ StmtStarts \in SUBSET TokenTypes
      BY DEF StmtParser, TokenTypes, StmtStarts
    <3>2. "stmt" \in Committed /\ Starts("stmt") = StmtStarts
      BY DEF Committed, Starts, TokenTypes
    <3>3. todo # <<>> /\ outcome = Running /\ Symbol(Head(todo)) = "stmt"
      BY <1>2, AtSymbol DEF ParseStmt
    <3>4. parse_error_unexpected(StmtStarts)
      BY <1>2, <2>2, <3>1 DEF ParseStmt
    <3> QED
      BY <2>2, <3>1, <3>2, <3>3, <3>4, ErrorStep
  <2> QED
    BY <2>1, <2>2
<1>3. CASE ParseAssignStmt
  <2> DEFINE body == <<eat("identsym"), eat("becomessym"), Call("parseExpr"),
                     Make(ast_assign_stmt(currToken, currToken.text))>>
  <2>1. /\ body \in Seq(Instructions)
        /\ FormOf(body) = <<"identsym", "becomessym", "expr", "act">>
    BY <1>0, EatType, CallType, MakeType, NodeTypes, FormOf4 DEF TokenTypes
  <2>2. Justified("assign-stmt", FormOf(body), currToken.typ)
    BY <2>1, StmtChoices
  <2> QED
    BY <1>3, <2>1, <2>2, AtSymbol, ExpandStep DEF ParseAssignStmt, Do
<1>4. CASE ParseBeginStmt
  <2> DEFINE body == <<eat("beginsym"), Call("parseStmt"), Call("startList"),
                     Call("parseStmtList"), Call("add_AST_to_end"),
                     Call("dropLast"), eat("endsym"),
                     Make(ast_begin_stmt(currToken))>>
  <2>1. /\ body \in Seq(Instructions)
        /\ FormOf(body) = <<"beginsym", "stmt", "act", "stmt-list", "act", "act", "endsym", "act">>
    BY <1>0, EatType, CallType, StepType, MakeType, NodeTypes, FormOf8 DEF TokenTypes, TreeSteps
  <2>2. Justified("begin-stmt", FormOf(body), currToken.typ)
    BY <2>1, StmtChoices
  <2> QED
    BY <1>4, <2>1, <2>2, AtSymbol, ExpandStep DEF ParseBeginStmt, Do
<1>5. CASE ParseStmtList
  <2> DEFINE body == <<Call("stmtListLoop")>>
  <2>1. /\ body \in Seq(Instructions)
        /\ FormOf(body) = <<"semi-stmts">>
    BY <1>0, CallType, FormOf1 DEF TokenTypes
  <2>2. Justified("stmt-list", FormOf(body), currToken.typ)
    BY <2>1, StmtChoices
  <2> QED
    BY <1>5, <2>1, <2>2, AtSymbol, ExpandStep DEF ParseStmtList, DoWithList
<1>6. CASE StmtListLoop
  <2>1. CASE See("semisym")
    <3> DEFINE body == <<eat("semisym"), Call("parseStmt"),
                     Call("add_AST_to_end"), Call("stmtListLoop")>>
    <3>1. /\ body \in Seq(Instructions)
          /\ FormOf(body) = <<"semisym", "stmt", "act", "semi-stmts">>
      BY <1>0, EatType, CallType, StepType, FormOf4 DEF TokenTypes, TreeSteps
    <3>2. Justified("semi-stmts", FormOf(body), currToken.typ)
      BY <2>1, <3>1, StmtChoices DEF See
    <3> QED
      BY <1>6, <2>1, <3>1, <3>2, AtSymbol, ExpandStep DEF StmtListLoop, Do
  <2>2. CASE ~See("semisym")
    <3>1. Justified("semi-stmts", <<>>, currToken.typ)
      BY <2>2, StmtChoices DEF See
    <3> QED
      BY <1>6, <2>2, <3>1, AtSymbol, EmptyStep DEF StmtListLoop, EndList
  <2> QED
    BY <2>1, <2>2
<1>7. CASE ParseIfStmt
  <2> DEFINE body == <<eat("ifsym"), Call("parseCondition"), eat("thensym"),
                     Call("parseStmt"), eat("elsesym"), Call("parseStmt"),
                     Make(ast_if_stmt(currToken))>>
  <2>1. /\ body \in Seq(Instructions)
        /\ FormOf(body) = <<"ifsym", "condition", "thensym", "stmt", "elsesym", "stmt", "act">>
    BY <1>0, EatType, CallType, MakeType, NodeTypes, FormOf7 DEF TokenTypes
  <2>2. Justified("if-stmt", FormOf(body), currToken.typ)
    BY <2>1, StmtChoices
  <2> QED
    BY <1>7, <2>1, <2>2, AtSymbol, ExpandStep DEF ParseIfStmt, Do
<1>8. CASE ParseWhileStmt
  <2> DEFINE body == <<eat("whilesym"), Call("parseCondition"), eat("dosym"),
                     Call("parseStmt"), Make(ast_while_stmt(currToken))>>
  <2>1. /\ body \in Seq(Instructions)
        /\ FormOf(body) = <<"whilesym", "condition", "dosym", "stmt", "act">>
    BY <1>0, EatType, CallType, MakeType, NodeTypes, FormOf5 DEF TokenTypes
  <2>2. Justified("while-stmt", FormOf(body), currToken.typ)
    BY <2>1, StmtChoices
  <2> QED
    BY <1>8, <2>1, <2>2, AtSymbol, ExpandStep DEF ParseWhileStmt, Do
<1>9. CASE ParseReadStmt
  <2> DEFINE body == <<eat("readsym"), CallWith("readIdent", currToken)>>
  <2>1. /\ body \in Seq(Instructions)
        /\ FormOf(body) = <<"readsym", "read-ident">>
    BY <1>0, EatType, CallWithType, FormOf2 DEF TokenTypes
  <2>2. Justified("read-stmt", FormOf(body), currToken.typ)
    BY <2>1, StmtChoices
  <2> QED
    BY <1>9, <2>1, <2>2, AtSymbol, ExpandStep DEF ParseReadStmt, Do
<1>10. CASE ReadIdent
  <2>0. Head(todo).tok \in TokenRecords
    BY <1>10, HeadType DEF ReadIdent, At
  <2> DEFINE body == <<eat("identsym"),
                     Make(ast_read_stmt(Head(todo).tok, currToken.text))>>
  <2>1. /\ body \in Seq(Instructions)
        /\ FormOf(body) = <<"identsym", "act">>
    BY <1>0, <2>0, EatType, MakeType, NodeTypes, FormOf2 DEF TokenTypes
  <2>2. Justified("read-ident", FormOf(body), currToken.typ)
    BY <2>1, StmtChoices
  <2> QED
    BY <1>10, <2>1, <2>2, AtSymbol, ExpandStep DEF ReadIdent, Do
<1>11. CASE ParseWriteStmt
  <2> DEFINE body == <<eat("writesym"), Call("parseExpr"),
                     Make(ast_write_stmt(currToken))>>
  <2>1. /\ body \in Seq(Instructions)
        /\ FormOf(body) = <<"writesym", "expr", "act">>
    BY <1>0, EatType, CallType, MakeType, NodeTypes, FormOf3 DEF TokenTypes
  <2>2. Justified("write-stmt", FormOf(body), currToken.typ)
    BY <2>1, StmtChoices
  <2> QED
    BY <1>11, <2>1, <2>2, AtSymbol, ExpandStep DEF ParseWriteStmt, Do
<1>12. CASE ParseSkipStmt
  <2> DEFINE body == <<eat("skipsym"), Make(ast_skip_stmt(currToken))>>
  <2>1. /\ body \in Seq(Instructions)
        /\ FormOf(body) = <<"skipsym", "act">>
    BY <1>0, EatType, MakeType, NodeTypes, FormOf2 DEF TokenTypes
  <2>2. Justified("skip-stmt", FormOf(body), currToken.typ)
    BY <2>1, StmtChoices
  <2> QED
    BY <1>12, <2>1, <2>2, AtSymbol, ExpandStep DEF ParseSkipStmt, Do
<1>13. CASE ParseCondition
  <2>1. CASE See("oddsym")
    <3> DEFINE body == <<eat("oddsym"), Call("parseExpr"),
                     Make(ast_odd_cond(currToken))>>
    <3>1. /\ body \in Seq(Instructions)
          /\ FormOf(body) = <<"oddsym", "expr", "act">>
      BY <1>0, EatType, CallType, MakeType, NodeTypes, FormOf3 DEF TokenTypes
    <3>2. Justified("condition", FormOf(body), currToken.typ)
      BY <2>1, <3>1, ConditionChoices DEF See
    <3> QED
      BY <1>13, <2>1, <3>1, <3>2, AtSymbol, ExpandStep DEF ParseCondition, Do
  <2>2. CASE ~See("oddsym")
    <3> DEFINE body == <<Call("parseExpr"), CallWith("which_one", currToken)>>
    <3>1. /\ body \in Seq(Instructions)
          /\ FormOf(body) = <<"expr", "rel-op-expr">>
      BY <1>0, CallType, CallWithType, FormOf2 DEF TokenTypes
    <3>2. Justified("condition", FormOf(body), currToken.typ)
      BY <2>2, <3>1, ConditionChoices DEF See
    <3> QED
      BY <1>13, <2>2, <3>1, <3>2, AtSymbol, ExpandStep DEF ParseCondition, Do
  <2> QED
    BY <2>1, <2>2
<1>14. CASE WhichOne
  <2>0. Head(todo).tok \in TokenRecords
    BY <1>14, HeadType DEF WhichOne, At
  <2>1. CASE currToken.typ \in DOMAIN RelOpOf
    <3>0. /\ currToken.typ \in RelOpSyms /\ RelOpOf[currToken.typ] \in Ops
          /\ currToken.typ \in TokenTypes \ {"eofsym"}
      BY <2>1 DEF RelOpOf, RelOpSyms, Ops, RelOps, TokenTypes
    <3> DEFINE body == <<eat(currToken.typ), Call("parseExpr"),
                     Make(ast_bin_cond(Head(todo).tok, RelOpOf[currToken.typ]))>>
    <3>1. /\ body \in Seq(Instructions)
          /\ FormOf(body) = <<currToken.typ, "expr", "act">>
      BY <1>0, <2>0, <3>0, EatType, CallType, MakeType, NodeTypes, FormOf3 DEF TokenTypes
    <3>2. Justified("rel-op-expr", FormOf(body), currToken.typ)
      BY <2>1, <3>0, <3>1, ConditionChoices DEF See
    <3> QED
      BY <1>14, <2>1, <3>1, <3>2, AtSymbol, ExpandStep DEF WhichOne, Do
  <2>2. CASE currToken.typ \notin DOMAIN RelOpOf
    <3>0. PICK op \in RelOps \cup {GarbageOp} :
            Do(<<Call("parseExpr"), Make(ast_bin_cond(Head(todo).tok, op))>>)
      BY <1>14, <2>2 DEF WhichOne
    <3>9. op \in Ops
      BY <3>0 DEF Ops
    <3> DEFINE body == <<Call("parseExpr"), Make(ast_bin_cond(Head(todo).tok, op))>>
    <3>1. /\ body \in Seq(Instructions)
          /\ FormOf(body) = <<"expr", "act">>
      BY <1>0, <2>0, <3>9, CallType, MakeType, NodeTypes, FormOf2 DEF TokenTypes
    <3>2. Justified("rel-op-expr", FormOf(body), currToken.typ)
      BY <2>2, <3>1, ConditionChoices DEF RelOpOf, RelOpSyms
    <3> QED
      BY <1>14, <3>0, <3>1, <3>2, AtSymbol, ExpandStep DEF WhichOne, Do
  <2> QED
    BY <2>1, <2>2
<1> QED
  BY <1>1, <1>2, <1>3, <1>4, <1>5, <1>6, <1>7, <1>8, <1>9, <1>10, <1>11,
     <1>12, <1>13, <1>14 DEF ParseStatements

\* The functions for expressions follow their productions.
LEMMA ExprSteps ==
  ASSUME ControlOK, ParseExpressions
  PROVE  ControlOK' /\ ParseStep
<1> USE DEF Nonterminal
<1>0. /\ currToken \in TokenRecords /\ currToken.text \in Texts
      /\ currToken.value \in Int /\ currToken.typ \in TokenTypes
  BY CurrTokenType
<1>1. CASE ParseExpr
  <2> DEFINE body == <<Call("parseTerm"), CallWith("exprLoop", currToken)>>
  <2>1. /\ body \in Seq(Instructions)
        /\ FormOf(body) = <<"term", "add-sub-terms">>
    BY <1>0, CallType, CallWithType, FormOf2 DEF TokenTypes
  <2>2. Justified("expr", FormOf(body), currToken.typ)
    BY <2>1, ExprChoices
  <2> QED
    BY <1>1, <2>1, <2>2, AtSymbol, ExpandStep DEF ParseExpr, Do
<1>2. CASE ExprLoop
  <2>0. Head(todo).tok \in TokenRecords /\ Head(todo) \in Instructions
    BY <1>2, HeadType DEF ExprLoop, At
  <2>1. CASE currToken.typ \in SignSyms
    <3>0. Symbol(Head(todo)) = "add-sub-terms"
      BY <1>2, AtSymbol DEF ExprLoop
    <3> DEFINE body == <<Call("parseAddSubTerm"),
                     CallWith("binExpr", Head(todo).tok), Head(todo)>>
    <3>1. /\ body \in Seq(Instructions)
          /\ FormOf(body) = <<"add-sub-term", "act", "add-sub-terms">>
      BY <1>0, <2>0, <3>0, CallType, CallWithType, StepWithType, FormOf3 DEF TokenTypes, TreeSteps
    <3>2. Justified("add-sub-terms", FormOf(body), currToken.typ)
      BY <2>1, <3>1, ExprChoices DEF See
    <3> QED
      BY <1>2, <2>1, <3>1, <3>2, AtSymbol, ExpandStep DEF ExprLoop, Do
  <2>2. CASE ~(currToken.typ \in SignSyms)
    <3>1. Justified("add-sub-terms", <<>>, currToken.typ)
      BY <2>2, ExprChoices DEF See
    <3> QED
      BY <1>2, <2>2, <3>1, AtSymbol, EmptyStep DEF ExprLoop, Do
  <2> QED
    BY <2>1, <2>2
<1>3. CASE ParseTerm
  <2> DEFINE body == <<Call("parseFactor"), CallWith("termLoop", currToken)>>
  <2>1. /\ body \in Seq(Instructions)
        /\ FormOf(body) = <<"factor", "mult-div-factors">>
    BY <1>0, CallType, CallWithType, FormOf2 DEF TokenTypes
  <2>2. Justified("term", FormOf(body), currToken.typ)
    BY <2>1, ExprChoices
  <2> QED
    BY <1>3, <2>1, <2>2, AtSymbol, ExpandStep DEF ParseTerm, Do
<1>4. CASE TermLoop
  <2>0. Head(todo).tok \in TokenRecords /\ Head(todo) \in Instructions
    BY <1>4, HeadType DEF TermLoop, At
  <2>1. CASE currToken.typ \in DOMAIN MultDivOp
    <3>0. Symbol(Head(todo)) = "mult-div-factors"
      BY <1>4, AtSymbol DEF TermLoop
    <3> DEFINE body == <<Call("parseMultDivFactor"),
                     CallWith("binExpr", Head(todo).tok), Head(todo)>>
    <3>1. /\ body \in Seq(Instructions)
          /\ FormOf(body) = <<"mult-div-factor", "act", "mult-div-factors">>
      BY <1>0, <2>0, <3>0, CallType, CallWithType, StepWithType, FormOf3 DEF TokenTypes, TreeSteps
    <3>2. Justified("mult-div-factors", FormOf(body), currToken.typ)
      BY <2>1, <3>1, ExprChoices DEF MultDivOp, MultDivSyms
    <3> QED
      BY <1>4, <2>1, <3>1, <3>2, AtSymbol, ExpandStep DEF TermLoop, Do
  <2>2. CASE ~(currToken.typ \in DOMAIN MultDivOp)
    <3>1. Justified("mult-div-factors", <<>>, currToken.typ)
      BY <2>2, ExprChoices DEF MultDivOp, MultDivSyms
    <3> QED
      BY <1>4, <2>2, <3>1, AtSymbol, EmptyStep DEF TermLoop, Do
  <2> QED
    BY <2>1, <2>2
<1>5. CASE BinExpr
  BY <1>5, ActStep, BailStep DEF BinExpr, At, TreeSteps, Build
<1>6. CASE ParseMultDivFactor
  <2>0. DOMAIN MultDivOp = MultDivSyms /\ MultDivSyms \subseteq TokenTypes \ {"eofsym"} /\ \A s \in MultDivSyms : MultDivOp[s] \in Ops
    BY DEF MultDivOp, MultDivSyms, TokenTypes, Ops, ArithOps
  <2>1. CASE currToken.typ \in DOMAIN MultDivOp
    <3> DEFINE body == <<eat(currToken.typ), Call("parseFactor"),
                     Make(ast_op_expr(currToken, MultDivOp[currToken.typ]))>>
    <3>1. /\ body \in Seq(Instructions)
          /\ FormOf(body) = <<currToken.typ, "factor", "act">>
      BY <1>0, <2>0, <2>1, EatType, CallType, MakeType, NodeTypes, FormOf3 DEF TokenTypes
    <3>2. Justified("mult-div-factor", FormOf(body), currToken.typ)
      BY <2>0, <2>1, <3>1, ExprChoices DEF See
    <3> QED
      BY <1>6, <2>1, <3>1, <3>2, AtSymbol, ExpandStep DEF ParseMultDivFactor, Do
  <2>2. CASE currToken.typ \notin DOMAIN MultDivOp
    <3>1. "mult-div-factor" \in Committed /\ Starts("mult-div-factor") = MultDivSyms
      BY DEF Committed, Starts, TokenTypes
    <3>2. todo # <<>> /\ outcome = Running /\ Symbol(Head(todo)) = "mult-div-factor"
      BY <1>6, AtSymbol DEF ParseMultDivFactor
    <3>3. parse_error_unexpected(MultDivSyms)
      BY <1>6, <2>0, <2>2 DEF ParseMultDivFactor
    <3> QED
      BY <2>0, <2>2, <3>1, <3>2, <3>3, ErrorStep
  <2> QED
    BY <2>1, <2>2
<1>7. CASE ParseAddSubTerm
  <2>0. DOMAIN AddSubOp = SignSyms /\ SignSyms \subseteq TokenTypes \ {"eofsym"} /\ \A s \in SignSyms : AddSubOp[s] \in Ops
    BY DEF AddSubOp, SignSyms, TokenTypes, Ops, ArithOps
  <2>1. CASE currToken.typ \in DOMAIN AddSubOp
    <3> DEFINE body == <<eat(currToken.typ), Call("parseTerm"),
                     Make(ast_op_expr(currToken, AddSubOp[currToken.typ]))>>
    <3>1. /\ body \in Seq(Instructions)
          /\ FormOf(body) = <<currToken.typ, "term", "act">>
      BY <1>0, <2>0, <2>1, EatType, CallType, MakeType, NodeTypes, FormOf3 DEF TokenTypes
    <3>2. Justified("add-sub-term", FormOf(body), currToken.typ)
      BY <2>0, <2>1, <3>1, ExprChoices DEF See
    <3> QED
      BY <1>7, <2>1, <3>1, <3>2, AtSymbol, ExpandStep DEF ParseAddSubTerm, Do
  <2>2. CASE currToken.typ \notin DOMAIN AddSubOp
    <3>1. "add-sub-term" \in Committed /\ Starts("add-sub-term") = SignSyms
      BY DEF Committed, Starts, TokenTypes
    <3>2. todo # <<>> /\ outcome = Running /\ Symbol(Head(todo)) = "add-sub-term"
      BY <1>7, AtSymbol DEF ParseAddSubTerm
    <3>3. parse_error_unexpected(SignSyms)
      BY <1>7, <2>0, <2>2 DEF ParseAddSubTerm
    <3> QED
      BY <2>0, <2>2, <3>1, <3>2, <3>3, ErrorStep
  <2> QED
    BY <2>1, <2>2
<1>8. CASE ParseFactor
  <2>1. CASE See("identsym")
    <3> DEFINE body == <<Call("parseIdentExpr")>>
    <3>1. /\ body \in Seq(Instructions)
          /\ FormOf(body) = <<"ident-expr">>
      BY <1>0, CallType, FormOf1 DEF TokenTypes
    <3>2. Justified("factor", FormOf(body), currToken.typ)
      BY <2>1, <3>1, FactorChoices, NumberChoices DEF See
    <3> QED
      BY <1>8, <2>1, <3>1, <3>2, AtSymbol, ExpandStep DEF ParseFactor, Do, See, SignSyms
  <2>2. CASE See("lparensym")
    <3> DEFINE body == <<Call("parseParenExpr")>>
    <3>1. /\ body \in Seq(Instructions)
          /\ FormOf(body) = <<"paren-expr">>
      BY <1>0, CallType, FormOf1 DEF TokenTypes
    <3>2. Justified("factor", FormOf(body), currToken.typ)
      BY <2>2, <3>1, FactorChoices, NumberChoices DEF See
    <3> QED
      BY <1>8, <2>2, <3>1, <3>2, AtSymbol, ExpandStep DEF ParseFactor, Do, See, SignSyms
  <2>3. CASE currToken.typ \in SignSyms
    <3> DEFINE body == <<CallWith("parseOpExpr", currToken)>>
    <3>1. /\ body \in Seq(Instructions)
          /\ FormOf(body) = <<"signed-number">>
      BY <1>0, <2>3, CallWithType, FormOf1 DEF TokenTypes
    <3>2. Justified("factor", FormOf(body), currToken.typ)
      BY <2>3, <3>1, FactorChoices, NumberChoices DEF See
    <3> QED
      BY <1>8, <2>3, <3>1, <3>2, AtSymbol, ExpandStep DEF ParseFactor, Do, See, SignSyms
  <2>4. CASE See("numbersym")
    <3> DEFINE body == <<Call("parseNumber")>>
    <3>1. /\ body \in Seq(Instructions)
          /\ FormOf(body) = <<"number">>
      BY <1>0, CallType, FormOf1 DEF TokenTypes
    <3>2. Justified("factor", FormOf(body), currToken.typ)
      BY <2>4, <3>1, FactorChoices, NumberChoices DEF See
    <3> QED
      BY <1>8, <2>4, <3>1, <3>2, AtSymbol, ExpandStep DEF ParseFactor, Do, See, SignSyms
  <2>5. CASE ~(See("identsym") \/ See("lparensym") \/ currToken.typ \in SignSyms
                \/ See("numbersym"))
    <3>1. {"identsym", "lparensym", "numbersym"} \in SUBSET TokenTypes
      BY DEF TokenTypes
    <3>2. parse_error_unexpected({"identsym", "lparensym", "numbersym"})
      BY <1>8, <2>5 DEF ParseFactor
    <3>3. "factor" \in Committed /\ Starts("factor") = ExprStarts
      BY DEF Committed, Starts, TokenTypes
    <3>4. todo # <<>> /\ outcome = Running /\ Symbol(Head(todo)) = "factor"
      BY <1>8, AtSymbol DEF ParseFactor
    <3>5. /\ currToken.typ \notin ExprStarts
          /\ {"identsym", "lparensym", "numbersym"} \subseteq ExprStarts
      BY <2>5 DEF ExprStarts, See
    <3> QED
      BY <3>1, <3>2, <3>3, <3>4, <3>5, ErrorStep
  <2> QED
    BY <2>1, <2>2, <2>3, <2>4, <2>5
<1>9. CASE ParseOpExpr
  <2>1. CASE Head(todo).tok.typ \in SignSyms
    <3> DEFINE body == <<Call("parseNumber")>>
    <3>1. /\ body \in Seq(Instructions)
          /\ FormOf(body) = <<"number">>
      BY <1>0, CallType, FormOf1 DEF TokenTypes
    <3>2. Justified("signed-number", FormOf(body), currToken.typ)
      BY <2>1, <3>1, FactorChoices DEF See
    <3> QED
      BY <1>9, <2>1, <3>1, <3>2, AtSymbol, ExpandStep DEF ParseOpExpr, Do
  <2>2. CASE Head(todo).tok.typ \notin SignSyms
    <3>1. Head(todo) \in Instructions /\ Head(todo).do = "parseOpExpr"
      BY <1>9, HeadType DEF ParseOpExpr, At
    <3> QED
      BY <2>2, <3>1 DEF Instructions
  <2> QED
    BY <2>1, <2>2
<1>10. CASE ParseParenExpr
  <2> DEFINE body == <<eat("lparensym"), Call("parseExpr"), eat("rparensym"),
                     CallWith("relocate", currToken)>>
  <2>1. /\ body \in Seq(Instructions)
        /\ FormOf(body) = <<"lparensym", "expr", "rparensym", "act">>
    BY <1>0, EatType, CallType, CallWithType, StepWithType, FormOf4 DEF TokenTypes, TreeSteps
  <2>2. Justified("paren-expr", FormOf(body), currToken.typ)
    BY <2>1, FactorChoices
  <2> QED
    BY <1>10, <2>1, <2>2, AtSymbol, ExpandStep DEF ParseParenExpr, Do
<1>11. CASE RelocateParenExpr
  BY <1>11, ActStep, BailStep DEF RelocateParenExpr, At, TreeSteps
<1>12. CASE ParseIdentExpr
  <2> DEFINE body == <<eat("identsym"),
                     Make(ast_ident(currToken, currToken.text))>>
  <2>1. /\ body \in Seq(Instructions)
        /\ FormOf(body) = <<"identsym", "act">>
    BY <1>0, EatType, MakeType, NodeTypes, FormOf2 DEF TokenTypes
  <2>2. Justified("ident-expr", FormOf(body), currToken.typ)
    BY <2>1, FactorChoices
  <2> QED
    BY <1>12, <2>1, <2>2, AtSymbol, ExpandStep DEF ParseIdentExpr, Do
<1>13. CASE ParseNumber
  <2>0. SignSyms \subseteq TokenTypes \ {"eofsym"}
    BY DEF SignSyms, TokenTypes
  <2>1. CASE currToken.typ \in SignSyms
    <3> DEFINE body == <<eat(currToken.typ), CallWith("signedValue", currToken)>>
    <3>1. /\ body \in Seq(Instructions)
          /\ FormOf(body) = <<currToken.typ, "unsigned-number">>
      BY <1>0, <2>0, <2>1, EatType, CallWithType, FormOf2 DEF TokenTypes
    <3>2. Justified("number", FormOf(body), currToken.typ)
      BY <2>1, <3>1, FactorChoices DEF See
    <3> QED
      BY <1>13, <2>1, <3>1, <3>2, AtSymbol, ExpandStep DEF ParseNumber, Do, See, SignSyms
  <2>2. CASE See("numbersym")
    <3> DEFINE body == <<eat("numbersym"),
                     Make(ast_number(currToken, currToken.value))>>
    <3>1. /\ body \in Seq(Instructions)
          /\ FormOf(body) = <<"numbersym", "act">>
      BY <1>0, EatType, MakeType, NodeTypes, FormOf2 DEF TokenTypes
    <3>2. Justified("number", FormOf(body), currToken.typ)
      BY <2>2, <3>1, FactorChoices DEF See
    <3> QED
      BY <1>13, <2>2, <3>1, <3>2, AtSymbol, ExpandStep DEF ParseNumber, Do, See, SignSyms
  <2>3. CASE currToken.typ \notin SignSyms /\ ~See("numbersym")
    <3>1. SignSyms \cup {"numbersym"} \in SUBSET TokenTypes
      BY <2>0 DEF TokenTypes
    <3>2. parse_error_unexpected(SignSyms \cup {"numbersym"})
      BY <1>13, <2>3 DEF ParseNumber
    <3>3. "number" \in Committed /\ Starts("number") = SignSyms \cup {"numbersym"}
      BY DEF Committed, Starts, TokenTypes
    <3>4. todo # <<>> /\ outcome = Running /\ Symbol(Head(todo)) = "number"
      BY <1>13, AtSymbol DEF ParseNumber
    <3>5. currToken.typ \notin SignSyms \cup {"numbersym"}
      BY <2>3 DEF See
    <3> QED
      BY <3>1, <3>2, <3>3, <3>4, <3>5, ErrorStep
  <2> QED
    BY <2>1, <2>2, <2>3
<1>14. CASE SignedValue
  <2> DEFINE value == IF Head(todo).tok.typ = "minussym" THEN currToken.value * (-1)
                      ELSE currToken.value
  <2>0. Head(todo).tok \in TokenRecords /\ value \in Int
    BY <1>14, <1>0, HeadType DEF SignedValue, At
  <2> DEFINE body == <<eat("numbersym"), Make(ast_number(Head(todo).tok, value))>>
  <2>1. /\ body \in Seq(Instructions)
        /\ FormOf(body) = <<"numbersym", "act">>
    BY <1>0, <2>0, EatType, MakeType, NodeTypes, FormOf2 DEF TokenTypes
  <2>2. Justified("unsigned-number", FormOf(body), currToken.typ)
    BY <2>1, FactorChoices
  <2> QED
    BY <1>14, <2>1, <2>2, AtSymbol, ExpandStep DEF SignedValue, Do
<1> QED
  BY <1>1, <1>2, <1>3, <1>4, <1>5, <1>6, <1>7, <1>8, <1>9, <1>10, <1>11,
     <1>12, <1>13, <1>14 DEF ParseExpressions

\* Building the tree derives nothing.
LEMMA BuildSteps ==
  ASSUME ControlOK, BuildTrees
  PROVE  ControlOK' /\ ParseStep
<1> USE DEF Nonterminal
<1>0. /\ currToken \in TokenRecords /\ currToken.text \in Texts
      /\ currToken.value \in Int /\ currToken.typ \in TokenTypes
  BY CurrTokenType
<1>1. CASE Allocate
  BY <1>1, ActStep, BailStep DEF Allocate, At, TreeSteps, Build
<1>2. CASE StartList
  BY <1>2, ActStep, BailStep DEF StartList, At, TreeSteps
<1>3. CASE AddAstToEnd
  BY <1>3, ActStep, BailStep DEF AddAstToEnd, At, TreeSteps
<1>4. CASE DropLast
  BY <1>4, ActStep, BailStep DEF DropLast, At, TreeSteps, EndList
<1>5. CASE MakeProgram
  BY <1>5, ActStep, BailStep DEF MakeProgram, At, TreeSteps, Build
<1> QED
  BY <1>1, <1>2, <1>3, <1>4, <1>5 DEF BuildTrees

\* So do those for programs and blocks.
LEMMA ProgramSteps ==
  ASSUME ControlOK, (ParseyParse \/ ParseBlock)
  PROVE  ControlOK' /\ ParseStep
<1> USE DEF Nonterminal
<1>0. /\ currToken \in TokenRecords /\ currToken.text \in Texts
      /\ currToken.value \in Int /\ currToken.typ \in TokenTypes
  BY CurrTokenType
<1>1. CASE ParseyParse
  <2> DEFINE body == <<Call("parseBlock"), eat("periodsym")>>
  <2>1. /\ body \in Seq(Instructions)
        /\ FormOf(body) = <<"block", "periodsym">>
    BY <1>0, EatType, CallType, FormOf2 DEF TokenTypes
  <2>2. Justified("program", FormOf(body), currToken.typ)
    BY <2>1, ProgramChoices
  <2> QED
    BY <1>1, <2>1, <2>2, AtSymbol, ExpandStep DEF ParseyParse, Do
<1>2. CASE ParseBlock
  <2> DEFINE body == <<Call("parseConstDecls"), Call("parseVarDecls"),
                     Call("parseStmts"), Call("makeProgram")>>
  <2>1. /\ body \in Seq(Instructions)
        /\ FormOf(body) = <<"const-decls", "var-decls", "stmts", "act">>
    BY <1>0, CallType, StepType, FormOf4 DEF TokenTypes, TreeSteps
  <2>2. Justified("block", FormOf(body), currToken.typ)
    BY <2>1, ProgramChoices
  <2> QED
    BY <1>2, <2>1, <2>2, AtSymbol, ExpandStep DEF ParseBlock, Do
<1> QED
  BY <1>1, <1>2

-----------------------------------------------------------------------------
(* Tokens.                                                                 *)

LEMMA LexerNextType ==
  ASSUME ControlOK, NEW n \in Nat, lexer_next(n)
  PROVE  currToken' \in TokenRecords /\ done' \in BOOLEAN /\ outcome' \in Outcomes
<1>1. CASE /\ \E x \in Lexemes : currToken' = Token(x, n)
           /\ done' = (currToken'.typ = "eofsym")
           /\ outcome' = Running
  <2>1. PICK x \in Lexemes : currToken' = Token(x, n)
    BY <1>1
  <2>2. x.typ \in TokenTypes /\ x.text \in Texts /\ x.value \in Int
    BY LexemesAssumption
  <2>3. currToken' \in TokenRecords
    BY <2>1, <2>2 DEF Token, TokenRecords
  <2> QED
    BY <1>1, <2>3 DEF Running, Outcomes
<1>2. CASE /\ currToken' = EofToken(n)
           /\ done' = (currToken'.typ = "eofsym")
           /\ outcome' = Running
  <2>1. "eofsym" \in TokenTypes /\ NoText \in Texts
    BY DEF TokenTypes, Texts
  <2>2. currToken' \in TokenRecords
    BY <1>2, <2>1 DEF EofToken, TokenRecords
  <2> QED
    BY <1>2, <2>2 DEF Running, Outcomes
<1>3. CASE /\ \E kind \in {"lexical_error", "bail", "abort"} :
                 outcome' = [kind |-> kind, expected |-> {}]
           /\ UNCHANGED <<currToken, done>>
  BY <1>3 DEF ControlOK, Outcomes
<1> QED
  BY <1>1, <1>2, <1>3 DEF lexer_next

LEMMA WordOfAppend ==
  ASSUME NEW toks \in Seq(TokenRecords), NEW t \in TokenRecords
  PROVE  WordOf(Append(toks, t)) = Append(WordOf(toks), t.typ)
BY DEF WordOf

\* eat settles the token it expects, or reports it.
LEMMA EatStep ==
  ASSUME ControlOK, Eat
  PROVE  ControlOK' /\ ParseStep
<1> DEFINE tt == Head(todo).do
<1>0. todo # <<>> /\ tt \in TokenTypes /\ todo \in Seq(Instructions)
  BY DEF Eat, ControlOK
<1>1. CASE See(tt)
  <2>1. /\ advance
        /\ eaten' = Append(eaten, currToken)
        /\ todo' = Tail(todo)
    BY <1>1 DEF Eat
  <2>2. Len(eaten) + 2 \in Nat
    BY DEF ControlOK
  <2>3. currToken' \in TokenRecords /\ done' \in BOOLEAN /\ outcome' \in Outcomes
    BY <2>1, <2>2, LexerNextType DEF advance, ControlOK
  <2>4. eaten' \in Seq(TokenRecords) /\ todo' \in Seq(Instructions)
    BY <1>0, <2>1 DEF ControlOK
  <2>5. /\ FormOf(todo) # <<>>
        /\ Head(FormOf(todo)) = tt
        /\ FormOf(todo') = Tail(FormOf(todo))
    BY <1>0, <2>1, FormOfTail DEF Symbol
  <2>6. WordOf(eaten') = Append(WordOf(eaten), tt)
    BY <1>1, <2>1, WordOfAppend DEF ControlOK, See
  <2>7. outcome'.kind \in {"running", "lexical_error", "bail", "abort"} /\ outcome'.expected = {}
    <3>1. outcome = Running
      BY DEF Eat
    <3>2. CASE done
      BY <2>1, <3>1, <3>2 DEF advance, Running
    <3>3. CASE ~done
      BY <2>1, <3>3 DEF advance, lexer_next, Running
    <3> QED
      BY <3>2, <3>3
  <2>8. currToken.typ = tt /\ tt # "eofsym"
    <3>1. Head(todo) \in Instructions
      BY <1>0
    <3> QED
      BY <1>1, <3>1 DEF See, Instructions, InstructionNames, TreeSteps, Nonterminal
  <2>9. Matches
    BY <2>1, <2>5, <2>6, <2>7, <2>8 DEF Matches, Eat
  <2> QED
    BY <2>3, <2>4, <2>9 DEF ControlOK, ParseStep
<1>2. CASE ~See(tt)
  <2>1. parse_error_unexpected({tt}) /\ {tt} \in SUBSET TokenTypes /\ outcome = Running
    BY <1>0, <1>2 DEF Eat
  <2>2. Symbol(Head(todo)) = tt /\ tt \in Committed /\ Starts(tt) = {tt}
    BY <1>0, TerminalStarts DEF Symbol, Committed
  <2>3. currToken.typ \notin {tt}
    BY <1>2 DEF See
  <2> QED
    BY <1>0, <2>1, <2>2, <2>3, ErrorStep
<1> QED
  BY <1>1, <1>2

LEMMA OpenStep ==
  ASSUME ControlOK, ParserOpen
  PROVE  ControlOK' /\ ParseStep
<1>1. CASE bail_with_error
  BY <1>1, BailStep
<1>2. CASE lexer_next(1) /\ UNCHANGED <<eaten, heap, todo, vals>>
  <2>1. currToken' \in TokenRecords /\ done' \in BOOLEAN /\ outcome' \in Outcomes
    BY <1>2, LexerNextType
  <2>2. \/ outcome' = Running
        \/ outcome'.kind \in {"lexical_error", "bail", "abort"} /\ outcome'.expected = {}
    BY <1>2 DEF lexer_next
  <2>3. Rests
    BY <1>2, <2>2 DEF ParserOpen, Rests, Running
  <2> QED
    BY <1>2, <2>1, <2>3 DEF ControlOK, ParseStep
<1> QED
  BY <1>1, <1>2 DEF ParserOpen

LEMMA ReturnStep ==
  ASSUME ControlOK, Return \/ Stay \/ UNCHANGED vars
  PROVE  ControlOK' /\ ParseStep
<1>1. CASE Return
  BY <1>1 DEF Return, Outcomes, ControlOK, Rests, ParseStep
<1>2. CASE UNCHANGED vars
  BY <1>2 DEF vars, ControlOK, Rests, ParseStep
<1> QED
  BY <1>1, <1>2 DEF Stay

-----------------------------------------------------------------------------
(* The theorems.                                                           *)

LEMMA InitRefines ==
  ASSUME Init
  PROVE  ControlOK /\ Relaxed!Init
<1>1. /\ Call("parseyParse") \in Instructions
      /\ Symbol(Call("parseyParse")) = "program"
  BY CallType DEF Nonterminal
<1>2. currToken \in TokenRecords
  BY ZeroTypes DEF Init
<1>3. todo \in Seq(Instructions) /\ FormOf(todo) = <<"program">>
  BY <1>1, FormOf1 DEF Init
<1>4. WordOf(eaten) = <<>> /\ eaten \in Seq(TokenRecords)
  BY DEF Init, WordOf
<1>5. outcome \in Outcomes /\ done \in BOOLEAN
  BY DEF Init, Outcomes
<1> QED
  BY <1>2, <1>3, <1>4, <1>5 DEF ControlOK, Relaxed!Init

LEMMA NextParses ==
  ASSUME ControlOK, [Next]_vars
  PROVE  ControlOK' /\ ParseStep
<1>1. CASE ParserOpen
  BY <1>1, OpenStep
<1>2. CASE ParseyParse \/ ParseBlock
  BY <1>2, ProgramSteps
<1>3. CASE ParseDecls
  BY <1>3, DeclSteps
<1>4. CASE ParseStatements
  BY <1>4, StmtSteps
<1>5. CASE ParseExpressions
  BY <1>5, ExprSteps
<1>6. CASE BuildTrees
  BY <1>6, BuildSteps
<1>7. CASE Eat
  BY <1>7, EatStep
<1>8. CASE Return \/ Stay \/ UNCHANGED vars
  BY <1>8, ReturnStep
<1> QED
  BY <1>1, <1>2, <1>3, <1>4, <1>5, <1>6, <1>7, <1>8 DEF Next, Step

LEMMA NextRefines ==
  ASSUME ControlOK, [Next]_vars
  PROVE  ControlOK' /\ [Relaxed!Next]_(Relaxed!vars)
<1>1. ControlOK' /\ ParseStep
  BY NextParses
<1>2. FormOf(todo)' = FormOf(todo') /\ WordOf(eaten)' = WordOf(eaten')
  BY DEF FormOf, WordOf
<1>3. CASE Expands
  <2>1. PICK rhs : /\ Justified(Head(FormOf(todo)), rhs, currToken.typ)
                   /\ FormOf(todo') = rhs \o Tail(FormOf(todo))
    BY <1>3 DEF Expands
  <2>2. <<Head(FormOf(todo)), rhs>> \in RelaxedRules
    BY <2>1 DEF Justified
  <2> QED
    BY <1>1, <1>2, <1>3, <2>1, <2>2 DEF Expands, Relaxed!Expand, Relaxed!Next
<1>4. CASE Builds
  <2>1. <<"act", <<>>>> \in RelaxedRules
    BY DEF RelaxedRules, DocumentedRules, ProgramRules
  <2>2. FormOf(todo) # <<>> /\ Head(FormOf(todo)) = "act" /\ FormOf(todo') = Tail(FormOf(todo))
    BY <1>4 DEF Builds
  <2>3. Tail(FormOf(todo)) = <<>> \o Tail(FormOf(todo))
    BY FormOfType DEF ControlOK
  <2> QED
    BY <1>1, <1>2, <1>4, <2>1, <2>2, <2>3 DEF Builds, Relaxed!Expand, Relaxed!Next
<1>5. CASE Matches
  <2>1. currToken.typ \in Relaxed!TokenTypes
    BY CurrTokenType DEF TokenTypes, Relaxed!TokenTypes
  <2> QED
    BY <1>1, <1>2, <1>5, <2>1 DEF Matches, Relaxed!Match, Relaxed!Next
<1>6. CASE Reports \/ Rests
  BY <1>1, <1>2, <1>6 DEF Reports, Rests, Relaxed!vars
<1> QED
  BY <1>1, <1>3, <1>4, <1>5, <1>6 DEF ParseStep

\* The rest of the computation is always made of known instructions.
THEOREM ControlInvariance == Spec => []ControlOK
<1>1. Init => ControlOK
  BY InitRefines
<1>2. ControlOK /\ [Next]_vars => ControlOK'
  BY NextRefines
<1> QED
  BY <1>1, <1>2, PTL DEF Spec

\* Whatever the tokens of the file are and however deep the program nests,
\* what the functions of parser.c eat is a leftmost derivation in the grammar
\* of the comments with an optional <rel-op>.
THEOREM ParserRefinesGrammar == Spec => RefinesRelaxedGrammar
<1>1. Init => ControlOK /\ Relaxed!Init
  BY InitRefines
<1>2. ControlOK /\ [Next]_vars => ControlOK' /\ [Relaxed!Next]_(Relaxed!vars)
  BY NextRefines
<1> QED
  BY <1>1, <1>2, PTL DEF Spec, RefinesRelaxedGrammar, Relaxed!Spec

-----------------------------------------------------------------------------
(* Derivations and the recognizer.                                         *)

\* What f can go on with, w can.
Leads(f, w) ==
  Form(f) /\ Settled(RelaxedRightSides, {f}) \subseteq FormsAfter(RelaxedRightSides, w)

\* The ways of the grammar of the comments to go on after w with c, or to end.
Ways(w, c) == {g \in FormsAfter(DocumentedRightSides, w) : g = <<>> \/ g[1] = c}

\* f goes on in all of them.
Covers(f, w, c) == Ways(w, c) \subseteq Settled(DocumentedRightSides, {f})

LEMMA RulesKnown == DocumentedRules \in GrammarRules /\ RelaxedRules \in GrammarRules
BY DEF GrammarRules

\* The forms left after one more terminal.
LEMMA AfterIs ==
  ASSUME NEW R, NEW S, NEW w \in Seq(S), NEW c \in S
  PROVE  \A x : x \in FormsAfter(R, Append(w, c))
                 <=> \E g \in FormsAfter(R, w) :
                        g # <<>> /\ g[1] = c /\ x \in Settled(R, {Tail(g)})
<1>1. PICK fs : fs = FormsAfter(R, w)
  OBVIOUS
<1>2. FormsAfter(R, Append(w, c)) = Shift(R, fs, c)
  BY <1>1, FormsAfterAppend
<1>3. \A x : x \in Shift(R, fs, c)
                <=> \E g \in fs : g # <<>> /\ g[1] = c /\ x \in Settled(R, {Tail(g)})
  BY ShiftIs
<1> QED
  BY <1>1, <1>2, <1>3

LEMMA LeadsFirst == Leads(<<"program">>, <<>>)
BY FormsAfterNothing, FormStart DEF Leads

LEMMA LeadsExpand ==
  ASSUME NEW f, NEW w, Leads(f, w), f # <<>>, Head(f) \in Nonterminals,
         NEW rhs, <<Head(f), rhs>> \in RelaxedRules
  PROVE  Leads(rhs \o Tail(f), w)
<1>1. Form(f) /\ Head(f) = f[1] /\ f[1] # "act"
  BY SymbolKinds DEF Leads, Form
<1>2. RuleFits(f[1], rhs)
  BY <1>1, RelaxedFits
<1>3. Form(rhs \o Tail(f))
  BY <1>1, <1>2, RewriteForm
<1>4. rhs \in RelaxedRightSides[f[1]]
  <2>1. \E rule \in RelaxedRules : rule[1] = f[1] /\ rule[2] = rhs
    BY <1>1
  <2> QED
    BY <1>1, <2>1, RightSidesAre, RulesKnown DEF RelaxedRightSides
<1>5. \A g \in Settled(RelaxedRightSides, {rhs \o Tail(f)}) : g \in Settled(RelaxedRightSides, {f})
  BY <1>1, <1>4, SettledOpen, RulesKnown DEF RelaxedRightSides
<1> QED
  BY <1>3, <1>5 DEF Leads

LEMMA LeadsAct ==
  ASSUME NEW f, NEW w, Leads(f, w), f # <<>>, Head(f) = "act"
  PROVE  Leads(Tail(f), w)
<1>1. Form(f) /\ f \in Seq(GrammarSymbols) /\ f[1] = "act"
  BY DEF Leads, Form
<1> QED
  BY <1>1, FormTail, SettledAct DEF Leads

LEMMA LeadsMatch ==
  ASSUME NEW f, NEW w \in Seq(TokenTypes), Leads(f, w), f # <<>>, Head(f) \in TokenTypes
  PROVE  Leads(Tail(f), Append(w, Head(f)))
<1>1. Form(f) /\ Head(f) = f[1] /\ IsSettled(f)
  BY DEF Leads, Form, IsSettled
<1>2. f \in FormsAfter(RelaxedRightSides, w)
  BY <1>1, SettledSettled DEF Leads
<1>3. \A x : x \in FormsAfter(RelaxedRightSides, Append(w, Head(f)))
                <=> \E g \in FormsAfter(RelaxedRightSides, w) :
                       g # <<>> /\ g[1] = Head(f) /\ x \in Settled(RelaxedRightSides, {Tail(g)})
  BY AfterIs
<1>4. \A x \in Settled(RelaxedRightSides, {Tail(f)}) :
        x \in FormsAfter(RelaxedRightSides, Append(w, Head(f)))
  BY <1>1, <1>2, <1>3
<1> QED
  BY <1>1, <1>4, FormTail DEF Leads

LEMMA LeadsOn ==
  ASSUME NEW f, NEW w \in Seq(TokenTypes), Leads(f, w), f # <<>>,
         Head(f) \in Committed, NEW t \in Starts(Head(f)), t \in TokenTypes
  PROVE  ViablePrefix(RelaxedRightSides, Append(w, t))
<1>1. Form(f) /\ Head(f) = f[1]
  BY DEF Leads, Form
<1>2. PICK g \in Settled(RelaxedRightSides, {f}) : g # <<>> /\ g[1] = t /\ Form(g)
  BY <1>1, StartsLead DEF CanLead
<1>3. g \in FormsAfter(RelaxedRightSides, w)
  BY <1>2 DEF Leads
<1>4. Settled(RelaxedRightSides, {Tail(g)}) # {}
  <2>1. \A h \in {Tail(g)} : Form(h)
    BY <1>2, FormTail
  <2>2. {Tail(g)} # {}
    OBVIOUS
  <2> QED
    BY <2>1, <2>2, SettledForms, RulesKnown DEF RelaxedRightSides
<1>5. PICK x : x \in Settled(RelaxedRightSides, {Tail(g)})
  BY <1>4
<1>6. x \in FormsAfter(RelaxedRightSides, Append(w, t))
         <=> \E h \in FormsAfter(RelaxedRightSides, w) :
                h # <<>> /\ h[1] = t /\ x \in Settled(RelaxedRightSides, {Tail(h)})
  BY AfterIs
<1>7. x \in FormsAfter(RelaxedRightSides, Append(w, t))
  BY <1>2, <1>3, <1>5, <1>6
<1> QED
  BY <1>7 DEF ViablePrefix

LEMMA CoversFirst ==
  ASSUME NEW c
  PROVE  Covers(<<"program">>, <<>>, c)
BY FormsAfterNothing DEF Covers, Ways

LEMMA CoversExpand ==
  ASSUME NEW f, NEW w, NEW c, Form(f), f # <<>>, Covers(f, w, c),
         NEW rhs, Justified(Head(f), rhs, c)
  PROVE  Covers(rhs \o Tail(f), w, c)
<1>1. Head(f) = f[1]
  BY DEF Form
<1>2. \A g \in Settled(DocumentedRightSides, {f}) :
        g = <<>> \/ g[1] = c => g \in Settled(DocumentedRightSides, {rhs \o Tail(f)})
  BY <1>1 DEF Justified, KeepsWays
<1> QED
  BY <1>2 DEF Covers, Ways

LEMMA CoversAct ==
  ASSUME NEW f, NEW w, NEW c, Form(f), f # <<>>, Covers(f, w, c), Head(f) = "act"
  PROVE  Covers(Tail(f), w, c)
<1>1. f \in Seq(GrammarSymbols) /\ f[1] = "act"
  BY DEF Form
<1> QED
  BY <1>1, SettledAct DEF Covers

LEMMA CoversMatch ==
  ASSUME NEW f, NEW w \in Seq(TokenTypes), NEW c \in TokenTypes, Form(f), f # <<>>,
         Covers(f, w, c), Head(f) = c, NEW d
  PROVE  Covers(Tail(f), Append(w, c), d)
<1>1. f[1] = c /\ IsSettled(f)
  BY DEF Form, IsSettled
<1>2. Settled(DocumentedRightSides, {f}) = {f}
  BY <1>1, SettledSettled
<1>4. ASSUME NEW x \in FormsAfter(DocumentedRightSides, Append(w, c))
      PROVE  x \in Settled(DocumentedRightSides, {Tail(f)})
  <2>1. PICK g \in FormsAfter(DocumentedRightSides, w) :
          g # <<>> /\ g[1] = c /\ x \in Settled(DocumentedRightSides, {Tail(g)})
    BY AfterIs
  <2>2. g = f
    BY <1>2, <2>1 DEF Covers, Ways
  <2> QED
    BY <2>1, <2>2
<1> QED
  BY <1>4 DEF Covers, Ways

LEMMA CoversNothing ==
  ASSUME NEW f, NEW w \in Seq(TokenTypes), NEW c \in TokenTypes, Form(f), f # <<>>,
         Covers(f, w, c), Head(f) # "act", c \notin Starts(Head(f))
  PROVE  /\ ~Derivable(DocumentedRightSides, w)
         /\ ~ViablePrefix(DocumentedRightSides, Append(w, c))
<1>1. Head(f) = f[1]
  BY DEF Form
<1>2. ASSUME NEW x \in FormsAfter(DocumentedRightSides, Append(w, c))
      PROVE  FALSE
  <2>1. \A y : y \in FormsAfter(DocumentedRightSides, Append(w, c))
                  <=> \E g \in FormsAfter(DocumentedRightSides, w) :
                         g # <<>> /\ g[1] = c /\ y \in Settled(DocumentedRightSides, {Tail(g)})
    BY AfterIs
  <2>2. PICK g \in FormsAfter(DocumentedRightSides, w) : g # <<>> /\ g[1] = c
    BY <2>1
  <2>3. g \in Settled(DocumentedRightSides, {f})
    BY <2>2 DEF Covers, Ways
  <2> QED
    BY <1>1, <2>2, <2>3, NoStart
<1>3. ASSUME <<>> \in FormsAfter(DocumentedRightSides, w)
      PROVE  FALSE
  <2>1. <<>> \in Settled(DocumentedRightSides, {f})
    BY <1>3 DEF Covers, Ways
  <2> QED
    BY <1>1, <2>1, SettledStarts
<1> QED
  BY <1>2, <1>3 DEF ViablePrefix, Derivable

LEMMA WordOfType ==
  ASSUME ControlOK
  PROVE  WordOf(eaten) \in Seq(TokenTypes)
<1>1. eaten \in Seq(TokenRecords) /\ Len(eaten) \in Nat
  BY DEF ControlOK
<1>2. \A k \in 1 .. Len(eaten) : eaten[k] \in TokenRecords
  BY <1>1
<1>3. \A t \in TokenRecords : t.typ \in TokenTypes
  BY DEF TokenRecords
<1> QED
  BY <1>1, <1>2, <1>3 DEF WordOf

-----------------------------------------------------------------------------
(* What the parser rejects.                                                *)

\* What the parser has yet to derive is one of the ways its tokens can go on,
\* and every such way of the grammar of the comments is still open.
DerivationInv ==
  /\ Leads(FormOf(todo), WordOf(eaten))
  /\ outcome.kind = "not_open" => FormOf(todo) = <<"program">> /\ WordOf(eaten) = <<>>
  /\ outcome.kind \in {"running", "parsed"}
       => Covers(FormOf(todo), WordOf(eaten), currToken.typ)
  /\ RejectsOnlyNonSentences
  /\ ExpectedTokensFit
  /\ outcome.kind # "syntax_error" => outcome.expected = {}

LEMMA DerivationInit ==
  ASSUME Init
  PROVE  DerivationInv
<1>1. FormOf(todo) = <<"program">>
  BY CallType, FormOf1 DEF Nonterminal, Init
<1>2. WordOf(eaten) = <<>>
  BY DEF Init, WordOf
<1> QED
  BY <1>1, <1>2, LeadsFirst
  DEF Init, DerivationInv, RejectsOnlyNonSentences, ExpectedTokensFit

LEMMA DerivationNext ==
  ASSUME ControlOK, DerivationInv, [Next]_vars
  PROVE  DerivationInv'
<1>0. ControlOK' /\ ParseStep
  BY NextParses
<1>1. /\ WordOf(eaten) \in Seq(TokenTypes) /\ currToken.typ \in TokenTypes
      /\ outcome' \in Outcomes
  BY <1>0, WordOfType, CurrTokenType DEF ControlOK
<1>2. FormOf(todo)' = FormOf(todo') /\ WordOf(eaten)' = WordOf(eaten')
  BY DEF FormOf, WordOf
<1>3. Form(FormOf(todo))
  BY DEF DerivationInv, Leads
<1>4. CASE Expands
  <2>1. /\ outcome.kind = "running" /\ outcome.expected = {} /\ outcome' = outcome
        /\ eaten' = eaten /\ currToken' = currToken /\ FormOf(todo) # <<>>
    BY <1>4 DEF Expands, Running
  <2>2. PICK rhs : /\ Justified(Head(FormOf(todo)), rhs, currToken.typ)
                   /\ FormOf(todo') = rhs \o Tail(FormOf(todo))
    BY <1>4 DEF Expands
  <2>3. Leads(FormOf(todo'), WordOf(eaten'))
    BY <2>1, <2>2, LeadsExpand DEF DerivationInv, Justified
  <2>4. Covers(FormOf(todo'), WordOf(eaten'), currToken'.typ)
    BY <1>3, <2>1, <2>2, CoversExpand DEF DerivationInv
  <2> QED
    BY <1>2, <2>1, <2>3, <2>4 DEF DerivationInv, RejectsOnlyNonSentences, ExpectedTokensFit
<1>5. CASE Builds
  <2>1. /\ outcome.kind = "running" /\ outcome.expected = {} /\ outcome' = outcome
        /\ eaten' = eaten /\ currToken' = currToken /\ FormOf(todo) # <<>>
        /\ Head(FormOf(todo)) = "act" /\ FormOf(todo') = Tail(FormOf(todo))
    BY <1>5 DEF Builds, Running
  <2>2. Leads(FormOf(todo'), WordOf(eaten'))
    BY <2>1, LeadsAct DEF DerivationInv
  <2>3. Covers(FormOf(todo'), WordOf(eaten'), currToken'.typ)
    BY <1>3, <2>1, CoversAct DEF DerivationInv
  <2> QED
    BY <1>2, <2>1, <2>2, <2>3 DEF DerivationInv, RejectsOnlyNonSentences, ExpectedTokensFit
<1>6. CASE Matches
  <2>1. /\ outcome.kind = "running" /\ FormOf(todo) # <<>>
        /\ Head(FormOf(todo)) = currToken.typ /\ FormOf(todo') = Tail(FormOf(todo))
        /\ WordOf(eaten') = Append(WordOf(eaten), currToken.typ)
        /\ outcome'.kind \in {"running", "lexical_error", "bail", "abort"} /\ outcome'.expected = {}
    BY <1>6 DEF Matches, Running
  <2>2. Leads(FormOf(todo'), WordOf(eaten'))
    BY <1>1, <2>1, LeadsMatch DEF DerivationInv
  <2>3. Covers(FormOf(todo'), WordOf(eaten'), currToken'.typ)
    BY <1>1, <1>3, <2>1, CoversMatch DEF DerivationInv
  <2> QED
    BY <1>2, <2>1, <2>2, <2>3 DEF DerivationInv, RejectsOnlyNonSentences, ExpectedTokensFit
<1>7. CASE Reports
  <2>1. /\ outcome.kind = "running" /\ outcome'.kind = "syntax_error" /\ FormOf(todo) # <<>>
        /\ Head(FormOf(todo)) \in Committed
        /\ currToken.typ \notin Starts(Head(FormOf(todo)))
        /\ outcome'.expected \subseteq Starts(Head(FormOf(todo)))
        /\ currToken' = currToken /\ eaten' = eaten /\ todo' = todo
    BY <1>7 DEF Reports, Running
  <2>2. Head(FormOf(todo)) # "act"
    BY <2>1 DEF Committed, TokenTypes
  <2>3. /\ ~Derivable(DocumentedRightSides, WordOf(eaten))
        /\ ~ViablePrefix(DocumentedRightSides, Append(WordOf(eaten), currToken.typ))
    BY <1>1, <1>3, <2>1, <2>2, CoversNothing DEF DerivationInv
  <2>4. \A t \in outcome'.expected : ViablePrefix(RelaxedRightSides, Append(WordOf(eaten), t))
    <3> TAKE t \in outcome'.expected
    <3>1. t \in TokenTypes
      BY <1>1 DEF Outcomes
    <3> QED
      BY <1>1, <2>1, <3>1, LeadsOn DEF DerivationInv
  <2> QED
    BY <1>2, <2>1, <2>3, <2>4 DEF DerivationInv, RejectsOnlyNonSentences, ExpectedTokensFit
<1>8. CASE Rests
  <2>1. eaten' = eaten /\ todo' = todo
    BY <1>8 DEF Rests
  <2>2. CASE outcome' = outcome /\ UNCHANGED currToken
    BY <1>2, <2>1, <2>2 DEF DerivationInv, RejectsOnlyNonSentences, ExpectedTokensFit
  <2>3. CASE outcome.kind = "not_open" /\ outcome' = Running
    <3>1. Covers(FormOf(todo), WordOf(eaten), currToken'.typ)
      BY <2>3, CoversFirst DEF DerivationInv
    <3> QED
      BY <1>2, <2>1, <2>3, <3>1
      DEF DerivationInv, RejectsOnlyNonSentences, ExpectedTokensFit, Running
  <2>4. CASE outcome'.kind \in {"lexical_error", "bail", "abort"} /\ outcome'.expected = {}
    BY <1>2, <2>1, <2>4 DEF DerivationInv, RejectsOnlyNonSentences, ExpectedTokensFit
  <2>5. CASE /\ outcome = Running /\ outcome' = [kind |-> "parsed", expected |-> {}]
             /\ UNCHANGED currToken
    BY <1>2, <2>1, <2>5
    DEF DerivationInv, RejectsOnlyNonSentences, ExpectedTokensFit, Running
  <2> QED
    BY <1>8, <2>2, <2>3, <2>4, <2>5 DEF Rests
<1> QED
  BY <1>0, <1>4, <1>5, <1>6, <1>7, <1>8 DEF ParseStep

THEOREM DerivationInvariance == Spec => [](ControlOK /\ DerivationInv)
<1>1. Init => ControlOK /\ DerivationInv
  BY InitRefines, DerivationInit
<1>2. ControlOK /\ DerivationInv /\ [Next]_vars => (ControlOK /\ DerivationInv)'
  BY NextParses, DerivationNext
<1> QED
  BY <1>1, <1>2, PTL DEF Spec

\* No legal program is rejected, however long it is and whatever its tokens:
\* when parser.c reports a token, no program of the grammar of its comments
\* begins with the tokens before it and that one.
THEOREM LegalProgramsAreAccepted == Spec => []RejectsOnlyNonSentences
<1>1. DerivationInv => RejectsOnlyNonSentences
  BY DEF DerivationInv
<1> QED
  BY <1>1, DerivationInvariance, PTL

\* Each token type that a syntax error of parser.c lists as expected could
\* follow the tokens read so far in some program.
THEOREM ErrorMessagesAreTrue == Spec => []ExpectedTokensFit
<1>1. DerivationInv => ExpectedTokensFit
  BY DEF DerivationInv
<1> QED
  BY <1>1, DerivationInvariance, PTL
-----------------------------------------------------------------------------
(* Reading a known word.  The first tokens of the file have the types of T,*)
(* and anything may follow them.                                           *)

\* The next token is that of the file.
ReadsFrom(T) == currToken'.loc \in 1 .. Len(T) => currToken'.typ = T[currToken'.loc]

\* What is eaten is the beginning of T and the token at hand is the next one.
Follows(T) ==
  /\ Len(eaten) <= Len(T)
  /\ \A k \in 1 .. Len(eaten) : eaten[k].typ = T[k]
  /\ outcome.kind = "not_open" => eaten = <<>> /\ currToken.loc = 0
  /\ outcome.kind \in {"running", "syntax_error"} =>
       /\ currToken.loc = Len(eaten) + 1
       /\ done <=> currToken.typ = "eofsym"
       /\ Len(eaten) < Len(T) => currToken.typ = T[Len(eaten) + 1]

LEMMA LexerFollows ==
  ASSUME NEW T, NEW n \in Nat, lexer_next(n), outcome'.kind \in {"running", "syntax_error"},
         currToken.loc # n, currToken' # currToken => ReadsFrom(T)
  PROVE  /\ currToken'.loc = n
         /\ done' <=> currToken'.typ = "eofsym"
         /\ n \in 1 .. Len(T) => currToken'.typ = T[n]
<1>1. /\ currToken'.loc = n
      /\ done' = (currToken'.typ = "eofsym")
  BY DEF lexer_next, Token, EofToken
<1>2. currToken' # currToken
  BY <1>1
<1> QED
  BY <1>1, <1>2 DEF ReadsFrom

\* The parser matches no more tokens than the program has.
LEMMA FollowsEnds ==
  ASSUME NEW T, T \in Seq(TokenTypes \cup {"gap"}), ControlOK, DerivationInv, Follows(T),
         Derivable(DocumentedRightSides, T), Matches
  PROVE  Len(eaten) < Len(T)
<1>1. Len(eaten) \in Nat /\ Len(T) \in Nat /\ Len(eaten) <= Len(T)
  BY DEF ControlOK, Follows
<1> SUFFICES ASSUME Len(eaten) = Len(T) PROVE FALSE
  BY <1>1
<1>2. WordOf(eaten) = T
  <2>1. /\ WordOf(eaten) \in Seq(TokenTypes) /\ Len(WordOf(eaten)) = Len(eaten)
        /\ \A k \in 1 .. Len(eaten) : WordOf(eaten)[k] = eaten[k].typ
    BY WordOfType DEF WordOf, ControlOK
  <2> QED
    BY <1>1, <2>1 DEF Follows
<1> DEFINE f == FormOf(todo)
<1>3. Form(f) /\ Covers(f, WordOf(eaten), currToken.typ)
  BY DEF DerivationInv, Leads, Matches, Running
<1>4. /\ f # <<>> /\ f[1] = currToken.typ /\ currToken.typ \in TokenTypes
  BY <1>3, CurrTokenType DEF Matches, Form
<1> HIDE DEF f
<1>5. Settled(DocumentedRightSides, {f}) = {f}
  BY <1>3, <1>4, SettledSettled DEF IsSettled, Form
<1>6. <<>> \in FormsAfter(DocumentedRightSides, WordOf(eaten))
  BY <1>2 DEF Derivable
<1>7. <<>> \in Settled(DocumentedRightSides, {f})
  BY <1>3, <1>6 DEF Covers, Ways
<1> QED
  BY <1>4, <1>5, <1>7

LEMMA FollowsNext ==
  ASSUME NEW T, T \in Seq(TokenTypes \cup {"gap"}), Derivable(DocumentedRightSides, T),
         ControlOK, DerivationInv, [Next]_vars, Follows(T),
         currToken' # currToken => ReadsFrom(T)
  PROVE  Follows(T)'
<1>0. ControlOK' /\ ParseStep
  BY NextParses
<1>1. Len(eaten) \in Nat /\ Len(T) \in Nat
  BY DEF ControlOK
<1>2. CASE Expands \/ Builds
  BY <1>2 DEF Expands, Builds, Follows
<1>3. CASE Matches
  <2>1. /\ outcome.kind = "running" /\ advance /\ eaten' = Append(eaten, currToken)
        /\ outcome'.kind \in {"running", "lexical_error", "bail", "abort"}
        /\ currToken.typ # "eofsym"
    BY <1>3 DEF Matches, Running
  <2>2. /\ currToken.loc = Len(eaten) + 1 /\ ~done
        /\ Len(eaten) + 1 \in 1 .. Len(T) /\ currToken.typ = T[Len(eaten) + 1]
    BY <1>1, <1>3, <2>1, FollowsEnds DEF Follows
  <2>3. /\ Len(eaten') = Len(eaten) + 1 /\ eaten'[Len(eaten) + 1] = currToken
        /\ \A k \in 1 .. Len(eaten) : eaten'[k] = eaten[k]
    BY <2>1 DEF ControlOK
  <2>4. \A k \in 1 .. Len(eaten') : eaten'[k].typ = T[k]
    <3> TAKE k \in 1 .. Len(eaten')
    <3>1. k \in 1 .. Len(eaten) \/ k = Len(eaten) + 1
      BY <1>1, <2>3
    <3> QED
      BY <2>2, <2>3, <3>1 DEF Follows
  <2>5. ASSUME outcome'.kind \in {"running", "syntax_error"}
        PROVE  /\ currToken'.loc = Len(eaten') + 1
               /\ done' <=> currToken'.typ = "eofsym"
               /\ Len(eaten') < Len(T) => currToken'.typ = T[Len(eaten') + 1]
    <3>1. lexer_next(Len(eaten) + 2) /\ Len(eaten) + 2 \in Nat /\ currToken.loc # Len(eaten) + 2
      BY <1>1, <2>1, <2>2 DEF advance
    <3>2. Len(eaten') + 1 = Len(eaten) + 2
      BY <1>1, <2>3
    <3>3. /\ currToken'.loc = Len(eaten) + 2
          /\ done' <=> currToken'.typ = "eofsym"
          /\ Len(eaten) + 2 \in 1 .. Len(T) => currToken'.typ = T[Len(eaten) + 2]
      BY <2>5, <3>1, LexerFollows
    <3> QED
      BY <1>1, <2>3, <3>2, <3>3
  <2>6. Len(eaten') <= Len(T)
    BY <1>1, <2>2, <2>3
  <2> QED
    BY <2>1, <2>4, <2>5, <2>6 DEF Follows
<1>4. CASE Reports
  BY <1>4 DEF Reports, Follows, Running
<1>5. CASE Rests
  <2>1. eaten' = eaten
    BY <1>5 DEF Rests
  <2>2. CASE outcome' = outcome /\ UNCHANGED <<currToken, done>>
    BY <2>1, <2>2 DEF Follows
  <2>3. CASE outcome.kind = "not_open" /\ outcome' = Running /\ lexer_next(1)
    <3>1. eaten = <<>> /\ currToken.loc = 0 /\ Len(eaten) + 1 = 1
      BY <2>3 DEF Follows
    <3>2. outcome'.kind = "running"
      BY <2>3 DEF Running
    <3>3. /\ currToken'.loc = 1
          /\ done' <=> currToken'.typ = "eofsym"
          /\ 1 \in 1 .. Len(T) => currToken'.typ = T[1]
      BY <2>3, <3>1, <3>2, LexerFollows
    <3> QED
      BY <1>1, <2>1, <3>1, <3>2, <3>3 DEF Follows
  <2>4. CASE outcome'.kind \in {"lexical_error", "bail", "abort", "parsed"}
    BY <2>1, <2>4 DEF Follows
  <2> QED
    BY <1>5, <2>2, <2>3, <2>4 DEF Rests
<1> QED
  BY <1>0, <1>2, <1>3, <1>4, <1>5 DEF ParseStep

\* A file whose tokens are a program is not rejected.
LEMMA FollowsProgram ==
  ASSUME NEW T, T \in Seq(TokenTypes \cup {"gap"}), ControlOK, DerivationInv, Follows(T),
         Derivable(DocumentedRightSides, T)
  PROVE  outcome.kind # "syntax_error"
<1> SUFFICES ASSUME outcome.kind = "syntax_error" PROVE FALSE
  OBVIOUS
<1> DEFINE w == WordOf(eaten)
           c == currToken.typ
<1>1. /\ ~Derivable(DocumentedRightSides, w)
      /\ ~ViablePrefix(DocumentedRightSides, Append(w, c))
  BY DEF DerivationInv, RejectsOnlyNonSentences
<1>2. /\ w \in Seq(TokenTypes) /\ c \in TokenTypes /\ Len(w) = Len(eaten)
      /\ \A k \in 1 .. Len(w) : w[k] = eaten[k].typ
  BY WordOfType, CurrTokenType DEF WordOf, ControlOK
<1>3. /\ Len(w) <= Len(T) /\ \A k \in 1 .. Len(w) : w[k] = T[k]
      /\ Len(w) < Len(T) => c = T[Len(w) + 1]
  BY <1>2 DEF Follows
<1> HIDE DEF w, c
<1>4. Len(T) \in Nat /\ Len(w) \in Nat
  BY <1>2
<1>5. CASE Len(w) = Len(T)
  <2>1. w = T
    BY <1>2, <1>3, <1>5
  <2> QED
    BY <1>1, <2>1
<1>6. CASE Len(w) < Len(T)
  <2>1. PICK u : u = Append(w, c)
    OBVIOUS
  <2>2. /\ Len(u) = Len(w) + 1 /\ u[Len(w) + 1] = c
        /\ \A k \in 1 .. Len(w) : u[k] = w[k]
    BY <1>2, <2>1
  <2>3. Len(w) + 1 \in 1 .. Len(T) /\ c = T[Len(w) + 1]
    BY <1>3, <1>4, <1>6
  <2>4. \A k \in 1 .. Len(u) : u[k] = T[k]
    BY <1>3, <1>4, <2>2, <2>3
  <2>5. ViablePrefix(DocumentedRightSides, T)
    BY DEF Derivable, ViablePrefix
  <2>6. Len(u) \in Nat /\ Len(u) <= Len(T)
    BY <1>4, <2>2, <2>3
  <2>7. ViablePrefix(DocumentedRightSides, u)
    BY <1>4, <2>4, <2>5, <2>6, BeginningsGoOn
  <2> QED
    BY <1>1, <2>1, <2>7
<1> QED
  BY <1>3, <1>4, <1>5, <1>6
=============================================================================
