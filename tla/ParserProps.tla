---------------------------- MODULE ParserProps ----------------------------
(***************************************************************************)
(* What the parser of Parser.tla must guarantee.                           *)
(***************************************************************************)
EXTENDS Parser, Grammar, FiniteSets

TreeSteps == {"make", "makeProgram", "startList", "add_AST_to_end", "dropLast",
              "binExpr", "relocate"}

\* The symbol of the grammar that each C function, or piece of one, derives.
Nonterminal ==
  [parseyParse |-> "program", parseBlock |-> "block",
   parseConstDecls |-> "const-decls", constDeclsLoop |-> "more-const-decls",
   parseConstDecl |-> "const-decl", constDeclLoop |-> "comma-const-defs",
   parseConstIdent |-> "const-def", nextConstIdent |-> "const-def",
   constNumber |-> "const-number",
   parseVarDecls |-> "var-decls", varDeclsLoop |-> "more-var-decls",
   parseVarDecl |-> "var-decl", varDeclLoop |-> "comma-idents",
   parseVarIdent |-> "var-ident",
   parseStmts |-> "stmts", parseStmt |-> "stmt",
   parseAssignStmt |-> "assign-stmt", parseBeginStmt |-> "begin-stmt",
   parseStmtList |-> "stmt-list", stmtListLoop |-> "semi-stmts",
   parseIfStmt |-> "if-stmt", parseWhileStmt |-> "while-stmt",
   parseReadStmt |-> "read-stmt", readIdent |-> "read-ident",
   parseWriteStmt |-> "write-stmt", parseSkipStmt |-> "skip-stmt",
   parseCondition |-> "condition", which_one |-> "rel-op-expr",
   parseExpr |-> "expr", exprLoop |-> "add-sub-terms",
   parseTerm |-> "term", termLoop |-> "mult-div-factors",
   parseMultDivFactor |-> "mult-div-factor", parseAddSubTerm |-> "add-sub-term",
   parseFactor |-> "factor", parseIdentExpr |-> "ident-expr",
   parseParenExpr |-> "paren-expr", parseOpExpr |-> "signed-number",
   parseNumber |-> "number", signedValue |-> "unsigned-number"]

\* The end of the file is never eaten.
InstructionNames == (TokenTypes \ {"eofsym"}) \cup TreeSteps \cup DOMAIN Nonterminal

Symbol(i) == IF i.do \in TokenTypes THEN i.do
             ELSE IF i.do \in TreeSteps THEN "act"
             ELSE Nonterminal[i.do]

\* What the parser has yet to derive, and what it has derived.
FormOf(s) == [k \in 1 .. Len(s) |-> Symbol(s[k])]
WordOf(toks) == [k \in 1 .. Len(toks) |-> toks[k].typ]

-----------------------------------------------------------------------------
\* parseOpExpr is called on a sign only: its error cannot happen.
Instructions ==
  {i \in [do : InstructionNames, tok : TokenRecords, node : Nodes] :
     i.do = "parseOpExpr" => i.tok.typ \in SignSyms}

Outcomes == [kind : {"not_open", "running", "parsed", "syntax_error",
                     "lexical_error", "bail", "abort"},
             expected : SUBSET TokenTypes]

\* The control state is typed: the computation left is made of known
\* instructions, whatever the tokens were.
ControlOK ==
  /\ currToken \in TokenRecords
  /\ done \in BOOLEAN
  /\ eaten \in Seq(TokenRecords)
  /\ todo \in Seq(Instructions)
  /\ outcome \in Outcomes

\* The type invariant.
TypeOK ==
  /\ ControlOK
  /\ heap \in Seq(Nodes)
  /\ vals \in Seq(0 .. Len(heap))

-----------------------------------------------------------------------------
(* The language.                                                           *)

Documented == INSTANCE Derivation WITH
  form <- FormOf(todo), word <- WordOf(eaten), Rules <- DocumentedRules
Relaxed == INSTANCE Derivation WITH
  form <- FormOf(todo), word <- WordOf(eaten), Rules <- RelaxedRules

\* Every computation of the parser is a leftmost derivation of the tokens it
\* eats, in the grammar whose relational operator is optional: recursive
\* descent neither skips, repeats nor reorders a part of a production.
RefinesRelaxedGrammar == Relaxed!Spec

\* The same for the grammar of the comments, where <rel-op> is mandatory
\* (parser.c:645-646).
RefinesDocumentedGrammar == Documented!Spec

\* A syntax error is reported only when the tokens before the one it reports
\* are no program of the grammar of the comments and that token cannot continue
\* one: no legal program is rejected, whatever comes after it, and no error is
\* reported before the first token that is wrong.
RejectsOnlyNonSentences ==
  outcome.kind = "syntax_error" =>
    /\ ~Derivable(DocumentedRightSides, WordOf(eaten))
    /\ ~ViablePrefix(DocumentedRightSides, Append(WordOf(eaten), currToken.typ))

\* Every token that an error message says was expected could stand there.
ExpectedTokensFit ==
  \A t \in outcome.expected : ViablePrefix(RelaxedRightSides, Append(WordOf(eaten), t))

-----------------------------------------------------------------------------
(* The tree.                                                               *)

Parsed == outcome.kind = "parsed"
Root == vals[1]

\* The pointers a node holds: its kids and the next node of its list.
Pointers(p) == {k \in 1 .. Len(heap[p].kids) : heap[p].kids[k] # NULL}
Refs(p) == {<<p, k>> : k \in Pointers(p)}
             \cup (IF heap[p].next = NULL THEN {} ELSE {<<p, 0>>})
Target(ref) == IF ref[2] = 0 THEN heap[ref[1]].next
               ELSE heap[ref[1]].kids[ref[2]]

Kept == {p \in 1 .. Len(heap) : heap[p].tag # "unset"}

\* The finished program is one tree that holds everything that was parsed:
\* each node, but the temporaries of ast_op_expr, hangs from exactly one
\* pointer of another, and no such temporary hangs from any.
TreeIsComplete ==
  Parsed =>
    LET refs == UNION {Refs(p) : p \in Kept}
    IN  /\ Len(vals) = 1
        /\ heap[Root].tag = "program_ast"
        /\ {Target(r) : r \in refs} = Kept \ {Root}
        /\ Cardinality(refs) = Cardinality(Kept) - 1

\* A list never loses its rest: once a node has a successor it keeps it, and
\* a node never becomes another kind of node.
ListsOnlyGrow ==
  [][\A p \in 1 .. Len(heap) :
       /\ heap'[p].tag = heap[p].tag
       /\ heap[p].next # NULL => heap'[p].next = heap[p].next]_vars

\* What ast_list_splice requires of its caller (ast.c:246): the list is not
\* empty and its node is the last one, so that the splice drops no rest.
SplicesAreLegal ==
  At("add_AST_to_end") /\ ~ast_list_is_empty(Val(3)) =>
    ~ast_list_is_empty(Val(2)) /\ ast_list_is_empty(ast_list_rest(heap, Val(2)))

\* Each pointer of the finished program points to what unparser.c and
\* scope_check.c expect there, so that their "unexpected type_tag" bail outs
\* cannot happen.
NodesFitTheirSlots ==
  Parsed => heap[Root].tag = "program_ast" /\ WellFormed(heap)

-----------------------------------------------------------------------------
(* The tree and the text.  Typ(k) is the type of the k-th token.           *)

Typ(k) == IF k \in DOMAIN eaten THEN eaten[k].typ ELSE "eofsym"

EndsOperand(k) == Typ(k) \in {"identsym", "numbersym", "rparensym"}
StartsOperand(k) == Typ(k) \in {"identsym", "numbersym", "lparensym"}
IsUnary(k) == Typ(k) \in SignSyms /\ ~EndsOperand(k - 1)

\* The tokens that leave no trace in the tree.
Punctuation(k) ==
  \/ Typ(k) \in {"constsym", "varsym", "commasym", "semisym", "lparensym",
                 "rparensym"}
  \/ IsUnary(k)

\* The tokens a statement is located at.
StartsStatement(k) ==
  \/ Typ(k) \in {"beginsym", "ifsym", "whilesym", "readsym", "writesym",
                 "skipsym"}
  \/ Typ(k) = "identsym" /\ Typ(k + 1) = "becomessym"

Item(typ, text, num, loc) == [typ |-> typ, text |-> text, num |-> num, loc |-> loc]
Mark(typ) == <<Item(typ, NoText, 0, 0)>>
MarkAt(typ, loc) == <<Item(typ, NoText, 0, loc)>>

\* The program as its text tells it.
Text ==
  LET kept == SelectSeq([k \in DOMAIN eaten |-> k], LAMBDA k : ~Punctuation(k))
  IN  [n \in DOMAIN kept |->
         LET k == kept[n]
         IN  Item(Typ(k), eaten[k].text, eaten[k].value,
                  IF StartsStatement(k) THEN k ELSE 0)]

SymOf ==
  [addop |-> "plussym", subop |-> "minussym", multop |-> "multsym",
   divop |-> "divsym", eqop |-> "eqsym", neqop |-> "neqsym",
   ltop |-> "lessym", leqop |-> "leqsym", gtop |-> "gtrsym", geqop |-> "geqsym"]

Abs(n) == IF n < 0 THEN -n ELSE n

\* The program as its tree tells it, read in the order of the unparser.
\* yield[FALSE, p] is that of node p and yield[TRUE, p] that of the list p.
Yield ==
  LET yield[isList \in BOOLEAN, p \in 0 .. Len(heap)] ==
        LET n == heap[p]
            Kid(k) == yield[FALSE, n.kids[k]]
            Kids(k) == yield[TRUE, n.kids[k]]
            Ident(loc) == <<Item("identsym", n.name, 0, loc)>>
            Num == <<Item("numbersym", "digits", Abs(n.num), 0)>>
        IN  CASE p = NULL -> <<>>
              [] isList -> yield[FALSE, p] \o yield[TRUE, n.next]
              [] n.tag = "program_ast" -> Kids(1) \o Kids(2) \o Kid(3) \o Mark("periodsym")
              [] n.tag = "const_decl_ast" -> Ident(0) \o Mark("eqsym") \o Num
              [] n.tag = "var_decl_ast" -> Ident(0)
              [] n.tag = "assign_ast" -> Ident(n.loc) \o Mark("becomessym") \o Kid(1)
              [] n.tag = "begin_ast" -> MarkAt("beginsym", n.loc) \o Kids(1) \o Mark("endsym")
              [] n.tag = "if_ast" -> MarkAt("ifsym", n.loc) \o Kid(1) \o Mark("thensym")
                                       \o Kid(2) \o Mark("elsesym") \o Kid(3)
              [] n.tag = "while_ast" -> MarkAt("whilesym", n.loc) \o Kid(1) \o Mark("dosym") \o Kid(2)
              [] n.tag = "read_ast" -> MarkAt("readsym", n.loc) \o Ident(0)
              [] n.tag = "write_ast" -> MarkAt("writesym", n.loc) \o Kid(1)
              [] n.tag = "skip_ast" -> MarkAt("skipsym", n.loc)
              [] n.tag = "odd_cond_ast" -> Mark("oddsym") \o Kid(1)
              [] n.tag \in {"bin_cond_ast", "bin_expr_ast"} -> Kid(1) \o Mark(SymOf[n.op]) \o Kid(2)
              [] n.tag = "ident_ast" -> Ident(0)
              [] n.tag = "number_ast" -> Num
  IN  yield[FALSE, Root]

\* The tree of a legal program says exactly what its text says: every
\* declaration, statement, condition, operator, name and number once, in the
\* order of the text, nested as in the text, each statement located at its
\* own first token.
TreeSaysWhatTextSays ==
  Parsed /\ Derivable(DocumentedRightSides, WordOf(eaten)) => Yield = Text

-----------------------------------------------------------------------------
(* Expressions.                                                            *)

\* The first token of the statement of the program.
StmtStart ==
  CHOOSE k \in 1 .. Len(eaten) :
    /\ k = 1 \/ Typ(k - 1) = "semisym"
    /\ Typ(k) \notin {"constsym", "varsym"}
    /\ \A j \in 1 .. k - 1 : j = 1 \/ Typ(j - 1) = "semisym" => Typ(j) \in {"constsym", "varsym"}

InExpr(k) ==
  /\ k >= StmtStart
  /\ \/ Typ(k) \in {"numbersym", "lparensym", "rparensym"} \cup SignSyms \cup MultDivSyms
     \/ Typ(k) = "identsym" /\ Typ(k - 1) # "readsym" /\ Typ(k + 1) # "becomessym"

\* Two expressions touch where a relational operator is missing.
Touch(k) == EndsOperand(k - 1) /\ StartsOperand(k)

\* The expressions of the text, as pairs of their first and last tokens.
ExprSegments ==
  {s \in (1 .. Len(eaten)) \X (1 .. Len(eaten)) :
     /\ s[1] <= s[2]
     /\ \A k \in s[1] .. s[2] : InExpr(k)
     /\ \A k \in s[1] + 1 .. s[2] : ~Touch(k)
     /\ ~InExpr(s[1] - 1) \/ Touch(s[1])
     /\ ~InExpr(s[2] + 1) \/ Touch(s[2] + 1)}

\* What the tokens first .. last mean: the last addition or subtraction that
\* is not inside parentheses is done last, then the last such multiplication
\* or division.  A located tree is <<location, kind, ...>>.
Meaning ==
  LET meaning[i, j \in 1 .. Len(eaten)] ==
        LET Open(k) == Cardinality({m \in i .. k : Typ(m) = "lparensym"})
            Closed(k) == Cardinality({m \in i .. k : Typ(m) = "rparensym"})
            Last(syms) == {k \in i + 1 .. j : /\ Typ(k) \in syms
                                              /\ EndsOperand(k - 1)
                                              /\ Open(k) = Closed(k)}
            Split(k, op) == <<i, op, meaning[i, k - 1], meaning[k + 1, j]>>
            latest(ks) == CHOOSE k \in ks : \A m \in ks : m <= k
        IN  CASE Last(SignSyms) # {} ->
                   LET k == latest(Last(SignSyms))
                   IN  Split(k, IF Typ(k) = "plussym" THEN "addop" ELSE "subop")
              [] Last(SignSyms) = {} /\ Last(MultDivSyms) # {} ->
                   LET k == latest(Last(MultDivSyms))
                   IN  Split(k, IF Typ(k) = "multsym" THEN "multop" ELSE "divop")
              [] Last(SignSyms \cup MultDivSyms) = {} ->
                   CASE Typ(i) = "lparensym" -> [meaning[i + 1, j - 1] EXCEPT ![1] = i]
                     [] Typ(i) = "identsym" -> <<i, "ident", eaten[i].text>>
                     [] Typ(i) = "minussym" -> <<i, "number", -eaten[j].value>>
                     [] OTHER -> <<i, "number", eaten[j].value>>
  IN  meaning

LocatedTree ==
  LET tree[p \in 1 .. Len(heap)] ==
        LET n == heap[p]
        IN  CASE n.tag = "ident_ast" -> <<n.loc, "ident", n.name>>
              [] n.tag = "number_ast" -> <<n.loc, "number", n.num>>
              [] n.tag = "bin_expr_ast" -> <<n.loc, n.op, tree[n.kids[1]], tree[n.kids[2]]>>
  IN  tree

ExprRoots ==
  UNION {{n.kids[k] : k \in DOMAIN n.kids} :
           n \in {heap[p] : p \in {q \in Kept : heap[q].tag \in
                    {"assign_ast", "write_ast"} \cup CondTags}}}

\* Expressions are grouped by precedence and to the left whatever their
\* parentheses and signs, and each one, parenthesized or not, is located at
\* its first token.
ExpressionsMeanWhatTextMeans ==
  Parsed => {LocatedTree[p] : p \in ExprRoots} = {Meaning[s[1], s[2]] : s \in ExprSegments}

-----------------------------------------------------------------------------
\* The parser ends on every file: with a tree or with an error.
Terminates == <>Ended

\* A declaration is located at its identifier (id_attrs.h:12, ast.h:165) or
\* at the keyword that introduces it, never at another declaration's.
DeclarationsHaveTheirOwnLocation ==
  Parsed => \A p, q \in Kept :
              heap[p].tag \in ListTags /\ heap[q].tag \in ListTags
                /\ heap[p].loc = heap[q].loc => p = q
=============================================================================
