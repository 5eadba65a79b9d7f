--------------------------- MODULE UnparserProofs ---------------------------
(***************************************************************************)
(* Proofs about the unparser, for every well-formed tree: no function is   *)
(* called with a node it does not expect, the only internal error is that  *)
(* of an operator that is none, and no two words are printed that the      *)
(* lexer would read as one.                                                *)
(***************************************************************************)
EXTENDS UnparserProps, GrammarProofs

-----------------------------------------------------------------------------
(* Sequences in which what an element of E is followed by is not in S.     *)

Apart(s, E, S) == \A k \in 1 .. Len(s) - 1 : s[k] \in E => s[k + 1] \notin S

Joins(s, t, E, S) == s # <<>> /\ t # <<>> /\ s[Len(s)] \in E => t[1] \notin S

LEMMA ApartConcat ==
  ASSUME NEW T, NEW s \in Seq(T), NEW t \in Seq(T), NEW E, NEW S,
         Apart(s, E, S), Apart(t, E, S), Joins(s, t, E, S)
  PROVE  Apart(s \o t, E, S)
<1> SUFFICES ASSUME NEW k \in 1 .. Len(s \o t) - 1, (s \o t)[k] \in E
             PROVE  (s \o t)[k + 1] \notin S
  BY DEF Apart
<1>1. CASE k < Len(s)
  BY <1>1 DEF Apart
<1>2. CASE k = Len(s)
  BY <1>2 DEF Joins
<1>3. CASE k > Len(s)
  <2> DEFINE j == k - Len(s)
  <2>1. j \in 1 .. Len(t) - 1 /\ (s \o t)[k] = t[j] /\ (s \o t)[k + 1] = t[j + 1]
    BY <1>3
  <2> QED
    BY <2>1 DEF Apart
<1> QED
  BY <1>1, <1>2, <1>3

LEMMA ApartTail ==
  ASSUME NEW T, NEW s \in Seq(T), s # <<>>, NEW E, NEW S, Apart(s, E, S)
  PROVE  /\ Apart(Tail(s), E, S)
         /\ Tail(s) # <<>> /\ s[1] \in E => Tail(s)[1] \notin S
<1>1. Apart(Tail(s), E, S)
  <2> SUFFICES ASSUME NEW k \in 1 .. Len(Tail(s)) - 1, Tail(s)[k] \in E
               PROVE  Tail(s)[k + 1] \notin S
    BY DEF Apart
  <2>1. k + 1 \in 1 .. Len(s) - 1 /\ Tail(s)[k] = s[k + 1] /\ Tail(s)[k + 1] = s[k + 2]
    OBVIOUS
  <2> QED
    BY <2>1 DEF Apart
<1>2. ASSUME Tail(s) # <<>> PROVE 1 \in 1 .. Len(s) - 1 /\ Tail(s)[1] = s[2]
  BY <1>2
<1> QED
  BY <1>1, <1>2 DEF Apart

LEMMA EndsOfConcat ==
  ASSUME NEW T, NEW s \in Seq(T), NEW t \in Seq(T)
  PROVE  /\ s # <<>> => (s \o t)[1] = s[1]
         /\ s = <<>> => s \o t = t
         /\ t # <<>> => (s \o t)[Len(s \o t)] = t[Len(t)] /\ s \o t # <<>>
         /\ t = <<>> => s \o t = s
<1>1. t # <<>> => Len(t) > 0
  OBVIOUS
<1>2. Len(s \o t) = Len(s) + Len(t)
  OBVIOUS
<1>3. t # <<>> => Len(s \o t) > 0
  BY <1>1, <1>2
<1> QED
  BY <1>3

-----------------------------------------------------------------------------
(* What may not meet: the words that an earlier one may swallow or extend, *)
(* and the instructions that may begin or end with such a word.            *)

StartItems ==
  {item \in Items : item.typ \in (TokenTypes \ SymbolSyms) \cup {"eqsym", "gtrsym", "geqsym"}}
EndItems ==
  {item \in Items : item.typ \in (TokenTypes \ SymbolSyms) \cup {"lessym", "gtrsym"}}

EndCalls == {"unparseCondition", "unparseOddCond", "unparseBinRelCond", "unparseRelOp",
             "unparseExpr", "unparseBinExpr", "unparseIdent", "unparseNumber"}

AnyInstrs == [do : DOMAIN Expected \cup {"print"}, p : Nat, semi : BOOLEAN,
              words : Seq(Items)]
StartInstrs == {i \in AnyInstrs : i.do = "print" => i.words[1] \in StartItems}
EndInstrs == {i \in AnyInstrs : \/ i.do \in EndCalls
                                \/ i.do = "print" /\ i.words[Len(i.words)] \in EndItems}

WordsApart(words) == Apart(words, EndItems, StartItems)
BodyApart(body) == Apart(body, EndInstrs, StartInstrs)

GoodInstrs ==
  {i \in Instrs : Fits(i) /\ (i.do = "print" => i.words # <<>> /\ WordsApart(i.words))}

\* The inductive invariant: whatever is still to be done will not print a
\* word too close to the one before it.
IInv ==
  /\ TreeOK(heap)
  /\ root \in 1 .. Len(heap)
  /\ rest \in Seq(GoodInstrs)
  /\ out \in Seq(Items)
  /\ status \in {"printing", "printed", "bail"}
  /\ BailsOnlyForOperators
  /\ WordsApart(out)
  /\ BodyApart(rest)
  /\ out # <<>> /\ rest # <<>> /\ out[Len(out)] \in EndItems => rest[1] \notin StartInstrs

-----------------------------------------------------------------------------
(* Instructions.                                                           *)

LEMMA ExpectedTags ==
  /\ DOMAIN Expected =
       {"unparseProgram", "unparseBlock", "unparseConstDecls", "unparseConstDecl",
        "unparseVarDecls", "unparseVarDecl", "unparseStmt", "unparseStmtList",
        "stmtsLoop", "unparseAssignStmt", "unparseBeginStmt", "unparseIfStmt",
        "unparseWhileStmt", "unparseReadStmt", "unparseWriteStmt", "unparseSkipStmt",
        "unparseCondition", "unparseOddCond", "unparseBinRelCond", "unparseRelOp",
        "unparseExpr", "unparseBinExpr", "unparseArithOp", "unparseIdent",
        "unparseNumber"}
  /\ Expected["unparseProgram"] = {"program_ast"}
  /\ Expected["unparseBlock"] = {"program_ast"}
  /\ Expected["unparseConstDecls"] = {"const_decl_ast"}
  /\ Expected["unparseConstDecl"] = {"const_decl_ast"}
  /\ Expected["unparseVarDecls"] = {"var_decl_ast"}
  /\ Expected["unparseVarDecl"] = {"var_decl_ast"}
  /\ Expected["unparseStmt"] = StmtTags
  /\ Expected["unparseStmtList"] = StmtTags
  /\ Expected["stmtsLoop"] = StmtTags
  /\ Expected["unparseAssignStmt"] = {"assign_ast"}
  /\ Expected["unparseBeginStmt"] = {"begin_ast"}
  /\ Expected["unparseIfStmt"] = {"if_ast"}
  /\ Expected["unparseWhileStmt"] = {"while_ast"}
  /\ Expected["unparseReadStmt"] = {"read_ast"}
  /\ Expected["unparseWriteStmt"] = {"write_ast"}
  /\ Expected["unparseSkipStmt"] = {"skip_ast"}
  /\ Expected["unparseCondition"] = CondTags
  /\ Expected["unparseOddCond"] = {"odd_cond_ast"}
  /\ Expected["unparseBinRelCond"] = {"bin_cond_ast"}
  /\ Expected["unparseRelOp"] = {"bin_cond_ast"}
  /\ Expected["unparseExpr"] = ExprTags
  /\ Expected["unparseBinExpr"] = {"bin_expr_ast"}
  /\ Expected["unparseArithOp"] = {"bin_expr_ast"}
  /\ Expected["unparseIdent"] = {"ident_ast"}
  /\ Expected["unparseNumber"] = {"number_ast"}
BY DEF Expected

LEMMA CallIsGood ==
  ASSUME NEW f \in DOMAIN Expected, NEW p \in 0 .. Len(heap), NEW semi \in BOOLEAN,
         Len(heap) \in Nat,
         \/ f \in ListCalls /\ p = NULL
         \/ p # NULL /\ heap[p].tag \in Expected[f]
  PROVE  /\ CallStmt(f, p, semi) \in GoodInstrs
         /\ CallStmt(f, p, semi) \in StartInstrs
         /\ CallStmt(f, p, semi) \in EndInstrs <=> f \in EndCalls
<1> DEFINE i == CallStmt(f, p, semi)
<1>1. f # "print"
  BY ExpectedTags
<1>2. i.do = f /\ i.p = p /\ i.semi = semi /\ i.words = <<>>
  BY DEF CallStmt
<1>3. i \in Instrs
  BY DEF CallStmt, Instrs
<1>4. i \in AnyInstrs
  BY DEF CallStmt, AnyInstrs
<1>5. Fits(i)
  BY <1>2 DEF Fits
<1> HIDE DEF i
<1> QED
  BY <1>1, <1>2, <1>3, <1>4, <1>5 DEF i, GoodInstrs, StartInstrs, EndInstrs

LEMMA EmitIsGood ==
  ASSUME NEW words \in Seq(Items), words # <<>>, WordsApart(words), Len(heap) \in Nat
  PROVE  /\ Emit(words) \in GoodInstrs
         /\ Emit(words) \in StartInstrs <=> words[1] \in StartItems
         /\ Emit(words) \in EndInstrs <=> words[Len(words)] \in EndItems
<1> DEFINE i == Emit(words)
<1>1. i.do = "print" /\ i.words = words
  BY DEF Emit
<1>2. i \in Instrs
  BY DEF Emit, Instrs, NULL
<1>3. i \in AnyInstrs
  BY DEF Emit, AnyInstrs, NULL
<1>4. Fits(i)
  BY <1>1 DEF Fits
<1>5. "print" \notin EndCalls
  BY DEF EndCalls
<1> HIDE DEF i
<1> QED
  BY <1>1, <1>2, <1>3, <1>4, <1>5 DEF i, GoodInstrs, StartInstrs, EndInstrs

\* What a call knows of its arguments.
LEMMA CallKnows ==
  ASSUME IInv, NEW f \in DOMAIN Expected, At(f)
  PROVE  /\ Head(rest) \in StartInstrs
         /\ f \in EndCalls => Head(rest) \in EndInstrs
         /\ Semi \in BOOLEAN
         /\ \/ f \in ListCalls /\ Arg = NULL
            \/ /\ Arg \in 1 .. Len(heap)
               /\ Arg # NULL
               /\ Node \in Nodes
               /\ Node.tag \in Expected[f]
<1>1. Head(rest) \in GoodInstrs
  BY DEF IInv, At
<1>2. /\ Head(rest) \in Instrs
      /\ Fits(Head(rest))
      /\ Head(rest).do = f
  BY <1>1 DEF GoodInstrs, At
<1>3. f # "print"
  BY ExpectedTags
<1>4. heap \in Seq(Nodes) /\ Len(heap) \in Nat
  BY DEF IInv, TreeOK
<1>5. Arg \in 0 .. Len(heap) /\ Semi \in BOOLEAN
  BY <1>2 DEF Instrs, Arg, Semi
<1>6. Head(rest) \in AnyInstrs
  BY <1>2, <1>4 DEF Instrs, AnyInstrs
<1>7. \/ f \in ListCalls /\ Arg = NULL
      \/ Arg # NULL /\ heap[Arg].tag \in Expected[f]
  BY <1>2, <1>3 DEF Fits, Arg
<1> QED
  BY <1>2, <1>3, <1>4, <1>5, <1>6, <1>7 DEF StartInstrs, EndInstrs, Node, NULL

-----------------------------------------------------------------------------
(* Replacing the first instruction i of rest by words and a body.          *)

\* Neither side of the replacement can tell.
Expands(i, words, body) ==
  /\ words \in Seq(Items)
  /\ body \in Seq(GoodInstrs)
  /\ WordsApart(words)
  /\ BodyApart(body)
  /\ words = <<>> => i \in StartInstrs
  /\ words # <<>> /\ words[1] \in StartItems => i \in StartInstrs
  /\ words # <<>> /\ body # <<>> /\ words[Len(words)] \in EndItems =>
       body[1] \notin StartInstrs
  /\ body # <<>> /\ body[Len(body)] \in EndInstrs => i \in EndInstrs
  /\ words # <<>> /\ body = <<>> /\ words[Len(words)] \in EndItems => i \in EndInstrs

LEMMA ReplaceStep ==
  ASSUME IInv, status = "printing", rest # <<>>, NEW words, NEW body,
         Expands(Head(rest), words, body), PrintThen(words, body)
  PROVE  IInv'
<1>1. /\ words \in Seq(Items)
      /\ body \in Seq(GoodInstrs)
      /\ rest \in Seq(GoodInstrs)
      /\ out \in Seq(Items)
      /\ Head(rest) = rest[1]
      /\ Tail(rest) \in Seq(GoodInstrs)
  BY DEF IInv, Expands
<1>2. /\ out' = out \o words
      /\ rest' = body \o Tail(rest)
      /\ heap' = heap
      /\ root' = root
      /\ status' = status
  BY DEF PrintThen
<1>3. WordsApart(out \o words)
  <2>1. Joins(out, words, EndItems, StartItems)
    BY <1>1 DEF IInv, Expands, Joins
  <2> QED
    BY <1>1, <2>1, ApartConcat DEF IInv, Expands, WordsApart
<1>4. /\ BodyApart(Tail(rest))
      /\ Tail(rest) # <<>> /\ rest[1] \in EndInstrs => Tail(rest)[1] \notin StartInstrs
  BY <1>1, ApartTail DEF IInv, BodyApart
<1>5. BodyApart(body \o Tail(rest))
  <2>1. Joins(body, Tail(rest), EndInstrs, StartInstrs)
    BY <1>1, <1>4 DEF Expands, Joins
  <2> QED
    BY <1>1, <1>4, <2>1, ApartConcat DEF Expands, BodyApart
<1>6. ASSUME out \o words # <<>>, body \o Tail(rest) # <<>>,
             (out \o words)[Len(out \o words)] \in EndItems
      PROVE  (body \o Tail(rest))[1] \notin StartInstrs
  <2>1. CASE words = <<>>
    BY <1>1, <1>6, <2>1, EndsOfConcat DEF IInv, Expands
  <2>2. CASE words # <<>> /\ body # <<>>
    <3>1. words[Len(words)] \in EndItems
      BY <1>1, <1>6, <2>2, EndsOfConcat
    <3>2. (body \o Tail(rest))[1] = body[1]
      BY <1>1, <2>2, EndsOfConcat
    <3> QED
      BY <2>2, <3>1, <3>2 DEF Expands
  <2>3. CASE words # <<>> /\ body = <<>>
    <3>1. words[Len(words)] \in EndItems
      BY <1>1, <1>6, <2>3, EndsOfConcat
    <3>2. body \o Tail(rest) = Tail(rest)
      BY <1>1, <2>3, EndsOfConcat
    <3> QED
      BY <1>1, <1>4, <1>6, <2>3, <3>1, <3>2 DEF Expands
  <2> QED
    BY <2>1, <2>2, <2>3
<1>7. GoodInstrs' = GoodInstrs
  BY <1>2 DEF GoodInstrs, Instrs, Fits
<1>8. out' \in Seq(Items) /\ rest' \in Seq(GoodInstrs)
  BY <1>1, <1>2
<1>9. BailsOnlyForOperators'
  BY <1>2 DEF BailsOnlyForOperators
<1>10. TreeOK(heap') /\ root' \in 1 .. Len(heap')
  BY <1>2 DEF IInv
<1> QED
  BY <1>2, <1>3, <1>5, <1>6, <1>7, <1>8, <1>9, <1>10 DEF IInv

-----------------------------------------------------------------------------
(* One lemma per kind of step.                                             *)

LEMMA Facts ==
  ASSUME IInv
  PROVE  Len(heap) \in Nat /\ NULL \in 0 .. Len(heap) /\ TreeOK(heap)
BY DEF IInv, TreeOK, NULL

LEMMA WordIsItem ==
  /\ \A t \in TokenTypes \cup {"gap"} : Word(t) \in Items /\ Word(t).typ = t
  /\ Gap \in Items /\ Gap.typ = "gap"
  /\ \A x \in Texts : Name(x) \in Items /\ Name(x).typ = "identsym"
BY DEF Word, Gap, Name, Items, Texts, TokenTypes

LEMMA GapIsNeither == Gap \notin StartItems /\ Gap \notin EndItems
BY WordIsItem DEF StartItems, EndItems, TokenTypes

LEMMA SymbolIsNeither ==
  \A t \in SymbolSyms \ RelOpSyms :
    t \in TokenTypes /\ Word(t) \in Items /\ Word(t) \notin StartItems /\ Word(t) \notin EndItems
<1> SUFFICES ASSUME NEW t \in SymbolSyms \ RelOpSyms
             PROVE  /\ t \in TokenTypes
                    /\ Word(t) \in Items
                    /\ Word(t) \notin StartItems
                    /\ Word(t) \notin EndItems
  OBVIOUS
<1>1. t \in TokenTypes
  BY DEF SymbolSyms, TokenTypes, SignSyms, MultDivSyms, RelOpSyms
<1>2. t \notin {"eqsym", "gtrsym", "geqsym", "lessym"}
  BY DEF RelOpSyms
<1> QED
  BY <1>1, <1>2, WordIsItem DEF StartItems, EndItems

\* The words that end a statement start and end with none that could merge.
LEMMA NewlineIsGood ==
  ASSUME NEW semi \in BOOLEAN
  PROVE  LET words == newlineAndOptionalSemi(semi)
         IN  /\ words \in Seq(Items) /\ words # <<>>
             /\ WordsApart(words)
             /\ words[1] \notin StartItems
             /\ words[Len(words)] \notin EndItems
             /\ Len(words) \in {1, 2}
<1>1. Word("semisym") \in Items /\ Word("semisym") \notin StartItems /\ Word("semisym") \notin EndItems
  BY SymbolIsNeither DEF SymbolSyms, RelOpSyms
<1> QED
  BY <1>1, WordIsItem, GapIsNeither DEF newlineAndOptionalSemi, WordsApart, Apart

\* A word between two gaps, or before one.
LEMMA KeywordIsGood ==
  ASSUME NEW w \in Items
  PROVE  /\ <<Gap, w, Gap>> \in Seq(Items) /\ WordsApart(<<Gap, w, Gap>>)
         /\ <<w, Gap>> \in Seq(Items) /\ WordsApart(<<w, Gap>>)
         /\ <<Gap>> \in Seq(Items) /\ WordsApart(<<Gap>>)
         /\ <<w>> \in Seq(Items) /\ WordsApart(<<w>>)
BY WordIsItem, GapIsNeither DEF WordsApart, Apart

LEMMA DecimalIsGood ==
  ASSUME NEW n \in Int
  PROVE  /\ Decimal(n) \in Seq(Items) /\ Decimal(n) # <<>>
         /\ Len(Decimal(n)) \in {1, 2}
         /\ WordsApart(Decimal(n))
         /\ Len(Decimal(n)) = 2 => Decimal(n)[1] \notin EndItems
<1>1. Word("minussym") \in Items /\ Word("minussym") \notin EndItems
  BY SymbolIsNeither DEF SymbolSyms, RelOpSyms, SignSyms
<1>2. \A k \in Int : [typ |-> "numbersym", text |-> "digits", value |-> k] \in Items
  BY DEF Items, TokenTypes
<1>3. CASE n < 0
  <2> DEFINE digits == [typ |-> "numbersym", text |-> "digits", value |-> -n]
             minus == Word("minussym")
  <2>1. digits \in Items /\ Decimal(n) = <<minus, digits>>
    BY <1>2, <1>3 DEF Decimal
  <2> HIDE DEF digits, minus
  <2> QED
    BY <1>1, <2>1 DEF WordsApart, Apart, minus
<1>4. CASE ~(n < 0)
  <2> DEFINE digits == [typ |-> "numbersym", text |-> "digits", value |-> n]
  <2>1. digits \in Items /\ Decimal(n) = <<digits>>
    BY <1>2, <1>4 DEF Decimal
  <2> HIDE DEF digits
  <2> QED
    BY <2>1 DEF WordsApart, Apart
<1> QED
  BY <1>3, <1>4

\* A call with a node that it expects.
LEMMA NodeCallIsGood ==
  ASSUME IInv, NEW f \in DOMAIN Expected, NEW p \in 1 .. Len(heap),
         heap[p].tag \in Expected[f], NEW semi \in BOOLEAN
  PROVE  /\ CallStmt(f, p, semi) \in GoodInstrs
         /\ CallStmt(f, p, semi) \in EndInstrs <=> f \in EndCalls
BY CallIsGood, Facts DEF NULL

\* A call with a list that it expects.
LEMMA ListCallIsGood ==
  ASSUME IInv, NEW f \in ListCalls, NEW p,
         \/ p = NULL
         \/ p \in 1 .. Len(heap) /\ heap[p].tag \in Expected[f]
  PROVE  Call(f, p) \in GoodInstrs /\ Call(f, p) \notin EndInstrs
<1>1. f \in DOMAIN Expected /\ f \notin EndCalls
  BY ExpectedTags DEF ListCalls, EndCalls
<1>2. /\ p \in 0 .. Len(heap)
      /\ p # NULL => heap[p].tag \in Expected[f]
  BY Facts DEF NULL
<1> QED
  BY <1>1, <1>2, CallIsGood, Facts DEF Call

\* The node of a call that is not a loop over a list.
LEMMA NodeKnown ==
  ASSUME IInv, NEW f \in DOMAIN Expected \ ListCalls, At(f)
  PROVE  /\ Arg \in 1 .. Len(heap)
         /\ Arg # NULL
         /\ Node.tag \in Expected[f]
         /\ Node.name \in Texts
         /\ Node.num \in Int
BY CallKnows DEF Nodes

-----------------------------------------------------------------------------
(* Programs and declarations.                                              *)

LEMMA ProgramStep == ASSUME IInv, UnparseProgram PROVE IInv'
<1> DEFINE call == Call("unparseBlock", Arg)
           tail == <<Word("periodsym"), Gap>>
<1>1. /\ At("unparseProgram")
      /\ PrintThen(<<>>, <<call, Emit(tail)>>)
  BY DEF UnparseProgram, Do
<1>2. Arg \in 0 .. Len(heap) /\ Arg # NULL /\ Node.tag = "program_ast"
      /\ Head(rest) \in StartInstrs
  BY <1>1, CallKnows, ExpectedTags, Facts DEF ListCalls
<1>3. call \in GoodInstrs /\ call \notin EndInstrs
  <2>1. "unparseBlock" \notin EndCalls
    BY DEF EndCalls
  <2> QED
    BY <1>2, <2>1, CallIsGood, ExpectedTags, Facts DEF Call, Node
<1>4. /\ Word("periodsym") \in Items
      /\ Word("periodsym") \notin StartItems
  BY SymbolIsNeither DEF SymbolSyms, RelOpSyms
<1>5. Emit(tail) \in GoodInstrs /\ Emit(tail) \notin StartInstrs /\ Emit(tail) \notin EndInstrs
  BY <1>4, KeywordIsGood, GapIsNeither, EmitIsGood, Facts
<1> HIDE DEF call, tail
<1>6. Expands(Head(rest), <<>>, <<call, Emit(tail)>>)
  BY <1>2, <1>3, <1>5 DEF Expands, WordsApart, BodyApart, Apart
<1> QED
  BY <1>1, <1>6, ReplaceStep DEF At

LEMMA BlockStep == ASSUME IInv, UnparseBlock PROVE IInv'
<1> DEFINE a == Call("unparseConstDecls", Kid(1))
           b == Call("unparseVarDecls", Kid(2))
           c == Call("unparseStmt", Kid(3))
<1>1. At("unparseBlock") /\ PrintThen(<<>>, <<a, b, c>>)
  BY DEF UnparseBlock, Do
<1>2. Arg \in 1 .. Len(heap) /\ Node.tag = "program_ast" /\ Head(rest) \in StartInstrs
  BY <1>1, CallKnows, ExpectedTags DEF ListCalls
<1>3. /\ Kid(1) = NULL \/ Points(heap, Arg, 1, {"const_decl_ast"})
      /\ Kid(2) = NULL \/ Points(heap, Arg, 2, {"var_decl_ast"})
      /\ Points(heap, Arg, 3, StmtTags)
  BY <1>2, Facts, SlotsOfProgram DEF Kid, Node
<1>4. a \in GoodInstrs /\ a \notin EndInstrs
  BY <1>3, ListCallIsGood, ExpectedTags DEF Points, ListCalls, Kid, Node
<1>5. b \in GoodInstrs /\ b \notin EndInstrs
  BY <1>3, ListCallIsGood, ExpectedTags DEF Points, ListCalls, Kid, Node
<1>6. c \in GoodInstrs /\ c \notin EndInstrs
  <2>1. "unparseStmt" \notin EndCalls
    BY DEF EndCalls
  <2> QED
    BY <1>3, <2>1, NodeCallIsGood, ExpectedTags DEF Points, Kid, Node, Call
<1> HIDE DEF a, b, c
<1>7. Expands(Head(rest), <<>>, <<a, b, c>>)
  BY <1>2, <1>4, <1>5, <1>6 DEF Expands, WordsApart, BodyApart, Apart
<1> QED
  BY <1>1, <1>7, ReplaceStep DEF At

\* The two loops over declarations.
LEMMA DeclLoopStep ==
  ASSUME IInv, NEW loop \in {"unparseConstDecls", "unparseVarDecls"}, At(loop),
         NEW one \in {"unparseConstDecl", "unparseVarDecl"},
         NEW tag \in ListTags, Expected[loop] = {tag}, Expected[one] = {tag},
         DoList(one)
  PROVE  IInv'
<1> DEFINE nxt == ast_list_rest(heap, Arg)
           a == Call(one, Arg)
           b == Call(Head(rest).do, nxt)
<1>1. Head(rest) \in StartInstrs
  BY CallKnows, ExpectedTags
<1>2. CASE ast_list_is_empty(Arg)
  <2>1. PrintThen(<<>>, <<>>)
    BY <1>2 DEF DoList, Do
  <2>2. Expands(Head(rest), <<>>, <<>>)
    BY <1>1 DEF Expands, WordsApart, BodyApart, Apart
  <2> QED
    BY <2>1, <2>2, ReplaceStep DEF At
<1>3. CASE ~ast_list_is_empty(Arg)
  <2>1. PrintThen(<<>>, <<a, b>>)
    BY <1>3 DEF DoList, Do
  <2>2. Arg \in 1 .. Len(heap) /\ Arg # NULL /\ Node.tag = tag
    BY <1>3, CallKnows, ExpectedTags DEF ast_list_is_empty
  <2>3. \/ nxt = NULL
        \/ nxt \in 1 .. Len(heap) /\ heap[nxt].tag = tag
    <3>1. tag \notin StmtTags
      BY DEF ListTags, StmtTags
    <3> QED
      BY <2>2, <3>1, NextSlot, Facts DEF ast_list_rest, Node
  <2>4. a \in GoodInstrs /\ a \notin EndInstrs
    <3>1. one \in DOMAIN Expected /\ one \notin EndCalls
      BY ExpectedTags DEF EndCalls
    <3> QED
      BY <2>2, <3>1, NodeCallIsGood DEF Call, Node
  <2>5. b \in GoodInstrs /\ b \notin EndInstrs
    <3>1. b = Call(loop, nxt) /\ loop \in ListCalls
      BY DEF At, ListCalls
    <3> QED
      BY <2>3, <3>1, ListCallIsGood
  <2> HIDE DEF a, b
  <2>6. Expands(Head(rest), <<>>, <<a, b>>)
    BY <1>1, <2>4, <2>5 DEF Expands, WordsApart, BodyApart, Apart
  <2> QED
    BY <2>1, <2>6, ReplaceStep DEF At
<1> QED
  BY <1>2, <1>3

LEMMA DeclLoopsStep == ASSUME IInv, UnparseConstDecls \/ UnparseVarDecls PROVE IInv'
<1>1. CASE UnparseConstDecls
  BY <1>1, DeclLoopStep, ExpectedTags DEF UnparseConstDecls, ListTags
<1>2. CASE UnparseVarDecls
  BY <1>2, DeclLoopStep, ExpectedTags DEF UnparseVarDecls, ListTags
<1> QED
  BY <1>1, <1>2

\* A call that only prints.
LEMMA PrintStep ==
  ASSUME IInv, NEW f \in DOMAIN Expected, At(f), NEW words \in Seq(Items),
         words # <<>>, WordsApart(words),
         words[Len(words)] \in EndItems => f \in EndCalls,
         PrintThen(words, <<>>)
  PROVE  IInv'
<1>1. Expands(Head(rest), words, <<>>)
  BY CallKnows DEF Expands, BodyApart, Apart
<1> QED
  BY <1>1, ReplaceStep DEF At

LEMMA VarDeclStep == ASSUME IInv, UnparseVarDecl PROVE IInv'
<1> DEFINE var == Word("varsym")
           name == Name(Node.name)
           semi == Word("semisym")
<1>1. At("unparseVarDecl") /\ PrintThen(<<var, Gap, name, semi, Gap>>, <<>>)
  BY DEF UnparseVarDecl
<1>2. name \in Items
  BY <1>1, NodeKnown, ExpectedTags, WordIsItem DEF ListCalls
<1>3. var \in Items
  BY WordIsItem DEF TokenTypes
<1>4. semi \in Items /\ semi \notin StartItems /\ semi \notin EndItems
  BY SymbolIsNeither DEF SymbolSyms, RelOpSyms
<1> HIDE DEF var, name, semi
<1>5. WordsApart(<<var, Gap, name, semi, Gap>>)
  BY <1>2, <1>3, <1>4, GapIsNeither, WordIsItem DEF WordsApart, Apart
<1> QED
  <2> DEFINE words == <<var, Gap, name, semi, Gap>>
  <2>1. words \in Seq(Items) /\ words # <<>> /\ words[Len(words)] = Gap
    BY <1>2, <1>3, <1>4, WordIsItem
  <2> HIDE DEF words
  <2> QED
    BY <1>1, <1>5, <2>1, GapIsNeither, PrintStep, ExpectedTags DEF words

LEMMA ConstDeclStep == ASSUME IInv, UnparseConstDecl PROVE IInv'
<1> DEFINE const == Word("constsym")
           name == Name(Node.name)
           eq == Word("eqsym")
           semi == Word("semisym")
           before == <<const, Gap, name, Gap, eq, Gap>>
           num == Decimal(Node.num)
           after == <<semi, Gap>>
<1>1. At("unparseConstDecl") /\ PrintThen(before \o num \o after, <<>>)
  BY DEF UnparseConstDecl
<1>2. name \in Items
  BY <1>1, NodeKnown, ExpectedTags, WordIsItem DEF ListCalls
<1>3. const \in Items /\ eq \in Items
  BY WordIsItem DEF TokenTypes
<1>4. semi \in Items /\ semi \notin StartItems /\ semi \notin EndItems
  BY SymbolIsNeither DEF SymbolSyms, RelOpSyms
<1>5. num \in Seq(Items) /\ num # <<>> /\ WordsApart(num)
  <2>1. Node.num \in Int
    BY <1>1, NodeKnown, ExpectedTags DEF ListCalls
  <2> HIDE DEF num
  <2> QED
    BY <2>1, DecimalIsGood DEF num
<1> HIDE DEF const, name, eq, semi, num
<1>6. before \in Seq(Items) /\ WordsApart(before) /\ Len(before) = 6 /\ before[6] = Gap
  BY <1>2, <1>3, GapIsNeither, WordIsItem DEF WordsApart, Apart
<1>7. /\ after \in Seq(Items) /\ after # <<>> /\ WordsApart(after)
      /\ after[1] = semi /\ Len(after) = 2 /\ after[2] = Gap
  BY <1>4, KeywordIsGood
<1> HIDE DEF before, after
<1>8. before \o num \in Seq(Items) /\ WordsApart(before \o num)
  <2>1. Joins(before, num, EndItems, StartItems)
    BY <1>6, GapIsNeither DEF Joins
  <2> QED
    BY <1>5, <1>6, <2>1, ApartConcat DEF WordsApart
<1>9. WordsApart((before \o num) \o after)
  <2>1. Joins(before \o num, after, EndItems, StartItems)
    BY <1>4, <1>7 DEF Joins
  <2> QED
    BY <1>7, <1>8, <2>1, ApartConcat DEF WordsApart
<1> DEFINE words == (before \o num) \o after
<1>10. words \in Seq(Items) /\ words # <<>> /\ words[Len(words)] = Gap
  <2>1. words # <<>> /\ words[Len(words)] = after[Len(after)]
    BY <1>7, <1>8, EndsOfConcat
  <2> QED
    BY <1>7, <1>8, <2>1
<1> HIDE DEF words
<1> QED
  BY <1>1, <1>9, <1>10, GapIsNeither, PrintStep, ExpectedTags DEF words

-----------------------------------------------------------------------------
(* Statements.                                                             *)

\* Replacing a call by one instruction that ends like it.
LEMMA OneInstrStep ==
  ASSUME IInv, NEW f \in DOMAIN Expected, At(f), NEW i \in GoodInstrs,
         i \in EndInstrs => f \in EndCalls, Do(<<i>>)
  PROVE  IInv'
<1>1. Expands(Head(rest), <<>>, <<i>>)
  BY CallKnows DEF Expands, WordsApart, BodyApart, Apart
<1> QED
  BY <1>1, ReplaceStep DEF At, Do

LEMMA StmtStep == ASSUME IInv, UnparseStmt PROVE IInv'
<1>1. At("unparseStmt") /\ "unparseStmt" \in DOMAIN Expected
  BY ExpectedTags DEF UnparseStmt
<1>2. /\ Arg \in 1 .. Len(heap)
      /\ Node.tag \in StmtTags
      /\ Semi \in BOOLEAN
  BY <1>1, CallKnows, NodeKnown, ExpectedTags DEF ListCalls
<1>3. /\ Node.tag \in DOMAIN StmtUnparser
      /\ StmtUnparser[Node.tag] \in DOMAIN Expected
      /\ StmtUnparser[Node.tag] \notin EndCalls
      /\ Node.tag \in Expected[StmtUnparser[Node.tag]]
  BY <1>2, ExpectedTags DEF StmtTags, StmtUnparser, EndCalls
<1> DEFINE i == CallStmt(StmtUnparser[Node.tag], Arg, Semi)
<1>4. i \in GoodInstrs /\ i \notin EndInstrs
  BY <1>2, <1>3, NodeCallIsGood DEF Node
<1>5. Do(<<i>>)
  BY <1>3 DEF UnparseStmt
<1> HIDE DEF i
<1> QED
  BY <1>1, <1>4, <1>5, OneInstrStep

\* Assignments and writes: a word, an expression and the end of the line.
LEMMA ExprStmtStep ==
  ASSUME IInv, NEW f \in {"unparseAssignStmt", "unparseWriteStmt"}, At(f),
         NEW words \in Seq(Items), words # <<>>, WordsApart(words),
         words[Len(words)] = Gap,
         PrintThen(words, <<Call("unparseExpr", Kid(1)), Emit(newlineAndOptionalSemi(Semi))>>)
  PROVE  IInv'
<1> DEFINE a == Call("unparseExpr", Kid(1))
           b == Emit(newlineAndOptionalSemi(Semi))
<1>1. f \in DOMAIN Expected \ ListCalls
  BY ExpectedTags DEF ListCalls
<1>2. /\ Arg \in 1 .. Len(heap)
      /\ Node.tag \in {"assign_ast", "write_ast"}
      /\ Semi \in BOOLEAN
      /\ Head(rest) \in StartInstrs
  BY <1>1, CallKnows, NodeKnown, ExpectedTags
<1>3. Points(heap, Arg, 1, ExprTags)
  BY <1>2, SlotsOfUnary, Facts DEF Node
<1>4. a \in GoodInstrs
  BY <1>3, NodeCallIsGood, ExpectedTags DEF Points, Kid, Node, Call
<1>5. b \in GoodInstrs /\ b \notin StartInstrs /\ b \notin EndInstrs
  BY <1>2, NewlineIsGood, EmitIsGood, Facts
<1> HIDE DEF a, b
<1>6. Expands(Head(rest), words, <<a, b>>)
  BY <1>2, <1>4, <1>5, GapIsNeither DEF Expands, BodyApart, Apart
<1>7. PrintThen(words, <<a, b>>)
  BY DEF a, b
<1> QED
  BY <1>6, <1>7, ReplaceStep DEF At

LEMMA AssignStep == ASSUME IInv, UnparseAssignStmt PROVE IInv'
<1> DEFINE name == Name(Node.name)
           becomes == Word("becomessym")
           words == <<name, Gap, becomes, Gap>>
<1>1. name \in Items
  BY NodeKnown, ExpectedTags, WordIsItem DEF UnparseAssignStmt, ListCalls
<1>2. becomes \in Items
  BY WordIsItem DEF TokenTypes
<1> HIDE DEF name, becomes
<1>3. /\ words \in Seq(Items) /\ words # <<>> /\ words[Len(words)] = Gap
      /\ WordsApart(words)
  BY <1>1, <1>2, WordIsItem, GapIsNeither DEF WordsApart, Apart
<1> QED
  BY <1>3, ExprStmtStep DEF UnparseAssignStmt, name, becomes

LEMMA WriteStep == ASSUME IInv, UnparseWriteStmt PROVE IInv'
<1> DEFINE write == Word("writesym")
           words == <<write, Gap>>
<1>1. write \in Items
  BY WordIsItem DEF TokenTypes
<1> HIDE DEF write
<1>2. /\ words \in Seq(Items) /\ words # <<>> /\ words[Len(words)] = Gap
      /\ WordsApart(words)
  BY <1>1, KeywordIsGood
<1> QED
  BY <1>2, ExprStmtStep DEF UnparseWriteStmt, write

\* Reads and skips: a word, and the end of the line.
LEMMA LineStep ==
  ASSUME IInv, NEW f \in {"unparseReadStmt", "unparseSkipStmt"}, At(f),
         NEW words \in Seq(Items), words # <<>>, WordsApart(words),
         PrintThen(words \o newlineAndOptionalSemi(Semi), <<>>)
  PROVE  IInv'
<1> DEFINE newline == newlineAndOptionalSemi(Semi)
<1>1. f \in DOMAIN Expected
  BY ExpectedTags
<1>2. Semi \in BOOLEAN
  BY <1>1, CallKnows
<1>3. /\ newline \in Seq(Items) /\ newline # <<>> /\ WordsApart(newline)
      /\ newline[1] \notin StartItems
      /\ newline[Len(newline)] \notin EndItems
  BY <1>2, NewlineIsGood
<1> HIDE DEF newline
<1>4. Joins(words, newline, EndItems, StartItems)
  BY <1>3 DEF Joins
<1>5. WordsApart(words \o newline)
  BY <1>3, <1>4, ApartConcat DEF WordsApart
<1> DEFINE line == words \o newline
<1>6. line \in Seq(Items) /\ line # <<>> /\ line[Len(line)] \notin EndItems
  <2>1. line # <<>> /\ line[Len(line)] = newline[Len(newline)]
    BY <1>3, EndsOfConcat
  <2> QED
    BY <1>3, <2>1
<1>7. PrintThen(line, <<>>)
  BY DEF newline
<1> HIDE DEF line
<1> QED
  BY <1>1, <1>5, <1>6, <1>7, PrintStep DEF line

LEMMA ReadStep == ASSUME IInv, UnparseReadStmt PROVE IInv'
<1> DEFINE read == Word("readsym")
           name == Name(Node.name)
           words == <<read, Gap, name>>
<1>1. name \in Items
  BY NodeKnown, ExpectedTags, WordIsItem DEF UnparseReadStmt, ListCalls
<1>2. read \in Items
  BY WordIsItem DEF TokenTypes
<1> HIDE DEF read, name
<1>3. words \in Seq(Items) /\ words # <<>> /\ WordsApart(words)
  BY <1>1, <1>2, WordIsItem, GapIsNeither DEF WordsApart, Apart
<1> QED
  BY <1>3, LineStep DEF UnparseReadStmt, read, name

LEMMA SkipStep == ASSUME IInv, UnparseSkipStmt PROVE IInv'
<1>1. Word("skipsym") \in Items
  BY WordIsItem DEF TokenTypes
<1>2. LET words == <<Word("skipsym")>>
      IN  words \in Seq(Items) /\ words # <<>> /\ WordsApart(words)
  BY <1>1, KeywordIsGood
<1> QED
  BY <1>2, LineStep DEF UnparseSkipStmt

LEMMA BeginStep == ASSUME IInv, UnparseBeginStmt PROVE IInv'
<1> DEFINE begin == Word("beginsym")
           end == Word("endsym")
           newline == newlineAndOptionalSemi(Semi)
           line == <<end>> \o newline
           a == Call("unparseStmtList", Kid(1))
           b == Emit(line)
<1>1. At("unparseBeginStmt") /\ PrintThen(<<begin, Gap>>, <<a, b>>)
  BY DEF UnparseBeginStmt
<1>2. /\ Arg \in 1 .. Len(heap)
      /\ Node.tag = "begin_ast"
      /\ Semi \in BOOLEAN
      /\ Head(rest) \in StartInstrs
  BY <1>1, CallKnows, NodeKnown, ExpectedTags DEF ListCalls
<1>3. Points(heap, Arg, 1, StmtTags)
  BY <1>2, SlotsOfUnary, Facts DEF Node
<1>4. a \in GoodInstrs /\ a \notin EndInstrs
  <2>1. "unparseStmtList" \notin EndCalls
    BY DEF EndCalls
  <2> QED
    BY <1>3, <2>1, NodeCallIsGood, ExpectedTags DEF Points, Kid, Node, Call
<1>5. begin \in Items /\ end \in Items
  BY WordIsItem DEF TokenTypes
<1>6. /\ newline \in Seq(Items) /\ newline # <<>> /\ WordsApart(newline)
      /\ newline[1] \notin StartItems
      /\ newline[Len(newline)] \notin EndItems
  BY <1>2, NewlineIsGood
<1> HIDE DEF begin, end, newline
<1>7. line \in Seq(Items) /\ line # <<>> /\ line[Len(line)] \notin EndItems
  <2>1. <<end>> \in Seq(Items)
    BY <1>5
  <2>2. line # <<>> /\ line[Len(line)] = newline[Len(newline)]
    BY <1>6, <2>1, EndsOfConcat
  <2> QED
    BY <1>6, <2>1, <2>2
<1>8. WordsApart(line)
  <2>1. <<end>> \in Seq(Items) /\ WordsApart(<<end>>)
    BY <1>5, KeywordIsGood
  <2>2. Joins(<<end>>, newline, EndItems, StartItems)
    BY <1>6 DEF Joins
  <2> QED
    BY <1>6, <2>1, <2>2, ApartConcat DEF WordsApart
<1> HIDE DEF line
<1>9. b \in GoodInstrs /\ b \notin EndInstrs
  BY <1>7, <1>8, EmitIsGood, Facts
<1> HIDE DEF a, b
<1> DEFINE words == <<begin, Gap>>
<1>10. /\ words \in Seq(Items) /\ words # <<>> /\ WordsApart(words)
       /\ words[Len(words)] = Gap
  BY <1>5, KeywordIsGood
<1> HIDE DEF words
<1>11. Expands(Head(rest), words, <<a, b>>)
  BY <1>2, <1>4, <1>9, <1>10, GapIsNeither DEF Expands, BodyApart, Apart
<1> QED
  BY <1>1, <1>11, ReplaceStep DEF At, words

LEMMA StmtsStep ==
  ASSUME IInv, NEW f \in {"unparseStmtList", "stmtsLoop"}, At(f),
         Arg \in 1 .. Len(heap), Node.tag \in StmtTags, DoStmts(Arg)
  PROVE  IInv'
<1> DEFINE nxt == ast_list_rest(heap, Arg)
           a == CallStmt("unparseStmt", Arg, ~ast_list_is_empty(nxt))
           b == Call("stmtsLoop", nxt)
<1>1. PrintThen(<<>>, <<a, b>>)
  BY DEF DoStmts, Do
<1>2. Head(rest) \in StartInstrs
  BY CallKnows, ExpectedTags
<1>3. \/ nxt = NULL
      \/ nxt \in 1 .. Len(heap) /\ heap[nxt].tag \in StmtTags
  <2>1. Node.tag \notin ListTags
    BY DEF ListTags, StmtTags
  <2> QED
    BY <2>1, NextSlot, Facts DEF ast_list_rest, Node
<1>4. a \in GoodInstrs /\ a \notin EndInstrs
  <2>1. "unparseStmt" \notin EndCalls /\ (~ast_list_is_empty(nxt)) \in BOOLEAN
    BY DEF EndCalls
  <2> QED
    BY <2>1, NodeCallIsGood, ExpectedTags DEF Node
<1>5. b \in GoodInstrs /\ b \notin EndInstrs
  BY <1>3, ListCallIsGood, ExpectedTags DEF ListCalls
<1> HIDE DEF a, b
<1>6. Expands(Head(rest), <<>>, <<a, b>>)
  BY <1>2, <1>4, <1>5 DEF Expands, WordsApart, BodyApart, Apart
<1> QED
  BY <1>1, <1>6, ReplaceStep DEF At

LEMMA StmtListStep == ASSUME IInv, UnparseStmtList PROVE IInv'
<1>1. Arg \in 1 .. Len(heap) /\ Node.tag \in StmtTags
  BY NodeKnown, ExpectedTags DEF UnparseStmtList, ListCalls
<1> QED
  BY <1>1, StmtsStep DEF UnparseStmtList

LEMMA StmtsLoopStep == ASSUME IInv, StmtsLoop PROVE IInv'
<1>1. CASE ast_list_is_empty(Arg)
  <2>1. At("stmtsLoop") /\ PrintThen(<<>>, <<>>)
    BY <1>1 DEF StmtsLoop, Do
  <2>2. Expands(Head(rest), <<>>, <<>>)
    BY <2>1, CallKnows, ExpectedTags DEF Expands, WordsApart, BodyApart, Apart
  <2> QED
    BY <2>1, <2>2, ReplaceStep DEF At
<1>2. CASE ~ast_list_is_empty(Arg)
  <2>1. Arg \in 1 .. Len(heap) /\ Node.tag \in StmtTags
    BY <1>2, CallKnows, ExpectedTags DEF StmtsLoop, ast_list_is_empty
  <2> QED
    BY <1>2, <2>1, StmtsStep DEF StmtsLoop
<1> QED
  BY <1>1, <1>2

\* A keyword, a condition, another keyword and what follows it.
LEMMA CondStmtStep ==
  ASSUME IInv, NEW f \in {"unparseIfStmt", "unparseWhileStmt"}, At(f),
         NEW v \in TokenTypes, NEW w \in TokenTypes,
         NEW body \in Seq(GoodInstrs), body # <<>>, BodyApart(body),
         body[Len(body)] \notin EndInstrs,
         Points(heap, Arg, 1, CondTags),
         PrintThen(<<Word(v), Gap>>,
                   <<Call("unparseCondition", Kid(1)), Emit(<<Gap, Word(w), Gap>>)>> \o body)
  PROVE  IInv'
<1> DEFINE a == Call("unparseCondition", Kid(1))
           middle == <<Gap, Word(w), Gap>>
           b == Emit(middle)
           words == <<Word(v), Gap>>
<1>1. Head(rest) \in StartInstrs
  BY CallKnows, ExpectedTags
<1>2. a \in GoodInstrs
  BY NodeCallIsGood, ExpectedTags DEF Points, Kid, Node, Call
<1>3. Word(v) \in Items /\ Word(w) \in Items
  BY WordIsItem
<1>4. /\ middle \in Seq(Items) /\ middle # <<>> /\ WordsApart(middle)
      /\ middle[1] = Gap /\ middle[Len(middle)] = Gap
  BY <1>3, KeywordIsGood
<1>5. /\ words \in Seq(Items) /\ words # <<>> /\ WordsApart(words)
      /\ words[Len(words)] = Gap
  BY <1>3, KeywordIsGood
<1> HIDE DEF middle, words
<1>6. b \in GoodInstrs /\ b \notin StartInstrs /\ b \notin EndInstrs
  BY <1>4, GapIsNeither, EmitIsGood, Facts
<1> HIDE DEF a, b
<1> DEFINE front == <<a, b>>
<1>7. front \in Seq(GoodInstrs) /\ BodyApart(front) /\ front[Len(front)] = b
  BY <1>2, <1>6 DEF BodyApart, Apart
<1> HIDE DEF front
<1>8. Joins(front, body, EndInstrs, StartInstrs)
  BY <1>6, <1>7 DEF Joins
<1> DEFINE all == front \o body
<1>9. all \in Seq(GoodInstrs) /\ BodyApart(all)
  BY <1>7, <1>8, ApartConcat DEF BodyApart
<1>10. all # <<>> /\ all[Len(all)] = body[Len(body)]
  BY <1>7, EndsOfConcat
<1>11. PrintThen(words, all)
  BY DEF words, front, a, b, middle
<1> HIDE DEF all
<1>12. Expands(Head(rest), words, all)
  BY <1>1, <1>5, <1>9, <1>10, GapIsNeither DEF Expands
<1> QED
  BY <1>11, <1>12, ReplaceStep DEF At

LEMMA WhileStep == ASSUME IInv, UnparseWhileStmt PROVE IInv'
<1> DEFINE c == CallStmt("unparseStmt", Kid(2), Semi)
           a == Call("unparseCondition", Kid(1))
           b == Emit(<<Gap, Word("dosym"), Gap>>)
<1>1. At("unparseWhileStmt") /\ PrintThen(<<Word("whilesym"), Gap>>, <<a, b, c>>)
  BY DEF UnparseWhileStmt
<1>2. Arg \in 1 .. Len(heap) /\ Node.tag = "while_ast" /\ Semi \in BOOLEAN
  BY <1>1, CallKnows, NodeKnown, ExpectedTags DEF ListCalls
<1>3. Points(heap, Arg, 1, CondTags) /\ Points(heap, Arg, 2, StmtTags)
  BY <1>2, SlotsOfWhile, Facts DEF Node
<1>4. c \in GoodInstrs /\ c \notin EndInstrs
  <2>1. "unparseStmt" \notin EndCalls
    BY DEF EndCalls
  <2> QED
    BY <1>2, <1>3, <2>1, NodeCallIsGood, ExpectedTags DEF Points, Kid, Node
<1>5. "whilesym" \in TokenTypes /\ "dosym" \in TokenTypes
  BY DEF TokenTypes
<1> HIDE DEF a, b, c
<1>6. <<a, b, c>> = <<a, b>> \o <<c>>
  OBVIOUS
<1> DEFINE body == <<c>>
<1>7. /\ body \in Seq(GoodInstrs) /\ body # <<>> /\ BodyApart(body)
      /\ body[Len(body)] \notin EndInstrs
  BY <1>4 DEF BodyApart, Apart
<1>8. PrintThen(<<Word("whilesym"), Gap>>, <<a, b>> \o body)
  BY <1>1, <1>6
<1> HIDE DEF body
<1> QED
  BY <1>1, <1>3, <1>5, <1>7, <1>8, CondStmtStep DEF a, b

LEMMA IfStep == ASSUME IInv, UnparseIfStmt PROVE IInv'
<1> DEFINE a == Call("unparseCondition", Kid(1))
           b == Emit(<<Gap, Word("thensym"), Gap>>)
           c == Call("unparseStmt", Kid(2))
           else == <<Word("elsesym"), Gap>>
           d == Emit(else)
           e == CallStmt("unparseStmt", Kid(3), Semi)
<1>1. At("unparseIfStmt") /\ PrintThen(<<Word("ifsym"), Gap>>, <<a, b, c, d, e>>)
  BY DEF UnparseIfStmt
<1>2. Arg \in 1 .. Len(heap) /\ Node.tag = "if_ast" /\ Semi \in BOOLEAN
  BY <1>1, CallKnows, NodeKnown, ExpectedTags DEF ListCalls
<1>3. /\ Points(heap, Arg, 1, CondTags)
      /\ Points(heap, Arg, 2, StmtTags)
      /\ Points(heap, Arg, 3, StmtTags)
  BY <1>2, SlotsOfIf, Facts DEF Node
<1>4. "unparseStmt" \notin EndCalls
  BY DEF EndCalls
<1>5. c \in GoodInstrs /\ c \notin EndInstrs
  BY <1>3, <1>4, NodeCallIsGood, ExpectedTags DEF Points, Kid, Node, Call
<1>6. e \in GoodInstrs /\ e \notin EndInstrs
  BY <1>2, <1>3, <1>4, NodeCallIsGood, ExpectedTags DEF Points, Kid, Node
<1>7. /\ else \in Seq(Items) /\ else # <<>> /\ WordsApart(else)
      /\ else[Len(else)] = Gap
  <2>1. Word("elsesym") \in Items
    BY WordIsItem DEF TokenTypes
  <2> QED
    BY <2>1, KeywordIsGood
<1> HIDE DEF else
<1>8. d \in GoodInstrs /\ d \notin EndInstrs
  BY <1>7, GapIsNeither, EmitIsGood, Facts
<1>9. "ifsym" \in TokenTypes /\ "thensym" \in TokenTypes
  BY DEF TokenTypes
<1> HIDE DEF a, b, c, d, e
<1>10. <<a, b, c, d, e>> = <<a, b>> \o <<c, d, e>>
  OBVIOUS
<1> DEFINE body == <<c, d, e>>
<1>11. /\ body \in Seq(GoodInstrs) /\ body # <<>> /\ BodyApart(body)
       /\ body[Len(body)] \notin EndInstrs
  BY <1>5, <1>6, <1>8 DEF BodyApart, Apart
<1>12. PrintThen(<<Word("ifsym"), Gap>>, <<a, b>> \o body)
  BY <1>1, <1>10
<1> HIDE DEF body
<1> QED
  BY <1>1, <1>3, <1>9, <1>11, <1>12, CondStmtStep DEF a, b

-----------------------------------------------------------------------------
(* Conditions and expressions.                                             *)

\* Handing a node over to the function for its kind.
LEMMA HandOverStep ==
  ASSUME IInv, NEW f \in EndCalls, At(f), NEW g \in EndCalls,
         Arg \in 1 .. Len(heap), Node.tag \in Expected[g], Do(<<Call(g, Arg)>>)
  PROVE  IInv'
<1>1. f \in DOMAIN Expected /\ g \in DOMAIN Expected
  BY ExpectedTags DEF EndCalls
<1>2. Call(g, Arg) \in GoodInstrs
  BY <1>1, NodeCallIsGood DEF Call, Node
<1> QED
  BY <1>1, <1>2, OneInstrStep

LEMMA ConditionStep == ASSUME IInv, UnparseCondition PROVE IInv'
<1>1. At("unparseCondition") /\ "unparseCondition" \in EndCalls
  BY DEF UnparseCondition, EndCalls
<1>2. Arg \in 1 .. Len(heap) /\ Node.tag \in {"odd_cond_ast", "bin_cond_ast"}
  BY <1>1, NodeKnown, ExpectedTags DEF ListCalls, CondTags
<1>3. CASE Node.tag = "odd_cond_ast"
  <2>1. Do(<<Call("unparseOddCond", Arg)>>)
    BY <1>3 DEF UnparseCondition
  <2>2. "unparseOddCond" \in EndCalls /\ Node.tag \in Expected["unparseOddCond"]
    BY <1>3, ExpectedTags DEF EndCalls
  <2> QED
    BY <1>1, <1>2, <2>1, <2>2, HandOverStep
<1>4. CASE Node.tag = "bin_cond_ast"
  <2>1. Do(<<Call("unparseBinRelCond", Arg)>>)
    BY <1>4 DEF UnparseCondition
  <2>2. "unparseBinRelCond" \in EndCalls /\ Node.tag \in Expected["unparseBinRelCond"]
    BY <1>4, ExpectedTags DEF EndCalls
  <2> QED
    BY <1>1, <1>2, <2>1, <2>2, HandOverStep
<1> QED
  BY <1>2, <1>3, <1>4

LEMMA ExprStep == ASSUME IInv, UnparseExpr PROVE IInv'
<1>1. At("unparseExpr") /\ "unparseExpr" \in EndCalls
  BY DEF UnparseExpr, EndCalls
<1>2. /\ Arg \in 1 .. Len(heap)
      /\ Node.tag \in {"bin_expr_ast", "ident_ast", "number_ast"}
  BY <1>1, NodeKnown, ExpectedTags DEF ListCalls, ExprTags
<1>3. CASE Node.tag = "bin_expr_ast"
  <2>1. Do(<<Call("unparseBinExpr", Arg)>>)
    BY <1>3 DEF UnparseExpr
  <2>2. "unparseBinExpr" \in EndCalls /\ Node.tag \in Expected["unparseBinExpr"]
    BY <1>3, ExpectedTags DEF EndCalls
  <2> QED
    BY <1>1, <1>2, <2>1, <2>2, HandOverStep
<1>4. CASE Node.tag = "ident_ast"
  <2>1. Do(<<Call("unparseIdent", Arg)>>)
    BY <1>4 DEF UnparseExpr
  <2>2. "unparseIdent" \in EndCalls /\ Node.tag \in Expected["unparseIdent"]
    BY <1>4, ExpectedTags DEF EndCalls
  <2> QED
    BY <1>1, <1>2, <2>1, <2>2, HandOverStep
<1>5. CASE Node.tag = "number_ast"
  <2>1. Do(<<Call("unparseNumber", Arg)>>)
    BY <1>5 DEF UnparseExpr
  <2>2. "unparseNumber" \in EndCalls /\ Node.tag \in Expected["unparseNumber"]
    BY <1>5, ExpectedTags DEF EndCalls
  <2> QED
    BY <1>1, <1>2, <2>1, <2>2, HandOverStep
<1> QED
  BY <1>2, <1>3, <1>4, <1>5

LEMMA OddCondStep == ASSUME IInv, UnparseOddCond PROVE IInv'
<1> DEFINE words == <<Word("oddsym"), Gap>>
           a == Call("unparseExpr", Kid(1))
<1>1. At("unparseOddCond") /\ PrintThen(words, <<a>>)
  BY DEF UnparseOddCond
<1>2. /\ Arg \in 1 .. Len(heap) /\ Node.tag = "odd_cond_ast"
      /\ Head(rest) \in StartInstrs /\ Head(rest) \in EndInstrs
  BY <1>1, CallKnows, NodeKnown, ExpectedTags DEF ListCalls, EndCalls
<1>3. Points(heap, Arg, 1, ExprTags)
  BY <1>2, SlotsOfUnary, Facts DEF Node
<1>4. a \in GoodInstrs
  BY <1>3, NodeCallIsGood, ExpectedTags DEF Points, Kid, Node, Call
<1>5. Word("oddsym") \in Items
  BY WordIsItem DEF TokenTypes
<1>6. /\ words \in Seq(Items) /\ words # <<>> /\ WordsApart(words)
      /\ words[Len(words)] = Gap
  BY <1>5, KeywordIsGood
<1> HIDE DEF words, a
<1>7. Expands(Head(rest), words, <<a>>)
  BY <1>2, <1>4, <1>6, GapIsNeither DEF Expands, BodyApart, Apart
<1> QED
  BY <1>1, <1>7, ReplaceStep DEF At

\* Two operands around an operator.
LEMMA OperandsAreGood ==
  ASSUME IInv, Arg \in 1 .. Len(heap), Node.tag \in {"bin_cond_ast", "bin_expr_ast"}
  PROVE  /\ Call("unparseExpr", Kid(1)) \in GoodInstrs
         /\ Call("unparseExpr", Kid(2)) \in GoodInstrs
         /\ Emit(<<Gap>>) \in GoodInstrs
         /\ Emit(<<Gap>>) \notin StartInstrs
         /\ Emit(<<Gap>>) \notin EndInstrs
<1>1. Points(heap, Arg, 1, ExprTags) /\ Points(heap, Arg, 2, ExprTags)
  BY SlotsOfBinary, Facts DEF Node
<1>2. Call("unparseExpr", Kid(1)) \in GoodInstrs
  BY <1>1, NodeCallIsGood, ExpectedTags DEF Points, Kid, Node, Call
<1>3. Call("unparseExpr", Kid(2)) \in GoodInstrs
  BY <1>1, NodeCallIsGood, ExpectedTags DEF Points, Kid, Node, Call
<1> DEFINE gap == <<Gap>>
<1>4. /\ gap \in Seq(Items) /\ gap # <<>> /\ WordsApart(gap)
      /\ gap[1] = Gap /\ gap[Len(gap)] = Gap
  BY WordIsItem, KeywordIsGood
<1> HIDE DEF gap
<1>5. Emit(gap) \in GoodInstrs /\ Emit(gap) \notin StartInstrs /\ Emit(gap) \notin EndInstrs
  BY <1>4, GapIsNeither, EmitIsGood, Facts
<1> QED
  BY <1>2, <1>3, <1>5 DEF gap

LEMMA BinRelCondStep == ASSUME IInv, UnparseBinRelCond PROVE IInv'
<1> DEFINE a == Call("unparseExpr", Kid(1))
           b == Emit(<<Gap>>)
           c == Call("unparseRelOp", Arg)
           d == Call("unparseExpr", Kid(2))
<1>1. At("unparseBinRelCond") /\ PrintThen(<<>>, <<a, b, c, b, d>>)
  BY DEF UnparseBinRelCond, Do
<1>2. /\ Arg \in 1 .. Len(heap) /\ Node.tag = "bin_cond_ast"
      /\ Head(rest) \in StartInstrs /\ Head(rest) \in EndInstrs
  BY <1>1, CallKnows, NodeKnown, ExpectedTags DEF ListCalls, EndCalls
<1>3. /\ a \in GoodInstrs /\ d \in GoodInstrs
      /\ b \in GoodInstrs /\ b \notin StartInstrs /\ b \notin EndInstrs
  BY <1>2, OperandsAreGood
<1>4. c \in GoodInstrs
  BY <1>2, NodeCallIsGood, ExpectedTags DEF Node, Call
<1> HIDE DEF a, b, c, d
<1>5. Expands(Head(rest), <<>>, <<a, b, c, b, d>>)
  BY <1>2, <1>3, <1>4 DEF Expands, WordsApart, BodyApart, Apart
<1> QED
  BY <1>1, <1>5, ReplaceStep DEF At

LEMMA BinExprStep == ASSUME IInv, UnparseBinExpr PROVE IInv'
<1> DEFINE a == Call("unparseExpr", Kid(1))
           b == Emit(<<Gap>>)
           c == Call("unparseArithOp", Arg)
           d == Call("unparseExpr", Kid(2))
           left == <<Word("lparensym")>>
           right == <<Word("rparensym")>>
           e == Emit(right)
<1>1. At("unparseBinExpr") /\ PrintThen(left, <<a, b, c, b, d, e>>)
  BY DEF UnparseBinExpr
<1>2. /\ Arg \in 1 .. Len(heap) /\ Node.tag = "bin_expr_ast"
      /\ Head(rest) \in StartInstrs
  BY <1>1, CallKnows, NodeKnown, ExpectedTags DEF ListCalls
<1>3. /\ a \in GoodInstrs /\ d \in GoodInstrs
      /\ b \in GoodInstrs /\ b \notin StartInstrs /\ b \notin EndInstrs
  BY <1>2, OperandsAreGood
<1>4. c \in GoodInstrs
  BY <1>2, NodeCallIsGood, ExpectedTags DEF Node, Call
<1>5. /\ Word("lparensym") \in Items /\ Word("lparensym") \notin EndItems
      /\ Word("rparensym") \in Items
      /\ Word("rparensym") \notin StartItems /\ Word("rparensym") \notin EndItems
  BY SymbolIsNeither DEF SymbolSyms, RelOpSyms
<1>6. /\ left \in Seq(Items) /\ left # <<>> /\ WordsApart(left)
      /\ left[Len(left)] \notin EndItems
  BY <1>5, KeywordIsGood
<1>7. /\ right \in Seq(Items) /\ right # <<>> /\ WordsApart(right)
      /\ right[1] \notin StartItems /\ right[Len(right)] \notin EndItems
  BY <1>5, KeywordIsGood
<1> HIDE DEF left, right
<1>8. e \in GoodInstrs /\ e \notin StartInstrs /\ e \notin EndInstrs
  BY <1>7, EmitIsGood, Facts
<1> HIDE DEF a, b, c, d, e
<1>9. Expands(Head(rest), left, <<a, b, c, b, d, e>>)
  BY <1>2, <1>3, <1>4, <1>6, <1>8 DEF Expands, BodyApart, Apart
<1> QED
  BY <1>1, <1>9, ReplaceStep DEF At

\* An operator is printed, unless it is none.
LEMMA OpStep ==
  ASSUME IInv, UnparseRelOp \/ UnparseArithOp
  PROVE  IInv'
<1>1. CASE UnparseRelOp /\ Node.op \in RelOps
  <2> DEFINE words == <<Word(RelOpWord[Node.op])>>
  <2>1. At("unparseRelOp") /\ PrintThen(words, <<>>)
    BY <1>1 DEF UnparseRelOp, PrintOp, RelOpWord, RelOps
  <2>2. Word(RelOpWord[Node.op]) \in Items
    BY <1>1, WordIsItem DEF RelOpWord, RelOps, TokenTypes
  <2>3. words \in Seq(Items) /\ words # <<>> /\ WordsApart(words)
    BY <2>2, KeywordIsGood
  <2> HIDE DEF words
  <2> QED
    BY <2>1, <2>3, PrintStep, ExpectedTags DEF EndCalls
<1>2. CASE UnparseArithOp /\ Node.op \in ArithOps
  <2> DEFINE word == Word(ArithOpWord[Node.op])
             words == <<word>>
  <2>1. At("unparseArithOp") /\ PrintThen(words, <<>>)
    BY <1>2 DEF UnparseArithOp, PrintOp, ArithOpWord, ArithOps
  <2>2. word \in Items /\ word \notin EndItems
    <3>1. ArithOpWord[Node.op] \in SymbolSyms \ RelOpSyms
      BY <1>2 DEF ArithOpWord, ArithOps, SymbolSyms, RelOpSyms, SignSyms, MultDivSyms
    <3> QED
      BY <3>1, SymbolIsNeither
  <2> HIDE DEF word
  <2>3. /\ words \in Seq(Items) /\ words # <<>> /\ WordsApart(words)
        /\ words[Len(words)] \notin EndItems
    BY <2>2, KeywordIsGood
  <2> HIDE DEF words
  <2> QED
    BY <2>1, <2>3, PrintStep, ExpectedTags
<1>3. ASSUME bail_with_error, rest # <<>>,
             \/ Head(rest).do = "unparseRelOp" /\ Node.op \notin RelOps
             \/ Head(rest).do = "unparseArithOp" /\ Node.op \notin ArithOps
      PROVE  IInv'
  <2>1. status' = "bail" /\ heap' = heap /\ root' = root /\ rest' = rest /\ out' = out
    BY <1>3 DEF bail_with_error
  <2>2. BailsOnlyForOperators'
    BY <1>3, <2>1 DEF BailsOnlyForOperators, Node, Arg
  <2>3. GoodInstrs' = GoodInstrs
    BY <2>1 DEF GoodInstrs, Instrs, Fits
  <2> QED
    BY <2>1, <2>2, <2>3 DEF IInv
<1>4. CASE UnparseRelOp /\ Node.op \notin RelOps
  BY <1>3, <1>4 DEF UnparseRelOp, At, PrintOp, RelOpWord, RelOps
<1>5. CASE UnparseArithOp /\ Node.op \notin ArithOps
  BY <1>3, <1>5 DEF UnparseArithOp, At, PrintOp, ArithOpWord, ArithOps
<1> QED
  BY <1>1, <1>2, <1>4, <1>5

LEMMA IdentStep == ASSUME IInv, UnparseIdent PROVE IInv'
<1> DEFINE words == <<Name(Node.name)>>
<1>1. At("unparseIdent") /\ PrintThen(words, <<>>)
  BY DEF UnparseIdent
<1>2. Name(Node.name) \in Items
  BY <1>1, NodeKnown, ExpectedTags, WordIsItem DEF ListCalls
<1>3. words \in Seq(Items) /\ words # <<>> /\ WordsApart(words)
  BY <1>2, KeywordIsGood
<1> HIDE DEF words
<1> QED
  BY <1>1, <1>3, PrintStep, ExpectedTags DEF EndCalls

LEMMA NumberStep == ASSUME IInv, UnparseNumber PROVE IInv'
<1>1. At("unparseNumber") /\ PrintThen(Decimal(Node.num), <<>>)
  BY DEF UnparseNumber
<1>2. Node.num \in Int
  BY <1>1, NodeKnown, ExpectedTags DEF ListCalls
<1>3. /\ Decimal(Node.num) \in Seq(Items)
      /\ Decimal(Node.num) # <<>>
      /\ WordsApart(Decimal(Node.num))
  BY <1>2, DecimalIsGood
<1> QED
  BY <1>1, <1>3, PrintStep, ExpectedTags DEF EndCalls

LEMMA PrintWordsStep == ASSUME IInv, PrintWords PROVE IInv'
<1> DEFINE i == Head(rest)
<1>1. i \in GoodInstrs /\ i.do = "print" /\ status = "printing" /\ rest # <<>>
  BY DEF IInv, PrintWords, At
<1>2. i \in Instrs /\ i.words # <<>> /\ WordsApart(i.words)
  BY <1>1 DEF GoodInstrs
<1>3. i \in AnyInstrs /\ i.words \in Seq(Items)
  BY <1>2, Facts DEF Instrs, AnyInstrs
<1>4. PrintThen(i.words, <<>>)
  BY DEF PrintWords
<1> HIDE DEF i
<1>5. Expands(i, i.words, <<>>)
  BY <1>1, <1>2, <1>3 DEF Expands, BodyApart, Apart, StartInstrs, EndInstrs
<1> QED
  BY <1>1, <1>4, <1>5, ReplaceStep DEF i

-----------------------------------------------------------------------------
(* The invariant, and what follows from it.                                *)

\* Before the first step: nothing has been printed of a well-formed program.
Started ==
  /\ TreeOK(heap)
  /\ root \in 1 .. Len(heap)
  /\ heap[root].tag = "program_ast"
  /\ rest = <<Call("unparseProgram", root)>>
  /\ out = <<>>
  /\ status = "printing"

LEMMA StartInv == Started => IInv
<1> SUFFICES ASSUME Started PROVE IInv
  OBVIOUS
<1> DEFINE i == Call("unparseProgram", root)
<1>1. i \in GoodInstrs
  <2>1. root \in 0 .. Len(heap) /\ root # NULL /\ Len(heap) \in Nat
    BY DEF NULL, Started, TreeOK
  <2> QED
    BY <2>1, CallIsGood, ExpectedTags DEF Call, Started
<1> HIDE DEF i
<1> QED
  BY <1>1 DEF IInv, i, Started, BailsOnlyForOperators, WordsApart, BodyApart, Apart

LEMMA InitInv == Init => IInv
<1>1. Init => Started
  BY ProgramsAssumption DEF Init, Started, TreeOK
<1> QED
  BY <1>1, StartInv

LEMMA NextInv == ASSUME IInv, [Next]_vars PROVE IInv'
<1>1. ASSUME UNCHANGED <<heap, root, rest, out>>, status' \in {status, "printed"}
      PROVE  IInv'
  <2>1. GoodInstrs' = GoodInstrs
    BY <1>1 DEF GoodInstrs, Instrs, Fits
  <2>2. BailsOnlyForOperators'
    BY <1>1 DEF IInv, BailsOnlyForOperators, Node, Arg
  <2> QED
    BY <1>1, <2>1, <2>2 DEF IInv
<1>2. CASE Return
  BY <1>1, <1>2 DEF Return
<1>3. CASE UNCHANGED vars
  BY <1>1, <1>3 DEF vars
<1>4. CASE UnparseDecls
  BY <1>4, DeclLoopsStep, ConstDeclStep, VarDeclStep DEF UnparseDecls
<1>5. CASE UnparseStmts
  BY <1>5, StmtStep, AssignStep, BeginStep, StmtListStep, StmtsLoopStep, IfStep,
     WhileStep, ReadStep, WriteStep, SkipStep DEF UnparseStmts
<1>6. CASE UnparseExprs
  BY <1>6, ConditionStep, OddCondStep, BinRelCondStep, OpStep, ExprStep, BinExprStep,
     IdentStep, NumberStep DEF UnparseExprs
<1> QED
  BY <1>2, <1>3, <1>4, <1>5, <1>6, ProgramStep, BlockStep, PrintWordsStep
     DEF Next, Step, Stay

\* The unparser does not change the tree, and returns without printing.
LEMMA StepKeepsTree ==
  ASSUME Step
  PROVE  UNCHANGED <<heap, root>> /\ (status' # status => UNCHANGED out)
<1> DEFINE Kept == UNCHANGED <<heap, root>> /\ (status' # status => UNCHANGED out)
<1>1. ASSUME NEW words, NEW body, PrintThen(words, body)
      PROVE  Kept
  BY <1>1 DEF PrintThen
<1>2. CASE bail_with_error
  BY <1>2 DEF bail_with_error
<1> QED
  BY <1>1, <1>2 DEF Step, UnparseProgram, UnparseBlock, UnparseDecls, UnparseConstDecls,
     UnparseConstDecl, UnparseVarDecls, UnparseVarDecl, UnparseStmts, UnparseStmt,
     UnparseAssignStmt, UnparseBeginStmt, UnparseStmtList, StmtsLoop, UnparseIfStmt,
     UnparseWhileStmt, UnparseReadStmt, UnparseWriteStmt, UnparseSkipStmt, UnparseExprs,
     UnparseCondition, UnparseOddCond, UnparseBinRelCond, UnparseRelOp, UnparseExpr,
     UnparseBinExpr, UnparseArithOp, UnparseIdent, UnparseNumber, PrintWords, Return,
     DoList, DoStmts, PrintOp, Do

LEMMA IInvImpliesTypeOK == IInv => TypeOK
<1> SUFFICES ASSUME IInv PROVE TypeOK
  OBVIOUS
<1>1. rest \in Seq(Instrs) /\ \A k \in 1 .. Len(rest) : Fits(rest[k])
  BY DEF IInv, GoodInstrs
<1> QED
  BY <1>1 DEF IInv, TreeOK, TypeOK

LEMMA IInvImpliesWordsStayApart == IInv => WordsStayApart
<1> SUFFICES ASSUME IInv, NEW k \in 1 .. Len(out) - 1, Merge(out[k].typ, out[k + 1].typ)
             PROVE  FALSE
  BY DEF WordsStayApart
<1>1. out[k] \in Items /\ out[k + 1] \in Items
  BY DEF IInv
<1>2. out[k].typ \in TokenTypes \cup {"gap"} /\ out[k + 1].typ \in TokenTypes \cup {"gap"}
  BY <1>1 DEF Items
<1>3. out[k] \in EndItems
  BY <1>1, <1>2 DEF EndItems, Merge
<1>4. out[k + 1] \in StartItems
  BY <1>1, <1>2 DEF StartItems, Merge
<1> QED
  BY <1>3, <1>4 DEF IInv, WordsApart, Apart

LEMMA Invariant == Spec => []IInv
BY InitInv, NextInv, PTL DEF Spec

\* For every well-formed tree, each function is called with a node of the kind
\* it expects, so that it reads the fields of the right member of the union.
THEOREM TypeCorrect == Spec => []TypeOK
BY Invariant, IInvImpliesTypeOK, PTL

\* For every well-formed tree, the walk can bail out only at an operator that
\* is none of the enum's values, as the parser leaves in a condition without one.
THEOREM OnlyOperatorsFail == Spec => []BailsOnlyForOperators
<1>1. IInv => BailsOnlyForOperators
  BY DEF IInv
<1> QED
  BY <1>1, Invariant, PTL

\* For every well-formed tree, no two words are printed without a gap that the
\* lexer would read as one: the output has the tokens that were meant.
THEOREM NoWordsMerge == Spec => []WordsStayApart
BY Invariant, IInvImpliesWordsStayApart, PTL

-----------------------------------------------------------------------------
(* The tokens of what is printed, one item after the other.                *)

Found(items, n, found) ==
  found = [k \in 0 .. n |-> IF k = 0 THEN <<>> ELSE AddToken(found[k - 1], items[k])]

LEMMA FoundExists ==
  ASSUME NEW items, NEW n \in Nat
  PROVE  \E found : Found(items, n, found)
<1> DEFINE P == {k \in 0 .. n : \E found : Found(items, k, found)}
<1>1. 0 \in P
  <2> DEFINE h == [i \in 0 .. 0 |-> <<>>]
  <2>1. Found(items, 0, h)
    BY DEF Found
  <2> HIDE DEF h
  <2> QED
    BY <2>1
<1>2. ASSUME NEW k \in 0 .. n - 1, k \in P
      PROVE  k + 1 \in P
  <2>1. PICK h : Found(items, k, h)
    BY <1>2
  <2> DEFINE g == [i \in 0 .. k + 1 |-> IF i <= k THEN h[i] ELSE AddToken(h[k], items[k + 1])]
  <2>2. g = [i \in 0 .. k + 1 |-> IF i = 0 THEN <<>> ELSE AddToken(g[i - 1], items[i])]
    <3>1. ASSUME NEW i \in 0 .. k + 1
          PROVE  g[i] = IF i = 0 THEN <<>> ELSE AddToken(g[i - 1], items[i])
      <4>1. CASE i <= k
        <5>1. i \in 0 .. k /\ g[i] = h[i] /\ (i # 0 => i - 1 \in 0 .. k + 1 /\ g[i - 1] = h[i - 1])
          BY <4>1
        <5>2. h[i] = IF i = 0 THEN <<>> ELSE AddToken(h[i - 1], items[i])
          BY <2>1, <5>1 DEF Found
        <5> HIDE DEF g
        <5> QED
          BY <5>1, <5>2
      <4>2. CASE i = k + 1
        <5>1. i # 0 /\ i - 1 = k /\ g[i] = AddToken(h[k], items[k + 1]) /\ g[k] = h[k]
          BY <4>2
        <5> HIDE DEF g
        <5> QED
          BY <4>2, <5>1
      <4> QED
        BY <4>1, <4>2
    <3>2. g = [i \in 0 .. k + 1 |-> g[i]]
      OBVIOUS
    <3> HIDE DEF g
    <3> QED
      BY <3>1, <3>2
  <2>3. Found(items, k + 1, g)
    <3> HIDE DEF g
    <3> QED
      BY <2>2 DEF Found
  <2> HIDE DEF g
  <2> QED
    BY <1>2, <2>3
<1>3. \A k \in 0 .. n : k \in P
  <2> HIDE DEF P
  <2> QED
    BY ONLY n \in Nat, <1>1, <1>2, Upward
<1> QED
  BY <1>3

LEMMA TokensOfIs ==
  ASSUME NEW items, Len(items) \in Nat
  PROVE  \E found : Found(items, Len(items), found) /\ TokensOf(items) = found[Len(items)]
<1> DEFINE chosen == CHOOSE found : Found(items, Len(items), found)
<1>1. \E found : Found(items, Len(items), found)
  BY FoundExists
<1>2. Found(items, Len(items), chosen)
  BY <1>1
<1>3. TokensOf(items) = chosen[Len(items)]
  BY DEF TokensOf, Found
<1> HIDE DEF chosen
<1> QED
  BY <1>2, <1>3

LEMMA FoundUnique ==
  ASSUME NEW v, NEW w, NEW m \in Nat, NEW n \in Nat, NEW g, NEW h, m <= n,
         \A k \in 1 .. m : v[k] = w[k], Found(v, m, g), Found(w, n, h)
  PROVE  g[m] = h[m]
<1> DEFINE P == {k \in 0 .. m : g[k] = h[k]}
<1>1. 0 \in P
  BY DEF Found
<1>2. ASSUME NEW k \in 0 .. m - 1, k \in P
      PROVE  k + 1 \in P
  <2>1. /\ k + 1 \in 0 .. m /\ k + 1 \in 0 .. n /\ k + 1 # 0 /\ (k + 1) - 1 = k
        /\ v[k + 1] = w[k + 1]
    OBVIOUS
  <2>2. g[k + 1] = AddToken(g[(k + 1) - 1], v[k + 1])
    BY <2>1 DEF Found
  <2>3. h[k + 1] = AddToken(h[(k + 1) - 1], w[k + 1])
    BY <2>1 DEF Found
  <2> QED
    BY <1>2, <2>1, <2>2, <2>3
<1>3. \A k \in 0 .. m : k \in P
  <2> HIDE DEF P
  <2> QED
    BY ONLY m \in Nat, <1>1, <1>2, Upward
<1> QED
  BY <1>3

LEMMA TokensOfNothing == TokensOf(<<>>) = <<>>
<1>1. PICK found : Found(<<>>, 0, found) /\ TokensOf(<<>>) = found[0]
  BY TokensOfIs
<1> QED
  BY <1>1 DEF Found

\* The lemma for a sequence of which only the length is known.
LEMMA TokensOfLonger ==
  ASSUME NEW v, NEW w, NEW item, NEW m \in Nat, Len(v) = m, Len(w) = m + 1,
         w[m + 1] = item, \A k \in 1 .. m : v[k] = w[k]
  PROVE  TokensOf(w) = AddToken(TokensOf(v), item)
<1>1. PICK g : Found(v, m, g) /\ TokensOf(v) = g[m]
  BY TokensOfIs
<1>2. m + 1 \in Nat /\ m <= m + 1 /\ m + 1 \in 0 .. m + 1 /\ m + 1 # 0 /\ (m + 1) - 1 = m
  OBVIOUS
<1>3. PICK h : Found(w, m + 1, h) /\ TokensOf(w) = h[m + 1]
  BY <1>2, TokensOfIs
<1>4. g[m] = h[m]
  BY <1>1, <1>2, <1>3, FoundUnique
<1>5. h[m + 1] = AddToken(h[(m + 1) - 1], w[m + 1])
  BY <1>2, <1>3 DEF Found
<1> QED
  BY <1>1, <1>2, <1>3, <1>4, <1>5

LEMMA TokensOfAppend ==
  ASSUME NEW items \in Seq(Items), NEW item \in Items
  PROVE  TokensOf(Append(items, item)) = AddToken(TokensOf(items), item)
<1>1. PICK v, w : v = items /\ w = Append(items, item)
  OBVIOUS
<1>2. PICK m \in Nat : m = Len(v)
  BY <1>1
<1>3. /\ Len(w) = m + 1 /\ w[m + 1] = item
      /\ \A k \in 1 .. m : v[k] = w[k]
  BY <1>1, <1>2
<1>4. TokensOf(w) = AddToken(TokensOf(v), item)
  BY ONLY <1>2, <1>3, TokensOfLonger
<1> QED
  BY <1>1, <1>4

-----------------------------------------------------------------------------
(* Forms of the grammar of the comments, and what printing does to them.   *)

Cons(A, f) == <<A>> \o f
\* Concatenation, as an operator that the provers do not look into.
Glued(v, t) == v \o t

\* What has been printed can be followed by whatever f derives.
Reaches(items, f) ==
  /\ items \in Seq(Items)
  /\ Form(f)
  /\ Settled(DocumentedRightSides, {f})
       \subseteq FormsAfter(DocumentedRightSides, TokensOf(items))

\* Printing words turns f into g.
Turns(f, words, g) == \A items \in Seq(Items) : Reaches(items, f) => Reaches(items \o words, g)

LEMMA ConsIs ==
  ASSUME NEW A \in GrammarSymbols, NEW f \in Seq(GrammarSymbols)
  PROVE  /\ Cons(A, f) \in Seq(GrammarSymbols)
         /\ Cons(A, f) # <<>>
         /\ Cons(A, f)[1] = A
         /\ Tail(Cons(A, f)) = f
BY DEF Cons

LEMMA TurnsStay ==
  ASSUME NEW f
  PROVE  Turns(f, <<>>, f)
<1> SUFFICES ASSUME NEW items \in Seq(Items), Reaches(items, f)
             PROVE  Reaches(items \o <<>>, f)
  BY DEF Turns
<1>1. items \o <<>> = items
  OBVIOUS
<1> QED
  BY <1>1

LEMMA TurnsOn ==
  ASSUME NEW f, NEW g, NEW h, NEW u \in Seq(Items), NEW v \in Seq(Items),
         Turns(f, u, g), Turns(g, v, h)
  PROVE  Turns(f, u \o v, h)
<1> SUFFICES ASSUME NEW items \in Seq(Items), Reaches(items, f)
             PROVE  Reaches(items \o (u \o v), h)
  BY DEF Turns
<1>1. items \o u \in Seq(Items) /\ (items \o u) \o v = items \o (u \o v)
  OBVIOUS
<1>2. Reaches(items \o u, g)
  BY DEF Turns
<1>3. Reaches((items \o u) \o v, h)
  BY <1>1, <1>2 DEF Turns
<1> QED
  BY <1>1, <1>3

\* A step that prints nothing may come before or after.
LEMMA TurnsQuiet ==
  ASSUME NEW f, NEW g, NEW h, NEW u \in Seq(Items)
  PROVE  /\ Turns(f, <<>>, g) /\ Turns(g, u, h) => Turns(f, u, h)
         /\ Turns(f, u, g) /\ Turns(g, <<>>, h) => Turns(f, u, h)
<1>1. <<>> \in Seq(Items) /\ <<>> \o u = u /\ u \o <<>> = u
  OBVIOUS
<1> QED
  BY <1>1, TurnsOn

LEMMA TurnsGap ==
  ASSUME NEW f
  PROVE  Turns(f, <<Gap>>, f)
<1> SUFFICES ASSUME NEW items \in Seq(Items), Reaches(items, f)
             PROVE  Reaches(items \o <<Gap>>, f)
  BY DEF Turns
<1>1. Gap \in Items
  BY WordIsItem
<1>2. items \o <<Gap>> = Append(items, Gap) /\ Append(items, Gap) \in Seq(Items)
  BY <1>1
<1>3. TokensOf(Append(items, Gap)) = TokensOf(items)
  BY <1>1, TokensOfAppend DEF AddToken
<1> QED
  BY <1>2, <1>3 DEF Reaches

LEMMA TokensOfType ==
  ASSUME NEW items \in Seq(Items)
  PROVE  TokensOf(items) \in Seq(TokenTypes \cup {"gap"})
<1> DEFINE P == {k \in 0 .. Len(items) :
                   \A found : Found(items, Len(items), found) => found[k] \in Seq(TokenTypes \cup {"gap"})}
<1>1. 0 \in P
  <2>1. ASSUME NEW found, Found(items, Len(items), found)
        PROVE  found[0] \in Seq(TokenTypes \cup {"gap"})
    <3>1. found[0] = <<>>
      BY <2>1 DEF Found
    <3> QED
      BY <3>1
  <2> QED
    BY <2>1
<1>2. ASSUME NEW k \in 0 .. Len(items) - 1, k \in P
      PROVE  k + 1 \in P
  <2>1. ASSUME NEW found, Found(items, Len(items), found)
        PROVE  found[k + 1] \in Seq(TokenTypes \cup {"gap"})
    <3>1. k + 1 \in 0 .. Len(items) /\ k + 1 # 0 /\ (k + 1) - 1 = k /\ items[k + 1] \in Items
      OBVIOUS
    <3>2. found[k + 1] = AddToken(found[(k + 1) - 1], items[k + 1])
      BY <2>1, <3>1 DEF Found
    <3>3. found[k] \in Seq(TokenTypes \cup {"gap"})
      BY <1>2, <2>1
    <3>4. items[k + 1].typ \in TokenTypes \cup {"gap"}
      BY <3>1 DEF Items
    <3> QED
      BY <3>1, <3>2, <3>3, <3>4 DEF AddToken
  <2> QED
    BY <2>1
<1>3. \A k \in 0 .. Len(items) : k \in P
  <2> HIDE DEF P
  <2> QED
    BY ONLY items \in Seq(Items), <1>1, <1>2, Upward
<1>4. PICK found : Found(items, Len(items), found) /\ TokensOf(items) = found[Len(items)]
  BY TokensOfIs
<1> QED
  BY <1>3, <1>4

\* A word is the next terminal.
LEMMA TurnsWord ==
  ASSUME NEW x \in Items, NEW c \in TokenTypes, x.typ = c, NEW f \in Seq(GrammarSymbols)
  PROVE  Turns(Cons(c, f), <<x>>, f)
<1> SUFFICES ASSUME NEW items \in Seq(Items), Reaches(items, Cons(c, f))
             PROVE  Reaches(items \o <<x>>, f)
  BY DEF Turns
<1> DEFINE g == Cons(c, f)
<1>0. PICK tokens : tokens = TokensOf(items)
  OBVIOUS
<1>1. c \in GrammarSymbols /\ c # "gap"
  BY DEF GrammarSymbols, TokenTypes
<1>2. g \in Seq(GrammarSymbols) /\ g # <<>> /\ g[1] = c /\ Tail(g) = f
  BY <1>1, ConsIs
<1>3. items \o <<x>> = Append(items, x) /\ Append(items, x) \in Seq(Items)
  OBVIOUS
<1>4. TokensOf(Append(items, x)) = Append(tokens, c)
  <2>1. x # Gap
    BY <1>1, WordIsItem
  <2>2. TokensOf(Append(items, x)) = AddToken(TokensOf(items), x)
    BY ONLY x \in Items, items \in Seq(Items), TokensOfAppend
  <2> QED
    BY <1>0, <2>1, <2>2 DEF AddToken
<1>5. Form(g) /\ Settled(DocumentedRightSides, {g}) \subseteq FormsAfter(DocumentedRightSides, tokens)
  BY <1>0 DEF Reaches
<1>6. tokens \in Seq(TokenTypes \cup {"gap"})
  BY <1>0, TokensOfType
<1> HIDE DEF g
<1>7. g \in FormsAfter(DocumentedRightSides, tokens)
  <2>1. IsSettled(g)
    BY <1>1, <1>2 DEF IsSettled
  <2>2. Settled(DocumentedRightSides, {g}) = {g}
    BY <1>5, <2>1, SettledSettled
  <2> QED
    BY <1>5, <2>2
<1>8. Form(f)
  BY <1>2, <1>5, FormTail
<1>9. FormsAfter(DocumentedRightSides, Append(tokens, c))
        = Shift(DocumentedRightSides, FormsAfter(DocumentedRightSides, tokens), c)
  BY ONLY <1>1, <1>6, FormsAfterAppend
<1>10. \A y : y \in Shift(DocumentedRightSides, FormsAfter(DocumentedRightSides, tokens), c)
                <=> \E h \in FormsAfter(DocumentedRightSides, tokens) :
                       h # <<>> /\ h[1] = c /\ y \in Settled(DocumentedRightSides, {Tail(h)})
  BY ShiftIs
<1>11. Settled(DocumentedRightSides, {f}) \subseteq FormsAfter(DocumentedRightSides, Append(tokens, c))
  BY <1>2, <1>7, <1>9, <1>10
<1> QED
  BY <1>3, <1>4, <1>8, <1>11 DEF Reaches

LEMMA TurnsAct ==
  ASSUME NEW f \in Seq(GrammarSymbols)
  PROVE  Turns(Cons("act", f), <<>>, f)
<1> SUFFICES ASSUME NEW items \in Seq(Items), Reaches(items, Cons("act", f))
             PROVE  Reaches(items \o <<>>, f)
  BY DEF Turns
<1> DEFINE g == Cons("act", f)
<1>1. "act" \in GrammarSymbols
  BY DEF GrammarSymbols
<1>2. g \in Seq(GrammarSymbols) /\ g # <<>> /\ g[1] = "act" /\ Tail(g) = f
  BY <1>1, ConsIs
<1>3. items \o <<>> = items
  OBVIOUS
<1>4. Form(g) /\ Settled(DocumentedRightSides, {g})
                   \subseteq FormsAfter(DocumentedRightSides, TokensOf(items))
  BY DEF Reaches
<1> HIDE DEF g
<1>5. Settled(DocumentedRightSides, {Tail(g)}) = Settled(DocumentedRightSides, {g})
  BY ONLY <1>2, SettledAct
<1>6. Form(f)
  BY <1>2, <1>4, FormTail
<1> QED
  BY <1>2, <1>3, <1>4, <1>5, <1>6 DEF Reaches

\* The nonterminal at the head of a form is rewritten.
LEMMA TurnsOpen ==
  ASSUME NEW A \in Nonterminals, NEW rhs, <<A, rhs>> \in DocumentedRules,
         NEW f \in Seq(GrammarSymbols)
  PROVE  Turns(Cons(A, f), <<>>, Glued(rhs, f))
<1> SUFFICES ASSUME NEW items \in Seq(Items), Reaches(items, Cons(A, f))
             PROVE  Reaches(items \o <<>>, rhs \o f)
  BY DEF Turns, Glued
<1> DEFINE g == Cons(A, f)
<1>1. A \in GrammarSymbols /\ A # "act"
  BY SymbolKinds DEF GrammarSymbols
<1>2. g \in Seq(GrammarSymbols) /\ g # <<>> /\ g[1] = A /\ Tail(g) = f
  BY <1>1, ConsIs
<1>3. items \o <<>> = items
  OBVIOUS
<1>4. Form(g) /\ Settled(DocumentedRightSides, {g})
                   \subseteq FormsAfter(DocumentedRightSides, TokensOf(items))
  BY DEF Reaches
<1> HIDE DEF g
<1>5. \E rule \in DocumentedRules : rule[1] = A /\ rule[2] = rhs
  OBVIOUS
<1>6. DocumentedRules \in GrammarRules
  BY DEF GrammarRules
<1>7. rhs \in RightSides(DocumentedRules)[A]
  BY <1>5, <1>6, RightSidesAre
<1>8. RuleFits(A, rhs)
  BY <1>6, <1>7, RightSidesAre
<1>9. Form(rhs \o f)
  BY <1>1, <1>2, <1>4, <1>8, RewriteForm
<1>10. \A h : h \in Settled(DocumentedRightSides, {g})
                <=> \E r \in DocumentedRightSides[g[1]] :
                       h \in Settled(DocumentedRightSides, {r \o Tail(g)})
  BY <1>2, <1>4, <1>6, SettledOpen DEF DocumentedRightSides
<1>11. Settled(DocumentedRightSides, {rhs \o f}) \subseteq Settled(DocumentedRightSides, {g})
  BY <1>2, <1>7, <1>10 DEF DocumentedRightSides
<1> QED
  BY <1>3, <1>4, <1>9, <1>11 DEF Reaches

-----------------------------------------------------------------------------
(* What an instruction prints, as a step from one form to another.         *)

\* The symbols that a call derives.
Derives ==
  [unparseProgram |-> <<"program">>, unparseBlock |-> <<"block">>,
   unparseConstDecls |-> <<"more-const-decls">>,
   unparseConstDecl |-> <<"constsym", "const-decl", "act", "semisym">>,
   unparseVarDecls |-> <<"more-var-decls">>,
   unparseVarDecl |-> <<"varsym", "var-decl", "act", "semisym">>,
   unparseStmt |-> <<"stmt">>, unparseStmtList |-> <<"stmt", "act", "stmt-list">>,
   stmtsLoop |-> <<"semi-stmts">>,
   unparseAssignStmt |-> <<"assign-stmt">>, unparseBeginStmt |-> <<"begin-stmt">>,
   unparseIfStmt |-> <<"if-stmt">>, unparseWhileStmt |-> <<"while-stmt">>,
   unparseReadStmt |-> <<"read-stmt">>, unparseWriteStmt |-> <<"write-stmt">>,
   unparseSkipStmt |-> <<"skip-stmt">>,
   unparseCondition |-> <<"condition">>, unparseOddCond |-> <<"oddsym", "expr", "act">>,
   unparseBinRelCond |-> <<"expr", "rel-op-expr">>, unparseRelOp |-> <<"rel-op-expr">>,
   unparseExpr |-> <<"factor">>, unparseBinExpr |-> <<"factor">>,
   unparseArithOp |-> <<"mult-div-factors", "add-sub-terms">>,
   unparseIdent |-> <<"factor">>, unparseNumber |-> <<"factor">>]

\* What is at the head of the form when a function is called: the separator of
\* two statements has been printed before the loop goes on with the second.
Before(i) == IF i.do = "stmtsLoop" /\ i.p # NULL THEN <<"stmt", "act", "semi-stmts">>
             ELSE Derives[i.do]

\* What is left there when it returns: an operator leaves its right operand.
After(h, i) ==
  IF i.do = "unparseRelOp" THEN <<"expr", "act">>
  ELSE IF i.do # "unparseArithOp" THEN <<>>
  ELSE IF h[i.p].op \in {"multop", "divop"}
  THEN <<"factor", "act", "act", "mult-div-factors", "add-sub-terms">>
  ELSE <<"term", "act", "act", "add-sub-terms">>

\* The functions with the argument addSemiToEnd.
SemiCalls ==
  {"unparseStmt", "unparseAssignStmt", "unparseBeginStmt", "unparseIfStmt",
   "unparseWhileStmt", "unparseReadStmt", "unparseWriteStmt", "unparseSkipStmt"}

SemiWords(semi) == IF semi THEN <<Word("semisym")>> ELSE <<>>

\* The semicolon that a call prints at its end.
EndWords(i) == IF i.do \in SemiCalls THEN SemiWords(i.semi) ELSE <<>>

\* Executing i turns f into g.
Effect(h, i, f, g) ==
  IF i.do = "print" THEN Turns(f, i.words, g)
  ELSE \E t \in Seq(GrammarSymbols) :
         Turns(f, <<>>, Glued(Before(i), t)) /\ Turns(Glued(After(h, i), t), EndWords(i), g)

\* Executing the instructions of r, one after the other, turns f into g.
Path(h, r, f, g) ==
  \E F : /\ F[1] = f
         /\ F[Len(r) + 1] = g
         /\ \A k \in 1 .. Len(r) : Effect(h, r[k], F[k], F[k + 1])

LEMMA PathNothing ==
  ASSUME NEW h, NEW f
  PROVE  Path(h, <<>>, f, f)
<1> DEFINE F == [k \in {1} |-> f]
<1>1. F[1] = f /\ F[Len(<<>>) + 1] = f
  OBVIOUS
<1> HIDE DEF F
<1> QED
  BY <1>1 DEF Path

LEMMA PathConcat ==
  ASSUME NEW h, NEW r \in Seq(AnyInstrs), NEW s \in Seq(AnyInstrs), NEW f, NEW g, NEW e,
         Path(h, r, f, g), Path(h, s, g, e)
  PROVE  Path(h, r \o s, f, e)
<1>1. PICK F : /\ F[1] = f
               /\ F[Len(r) + 1] = g
               /\ \A k \in 1 .. Len(r) : Effect(h, r[k], F[k], F[k + 1])
  BY DEF Path
<1>2. PICK G : /\ G[1] = g
               /\ G[Len(s) + 1] = e
               /\ \A k \in 1 .. Len(s) : Effect(h, s[k], G[k], G[k + 1])
  BY DEF Path
<1>3. PICK n \in Nat : n = Len(r)
  OBVIOUS
<1>4. PICK m \in Nat : m = Len(s)
  OBVIOUS
<1> DEFINE E == [k \in 1 .. n + m + 1 |-> IF k <= n THEN F[k] ELSE G[k - n]]
<1>5. Len(r \o s) = n + m
  BY <1>3, <1>4
<1>6. \A k \in 1 .. n + 1 : E[k] = F[k]
  <2> SUFFICES ASSUME NEW k \in 1 .. n + 1 PROVE E[k] = F[k]
    OBVIOUS
  <2>1. CASE k <= n
    BY <2>1
  <2>2. CASE k = n + 1
    <3>1. E[k] = G[1] /\ F[k] = g
      BY <1>1, <1>3, <2>2
    <3> QED
      BY <1>2, <3>1
  <2> QED
    BY <2>1, <2>2
<1>7. \A k \in 1 .. m + 1 : E[k + n] = G[k]
  OBVIOUS
<1> HIDE DEF E
<1>8. E[1] = f /\ E[n + m + 1] = e
  <2>1. E[1] = F[1] /\ E[(m + 1) + n] = G[m + 1] /\ (m + 1) + n = n + m + 1
    BY <1>6, <1>7
  <2> QED
    BY <1>1, <1>2, <1>4, <2>1
<1>9. ASSUME NEW k \in 1 .. n + m
      PROVE  Effect(h, (r \o s)[k], E[k], E[k + 1])
  <2>1. CASE k <= n
    <3>1. (r \o s)[k] = r[k] /\ E[k] = F[k] /\ E[k + 1] = F[k + 1] /\ k \in 1 .. Len(r)
      BY <1>3, <1>6, <2>1
    <3> QED
      BY <1>1, <3>1
  <2>2. CASE k > n
    <3>1. PICK j \in 1 .. m : k = j + n
      <4>1. k - n \in 1 .. m /\ k = (k - n) + n
        BY <2>2
      <4> QED
        BY <4>1
    <3>2. (r \o s)[k] = s[j] /\ j \in 1 .. Len(s)
      BY <1>3, <1>4, <3>1
    <3>3. E[k] = G[j] /\ E[k + 1] = G[j + 1]
      <4>1. k + 1 = (j + 1) + n
        BY <3>1
      <4> QED
        BY <1>7, <3>1, <4>1
    <3> QED
      BY <1>2, <3>2, <3>3
  <2>3. k <= n \/ k > n
    OBVIOUS
  <2> QED
    BY ONLY <2>1, <2>2, <2>3
<1> QED
  BY <1>5, <1>8, <1>9 DEF Path

LEMMA PathSplit ==
  ASSUME NEW h, NEW r \in Seq(AnyInstrs), r # <<>>, NEW f, NEW g, Path(h, r, f, g)
  PROVE  \E e : Effect(h, Head(r), f, e) /\ Path(h, Tail(r), e, g)
<1>1. PICK F : /\ F[1] = f
               /\ F[Len(r) + 1] = g
               /\ \A k \in 1 .. Len(r) : Effect(h, r[k], F[k], F[k + 1])
  BY DEF Path
<1>2. PICK n \in Nat \ {0} : n = Len(r)
  OBVIOUS
<1>3. Effect(h, Head(r), f, F[2])
  <2>1. Head(r) = r[1] /\ 1 \in 1 .. Len(r)
    OBVIOUS
  <2> QED
    BY <1>1, <2>1
<1> DEFINE G == [k \in 1 .. n |-> F[k + 1]]
<1>4. /\ G[1] = F[2] /\ G[n] = F[n + 1]
      /\ \A k \in 1 .. n - 1 : G[k] = F[k + 1] /\ G[k + 1] = F[(k + 1) + 1]
  OBVIOUS
<1> HIDE DEF G
<1>5. Len(Tail(r)) = n - 1 /\ (n - 1) + 1 = n
  BY <1>2
<1>6. ASSUME NEW k \in 1 .. n - 1
      PROVE  Effect(h, Tail(r)[k], G[k], G[k + 1])
  <2>1. Tail(r)[k] = r[k + 1] /\ k + 1 \in 1 .. Len(r)
    BY <1>2
  <2> QED
    BY <1>1, <1>4, <2>1
<1>7. Path(h, Tail(r), F[2], g)
  BY <1>1, <1>2, <1>4, <1>5, <1>6 DEF Path
<1> QED
  BY <1>3, <1>7

LEMMA PathOne ==
  ASSUME NEW h, NEW i, NEW f, NEW g, Effect(h, i, f, g)
  PROVE  Path(h, <<i>>, f, g)
<1> DEFINE F == [k \in 1 .. 2 |-> IF k = 1 THEN f ELSE g]
<1>1. F[1] = f /\ F[2] = g
  OBVIOUS
<1> HIDE DEF F
<1>2. Len(<<i>>) + 1 = 2 /\ <<i>>[1] = i /\ 1 .. Len(<<i>>) = {1}
  OBVIOUS
<1>3. \A k \in 1 .. Len(<<i>>) : Effect(h, <<i>>[k], F[k], F[k + 1])
  BY <1>1, <1>2
<1> QED
  BY <1>1, <1>2, <1>3 DEF Path

LEMMA PathTwo ==
  ASSUME NEW h, NEW a \in AnyInstrs, NEW b \in AnyInstrs, NEW f, NEW g, NEW e,
         Effect(h, a, f, g), Effect(h, b, g, e)
  PROVE  Path(h, <<a, b>>, f, e)
<1>1. <<a>> \in Seq(AnyInstrs) /\ <<b>> \in Seq(AnyInstrs)
  OBVIOUS
<1>3. <<a, b>> = <<a>> \o <<b>>
  <2> DEFINE u == <<a>> \o <<b>>
             v == <<a, b>>
  <2>1. u \in Seq(AnyInstrs) /\ Len(u) = 2 /\ u[1] = a /\ u[2] = b
    OBVIOUS
  <2>2. v \in Seq(AnyInstrs) /\ Len(v) = 2 /\ v[1] = a /\ v[2] = b
    OBVIOUS
  <2> HIDE DEF u, v
  <2>3. u = v
    BY <2>1, <2>2
  <2> QED
    BY <2>3 DEF u, v
<1>2. Path(h, <<a>>, f, g) /\ Path(h, <<b>>, g, e)
  BY PathOne
<1> QED
  BY <1>1, <1>2, <1>3, PathConcat

LEMMA PathThree ==
  ASSUME NEW h, NEW a \in AnyInstrs, NEW b \in AnyInstrs, NEW c \in AnyInstrs,
         NEW f1, NEW f2, NEW f3, NEW f4,
         Effect(h, a, f1, f2), Effect(h, b, f2, f3), Effect(h, c, f3, f4)
  PROVE  Path(h, <<a, b, c>>, f1, f4)
<1>1. <<a, b, c>> = <<a>> \o <<b, c>> /\ <<a>> \in Seq(AnyInstrs) /\ <<b, c>> \in Seq(AnyInstrs)
  OBVIOUS
<1>2. Path(h, <<a>>, f1, f2) /\ Path(h, <<b, c>>, f2, f4)
  BY PathOne, PathTwo
<1> QED
  BY <1>1, <1>2, PathConcat

LEMMA PathFive ==
  ASSUME NEW h, NEW a \in AnyInstrs, NEW b \in AnyInstrs, NEW c \in AnyInstrs,
         NEW d \in AnyInstrs, NEW e \in AnyInstrs,
         NEW f1, NEW f2, NEW f3, NEW f4, NEW f5, NEW f6,
         Effect(h, a, f1, f2), Effect(h, b, f2, f3), Effect(h, c, f3, f4),
         Effect(h, d, f4, f5), Effect(h, e, f5, f6)
  PROVE  Path(h, <<a, b, c, d, e>>, f1, f6)
<1>1. /\ <<a, b, c, d, e>> = <<a, b>> \o <<c, d, e>>
      /\ <<a, b>> \in Seq(AnyInstrs) /\ <<c, d, e>> \in Seq(AnyInstrs)
  OBVIOUS
<1>2. Path(h, <<a, b>>, f1, f3) /\ Path(h, <<c, d, e>>, f3, f6)
  BY PathTwo, PathThree
<1> QED
  BY <1>1, <1>2, PathConcat

LEMMA PathSix ==
  ASSUME NEW h, NEW a \in AnyInstrs, NEW b \in AnyInstrs, NEW c \in AnyInstrs,
         NEW d \in AnyInstrs, NEW e \in AnyInstrs, NEW i \in AnyInstrs,
         NEW f1, NEW f2, NEW f3, NEW f4, NEW f5, NEW f6, NEW f7,
         Effect(h, a, f1, f2), Effect(h, b, f2, f3), Effect(h, c, f3, f4),
         Effect(h, d, f4, f5), Effect(h, e, f5, f6), Effect(h, i, f6, f7)
  PROVE  Path(h, <<a, b, c, d, e, i>>, f1, f7)
<1>1. /\ <<a, b, c, d, e, i>> = <<a, b, c>> \o <<d, e, i>>
      /\ <<a, b, c>> \in Seq(AnyInstrs) /\ <<d, e, i>> \in Seq(AnyInstrs)
  OBVIOUS
<1>2. Path(h, <<a, b, c>>, f1, f4) /\ Path(h, <<d, e, i>>, f4, f7)
  BY PathThree
<1> QED
  BY <1>1, <1>2, PathConcat

\* The effect of printing words.
LEMMA EmitEffect ==
  ASSUME NEW h, NEW words, NEW f, NEW g, Turns(f, words, g)
  PROVE  Effect(h, Emit(words), f, g)
BY DEF Effect, Emit

\* The effect of a call.
LEMMA CallEffect ==
  ASSUME NEW h, NEW do \in DOMAIN Expected, NEW p, NEW semi, NEW f, NEW g,
         NEW t \in Seq(GrammarSymbols),
         Turns(f, <<>>, Glued(Before(CallStmt(do, p, semi)), t)),
         Turns(Glued(After(h, CallStmt(do, p, semi)), t), EndWords(CallStmt(do, p, semi)), g)
  PROVE  Effect(h, CallStmt(do, p, semi), f, g)
<1>1. do # "print"
  BY ExpectedTags
<1> QED
  BY <1>1 DEF Effect, CallStmt

-----------------------------------------------------------------------------
(* The productions, as turns that print nothing.                           *)

LEMMA Symbols ==
   {"program", "block", "periodsym", "const-decls", "var-decls",
    "stmts", "act", "stmt", "more-const-decls", "constsym",
    "const-decl", "semisym", "const-def", "comma-const-defs",
    "identsym", "eqsym", "const-number", "numbersym",
    "more-var-decls", "varsym", "var-decl", "var-ident",
    "comma-idents", "assign-stmt", "begin-stmt", "if-stmt",
    "while-stmt", "read-stmt", "write-stmt", "skip-stmt",
    "becomessym", "expr", "beginsym", "stmt-list", "endsym",
    "semi-stmts", "ifsym", "condition", "thensym", "elsesym",
    "whilesym", "dosym", "readsym", "read-ident", "writesym",
    "skipsym", "oddsym", "rel-op-expr", "term", "add-sub-terms",
    "add-sub-term", "factor", "mult-div-factors", "mult-div-factor",
    "ident-expr", "paren-expr", "number", "lparensym", "rparensym",
    "unsigned-number"}
     \subseteq GrammarSymbols
BY DEF GrammarSymbols, TokenTypes, Nonterminals, Statements, Factors

\* A form with one more symbol at its head.
LEMMA ConsTyped ==
  \A t \in Seq(GrammarSymbols) :
    /\ Cons("program", t) \in Seq(GrammarSymbols)
    /\ Cons("block", t) \in Seq(GrammarSymbols)
    /\ Cons("periodsym", t) \in Seq(GrammarSymbols)
    /\ Cons("const-decls", t) \in Seq(GrammarSymbols)
    /\ Cons("var-decls", t) \in Seq(GrammarSymbols)
    /\ Cons("stmts", t) \in Seq(GrammarSymbols)
    /\ Cons("act", t) \in Seq(GrammarSymbols)
    /\ Cons("stmt", t) \in Seq(GrammarSymbols)
    /\ Cons("more-const-decls", t) \in Seq(GrammarSymbols)
    /\ Cons("constsym", t) \in Seq(GrammarSymbols)
    /\ Cons("const-decl", t) \in Seq(GrammarSymbols)
    /\ Cons("semisym", t) \in Seq(GrammarSymbols)
    /\ Cons("const-def", t) \in Seq(GrammarSymbols)
    /\ Cons("comma-const-defs", t) \in Seq(GrammarSymbols)
    /\ Cons("identsym", t) \in Seq(GrammarSymbols)
    /\ Cons("eqsym", t) \in Seq(GrammarSymbols)
    /\ Cons("const-number", t) \in Seq(GrammarSymbols)
    /\ Cons("numbersym", t) \in Seq(GrammarSymbols)
    /\ Cons("more-var-decls", t) \in Seq(GrammarSymbols)
    /\ Cons("varsym", t) \in Seq(GrammarSymbols)
    /\ Cons("var-decl", t) \in Seq(GrammarSymbols)
    /\ Cons("var-ident", t) \in Seq(GrammarSymbols)
    /\ Cons("comma-idents", t) \in Seq(GrammarSymbols)
    /\ Cons("assign-stmt", t) \in Seq(GrammarSymbols)
    /\ Cons("begin-stmt", t) \in Seq(GrammarSymbols)
    /\ Cons("if-stmt", t) \in Seq(GrammarSymbols)
    /\ Cons("while-stmt", t) \in Seq(GrammarSymbols)
    /\ Cons("read-stmt", t) \in Seq(GrammarSymbols)
    /\ Cons("write-stmt", t) \in Seq(GrammarSymbols)
    /\ Cons("skip-stmt", t) \in Seq(GrammarSymbols)
    /\ Cons("becomessym", t) \in Seq(GrammarSymbols)
    /\ Cons("expr", t) \in Seq(GrammarSymbols)
    /\ Cons("beginsym", t) \in Seq(GrammarSymbols)
    /\ Cons("stmt-list", t) \in Seq(GrammarSymbols)
    /\ Cons("endsym", t) \in Seq(GrammarSymbols)
    /\ Cons("semi-stmts", t) \in Seq(GrammarSymbols)
    /\ Cons("ifsym", t) \in Seq(GrammarSymbols)
    /\ Cons("condition", t) \in Seq(GrammarSymbols)
    /\ Cons("thensym", t) \in Seq(GrammarSymbols)
    /\ Cons("elsesym", t) \in Seq(GrammarSymbols)
    /\ Cons("whilesym", t) \in Seq(GrammarSymbols)
    /\ Cons("dosym", t) \in Seq(GrammarSymbols)
    /\ Cons("readsym", t) \in Seq(GrammarSymbols)
    /\ Cons("read-ident", t) \in Seq(GrammarSymbols)
    /\ Cons("writesym", t) \in Seq(GrammarSymbols)
    /\ Cons("skipsym", t) \in Seq(GrammarSymbols)
    /\ Cons("oddsym", t) \in Seq(GrammarSymbols)
    /\ Cons("rel-op-expr", t) \in Seq(GrammarSymbols)
    /\ Cons("term", t) \in Seq(GrammarSymbols)
    /\ Cons("add-sub-terms", t) \in Seq(GrammarSymbols)
    /\ Cons("add-sub-term", t) \in Seq(GrammarSymbols)
    /\ Cons("factor", t) \in Seq(GrammarSymbols)
    /\ Cons("mult-div-factors", t) \in Seq(GrammarSymbols)
    /\ Cons("mult-div-factor", t) \in Seq(GrammarSymbols)
    /\ Cons("ident-expr", t) \in Seq(GrammarSymbols)
    /\ Cons("paren-expr", t) \in Seq(GrammarSymbols)
    /\ Cons("number", t) \in Seq(GrammarSymbols)
    /\ Cons("lparensym", t) \in Seq(GrammarSymbols)
    /\ Cons("rparensym", t) \in Seq(GrammarSymbols)
    /\ Cons("unsigned-number", t) \in Seq(GrammarSymbols)
BY Symbols DEF Cons

LEMMA ConsConcat ==
  ASSUME NEW a \in GrammarSymbols, NEW v \in Seq(GrammarSymbols), NEW t \in Seq(GrammarSymbols)
  PROVE  Glued(Cons(a, v), t) = Cons(a, Glued(v, t))
BY DEF Cons, Glued

LEMMA PairIsCons ==
  ASSUME NEW a \in GrammarSymbols, NEW b \in GrammarSymbols
  PROVE  <<a, b>> = Cons(a, <<b>>)
<1> DEFINE u == <<a>> \o <<b>>
           v == <<a, b>>
<1>1. u \in Seq(GrammarSymbols) /\ Len(u) = 2 /\ u[1] = a /\ u[2] = b
  OBVIOUS
<1>2. v \in Seq(GrammarSymbols) /\ Len(v) = 2 /\ v[1] = a /\ v[2] = b
  OBVIOUS
<1> HIDE DEF u, v
<1>3. u = v
  BY <1>1, <1>2
<1> QED
  BY <1>3 DEF u, v, Cons

LEMMA Unfold0 ==
  ASSUME NEW t \in Seq(GrammarSymbols)
  PROVE  Glued(<<>>, t) = t
BY DEF Cons, Glued

LEMMA Unfold1 ==
  ASSUME NEW t \in Seq(GrammarSymbols),
         NEW a \in GrammarSymbols
  PROVE  Glued(<<a>>, t) = Cons(a, t)
BY DEF Cons, Glued

LEMMA Unfold2 ==
  ASSUME NEW t \in Seq(GrammarSymbols),
         NEW a \in GrammarSymbols,
         NEW b \in GrammarSymbols
  PROVE  Glued(<<a, b>>, t) = Cons(a, Cons(b, t))
<1>1. PICK v1 : v1 = <<a, b>>
  OBVIOUS
<1>2. PICK v2 : v2 = <<b>>
  OBVIOUS
<1>3. v1 \in Seq(GrammarSymbols)
  BY <1>1
<1>4. v2 \in Seq(GrammarSymbols)
  BY <1>2
<1>5. v1 = Cons(a, v2)
  BY <1>1, <1>2, PairIsCons
<1>6. Glued(v2, t) = Cons(b, t)
  BY <1>2 DEF Cons, Glued
<1>7. Glued(v1, t) = Cons(a, Cons(b, t))
  BY ONLY a \in GrammarSymbols, t \in Seq(GrammarSymbols), <1>4, <1>5, <1>6, ConsConcat
<1> QED
  BY <1>1, <1>7

LEMMA Unfold3 ==
  ASSUME NEW t \in Seq(GrammarSymbols),
         NEW a \in GrammarSymbols,
         NEW b \in GrammarSymbols,
         NEW c \in GrammarSymbols
  PROVE  Glued(<<a, b, c>>, t) = Cons(a, Cons(b, Cons(c, t)))
<1>1. PICK v1 : v1 = <<a, b, c>>
  OBVIOUS
<1>2. PICK v2 : v2 = <<b, c>>
  OBVIOUS
<1>3. PICK v3 : v3 = <<c>>
  OBVIOUS
<1>4. v1 \in Seq(GrammarSymbols)
  BY <1>1
<1>5. v2 \in Seq(GrammarSymbols)
  BY <1>2
<1>6. v3 \in Seq(GrammarSymbols)
  BY <1>3
<1>7. v1 = Cons(a, v2)
  BY <1>1, <1>2 DEF Cons
<1>8. v2 = Cons(b, v3)
  BY <1>2, <1>3, PairIsCons
<1>9. Glued(v3, t) = Cons(c, t)
  BY <1>3 DEF Cons, Glued
<1>10. Glued(v2, t) = Cons(b, Cons(c, t))
  BY ONLY b \in GrammarSymbols, t \in Seq(GrammarSymbols), <1>6, <1>8, <1>9, ConsConcat
<1>11. Glued(v1, t) = Cons(a, Cons(b, Cons(c, t)))
  BY ONLY a \in GrammarSymbols, t \in Seq(GrammarSymbols), <1>5, <1>7, <1>10, ConsConcat
<1> QED
  BY <1>1, <1>11

LEMMA Unfold4 ==
  ASSUME NEW t \in Seq(GrammarSymbols),
         NEW a \in GrammarSymbols,
         NEW b \in GrammarSymbols,
         NEW c \in GrammarSymbols,
         NEW d \in GrammarSymbols
  PROVE  Glued(<<a, b, c, d>>, t) = Cons(a, Cons(b, Cons(c, Cons(d, t))))
<1>1. PICK v1 : v1 = <<a, b, c, d>>
  OBVIOUS
<1>2. PICK v2 : v2 = <<b, c, d>>
  OBVIOUS
<1>3. PICK v3 : v3 = <<c, d>>
  OBVIOUS
<1>4. PICK v4 : v4 = <<d>>
  OBVIOUS
<1>5. v1 \in Seq(GrammarSymbols)
  BY <1>1
<1>6. v2 \in Seq(GrammarSymbols)
  BY <1>2
<1>7. v3 \in Seq(GrammarSymbols)
  BY <1>3
<1>8. v4 \in Seq(GrammarSymbols)
  BY <1>4
<1>9. v1 = Cons(a, v2)
  BY <1>1, <1>2 DEF Cons
<1>10. v2 = Cons(b, v3)
  BY <1>2, <1>3 DEF Cons
<1>11. v3 = Cons(c, v4)
  BY <1>3, <1>4, PairIsCons
<1>12. Glued(v4, t) = Cons(d, t)
  BY <1>4 DEF Cons, Glued
<1>13. Glued(v3, t) = Cons(c, Cons(d, t))
  BY ONLY c \in GrammarSymbols, t \in Seq(GrammarSymbols), <1>8, <1>11, <1>12, ConsConcat
<1>14. Glued(v2, t) = Cons(b, Cons(c, Cons(d, t)))
  BY ONLY b \in GrammarSymbols, t \in Seq(GrammarSymbols), <1>7, <1>10, <1>13, ConsConcat
<1>15. Glued(v1, t) = Cons(a, Cons(b, Cons(c, Cons(d, t))))
  BY ONLY a \in GrammarSymbols, t \in Seq(GrammarSymbols), <1>6, <1>9, <1>14, ConsConcat
<1> QED
  BY <1>1, <1>15

LEMMA Unfold5 ==
  ASSUME NEW t \in Seq(GrammarSymbols),
         NEW a \in GrammarSymbols,
         NEW b \in GrammarSymbols,
         NEW c \in GrammarSymbols,
         NEW d \in GrammarSymbols,
         NEW e \in GrammarSymbols
  PROVE  Glued(<<a, b, c, d, e>>, t) = Cons(a, Cons(b, Cons(c, Cons(d, Cons(e, t)))))
<1>1. PICK v1 : v1 = <<a, b, c, d, e>>
  OBVIOUS
<1>2. PICK v2 : v2 = <<b, c, d, e>>
  OBVIOUS
<1>3. PICK v3 : v3 = <<c, d, e>>
  OBVIOUS
<1>4. PICK v4 : v4 = <<d, e>>
  OBVIOUS
<1>5. PICK v5 : v5 = <<e>>
  OBVIOUS
<1>6. v1 \in Seq(GrammarSymbols)
  BY <1>1
<1>7. v2 \in Seq(GrammarSymbols)
  BY <1>2
<1>8. v3 \in Seq(GrammarSymbols)
  BY <1>3
<1>9. v4 \in Seq(GrammarSymbols)
  BY <1>4
<1>10. v5 \in Seq(GrammarSymbols)
  BY <1>5
<1>11. v1 = Cons(a, v2)
  BY <1>1, <1>2 DEF Cons
<1>12. v2 = Cons(b, v3)
  BY <1>2, <1>3 DEF Cons
<1>13. v3 = Cons(c, v4)
  BY <1>3, <1>4 DEF Cons
<1>14. v4 = Cons(d, v5)
  BY <1>4, <1>5, PairIsCons
<1>15. Glued(v5, t) = Cons(e, t)
  BY <1>5 DEF Cons, Glued
<1>16. Glued(v4, t) = Cons(d, Cons(e, t))
  BY ONLY d \in GrammarSymbols, t \in Seq(GrammarSymbols), <1>10, <1>14, <1>15, ConsConcat
<1>17. Glued(v3, t) = Cons(c, Cons(d, Cons(e, t)))
  BY ONLY c \in GrammarSymbols, t \in Seq(GrammarSymbols), <1>9, <1>13, <1>16, ConsConcat
<1>18. Glued(v2, t) = Cons(b, Cons(c, Cons(d, Cons(e, t))))
  BY ONLY b \in GrammarSymbols, t \in Seq(GrammarSymbols), <1>8, <1>12, <1>17, ConsConcat
<1>19. Glued(v1, t) = Cons(a, Cons(b, Cons(c, Cons(d, Cons(e, t)))))
  BY ONLY a \in GrammarSymbols, t \in Seq(GrammarSymbols), <1>7, <1>11, <1>18, ConsConcat
<1> QED
  BY <1>1, <1>19

LEMMA Opens0 ==
  ASSUME NEW A \in Nonterminals, NEW t \in Seq(GrammarSymbols),
         <<A, <<>>>> \in DocumentedRules
  PROVE  Turns(Cons(A, t), <<>>, t)
BY Unfold0, TurnsOpen

LEMMA Opens1 ==
  ASSUME NEW A \in Nonterminals, NEW t \in Seq(GrammarSymbols),
         NEW a \in GrammarSymbols,
         <<A, <<a>>>> \in DocumentedRules
  PROVE  Turns(Cons(A, t), <<>>, Cons(a, t))
BY Unfold1, TurnsOpen

LEMMA Opens2 ==
  ASSUME NEW A \in Nonterminals, NEW t \in Seq(GrammarSymbols),
         NEW a \in GrammarSymbols,
         NEW b \in GrammarSymbols,
         <<A, <<a, b>>>> \in DocumentedRules
  PROVE  Turns(Cons(A, t), <<>>, Cons(a, Cons(b, t)))
BY Unfold2, TurnsOpen

LEMMA Opens3 ==
  ASSUME NEW A \in Nonterminals, NEW t \in Seq(GrammarSymbols),
         NEW a \in GrammarSymbols,
         NEW b \in GrammarSymbols,
         NEW c \in GrammarSymbols,
         <<A, <<a, b, c>>>> \in DocumentedRules
  PROVE  Turns(Cons(A, t), <<>>, Cons(a, Cons(b, Cons(c, t))))
BY Unfold3, TurnsOpen

LEMMA Opens4 ==
  ASSUME NEW A \in Nonterminals, NEW t \in Seq(GrammarSymbols),
         NEW a \in GrammarSymbols,
         NEW b \in GrammarSymbols,
         NEW c \in GrammarSymbols,
         NEW d \in GrammarSymbols,
         <<A, <<a, b, c, d>>>> \in DocumentedRules
  PROVE  Turns(Cons(A, t), <<>>, Cons(a, Cons(b, Cons(c, Cons(d, t)))))
BY Unfold4, TurnsOpen

LEMMA Opens5 ==
  ASSUME NEW A \in Nonterminals, NEW t \in Seq(GrammarSymbols),
         NEW a \in GrammarSymbols,
         NEW b \in GrammarSymbols,
         NEW c \in GrammarSymbols,
         NEW d \in GrammarSymbols,
         NEW e \in GrammarSymbols,
         <<A, <<a, b, c, d, e>>>> \in DocumentedRules
  PROVE  Turns(Cons(A, t), <<>>, Cons(a, Cons(b, Cons(c, Cons(d, Cons(e, t))))))
<1>1. PICK v1 : v1 = <<a, b, c, d, e>>
  OBVIOUS
<1>2. PICK v2 : v2 = <<b, c, d, e>>
  OBVIOUS
<1>3. PICK v3 : v3 = <<c, d, e>>
  OBVIOUS
<1>4. PICK v4 : v4 = <<d, e>>
  OBVIOUS
<1>5. PICK v5 : v5 = <<e>>
  OBVIOUS
<1>6. v1 \in Seq(GrammarSymbols)
  BY <1>1
<1>7. v2 \in Seq(GrammarSymbols)
  BY <1>2
<1>8. v3 \in Seq(GrammarSymbols)
  BY <1>3
<1>9. v4 \in Seq(GrammarSymbols)
  BY <1>4
<1>10. v5 \in Seq(GrammarSymbols)
  BY <1>5
<1>11. v1 = Cons(a, v2)
  BY <1>1, <1>2 DEF Cons
<1>12. v2 = Cons(b, v3)
  BY <1>2, <1>3 DEF Cons
<1>13. v3 = Cons(c, v4)
  BY <1>3, <1>4 DEF Cons
<1>14. v4 = Cons(d, v5)
  BY <1>4, <1>5, PairIsCons
<1>15. Glued(v5, t) = Cons(e, t)
  BY <1>5 DEF Cons, Glued
<1>16. Glued(v4, t) = Cons(d, Cons(e, t))
  BY ONLY d \in GrammarSymbols, t \in Seq(GrammarSymbols), <1>10, <1>14, <1>15, ConsConcat
<1>17. Glued(v3, t) = Cons(c, Cons(d, Cons(e, t)))
  BY ONLY c \in GrammarSymbols, t \in Seq(GrammarSymbols), <1>9, <1>13, <1>16, ConsConcat
<1>18. Glued(v2, t) = Cons(b, Cons(c, Cons(d, Cons(e, t))))
  BY ONLY b \in GrammarSymbols, t \in Seq(GrammarSymbols), <1>8, <1>12, <1>17, ConsConcat
<1>19. Glued(v1, t) = Cons(a, Cons(b, Cons(c, Cons(d, Cons(e, t)))))
  BY ONLY a \in GrammarSymbols, t \in Seq(GrammarSymbols), <1>7, <1>11, <1>18, ConsConcat
<1> QED
  BY <1>1, <1>19, TurnsOpen

LEMMA Opens7 ==
  ASSUME NEW A \in Nonterminals, NEW t \in Seq(GrammarSymbols),
         NEW a \in GrammarSymbols,
         NEW b \in GrammarSymbols,
         NEW c \in GrammarSymbols,
         NEW d \in GrammarSymbols,
         NEW e \in GrammarSymbols,
         NEW i \in GrammarSymbols,
         NEW j \in GrammarSymbols,
         <<A, <<a, b, c, d, e, i, j>>>> \in DocumentedRules
  PROVE  Turns(Cons(A, t), <<>>, Cons(a, Cons(b, Cons(c, Cons(d, Cons(e, Cons(i, Cons(j, t))))))))
<1>1. PICK v1 : v1 = <<a, b, c, d, e, i, j>>
  OBVIOUS
<1>2. PICK v2 : v2 = <<b, c, d, e, i, j>>
  OBVIOUS
<1>3. PICK v3 : v3 = <<c, d, e, i, j>>
  OBVIOUS
<1>4. PICK v4 : v4 = <<d, e, i, j>>
  OBVIOUS
<1>5. PICK v5 : v5 = <<e, i, j>>
  OBVIOUS
<1>6. PICK v6 : v6 = <<i, j>>
  OBVIOUS
<1>7. PICK v7 : v7 = <<j>>
  OBVIOUS
<1>8. v1 \in Seq(GrammarSymbols)
  BY <1>1
<1>9. v2 \in Seq(GrammarSymbols)
  BY <1>2
<1>10. v3 \in Seq(GrammarSymbols)
  BY <1>3
<1>11. v4 \in Seq(GrammarSymbols)
  BY <1>4
<1>12. v5 \in Seq(GrammarSymbols)
  BY <1>5
<1>13. v6 \in Seq(GrammarSymbols)
  BY <1>6
<1>14. v7 \in Seq(GrammarSymbols)
  BY <1>7
<1>15. v1 = Cons(a, v2)
  BY <1>1, <1>2 DEF Cons
<1>16. v2 = Cons(b, v3)
  BY <1>2, <1>3 DEF Cons
<1>17. v3 = Cons(c, v4)
  BY <1>3, <1>4 DEF Cons
<1>18. v4 = Cons(d, v5)
  BY <1>4, <1>5 DEF Cons
<1>19. v5 = Cons(e, v6)
  BY <1>5, <1>6 DEF Cons
<1>20. v6 = Cons(i, v7)
  BY <1>6, <1>7, PairIsCons
<1>21. Glued(v7, t) = Cons(j, t)
  BY <1>7 DEF Cons, Glued
<1>22. Glued(v6, t) = Cons(i, Cons(j, t))
  BY ONLY i \in GrammarSymbols, t \in Seq(GrammarSymbols), <1>14, <1>20, <1>21, ConsConcat
<1>23. Glued(v5, t) = Cons(e, Cons(i, Cons(j, t)))
  BY ONLY e \in GrammarSymbols, t \in Seq(GrammarSymbols), <1>13, <1>19, <1>22, ConsConcat
<1>24. Glued(v4, t) = Cons(d, Cons(e, Cons(i, Cons(j, t))))
  BY ONLY d \in GrammarSymbols, t \in Seq(GrammarSymbols), <1>12, <1>18, <1>23, ConsConcat
<1>25. Glued(v3, t) = Cons(c, Cons(d, Cons(e, Cons(i, Cons(j, t)))))
  BY ONLY c \in GrammarSymbols, t \in Seq(GrammarSymbols), <1>11, <1>17, <1>24, ConsConcat
<1>26. Glued(v2, t) = Cons(b, Cons(c, Cons(d, Cons(e, Cons(i, Cons(j, t))))))
  BY ONLY b \in GrammarSymbols, t \in Seq(GrammarSymbols), <1>10, <1>16, <1>25, ConsConcat
<1>27. Glued(v1, t) = Cons(a, Cons(b, Cons(c, Cons(d, Cons(e, Cons(i, Cons(j, t)))))))
  BY ONLY a \in GrammarSymbols, t \in Seq(GrammarSymbols), <1>9, <1>15, <1>26, ConsConcat
<1> QED
  BY <1>1, <1>27, TurnsOpen

LEMMA Opens8 ==
  ASSUME NEW A \in Nonterminals, NEW t \in Seq(GrammarSymbols),
         NEW a \in GrammarSymbols,
         NEW b \in GrammarSymbols,
         NEW c \in GrammarSymbols,
         NEW d \in GrammarSymbols,
         NEW e \in GrammarSymbols,
         NEW i \in GrammarSymbols,
         NEW j \in GrammarSymbols,
         NEW k \in GrammarSymbols,
         <<A, <<a, b, c, d, e, i, j, k>>>> \in DocumentedRules
  PROVE  Turns(Cons(A, t), <<>>, Cons(a, Cons(b, Cons(c, Cons(d, Cons(e, Cons(i, Cons(j, Cons(k, t)))))))))
<1>1. PICK v1 : v1 = <<a, b, c, d, e, i, j, k>>
  OBVIOUS
<1>2. PICK v2 : v2 = <<b, c, d, e, i, j, k>>
  OBVIOUS
<1>3. PICK v3 : v3 = <<c, d, e, i, j, k>>
  OBVIOUS
<1>4. PICK v4 : v4 = <<d, e, i, j, k>>
  OBVIOUS
<1>5. PICK v5 : v5 = <<e, i, j, k>>
  OBVIOUS
<1>6. PICK v6 : v6 = <<i, j, k>>
  OBVIOUS
<1>7. PICK v7 : v7 = <<j, k>>
  OBVIOUS
<1>8. PICK v8 : v8 = <<k>>
  OBVIOUS
<1>9. v1 \in Seq(GrammarSymbols)
  BY <1>1
<1>10. v2 \in Seq(GrammarSymbols)
  BY <1>2
<1>11. v3 \in Seq(GrammarSymbols)
  BY <1>3
<1>12. v4 \in Seq(GrammarSymbols)
  BY <1>4
<1>13. v5 \in Seq(GrammarSymbols)
  BY <1>5
<1>14. v6 \in Seq(GrammarSymbols)
  BY <1>6
<1>15. v7 \in Seq(GrammarSymbols)
  BY <1>7
<1>16. v8 \in Seq(GrammarSymbols)
  BY <1>8
<1>17. v1 = Cons(a, v2)
  BY <1>1, <1>2 DEF Cons
<1>18. v2 = Cons(b, v3)
  BY <1>2, <1>3 DEF Cons
<1>19. v3 = Cons(c, v4)
  BY <1>3, <1>4 DEF Cons
<1>20. v4 = Cons(d, v5)
  BY <1>4, <1>5 DEF Cons
<1>21. v5 = Cons(e, v6)
  BY <1>5, <1>6 DEF Cons
<1>22. v6 = Cons(i, v7)
  BY <1>6, <1>7 DEF Cons
<1>23. v7 = Cons(j, v8)
  BY <1>7, <1>8, PairIsCons
<1>24. Glued(v8, t) = Cons(k, t)
  BY <1>8 DEF Cons, Glued
<1>25. Glued(v7, t) = Cons(j, Cons(k, t))
  BY ONLY j \in GrammarSymbols, t \in Seq(GrammarSymbols), <1>16, <1>23, <1>24, ConsConcat
<1>26. Glued(v6, t) = Cons(i, Cons(j, Cons(k, t)))
  BY ONLY i \in GrammarSymbols, t \in Seq(GrammarSymbols), <1>15, <1>22, <1>25, ConsConcat
<1>27. Glued(v5, t) = Cons(e, Cons(i, Cons(j, Cons(k, t))))
  BY ONLY e \in GrammarSymbols, t \in Seq(GrammarSymbols), <1>14, <1>21, <1>26, ConsConcat
<1>28. Glued(v4, t) = Cons(d, Cons(e, Cons(i, Cons(j, Cons(k, t)))))
  BY ONLY d \in GrammarSymbols, t \in Seq(GrammarSymbols), <1>13, <1>20, <1>27, ConsConcat
<1>29. Glued(v3, t) = Cons(c, Cons(d, Cons(e, Cons(i, Cons(j, Cons(k, t))))))
  BY ONLY c \in GrammarSymbols, t \in Seq(GrammarSymbols), <1>12, <1>19, <1>28, ConsConcat
<1>30. Glued(v2, t) = Cons(b, Cons(c, Cons(d, Cons(e, Cons(i, Cons(j, Cons(k, t)))))))
  BY ONLY b \in GrammarSymbols, t \in Seq(GrammarSymbols), <1>11, <1>18, <1>29, ConsConcat
<1>31. Glued(v1, t) = Cons(a, Cons(b, Cons(c, Cons(d, Cons(e, Cons(i, Cons(j, Cons(k, t))))))))
  BY ONLY a \in GrammarSymbols, t \in Seq(GrammarSymbols), <1>10, <1>17, <1>30, ConsConcat
<1> QED
  BY <1>1, <1>31, TurnsOpen

LEMMA ProgramTurns ==
  \A t \in Seq(GrammarSymbols) :
    /\ Turns(Cons("program", t), <<>>, Cons("block", Cons("periodsym", t)))
    /\ Turns(Cons("block", t), <<>>,
             Cons("const-decls", Cons("var-decls", Cons("stmts", Cons("act", t)))))
    /\ Turns(Cons("stmts", t), <<>>, Cons("stmt", t))
<1>1. TAKE t \in Seq(GrammarSymbols)
<1>2. {"program", "block", "stmts"} \subseteq Nonterminals
  BY DEF Nonterminals, Statements, Factors
<1>3. /\ <<"program", <<"block", "periodsym">>>> \in DocumentedRules
      /\ <<"block", <<"const-decls", "var-decls", "stmts", "act">>>> \in DocumentedRules
      /\ <<"stmts", <<"stmt">>>> \in DocumentedRules
  BY DEF DocumentedRules, ProgramRules
<1>4. Turns(Cons("program", t), <<>>, Cons("block", Cons("periodsym", t)))
  BY <1>2, <1>3, Symbols, Opens2
<1>5. Turns(Cons("block", t), <<>>, Cons("const-decls", Cons("var-decls", Cons("stmts", Cons("act", t)))))
  BY <1>2, <1>3, Symbols, Opens4
<1>6. Turns(Cons("stmts", t), <<>>, Cons("stmt", t))
  BY <1>2, <1>3, Symbols, Opens1
<1> QED
  BY <1>4, <1>5, <1>6

LEMMA ConstDeclTurns ==
  \A t \in Seq(GrammarSymbols) :
    /\ Turns(Cons("const-decls", t), <<>>, Cons("more-const-decls", t))
    /\ Turns(Cons("more-const-decls", t), <<>>, t)
    /\ Turns(Cons("more-const-decls", t), <<>>,
             Cons("constsym", Cons("const-decl", Cons("act", Cons("semisym", Cons("more-const-decls", t))))))
    /\ Turns(Cons("const-decl", t), <<>>,
             Cons("const-def", Cons("act", Cons("comma-const-defs", t))))
    /\ Turns(Cons("comma-const-defs", t), <<>>, t)
    /\ Turns(Cons("const-def", t), <<>>,
             Cons("identsym", Cons("eqsym", Cons("const-number", t))))
    /\ Turns(Cons("const-number", t), <<>>, Cons("numbersym", Cons("act", t)))
<1>1. TAKE t \in Seq(GrammarSymbols)
<1>2. {"const-decls", "more-const-decls", "const-decl", "comma-const-defs", "const-def", "const-number"} \subseteq Nonterminals
  BY DEF Nonterminals, Statements, Factors
<1>3. /\ <<"const-decls", <<"more-const-decls">>>> \in DocumentedRules
      /\ <<"more-const-decls", <<>>>> \in DocumentedRules
      /\ <<"more-const-decls", <<"constsym", "const-decl", "act", "semisym", "more-const-decls">>>> \in DocumentedRules
      /\ <<"const-decl", <<"const-def", "act", "comma-const-defs">>>> \in DocumentedRules
      /\ <<"comma-const-defs", <<>>>> \in DocumentedRules
      /\ <<"const-def", <<"identsym", "eqsym", "const-number">>>> \in DocumentedRules
      /\ <<"const-number", <<"numbersym", "act">>>> \in DocumentedRules
  BY DEF DocumentedRules, ConstDeclRules
<1>4. Turns(Cons("const-decls", t), <<>>, Cons("more-const-decls", t))
  BY <1>2, <1>3, Symbols, Opens1
<1>5. Turns(Cons("more-const-decls", t), <<>>, t)
  BY <1>2, <1>3, Symbols, Opens0
<1>6. Turns(Cons("more-const-decls", t), <<>>, Cons("constsym", Cons("const-decl", Cons("act", Cons("semisym", Cons("more-const-decls", t))))))
  BY <1>2, <1>3, Symbols, Opens5
<1>7. Turns(Cons("const-decl", t), <<>>, Cons("const-def", Cons("act", Cons("comma-const-defs", t))))
  BY <1>2, <1>3, Symbols, Opens3
<1>8. Turns(Cons("comma-const-defs", t), <<>>, t)
  BY <1>2, <1>3, Symbols, Opens0
<1>9. Turns(Cons("const-def", t), <<>>, Cons("identsym", Cons("eqsym", Cons("const-number", t))))
  BY <1>2, <1>3, Symbols, Opens3
<1>10. Turns(Cons("const-number", t), <<>>, Cons("numbersym", Cons("act", t)))
  BY <1>2, <1>3, Symbols, Opens2
<1> QED
  BY <1>4, <1>5, <1>6, <1>7, <1>8, <1>9, <1>10

LEMMA VarDeclTurns ==
  \A t \in Seq(GrammarSymbols) :
    /\ Turns(Cons("var-decls", t), <<>>, Cons("more-var-decls", t))
    /\ Turns(Cons("more-var-decls", t), <<>>, t)
    /\ Turns(Cons("more-var-decls", t), <<>>,
             Cons("varsym", Cons("var-decl", Cons("act", Cons("semisym", Cons("more-var-decls", t))))))
    /\ Turns(Cons("var-decl", t), <<>>,
             Cons("var-ident", Cons("act", Cons("comma-idents", t))))
    /\ Turns(Cons("comma-idents", t), <<>>, t)
    /\ Turns(Cons("var-ident", t), <<>>, Cons("identsym", Cons("act", t)))
<1>1. TAKE t \in Seq(GrammarSymbols)
<1>2. {"var-decls", "more-var-decls", "var-decl", "comma-idents", "var-ident"} \subseteq Nonterminals
  BY DEF Nonterminals, Statements, Factors
<1>3. /\ <<"var-decls", <<"more-var-decls">>>> \in DocumentedRules
      /\ <<"more-var-decls", <<>>>> \in DocumentedRules
      /\ <<"more-var-decls", <<"varsym", "var-decl", "act", "semisym", "more-var-decls">>>> \in DocumentedRules
      /\ <<"var-decl", <<"var-ident", "act", "comma-idents">>>> \in DocumentedRules
      /\ <<"comma-idents", <<>>>> \in DocumentedRules
      /\ <<"var-ident", <<"identsym", "act">>>> \in DocumentedRules
  BY DEF DocumentedRules, VarDeclRules
<1>4. Turns(Cons("var-decls", t), <<>>, Cons("more-var-decls", t))
  BY <1>2, <1>3, Symbols, Opens1
<1>5. Turns(Cons("more-var-decls", t), <<>>, t)
  BY <1>2, <1>3, Symbols, Opens0
<1>6. Turns(Cons("more-var-decls", t), <<>>, Cons("varsym", Cons("var-decl", Cons("act", Cons("semisym", Cons("more-var-decls", t))))))
  BY <1>2, <1>3, Symbols, Opens5
<1>7. Turns(Cons("var-decl", t), <<>>, Cons("var-ident", Cons("act", Cons("comma-idents", t))))
  BY <1>2, <1>3, Symbols, Opens3
<1>8. Turns(Cons("comma-idents", t), <<>>, t)
  BY <1>2, <1>3, Symbols, Opens0
<1>9. Turns(Cons("var-ident", t), <<>>, Cons("identsym", Cons("act", t)))
  BY <1>2, <1>3, Symbols, Opens2
<1> QED
  BY <1>4, <1>5, <1>6, <1>7, <1>8, <1>9

LEMMA KindTurns ==
  \A t \in Seq(GrammarSymbols) :
    /\ Turns(Cons("stmt", t), <<>>, Cons("assign-stmt", t))
    /\ Turns(Cons("stmt", t), <<>>, Cons("begin-stmt", t))
    /\ Turns(Cons("stmt", t), <<>>, Cons("if-stmt", t))
    /\ Turns(Cons("stmt", t), <<>>, Cons("while-stmt", t))
    /\ Turns(Cons("stmt", t), <<>>, Cons("read-stmt", t))
    /\ Turns(Cons("stmt", t), <<>>, Cons("write-stmt", t))
    /\ Turns(Cons("stmt", t), <<>>, Cons("skip-stmt", t))
<1>1. TAKE t \in Seq(GrammarSymbols)
<1>2. {"stmt"} \subseteq Nonterminals
  BY DEF Nonterminals, Statements, Factors
<1>3. /\ <<"stmt", <<"assign-stmt">>>> \in DocumentedRules
      /\ <<"stmt", <<"begin-stmt">>>> \in DocumentedRules
      /\ <<"stmt", <<"if-stmt">>>> \in DocumentedRules
      /\ <<"stmt", <<"while-stmt">>>> \in DocumentedRules
      /\ <<"stmt", <<"read-stmt">>>> \in DocumentedRules
      /\ <<"stmt", <<"write-stmt">>>> \in DocumentedRules
      /\ <<"stmt", <<"skip-stmt">>>> \in DocumentedRules
  BY DEF DocumentedRules, StmtRules
<1>4. Turns(Cons("stmt", t), <<>>, Cons("assign-stmt", t))
  BY <1>2, <1>3, Symbols, Opens1
<1>5. Turns(Cons("stmt", t), <<>>, Cons("begin-stmt", t))
  BY <1>2, <1>3, Symbols, Opens1
<1>6. Turns(Cons("stmt", t), <<>>, Cons("if-stmt", t))
  BY <1>2, <1>3, Symbols, Opens1
<1>7. Turns(Cons("stmt", t), <<>>, Cons("while-stmt", t))
  BY <1>2, <1>3, Symbols, Opens1
<1>8. Turns(Cons("stmt", t), <<>>, Cons("read-stmt", t))
  BY <1>2, <1>3, Symbols, Opens1
<1>9. Turns(Cons("stmt", t), <<>>, Cons("write-stmt", t))
  BY <1>2, <1>3, Symbols, Opens1
<1>10. Turns(Cons("stmt", t), <<>>, Cons("skip-stmt", t))
  BY <1>2, <1>3, Symbols, Opens1
<1> QED
  BY <1>4, <1>5, <1>6, <1>7, <1>8, <1>9, <1>10

LEMMA StmtTurns ==
  \A t \in Seq(GrammarSymbols) :
    /\ Turns(Cons("assign-stmt", t), <<>>,
             Cons("identsym", Cons("becomessym", Cons("expr", Cons("act", t)))))
    /\ Turns(Cons("begin-stmt", t), <<>>,
             Cons("beginsym", Cons("stmt", Cons("act", Cons("stmt-list", Cons("act", Cons("act", Cons("endsym", Cons("act", t)))))))))
    /\ Turns(Cons("stmt-list", t), <<>>, Cons("semi-stmts", t))
    /\ Turns(Cons("semi-stmts", t), <<>>, t)
    /\ Turns(Cons("semi-stmts", t), <<>>,
             Cons("semisym", Cons("stmt", Cons("act", Cons("semi-stmts", t)))))
    /\ Turns(Cons("if-stmt", t), <<>>,
             Cons("ifsym", Cons("condition", Cons("thensym", Cons("stmt", Cons("elsesym", Cons("stmt", Cons("act", t))))))))
    /\ Turns(Cons("while-stmt", t), <<>>,
             Cons("whilesym", Cons("condition", Cons("dosym", Cons("stmt", Cons("act", t))))))
    /\ Turns(Cons("read-stmt", t), <<>>, Cons("readsym", Cons("read-ident", t)))
    /\ Turns(Cons("read-ident", t), <<>>, Cons("identsym", Cons("act", t)))
    /\ Turns(Cons("write-stmt", t), <<>>, Cons("writesym", Cons("expr", Cons("act", t))))
    /\ Turns(Cons("skip-stmt", t), <<>>, Cons("skipsym", Cons("act", t)))
<1>1. TAKE t \in Seq(GrammarSymbols)
<1>2. {"assign-stmt", "begin-stmt", "stmt-list", "semi-stmts", "if-stmt", "while-stmt", "read-stmt", "read-ident", "write-stmt", "skip-stmt"} \subseteq Nonterminals
  BY DEF Nonterminals, Statements, Factors
<1>3. /\ <<"assign-stmt", <<"identsym", "becomessym", "expr", "act">>>> \in DocumentedRules
      /\ <<"begin-stmt", <<"beginsym", "stmt", "act", "stmt-list", "act", "act", "endsym", "act">>>> \in DocumentedRules
      /\ <<"stmt-list", <<"semi-stmts">>>> \in DocumentedRules
      /\ <<"semi-stmts", <<>>>> \in DocumentedRules
      /\ <<"semi-stmts", <<"semisym", "stmt", "act", "semi-stmts">>>> \in DocumentedRules
      /\ <<"if-stmt", <<"ifsym", "condition", "thensym", "stmt", "elsesym", "stmt", "act">>>> \in DocumentedRules
      /\ <<"while-stmt", <<"whilesym", "condition", "dosym", "stmt", "act">>>> \in DocumentedRules
      /\ <<"read-stmt", <<"readsym", "read-ident">>>> \in DocumentedRules
      /\ <<"read-ident", <<"identsym", "act">>>> \in DocumentedRules
      /\ <<"write-stmt", <<"writesym", "expr", "act">>>> \in DocumentedRules
      /\ <<"skip-stmt", <<"skipsym", "act">>>> \in DocumentedRules
  BY DEF DocumentedRules, StmtRules
<1>4. Turns(Cons("assign-stmt", t), <<>>, Cons("identsym", Cons("becomessym", Cons("expr", Cons("act", t)))))
  BY <1>2, <1>3, Symbols, Opens4
<1>5. Turns(Cons("begin-stmt", t), <<>>, Cons("beginsym", Cons("stmt", Cons("act", Cons("stmt-list", Cons("act", Cons("act", Cons("endsym", Cons("act", t)))))))))
  BY <1>2, <1>3, Symbols, Opens8
<1>6. Turns(Cons("stmt-list", t), <<>>, Cons("semi-stmts", t))
  BY <1>2, <1>3, Symbols, Opens1
<1>7. Turns(Cons("semi-stmts", t), <<>>, t)
  BY <1>2, <1>3, Symbols, Opens0
<1>8. Turns(Cons("semi-stmts", t), <<>>, Cons("semisym", Cons("stmt", Cons("act", Cons("semi-stmts", t)))))
  BY <1>2, <1>3, Symbols, Opens4
<1>9. Turns(Cons("if-stmt", t), <<>>, Cons("ifsym", Cons("condition", Cons("thensym", Cons("stmt", Cons("elsesym", Cons("stmt", Cons("act", t))))))))
  BY <1>2, <1>3, Symbols, Opens7
<1>10. Turns(Cons("while-stmt", t), <<>>, Cons("whilesym", Cons("condition", Cons("dosym", Cons("stmt", Cons("act", t))))))
  BY <1>2, <1>3, Symbols, Opens5
<1>11. Turns(Cons("read-stmt", t), <<>>, Cons("readsym", Cons("read-ident", t)))
  BY <1>2, <1>3, Symbols, Opens2
<1>12. Turns(Cons("read-ident", t), <<>>, Cons("identsym", Cons("act", t)))
  BY <1>2, <1>3, Symbols, Opens2
<1>13. Turns(Cons("write-stmt", t), <<>>, Cons("writesym", Cons("expr", Cons("act", t))))
  BY <1>2, <1>3, Symbols, Opens3
<1>14. Turns(Cons("skip-stmt", t), <<>>, Cons("skipsym", Cons("act", t)))
  BY <1>2, <1>3, Symbols, Opens2
<1> QED
  BY <1>4, <1>5, <1>6, <1>7, <1>8, <1>9, <1>10, <1>11, <1>12, <1>13, <1>14

LEMMA ConditionTurns ==
  \A t \in Seq(GrammarSymbols) :
    /\ Turns(Cons("condition", t), <<>>, Cons("oddsym", Cons("expr", Cons("act", t))))
    /\ Turns(Cons("condition", t), <<>>, Cons("expr", Cons("rel-op-expr", t)))
<1>1. TAKE t \in Seq(GrammarSymbols)
<1>2. {"condition"} \subseteq Nonterminals
  BY DEF Nonterminals, Statements, Factors
<1>3. /\ <<"condition", <<"oddsym", "expr", "act">>>> \in DocumentedRules
      /\ <<"condition", <<"expr", "rel-op-expr">>>> \in DocumentedRules
  BY DEF DocumentedRules, ConditionRules
<1>4. Turns(Cons("condition", t), <<>>, Cons("oddsym", Cons("expr", Cons("act", t))))
  BY <1>2, <1>3, Symbols, Opens3
<1>5. Turns(Cons("condition", t), <<>>, Cons("expr", Cons("rel-op-expr", t)))
  BY <1>2, <1>3, Symbols, Opens2
<1> QED
  BY <1>4, <1>5

LEMMA ExprTurns ==
  \A t \in Seq(GrammarSymbols) :
    /\ Turns(Cons("expr", t), <<>>, Cons("term", Cons("add-sub-terms", t)))
    /\ Turns(Cons("add-sub-terms", t), <<>>, t)
    /\ Turns(Cons("add-sub-terms", t), <<>>,
             Cons("add-sub-term", Cons("act", Cons("add-sub-terms", t))))
    /\ Turns(Cons("term", t), <<>>, Cons("factor", Cons("mult-div-factors", t)))
    /\ Turns(Cons("mult-div-factors", t), <<>>, t)
    /\ Turns(Cons("mult-div-factors", t), <<>>,
             Cons("mult-div-factor", Cons("act", Cons("mult-div-factors", t))))
<1>1. TAKE t \in Seq(GrammarSymbols)
<1>2. {"expr", "add-sub-terms", "term", "mult-div-factors"} \subseteq Nonterminals
  BY DEF Nonterminals, Statements, Factors
<1>3. /\ <<"expr", <<"term", "add-sub-terms">>>> \in DocumentedRules
      /\ <<"add-sub-terms", <<>>>> \in DocumentedRules
      /\ <<"add-sub-terms", <<"add-sub-term", "act", "add-sub-terms">>>> \in DocumentedRules
      /\ <<"term", <<"factor", "mult-div-factors">>>> \in DocumentedRules
      /\ <<"mult-div-factors", <<>>>> \in DocumentedRules
      /\ <<"mult-div-factors", <<"mult-div-factor", "act", "mult-div-factors">>>> \in DocumentedRules
  BY DEF DocumentedRules, ExprRules
<1>4. Turns(Cons("expr", t), <<>>, Cons("term", Cons("add-sub-terms", t)))
  BY <1>2, <1>3, Symbols, Opens2
<1>5. Turns(Cons("add-sub-terms", t), <<>>, t)
  BY <1>2, <1>3, Symbols, Opens0
<1>6. Turns(Cons("add-sub-terms", t), <<>>, Cons("add-sub-term", Cons("act", Cons("add-sub-terms", t))))
  BY <1>2, <1>3, Symbols, Opens3
<1>7. Turns(Cons("term", t), <<>>, Cons("factor", Cons("mult-div-factors", t)))
  BY <1>2, <1>3, Symbols, Opens2
<1>8. Turns(Cons("mult-div-factors", t), <<>>, t)
  BY <1>2, <1>3, Symbols, Opens0
<1>9. Turns(Cons("mult-div-factors", t), <<>>, Cons("mult-div-factor", Cons("act", Cons("mult-div-factors", t))))
  BY <1>2, <1>3, Symbols, Opens3
<1> QED
  BY <1>4, <1>5, <1>6, <1>7, <1>8, <1>9

LEMMA FactorTurns ==
  \A t \in Seq(GrammarSymbols) :
    /\ Turns(Cons("factor", t), <<>>, Cons("ident-expr", t))
    /\ Turns(Cons("factor", t), <<>>, Cons("paren-expr", t))
    /\ Turns(Cons("factor", t), <<>>, Cons("number", t))
    /\ Turns(Cons("ident-expr", t), <<>>, Cons("identsym", Cons("act", t)))
    /\ Turns(Cons("paren-expr", t), <<>>,
             Cons("lparensym", Cons("expr", Cons("rparensym", Cons("act", t)))))
    /\ Turns(Cons("number", t), <<>>, Cons("numbersym", Cons("act", t)))
    /\ Turns(Cons("unsigned-number", t), <<>>, Cons("numbersym", Cons("act", t)))
<1>1. TAKE t \in Seq(GrammarSymbols)
<1>2. {"factor", "ident-expr", "paren-expr", "number", "unsigned-number"} \subseteq Nonterminals
  BY DEF Nonterminals, Statements, Factors
<1>3. /\ <<"factor", <<"ident-expr">>>> \in DocumentedRules
      /\ <<"factor", <<"paren-expr">>>> \in DocumentedRules
      /\ <<"factor", <<"number">>>> \in DocumentedRules
      /\ <<"ident-expr", <<"identsym", "act">>>> \in DocumentedRules
      /\ <<"paren-expr", <<"lparensym", "expr", "rparensym", "act">>>> \in DocumentedRules
      /\ <<"number", <<"numbersym", "act">>>> \in DocumentedRules
      /\ <<"unsigned-number", <<"numbersym", "act">>>> \in DocumentedRules
  BY DEF DocumentedRules, FactorRules
<1>4. Turns(Cons("factor", t), <<>>, Cons("ident-expr", t))
  BY <1>2, <1>3, Symbols, Opens1
<1>5. Turns(Cons("factor", t), <<>>, Cons("paren-expr", t))
  BY <1>2, <1>3, Symbols, Opens1
<1>6. Turns(Cons("factor", t), <<>>, Cons("number", t))
  BY <1>2, <1>3, Symbols, Opens1
<1>7. Turns(Cons("ident-expr", t), <<>>, Cons("identsym", Cons("act", t)))
  BY <1>2, <1>3, Symbols, Opens2
<1>8. Turns(Cons("paren-expr", t), <<>>, Cons("lparensym", Cons("expr", Cons("rparensym", Cons("act", t)))))
  BY <1>2, <1>3, Symbols, Opens4
<1>9. Turns(Cons("number", t), <<>>, Cons("numbersym", Cons("act", t)))
  BY <1>2, <1>3, Symbols, Opens2
<1>10. Turns(Cons("unsigned-number", t), <<>>, Cons("numbersym", Cons("act", t)))
  BY <1>2, <1>3, Symbols, Opens2
<1> QED
  BY <1>4, <1>5, <1>6, <1>7, <1>8, <1>9, <1>10

\* An operator and its right operand.
LEMMA OperatorTurns ==
  ASSUME NEW t \in Seq(GrammarSymbols)
  PROVE  /\ \A s \in SignSyms : Turns(Cons("add-sub-term", t), <<>>, Cons(s, Cons("term", Cons("act", t))))
         /\ \A s \in MultDivSyms : Turns(Cons("mult-div-factor", t), <<>>, Cons(s, Cons("factor", Cons("act", t))))
         /\ \A s \in RelOpSyms : Turns(Cons("rel-op-expr", t), <<>>, Cons(s, Cons("expr", Cons("act", t))))
         /\ \A s \in SignSyms : Turns(Cons("number", t), <<>>, Cons(s, Cons("unsigned-number", t)))
<1>1. {"add-sub-term", "mult-div-factor", "rel-op-expr", "number"} \subseteq Nonterminals
  BY DEF Nonterminals, Factors
<1>2. SignSyms \cup MultDivSyms \cup RelOpSyms \subseteq GrammarSymbols
  BY DEF SignSyms, MultDivSyms, RelOpSyms, GrammarSymbols, TokenTypes
<1>3. /\ \A s \in SignSyms : <<"add-sub-term", <<s, "term", "act">>>> \in DocumentedRules
      /\ \A s \in MultDivSyms : <<"mult-div-factor", <<s, "factor", "act">>>> \in DocumentedRules
  BY DEF DocumentedRules, ExprRules
<1>4. \A s \in RelOpSyms : <<"rel-op-expr", <<s, "expr", "act">>>> \in DocumentedRules
  BY DEF DocumentedRules, ConditionRules
<1>5. \A s \in SignSyms : <<"number", <<s, "unsigned-number">>>> \in DocumentedRules
  BY DEF DocumentedRules, FactorRules
<1>6. ASSUME NEW s \in SignSyms
      PROVE  Turns(Cons("add-sub-term", t), <<>>, Cons(s, Cons("term", Cons("act", t))))
  BY <1>1, <1>2, <1>3, Symbols, Opens3
<1>7. ASSUME NEW s \in MultDivSyms
      PROVE  Turns(Cons("mult-div-factor", t), <<>>, Cons(s, Cons("factor", Cons("act", t))))
  BY <1>1, <1>2, <1>3, Symbols, Opens3
<1>8. ASSUME NEW s \in RelOpSyms
      PROVE  Turns(Cons("rel-op-expr", t), <<>>, Cons(s, Cons("expr", Cons("act", t))))
  BY <1>1, <1>2, <1>4, Symbols, Opens3
<1>9. ASSUME NEW s \in SignSyms
      PROVE  Turns(Cons("number", t), <<>>, Cons(s, Cons("unsigned-number", t)))
  BY <1>1, <1>2, <1>5, Symbols, Opens2
<1> QED
  BY <1>6, <1>7, <1>8, <1>9

\* Turns that print nothing, one after the other.
LEMMA QuietOn ==
  ASSUME NEW f, NEW g, NEW e, Turns(f, <<>>, g), Turns(g, <<>>, e)
  PROVE  Turns(f, <<>>, e)
<1>1. <<>> \in Seq(Items)
  OBVIOUS
<1> QED
  BY <1>1, TurnsQuiet

-----------------------------------------------------------------------------
(* Words.                                                                  *)

LEMMA PairOfItems ==
  ASSUME NEW a \in Items, NEW b \in Items
  PROVE  <<a, b>> = <<a>> \o <<b>>
<1> DEFINE u == <<a>> \o <<b>>
           v == <<a, b>>
<1>1. u \in Seq(Items) /\ Len(u) = 2 /\ u[1] = a /\ u[2] = b
  OBVIOUS
<1>2. v \in Seq(Items) /\ Len(v) = 2 /\ v[1] = a /\ v[2] = b
  OBVIOUS
<1> HIDE DEF u, v
<1>3. u = v
  BY <1>1, <1>2
<1> QED
  BY <1>3 DEF u, v

LEMMA SpacedWord ==
  ASSUME NEW x \in Items, NEW c \in TokenTypes, x.typ = c, NEW f \in Seq(GrammarSymbols)
  PROVE  /\ Turns(Cons(c, f), <<x>>, f)
         /\ Turns(Cons(c, f), <<x, Gap>>, f) /\ <<x, Gap>> \in Seq(Items)
         /\ Turns(Cons(c, f), <<Gap, x, Gap>>, f) /\ <<Gap, x, Gap>> \in Seq(Items)
<1>1. Gap \in Items
  BY WordIsItem
<1>2. <<x>> \in Seq(Items) /\ <<Gap>> \in Seq(Items) /\ <<x, Gap>> \in Seq(Items)
      /\ <<Gap, x, Gap>> \in Seq(Items)
  BY <1>1
<1>3. <<x, Gap>> = <<x>> \o <<Gap>>
  BY <1>1, PairOfItems
<1>4. <<Gap, x, Gap>> = <<Gap>> \o <<x, Gap>>
  OBVIOUS
<1>5. Turns(Cons(c, f), <<x>>, f)
  BY TurnsWord
<1>6. Turns(f, <<Gap>>, f) /\ Turns(Cons(c, f), <<Gap>>, Cons(c, f))
  BY TurnsGap
<1>7. Turns(Cons(c, f), <<x, Gap>>, f)
  BY <1>2, <1>3, <1>5, <1>6, TurnsOn
<1>8. Turns(Cons(c, f), <<Gap, x, Gap>>, f)
  BY <1>2, <1>4, <1>6, <1>7, TurnsOn
<1> QED
  BY <1>2, <1>5, <1>7, <1>8

Alone(x) == <<x>>
Spaced(x) == <<x, Gap>>
Enclosed(x) == <<Gap, x, Gap>>

LEMMA Keyword ==
  ASSUME NEW c \in TokenTypes
  PROVE  /\ Alone(Word(c)) \in Seq(Items)
         /\ Spaced(Word(c)) \in Seq(Items)
         /\ Enclosed(Word(c)) \in Seq(Items)
         /\ \A f \in Seq(GrammarSymbols) :
              /\ Turns(Cons(c, f), Alone(Word(c)), f)
              /\ Turns(Cons(c, f), Spaced(Word(c)), f)
              /\ Turns(Cons(c, f), Enclosed(Word(c)), f)
<1>1. PICK x : x = Word(c)
  OBVIOUS
<1>2. x \in Items /\ x.typ = c
  BY <1>1, WordIsItem
<1>3. Alone(x) \in Seq(Items) /\ Spaced(x) \in Seq(Items) /\ Enclosed(x) \in Seq(Items)
  BY <1>2, WordIsItem DEF Alone, Spaced, Enclosed
<1>4. ASSUME NEW f \in Seq(GrammarSymbols)
      PROVE  /\ Turns(Cons(c, f), Alone(x), f)
             /\ Turns(Cons(c, f), Spaced(x), f)
             /\ Turns(Cons(c, f), Enclosed(x), f)
  BY <1>2, SpacedWord DEF Alone, Spaced, Enclosed
<1> QED
  BY <1>1, <1>3, <1>4

LEMMA Identifier ==
  ASSUME NEW ident \in Texts
  PROVE  /\ Alone(Name(ident)) \in Seq(Items)
         /\ Spaced(Name(ident)) \in Seq(Items)
         /\ \A f \in Seq(GrammarSymbols) :
              /\ Turns(Cons("identsym", f), Alone(Name(ident)), f)
              /\ Turns(Cons("identsym", f), Spaced(Name(ident)), f)
<1>1. PICK x : x = Name(ident)
  OBVIOUS
<1>2. x \in Items /\ x.typ = "identsym" /\ "identsym" \in TokenTypes
  BY <1>1, WordIsItem DEF TokenTypes
<1>3. Alone(x) \in Seq(Items) /\ Spaced(x) \in Seq(Items)
  BY <1>2, WordIsItem DEF Alone, Spaced
<1>4. ASSUME NEW f \in Seq(GrammarSymbols)
      PROVE  Turns(Cons("identsym", f), Alone(x), f) /\ Turns(Cons("identsym", f), Spaced(x), f)
  BY <1>2, SpacedWord DEF Alone, Spaced
<1> QED
  BY <1>1, <1>3, <1>4

\* The end of a statement: a semicolon, if it is asked for, and a new line.
LEMMA NewlineTurns ==
  ASSUME NEW semi \in BOOLEAN, NEW f, NEW g, Turns(f, SemiWords(semi), g)
  PROVE  /\ newlineAndOptionalSemi(semi) \in Seq(Items)
         /\ Turns(f, newlineAndOptionalSemi(semi), g)
<1>1. Gap \in Items /\ Word("semisym") \in Items
  BY WordIsItem DEF TokenTypes
<1>2. /\ SemiWords(semi) \in Seq(Items) /\ <<Gap>> \in Seq(Items)
      /\ newlineAndOptionalSemi(semi) \in Seq(Items)
  BY <1>1 DEF SemiWords, newlineAndOptionalSemi
<1>3. newlineAndOptionalSemi(semi) = SemiWords(semi) \o <<Gap>>
  <2>1. CASE semi
    <3>1. <<Word("semisym"), Gap>> = <<Word("semisym")>> \o <<Gap>>
      BY <1>1, PairOfItems
    <3> QED
      BY <2>1, <3>1 DEF SemiWords, newlineAndOptionalSemi
  <2>2. CASE ~semi
    BY <2>2 DEF SemiWords, newlineAndOptionalSemi
  <2> QED
    BY <2>1, <2>2
<1>4. Turns(g, <<Gap>>, g)
  BY TurnsGap
<1> QED
  BY <1>2, <1>3, <1>4, TurnsOn

-----------------------------------------------------------------------------
(* The invariant.                                                          *)

UnsignedConsts ==
  \A p \in 1 .. Len(heap) : heap[p].tag = "const_decl_ast" => heap[p].num \in Nat

\* What has been printed can be completed to a program by what is still to be
\* done, which is why it is one at the end.
DerivInv ==
  /\ \E f : Reaches(out, f) /\ Path(heap, rest, f, <<>>)
  /\ UnsignedConsts
  /\ status = "printed" => rest = <<>>

LEMMA Typed ==
  /\ \A do \in DOMAIN Expected, p \in Nat, semi \in BOOLEAN : CallStmt(do, p, semi) \in AnyInstrs
  /\ \A do \in DOMAIN Expected, p \in Nat : Call(do, p) \in AnyInstrs
  /\ \A words \in Seq(Items) : Emit(words) \in AnyInstrs
<1>1. <<>> \in Seq(Items)
  OBVIOUS
<1> QED
  BY <1>1 DEF AnyInstrs, Call, CallStmt, Emit, NULL

LEMMA DerivStep ==
  ASSUME IInv, DerivInv, status = "printing", rest # <<>>,
         NEW words \in Seq(Items), NEW body \in Seq(AnyInstrs), PrintThen(words, body),
         \A f, g : Effect(heap, Head(rest), f, g)
                     => \E e : Turns(f, words, e) /\ Path(heap, body, e, g)
  PROVE  DerivInv'
<1>1. rest \in Seq(AnyInstrs) /\ Tail(rest) \in Seq(AnyInstrs)
  <2>1. GoodInstrs \subseteq AnyInstrs
    BY Facts DEF GoodInstrs, Instrs, AnyInstrs
  <2>2. rest \in Seq(GoodInstrs)
    BY DEF IInv
  <2>3. \A k \in 1 .. Len(rest) : rest[k] \in AnyInstrs
    BY <2>1, <2>2
  <2>4. rest \in Seq(AnyInstrs)
    BY <2>2, <2>3
  <2> QED
    BY <2>4
<1>2. out' = out \o words /\ rest' = body \o Tail(rest) /\ heap' = heap /\ status' = status
  BY DEF PrintThen
<1>3. PICK f : Reaches(out, f) /\ Path(heap, rest, f, <<>>)
  BY DEF DerivInv
<1>4. PICK g : Effect(heap, Head(rest), f, g) /\ Path(heap, Tail(rest), g, <<>>)
  BY <1>1, <1>3, PathSplit
<1>5. PICK e : Turns(f, words, e) /\ Path(heap, body, e, g)
  BY <1>4
<1>6. Path(heap, body \o Tail(rest), e, <<>>)
  BY <1>1, <1>4, <1>5, PathConcat
<1>7. Reaches(out \o words, e)
  BY <1>3, <1>5 DEF Turns, Reaches
<1>8. UnsignedConsts'
  BY <1>2 DEF DerivInv, UnsignedConsts
<1> QED
  BY <1>2, <1>6, <1>7, <1>8 DEF DerivInv

LEMMA CallDerives ==
  ASSUME IInv, DerivInv, NEW do \in DOMAIN Expected, At(do),
         NEW words \in Seq(Items), NEW body \in Seq(AnyInstrs), PrintThen(words, body),
         \A t \in Seq(GrammarSymbols) : \A g :
           Turns(Glued(After(heap, Head(rest)), t), EndWords(Head(rest)), g)
             => \E e : /\ Turns(Glued(Before(Head(rest)), t), words, e)
                       /\ Path(heap, body, e, g)
  PROVE  DerivInv'
<1>1. Head(rest).do # "print" /\ status = "printing" /\ rest # <<>>
  BY ExpectedTags DEF At
<1>2. ASSUME NEW f, NEW g, Effect(heap, Head(rest), f, g)
      PROVE  \E e : Turns(f, words, e) /\ Path(heap, body, e, g)
  <2>1. PICK t \in Seq(GrammarSymbols) :
          /\ Turns(f, <<>>, Glued(Before(Head(rest)), t))
          /\ Turns(Glued(After(heap, Head(rest)), t), EndWords(Head(rest)), g)
    BY <1>1, <1>2 DEF Effect
  <2>2. PICK e : Turns(Glued(Before(Head(rest)), t), words, e) /\ Path(heap, body, e, g)
    BY <2>1
  <2>3. Turns(f, words, e)
    BY <2>1, <2>2, TurnsQuiet
  <2> QED
    BY <2>2, <2>3
<1> QED
  BY <1>1, <1>2, DerivStep

\* The functions that are called in a form that their name tells, and leave
\* nothing of it.
PlainCalls == DOMAIN Expected \ {"stmtsLoop", "unparseRelOp", "unparseArithOp"}

LEMMA PlainDerives ==
  ASSUME IInv, DerivInv, NEW do \in PlainCalls \ SemiCalls, At(do),
         NEW words \in Seq(Items), NEW body \in Seq(AnyInstrs), PrintThen(words, body),
         \A t \in Seq(GrammarSymbols) : \A g :
           Turns(t, <<>>, g)
             => \E e : Turns(Glued(Derives[do], t), words, e) /\ Path(heap, body, e, g)
  PROVE  DerivInv'
<1>1. /\ Before(Head(rest)) = Derives[do]
      /\ After(heap, Head(rest)) = <<>>
      /\ EndWords(Head(rest)) = <<>>
  BY DEF Before, After, EndWords, At, PlainCalls
<1>2. \A t \in Seq(GrammarSymbols) : Glued(<<>>, t) = t
  BY Unfold0
<1>3. do \in DOMAIN Expected
  BY DEF PlainCalls
<1> QED
  BY <1>1, <1>2, <1>3, CallDerives

LEMMA SemiDerives ==
  ASSUME IInv, DerivInv, NEW do \in SemiCalls, At(do),
         NEW words \in Seq(Items), NEW body \in Seq(AnyInstrs), PrintThen(words, body),
         \A t \in Seq(GrammarSymbols) : \A g :
           Turns(t, SemiWords(Semi), g)
             => \E e : Turns(Glued(Derives[do], t), words, e) /\ Path(heap, body, e, g)
  PROVE  DerivInv'
<1>1. /\ Before(Head(rest)) = Derives[do]
      /\ After(heap, Head(rest)) = <<>>
      /\ EndWords(Head(rest)) = SemiWords(Semi)
  BY DEF Before, After, EndWords, At, SemiCalls, Semi
<1>2. \A t \in Seq(GrammarSymbols) : Glued(<<>>, t) = t
  BY Unfold0
<1>3. do \in DOMAIN Expected
  BY ExpectedTags DEF SemiCalls
<1> QED
  BY <1>1, <1>2, <1>3, CallDerives

\* The effect of a call of one of them.
LEMMA PlainEffect ==
  ASSUME NEW h, NEW do \in PlainCalls \ SemiCalls, NEW p, NEW f, NEW g,
         NEW t \in Seq(GrammarSymbols), Turns(f, <<>>, Glued(Derives[do], t)), Turns(t, <<>>, g)
  PROVE  Effect(h, Call(do, p), f, g)
<1>1. /\ Before(CallStmt(do, p, FALSE)) = Derives[do]
      /\ After(h, CallStmt(do, p, FALSE)) = <<>>
      /\ EndWords(CallStmt(do, p, FALSE)) = <<>>
  BY DEF Before, After, EndWords, CallStmt, PlainCalls
<1>2. Glued(<<>>, t) = t
  BY Unfold0
<1>3. do \in DOMAIN Expected
  BY DEF PlainCalls
<1> QED
  BY <1>1, <1>2, <1>3, CallEffect DEF Call

LEMMA SemiEffect ==
  ASSUME NEW h, NEW do \in SemiCalls, NEW p, NEW semi, NEW f, NEW g,
         NEW t \in Seq(GrammarSymbols), Turns(f, <<>>, Glued(Derives[do], t)),
         Turns(t, SemiWords(semi), g)
  PROVE  Effect(h, CallStmt(do, p, semi), f, g)
<1>1. /\ Before(CallStmt(do, p, semi)) = Derives[do]
      /\ After(h, CallStmt(do, p, semi)) = <<>>
      /\ EndWords(CallStmt(do, p, semi)) = SemiWords(semi)
  BY DEF Before, After, EndWords, CallStmt, SemiCalls
<1>2. Glued(<<>>, t) = t
  BY Unfold0
<1>3. do \in DOMAIN Expected
  BY ExpectedTags DEF SemiCalls
<1> QED
  BY <1>1, <1>2, <1>3, CallEffect

LEMMA DerivesAre ==
  \A t \in Seq(GrammarSymbols) :
    /\ Glued(Derives["unparseProgram"], t) = Cons("program", t)
    /\ Glued(Derives["unparseBlock"], t) = Cons("block", t)
    /\ Glued(Derives["unparseConstDecls"], t) = Cons("more-const-decls", t)
    /\ Glued(Derives["unparseConstDecl"], t)
         = Cons("constsym", Cons("const-decl", Cons("act", Cons("semisym", t))))
    /\ Glued(Derives["unparseVarDecls"], t) = Cons("more-var-decls", t)
    /\ Glued(Derives["unparseVarDecl"], t)
         = Cons("varsym", Cons("var-decl", Cons("act", Cons("semisym", t))))
    /\ Glued(Derives["unparseStmt"], t) = Cons("stmt", t)
    /\ Glued(Derives["unparseStmtList"], t) = Cons("stmt", Cons("act", Cons("stmt-list", t)))
    /\ Glued(Derives["stmtsLoop"], t) = Cons("semi-stmts", t)
    /\ Glued(Derives["unparseAssignStmt"], t) = Cons("assign-stmt", t)
    /\ Glued(Derives["unparseBeginStmt"], t) = Cons("begin-stmt", t)
    /\ Glued(Derives["unparseIfStmt"], t) = Cons("if-stmt", t)
    /\ Glued(Derives["unparseWhileStmt"], t) = Cons("while-stmt", t)
    /\ Glued(Derives["unparseReadStmt"], t) = Cons("read-stmt", t)
    /\ Glued(Derives["unparseWriteStmt"], t) = Cons("write-stmt", t)
    /\ Glued(Derives["unparseSkipStmt"], t) = Cons("skip-stmt", t)
    /\ Glued(Derives["unparseCondition"], t) = Cons("condition", t)
    /\ Glued(Derives["unparseOddCond"], t) = Cons("oddsym", Cons("expr", Cons("act", t)))
    /\ Glued(Derives["unparseBinRelCond"], t) = Cons("expr", Cons("rel-op-expr", t))
    /\ Glued(Derives["unparseRelOp"], t) = Cons("rel-op-expr", t)
    /\ Glued(Derives["unparseExpr"], t) = Cons("factor", t)
    /\ Glued(Derives["unparseBinExpr"], t) = Cons("factor", t)
    /\ Glued(Derives["unparseArithOp"], t) = Cons("mult-div-factors", Cons("add-sub-terms", t))
    /\ Glued(Derives["unparseIdent"], t) = Cons("factor", t)
    /\ Glued(Derives["unparseNumber"], t) = Cons("factor", t)
<1>1. TAKE t \in Seq(GrammarSymbols)
<1>2. Glued(Derives["unparseProgram"], t) = Cons("program", t)
  <2>1. Derives["unparseProgram"] = <<"program">>
    BY DEF Derives
  <2> QED
    BY <2>1, Symbols, Unfold1
<1>3. Glued(Derives["unparseBlock"], t) = Cons("block", t)
  <2>1. Derives["unparseBlock"] = <<"block">>
    BY DEF Derives
  <2> QED
    BY <2>1, Symbols, Unfold1
<1>4. Glued(Derives["unparseConstDecls"], t) = Cons("more-const-decls", t)
  <2>1. Derives["unparseConstDecls"] = <<"more-const-decls">>
    BY DEF Derives
  <2> QED
    BY <2>1, Symbols, Unfold1
<1>5. Glued(Derives["unparseConstDecl"], t) = Cons("constsym", Cons("const-decl", Cons("act", Cons("semisym", t))))
  <2>1. Derives["unparseConstDecl"] = <<"constsym", "const-decl", "act", "semisym">>
    BY DEF Derives
  <2>2. {"constsym", "const-decl", "act", "semisym"} \subseteq GrammarSymbols
    BY Symbols
  <2>3. Glued(<<"constsym", "const-decl", "act", "semisym">>, t) = Cons("constsym", Cons("const-decl", Cons("act", Cons("semisym", t))))
    BY ONLY t \in Seq(GrammarSymbols), <2>2, Unfold4
  <2> QED
    BY <2>1, <2>3
<1>6. Glued(Derives["unparseVarDecls"], t) = Cons("more-var-decls", t)
  <2>1. Derives["unparseVarDecls"] = <<"more-var-decls">>
    BY DEF Derives
  <2> QED
    BY <2>1, Symbols, Unfold1
<1>7. Glued(Derives["unparseVarDecl"], t) = Cons("varsym", Cons("var-decl", Cons("act", Cons("semisym", t))))
  <2>1. Derives["unparseVarDecl"] = <<"varsym", "var-decl", "act", "semisym">>
    BY DEF Derives
  <2>2. {"varsym", "var-decl", "act", "semisym"} \subseteq GrammarSymbols
    BY Symbols
  <2>3. Glued(<<"varsym", "var-decl", "act", "semisym">>, t) = Cons("varsym", Cons("var-decl", Cons("act", Cons("semisym", t))))
    BY ONLY t \in Seq(GrammarSymbols), <2>2, Unfold4
  <2> QED
    BY <2>1, <2>3
<1>8. Glued(Derives["unparseStmt"], t) = Cons("stmt", t)
  <2>1. Derives["unparseStmt"] = <<"stmt">>
    BY DEF Derives
  <2> QED
    BY <2>1, Symbols, Unfold1
<1>9. Glued(Derives["unparseStmtList"], t) = Cons("stmt", Cons("act", Cons("stmt-list", t)))
  <2>1. Derives["unparseStmtList"] = <<"stmt", "act", "stmt-list">>
    BY DEF Derives
  <2> QED
    BY <2>1, Symbols, Unfold3
<1>10. Glued(Derives["stmtsLoop"], t) = Cons("semi-stmts", t)
  <2>1. Derives["stmtsLoop"] = <<"semi-stmts">>
    BY DEF Derives
  <2> QED
    BY <2>1, Symbols, Unfold1
<1>11. Glued(Derives["unparseAssignStmt"], t) = Cons("assign-stmt", t)
  <2>1. Derives["unparseAssignStmt"] = <<"assign-stmt">>
    BY DEF Derives
  <2> QED
    BY <2>1, Symbols, Unfold1
<1>12. Glued(Derives["unparseBeginStmt"], t) = Cons("begin-stmt", t)
  <2>1. Derives["unparseBeginStmt"] = <<"begin-stmt">>
    BY DEF Derives
  <2> QED
    BY <2>1, Symbols, Unfold1
<1>13. Glued(Derives["unparseIfStmt"], t) = Cons("if-stmt", t)
  <2>1. Derives["unparseIfStmt"] = <<"if-stmt">>
    BY DEF Derives
  <2> QED
    BY <2>1, Symbols, Unfold1
<1>14. Glued(Derives["unparseWhileStmt"], t) = Cons("while-stmt", t)
  <2>1. Derives["unparseWhileStmt"] = <<"while-stmt">>
    BY DEF Derives
  <2> QED
    BY <2>1, Symbols, Unfold1
<1>15. Glued(Derives["unparseReadStmt"], t) = Cons("read-stmt", t)
  <2>1. Derives["unparseReadStmt"] = <<"read-stmt">>
    BY DEF Derives
  <2> QED
    BY <2>1, Symbols, Unfold1
<1>16. Glued(Derives["unparseWriteStmt"], t) = Cons("write-stmt", t)
  <2>1. Derives["unparseWriteStmt"] = <<"write-stmt">>
    BY DEF Derives
  <2> QED
    BY <2>1, Symbols, Unfold1
<1>17. Glued(Derives["unparseSkipStmt"], t) = Cons("skip-stmt", t)
  <2>1. Derives["unparseSkipStmt"] = <<"skip-stmt">>
    BY DEF Derives
  <2> QED
    BY <2>1, Symbols, Unfold1
<1>18. Glued(Derives["unparseCondition"], t) = Cons("condition", t)
  <2>1. Derives["unparseCondition"] = <<"condition">>
    BY DEF Derives
  <2> QED
    BY <2>1, Symbols, Unfold1
<1>19. Glued(Derives["unparseOddCond"], t) = Cons("oddsym", Cons("expr", Cons("act", t)))
  <2>1. Derives["unparseOddCond"] = <<"oddsym", "expr", "act">>
    BY DEF Derives
  <2> QED
    BY <2>1, Symbols, Unfold3
<1>20. Glued(Derives["unparseBinRelCond"], t) = Cons("expr", Cons("rel-op-expr", t))
  <2>1. Derives["unparseBinRelCond"] = <<"expr", "rel-op-expr">>
    BY DEF Derives
  <2> QED
    BY <2>1, Symbols, Unfold2
<1>21. Glued(Derives["unparseRelOp"], t) = Cons("rel-op-expr", t)
  <2>1. Derives["unparseRelOp"] = <<"rel-op-expr">>
    BY DEF Derives
  <2> QED
    BY <2>1, Symbols, Unfold1
<1>22. Glued(Derives["unparseExpr"], t) = Cons("factor", t)
  <2>1. Derives["unparseExpr"] = <<"factor">>
    BY DEF Derives
  <2> QED
    BY <2>1, Symbols, Unfold1
<1>23. Glued(Derives["unparseBinExpr"], t) = Cons("factor", t)
  <2>1. Derives["unparseBinExpr"] = <<"factor">>
    BY DEF Derives
  <2> QED
    BY <2>1, Symbols, Unfold1
<1>24. Glued(Derives["unparseArithOp"], t) = Cons("mult-div-factors", Cons("add-sub-terms", t))
  <2>1. Derives["unparseArithOp"] = <<"mult-div-factors", "add-sub-terms">>
    BY DEF Derives
  <2> QED
    BY <2>1, Symbols, Unfold2
<1>25. Glued(Derives["unparseIdent"], t) = Cons("factor", t)
  <2>1. Derives["unparseIdent"] = <<"factor">>
    BY DEF Derives
  <2> QED
    BY <2>1, Symbols, Unfold1
<1>26. Glued(Derives["unparseNumber"], t) = Cons("factor", t)
  <2>1. Derives["unparseNumber"] = <<"factor">>
    BY DEF Derives
  <2> QED
    BY <2>1, Symbols, Unfold1
<1> QED
  BY <1>2, <1>3, <1>4, <1>5, <1>6, <1>7, <1>8, <1>9, <1>10, <1>11, <1>12, <1>13, <1>14, <1>15, <1>16, <1>17, <1>18, <1>19, <1>20, <1>21, <1>22, <1>23, <1>24, <1>25, <1>26

-----------------------------------------------------------------------------
(* Expressions, which are printed as factors.                              *)

LEMMA ExprHead ==
  ASSUME NEW t \in Seq(GrammarSymbols)
  PROVE  /\ Turns(Cons("term", t), <<>>, Cons("factor", Cons("mult-div-factors", t)))
         /\ Turns(Cons("mult-div-factors", t), <<>>, t)
         /\ Turns(Cons("expr", t), <<>>,
                  Cons("factor", Cons("mult-div-factors", Cons("add-sub-terms", t))))
         /\ Turns(Cons("mult-div-factors", Cons("add-sub-terms", t)), <<>>, t)
<1>1. Cons("add-sub-terms", t) \in Seq(GrammarSymbols)
  BY ConsTyped
<1>2. Turns(Cons("expr", t), <<>>, Cons("term", Cons("add-sub-terms", t)))
  BY ExprTurns
<1>3. Turns(Cons("term", Cons("add-sub-terms", t)), <<>>,
            Cons("factor", Cons("mult-div-factors", Cons("add-sub-terms", t))))
  BY <1>1, ExprTurns
<1>4. Turns(Cons("mult-div-factors", Cons("add-sub-terms", t)), <<>>, Cons("add-sub-terms", t))
  BY <1>1, ExprTurns
<1>5. Turns(Cons("add-sub-terms", t), <<>>, t)
  BY ExprTurns
<1>6. Turns(Cons("term", t), <<>>, Cons("factor", Cons("mult-div-factors", t)))
      /\ Turns(Cons("mult-div-factors", t), <<>>, t)
  BY ExprTurns
<1> QED
  BY <1>2, <1>3, <1>4, <1>5, <1>6, QuietOn

LEMMA ExprEffect ==
  ASSUME NEW h, NEW p, NEW t \in Seq(GrammarSymbols), NEW g, Turns(t, <<>>, g)
  PROVE  /\ Effect(h, Call("unparseExpr", p), Cons("expr", t), g)
         /\ Effect(h, Call("unparseExpr", p), Cons("term", Cons("add-sub-terms", t)), g)
         /\ Effect(h, Call("unparseExpr", p),
                   Cons("factor", Cons("mult-div-factors", Cons("add-sub-terms", t))), g)
<1> DEFINE u == Cons("mult-div-factors", Cons("add-sub-terms", t))
<1>1. u \in Seq(GrammarSymbols) /\ Cons("add-sub-terms", t) \in Seq(GrammarSymbols)
  BY ConsTyped
<1>2. Turns(Cons("expr", t), <<>>, Cons("factor", u)) /\ Turns(u, <<>>, t)
  BY ExprHead
<1>3. Turns(u, <<>>, g)
  BY <1>2, QuietOn
<1>4. Turns(Cons("term", Cons("add-sub-terms", t)), <<>>, Cons("factor", u))
  BY <1>1, ExprHead
<1>5. Turns(Cons("factor", u), <<>>, Cons("factor", u))
  BY TurnsStay
<1> HIDE DEF u
<1>6. "unparseExpr" \in PlainCalls \ SemiCalls
  BY ExpectedTags DEF PlainCalls, SemiCalls
<1>7. Glued(Derives["unparseExpr"], u) = Cons("factor", u)
  BY <1>1, DerivesAre
<1> QED
  BY <1>1, <1>2, <1>3, <1>4, <1>5, <1>6, <1>7, PlainEffect DEF u

\* The pointer arguments of calls.
LEMMA PointerTyped ==
  ASSUME IInv
  PROVE  /\ \A p, k, tags : Points(heap, p, k, tags) => heap[p].kids[k] \in Nat
         /\ NULL \in Nat
         /\ \A p \in 1 .. Len(heap) : p \in Nat /\ heap[p].next \in Nat
<1>1. heap \in Seq(Nodes)
  BY DEF IInv, TreeOK
<1>2. \A p \in 1 .. Len(heap) : heap[p] \in Nodes
  BY <1>1
<1>3. Len(heap) \in Nat
  BY <1>1
<1>4. \A p, k, tags : Points(heap, p, k, tags) => heap[p].kids[k] \in Nat
  BY <1>3 DEF Points
<1>5. \A p \in 1 .. Len(heap) : p \in Nat /\ heap[p].next \in Nat
  BY <1>2, <1>3 DEF Nodes
<1> QED
  BY <1>4, <1>5 DEF NULL

-----------------------------------------------------------------------------
(* Programs and declarations.                                              *)

LEMMA ProgramDerives == ASSUME IInv, DerivInv, UnparseProgram PROVE DerivInv'
<1> DEFINE a == Call("unparseBlock", Arg)
           tail == Spaced(Word("periodsym"))
           b == Emit(tail)
<1>1. At("unparseProgram") /\ PrintThen(<<>>, <<a, b>>)
  BY DEF UnparseProgram, Do, Spaced
<1>2. "periodsym" \in TokenTypes
  BY DEF TokenTypes
<1>3. /\ tail \in Seq(Items)
      /\ \A t \in Seq(GrammarSymbols) : Turns(Cons("periodsym", t), tail, t)
  BY <1>2, Keyword
<1> HIDE DEF tail
<1>4. a \in AnyInstrs /\ b \in AnyInstrs
  <2>1. Arg \in 1 .. Len(heap)
    BY <1>1, NodeKnown, ExpectedTags DEF ListCalls
  <2>2. Arg \in Nat
    BY <2>1, PointerTyped
  <2> QED
    BY <1>3, <2>2, ExpectedTags, Typed
<1>5. ASSUME NEW t \in Seq(GrammarSymbols), NEW g, Turns(t, <<>>, g)
      PROVE  \E e : Turns(Glued(Derives["unparseProgram"], t), <<>>, e) /\ Path(heap, <<a, b>>, e, g)
  <2> DEFINE u == Cons("periodsym", t)
  <2>1. u \in Seq(GrammarSymbols)
    BY ConsTyped
  <2>2. Turns(Cons("program", t), <<>>, Cons("block", u))
    BY ProgramTurns
  <2>3. Turns(u, tail, g)
    BY <1>3, <1>5, TurnsQuiet
  <2>4. Effect(heap, b, u, g)
    BY <2>3, EmitEffect
  <2> HIDE DEF u
  <2>5. Effect(heap, a, Cons("block", u), u)
    <3>1. "unparseBlock" \in PlainCalls \ SemiCalls
      BY ExpectedTags DEF PlainCalls, SemiCalls
    <3> QED
      BY <2>1, <3>1, DerivesAre, TurnsStay, PlainEffect
  <2>6. Path(heap, <<a, b>>, Cons("block", u), g)
    BY <1>4, <2>4, <2>5, PathTwo
  <2> QED
    BY <2>2, <2>6, DerivesAre DEF u
<1> HIDE DEF a, b
<1>6. "unparseProgram" \in PlainCalls \ SemiCalls
  BY ExpectedTags DEF PlainCalls, SemiCalls
<1>7. <<>> \in Seq(Items) /\ <<a, b>> \in Seq(AnyInstrs)
  BY <1>4
<1> QED
  BY <1>1, <1>5, <1>6, <1>7, PlainDerives

LEMMA BlockDerives == ASSUME IInv, DerivInv, UnparseBlock PROVE DerivInv'
<1> DEFINE a == Call("unparseConstDecls", Kid(1))
           b == Call("unparseVarDecls", Kid(2))
           c == Call("unparseStmt", Kid(3))
<1>1. At("unparseBlock") /\ PrintThen(<<>>, <<a, b, c>>)
  BY DEF UnparseBlock, Do
<1>2. Arg \in 1 .. Len(heap) /\ Node.tag = "program_ast"
  BY <1>1, NodeKnown, ExpectedTags DEF ListCalls
<1>3. Kid(1) \in Nat /\ Kid(2) \in Nat /\ Kid(3) \in Nat
  <2>1. /\ heap[Arg].kids[1] = NULL \/ Points(heap, Arg, 1, {"const_decl_ast"})
        /\ heap[Arg].kids[2] = NULL \/ Points(heap, Arg, 2, {"var_decl_ast"})
        /\ Points(heap, Arg, 3, StmtTags)
    BY <1>2, Facts, SlotsOfProgram DEF Node
  <2> QED
    BY <2>1, PointerTyped DEF Kid, Node
<1>4. a \in AnyInstrs /\ b \in AnyInstrs /\ c \in AnyInstrs
  BY <1>3, ExpectedTags, Typed
<1>5. ASSUME NEW t \in Seq(GrammarSymbols), NEW g, Turns(t, <<>>, g)
      PROVE  \E e : Turns(Glued(Derives["unparseBlock"], t), <<>>, e) /\ Path(heap, <<a, b, c>>, e, g)
  <2> DEFINE s == Cons("act", t)
             u == Cons("stmts", s)
             v == Cons("var-decls", u)
  <2>1. s \in Seq(GrammarSymbols) /\ u \in Seq(GrammarSymbols) /\ v \in Seq(GrammarSymbols)
    BY ConsTyped
  <2>2. Turns(Cons("block", t), <<>>, Cons("const-decls", v))
    BY ProgramTurns
  <2>3. Turns(s, <<>>, g)
    BY <1>5, TurnsAct, QuietOn
  <2>4. Turns(u, <<>>, Cons("stmt", s))
    BY <2>1, ProgramTurns
  <2> HIDE DEF s
  <2>5. Turns(v, <<>>, Cons("more-var-decls", u))
    BY <2>1, VarDeclTurns
  <2> HIDE DEF u
  <2>6. Turns(Cons("const-decls", v), <<>>, Cons("more-const-decls", v))
    BY <2>1, ConstDeclTurns
  <2> HIDE DEF v
  <2>7. {"unparseConstDecls", "unparseVarDecls"} \subseteq PlainCalls \ SemiCalls
        /\ "unparseStmt" \in SemiCalls
    BY ExpectedTags DEF PlainCalls, SemiCalls
  <2>8. Effect(heap, a, Cons("const-decls", v), v)
    BY <2>1, <2>6, <2>7, DerivesAre, TurnsStay, PlainEffect
  <2>9. Effect(heap, b, v, u)
    BY <2>1, <2>5, <2>7, DerivesAre, TurnsStay, PlainEffect
  <2>10. Effect(heap, c, u, g)
    BY <2>1, <2>3, <2>4, <2>7, DerivesAre, SemiEffect DEF Call, SemiWords
  <2>11. Path(heap, <<a, b, c>>, Cons("const-decls", v), g)
    BY <1>4, <2>8, <2>9, <2>10, PathThree
  <2> QED
    BY <2>2, <2>11, DerivesAre DEF s, u, v
<1> HIDE DEF a, b, c
<1>6. "unparseBlock" \in PlainCalls \ SemiCalls
  BY ExpectedTags DEF PlainCalls, SemiCalls
<1>7. <<>> \in Seq(Items) /\ <<a, b, c>> \in Seq(AnyInstrs)
  BY <1>4
<1> QED
  BY <1>1, <1>5, <1>6, <1>7, PlainDerives

\* The two loops over declarations.
LEMMA DeclLoopDerives ==
  ASSUME IInv, DerivInv, NEW loop \in {"unparseConstDecls", "unparseVarDecls"}, At(loop),
         NEW one \in {"unparseConstDecl", "unparseVarDecl"}, DoList(one),
         \A t \in Seq(GrammarSymbols) :
           /\ Turns(Glued(Derives[loop], t), <<>>, t)
           /\ Turns(Glued(Derives[loop], t), <<>>, Glued(Derives[one], Glued(Derives[loop], t)))
           /\ Glued(Derives[loop], t) \in Seq(GrammarSymbols)
  PROVE  DerivInv'
<1>1. loop \in PlainCalls \ SemiCalls /\ one \in PlainCalls \ SemiCalls
  BY ExpectedTags DEF PlainCalls, SemiCalls
<1>2. <<>> \in Seq(Items) /\ <<>> \in Seq(AnyInstrs)
  OBVIOUS
<1>3. CASE ast_list_is_empty(Arg)
  <2>1. PrintThen(<<>>, <<>>)
    BY <1>3 DEF DoList, Do
  <2>2. ASSUME NEW t \in Seq(GrammarSymbols), NEW g, Turns(t, <<>>, g)
        PROVE  \E e : Turns(Glued(Derives[loop], t), <<>>, e) /\ Path(heap, <<>>, e, g)
    <3>1. Turns(Glued(Derives[loop], t), <<>>, g)
      BY <2>2, QuietOn
    <3> QED
      BY <3>1, PathNothing
  <2> QED
    BY <1>1, <1>2, <2>1, <2>2, PlainDerives
<1>4. CASE ~ast_list_is_empty(Arg)
  <2> DEFINE a == Call(one, Arg)
             b == Call(Head(rest).do, ast_list_rest(heap, Arg))
  <2>1. PrintThen(<<>>, <<a, b>>)
    BY <1>4 DEF DoList, Do
  <2>2. b = Call(loop, ast_list_rest(heap, Arg))
    BY DEF At
  <2>3. Arg \in 1 .. Len(heap)
    BY <1>4, CallKnows, ExpectedTags DEF ast_list_is_empty
  <2>4. a \in AnyInstrs /\ b \in AnyInstrs
    <3>1. Arg \in Nat /\ ast_list_rest(heap, Arg) \in Nat
      BY <2>3, PointerTyped DEF ast_list_rest
    <3> QED
      BY <1>1, <2>2, <3>1, Typed DEF PlainCalls
  <2>5. ASSUME NEW t \in Seq(GrammarSymbols), NEW g, Turns(t, <<>>, g)
        PROVE  \E e : Turns(Glued(Derives[loop], t), <<>>, e) /\ Path(heap, <<a, b>>, e, g)
    <3> DEFINE u == Glued(Derives[loop], t)
               v == Glued(Derives[one], u)
    <3>1. u \in Seq(GrammarSymbols) /\ Turns(u, <<>>, v)
      OBVIOUS
    <3>2. Effect(heap, b, u, g)
      BY <1>1, <2>2, <2>5, TurnsStay, PlainEffect
    <3> HIDE DEF u
    <3>3. Effect(heap, a, v, u)
      BY <1>1, <3>1, TurnsStay, PlainEffect
    <3> HIDE DEF v
    <3>4. Path(heap, <<a, b>>, v, g)
      BY <2>4, <3>2, <3>3, PathTwo
    <3> QED
      BY <3>1, <3>4 DEF u
  <2> HIDE DEF a, b
  <2>6. <<a, b>> \in Seq(AnyInstrs)
    BY <2>4
  <2> QED
    BY <1>1, <1>2, <2>1, <2>5, <2>6, PlainDerives
<1> QED
  BY <1>3, <1>4

LEMMA DeclLoopsDerive ==
  ASSUME IInv, DerivInv, UnparseConstDecls \/ UnparseVarDecls PROVE DerivInv'
<1>1. CASE UnparseConstDecls
  <2>1. ASSUME NEW t \in Seq(GrammarSymbols)
        PROVE  /\ Turns(Glued(Derives["unparseConstDecls"], t), <<>>, t)
               /\ Turns(Glued(Derives["unparseConstDecls"], t), <<>>,
                        Glued(Derives["unparseConstDecl"], Glued(Derives["unparseConstDecls"], t)))
               /\ Glued(Derives["unparseConstDecls"], t) \in Seq(GrammarSymbols)
    BY ConsTyped, ConstDeclTurns, DerivesAre
  <2> QED
    BY <1>1, <2>1, DeclLoopDerives DEF UnparseConstDecls
<1>2. CASE UnparseVarDecls
  <2>1. ASSUME NEW t \in Seq(GrammarSymbols)
        PROVE  /\ Turns(Glued(Derives["unparseVarDecls"], t), <<>>, t)
               /\ Turns(Glued(Derives["unparseVarDecls"], t), <<>>,
                        Glued(Derives["unparseVarDecl"], Glued(Derives["unparseVarDecls"], t)))
               /\ Glued(Derives["unparseVarDecls"], t) \in Seq(GrammarSymbols)
    BY ConsTyped, VarDeclTurns, DerivesAre
  <2> QED
    BY <1>2, <2>1, DeclLoopDerives DEF UnparseVarDecls
<1> QED
  BY <1>1, <1>2

\* A call that prints and calls nothing.
LEMMA LeafDerives ==
  ASSUME IInv, DerivInv, NEW do \in PlainCalls \ SemiCalls, At(do),
         NEW words \in Seq(Items), PrintThen(words, <<>>),
         \A t \in Seq(GrammarSymbols) : Turns(Glued(Derives[do], t), words, t)
  PROVE  DerivInv'
<1>1. <<>> \in Seq(AnyInstrs)
  OBVIOUS
<1>2. ASSUME NEW t \in Seq(GrammarSymbols), NEW g, Turns(t, <<>>, g)
      PROVE  \E e : Turns(Glued(Derives[do], t), words, e) /\ Path(heap, <<>>, e, g)
  <2>1. Turns(Glued(Derives[do], t), words, g)
    BY <1>2, TurnsQuiet
  <2> QED
    BY <2>1, PathNothing
<1> QED
  BY <1>1, <1>2, PlainDerives

LEMMA VarDeclDerives == ASSUME IInv, DerivInv, UnparseVarDecl PROVE DerivInv'
<1> DEFINE front == Spaced(Word("varsym"))
           name == Alone(Name(Node.name))
           tail == Spaced(Word("semisym"))
           words == <<Word("varsym"), Gap, Name(Node.name), Word("semisym"), Gap>>
<1>1. At("unparseVarDecl") /\ PrintThen(words, <<>>)
  BY DEF UnparseVarDecl
<1>2. Node.name \in Texts
  BY <1>1, NodeKnown, ExpectedTags DEF ListCalls
<1>3. {"varsym", "semisym"} \subseteq TokenTypes
  BY DEF TokenTypes
<1>4. words = front \o (name \o tail)
  BY DEF Alone, Spaced
<1>5. /\ front \in Seq(Items) /\ name \in Seq(Items) /\ tail \in Seq(Items)
      /\ \A t \in Seq(GrammarSymbols) :
           /\ Turns(Cons("varsym", t), front, t)
           /\ Turns(Cons("identsym", t), name, t)
           /\ Turns(Cons("semisym", t), tail, t)
  BY <1>2, <1>3, Keyword, Identifier
<1> HIDE DEF front, name, tail, words
<1>8. words \in Seq(Items)
  BY <1>4, <1>5
<1>6. ASSUME NEW t \in Seq(GrammarSymbols)
      PROVE  Turns(Glued(Derives["unparseVarDecl"], t), words, t)
  <2> DEFINE u == Cons("act", Cons("semisym", t))
             v == Cons("act", Cons("comma-idents", u))
  <2>1. /\ Cons("semisym", t) \in Seq(GrammarSymbols)
        /\ u \in Seq(GrammarSymbols)
        /\ Cons("comma-idents", u) \in Seq(GrammarSymbols)
        /\ v \in Seq(GrammarSymbols)
        /\ Cons("act", v) \in Seq(GrammarSymbols)
        /\ Cons("var-decl", u) \in Seq(GrammarSymbols)
    BY ConsTyped
  <2>2. Turns(u, <<>>, Cons("semisym", t)) /\ Turns(v, <<>>, Cons("comma-idents", u))
        /\ Turns(Cons("act", v), <<>>, v)
    BY <2>1, TurnsAct
  <2> HIDE DEF u
  <2>3. Turns(Cons("comma-idents", u), <<>>, u)
    BY <2>1, VarDeclTurns
  <2>4. Turns(Cons("var-decl", u), <<>>, Cons("var-ident", v))
    BY <2>1, VarDeclTurns
  <2> HIDE DEF v
  <2>5. Turns(Cons("var-ident", v), <<>>, Cons("identsym", Cons("act", v)))
    BY <2>1, VarDeclTurns
  <2>6. Turns(Cons("var-decl", u), <<>>, Cons("identsym", Cons("act", v)))
    BY <2>4, <2>5, QuietOn
  <2>7. Turns(Cons("act", v), <<>>, Cons("semisym", t))
    BY <2>2, <2>3, QuietOn
  <2>8. Turns(Cons("var-decl", u), name, Cons("act", v))
    BY <1>5, <2>1, <2>6, TurnsQuiet
  <2>9. Turns(Cons("act", v), tail, t)
    BY <1>5, <2>7, TurnsQuiet
  <2>10. Turns(Cons("var-decl", u), name \o tail, t)
    BY <1>5, <2>8, <2>9, TurnsOn
  <2>11. Turns(Cons("varsym", Cons("var-decl", u)), front, Cons("var-decl", u))
    BY <1>5, <2>1
  <2>12. name \o tail \in Seq(Items)
    BY <1>5
  <2>13. Turns(Cons("varsym", Cons("var-decl", u)), words, t)
    BY <1>4, <1>5, <2>10, <2>11, <2>12, TurnsOn
  <2> QED
    BY <2>13, DerivesAre DEF u
<1>7. "unparseVarDecl" \in PlainCalls \ SemiCalls
  BY ExpectedTags DEF PlainCalls, SemiCalls
<1> QED
  BY <1>1, <1>6, <1>7, <1>8, LeafDerives

LEMMA DecimalTurns ==
  ASSUME NEW n \in Int
  PROVE  /\ Decimal(n) \in Seq(Items)
         /\ \A f \in Seq(GrammarSymbols) :
              /\ n \in Nat => Turns(Cons("numbersym", f), Decimal(n), f)
              /\ Turns(Cons("number", f), Decimal(n), f)
<1> DEFINE digits(k) == [typ |-> "numbersym", text |-> "digits", value |-> k]
<1>1. Decimal(n) \in Seq(Items)
  BY DecimalIsGood
<1>2. "numbersym" \in TokenTypes /\ "minussym" \in TokenTypes /\ "minussym" \in SignSyms
  BY DEF TokenTypes, SignSyms
<1>3. \A k \in Int : digits(k) \in Items /\ digits(k).typ = "numbersym"
  BY <1>2 DEF Items
<1>4. Word("minussym") \in Items
  BY <1>2, WordIsItem
<1> HIDE DEF digits
<1>5. ASSUME NEW f \in Seq(GrammarSymbols), NEW k \in Int
      PROVE  /\ <<digits(k)>> \in Seq(Items)
             /\ Turns(Cons("numbersym", f), <<digits(k)>>, f)
  <2>1. PICK x : x = digits(k)
    OBVIOUS
  <2>2. x \in Items /\ x.typ = "numbersym"
    BY <1>3, <2>1
  <2>3. <<x>> \in Seq(Items) /\ Turns(Cons("numbersym", f), <<x>>, f)
    BY <1>2, <2>2, TurnsWord
  <2> QED
    BY <2>1, <2>3
<1>6. ASSUME NEW f \in Seq(GrammarSymbols)
      PROVE  /\ n \in Nat => Turns(Cons("numbersym", f), Decimal(n), f)
             /\ Turns(Cons("number", f), Decimal(n), f)
  <2> DEFINE u == Cons("act", f)
  <2>1. u \in Seq(GrammarSymbols) /\ Turns(u, <<>>, f)
    BY ConsTyped, TurnsAct
  <2>2. Turns(Cons("number", f), <<>>, Cons("numbersym", u))
    BY FactorTurns
  <2>3. Turns(Cons("unsigned-number", f), <<>>, Cons("numbersym", u))
    BY FactorTurns
  <2>4. Turns(Cons("number", f), <<>>, Cons("minussym", Cons("unsigned-number", f)))
    BY <1>2, OperatorTurns
  <2> HIDE DEF u
  <2>5. CASE n < 0
    <3>1. -n \in Int /\ Decimal(n) = <<Word("minussym"), digits(-n)>>
      BY <2>5 DEF Decimal, digits
    <3>2. <<digits(-n)>> \in Seq(Items) /\ Turns(Cons("numbersym", u), <<digits(-n)>>, u)
      BY <1>5, <2>1, <3>1
    <3>3. Turns(Cons("unsigned-number", f), <<digits(-n)>>, f)
      BY <2>1, <2>3, <3>2, TurnsQuiet
    <3>4. Alone(Word("minussym")) \in Seq(Items)
          /\ Turns(Cons("minussym", Cons("unsigned-number", f)), Alone(Word("minussym")),
                   Cons("unsigned-number", f))
      BY <1>2, ConsTyped, Keyword
    <3>5. Turns(Cons("number", f), Alone(Word("minussym")), Cons("unsigned-number", f))
      BY <2>4, <3>4, TurnsQuiet
    <3>6. Turns(Cons("number", f), Alone(Word("minussym")) \o <<digits(-n)>>, f)
      BY <3>2, <3>3, <3>4, <3>5, TurnsOn
    <3>7. digits(-n) \in Items
      BY <1>3, <3>1
    <3>8. Decimal(n) = Alone(Word("minussym")) \o <<digits(-n)>>
      BY <1>4, <3>1, <3>7, PairOfItems DEF Alone
    <3> QED
      BY <2>5, <3>6, <3>8
  <2>6. CASE ~(n < 0)
    <3>1. Decimal(n) = <<digits(n)>>
      BY <2>6 DEF Decimal, digits
    <3>2. /\ <<digits(n)>> \in Seq(Items)
          /\ Turns(Cons("numbersym", f), <<digits(n)>>, f)
          /\ Turns(Cons("numbersym", u), <<digits(n)>>, u)
      BY <1>5, <2>1
    <3>3. Turns(Cons("number", f), <<digits(n)>>, f)
      BY <2>1, <2>2, <3>2, TurnsQuiet
    <3> QED
      BY <3>1, <3>2, <3>3
  <2> QED
    BY <2>5, <2>6
<1> QED
  BY <1>1, <1>6

LEMMA ConstDeclDerives == ASSUME IInv, DerivInv, UnparseConstDecl PROVE DerivInv'
<1> DEFINE front == Spaced(Word("constsym"))
           name == Spaced(Name(Node.name))
           eq == Spaced(Word("eqsym"))
           num == Decimal(Node.num)
           tail == Spaced(Word("semisym"))
           before == <<Word("constsym"), Gap, Name(Node.name), Gap, Word("eqsym"), Gap>>
           words == before \o num \o <<Word("semisym"), Gap>>
<1>1. At("unparseConstDecl") /\ PrintThen(words, <<>>)
  BY DEF UnparseConstDecl
<1>2. Arg \in 1 .. Len(heap) /\ Node.name \in Texts /\ Node.num \in Int /\ Node.tag = "const_decl_ast"
  BY <1>1, NodeKnown, ExpectedTags DEF ListCalls
<1>3. Node.num \in Nat
  BY <1>2 DEF DerivInv, UnsignedConsts, Node
<1>4. {"constsym", "eqsym", "semisym"} \subseteq TokenTypes
  BY DEF TokenTypes
<1>5. before = front \o (name \o eq)
  BY DEF Spaced
<1>6. words = (before \o num) \o tail
  BY DEF Spaced
<1>7. /\ front \in Seq(Items) /\ name \in Seq(Items) /\ eq \in Seq(Items) /\ tail \in Seq(Items)
      /\ \A t \in Seq(GrammarSymbols) :
           /\ Turns(Cons("constsym", t), front, t)
           /\ Turns(Cons("identsym", t), name, t)
           /\ Turns(Cons("eqsym", t), eq, t)
           /\ Turns(Cons("semisym", t), tail, t)
  BY <1>2, <1>4, Keyword, Identifier
<1>8. num \in Seq(Items) /\ \A t \in Seq(GrammarSymbols) : Turns(Cons("numbersym", t), num, t)
  BY <1>2, <1>3, DecimalTurns
<1> HIDE DEF front, name, eq, num, tail, before, words
<1>9. /\ name \o eq \in Seq(Items)
      /\ before \in Seq(Items)
      /\ before \o num \in Seq(Items)
      /\ words \in Seq(Items)
  BY <1>5, <1>6, <1>7, <1>8
<1>10. ASSUME NEW t \in Seq(GrammarSymbols)
       PROVE  Turns(Glued(Derives["unparseConstDecl"], t), words, t)
  <2> DEFINE u == Cons("act", Cons("semisym", t))
             v == Cons("act", Cons("comma-const-defs", u))
             x == Cons("const-number", v)
             y == Cons("act", v)
  <2>1. /\ Cons("semisym", t) \in Seq(GrammarSymbols)
        /\ u \in Seq(GrammarSymbols)
        /\ Cons("comma-const-defs", u) \in Seq(GrammarSymbols)
        /\ v \in Seq(GrammarSymbols)
        /\ x \in Seq(GrammarSymbols)
        /\ y \in Seq(GrammarSymbols)
        /\ Cons("const-decl", u) \in Seq(GrammarSymbols)
        /\ Cons("eqsym", x) \in Seq(GrammarSymbols)
    BY ConsTyped
  <2>2. /\ Turns(u, <<>>, Cons("semisym", t))
        /\ Turns(v, <<>>, Cons("comma-const-defs", u))
        /\ Turns(y, <<>>, v)
    BY <2>1, TurnsAct
  <2> HIDE DEF u
  <2>3. Turns(Cons("comma-const-defs", u), <<>>, u)
    BY <2>1, ConstDeclTurns
  <2>4. Turns(Cons("const-decl", u), <<>>, Cons("const-def", v))
    BY <2>1, ConstDeclTurns
  <2> HIDE DEF v
  <2>5. Turns(Cons("const-def", v), <<>>, Cons("identsym", Cons("eqsym", x)))
        /\ Turns(x, <<>>, Cons("numbersym", y))
    BY <2>1, ConstDeclTurns
  <2> HIDE DEF x, y
  <2>6. Turns(Cons("const-decl", u), <<>>, Cons("identsym", Cons("eqsym", x)))
    BY <2>4, <2>5, QuietOn
  <2>7. Turns(y, <<>>, Cons("semisym", t))
    BY <2>2, <2>3, QuietOn
  <2>8. Turns(Cons("constsym", Cons("const-decl", u)), front, Cons("const-decl", u))
    BY <1>7, <2>1
  <2>9. Turns(Cons("const-decl", u), name, Cons("eqsym", x))
    BY <1>7, <2>1, <2>6, TurnsQuiet
  <2>10. Turns(Cons("eqsym", x), eq, x)
    BY <1>7, <2>1
  <2>11. Turns(x, num, y)
    BY <1>8, <2>1, <2>5, TurnsQuiet
  <2>12. Turns(y, tail, t)
    BY <1>7, <2>7, TurnsQuiet
  <2>13. Turns(Cons("const-decl", u), name \o eq, x)
    BY <1>7, <2>9, <2>10, TurnsOn
  <2>14. Turns(Cons("constsym", Cons("const-decl", u)), before, x)
    BY <1>5, <1>7, <1>9, <2>8, <2>13, TurnsOn
  <2>15. Turns(Cons("constsym", Cons("const-decl", u)), before \o num, y)
    BY <1>8, <1>9, <2>11, <2>14, TurnsOn
  <2>16. Turns(Cons("constsym", Cons("const-decl", u)), words, t)
    BY <1>6, <1>7, <1>9, <2>12, <2>15, TurnsOn
  <2> QED
    BY <2>16, DerivesAre DEF u
<1>11. "unparseConstDecl" \in PlainCalls \ SemiCalls
  BY ExpectedTags DEF PlainCalls, SemiCalls
<1> QED
  BY <1>1, <1>9, <1>10, <1>11, LeafDerives

-----------------------------------------------------------------------------
(* Statements.                                                             *)

LEMMA StmtDerives == ASSUME IInv, DerivInv, UnparseStmt PROVE DerivInv'
<1> DEFINE f == StmtUnparser[Node.tag]
           a == CallStmt(f, Arg, Semi)
<1>1. At("unparseStmt") /\ "unparseStmt" \in SemiCalls /\ "unparseStmt" \in DOMAIN Expected
  BY ExpectedTags DEF UnparseStmt, SemiCalls
<1>2. Arg \in 1 .. Len(heap) /\ Node.tag \in StmtTags /\ Semi \in BOOLEAN
  BY <1>1, CallKnows, NodeKnown, ExpectedTags DEF ListCalls
<1>3. Node.tag \in DOMAIN StmtUnparser
  BY <1>2 DEF StmtTags, StmtUnparser
<1>4. f \in {"unparseAssignStmt", "unparseBeginStmt", "unparseIfStmt", "unparseWhileStmt",
             "unparseReadStmt", "unparseWriteStmt", "unparseSkipStmt"}
  BY <1>2 DEF StmtTags, StmtUnparser
<1>5. PrintThen(<<>>, <<a>>)
  BY <1>3 DEF UnparseStmt, Do
<1> HIDE DEF f
<1>6. f \in SemiCalls /\ f \in DOMAIN Expected
  BY <1>4, ExpectedTags DEF SemiCalls
<1>7. a \in AnyInstrs
  BY <1>2, <1>6, PointerTyped, Typed
<1>8. ASSUME NEW t \in Seq(GrammarSymbols), NEW g, Turns(t, SemiWords(Semi), g)
      PROVE  \E e : Turns(Glued(Derives["unparseStmt"], t), <<>>, e) /\ Path(heap, <<a>>, e, g)
  <2>1. Glued(Derives["unparseStmt"], t) = Cons("stmt", t)
    BY DerivesAre
  <2>2. Turns(Cons("stmt", t), <<>>, Glued(Derives[f], t))
    BY <1>4, DerivesAre, KindTurns
  <2>3. Effect(heap, a, Cons("stmt", t), g)
    BY <1>6, <1>8, <2>2, SemiEffect
  <2>4. Path(heap, <<a>>, Cons("stmt", t), g)
    BY <2>3, PathOne
  <2> QED
    BY <2>1, <2>4, TurnsStay
<1> HIDE DEF a
<1>9. <<>> \in Seq(Items) /\ <<a>> \in Seq(AnyInstrs)
  BY <1>7
<1> QED
  BY <1>1, <1>5, <1>8, <1>9, SemiDerives

\* A statement at the head of a form, with the semicolon after it.
LEMMA StmtEffect ==
  ASSUME NEW h, NEW p, NEW semi, NEW t \in Seq(GrammarSymbols), NEW g,
         Turns(t, SemiWords(semi), g)
  PROVE  Effect(h, CallStmt("unparseStmt", p, semi), Cons("stmt", t), g)
<1>1. "unparseStmt" \in SemiCalls
  BY DEF SemiCalls
<1> QED
  BY <1>1, DerivesAre, TurnsStay, SemiEffect

LEMMA StmtEffectPlain ==
  ASSUME NEW h, NEW p, NEW t \in Seq(GrammarSymbols), NEW g, Turns(t, <<>>, g)
  PROVE  Effect(h, Call("unparseStmt", p), Cons("stmt", t), g)
BY StmtEffect DEF Call, SemiWords

\* The semicolon comes after the steps of the translation.
LEMMA SemiAfterAct ==
  ASSUME NEW semi \in BOOLEAN, NEW t \in Seq(GrammarSymbols), NEW g, Turns(t, SemiWords(semi), g)
  PROVE  Turns(Cons("act", t), SemiWords(semi), g)
<1>1. SemiWords(semi) \in Seq(Items)
  BY WordIsItem DEF SemiWords, TokenTypes
<1> QED
  BY <1>1, TurnsAct, TurnsQuiet

\* Assignments and writes: words, an expression and the end of the line.
LEMMA ExprStmtDerives ==
  ASSUME IInv, DerivInv, NEW do \in {"unparseAssignStmt", "unparseWriteStmt"}, At(do),
         NEW words \in Seq(Items),
         PrintThen(words, <<Call("unparseExpr", Kid(1)), Emit(newlineAndOptionalSemi(Semi))>>),
         \A t \in Seq(GrammarSymbols) :
           Turns(Glued(Derives[do], t), words, Cons("expr", Cons("act", t)))
  PROVE  DerivInv'
<1> DEFINE a == Call("unparseExpr", Kid(1))
           newline == newlineAndOptionalSemi(Semi)
           b == Emit(newline)
<1>1. do \in DOMAIN Expected \ ListCalls /\ do \in SemiCalls
  BY ExpectedTags DEF ListCalls, SemiCalls
<1>2. /\ Arg \in 1 .. Len(heap)
      /\ Node.tag \in {"assign_ast", "write_ast"}
      /\ Semi \in BOOLEAN
  BY <1>1, CallKnows, NodeKnown, ExpectedTags
<1>3. Kid(1) \in Nat
  <2>1. Points(heap, Arg, 1, ExprTags)
    BY <1>2, SlotsOfUnary, Facts DEF Node
  <2> QED
    BY <2>1, PointerTyped DEF Kid, Node
<1>4. newline \in Seq(Items)
  BY <1>2, NewlineIsGood
<1>5. a \in AnyInstrs /\ b \in AnyInstrs
  BY <1>3, <1>4, ExpectedTags, Typed
<1>6. ASSUME NEW t \in Seq(GrammarSymbols), NEW g, Turns(t, SemiWords(Semi), g)
      PROVE  \E e : Turns(Glued(Derives[do], t), words, e) /\ Path(heap, <<a, b>>, e, g)
  <2> DEFINE u == Cons("act", t)
  <2>1. u \in Seq(GrammarSymbols)
    BY ConsTyped
  <2>2. Turns(Glued(Derives[do], t), words, Cons("expr", u))
    OBVIOUS
  <2>3. Turns(u, SemiWords(Semi), g)
    BY <1>2, <1>6, SemiAfterAct
  <2> HIDE DEF u
  <2>4. Effect(heap, b, u, g)
    BY <1>2, <2>3, NewlineTurns, EmitEffect
  <2>5. Effect(heap, a, Cons("expr", u), u)
    BY <2>1, TurnsStay, ExprEffect
  <2>6. Path(heap, <<a, b>>, Cons("expr", u), g)
    BY <1>5, <2>4, <2>5, PathTwo
  <2> QED
    BY <2>2, <2>6
<1>7. PrintThen(words, <<a, b>>)
  OBVIOUS
<1> HIDE DEF a, b
<1>8. <<a, b>> \in Seq(AnyInstrs)
  BY <1>5
<1> QED
  BY <1>1, <1>6, <1>7, <1>8, SemiDerives

LEMMA AssignDerives == ASSUME IInv, DerivInv, UnparseAssignStmt PROVE DerivInv'
<1> DEFINE name == Spaced(Name(Node.name))
           becomes == Spaced(Word("becomessym"))
           words == <<Name(Node.name), Gap, Word("becomessym"), Gap>>
<1>1. words = name \o becomes
  BY DEF Spaced
<1>2. Node.name \in Texts /\ "becomessym" \in TokenTypes
  BY NodeKnown, ExpectedTags DEF UnparseAssignStmt, ListCalls, TokenTypes
<1>3. /\ name \in Seq(Items) /\ becomes \in Seq(Items)
      /\ \A t \in Seq(GrammarSymbols) :
           Turns(Cons("identsym", t), name, t) /\ Turns(Cons("becomessym", t), becomes, t)
  BY <1>2, Keyword, Identifier
<1>4. At("unparseAssignStmt")
      /\ PrintThen(words, <<Call("unparseExpr", Kid(1)), Emit(newlineAndOptionalSemi(Semi))>>)
  BY DEF UnparseAssignStmt
<1> HIDE DEF name, becomes, words
<1>5. words \in Seq(Items)
  BY <1>1, <1>3
<1>6. ASSUME NEW t \in Seq(GrammarSymbols)
      PROVE  Turns(Glued(Derives["unparseAssignStmt"], t), words, Cons("expr", Cons("act", t)))
  <2> DEFINE u == Cons("expr", Cons("act", t))
  <2>1. /\ Cons("act", t) \in Seq(GrammarSymbols)
        /\ u \in Seq(GrammarSymbols)
        /\ Cons("becomessym", u) \in Seq(GrammarSymbols)
    BY ConsTyped
  <2>2. Turns(Cons("assign-stmt", t), <<>>, Cons("identsym", Cons("becomessym", u)))
    BY StmtTurns
  <2> HIDE DEF u
  <2>3. Turns(Cons("assign-stmt", t), name, Cons("becomessym", u))
    BY <1>3, <2>1, <2>2, TurnsQuiet
  <2>4. Turns(Cons("becomessym", u), becomes, u)
    BY <1>3, <2>1
  <2>5. Turns(Cons("assign-stmt", t), words, u)
    BY <1>1, <1>3, <2>3, <2>4, TurnsOn
  <2> QED
    BY <2>5, DerivesAre DEF u
<1> QED
  BY <1>4, <1>5, <1>6, ExprStmtDerives

LEMMA WriteDerives == ASSUME IInv, DerivInv, UnparseWriteStmt PROVE DerivInv'
<1> DEFINE words == Spaced(Word("writesym"))
<1>1. "writesym" \in TokenTypes
  BY DEF TokenTypes
<1>2. At("unparseWriteStmt")
      /\ PrintThen(words, <<Call("unparseExpr", Kid(1)), Emit(newlineAndOptionalSemi(Semi))>>)
  BY DEF UnparseWriteStmt, Spaced
<1>3. words \in Seq(Items) /\ \A t \in Seq(GrammarSymbols) : Turns(Cons("writesym", t), words, t)
  BY <1>1, Keyword
<1> HIDE DEF words
<1>4. ASSUME NEW t \in Seq(GrammarSymbols)
      PROVE  Turns(Glued(Derives["unparseWriteStmt"], t), words, Cons("expr", Cons("act", t)))
  <2> DEFINE u == Cons("expr", Cons("act", t))
  <2>1. Cons("act", t) \in Seq(GrammarSymbols) /\ u \in Seq(GrammarSymbols)
    BY ConsTyped
  <2>2. Turns(Cons("write-stmt", t), <<>>, Cons("writesym", u))
    BY StmtTurns
  <2> HIDE DEF u
  <2>3. Turns(Cons("write-stmt", t), words, u)
    BY <1>3, <2>1, <2>2, TurnsQuiet
  <2> QED
    BY <2>3, DerivesAre DEF u
<1> QED
  BY <1>2, <1>3, <1>4, ExprStmtDerives

\* Reads and skips: words, and the end of the line.
LEMMA LineDerives ==
  ASSUME IInv, DerivInv, NEW do \in {"unparseReadStmt", "unparseSkipStmt"}, At(do),
         NEW words \in Seq(Items), PrintThen(words \o newlineAndOptionalSemi(Semi), <<>>),
         \A t \in Seq(GrammarSymbols) : Turns(Glued(Derives[do], t), words, t)
  PROVE  DerivInv'
<1> DEFINE newline == newlineAndOptionalSemi(Semi)
           line == words \o newline
<1>1. do \in DOMAIN Expected /\ do \in SemiCalls
  BY ExpectedTags DEF SemiCalls
<1>2. Semi \in BOOLEAN
  BY <1>1, CallKnows
<1>3. newline \in Seq(Items)
  BY <1>2, NewlineIsGood
<1>4. PrintThen(line, <<>>)
  OBVIOUS
<1>5. ASSUME NEW t \in Seq(GrammarSymbols), NEW g, Turns(t, SemiWords(Semi), g)
      PROVE  \E e : Turns(Glued(Derives[do], t), line, e) /\ Path(heap, <<>>, e, g)
  <2>1. Turns(t, newline, g)
    BY <1>2, <1>5, NewlineTurns
  <2> HIDE DEF newline
  <2>2. Turns(Glued(Derives[do], t), line, g)
    BY <1>3, <2>1, TurnsOn
  <2> QED
    BY <2>2, PathNothing
<1> HIDE DEF newline
<1>6. line \in Seq(Items) /\ <<>> \in Seq(AnyInstrs)
  BY <1>3
<1> HIDE DEF line
<1> QED
  BY <1>1, <1>4, <1>5, <1>6, SemiDerives

LEMMA ReadDerives == ASSUME IInv, DerivInv, UnparseReadStmt PROVE DerivInv'
<1> DEFINE read == Spaced(Word("readsym"))
           name == Alone(Name(Node.name))
           words == <<Word("readsym"), Gap, Name(Node.name)>>
<1>1. words = read \o name
  BY DEF Spaced, Alone
<1>2. Node.name \in Texts /\ "readsym" \in TokenTypes
  BY NodeKnown, ExpectedTags DEF UnparseReadStmt, ListCalls, TokenTypes
<1>3. /\ name \in Seq(Items) /\ read \in Seq(Items)
      /\ \A t \in Seq(GrammarSymbols) :
           Turns(Cons("identsym", t), name, t) /\ Turns(Cons("readsym", t), read, t)
  BY <1>2, Keyword, Identifier
<1>4. At("unparseReadStmt") /\ PrintThen(words \o newlineAndOptionalSemi(Semi), <<>>)
  BY DEF UnparseReadStmt
<1> HIDE DEF name, read, words
<1>5. words \in Seq(Items)
  BY <1>1, <1>3
<1>6. ASSUME NEW t \in Seq(GrammarSymbols)
      PROVE  Turns(Glued(Derives["unparseReadStmt"], t), words, t)
  <2> DEFINE u == Cons("act", t)
  <2>1. u \in Seq(GrammarSymbols) /\ Cons("read-ident", t) \in Seq(GrammarSymbols)
    BY ConsTyped
  <2>2. Turns(Cons("read-stmt", t), <<>>, Cons("readsym", Cons("read-ident", t)))
        /\ Turns(Cons("read-ident", t), <<>>, Cons("identsym", u))
    BY StmtTurns
  <2>3. Turns(u, <<>>, t)
    BY TurnsAct
  <2> HIDE DEF u
  <2>4. Turns(Cons("read-stmt", t), read, Cons("read-ident", t))
    BY <1>3, <2>1, <2>2, TurnsQuiet
  <2>5. Turns(Cons("read-ident", t), name, t)
    BY <1>3, <2>1, <2>2, <2>3, TurnsQuiet
  <2>6. Turns(Cons("read-stmt", t), words, t)
    BY <1>1, <1>3, <2>4, <2>5, TurnsOn
  <2> QED
    BY <2>6, DerivesAre
<1> QED
  BY <1>4, <1>5, <1>6, LineDerives

LEMMA SkipDerives == ASSUME IInv, DerivInv, UnparseSkipStmt PROVE DerivInv'
<1> DEFINE words == Alone(Word("skipsym"))
<1>1. "skipsym" \in TokenTypes
  BY DEF TokenTypes
<1>2. At("unparseSkipStmt") /\ PrintThen(words \o newlineAndOptionalSemi(Semi), <<>>)
  BY DEF UnparseSkipStmt, Alone
<1>3. words \in Seq(Items) /\ \A t \in Seq(GrammarSymbols) : Turns(Cons("skipsym", t), words, t)
  BY <1>1, Keyword
<1> HIDE DEF words
<1>4. ASSUME NEW t \in Seq(GrammarSymbols)
      PROVE  Turns(Glued(Derives["unparseSkipStmt"], t), words, t)
  <2>1. Cons("act", t) \in Seq(GrammarSymbols) /\ Turns(Cons("act", t), <<>>, t)
    BY ConsTyped, TurnsAct
  <2>2. Turns(Cons("skip-stmt", t), <<>>, Cons("skipsym", Cons("act", t)))
    BY StmtTurns
  <2>3. Turns(Cons("skip-stmt", t), words, Cons("act", t))
    BY <1>3, <2>1, <2>2, TurnsQuiet
  <2>4. Turns(Cons("skip-stmt", t), words, t)
    BY <1>3, <2>1, <2>3, TurnsQuiet
  <2> QED
    BY <2>4, DerivesAre
<1> QED
  BY <1>2, <1>3, <1>4, LineDerives

LEMMA BeginDerives == ASSUME IInv, DerivInv, UnparseBeginStmt PROVE DerivInv'
<1> DEFINE words == Spaced(Word("beginsym"))
           end == Alone(Word("endsym"))
           newline == newlineAndOptionalSemi(Semi)
           line == end \o newline
           a == Call("unparseStmtList", Kid(1))
           b == Emit(line)
<1>1. At("unparseBeginStmt") /\ PrintThen(words, <<a, b>>)
  BY DEF UnparseBeginStmt, Spaced, Alone
<1>2. "unparseBeginStmt" \in DOMAIN Expected \ ListCalls /\ "unparseBeginStmt" \in SemiCalls
  BY ExpectedTags DEF ListCalls, SemiCalls
<1>3. Arg \in 1 .. Len(heap) /\ Node.tag = "begin_ast" /\ Semi \in BOOLEAN
  BY <1>1, <1>2, CallKnows, NodeKnown, ExpectedTags
<1>4. Kid(1) \in Nat
  <2>1. Points(heap, Arg, 1, StmtTags)
    BY <1>3, SlotsOfUnary, Facts DEF Node
  <2> QED
    BY <2>1, PointerTyped DEF Kid, Node
<1>5. "beginsym" \in TokenTypes /\ "endsym" \in TokenTypes
  BY DEF TokenTypes
<1>6. /\ words \in Seq(Items) /\ end \in Seq(Items)
      /\ \A t \in Seq(GrammarSymbols) :
           Turns(Cons("beginsym", t), words, t) /\ Turns(Cons("endsym", t), end, t)
  BY <1>5, Keyword
<1>7. newline \in Seq(Items)
  BY <1>3, NewlineIsGood
<1> HIDE DEF words, end
<1>8. line \in Seq(Items)
  BY <1>6, <1>7
<1>9. a \in AnyInstrs /\ b \in AnyInstrs
  BY <1>4, <1>8, ExpectedTags, Typed
<1>10. ASSUME NEW t \in Seq(GrammarSymbols), NEW g, Turns(t, SemiWords(Semi), g)
       PROVE  \E e : Turns(Glued(Derives["unparseBeginStmt"], t), words, e) /\ Path(heap, <<a, b>>, e, g)
  <2> DEFINE s == Cons("act", t)
             u == Cons("endsym", s)
             v == Cons("act", u)
             x == Cons("act", v)
             y == Cons("stmt", Cons("act", Cons("stmt-list", x)))
  <2>1. /\ s \in Seq(GrammarSymbols) /\ u \in Seq(GrammarSymbols) /\ v \in Seq(GrammarSymbols)
        /\ x \in Seq(GrammarSymbols) /\ y \in Seq(GrammarSymbols)
    BY ConsTyped
  <2>2. Turns(s, newline, g)
    BY <1>3, <1>10, SemiAfterAct, NewlineTurns
  <2>3. Turns(Cons("begin-stmt", t), <<>>, Cons("beginsym", y))
    BY StmtTurns
  <2> HIDE DEF s, newline
  <2>4. Turns(u, line, g)
    BY <1>6, <1>7, <2>1, <2>2, TurnsOn
  <2>5. Turns(v, <<>>, u) /\ Turns(x, <<>>, v)
    BY <2>1, TurnsAct
  <2> HIDE DEF u, v, line
  <2>6. Effect(heap, b, u, g)
    BY <2>4, EmitEffect
  <2>7. Effect(heap, a, y, u)
    <3>1. "unparseStmtList" \in PlainCalls \ SemiCalls
      BY ExpectedTags DEF PlainCalls, SemiCalls
    <3>2. Glued(Derives["unparseStmtList"], x) = y
      BY <2>1, DerivesAre
    <3>3. Turns(x, <<>>, u)
      BY <2>5, QuietOn
    <3> HIDE DEF x, y
    <3> QED
      BY <2>1, <3>1, <3>2, <3>3, TurnsStay, PlainEffect
  <2> HIDE DEF x, y
  <2>8. Path(heap, <<a, b>>, y, g)
    BY <1>9, <2>6, <2>7, PathTwo
  <2>9. Turns(Cons("begin-stmt", t), words, y)
    BY <1>6, <2>1, <2>3, TurnsQuiet
  <2> QED
    BY <2>8, <2>9, DerivesAre
<1> HIDE DEF a, b
<1>11. <<a, b>> \in Seq(AnyInstrs)
  BY <1>9
<1> QED
  BY <1>1, <1>2, <1>6, <1>10, <1>11, SemiDerives

\* What the loop over statements is called for.
LEMMA LoopBefore ==
  ASSUME NEW i, i.do = "stmtsLoop", NEW t \in Seq(GrammarSymbols)
  PROVE  /\ i.p = NULL => Glued(Before(i), t) = Cons("semi-stmts", t)
         /\ i.p # NULL => Glued(Before(i), t) = Cons("stmt", Cons("act", Cons("semi-stmts", t)))
<1>1. ASSUME i.p = NULL
      PROVE  Glued(Before(i), t) = Cons("semi-stmts", t)
  <2>1. Before(i) = Derives["stmtsLoop"]
    BY <1>1 DEF Before
  <2> QED
    BY <2>1, DerivesAre
<1>2. ASSUME i.p # NULL
      PROVE  Glued(Before(i), t) = Cons("stmt", Cons("act", Cons("semi-stmts", t)))
  <2>1. Before(i) = <<"stmt", "act", "semi-stmts">>
    BY <1>2 DEF Before
  <2> QED
    BY <2>1, Symbols, Unfold3
<1> QED
  BY <1>1, <1>2

LEMMA LoopEffect ==
  ASSUME NEW h, NEW p, NEW t \in Seq(GrammarSymbols), NEW g, Turns(t, <<>>, g)
  PROVE  Effect(h, Call("stmtsLoop", p), Glued(Before(Call("stmtsLoop", p)), t), g)
<1> DEFINE i == CallStmt("stmtsLoop", p, FALSE)
<1>1. i.do = "stmtsLoop"
  BY DEF CallStmt
<1>2. After(h, i) = <<>> /\ EndWords(i) = <<>>
  BY <1>1 DEF After, EndWords, SemiCalls
<1>3. Glued(<<>>, t) = t
  BY Unfold0
<1>4. "stmtsLoop" \in DOMAIN Expected
  BY ExpectedTags
<1>5. Call("stmtsLoop", p) = i
  BY DEF Call
<1> DEFINE f == Glued(Before(i), t)
<1>6. Turns(f, <<>>, Glued(Before(i), t))
  BY TurnsStay
<1> HIDE DEF f
<1>7. Effect(h, i, f, g)
  BY <1>2, <1>3, <1>4, <1>6, CallEffect
<1> QED
  BY <1>5, <1>7 DEF f

\* One statement, the separator if another one follows, and the loop.
LEMMA StmtsDerive ==
  ASSUME IInv, DerivInv, NEW do \in {"unparseStmtList", "stmtsLoop"}, At(do),
         Arg \in 1 .. Len(heap), DoStmts(Arg), NEW last \in {"stmt-list", "semi-stmts"},
         \A t \in Seq(GrammarSymbols) :
           Glued(Before(Head(rest)), t) = Cons("stmt", Cons("act", Cons(last, t)))
  PROVE  DerivInv'
<1> DEFINE nxt == ast_list_rest(heap, Arg)
           semi == ~ast_list_is_empty(nxt)
           a == CallStmt("unparseStmt", Arg, semi)
           b == Call("stmtsLoop", nxt)
<1>1. PrintThen(<<>>, <<a, b>>)
  BY DEF DoStmts, Do
<1>2. a \in AnyInstrs /\ b \in AnyInstrs /\ semi \in BOOLEAN
  <2>1. Arg \in Nat /\ nxt \in Nat
    BY PointerTyped DEF ast_list_rest
  <2> QED
    BY <2>1, ExpectedTags, Typed
<1>3. do \in DOMAIN Expected
      /\ After(heap, Head(rest)) = <<>> /\ EndWords(Head(rest)) = <<>>
  BY ExpectedTags DEF At, After, EndWords, SemiCalls
<1>4. ASSUME NEW t \in Seq(GrammarSymbols), NEW g,
             Turns(Glued(After(heap, Head(rest)), t), EndWords(Head(rest)), g)
      PROVE  \E e : Turns(Glued(Before(Head(rest)), t), <<>>, e) /\ Path(heap, <<a, b>>, e, g)
  <2> DEFINE u == Cons(last, t)
             v == Cons("act", u)
             w == Glued(Before(b), t)
  <2>1. u \in Seq(GrammarSymbols) /\ v \in Seq(GrammarSymbols) /\ Cons("semi-stmts", t) \in Seq(GrammarSymbols)
    BY ConsTyped
  <2>2. Turns(t, <<>>, g)
    <3>1. Glued(<<>>, t) = t
      BY Unfold0
    <3> QED
      BY <1>3, <1>4, <3>1
  <2>3. Turns(u, <<>>, Cons("semi-stmts", t))
    BY StmtTurns, TurnsStay
  <2> HIDE DEF u
  <2>4. Turns(v, <<>>, Cons("semi-stmts", t))
    BY <2>1, <2>3, TurnsAct, QuietOn
  <2>5. b.do = "stmtsLoop" /\ b.p = nxt
    BY DEF Call, CallStmt
  <2>6. Turns(Cons("semi-stmts", t), SemiWords(semi), w)
    <3>1. CASE nxt = NULL
      <4>1. SemiWords(semi) = <<>> /\ w = Cons("semi-stmts", t)
        BY <2>5, <3>1, LoopBefore DEF SemiWords, ast_list_is_empty
      <4> QED
        BY <4>1, TurnsStay
    <3>2. CASE nxt # NULL
      <4> DEFINE x == Cons("stmt", Cons("act", Cons("semi-stmts", t)))
      <4>1. SemiWords(semi) = Alone(Word("semisym"))
        BY <3>2 DEF SemiWords, ast_list_is_empty, Alone
      <4>2. w = x
        BY <2>5, <3>2, LoopBefore
      <4>3. x \in Seq(GrammarSymbols)
        BY ConsTyped
      <4>4. Turns(Cons("semi-stmts", t), <<>>, Cons("semisym", x))
        BY StmtTurns
      <4> HIDE DEF x
      <4>5. "semisym" \in TokenTypes
        BY DEF TokenTypes
      <4>6. Alone(Word("semisym")) \in Seq(Items) /\ Turns(Cons("semisym", x), Alone(Word("semisym")), x)
        BY <4>3, <4>5, Keyword
      <4>7. Turns(Cons("semi-stmts", t), Alone(Word("semisym")), x)
        BY <4>4, <4>6, TurnsQuiet
      <4> QED
        BY <4>1, <4>2, <4>7
    <3> QED
      BY <3>1, <3>2
  <2>7. Effect(heap, b, w, g)
    BY <2>2, LoopEffect
  <2> HIDE DEF w, v, semi
  <2>8. Turns(v, SemiWords(semi), w)
    <3>1. SemiWords(semi) \in Seq(Items)
      BY <1>2, WordIsItem DEF SemiWords, TokenTypes
    <3> QED
      BY <2>4, <2>6, <3>1, TurnsQuiet
  <2>9. Effect(heap, a, Cons("stmt", v), w)
    BY <2>1, <2>8, StmtEffect
  <2>10. Path(heap, <<a, b>>, Cons("stmt", v), g)
    BY <1>2, <2>7, <2>9, PathTwo
  <2>11. Glued(Before(Head(rest)), t) = Cons("stmt", v)
    BY DEF u, v
  <2>12. Turns(Cons("stmt", v), <<>>, Cons("stmt", v))
    BY TurnsStay
  <2> QED
    BY <2>10, <2>11, <2>12
<1> HIDE DEF a, b
<1>5. <<>> \in Seq(Items) /\ <<a, b>> \in Seq(AnyInstrs)
  BY <1>2
<1> QED
  BY <1>1, <1>3, <1>4, <1>5, CallDerives

LEMMA StmtListDerives == ASSUME IInv, DerivInv, UnparseStmtList PROVE DerivInv'
<1>1. At("unparseStmtList") /\ DoStmts(Arg)
  BY DEF UnparseStmtList
<1>2. Arg \in 1 .. Len(heap)
  BY <1>1, NodeKnown, ExpectedTags DEF ListCalls
<1>3. Before(Head(rest)) = Derives["unparseStmtList"]
  BY <1>1 DEF Before, At
<1>4. \A t \in Seq(GrammarSymbols) :
        Glued(Before(Head(rest)), t) = Cons("stmt", Cons("act", Cons("stmt-list", t)))
  BY <1>3, DerivesAre
<1> QED
  BY <1>1, <1>2, <1>4, StmtsDerive

LEMMA StmtsLoopDerives == ASSUME IInv, DerivInv, StmtsLoop PROVE DerivInv'
<1>1. At("stmtsLoop") /\ Head(rest).do = "stmtsLoop"
  BY DEF StmtsLoop, At
<1>2. CASE ast_list_is_empty(Arg)
  <2>1. PrintThen(<<>>, <<>>) /\ Head(rest).p = NULL
    BY <1>2 DEF StmtsLoop, Do, ast_list_is_empty, Arg
  <2>2. After(heap, Head(rest)) = <<>> /\ EndWords(Head(rest)) = <<>>
    BY <1>1 DEF After, EndWords, SemiCalls
  <2>3. ASSUME NEW t \in Seq(GrammarSymbols), NEW g,
               Turns(Glued(After(heap, Head(rest)), t), EndWords(Head(rest)), g)
        PROVE  \E e : Turns(Glued(Before(Head(rest)), t), <<>>, e) /\ Path(heap, <<>>, e, g)
    <3>1. Turns(t, <<>>, g)
      <4>1. Glued(<<>>, t) = t
        BY Unfold0
      <4> QED
        BY <2>2, <2>3, <4>1
    <3>2. Glued(Before(Head(rest)), t) = Cons("semi-stmts", t)
      BY <1>1, <2>1, LoopBefore
    <3>3. Turns(Cons("semi-stmts", t), <<>>, g)
      BY <3>1, StmtTurns, QuietOn
    <3> QED
      BY <3>2, <3>3, PathNothing
  <2>4. <<>> \in Seq(Items) /\ <<>> \in Seq(AnyInstrs) /\ "stmtsLoop" \in DOMAIN Expected
    BY ExpectedTags
  <2> QED
    BY <1>1, <2>1, <2>3, <2>4, CallDerives
<1>3. CASE ~ast_list_is_empty(Arg)
  <2>1. DoStmts(Arg)
    BY <1>3 DEF StmtsLoop
  <2>2. Arg \in 1 .. Len(heap)
    BY <1>1, <1>3, CallKnows, ExpectedTags DEF ast_list_is_empty
  <2>3. Head(rest).p # NULL
    BY <1>3 DEF ast_list_is_empty, Arg
  <2>4. \A t \in Seq(GrammarSymbols) :
          Glued(Before(Head(rest)), t) = Cons("stmt", Cons("act", Cons("semi-stmts", t)))
    BY <1>1, <2>3, LoopBefore
  <2> QED
    BY <1>1, <2>1, <2>2, <2>4, StmtsDerive
<1> QED
  BY <1>2, <1>3

LEMMA ConditionEffect ==
  ASSUME NEW h, NEW p, NEW t \in Seq(GrammarSymbols)
  PROVE  Effect(h, Call("unparseCondition", p), Cons("condition", t), t)
<1>1. "unparseCondition" \in PlainCalls \ SemiCalls
  BY ExpectedTags DEF PlainCalls, SemiCalls
<1> QED
  BY <1>1, DerivesAre, TurnsStay, PlainEffect

LEMMA WhileDerives == ASSUME IInv, DerivInv, UnparseWhileStmt PROVE DerivInv'
<1> DEFINE words == Spaced(Word("whilesym"))
           do == Enclosed(Word("dosym"))
           a == Call("unparseCondition", Kid(1))
           b == Emit(do)
           c == CallStmt("unparseStmt", Kid(2), Semi)
<1>1. At("unparseWhileStmt") /\ PrintThen(words, <<a, b, c>>)
  BY DEF UnparseWhileStmt, Spaced, Enclosed
<1>2. "unparseWhileStmt" \in DOMAIN Expected \ ListCalls /\ "unparseWhileStmt" \in SemiCalls
  BY ExpectedTags DEF ListCalls, SemiCalls
<1>3. Arg \in 1 .. Len(heap) /\ Node.tag = "while_ast" /\ Semi \in BOOLEAN
  BY <1>1, <1>2, CallKnows, NodeKnown, ExpectedTags
<1>4. Kid(1) \in Nat /\ Kid(2) \in Nat
  <2>1. Points(heap, Arg, 1, CondTags) /\ Points(heap, Arg, 2, StmtTags)
    BY <1>3, SlotsOfWhile, Facts DEF Node
  <2> QED
    BY <2>1, PointerTyped DEF Kid, Node
<1>5. "whilesym" \in TokenTypes /\ "dosym" \in TokenTypes
  BY DEF TokenTypes
<1>6. /\ words \in Seq(Items) /\ do \in Seq(Items)
      /\ \A t \in Seq(GrammarSymbols) :
           Turns(Cons("whilesym", t), words, t) /\ Turns(Cons("dosym", t), do, t)
  BY <1>5, Keyword
<1> HIDE DEF words, do
<1>7. a \in AnyInstrs /\ b \in AnyInstrs /\ c \in AnyInstrs
  BY <1>3, <1>4, <1>6, ExpectedTags, Typed
<1>8. ASSUME NEW t \in Seq(GrammarSymbols), NEW g, Turns(t, SemiWords(Semi), g)
      PROVE  \E e : Turns(Glued(Derives["unparseWhileStmt"], t), words, e)
                    /\ Path(heap, <<a, b, c>>, e, g)
  <2> DEFINE s == Cons("act", t)
             u == Cons("stmt", s)
             v == Cons("dosym", u)
             x == Cons("condition", v)
  <2>1. /\ s \in Seq(GrammarSymbols) /\ u \in Seq(GrammarSymbols) /\ v \in Seq(GrammarSymbols)
        /\ x \in Seq(GrammarSymbols)
    BY ConsTyped
  <2>2. Turns(s, SemiWords(Semi), g)
    BY <1>3, <1>8, SemiAfterAct
  <2>3. Turns(Cons("while-stmt", t), <<>>, Cons("whilesym", x))
    BY StmtTurns
  <2> HIDE DEF s
  <2>4. Effect(heap, c, u, g)
    BY <2>1, <2>2, StmtEffect
  <2> HIDE DEF u
  <2>5. Effect(heap, b, v, u)
    BY <1>6, <2>1, EmitEffect
  <2> HIDE DEF v
  <2>6. Effect(heap, a, x, v)
    BY <2>1, ConditionEffect
  <2> HIDE DEF x
  <2>7. Path(heap, <<a, b, c>>, x, g)
    BY <1>7, <2>4, <2>5, <2>6, PathThree
  <2>8. Turns(Cons("while-stmt", t), words, x)
    BY <1>6, <2>1, <2>3, TurnsQuiet
  <2> QED
    BY <2>7, <2>8, DerivesAre
<1> HIDE DEF a, b, c
<1>9. <<a, b, c>> \in Seq(AnyInstrs)
  BY <1>7
<1> QED
  BY <1>1, <1>2, <1>6, <1>8, <1>9, SemiDerives

LEMMA IfDerives == ASSUME IInv, DerivInv, UnparseIfStmt PROVE DerivInv'
<1> DEFINE words == Spaced(Word("ifsym"))
           then == Enclosed(Word("thensym"))
           else == Spaced(Word("elsesym"))
           a == Call("unparseCondition", Kid(1))
           b == Emit(then)
           c == Call("unparseStmt", Kid(2))
           d == Emit(else)
           e == CallStmt("unparseStmt", Kid(3), Semi)
<1>1. At("unparseIfStmt") /\ PrintThen(words, <<a, b, c, d, e>>)
  BY DEF UnparseIfStmt, Spaced, Enclosed
<1>2. "unparseIfStmt" \in DOMAIN Expected \ ListCalls /\ "unparseIfStmt" \in SemiCalls
  BY ExpectedTags DEF ListCalls, SemiCalls
<1>3. Arg \in 1 .. Len(heap) /\ Node.tag = "if_ast" /\ Semi \in BOOLEAN
  BY <1>1, <1>2, CallKnows, NodeKnown, ExpectedTags
<1>4. Kid(1) \in Nat /\ Kid(2) \in Nat /\ Kid(3) \in Nat
  <2>1. /\ Points(heap, Arg, 1, CondTags)
        /\ Points(heap, Arg, 2, StmtTags)
        /\ Points(heap, Arg, 3, StmtTags)
    BY <1>3, SlotsOfIf, Facts DEF Node
  <2> QED
    BY <2>1, PointerTyped DEF Kid, Node
<1>5. {"ifsym", "thensym", "elsesym"} \subseteq TokenTypes
  BY DEF TokenTypes
<1>6. /\ words \in Seq(Items) /\ then \in Seq(Items) /\ else \in Seq(Items)
      /\ \A t \in Seq(GrammarSymbols) :
           /\ Turns(Cons("ifsym", t), words, t)
           /\ Turns(Cons("thensym", t), then, t)
           /\ Turns(Cons("elsesym", t), else, t)
  BY <1>5, Keyword
<1> HIDE DEF words, then, else
<1>7. a \in AnyInstrs /\ b \in AnyInstrs /\ c \in AnyInstrs /\ d \in AnyInstrs /\ e \in AnyInstrs
  BY <1>3, <1>4, <1>6, ExpectedTags, Typed
<1>8. ASSUME NEW t \in Seq(GrammarSymbols), NEW g, Turns(t, SemiWords(Semi), g)
      PROVE  \E f : Turns(Glued(Derives["unparseIfStmt"], t), words, f)
                    /\ Path(heap, <<a, b, c, d, e>>, f, g)
  <2> DEFINE s == Cons("act", t)
             u == Cons("stmt", s)
             v == Cons("elsesym", u)
             w == Cons("stmt", v)
             x == Cons("thensym", w)
             y == Cons("condition", x)
  <2>1. /\ s \in Seq(GrammarSymbols) /\ u \in Seq(GrammarSymbols) /\ v \in Seq(GrammarSymbols)
        /\ w \in Seq(GrammarSymbols) /\ x \in Seq(GrammarSymbols) /\ y \in Seq(GrammarSymbols)
    BY ConsTyped
  <2>2. Turns(s, SemiWords(Semi), g)
    BY <1>3, <1>8, SemiAfterAct
  <2>3. Turns(Cons("if-stmt", t), <<>>, Cons("ifsym", y))
    BY StmtTurns
  <2> HIDE DEF s
  <2>4. Effect(heap, e, u, g)
    BY <2>1, <2>2, StmtEffect
  <2> HIDE DEF u
  <2>5. Effect(heap, d, v, u)
    BY <1>6, <2>1, EmitEffect
  <2> HIDE DEF v
  <2>6. Effect(heap, c, w, v)
    BY <2>1, TurnsStay, StmtEffectPlain
  <2> HIDE DEF w
  <2>7. Effect(heap, b, x, w)
    BY <1>6, <2>1, EmitEffect
  <2> HIDE DEF x
  <2>8. Effect(heap, a, y, x)
    BY <2>1, ConditionEffect
  <2> HIDE DEF y
  <2>9. Path(heap, <<a, b, c, d, e>>, y, g)
    BY <1>7, <2>4, <2>5, <2>6, <2>7, <2>8, PathFive
  <2>10. Turns(Cons("if-stmt", t), words, y)
    BY <1>6, <2>1, <2>3, TurnsQuiet
  <2> QED
    BY <2>9, <2>10, DerivesAre
<1> HIDE DEF a, b, c, d, e
<1>9. <<a, b, c, d, e>> \in Seq(AnyInstrs)
  BY <1>7
<1> QED
  BY <1>1, <1>2, <1>6, <1>8, <1>9, SemiDerives

-----------------------------------------------------------------------------
(* Conditions and expressions.                                             *)

LEMMA HandOverDerives ==
  ASSUME IInv, DerivInv, NEW do \in PlainCalls \ SemiCalls, At(do), do \notin ListCalls,
         NEW to \in PlainCalls \ SemiCalls, Do(<<Call(to, Arg)>>),
         \A t \in Seq(GrammarSymbols) : Turns(Glued(Derives[do], t), <<>>, Glued(Derives[to], t))
  PROVE  DerivInv'
<1> DEFINE a == Call(to, Arg)
<1>1. PrintThen(<<>>, <<a>>)
  BY DEF Do
<1>2. do \in DOMAIN Expected \ ListCalls /\ to \in DOMAIN Expected
  BY DEF PlainCalls
<1>3. Arg \in 1 .. Len(heap)
  BY <1>2, NodeKnown
<1>4. Arg \in Nat
  BY <1>3, PointerTyped
<1>5. a \in AnyInstrs
  BY <1>2, <1>4, Typed
<1>6. ASSUME NEW t \in Seq(GrammarSymbols), NEW g, Turns(t, <<>>, g)
      PROVE  \E e : Turns(Glued(Derives[do], t), <<>>, e) /\ Path(heap, <<a>>, e, g)
  <2> DEFINE e == Glued(Derives[to], t)
  <2>1. Turns(e, <<>>, e)
    BY TurnsStay
  <2>2. Effect(heap, a, e, g)
    BY <1>6, <2>1, PlainEffect
  <2>3. Turns(Glued(Derives[do], t), <<>>, e)
    OBVIOUS
  <2> HIDE DEF e
  <2>4. Path(heap, <<a>>, e, g)
    BY <2>2, PathOne
  <2> QED
    BY <2>3, <2>4
<1> HIDE DEF a
<1>7. <<>> \in Seq(Items) /\ <<a>> \in Seq(AnyInstrs)
  BY <1>5
<1> QED
  BY <1>1, <1>6, <1>7, PlainDerives

LEMMA ConditionDerives == ASSUME IInv, DerivInv, UnparseCondition PROVE DerivInv'
<1>1. At("unparseCondition")
      /\ {"unparseCondition", "unparseOddCond", "unparseBinRelCond"} \subseteq PlainCalls \ SemiCalls
      /\ "unparseCondition" \in DOMAIN Expected \ ListCalls
  BY ExpectedTags DEF UnparseCondition, PlainCalls, SemiCalls, ListCalls
<1>2. Node.tag \in {"odd_cond_ast", "bin_cond_ast"}
  BY <1>1, NodeKnown, ExpectedTags DEF CondTags
<1>3. CASE Node.tag = "odd_cond_ast"
  <2>1. Do(<<Call("unparseOddCond", Arg)>>)
    BY <1>3 DEF UnparseCondition
  <2>2. \A t \in Seq(GrammarSymbols) :
          Turns(Glued(Derives["unparseCondition"], t), <<>>, Glued(Derives["unparseOddCond"], t))
    BY DerivesAre, ConditionTurns
  <2> QED
    BY <1>1, <2>1, <2>2, HandOverDerives
<1>4. CASE Node.tag = "bin_cond_ast"
  <2>1. Do(<<Call("unparseBinRelCond", Arg)>>)
    BY <1>4 DEF UnparseCondition
  <2>2. \A t \in Seq(GrammarSymbols) :
          Turns(Glued(Derives["unparseCondition"], t), <<>>, Glued(Derives["unparseBinRelCond"], t))
    BY DerivesAre, ConditionTurns
  <2> QED
    BY <1>1, <2>1, <2>2, HandOverDerives
<1> QED
  BY <1>2, <1>3, <1>4

LEMMA ExprDerives == ASSUME IInv, DerivInv, UnparseExpr PROVE DerivInv'
<1> DEFINE kinds == {"unparseBinExpr", "unparseIdent", "unparseNumber"}
<1>1. At("unparseExpr") /\ "unparseExpr" \in PlainCalls \ SemiCalls
      /\ kinds \subseteq PlainCalls \ SemiCalls
      /\ "unparseExpr" \in DOMAIN Expected \ ListCalls
  BY ExpectedTags DEF UnparseExpr, PlainCalls, SemiCalls, ListCalls
<1>2. Node.tag \in {"bin_expr_ast", "ident_ast", "number_ast"}
  BY <1>1, NodeKnown, ExpectedTags DEF ExprTags
<1>3. \E to \in kinds : Do(<<Call(to, Arg)>>)
  BY <1>2 DEF UnparseExpr
<1>4. PICK to \in kinds : Do(<<Call(to, Arg)>>)
  BY <1>3
<1>5. \A t \in Seq(GrammarSymbols) :
        Turns(Glued(Derives["unparseExpr"], t), <<>>, Glued(Derives[to], t))
  BY DerivesAre, TurnsStay
<1> QED
  BY <1>1, <1>4, <1>5, HandOverDerives

LEMMA OddCondDerives == ASSUME IInv, DerivInv, UnparseOddCond PROVE DerivInv'
<1> DEFINE words == Spaced(Word("oddsym"))
           a == Call("unparseExpr", Kid(1))
<1>1. At("unparseOddCond") /\ PrintThen(words, <<a>>)
  BY DEF UnparseOddCond, Spaced
<1>2. "unparseOddCond" \in PlainCalls \ SemiCalls /\ "unparseOddCond" \in DOMAIN Expected \ ListCalls
  BY ExpectedTags DEF PlainCalls, ListCalls, SemiCalls
<1>3. Arg \in 1 .. Len(heap) /\ Node.tag = "odd_cond_ast"
  BY <1>1, <1>2, NodeKnown, ExpectedTags
<1>4. Kid(1) \in Nat
  <2>1. Points(heap, Arg, 1, ExprTags)
    BY <1>3, SlotsOfUnary, Facts DEF Node
  <2> QED
    BY <2>1, PointerTyped DEF Kid, Node
<1>5. "oddsym" \in TokenTypes
  BY DEF TokenTypes
<1>6. words \in Seq(Items) /\ \A t \in Seq(GrammarSymbols) : Turns(Cons("oddsym", t), words, t)
  BY <1>5, Keyword
<1> HIDE DEF words
<1>7. a \in AnyInstrs
  BY <1>4, ExpectedTags, Typed
<1>8. ASSUME NEW t \in Seq(GrammarSymbols), NEW g, Turns(t, <<>>, g)
      PROVE  \E e : Turns(Glued(Derives["unparseOddCond"], t), words, e) /\ Path(heap, <<a>>, e, g)
  <2> DEFINE s == Cons("act", t)
             u == Cons("expr", s)
  <2>1. s \in Seq(GrammarSymbols) /\ u \in Seq(GrammarSymbols)
    BY ConsTyped
  <2>2. Turns(s, <<>>, g)
    BY <1>8, TurnsAct, QuietOn
  <2>3. Turns(Cons("oddsym", u), words, u)
    BY <1>6, <2>1
  <2>4. Glued(Derives["unparseOddCond"], t) = Cons("oddsym", u)
    BY DerivesAre
  <2> HIDE DEF s
  <2>5. Effect(heap, a, u, g)
    BY <2>1, <2>2, ExprEffect
  <2> HIDE DEF u
  <2>6. Path(heap, <<a>>, u, g)
    BY <2>5, PathOne
  <2> QED
    BY <2>3, <2>4, <2>6
<1> HIDE DEF a
<1>9. <<a>> \in Seq(AnyInstrs)
  BY <1>7
<1> QED
  BY <1>1, <1>2, <1>6, <1>8, <1>9, PlainDerives

\* The instructions around an operator.
LEMMA OperandsTyped ==
  ASSUME IInv, Arg \in 1 .. Len(heap), Node.tag \in {"bin_cond_ast", "bin_expr_ast"}
  PROVE  /\ Call("unparseExpr", Kid(1)) \in AnyInstrs
         /\ Call("unparseExpr", Kid(2)) \in AnyInstrs
         /\ Emit(<<Gap>>) \in AnyInstrs
         /\ Call("unparseRelOp", Arg) \in AnyInstrs
         /\ Call("unparseArithOp", Arg) \in AnyInstrs
         /\ \A h, f : Effect(h, Emit(<<Gap>>), f, f)
<1>1. Points(heap, Arg, 1, ExprTags) /\ Points(heap, Arg, 2, ExprTags)
  BY SlotsOfBinary, Facts DEF Node
<1>2. Kid(1) \in Nat /\ Kid(2) \in Nat /\ Arg \in Nat
  BY <1>1, PointerTyped DEF Kid, Node
<1> DEFINE gap == Alone(Gap)
<1>3. gap \in Seq(Items)
  BY WordIsItem DEF Alone
<1>4. \A f : Turns(f, gap, f)
  BY TurnsGap DEF Alone
<1>5. gap = <<Gap>>
  BY DEF Alone
<1> HIDE DEF gap
<1>6. Emit(gap) \in AnyInstrs /\ \A h, f : Effect(h, Emit(gap), f, f)
  BY <1>3, <1>4, Typed, EmitEffect
<1> QED
  BY <1>2, <1>5, <1>6, ExpectedTags, Typed

LEMMA BinRelCondDerives == ASSUME IInv, DerivInv, UnparseBinRelCond PROVE DerivInv'
<1> DEFINE a == Call("unparseExpr", Kid(1))
           b == Emit(<<Gap>>)
           c == Call("unparseRelOp", Arg)
           d == Call("unparseExpr", Kid(2))
<1>1. At("unparseBinRelCond") /\ PrintThen(<<>>, <<a, b, c, b, d>>)
  BY DEF UnparseBinRelCond, Do
<1>2. /\ "unparseBinRelCond" \in PlainCalls \ SemiCalls
      /\ "unparseBinRelCond" \in DOMAIN Expected \ ListCalls
  BY ExpectedTags DEF PlainCalls, ListCalls, SemiCalls
<1>3. Arg \in 1 .. Len(heap) /\ Node.tag = "bin_cond_ast"
  BY <1>1, <1>2, NodeKnown, ExpectedTags
<1>4. /\ a \in AnyInstrs /\ b \in AnyInstrs /\ c \in AnyInstrs /\ d \in AnyInstrs
      /\ \A f : Effect(heap, b, f, f)
  BY <1>3, OperandsTyped
<1> HIDE DEF b
<1>5. ASSUME NEW t \in Seq(GrammarSymbols), NEW g, Turns(t, <<>>, g)
      PROVE  \E e : Turns(Glued(Derives["unparseBinRelCond"], t), <<>>, e)
                    /\ Path(heap, <<a, b, c, b, d>>, e, g)
  <2> DEFINE s == Cons("act", t)
             u == Cons("expr", s)
             v == Cons("rel-op-expr", t)
             x == Cons("expr", v)
  <2>1. /\ s \in Seq(GrammarSymbols) /\ u \in Seq(GrammarSymbols) /\ v \in Seq(GrammarSymbols)
        /\ x \in Seq(GrammarSymbols)
    BY ConsTyped
  <2>2. Turns(s, <<>>, g)
    BY <1>5, TurnsAct, QuietOn
  <2>3. Glued(Derives["unparseBinRelCond"], t) = x
    BY DerivesAre
  <2>4. Effect(heap, c, v, u)
    <3> DEFINE i == CallStmt("unparseRelOp", Arg, FALSE)
    <3>1. i.do = "unparseRelOp"
      BY DEF CallStmt
    <3>2. Before(i) = Derives["unparseRelOp"] /\ After(heap, i) = <<"expr", "act">> /\ EndWords(i) = <<>>
      BY <3>1 DEF Before, After, EndWords, SemiCalls
    <3>3. Glued(Derives["unparseRelOp"], t) = v
      BY DerivesAre
    <3>4. Glued(<<"expr", "act">>, t) = u
      BY Symbols, Unfold2
    <3>5. "unparseRelOp" \in DOMAIN Expected
      BY ExpectedTags
    <3> HIDE DEF u, v
    <3>6. Effect(heap, i, v, u)
      BY <3>2, <3>3, <3>4, <3>5, TurnsStay, CallEffect
    <3> QED
      BY <3>6 DEF Call
  <2>5. Effect(heap, a, x, v)
    BY <2>1, TurnsStay, ExprEffect
  <2> HIDE DEF s, v, x
  <2>6. Effect(heap, d, u, g)
    BY <2>1, <2>2, ExprEffect
  <2> HIDE DEF u
  <2>7. Path(heap, <<a, b, c, b, d>>, x, g)
    BY <1>4, <2>4, <2>5, <2>6, PathFive
  <2> QED
    BY <2>3, <2>7, TurnsStay
<1> HIDE DEF a, c, d
<1>6. <<>> \in Seq(Items) /\ <<a, b, c, b, d>> \in Seq(AnyInstrs)
  BY <1>4
<1> QED
  BY <1>1, <1>2, <1>5, <1>6, PlainDerives

\* What is left after an arithmetic operator, its right operand and the forms
\* around it.
LEMMA ArithAfter ==
  ASSUME NEW i, i.do = "unparseArithOp", NEW h, NEW t \in Seq(GrammarSymbols)
  PROVE  LET u == Cons("add-sub-terms", t)
             v == Cons("mult-div-factors", u)
         IN  /\ Glued(Before(i), t) = v
             /\ h[i.p].op \in {"multop", "divop"} =>
                  Glued(After(h, i), t) = Cons("factor", Cons("act", Cons("act", v)))
             /\ h[i.p].op \notin {"multop", "divop"} =>
                  Glued(After(h, i), t) = Cons("term", Cons("act", Cons("act", u)))
<1> DEFINE u == Cons("add-sub-terms", t)
           v == Cons("mult-div-factors", u)
<1>1. Glued(Before(i), t) = v
  <2>1. Before(i) = Derives["unparseArithOp"]
    BY DEF Before
  <2> QED
    BY <2>1, DerivesAre
<1>2. ASSUME h[i.p].op \in {"multop", "divop"}
      PROVE  Glued(After(h, i), t) = Cons("factor", Cons("act", Cons("act", v)))
  <2>1. After(h, i) = <<"factor", "act", "act", "mult-div-factors", "add-sub-terms">>
    BY <1>2 DEF After
  <2>2. Glued(<<"factor", "act", "act", "mult-div-factors", "add-sub-terms">>, t)
          = Cons("factor", Cons("act", Cons("act", v)))
    <3>1. {"factor", "act", "mult-div-factors", "add-sub-terms"} \subseteq GrammarSymbols
      BY Symbols
    <3> QED
      BY ONLY <3>1, t \in Seq(GrammarSymbols), Unfold5
  <2> QED
    BY <2>1, <2>2
<1>3. ASSUME h[i.p].op \notin {"multop", "divop"}
      PROVE  Glued(After(h, i), t) = Cons("term", Cons("act", Cons("act", u)))
  <2>1. After(h, i) = <<"term", "act", "act", "add-sub-terms">>
    BY <1>3 DEF After
  <2>2. Glued(<<"term", "act", "act", "add-sub-terms">>, t)
          = Cons("term", Cons("act", Cons("act", u)))
    <3>1. {"term", "act", "add-sub-terms"} \subseteq GrammarSymbols
      BY Symbols
    <3> QED
      BY ONLY <3>1, t \in Seq(GrammarSymbols), Unfold4
  <2> QED
    BY <2>1, <2>2
<1> QED
  BY <1>1, <1>2, <1>3

LEMMA BinExprDerives == ASSUME IInv, DerivInv, UnparseBinExpr PROVE DerivInv'
<1> DEFINE words == Alone(Word("lparensym"))
           right == Alone(Word("rparensym"))
           a == Call("unparseExpr", Kid(1))
           b == Emit(<<Gap>>)
           c == Call("unparseArithOp", Arg)
           d == Call("unparseExpr", Kid(2))
           i == Emit(right)
<1>1. At("unparseBinExpr") /\ PrintThen(words, <<a, b, c, b, d, i>>)
  BY DEF UnparseBinExpr, Alone
<1>2. /\ "unparseBinExpr" \in PlainCalls \ SemiCalls
      /\ "unparseBinExpr" \in DOMAIN Expected \ ListCalls
      /\ "unparseExpr" \in PlainCalls \ SemiCalls
  BY ExpectedTags DEF PlainCalls, ListCalls, SemiCalls
<1>3. Arg \in 1 .. Len(heap) /\ Node.tag = "bin_expr_ast"
  BY <1>1, <1>2, NodeKnown, ExpectedTags
<1>4. /\ a \in AnyInstrs /\ b \in AnyInstrs /\ c \in AnyInstrs /\ d \in AnyInstrs
      /\ \A f : Effect(heap, b, f, f)
  BY <1>3, OperandsTyped
<1>5. "lparensym" \in TokenTypes /\ "rparensym" \in TokenTypes
  BY DEF TokenTypes
<1>6. /\ words \in Seq(Items) /\ right \in Seq(Items)
      /\ \A t \in Seq(GrammarSymbols) :
           Turns(Cons("lparensym", t), words, t) /\ Turns(Cons("rparensym", t), right, t)
  BY <1>5, Keyword
<1> HIDE DEF b, words, right
<1>7. i \in AnyInstrs
  BY <1>6, Typed
<1>8. ASSUME NEW t \in Seq(GrammarSymbols), NEW g, Turns(t, <<>>, g)
      PROVE  \E e : Turns(Glued(Derives["unparseBinExpr"], t), words, e)
                    /\ Path(heap, <<a, b, c, b, d, i>>, e, g)
  <2> DEFINE r == Cons("act", t)
             s == Cons("rparensym", r)
             u == Cons("add-sub-terms", s)
             v == Cons("mult-div-factors", u)
             x == Cons("expr", s)
             j == CallStmt("unparseArithOp", Arg, FALSE)
             w == Glued(After(heap, j), s)
  <2>1. /\ r \in Seq(GrammarSymbols) /\ s \in Seq(GrammarSymbols) /\ u \in Seq(GrammarSymbols)
        /\ v \in Seq(GrammarSymbols) /\ x \in Seq(GrammarSymbols)
    BY ConsTyped
  <2>2. Turns(r, <<>>, g)
    BY <1>8, TurnsAct, QuietOn
  <2>3. Turns(Cons("factor", t), words, x)
    <3>1. Turns(Cons("factor", t), <<>>, Cons("paren-expr", t))
          /\ Turns(Cons("paren-expr", t), <<>>, Cons("lparensym", x))
      BY FactorTurns
    <3> HIDE DEF x
    <3>2. Turns(Cons("factor", t), <<>>, Cons("lparensym", x))
      BY <3>1, QuietOn
    <3> QED
      BY <1>6, <2>1, <3>2, TurnsQuiet
  <2>4. Glued(Derives["unparseBinExpr"], t) = Cons("factor", t)
    BY DerivesAre
  <2> HIDE DEF r
  <2>5. Effect(heap, i, s, g)
    BY <1>6, <2>1, <2>2, TurnsQuiet, EmitEffect
  <2> HIDE DEF s
  <2>6. Turns(v, <<>>, s) /\ Turns(u, <<>>, s) /\ Turns(x, <<>>, Cons("factor", v))
    BY <2>1, ExprHead, ExprTurns
  <2>7. j.do = "unparseArithOp" /\ heap[j.p] = Node /\ c = j
    BY DEF Call, CallStmt, Node
  <2> HIDE DEF j
  <2>8. /\ Glued(Before(j), s) = v
        /\ Node.op \in {"multop", "divop"} => w = Cons("factor", Cons("act", Cons("act", v)))
        /\ Node.op \notin {"multop", "divop"} => w = Cons("term", Cons("act", Cons("act", u)))
    <3>1. j.do = "unparseArithOp" /\ s \in Seq(GrammarSymbols)
      BY <2>1, <2>7
    <3>2. /\ Glued(Before(j), s) = v
          /\ heap[j.p].op \in {"multop", "divop"} =>
               Glued(After(heap, j), s) = Cons("factor", Cons("act", Cons("act", v)))
          /\ heap[j.p].op \notin {"multop", "divop"} =>
               Glued(After(heap, j), s) = Cons("term", Cons("act", Cons("act", u)))
      BY ONLY <3>1, ArithAfter
    <3> QED
      BY ONLY <2>7, <3>2
  <2>9. Effect(heap, c, v, w)
    <3>1. EndWords(j) = <<>>
      BY <2>7 DEF EndWords, SemiCalls
    <3>2. "unparseArithOp" \in DOMAIN Expected
      BY ExpectedTags
    <3>3. Effect(heap, CallStmt("unparseArithOp", Arg, FALSE), v, w)
      <4> USE DEF j
      <4> HIDE DEF v
      <4> QED
        BY <2>1, <2>8, <3>1, <3>2, TurnsStay, CallEffect
    <3> QED
      BY <3>3 DEF Call
  <2> HIDE DEF u, v, w, x
  <2>10. Effect(heap, d, w, s)
    <3>1. CASE Node.op \in {"multop", "divop"}
      <4> DEFINE y == Cons("act", v)
                 z == Cons("act", y)
      <4>1. y \in Seq(GrammarSymbols) /\ z \in Seq(GrammarSymbols)
        BY <2>1, ConsTyped
      <4>2. Turns(y, <<>>, v) /\ Turns(z, <<>>, y)
        BY <2>1, <4>1, TurnsAct
      <4>3. w = Cons("factor", z)
        BY <2>8, <3>1
      <4> HIDE DEF y, z
      <4>4. Turns(z, <<>>, s)
        BY <2>6, <4>2, QuietOn
      <4>5. Glued(Derives["unparseExpr"], z) = Cons("factor", z)
        BY <4>1, DerivesAre
      <4> QED
        BY <1>2, <4>1, <4>3, <4>4, <4>5, TurnsStay, PlainEffect
    <3>2. CASE Node.op \notin {"multop", "divop"}
      <4> DEFINE y == Cons("act", u)
                 z == Cons("act", y)
                 m == Cons("mult-div-factors", z)
      <4>1. y \in Seq(GrammarSymbols) /\ z \in Seq(GrammarSymbols) /\ m \in Seq(GrammarSymbols)
        BY <2>1, ConsTyped
      <4>2. Turns(y, <<>>, u) /\ Turns(z, <<>>, y)
        BY <2>1, <4>1, TurnsAct
      <4>3. w = Cons("term", z)
        BY <2>8, <3>2
      <4> HIDE DEF y, z
      <4>4. Turns(w, <<>>, Cons("factor", m)) /\ Turns(m, <<>>, z)
        BY <4>1, <4>3, ExprHead
      <4>5. Glued(Derives["unparseExpr"], m) = Cons("factor", m)
        BY <4>1, DerivesAre
      <4> HIDE DEF m
      <4>6. Turns(m, <<>>, s)
        BY <2>6, <4>2, <4>4, QuietOn
      <4> QED
        BY <1>2, <4>1, <4>4, <4>5, <4>6, PlainEffect
    <3> QED
      BY <3>1, <3>2
  <2>11. Effect(heap, a, x, v)
    <3>1. Glued(Derives["unparseExpr"], v) = Cons("factor", v)
      BY <2>1, DerivesAre
    <3> QED
      BY <1>2, <2>1, <2>6, <3>1, TurnsStay, PlainEffect
  <2> HIDE DEF a, c, d, i
  <2>12. Path(heap, <<a, b, c, b, d, i>>, x, g)
    BY <1>4, <1>7, <2>5, <2>9, <2>10, <2>11, PathSix
  <2> QED
    BY <2>3, <2>4, <2>12
<1> HIDE DEF a, c, d, i
<1>9. <<a, b, c, b, d, i>> \in Seq(AnyInstrs)
  BY <1>4, <1>7
<1> QED
  BY <1>1, <1>2, <1>6, <1>8, <1>9, PlainDerives

LEMMA BailDerives == ASSUME DerivInv, bail_with_error PROVE DerivInv'
<1>1. heap' = heap /\ rest' = rest /\ out' = out /\ status' = "bail"
  BY DEF bail_with_error
<1> QED
  BY <1>1 DEF DerivInv, UnsignedConsts

\* The forms before and after the operators of expressions.
LEMMA OperatorForms ==
  ASSUME NEW t \in Seq(GrammarSymbols)
  PROVE  LET u == Cons("add-sub-terms", t)
             v == Cons("mult-div-factors", u)
         IN  /\ \A s \in MultDivSyms :
                  Turns(v, <<>>, Cons(s, Cons("factor", Cons("act", Cons("act", v)))))
             /\ \A s \in SignSyms :
                  Turns(v, <<>>, Cons(s, Cons("term", Cons("act", Cons("act", u)))))
<1> DEFINE u == Cons("add-sub-terms", t)
           v == Cons("mult-div-factors", u)
<1>1. u \in Seq(GrammarSymbols) /\ v \in Seq(GrammarSymbols)
      /\ Cons("act", u) \in Seq(GrammarSymbols) /\ Cons("act", v) \in Seq(GrammarSymbols)
  BY ConsTyped
<1>2. Turns(u, <<>>, Cons("add-sub-term", Cons("act", u)))
  BY ExprTurns
<1> HIDE DEF u
<1>3. Turns(v, <<>>, Cons("mult-div-factor", Cons("act", v))) /\ Turns(v, <<>>, u)
  BY <1>1, ExprTurns
<1> HIDE DEF v
<1>4. ASSUME NEW s \in MultDivSyms
      PROVE  Turns(v, <<>>, Cons(s, Cons("factor", Cons("act", Cons("act", v)))))
  BY <1>1, <1>3, OperatorTurns, QuietOn
<1>5. ASSUME NEW s \in SignSyms
      PROVE  Turns(v, <<>>, Cons(s, Cons("term", Cons("act", Cons("act", u)))))
  <2>1. Turns(v, <<>>, Cons("add-sub-term", Cons("act", u)))
    BY <1>2, <1>3, QuietOn
  <2> QED
    BY <1>1, <2>1, OperatorTurns, QuietOn
<1> QED
  BY <1>4, <1>5 DEF u, v

\* An operator that is one is printed.
LEMMA OpDerives ==
  ASSUME IInv, DerivInv, NEW do \in {"unparseRelOp", "unparseArithOp"}, At(do),
         NEW word \in TokenTypes, PrintThen(Alone(Word(word)), <<>>),
         \A t \in Seq(GrammarSymbols) :
           /\ Turns(Glued(Before(Head(rest)), t), <<>>, Cons(word, Glued(After(heap, Head(rest)), t)))
           /\ Glued(After(heap, Head(rest)), t) \in Seq(GrammarSymbols)
  PROVE  DerivInv'
<1> DEFINE words == Alone(Word(word))
<1>1. words \in Seq(Items) /\ \A t \in Seq(GrammarSymbols) : Turns(Cons(word, t), words, t)
  BY Keyword
<1>2. EndWords(Head(rest)) = <<>> /\ do \in DOMAIN Expected
  BY ExpectedTags DEF EndWords, SemiCalls, At
<1>3. PrintThen(words, <<>>)
  OBVIOUS
<1> HIDE DEF words
<1>4. ASSUME NEW t \in Seq(GrammarSymbols), NEW g,
             Turns(Glued(After(heap, Head(rest)), t), EndWords(Head(rest)), g)
      PROVE  \E e : Turns(Glued(Before(Head(rest)), t), words, e) /\ Path(heap, <<>>, e, g)
  <2> DEFINE u == Glued(After(heap, Head(rest)), t)
             f == Glued(Before(Head(rest)), t)
  <2>1. Turns(f, <<>>, Cons(word, u)) /\ u \in Seq(GrammarSymbols) /\ Turns(u, <<>>, g)
    BY <1>2, <1>4
  <2> HIDE DEF u, f
  <2>2. Turns(f, words, u)
    BY <1>1, <2>1, TurnsQuiet
  <2>3. Turns(f, words, g)
    BY <1>1, <2>1, <2>2, TurnsQuiet
  <2> QED
    BY <2>3, PathNothing DEF f
<1>5. <<>> \in Seq(AnyInstrs)
  OBVIOUS
<1> QED
  BY <1>1, <1>2, <1>3, <1>4, <1>5, CallDerives

LEMMA RelOpDerives == ASSUME IInv, DerivInv, UnparseRelOp PROVE DerivInv'
<1>1. At("unparseRelOp") /\ Head(rest).do = "unparseRelOp"
  BY DEF UnparseRelOp, At
<1>2. CASE Node.op \in DOMAIN RelOpWord
  <2> DEFINE word == RelOpWord[Node.op]
  <2>1. word \in TokenTypes /\ word \in RelOpSyms
    BY <1>2 DEF RelOpWord, RelOpSyms, TokenTypes
  <2>2. PrintThen(Alone(Word(word)), <<>>)
    BY <1>2 DEF UnparseRelOp, PrintOp, Alone
  <2> HIDE DEF word
  <2>3. Before(Head(rest)) = Derives["unparseRelOp"] /\ After(heap, Head(rest)) = <<"expr", "act">>
    BY <1>1 DEF Before, After
  <2>4. ASSUME NEW t \in Seq(GrammarSymbols)
        PROVE  /\ Turns(Glued(Before(Head(rest)), t), <<>>,
                        Cons(word, Glued(After(heap, Head(rest)), t)))
               /\ Glued(After(heap, Head(rest)), t) \in Seq(GrammarSymbols)
    <3>1. Glued(After(heap, Head(rest)), t) = Cons("expr", Cons("act", t))
      BY <2>3, Symbols, Unfold2
    <3>2. Glued(Before(Head(rest)), t) = Cons("rel-op-expr", t)
      BY <2>3, DerivesAre
    <3> QED
      BY <2>1, <3>1, <3>2, OperatorTurns, ConsTyped
  <2> QED
    BY <1>1, <2>1, <2>2, <2>4, OpDerives
<1>3. CASE Node.op \notin DOMAIN RelOpWord
  BY <1>3, BailDerives DEF UnparseRelOp, PrintOp
<1> QED
  BY <1>2, <1>3

LEMMA ArithOpDerives == ASSUME IInv, DerivInv, UnparseArithOp PROVE DerivInv'
<1>1. At("unparseArithOp") /\ Head(rest).do = "unparseArithOp" /\ Node = heap[Head(rest).p]
  BY DEF UnparseArithOp, At, Node, Arg
<1>2. CASE Node.op \in DOMAIN ArithOpWord
  <2> DEFINE word == ArithOpWord[Node.op]
  <2>1. /\ word \in TokenTypes
        /\ Node.op \in {"multop", "divop"} => word \in MultDivSyms
        /\ Node.op \notin {"multop", "divop"} => word \in SignSyms
    BY <1>2 DEF ArithOpWord, SignSyms, MultDivSyms, TokenTypes
  <2>2. PrintThen(Alone(Word(word)), <<>>)
    BY <1>2 DEF UnparseArithOp, PrintOp, Alone
  <2> HIDE DEF word
  <2>3. ASSUME NEW t \in Seq(GrammarSymbols)
        PROVE  /\ Turns(Glued(Before(Head(rest)), t), <<>>,
                        Cons(word, Glued(After(heap, Head(rest)), t)))
               /\ Glued(After(heap, Head(rest)), t) \in Seq(GrammarSymbols)
    <3> DEFINE u == Cons("add-sub-terms", t)
               v == Cons("mult-div-factors", u)
    <3>1. /\ Glued(Before(Head(rest)), t) = v
          /\ Node.op \in {"multop", "divop"} =>
               Glued(After(heap, Head(rest)), t) = Cons("factor", Cons("act", Cons("act", v)))
          /\ Node.op \notin {"multop", "divop"} =>
               Glued(After(heap, Head(rest)), t) = Cons("term", Cons("act", Cons("act", u)))
      BY <1>1, ArithAfter
    <3>2. /\ \A s \in MultDivSyms :
               Turns(v, <<>>, Cons(s, Cons("factor", Cons("act", Cons("act", v)))))
          /\ \A s \in SignSyms :
               Turns(v, <<>>, Cons(s, Cons("term", Cons("act", Cons("act", u)))))
      BY OperatorForms
    <3>3. /\ Cons("factor", Cons("act", Cons("act", v))) \in Seq(GrammarSymbols)
          /\ Cons("term", Cons("act", Cons("act", u))) \in Seq(GrammarSymbols)
      BY ConsTyped
    <3> HIDE DEF u, v
    <3> QED
      BY <2>1, <3>1, <3>2, <3>3
  <2> QED
    BY <1>1, <2>1, <2>2, <2>3, OpDerives
<1>3. CASE Node.op \notin DOMAIN ArithOpWord
  BY <1>3, BailDerives DEF UnparseArithOp, PrintOp
<1> QED
  BY <1>2, <1>3

LEMMA IdentDerives == ASSUME IInv, DerivInv, UnparseIdent PROVE DerivInv'
<1> DEFINE words == Alone(Name(Node.name))
<1>1. At("unparseIdent") /\ PrintThen(words, <<>>)
  BY DEF UnparseIdent, Alone
<1>2. Node.name \in Texts
  BY <1>1, NodeKnown, ExpectedTags DEF ListCalls
<1>3. words \in Seq(Items) /\ \A t \in Seq(GrammarSymbols) : Turns(Cons("identsym", t), words, t)
  BY <1>2, Identifier
<1> HIDE DEF words
<1>4. ASSUME NEW t \in Seq(GrammarSymbols)
      PROVE  Turns(Glued(Derives["unparseIdent"], t), words, t)
  <2> DEFINE u == Cons("act", t)
  <2>1. u \in Seq(GrammarSymbols) /\ Turns(u, <<>>, t)
    BY ConsTyped, TurnsAct
  <2>2. Turns(Cons("factor", t), <<>>, Cons("ident-expr", t))
        /\ Turns(Cons("ident-expr", t), <<>>, Cons("identsym", u))
    BY FactorTurns
  <2> HIDE DEF u
  <2>3. Turns(Cons("factor", t), <<>>, Cons("identsym", u))
    BY <2>2, QuietOn
  <2>4. Turns(Cons("factor", t), words, u)
    BY <1>3, <2>1, <2>3, TurnsQuiet
  <2>5. Turns(Cons("factor", t), words, t)
    BY <1>3, <2>1, <2>4, TurnsQuiet
  <2> QED
    BY <2>5, DerivesAre
<1>5. "unparseIdent" \in PlainCalls \ SemiCalls
  BY ExpectedTags DEF PlainCalls, SemiCalls
<1> QED
  BY <1>1, <1>3, <1>4, <1>5, LeafDerives

LEMMA NumberDerives == ASSUME IInv, DerivInv, UnparseNumber PROVE DerivInv'
<1> DEFINE words == Decimal(Node.num)
<1>1. At("unparseNumber") /\ PrintThen(words, <<>>)
  BY DEF UnparseNumber
<1>2. Node.num \in Int
  BY <1>1, NodeKnown, ExpectedTags DEF ListCalls
<1>3. words \in Seq(Items) /\ \A t \in Seq(GrammarSymbols) : Turns(Cons("number", t), words, t)
  BY <1>2, DecimalTurns
<1> HIDE DEF words
<1>4. ASSUME NEW t \in Seq(GrammarSymbols)
      PROVE  Turns(Glued(Derives["unparseNumber"], t), words, t)
  BY <1>3, FactorTurns, TurnsQuiet, DerivesAre
<1>5. "unparseNumber" \in PlainCalls \ SemiCalls
  BY ExpectedTags DEF PlainCalls, SemiCalls
<1> QED
  BY <1>1, <1>3, <1>4, <1>5, LeafDerives

LEMMA WordsDerive == ASSUME IInv, DerivInv, PrintWords PROVE DerivInv'
<1>1. status = "printing" /\ rest # <<>> /\ Head(rest).do = "print"
  BY DEF PrintWords, At
<1> DEFINE words == Head(rest).words
<1>2. words \in Seq(Items)
  <2>1. Head(rest) \in GoodInstrs
    BY <1>1 DEF IInv
  <2> QED
    BY <2>1 DEF GoodInstrs, Instrs
<1>3. PrintThen(words, <<>>)
  BY DEF PrintWords
<1>4. ASSUME NEW f, NEW g, Effect(heap, Head(rest), f, g)
      PROVE  \E e : Turns(f, words, e) /\ Path(heap, <<>>, e, g)
  <2>1. Turns(f, words, g)
    BY <1>1, <1>4 DEF Effect
  <2> QED
    BY <2>1, PathNothing
<1>5. <<>> \in Seq(AnyInstrs)
  OBVIOUS
<1> HIDE DEF words
<1> QED
  BY <1>1, <1>2, <1>3, <1>4, <1>5, DerivStep

-----------------------------------------------------------------------------
(* The invariant.                                                          *)

LEMMA StartDerives == ASSUME Started, UnsignedConsts PROVE DerivInv
<1> DEFINE nothing == <<>>
           start == Cons("program", nothing)
<1>1. nothing \in Seq(GrammarSymbols) /\ nothing \in Seq(Items)
  OBVIOUS
<1>2. start = <<"program">>
  BY DEF Cons
<1>3. Reaches(nothing, start)
  <2>1. Form(start)
    BY <1>2, FormStart
  <2>2. TokensOf(nothing) = <<>>
    BY TokensOfNothing
  <2> HIDE DEF start
  <2>3. Settled(DocumentedRightSides, {start})
          = FormsAfter(DocumentedRightSides, TokensOf(nothing))
    BY <1>2, <2>2, FormsAfterNothing
  <2> QED
    BY <1>1, <2>1, <2>3 DEF Reaches
<1>4. out = nothing /\ rest = <<Call("unparseProgram", root)>> /\ status = "printing"
  BY DEF Started
<1> HIDE DEF nothing
<1>5. Path(heap, <<Call("unparseProgram", root)>>, start, nothing)
  <2>1. "unparseProgram" \in PlainCalls \ SemiCalls
    BY ExpectedTags DEF PlainCalls, SemiCalls
  <2>2. Glued(Derives["unparseProgram"], nothing) = start
    BY <1>1, DerivesAre
  <2>3. Effect(heap, Call("unparseProgram", root), start, nothing)
    BY <1>1, <2>1, <2>2, TurnsStay, PlainEffect
  <2> HIDE DEF start
  <2> QED
    BY <2>3, PathOne
<1> HIDE DEF start
<1> QED
  BY <1>3, <1>4, <1>5 DEF DerivInv, nothing

LEMMA InitDerives == Init => DerivInv
<1> SUFFICES ASSUME Init PROVE DerivInv
  OBVIOUS
<1>1. Started
  BY ProgramsAssumption DEF Init, Started, TreeOK
<1>2. UnsignedConsts
  BY ProgramsAssumption DEF Init, UnsignedConsts
<1> QED
  BY <1>1, <1>2, StartDerives

LEMMA NextDerives == ASSUME IInv, DerivInv, [Next]_vars PROVE DerivInv'
<1>1. CASE Return
  <2>1. heap' = heap /\ rest' = rest /\ out' = out /\ rest = <<>>
    BY <1>1 DEF Return
  <2> QED
    BY <2>1 DEF DerivInv, UnsignedConsts
<1>2. CASE UNCHANGED vars
  <2>1. heap' = heap /\ rest' = rest /\ out' = out /\ status' = status
    BY <1>2 DEF vars
  <2> QED
    BY <2>1 DEF DerivInv, UnsignedConsts
<1>3. CASE UnparseDecls
  BY <1>3, DeclLoopsDerive, ConstDeclDerives, VarDeclDerives DEF UnparseDecls
<1>4. CASE UnparseStmts
  BY <1>4, StmtDerives, AssignDerives, BeginDerives, StmtListDerives, StmtsLoopDerives,
     IfDerives, WhileDerives, ReadDerives, WriteDerives, SkipDerives DEF UnparseStmts
<1>5. CASE UnparseExprs
  BY <1>5, ConditionDerives, OddCondDerives, BinRelCondDerives, RelOpDerives,
     ArithOpDerives, ExprDerives, BinExprDerives, IdentDerives, NumberDerives
     DEF UnparseExprs
<1> QED
  BY <1>1, <1>2, <1>3, <1>4, <1>5, ProgramDerives, BlockDerives, WordsDerive
     DEF Next, Step, Stay

\* A settled form that the output reaches is one of those left.
LEMMA ReachesSettled ==
  ASSUME NEW f, Reaches(out, f), IsSettled(f)
  PROVE  f \in FormsAfter(DocumentedRightSides, Printed)
<1>1. Settled(DocumentedRightSides, {f}) = {f}
  BY SettledSettled DEF Reaches
<1> QED
  BY <1>1 DEF Reaches, Printed

LEMMA DerivInvImpliesPrintsAProgram == ASSUME IInv, DerivInv PROVE PrintsAProgram
<1>1. PICK f : Reaches(out, f) /\ Path(heap, rest, f, <<>>)
  BY DEF DerivInv
<1>2. ASSUME status = "printed"
      PROVE  Derivable(DocumentedRightSides, Printed)
  <2>1. Path(heap, <<>>, f, <<>>)
    BY <1>1, <1>2 DEF DerivInv
  <2>2. f = <<>>
    BY <2>1 DEF Path
  <2>3. IsSettled(f)
    BY <2>2 DEF IsSettled
  <2> QED
    BY <1>1, <2>2, <2>3, ReachesSettled DEF Derivable
<1>3. ASSUME status = "bail"
      PROVE  ViablePrefix(DocumentedRightSides, Printed)
  <2>1. rest # <<>> /\ Head(rest).do \in {"unparseRelOp", "unparseArithOp"}
    BY <1>3 DEF IInv, BailsOnlyForOperators
  <2>2. rest \in Seq(AnyInstrs)
    <3>1. GoodInstrs \subseteq AnyInstrs
      BY Facts DEF GoodInstrs, Instrs, AnyInstrs
    <3>2. rest \in Seq(GoodInstrs)
      BY DEF IInv
    <3>3. \A k \in 1 .. Len(rest) : rest[k] \in AnyInstrs
      BY <3>1, <3>2
    <3> QED
      BY <3>2, <3>3
  <2>3. PICK g : Effect(heap, Head(rest), f, g)
    BY <1>1, <2>1, <2>2, PathSplit
  <2>4. PICK t \in Seq(GrammarSymbols) : Turns(f, <<>>, Glued(Before(Head(rest)), t))
    BY <2>1, <2>3 DEF Effect
  <2>5. \E c \in TokenTypes, e \in Seq(GrammarSymbols) :
          Turns(Glued(Before(Head(rest)), t), <<>>, Cons(c, e))
    <3>1. CASE Head(rest).do = "unparseRelOp"
      <4>1. Before(Head(rest)) = Derives["unparseRelOp"]
        BY <3>1 DEF Before
      <4>2. Glued(Before(Head(rest)), t) = Cons("rel-op-expr", t)
        BY <4>1, DerivesAre
      <4>3. "eqsym" \in RelOpSyms /\ "eqsym" \in TokenTypes
        BY DEF RelOpSyms, TokenTypes
      <4> QED
        BY <4>2, <4>3, OperatorTurns, ConsTyped
    <3>2. CASE Head(rest).do = "unparseArithOp"
      <4> DEFINE u == Cons("add-sub-terms", t)
                 v == Cons("mult-div-factors", u)
      <4>1. Before(Head(rest)) = Derives["unparseArithOp"]
        BY <3>2 DEF Before
      <4>2. Glued(Before(Head(rest)), t) = v
        BY <4>1, DerivesAre
      <4>3. "multsym" \in MultDivSyms /\ "multsym" \in TokenTypes
        BY DEF MultDivSyms, TokenTypes
      <4>4. Cons("factor", Cons("act", Cons("act", v))) \in Seq(GrammarSymbols)
        BY ConsTyped
      <4>5. Turns(v, <<>>, Cons("multsym", Cons("factor", Cons("act", Cons("act", v)))))
        BY <4>3, OperatorForms
      <4> HIDE DEF v
      <4> QED
        BY <4>2, <4>3, <4>4, <4>5
    <3> QED
      BY <2>1, <3>1, <3>2
  <2>6. PICK c \in TokenTypes, e \in Seq(GrammarSymbols) :
          Turns(Glued(Before(Head(rest)), t), <<>>, Cons(c, e))
    BY <2>5
  <2>7. Turns(f, <<>>, Cons(c, e))
    BY <2>4, <2>6, QuietOn
  <2>8. Reaches(out, Cons(c, e))
    <3>1. out \in Seq(Items) /\ out \o <<>> = out
      BY DEF IInv
    <3> QED
      BY <1>1, <2>7, <3>1 DEF Turns
  <2>9. IsSettled(Cons(c, e))
    <3>1. c \in GrammarSymbols
      BY DEF GrammarSymbols
    <3>2. Cons(c, e) # <<>> /\ Head(Cons(c, e)) = c
      BY <3>1, ConsIs
    <3> QED
      BY <3>2 DEF IsSettled
  <2> QED
    BY <2>8, <2>9, ReachesSettled DEF ViablePrefix
<1> QED
  BY <1>2, <1>3 DEF PrintsAProgram

\* For every well-formed tree, the tokens of the output are a sentence of the
\* documented grammar, and what is printed before a bail out begins one.
THEOREM OutputIsLegal == Spec => []PrintsAProgram
<1>1. IInv /\ DerivInv => PrintsAProgram
  BY DerivInvImpliesPrintsAProgram
<1>2. IInv /\ DerivInv /\ [Next]_vars => DerivInv'
  BY NextDerives
<1> QED
  BY <1>1, <1>2, InitDerives, Invariant, PTL DEF Spec
-----------------------------------------------------------------------------
(* What is printed stays printed, and it ends like a program.              *)

IsTuple(s) == \E S : s \in Seq(S)

LEMMA Tuples ==
  ASSUME NEW a, NEW b, NEW c, NEW d, NEW e, NEW f
  PROVE  /\ IsTuple(<<>>) /\ IsTuple(<<a>>) /\ IsTuple(<<a, b>>) /\ IsTuple(<<a, b, c>>)
         /\ IsTuple(<<a, b, c, d>>) /\ IsTuple(<<a, b, c, d, e>>)
         /\ IsTuple(<<a, b, c, d, e, f>>)
<1> DEFINE S == {a, b, c, d, e, f}
<1>1. /\ <<>> \in Seq(S) /\ <<a>> \in Seq(S) /\ <<a, b>> \in Seq(S) /\ <<a, b, c>> \in Seq(S)
      /\ <<a, b, c, d>> \in Seq(S) /\ <<a, b, c, d, e>> \in Seq(S)
      /\ <<a, b, c, d, e, f>> \in Seq(S)
  OBVIOUS
<1> HIDE DEF S
<1> QED
  BY <1>1 DEF IsTuple

LEMMA TuplesJoin ==
  ASSUME NEW s, NEW t, IsTuple(s), IsTuple(t)
  PROVE  IsTuple(s \o t)
<1>1. PICK S, T : s \in Seq(S) /\ t \in Seq(T)
  BY DEF IsTuple
<1> DEFINE U == S \cup T
<1>2. s \in Seq(U) /\ t \in Seq(U)
  BY <1>1
<1> HIDE DEF U
<1>3. s \o t \in Seq(U)
  BY <1>2
<1> QED
  BY <1>3 DEF IsTuple

LEMMA LineIsTuple ==
  ASSUME NEW semi
  PROVE  IsTuple(newlineAndOptionalSemi(semi))
BY Tuples DEF newlineAndOptionalSemi

LEMMA DecimalIsTuple ==
  ASSUME NEW n
  PROVE  IsTuple(Decimal(n))
<1> DEFINE digits(k) == [typ |-> "numbersym", text |-> "digits", value |-> k]
<1>1. Decimal(n) \in {<<Word("minussym"), digits(-n)>>, <<digits(n)>>}
  BY DEF Decimal
<1> HIDE DEF digits
<1> QED
  BY <1>1, Tuples

\* The last instruction of a program.
TheEnd == Emit(<<Word("periodsym"), Gap>>)

\* The first instruction is replaced by words and a body.
Replaces(words, body) ==
  /\ rest # <<>> /\ IsTuple(words) /\ IsTuple(body)
  /\ PrintThen(words, body)
  /\ Head(rest).do = "print" => words = Head(rest).words /\ body = <<>>
  /\ Head(rest).do = "unparseProgram" => body # <<>> /\ body[Len(body)] = TheEnd

Replaced == \E words, body : Replaces(words, body)

LEMMA CallReplaced ==
  ASSUME NEW f, At(f), f \notin {"print", "unparseProgram"}, NEW words, NEW body,
         IsTuple(words), IsTuple(body), PrintThen(words, body)
  PROVE  Replaced
BY DEF At, Replaces, Replaced

LEMMA CallDone ==
  ASSUME NEW f, At(f), f \notin {"print", "unparseProgram"}, NEW body,
         IsTuple(body), Do(body)
  PROVE  Replaced
BY Tuples, CallReplaced DEF Do

\* Every step of a function replaces its call, or bails out, or returns.
LEMMA DeclsReplaced ==
  ASSUME UnparseBlock \/ UnparseDecls
  PROVE  Replaced
<1>1. CASE UnparseBlock
  BY <1>1, Tuples, CallDone DEF UnparseBlock
<1>2. ASSUME NEW f, NEW g, At(f), f \notin {"print", "unparseProgram"}, DoList(g)
      PROVE  Replaced
  BY <1>2, Tuples, CallDone DEF DoList
<1>3. CASE UnparseConstDecls \/ UnparseVarDecls
  BY <1>2, <1>3 DEF UnparseConstDecls, UnparseVarDecls
<1>4. CASE UnparseConstDecl
  <2> DEFINE before == <<Word("constsym"), Gap, Name(Node.name), Gap, Word("eqsym"), Gap>>
             num == Decimal(Node.num)
             after == <<Word("semisym"), Gap>>
  <2>1. IsTuple(before) /\ IsTuple(num) /\ IsTuple(after)
    BY Tuples, DecimalIsTuple
  <2>2. At("unparseConstDecl") /\ PrintThen((before \o num) \o after, <<>>)
    BY <1>4 DEF UnparseConstDecl
  <2> HIDE DEF before, num, after
  <2>3. IsTuple((before \o num) \o after) /\ IsTuple(<<>>)
    BY <2>1, TuplesJoin, Tuples
  <2> QED
    BY <2>2, <2>3, CallReplaced
<1>5. CASE UnparseVarDecl
  <2> DEFINE words == <<Word("varsym"), Gap, Name(Node.name), Word("semisym"), Gap>>
  <2>1. IsTuple(words) /\ IsTuple(<<>>)
    BY Tuples
  <2>2. At("unparseVarDecl") /\ PrintThen(words, <<>>)
    BY <1>5 DEF UnparseVarDecl
  <2> HIDE DEF words
  <2> QED
    BY <2>1, <2>2, CallReplaced
<1> QED
  BY <1>1, <1>3, <1>4, <1>5 DEF UnparseDecls

LEMMA StmtsReplaced ==
  ASSUME UnparseStmts
  PROVE  Replaced \/ bail_with_error
<1> DEFINE newline == newlineAndOptionalSemi(Semi)
<1>0. IsTuple(newline) /\ IsTuple(<<>>)
  BY LineIsTuple, Tuples
<1>1. CASE UnparseStmt
  BY <1>1, Tuples, CallDone DEF UnparseStmt
<1>2. CASE UnparseAssignStmt
  <2> DEFINE words == <<Name(Node.name), Gap, Word("becomessym"), Gap>>
             body == <<Call("unparseExpr", Kid(1)), Emit(newline)>>
  <2>1. IsTuple(words) /\ IsTuple(body) /\ At("unparseAssignStmt") /\ PrintThen(words, body)
    BY <1>2, Tuples DEF UnparseAssignStmt
  <2> HIDE DEF words, body
  <2> QED
    BY <2>1, CallReplaced
<1>3. CASE UnparseBeginStmt
  <2> DEFINE words == <<Word("beginsym"), Gap>>
             body == <<Call("unparseStmtList", Kid(1)), Emit(<<Word("endsym")>> \o newline)>>
  <2>1. IsTuple(words) /\ IsTuple(body) /\ At("unparseBeginStmt") /\ PrintThen(words, body)
    BY <1>3, Tuples DEF UnparseBeginStmt
  <2> HIDE DEF words, body
  <2> QED
    BY <2>1, CallReplaced
<1>4. CASE UnparseStmtList \/ StmtsLoop
  <2>1. ASSUME NEW f, At(f), f \notin {"print", "unparseProgram"}, NEW lst, DoStmts(lst)
        PROVE  Replaced
    BY <2>1, Tuples, CallDone DEF DoStmts
  <2> QED
    BY <1>0, <1>4, <2>1, CallDone DEF UnparseStmtList, StmtsLoop
<1>5. CASE UnparseIfStmt
  <2> DEFINE words == <<Word("ifsym"), Gap>>
             body == <<Call("unparseCondition", Kid(1)), Emit(<<Gap, Word("thensym"), Gap>>),
                       Call("unparseStmt", Kid(2)), Emit(<<Word("elsesym"), Gap>>),
                       CallStmt("unparseStmt", Kid(3), Semi)>>
  <2>1. IsTuple(words) /\ IsTuple(body) /\ At("unparseIfStmt") /\ PrintThen(words, body)
    BY <1>5, Tuples DEF UnparseIfStmt
  <2> HIDE DEF words, body
  <2> QED
    BY <2>1, CallReplaced
<1>6. CASE UnparseWhileStmt
  <2> DEFINE words == <<Word("whilesym"), Gap>>
             body == <<Call("unparseCondition", Kid(1)), Emit(<<Gap, Word("dosym"), Gap>>),
                       CallStmt("unparseStmt", Kid(2), Semi)>>
  <2>1. IsTuple(words) /\ IsTuple(body) /\ At("unparseWhileStmt") /\ PrintThen(words, body)
    BY <1>6, Tuples DEF UnparseWhileStmt
  <2> HIDE DEF words, body
  <2> QED
    BY <2>1, CallReplaced
<1>7. CASE UnparseReadStmt
  <2> DEFINE words == <<Word("readsym"), Gap, Name(Node.name)>>
  <2>1. IsTuple(words) /\ At("unparseReadStmt") /\ PrintThen(words \o newline, <<>>)
    BY <1>7, Tuples DEF UnparseReadStmt
  <2> HIDE DEF words, newline
  <2> QED
    BY <1>0, <2>1, TuplesJoin, CallReplaced
<1>8. CASE UnparseWriteStmt
  <2> DEFINE words == <<Word("writesym"), Gap>>
             body == <<Call("unparseExpr", Kid(1)), Emit(newline)>>
  <2>1. IsTuple(words) /\ IsTuple(body) /\ At("unparseWriteStmt") /\ PrintThen(words, body)
    BY <1>8, Tuples DEF UnparseWriteStmt
  <2> HIDE DEF words, body
  <2> QED
    BY <2>1, CallReplaced
<1>9. CASE UnparseSkipStmt
  <2> DEFINE words == <<Word("skipsym")>>
  <2>1. IsTuple(words) /\ At("unparseSkipStmt") /\ PrintThen(words \o newline, <<>>)
    BY <1>9, Tuples DEF UnparseSkipStmt
  <2> HIDE DEF words, newline
  <2> QED
    BY <1>0, <2>1, TuplesJoin, CallReplaced
<1> QED
  BY <1>1, <1>2, <1>3, <1>4, <1>5, <1>6, <1>7, <1>8, <1>9 DEF UnparseStmts

LEMMA ExprsReplaced ==
  ASSUME UnparseExprs
  PROVE  Replaced \/ bail_with_error
<1>1. CASE UnparseCondition
  BY <1>1, Tuples, CallDone DEF UnparseCondition
<1>2. CASE UnparseOddCond
  <2> DEFINE words == <<Word("oddsym"), Gap>>
             body == <<Call("unparseExpr", Kid(1))>>
  <2>1. IsTuple(words) /\ IsTuple(body) /\ At("unparseOddCond") /\ PrintThen(words, body)
    BY <1>2, Tuples DEF UnparseOddCond
  <2> HIDE DEF words, body
  <2> QED
    BY <2>1, CallReplaced
<1>3. CASE UnparseBinRelCond
  <2> DEFINE body == <<Call("unparseExpr", Kid(1)), Emit(<<Gap>>), Call("unparseRelOp", Arg),
                       Emit(<<Gap>>), Call("unparseExpr", Kid(2))>>
  <2>1. IsTuple(body) /\ At("unparseBinRelCond") /\ Do(body)
    BY <1>3, Tuples DEF UnparseBinRelCond
  <2> HIDE DEF body
  <2> QED
    BY <2>1, CallDone
<1>4. CASE UnparseRelOp \/ UnparseArithOp
  BY <1>4, Tuples, CallReplaced DEF UnparseRelOp, UnparseArithOp, PrintOp
<1>5. CASE UnparseExpr
  BY <1>5, Tuples, CallDone DEF UnparseExpr
<1>6. CASE UnparseBinExpr
  <2> DEFINE words == <<Word("lparensym")>>
             body == <<Call("unparseExpr", Kid(1)), Emit(<<Gap>>),
                       Call("unparseArithOp", Arg), Emit(<<Gap>>),
                       Call("unparseExpr", Kid(2)), Emit(<<Word("rparensym")>>)>>
  <2>1. IsTuple(words) /\ IsTuple(body) /\ At("unparseBinExpr") /\ PrintThen(words, body)
    BY <1>6, Tuples DEF UnparseBinExpr
  <2> HIDE DEF words, body
  <2> QED
    BY <2>1, CallReplaced
<1>7. CASE UnparseIdent
  BY <1>7, Tuples, CallReplaced DEF UnparseIdent
<1>8. CASE UnparseNumber
  BY <1>8, Tuples, DecimalIsTuple, CallReplaced DEF UnparseNumber
<1> QED
  BY <1>1, <1>2, <1>3, <1>4, <1>5, <1>6, <1>7, <1>8 DEF UnparseExprs

LEMMA StepReplaces ==
  ASSUME IInv, Step
  PROVE  Replaced \/ UNCHANGED <<root, rest, out>>
<1>1. CASE UnparseProgram
  <2> DEFINE body == <<Call("unparseBlock", Arg), TheEnd>>
  <2>1. /\ At("unparseProgram") /\ PrintThen(<<>>, body)
        /\ IsTuple(<<>>) /\ IsTuple(body) /\ body # <<>> /\ body[Len(body)] = TheEnd
    BY <1>1, Tuples DEF UnparseProgram, Do, TheEnd
  <2> HIDE DEF body
  <2> QED
    BY <2>1 DEF At, Replaces, Replaced
<1>2. CASE PrintWords
  <2>1. /\ rest # <<>> /\ Head(rest).do = "print" /\ PrintThen(Head(rest).words, <<>>)
        /\ IsTuple(<<>>)
    BY <1>2, Tuples DEF PrintWords, At
  <2>2. IsTuple(Head(rest).words)
    <3>1. Head(rest) \in GoodInstrs
      BY <2>1 DEF IInv
    <3>2. Head(rest).words \in Seq(Items)
      BY <3>1 DEF GoodInstrs, Instrs
    <3> QED
      BY <3>2 DEF IsTuple
  <2> QED
    BY <2>1, <2>2 DEF Replaces, Replaced
<1>3. CASE Return \/ bail_with_error
  BY <1>3 DEF Return, bail_with_error
<1> QED
  BY <1>1, <1>2, <1>3, DeclsReplaced, StmtsReplaced, ExprsReplaced DEF Step

\* A step adds some words to what is printed, or none.
LEMMA StepAddsWords ==
  ASSUME IInv, Step
  PROVE  \E words \in Seq(Items) : out' = out \o words
<1>1. out \in Seq(Items) /\ out' \in Seq(Items)
  BY NextInv DEF IInv, Next
<1>2. CASE UNCHANGED out
  <2>1. <<>> \in Seq(Items) /\ out \o <<>> = out
    BY <1>1
  <2> QED
    BY <1>2, <2>1
<1>3. CASE Replaced
  <2>1. PICK words, body : Replaces(words, body)
    BY <1>3 DEF Replaced
  <2>2. PICK S : words \in Seq(S)
    BY <2>1 DEF Replaces, IsTuple
  <2>3. out' = out \o words
    BY <2>1 DEF Replaces, PrintThen
  <2>4. \A k \in 1 .. Len(words) : words[k] = out'[Len(out) + k] /\ Len(out) + k \in 1 .. Len(out')
    <3> DEFINE U == Items \cup S
    <3>1. out \in Seq(U) /\ words \in Seq(U)
      BY <1>1, <2>2
    <3> HIDE DEF U
    <3> QED
      BY <2>3, <3>1
  <2>5. \A k \in 1 .. Len(words) : words[k] \in Items
    BY <1>1, <2>4
  <2>6. words \in Seq(Items)
    BY <2>2, <2>5
  <2> QED
    BY <2>3, <2>6
<1> QED
  BY <1>2, <1>3, StepReplaces

\* The end of the program is still to be printed, or it is the last that was.
EndInv ==
  \/ rest = <<Call("unparseProgram", root)>>
  \/ rest # <<>> /\ rest[Len(rest)] = TheEnd
  \/ rest = <<>> /\ out # <<>> /\ out[Len(out)] = Gap

LEMMA TailIs ==
  ASSUME NEW U, NEW s \in Seq(U), s # <<>>, NEW k \in 1 .. Len(Tail(s))
  PROVE  Tail(s)[k] = s[k + 1]
OBVIOUS

LEMMA EndOfTail ==
  ASSUME NEW U, NEW s \in Seq(U), s # <<>>
  PROVE  /\ Head(s) = s[1] /\ Tail(s) \in Seq(U) /\ Len(s) \in Nat \ {0}
         /\ Len(Tail(s)) = Len(s) - 1
         /\ Len(s) > 1 => Tail(s) # <<>> /\ Tail(s)[Len(s) - 1] = s[Len(s)]
         /\ Len(s) = 1 => Tail(s) = <<>>
<1>1. Head(s) = s[1] /\ Tail(s) \in Seq(U) /\ Len(s) \in Nat \ {0} /\ Len(Tail(s)) = Len(s) - 1
  OBVIOUS
<1>2. PICK n \in Nat, t \in Seq(U) : n = Len(s) /\ t = Tail(s)
  BY <1>1
<1>3. n > 0 /\ Len(t) = n - 1
  BY <1>1, <1>2
<1>4. ASSUME n > 1 PROVE t # <<>> /\ t[n - 1] = s[n]
  <2>1. n - 1 \in 1 .. Len(t) /\ (n - 1) + 1 = n
    BY <1>3, <1>4
  <2>2. t[n - 1] = s[(n - 1) + 1]
    BY <1>2, <2>1, TailIs
  <2> QED
    BY <2>1, <2>2
<1>5. ASSUME n = 1 PROVE t = <<>>
  BY <1>3, <1>5
<1> QED
  BY <1>1, <1>2, <1>4, <1>5

LEMMA StepKeepsEnd == ASSUME IInv, EndInv, Step PROVE EndInv'
<1>1. CASE UNCHANGED <<root, rest, out>>
  BY <1>1 DEF EndInv
<1>2. CASE Replaced
  <2>1. PICK words, body : Replaces(words, body)
    BY <1>2 DEF Replaced
  <2>2. PICK S, T : words \in Seq(S) /\ body \in Seq(T)
    BY <2>1 DEF Replaces, IsTuple
  <2>3. /\ rest # <<>> /\ out' = out \o words /\ rest' = body \o Tail(rest)
        /\ Head(rest).do = "print" => words = Head(rest).words /\ body = <<>>
        /\ Head(rest).do = "unparseProgram" => body # <<>> /\ body[Len(body)] = TheEnd
    BY <2>1 DEF Replaces, PrintThen
  <2>4. PICK U : /\ rest \in Seq(U) /\ body \in Seq(U) /\ out \in Seq(U) /\ words \in Seq(U)
    <3> DEFINE U == GoodInstrs \cup T \cup Items \cup S
    <3>1. /\ rest \in Seq(U) /\ body \in Seq(U) /\ out \in Seq(U) /\ words \in Seq(U)
      BY <2>2 DEF IInv
    <3> HIDE DEF U
    <3> QED
      BY <3>1
  <2>5. /\ Head(rest) = rest[1] /\ Tail(rest) \in Seq(U) /\ Len(rest) \in Nat \ {0}
        /\ Len(Tail(rest)) = Len(rest) - 1
        /\ Len(rest) > 1 => Tail(rest) # <<>> /\ Tail(rest)[Len(rest) - 1] = rest[Len(rest)]
        /\ Len(rest) = 1 => Tail(rest) = <<>>
    BY <2>3, <2>4, EndOfTail
  <2>6. CASE Len(rest) > 1
    <3>1. rest[Len(rest)] = TheEnd
      BY <2>3, <2>6 DEF EndInv
    <3>2. rest' # <<>> /\ rest'[Len(rest')] = Tail(rest)[Len(Tail(rest))]
      BY <2>3, <2>4, <2>5, <2>6, EndsOfConcat
    <3> QED
      BY <2>5, <2>6, <3>1, <3>2 DEF EndInv, TheEnd, Emit, Word, Gap
  <2>7. CASE Len(rest) = 1 /\ rest[1] = TheEnd
    <3>1. TheEnd.do = "print" /\ TheEnd.words = <<Word("periodsym"), Gap>>
      BY DEF TheEnd, Emit
    <3>2. body = <<>> /\ words = <<Word("periodsym"), Gap>>
      BY <2>3, <2>5, <2>7, <3>1
    <3>3. rest' = <<>>
      BY <2>3, <2>5, <2>7, <3>2
    <3>4. out' # <<>> /\ out'[Len(out')] = Gap
      <4>1. out' # <<>> /\ out'[Len(out')] = words[Len(words)]
        BY <2>3, <2>4, <3>2, EndsOfConcat
      <4> QED
        BY <3>2, <4>1
    <3> QED
      BY <3>3, <3>4 DEF EndInv, Gap, Word
  <2>8. CASE rest = <<Call("unparseProgram", root)>>
    <3>1. Head(rest).do = "unparseProgram" /\ Tail(rest) = <<>>
      BY <2>8 DEF Call, CallStmt
    <3>2. body \o <<>> = body
      BY <2>4
    <3>3. rest' = body /\ body # <<>> /\ body[Len(body)] = TheEnd
      BY <2>3, <3>1, <3>2
    <3> QED
      BY <3>3 DEF EndInv, TheEnd, Emit, Word, Gap
  <2> QED
    BY <2>3, <2>5, <2>6, <2>7, <2>8 DEF EndInv
<1> QED
  BY <1>1, <1>2, StepReplaces

LEMMA StartEnds == Started => EndInv
BY DEF Started, EndInv

\* A program that is printed ends with a newline.
LEMMA PrintedEnds ==
  ASSUME DerivInv, EndInv, status = "printed"
  PROVE  out # <<>> /\ out[Len(out)] = Gap
BY DEF DerivInv, EndInv, Call, CallStmt
=============================================================================
