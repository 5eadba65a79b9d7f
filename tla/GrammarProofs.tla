---------------------------- MODULE GrammarProofs ----------------------------
(***************************************************************************)
(* Lemmas about the grammar and its recognizer.  They hold for the grammar *)
(* of the comments of parser.c and for its relaxation: what may follow a   *)
(* symbol in a sentential form, that the recognizer's nine rounds are      *)
(* enough, and what each terminal makes of its forms.                      *)
(***************************************************************************)
EXTENDS Grammar, ASTProofs

-----------------------------------------------------------------------------
(* Sequences in which the symbol "act" is silent.                          *)

IsFirst(f, k) == k \in 1 .. Len(f) /\ f[k] # "act" /\ \A m \in 1 .. k - 1 : f[m] = "act"
IsLast(f, k) == k \in 1 .. Len(f) /\ f[k] # "act" /\ \A m \in k + 1 .. Len(f) : f[m] = "act"

\* No symbol stands between those at j and k.
Neighbors(f, j, k) ==
  /\ j \in 1 .. Len(f) /\ k \in 1 .. Len(f) /\ j < k
  /\ f[j] # "act" /\ f[k] # "act"
  /\ \A m \in j + 1 .. k - 1 : f[m] = "act"

\* The n leading symbols are those that SkipActs drops.
Leading(f, n) == /\ \A k \in 1 .. n : f[k] = "act"
                 /\ n = Len(f) \/ f[n + 1] # "act"

LEMMA LeadingExists ==
  ASSUME NEW S, NEW f \in Seq(S)
  PROVE  \E n \in 0 .. Len(f) : Leading(f, n)
<1> DEFINE T == {n \in 0 .. Len(f) : \A k \in 1 .. n : f[k] = "act"}
<1> SUFFICES ASSUME \A n \in 0 .. Len(f) : ~Leading(f, n)
             PROVE  FALSE
  OBVIOUS
<1>1. Len(f) \in Nat /\ 0 \in T
  OBVIOUS
<1>2. ASSUME NEW n \in 0 .. Len(f) - 1, n \in T
      PROVE  n + 1 \in T
  <2>1. f[n + 1] = "act"
    BY <1>2 DEF Leading
  <2> QED
    BY <1>2, <2>1
<1>3. \A k \in 0 .. Len(f) : k \in T
  <2> HIDE DEF T
  <2> QED
    BY ONLY <1>1, <1>2, Upward
<1>4. Len(f) \in T
  BY <1>1, <1>3
<1> QED
  BY <1>1, <1>4 DEF Leading

LEMMA LeadingUnique ==
  ASSUME NEW S, NEW f \in Seq(S), NEW m \in 0 .. Len(f), NEW n \in 0 .. Len(f),
         Leading(f, m), Leading(f, n)
  PROVE  m = n
BY DEF Leading

LEMMA SkipActsIs ==
  ASSUME NEW S, NEW f \in Seq(S), NEW n \in 0 .. Len(f), Leading(f, n)
  PROVE  SkipActs(f) = SubSeq(f, n + 1, Len(f))
<1> DEFINE m == CHOOSE k \in 0 .. Len(f) : Leading(f, k)
<1>1. m \in 0 .. Len(f) /\ Leading(f, m)
  OBVIOUS
<1>2. m = n
  <2> HIDE DEF m
  <2> QED
    BY <1>1, LeadingUnique
<1>3. SkipActs(f) = SubSeq(f, 1 + m, Len(f))
  BY DEF SkipActs, Leading
<1> HIDE DEF m
<1> QED
  BY <1>1, <1>2, <1>3

LEMMA SkipActsType ==
  ASSUME NEW S, NEW f \in Seq(S)
  PROVE  /\ SkipActs(f) \in Seq(S)
         /\ SkipActs(f) # <<>> => SkipActs(f)[1] # "act"
<1>1. PICK n \in 0 .. Len(f) : Leading(f, n)
  BY LeadingExists
<1>2. SkipActs(f) = SubSeq(f, n + 1, Len(f))
  BY <1>1, SkipActsIs
<1>3. CASE n = Len(f)
  BY <1>2, <1>3
<1>4. CASE n < Len(f)
  BY <1>1, <1>2, <1>4 DEF Leading
<1> QED
  BY <1>1, <1>3, <1>4

\* Nothing is dropped before a symbol.
LEMMA SkipActsNone ==
  ASSUME NEW S, NEW f \in Seq(S), f = <<>> \/ f[1] # "act"
  PROVE  SkipActs(f) = f
<1>1. 0 \in 0 .. Len(f) /\ Leading(f, 0)
  BY DEF Leading
<1>2. SkipActs(f) = SubSeq(f, 0 + 1, Len(f))
  BY <1>1, SkipActsIs
<1> QED
  BY <1>2

LEMMA SkipActsTwice ==
  ASSUME NEW S, NEW f \in Seq(S)
  PROVE  SkipActs(SkipActs(f)) = SkipActs(f)
BY SkipActsType, SkipActsNone

\* A leading act does not count.
LEMMA SkipActsTail ==
  ASSUME NEW S, NEW f \in Seq(S), f # <<>>, f[1] = "act"
  PROVE  SkipActs(Tail(f)) = SkipActs(f)
<1>1. PICK n \in 0 .. Len(f) : Leading(f, n)
  BY LeadingExists
<1>2. n >= 1
  BY <1>1 DEF Leading
<1>3. n - 1 \in 0 .. Len(Tail(f)) /\ Tail(f) \in Seq(S) /\ Len(Tail(f)) = Len(f) - 1
  BY <1>2
<1>4. Leading(Tail(f), n - 1)
  <2>1. Len(f) \in Nat /\ \A k \in 1 .. Len(f) - 1 : Tail(f)[k] = f[k + 1]
    OBVIOUS
  <2>2. \A k \in 1 .. n - 1 : Tail(f)[k] = "act"
    BY <1>1, <1>2, <2>1 DEF Leading
  <2>3. n # Len(f) => Tail(f)[n] = f[n + 1]
    BY <1>2, <2>1
  <2>4. n = Len(f) \/ f[n + 1] # "act"
    BY <1>1 DEF Leading
  <2>5. n - 1 = Len(Tail(f)) \/ Tail(f)[n] # "act"
    BY <1>3, <2>1, <2>3, <2>4
  <2>6. n - 1 + 1 = n
    OBVIOUS
  <2> QED
    BY <2>2, <2>5, <2>6 DEF Leading
<1>5. SkipActs(Tail(f)) = SubSeq(Tail(f), n - 1 + 1, Len(Tail(f)))
  BY <1>3, <1>4, SkipActsIs
<1>6. SkipActs(f) = SubSeq(f, n + 1, Len(f))
  BY <1>1, SkipActsIs
<1>7. SubSeq(Tail(f), n - 1 + 1, Len(Tail(f))) = SubSeq(f, n + 1, Len(f))
  BY <1>2, <1>3
<1> QED
  BY <1>5, <1>6, <1>7

\* The first symbol of a concatenation.
LEMMA SkipActsFirst ==
  ASSUME NEW S, NEW r \in Seq(S), NEW t \in Seq(S), NEW k, IsFirst(r, k)
  PROVE  SkipActs(r \o t) # <<>> /\ SkipActs(r \o t)[1] = r[k]
<1>1. k \in 1 .. Len(r) /\ Len(r \o t) = Len(r) + Len(t) /\ r \o t \in Seq(S)
  BY DEF IsFirst
<1>2. k - 1 \in 0 .. Len(r \o t) /\ Leading(r \o t, k - 1)
  BY <1>1 DEF IsFirst, Leading
<1>3. SkipActs(r \o t) = SubSeq(r \o t, k - 1 + 1, Len(r \o t))
  BY <1>1, <1>2, SkipActsIs
<1>4. (r \o t)[k] = r[k] /\ r[k] \in S
  BY <1>1
<1>5. SkipActs(r \o t) = SubSeq(r \o t, k, Len(r) + Len(t))
  BY <1>1, <1>3
<1> DEFINE u == r \o t
<1>6. u \in Seq(S) /\ Len(u) = Len(r) + Len(t) /\ k \in 1 .. Len(u)
  BY <1>1
<1>7. Len(SubSeq(u, k, Len(u))) = Len(u) - k + 1 /\ SubSeq(u, k, Len(u))[1] = u[k]
  <2> HIDE DEF u
  <2> QED
    BY <1>6
<1>8. SkipActs(u) = SubSeq(u, k, Len(u)) /\ u[k] = r[k]
  BY <1>4, <1>5, <1>6
<1>9. PICK w : w = SubSeq(u, k, Len(u))
  OBVIOUS
<1>10. Len(w) # 0 /\ w[1] = r[k]
  <2> HIDE DEF u
  <2> QED
    BY <1>6, <1>7, <1>8, <1>9
<1>11. w # <<>>
  BY <1>10
<1>12. SkipActs(u) # <<>> /\ SkipActs(u)[1] = r[k]
  <2> HIDE DEF u
  <2> QED
    BY <1>8, <1>9, <1>10, <1>11
<1> QED
  BY <1>12

LEMMA SkipActsSilent ==
  ASSUME NEW S, NEW r \in Seq(S), NEW t \in Seq(S), \A k \in 1 .. Len(r) : r[k] = "act"
  PROVE  SkipActs(r \o t) = SkipActs(t)
<1>1. PICK n \in 0 .. Len(t) : Leading(t, n)
  BY LeadingExists
<1>2. Len(r) + n \in 0 .. Len(r \o t) /\ Leading(r \o t, Len(r) + n) /\ r \o t \in Seq(S)
  BY <1>1 DEF Leading
<1>3. SkipActs(r \o t) = SubSeq(r \o t, Len(r) + n + 1, Len(r \o t))
  BY <1>2, SkipActsIs
<1>4. SkipActs(t) = SubSeq(t, n + 1, Len(t))
  BY <1>1, SkipActsIs
<1>5. SubSeq(r \o t, Len(r) + n + 1, Len(r \o t)) = SubSeq(t, n + 1, Len(t))
  OBVIOUS
<1> QED
  BY <1>3, <1>4, <1>5

-----------------------------------------------------------------------------
(* The symbols of the grammar: what may follow each in a sentential form,  *)
(* how many rewritings lead from it to a terminal, and which terminals a   *)
(* form may begin with that begins with it.                                *)

Statements == {"stmt", "assign-stmt", "begin-stmt", "if-stmt", "while-stmt",
               "read-stmt", "read-ident", "write-stmt", "skip-stmt"}
Factors == {"factor", "ident-expr", "paren-expr", "signed-number", "number",
            "unsigned-number"}

Nonterminals ==
  {"program", "block", "stmts", "const-decls", "more-const-decls", "const-decl",
   "comma-const-defs", "const-def", "const-number", "var-decls", "more-var-decls",
   "var-decl", "comma-idents", "var-ident", "stmt-list", "semi-stmts",
   "condition", "rel-op-expr", "expr", "add-sub-terms", "term",
   "mult-div-factors", "add-sub-term", "mult-div-factor"}
    \cup Statements \cup Factors

GrammarSymbols == TokenTypes \cup Nonterminals \cup {"act"}

AfterStmt == {"stmt-list", "semi-stmts", "elsesym", "periodsym"}

\* The symbols that may stand after A.
Follow(A) ==
  CASE A \in {"block", "stmts"} -> {"periodsym"}
    [] A \in {"const-decls", "more-const-decls"} -> {"var-decls"}
    [] A \in {"var-decls", "more-var-decls"} -> {"stmts"}
    [] A \in {"const-decl", "comma-const-defs", "var-decl", "comma-idents"} -> {"semisym"}
    [] A \in {"const-def", "const-number"} -> {"comma-const-defs"}
    [] A = "var-ident" -> {"comma-idents"}
    [] A \in Statements -> AfterStmt
    [] A \in {"stmt-list", "semi-stmts"} -> {"endsym"}
    [] A \in {"condition", "rel-op-expr"} -> {"thensym", "dosym"}
    [] A \in {"expr", "add-sub-terms"} ->
         AfterStmt \cup {"thensym", "dosym", "rparensym", "rel-op-expr"}
    [] A \in {"term", "mult-div-factors", "add-sub-term"} -> {"add-sub-terms"}
    [] A \in Factors \cup {"mult-div-factor"} -> {"mult-div-factors"}
    [] A = "program" -> {}
    [] OTHER -> GrammarSymbols

\* How often the head of a form that begins with A is rewritten at most.
Rank(A) ==
  CASE A \in TokenTypes -> 0
    [] A \in {"program"} -> 9
    [] A \in {"block", "mult-div-factors"} -> 8
    [] A \in {"const-decls", "add-sub-terms"} -> 7
    [] A \in {"more-const-decls", "condition", "rel-op-expr"} -> 6
    [] A \in {"var-decls", "expr"} -> 5
    [] A \in {"more-var-decls", "term"} -> 4
    [] A \in {"stmts", "factor"} -> 3
    [] A \in {"stmt", "const-decl", "var-decl", "stmt-list", "signed-number"} -> 2
    [] OTHER -> 1

StmtStarts == {"identsym", "beginsym", "ifsym", "whilesym", "readsym", "writesym", "skipsym"}
ExprStarts == {"identsym", "lparensym", "numbersym"} \cup SignSyms
ExprEnds == {"thensym", "dosym", "elsesym", "endsym", "semisym", "periodsym", "rparensym"}
              \cup RelOpSyms

\* The terminals that a form may begin with, in the documented grammar, when A
\* is at its head.
Starts(A) ==
  CASE A \in TokenTypes -> {A}
    [] A \in {"program", "block", "const-decls", "more-const-decls"} ->
         StmtStarts \cup {"constsym", "varsym"}
    [] A \in {"var-decls", "more-var-decls"} -> StmtStarts \cup {"varsym"}
    [] A \in {"stmts", "stmt"} -> StmtStarts
    [] A \in {"const-decl", "const-def", "var-decl", "var-ident", "assign-stmt",
              "read-ident", "ident-expr"} -> {"identsym"}
    [] A \in {"comma-const-defs", "comma-idents"} -> {"commasym", "semisym"}
    [] A \in {"const-number", "unsigned-number"} -> {"numbersym"}
    [] A \in {"stmt-list", "semi-stmts"} -> {"semisym", "endsym"}
    [] A = "begin-stmt" -> {"beginsym"}
    [] A = "if-stmt" -> {"ifsym"}
    [] A = "while-stmt" -> {"whilesym"}
    [] A = "read-stmt" -> {"readsym"}
    [] A = "write-stmt" -> {"writesym"}
    [] A = "skip-stmt" -> {"skipsym"}
    [] A = "condition" -> ExprStarts \cup {"oddsym"}
    [] A = "rel-op-expr" -> RelOpSyms
    [] A \in {"expr", "term", "factor"} -> ExprStarts
    [] A = "add-sub-terms" -> SignSyms \cup ExprEnds
    [] A = "mult-div-factors" -> SignSyms \cup MultDivSyms \cup ExprEnds
    [] A = "add-sub-term" -> SignSyms
    [] A = "mult-div-factor" -> MultDivSyms
    [] A = "paren-expr" -> {"lparensym"}
    [] A \in {"signed-number", "number"} -> {"numbersym"} \cup SignSyms
    [] OTHER -> {}

\* Neighbors in f may follow each other.
InOrder(f) == \A j, k \in 1 .. Len(f) : Neighbors(f, j, k) => f[k] \in Follow(f[j])

\* A rewriting of A by rhs keeps what may follow what, and leads on.
RuleFits(A, rhs) ==
  /\ rhs \in Seq(GrammarSymbols)
  /\ InOrder(rhs)
  /\ \A k \in 1 .. Len(rhs) :
       /\ IsLast(rhs, k) => Follow(A) \subseteq Follow(rhs[k])
       /\ IsFirst(rhs, k) => Rank(rhs[k]) < Rank(A)
  /\ (\A k \in 1 .. Len(rhs) : rhs[k] = "act") => \A B \in Follow(A) : Rank(B) < Rank(A)
  /\ rhs # <<>> => rhs[1] # "act"
  /\ A = "program" => rhs = <<"block", "periodsym">>

\* The rewriting allows no terminal to lead that A does not allow.
RuleStarts(A, rhs) ==
  /\ \A k \in 1 .. Len(rhs) : IsFirst(rhs, k) => Starts(rhs[k]) \subseteq Starts(A)
  /\ (\A k \in 1 .. Len(rhs) : rhs[k] = "act") =>
       \A B \in Follow(A) : Starts(B) \subseteq Starts(A)

\* A rule of the grammar, but that of "act", does both.
FitsGrammar(rule) ==
  /\ rule[1] \in Nonterminals \cup {"act"}
  /\ rule[1] # "act" => /\ RuleFits(rule[1], rule[2])
                        /\ RuleStarts(rule[1], rule[2])

LEMMA ProgramRulesFit == \A rule \in ProgramRules : FitsGrammar(rule)
<1> SUFFICES ASSUME NEW rule \in ProgramRules PROVE FitsGrammar(rule)
  OBVIOUS
<1> USE DEF FitsGrammar, RuleFits, RuleStarts, InOrder, Neighbors, IsFirst, IsLast, Follow, Rank, Starts,
     Nonterminals, GrammarSymbols, TokenTypes, Statements, Factors, AfterStmt, SignSyms,
     MultDivSyms, RelOpSyms, StmtStarts, ExprStarts, ExprEnds
<1>1. CASE rule = <<"program", <<"block", "periodsym">>>>
  BY <1>1
<1>2. CASE rule = <<"block", <<"const-decls", "var-decls", "stmts", "act">>>>
  BY <1>2
<1>3. CASE rule = <<"stmts", <<"stmt">>>>
  BY <1>3
<1>4. CASE rule = <<"act", <<>>>>
  BY <1>4
<1> HIDE DEF FitsGrammar, SignSyms, MultDivSyms, RelOpSyms
<1> QED
  BY <1>1, <1>2, <1>3, <1>4 DEF ProgramRules

LEMMA ConstDeclRulesFit == \A rule \in ConstDeclRules : FitsGrammar(rule)
<1> SUFFICES ASSUME NEW rule \in ConstDeclRules PROVE FitsGrammar(rule)
  OBVIOUS
<1> USE DEF FitsGrammar, RuleFits, RuleStarts, InOrder, Neighbors, IsFirst, IsLast, Follow, Rank, Starts,
     Nonterminals, GrammarSymbols, TokenTypes, Statements, Factors, AfterStmt, SignSyms,
     MultDivSyms, RelOpSyms, StmtStarts, ExprStarts, ExprEnds
<1>1. CASE rule = <<"const-decls", <<"more-const-decls">>>>
  BY <1>1
<1>2. CASE rule = <<"more-const-decls", <<>>>>
  BY <1>2
<1>3. CASE rule = <<"more-const-decls", <<"constsym", "const-decl", "act", "semisym", "more-const-decls">>>>
  BY <1>3
<1>4. CASE rule = <<"const-decl", <<"const-def", "act", "comma-const-defs">>>>
  BY <1>4
<1>5. CASE rule = <<"comma-const-defs", <<>>>>
  BY <1>5
<1>6. CASE rule = <<"comma-const-defs", <<"commasym", "const-def", "act", "comma-const-defs">>>>
  BY <1>6
<1>7. CASE rule = <<"const-def", <<"identsym", "eqsym", "const-number">>>>
  BY <1>7
<1>8. CASE rule = <<"const-number", <<"numbersym", "act">>>>
  BY <1>8
<1> HIDE DEF FitsGrammar, SignSyms, MultDivSyms, RelOpSyms
<1> QED
  BY <1>1, <1>2, <1>3, <1>4, <1>5, <1>6, <1>7, <1>8 DEF ConstDeclRules

LEMMA VarDeclRulesFit == \A rule \in VarDeclRules : FitsGrammar(rule)
<1> SUFFICES ASSUME NEW rule \in VarDeclRules PROVE FitsGrammar(rule)
  OBVIOUS
<1> USE DEF FitsGrammar, RuleFits, RuleStarts, InOrder, Neighbors, IsFirst, IsLast, Follow, Rank, Starts,
     Nonterminals, GrammarSymbols, TokenTypes, Statements, Factors, AfterStmt, SignSyms,
     MultDivSyms, RelOpSyms, StmtStarts, ExprStarts, ExprEnds
<1>1. CASE rule = <<"var-decls", <<"more-var-decls">>>>
  BY <1>1
<1>2. CASE rule = <<"more-var-decls", <<>>>>
  BY <1>2
<1>3. CASE rule = <<"more-var-decls", <<"varsym", "var-decl", "act", "semisym", "more-var-decls">>>>
  BY <1>3
<1>4. CASE rule = <<"var-decl", <<"var-ident", "act", "comma-idents">>>>
  BY <1>4
<1>5. CASE rule = <<"comma-idents", <<>>>>
  BY <1>5
<1>6. CASE rule = <<"comma-idents", <<"commasym", "var-ident", "act", "comma-idents">>>>
  BY <1>6
<1>7. CASE rule = <<"var-ident", <<"identsym", "act">>>>
  BY <1>7
<1> HIDE DEF FitsGrammar, SignSyms, MultDivSyms, RelOpSyms
<1> QED
  BY <1>1, <1>2, <1>3, <1>4, <1>5, <1>6, <1>7 DEF VarDeclRules

LEMMA StmtRulesFit == \A rule \in StmtRules : FitsGrammar(rule)
<1> SUFFICES ASSUME NEW rule \in StmtRules PROVE FitsGrammar(rule)
  OBVIOUS
<1> USE DEF FitsGrammar, RuleFits, RuleStarts, InOrder, Neighbors, IsFirst, IsLast, Follow, Rank, Starts,
     Nonterminals, GrammarSymbols, TokenTypes, Statements, Factors, AfterStmt, SignSyms,
     MultDivSyms, RelOpSyms, StmtStarts, ExprStarts, ExprEnds
<1>1. ASSUME NEW s \in {"assign-stmt", "begin-stmt", "if-stmt", "while-stmt", "read-stmt",
                        "write-stmt", "skip-stmt"},
             rule = <<"stmt", <<s>>>>
      PROVE  FitsGrammar(rule)
  BY <1>1
<1>2. CASE rule = <<"assign-stmt", <<"identsym", "becomessym", "expr", "act">>>>
  BY <1>2
<1>3. CASE rule = <<"begin-stmt", <<"beginsym", "stmt", "act", "stmt-list", "act", "act", "endsym", "act">>>>
  BY <1>3
<1>4. CASE rule = <<"stmt-list", <<"semi-stmts">>>>
  BY <1>4
<1>5. CASE rule = <<"semi-stmts", <<>>>>
  BY <1>5
<1>6. CASE rule = <<"semi-stmts", <<"semisym", "stmt", "act", "semi-stmts">>>>
  BY <1>6
<1>7. CASE rule = <<"if-stmt", <<"ifsym", "condition", "thensym", "stmt", "elsesym", "stmt", "act">>>>
  BY <1>7
<1>8. CASE rule = <<"while-stmt", <<"whilesym", "condition", "dosym", "stmt", "act">>>>
  BY <1>8
<1>9. CASE rule = <<"read-stmt", <<"readsym", "read-ident">>>>
  BY <1>9
<1>10. CASE rule = <<"read-ident", <<"identsym", "act">>>>
  BY <1>10
<1>11. CASE rule = <<"write-stmt", <<"writesym", "expr", "act">>>>
  BY <1>11
<1>12. CASE rule = <<"skip-stmt", <<"skipsym", "act">>>>
  BY <1>12
<1> HIDE DEF FitsGrammar, SignSyms, MultDivSyms, RelOpSyms
<1> QED
  BY <1>1, <1>2, <1>3, <1>4, <1>5, <1>6, <1>7, <1>8, <1>9, <1>10, <1>11, <1>12 DEF StmtRules

LEMMA ConditionRulesFit == \A rule \in ConditionRules : FitsGrammar(rule)
<1> SUFFICES ASSUME NEW rule \in ConditionRules PROVE FitsGrammar(rule)
  OBVIOUS
<1> USE DEF FitsGrammar, RuleFits, RuleStarts, InOrder, Neighbors, IsFirst, IsLast, Follow, Rank, Starts,
     Nonterminals, GrammarSymbols, TokenTypes, Statements, Factors, AfterStmt, SignSyms,
     MultDivSyms, RelOpSyms, StmtStarts, ExprStarts, ExprEnds
<1>1. CASE rule = <<"condition", <<"oddsym", "expr", "act">>>>
  BY <1>1
<1>2. CASE rule = <<"condition", <<"expr", "rel-op-expr">>>>
  BY <1>2
<1>3. ASSUME NEW r \in RelOpSyms,
             rule = <<"rel-op-expr", <<r, "expr", "act">>>>
      PROVE  FitsGrammar(rule)
  BY <1>3
<1> HIDE DEF FitsGrammar, SignSyms, MultDivSyms, RelOpSyms
<1> QED
  BY <1>1, <1>2, <1>3 DEF ConditionRules

LEMMA ExprRulesFit == \A rule \in ExprRules : FitsGrammar(rule)
<1> SUFFICES ASSUME NEW rule \in ExprRules PROVE FitsGrammar(rule)
  OBVIOUS
<1> USE DEF FitsGrammar, RuleFits, RuleStarts, InOrder, Neighbors, IsFirst, IsLast, Follow, Rank, Starts,
     Nonterminals, GrammarSymbols, TokenTypes, Statements, Factors, AfterStmt, SignSyms,
     MultDivSyms, RelOpSyms, StmtStarts, ExprStarts, ExprEnds
<1>1. CASE rule = <<"expr", <<"term", "add-sub-terms">>>>
  BY <1>1
<1>2. CASE rule = <<"add-sub-terms", <<>>>>
  BY <1>2
<1>3. CASE rule = <<"add-sub-terms", <<"add-sub-term", "act", "add-sub-terms">>>>
  BY <1>3
<1>4. CASE rule = <<"term", <<"factor", "mult-div-factors">>>>
  BY <1>4
<1>5. CASE rule = <<"mult-div-factors", <<>>>>
  BY <1>5
<1>6. CASE rule = <<"mult-div-factors", <<"mult-div-factor", "act", "mult-div-factors">>>>
  BY <1>6
<1>7. ASSUME NEW s \in SignSyms,
             rule = <<"add-sub-term", <<s, "term", "act">>>>
      PROVE  FitsGrammar(rule)
  BY <1>7
<1>8. ASSUME NEW s \in MultDivSyms,
             rule = <<"mult-div-factor", <<s, "factor", "act">>>>
      PROVE  FitsGrammar(rule)
  BY <1>8
<1> HIDE DEF FitsGrammar, SignSyms, MultDivSyms, RelOpSyms
<1> QED
  BY <1>1, <1>2, <1>3, <1>4, <1>5, <1>6, <1>7, <1>8 DEF ExprRules

LEMMA FactorRulesFit == \A rule \in FactorRules : FitsGrammar(rule)
<1> SUFFICES ASSUME NEW rule \in FactorRules PROVE FitsGrammar(rule)
  OBVIOUS
<1> USE DEF FitsGrammar, RuleFits, RuleStarts, InOrder, Neighbors, IsFirst, IsLast, Follow, Rank, Starts,
     Nonterminals, GrammarSymbols, TokenTypes, Statements, Factors, AfterStmt, SignSyms,
     MultDivSyms, RelOpSyms, StmtStarts, ExprStarts, ExprEnds
<1>1. ASSUME NEW f \in {"ident-expr", "paren-expr", "signed-number", "number"},
             rule = <<"factor", <<f>>>>
      PROVE  FitsGrammar(rule)
  BY <1>1
<1>2. CASE rule = <<"ident-expr", <<"identsym", "act">>>>
  BY <1>2
<1>3. CASE rule = <<"paren-expr", <<"lparensym", "expr", "rparensym", "act">>>>
  BY <1>3
<1>4. CASE rule = <<"signed-number", <<"number">>>>
  BY <1>4
<1>5. CASE rule = <<"number", <<"numbersym", "act">>>>
  BY <1>5
<1>6. ASSUME NEW s \in SignSyms,
             rule = <<"number", <<s, "unsigned-number">>>>
      PROVE  FitsGrammar(rule)
  BY <1>6
<1>7. CASE rule = <<"unsigned-number", <<"numbersym", "act">>>>
  BY <1>7
<1> HIDE DEF FitsGrammar, SignSyms, MultDivSyms, RelOpSyms
<1> QED
  BY <1>1, <1>2, <1>3, <1>4, <1>5, <1>6, <1>7 DEF FactorRules

\* The two grammars.
GrammarRules == {DocumentedRules, RelaxedRules}

LEMMA DocumentedFits == \A rule \in DocumentedRules : FitsGrammar(rule)
BY ProgramRulesFit, ConstDeclRulesFit, VarDeclRulesFit, StmtRulesFit, ConditionRulesFit,
   ExprRulesFit, FactorRulesFit DEF DocumentedRules

LEMMA RelaxedFits ==
  \A rule \in RelaxedRules : /\ rule[1] \in Nonterminals \cup {"act"}
                             /\ rule[1] # "act" => RuleFits(rule[1], rule[2])
<1> DEFINE extra == <<"rel-op-expr", <<"expr", "act">>>>
<1>1. \A rule \in RelaxedRules : rule \in DocumentedRules \/ rule = extra
  BY DEF RelaxedRules
<1>2. extra[1] \in Nonterminals /\ RuleFits(extra[1], extra[2])
  BY DEF RuleFits, InOrder, Neighbors, IsFirst, IsLast, Follow, Rank, Nonterminals,
     GrammarSymbols, TokenTypes, Statements, Factors
<1> HIDE DEF extra
<1> QED
  BY <1>1, <1>2, DocumentedFits DEF FitsGrammar

\* Every nonterminal has a rule.
LEMMA Productive ==
  ASSUME NEW A \in Nonterminals
  PROVE  \E rule \in DocumentedRules : rule[1] = A
<1>1. CASE A \in {"program", "block", "stmts"}
  <2>1. \E rule \in ProgramRules : rule[1] = A
    BY <1>1 DEF ProgramRules
  <2> QED
    BY <2>1 DEF DocumentedRules
<1>2. CASE A \in {"const-decls", "more-const-decls", "const-decl", "comma-const-defs",
                  "const-def", "const-number"}
  <2>1. \E rule \in ConstDeclRules : rule[1] = A
    BY <1>2 DEF ConstDeclRules
  <2> QED
    BY <2>1 DEF DocumentedRules
<1>3. CASE A \in {"var-decls", "more-var-decls", "var-decl", "comma-idents", "var-ident"}
  <2>1. \E rule \in VarDeclRules : rule[1] = A
    BY <1>3 DEF VarDeclRules
  <2> QED
    BY <2>1 DEF DocumentedRules
<1>4. CASE A \in Statements \cup {"stmt-list", "semi-stmts"}
  <2>1. <<"stmt", <<"skip-stmt">>>> \in StmtRules
    BY DEF StmtRules
  <2>2. CASE A # "stmt"
    <3>1. /\ <<"assign-stmt", <<"identsym", "becomessym", "expr", "act">>>> \in StmtRules
          /\ <<"begin-stmt", <<"beginsym", "stmt", "act", "stmt-list", "act", "act",
                              "endsym", "act">>>> \in StmtRules
          /\ <<"stmt-list", <<"semi-stmts">>>> \in StmtRules
          /\ <<"semi-stmts", <<>>>> \in StmtRules
          /\ <<"if-stmt", <<"ifsym", "condition", "thensym", "stmt", "elsesym", "stmt",
                           "act">>>> \in StmtRules
          /\ <<"while-stmt", <<"whilesym", "condition", "dosym", "stmt", "act">>>> \in StmtRules
          /\ <<"read-stmt", <<"readsym", "read-ident">>>> \in StmtRules
          /\ <<"read-ident", <<"identsym", "act">>>> \in StmtRules
          /\ <<"write-stmt", <<"writesym", "expr", "act">>>> \in StmtRules
          /\ <<"skip-stmt", <<"skipsym", "act">>>> \in StmtRules
      BY DEF StmtRules
    <3> QED
      BY <1>4, <2>2, <3>1 DEF DocumentedRules, Statements
  <2> QED
    BY <2>1, <2>2 DEF DocumentedRules
<1>5. CASE A \in {"condition", "rel-op-expr"}
  <2>1. /\ <<"condition", <<"expr", "rel-op-expr">>>> \in ConditionRules
        /\ <<"rel-op-expr", <<"eqsym", "expr", "act">>>> \in ConditionRules
    BY DEF ConditionRules, RelOpSyms
  <2> QED
    BY <1>5, <2>1 DEF DocumentedRules
<1>6. CASE A \in {"expr", "add-sub-terms", "term", "mult-div-factors", "add-sub-term",
                  "mult-div-factor"}
  <2>1. /\ <<"add-sub-term", <<"plussym", "term", "act">>>> \in ExprRules
        /\ <<"mult-div-factor", <<"multsym", "factor", "act">>>> \in ExprRules
    BY DEF ExprRules, SignSyms, MultDivSyms
  <2>2. CASE A \notin {"add-sub-term", "mult-div-factor"}
    <3>1. /\ <<"expr", <<"term", "add-sub-terms">>>> \in ExprRules
          /\ <<"add-sub-terms", <<>>>> \in ExprRules
          /\ <<"term", <<"factor", "mult-div-factors">>>> \in ExprRules
          /\ <<"mult-div-factors", <<>>>> \in ExprRules
      BY DEF ExprRules
    <3> QED
      BY <1>6, <2>2, <3>1 DEF DocumentedRules
  <2> QED
    BY <2>1, <2>2 DEF DocumentedRules
<1>7. CASE A \in Factors
  <2>1. <<"factor", <<"number">>>> \in FactorRules
    BY DEF FactorRules
  <2>2. CASE A # "factor"
    <3>1. /\ <<"ident-expr", <<"identsym", "act">>>> \in FactorRules
          /\ <<"paren-expr", <<"lparensym", "expr", "rparensym", "act">>>> \in FactorRules
          /\ <<"signed-number", <<"number">>>> \in FactorRules
          /\ <<"number", <<"numbersym", "act">>>> \in FactorRules
          /\ <<"unsigned-number", <<"numbersym", "act">>>> \in FactorRules
      BY DEF FactorRules
    <3> QED
      BY <1>7, <2>2, <3>1 DEF DocumentedRules, Factors
  <2> QED
    BY <2>1, <2>2 DEF DocumentedRules
<1> QED
  BY <1>1, <1>2, <1>3, <1>4, <1>5, <1>6, <1>7 DEF Nonterminals

LEMMA SymbolKinds ==
  /\ "act" \notin TokenTypes /\ "act" \notin Nonterminals
  /\ TokenTypes \cap Nonterminals = {}
BY DEF TokenTypes, Nonterminals, Statements, Factors

LEMMA Ranks ==
  ASSUME NEW A \in TokenTypes \cup Nonterminals
  PROVE  /\ Rank(A) \in 0 .. 9
         /\ Rank(A) = 0 <=> A \in TokenTypes
BY DEF Rank, TokenTypes, Nonterminals, Statements, Factors

LEMMA FollowKnown ==
  ASSUME NEW A \in GrammarSymbols
  PROVE  Follow(A) \subseteq GrammarSymbols
BY DEF Follow, GrammarSymbols, TokenTypes, Nonterminals, Statements, Factors, AfterStmt

\* The right-hand sides of a nonterminal in one of the grammars.
LEMMA RightSidesAre ==
  ASSUME NEW rules \in GrammarRules, NEW A \in Nonterminals
  PROVE  /\ \A rhs : rhs \in RightSides(rules)[A] <=> \E rule \in rules : rule[1] = A /\ rule[2] = rhs
         /\ RightSides(rules)[A] # {}
         /\ \A rhs \in RightSides(rules)[A] : RuleFits(A, rhs)
<1>1. DocumentedRules \subseteq rules /\ rules \subseteq RelaxedRules
  BY DEF GrammarRules, RelaxedRules
<1>2. PICK rule0 \in rules : rule0[1] = A
  BY <1>1, Productive
<1>3. A \in {rule[1] : rule \in rules}
  BY <1>2
<1>4. RightSides(rules)[A] = {rule[2] : rule \in {r \in rules : r[1] = A}}
  BY <1>3 DEF RightSides
<1>5. \A rhs : rhs \in RightSides(rules)[A] <=> \E rule \in rules : rule[1] = A /\ rule[2] = rhs
  BY <1>4
<1>6. A # "act"
  BY SymbolKinds
<1>7. \A rhs \in RightSides(rules)[A] : RuleFits(A, rhs)
  BY <1>1, <1>5, <1>6, RelaxedFits
<1> QED
  BY <1>2, <1>5, <1>7

-----------------------------------------------------------------------------
(* Sentential forms.                                                       *)

\* What is left of a program to derive: its symbols may follow each other, and
\* the period is its last.
Form(f) ==
  /\ f \in Seq(GrammarSymbols)
  /\ InOrder(f)
  /\ f = <<>> \/ f = <<"program">> \/ f[Len(f)] = "periodsym"

Reduced(f) == Form(f) /\ (f = <<>> \/ f[1] # "act")

LEMMA FormStart == Form(<<"program">>) /\ Form(<<>>) /\ Reduced(<<"program">>) /\ Reduced(<<>>)
<1>1. "program" \in GrammarSymbols
  BY DEF GrammarSymbols, Nonterminals
<1> QED
  BY <1>1 DEF Form, Reduced, InOrder, Neighbors

\* What is left of a form is a form.
LEMMA FormRest ==
  ASSUME NEW f, Form(f), NEW n \in 0 .. Len(f)
  PROVE  Form(SubSeq(f, n + 1, Len(f)))
<1> DEFINE g == SubSeq(f, n + 1, Len(f))
<1>1. f \in Seq(GrammarSymbols) /\ InOrder(f)
  BY DEF Form
<1>2. /\ g \in Seq(GrammarSymbols) /\ Len(g) = Len(f) - n
      /\ \A k \in 1 .. Len(g) : g[k] = f[k + n]
  BY <1>1
<1>3. Len(f) \in Nat /\ n \in Nat
  BY <1>1
<1> HIDE DEF g
<1>4. ASSUME NEW j \in 1 .. Len(g), NEW k \in 1 .. Len(g), Neighbors(g, j, k)
      PROVE  g[k] \in Follow(g[j])
  <2>1. j + n \in 1 .. Len(f) /\ k + n \in 1 .. Len(f) /\ g[j] = f[j + n] /\ g[k] = f[k + n]
    BY <1>2, <1>3
  <2>2. \A m \in j + n + 1 .. k + n - 1 : f[m] = "act"
    <3> TAKE m \in j + n + 1 .. k + n - 1
    <3>1. m - n \in j + 1 .. k - 1 /\ m - n \in 1 .. Len(g) /\ (m - n) + n = m
      BY <1>2, <1>3
    <3> QED
      BY <1>2, <1>4, <3>1 DEF Neighbors
  <2>3. Neighbors(f, j + n, k + n)
    BY <1>3, <1>4, <2>1, <2>2 DEF Neighbors
  <2> QED
    BY <1>1, <2>1, <2>3 DEF InOrder
<1>5. InOrder(g)
  BY <1>4 DEF InOrder
<1>6. g = <<>> \/ g = <<"program">> \/ g[Len(g)] = "periodsym"
  <2>1. CASE Len(g) = 0
    BY <1>2, <2>1
  <2>2. CASE Len(g) # 0 /\ f = <<"program">>
    BY <1>2, <2>2
  <2>3. CASE Len(g) # 0 /\ f # <<"program">>
    <3>1. /\ Len(g) \in Nat /\ Len(g) \in 1 .. Len(g) /\ Len(g) + n = Len(f) /\ Len(f) # 0
      BY <1>1, <1>2, <1>3, <2>3
    <3>2. g[Len(g)] = f[Len(f)] /\ f # <<>>
      BY <1>2, <3>1
    <3> QED
      BY <2>3, <3>2 DEF Form
  <2> QED
    BY <2>1, <2>2, <2>3
<1> QED
  BY <1>2, <1>5, <1>6 DEF Form, g

LEMMA FormTail ==
  ASSUME NEW f, Form(f), f # <<>>
  PROVE  Form(Tail(f))
<1>1. f \in Seq(GrammarSymbols) /\ 1 \in 0 .. Len(f)
  BY DEF Form
<1>2. Form(SubSeq(f, 1 + 1, Len(f)))
  BY <1>1, FormRest
<1>3. Tail(f) = SubSeq(f, 1 + 1, Len(f))
  BY <1>1
<1> QED
  BY <1>2, <1>3

\* A form that is not finished has a first symbol.
LEMMA FormSkip ==
  ASSUME NEW f, Form(f)
  PROVE  /\ Reduced(SkipActs(f))
         /\ SkipActs(f) = <<>> <=> f = <<>>
<1>1. f \in Seq(GrammarSymbols)
  BY DEF Form
<1>2. PICK n \in 0 .. Len(f) : Leading(f, n)
  BY <1>1, LeadingExists
<1>3. SkipActs(f) = SubSeq(f, n + 1, Len(f))
  BY <1>1, <1>2, SkipActsIs
<1>4. Form(SkipActs(f))
  BY <1>3, FormRest
<1>5. SkipActs(f) # <<>> => SkipActs(f)[1] # "act"
  BY <1>1, SkipActsType
<1>6. f # <<>> => n # Len(f)
  <2> SUFFICES ASSUME f # <<>>, n = Len(f) PROVE FALSE
    OBVIOUS
  <2>1. Len(f) \in 1 .. Len(f) /\ Len(f) \in Nat
    BY <1>1
  <2>2. f[Len(f)] = "act"
    BY <1>2, <2>1 DEF Leading
  <2>3. f = <<"program">> \/ f[Len(f)] = "periodsym"
    BY DEF Form
  <2>4. f = <<"program">> => f[Len(f)] = "program"
    OBVIOUS
  <2> QED
    BY <2>2, <2>3, <2>4
<1>7. n # Len(f) => SkipActs(f) # <<>>
  <2>1. n # Len(f) => Len(SubSeq(f, n + 1, Len(f))) = Len(f) - n /\ Len(f) - n # 0
    BY <1>1
  <2>2. SkipActs(f) = <<>> => Len(SkipActs(f)) = 0
    OBVIOUS
  <2> QED
    BY <1>3, <2>1, <2>2
<1>8. f = <<>> => SkipActs(f) = <<>>
  BY SkipActsNone, <1>1
<1> QED
  BY <1>4, <1>5, <1>6, <1>7, <1>8 DEF Reduced

\* The first symbol left when the head of a form is rewritten.
LEMMA RewriteHead ==
  ASSUME NEW f, Form(f), f # <<>>, f[1] # "act", NEW rhs, RuleFits(f[1], rhs)
  PROVE  /\ rhs \o Tail(f) \in Seq(GrammarSymbols)
         /\ SkipActs(rhs \o Tail(f)) # <<>>
         /\ \/ \E k \in 1 .. Len(rhs) : IsFirst(rhs, k) /\ SkipActs(rhs \o Tail(f))[1] = rhs[k]
            \/ /\ \A k \in 1 .. Len(rhs) : rhs[k] = "act"
               /\ SkipActs(rhs \o Tail(f))[1] \in Follow(f[1])
<1>0. PICK t : t = Tail(f)
  OBVIOUS
<1>1. /\ f \in Seq(GrammarSymbols) /\ rhs \in Seq(GrammarSymbols) /\ InOrder(f)
      /\ t \in Seq(GrammarSymbols) /\ Len(t) = Len(f) - 1
      /\ Len(f) \in Nat \ {0} /\ \A k \in 1 .. Len(t) : t[k] = f[k + 1]
  BY <1>0 DEF Form, RuleFits
<1>2. rhs \o t \in Seq(GrammarSymbols)
  BY <1>1
<1>3. PICK n \in 0 .. Len(rhs) : Leading(rhs, n)
  BY <1>1, LeadingExists
<1>4. CASE n # Len(rhs)
  <2>1. n + 1 \in 1 .. Len(rhs) /\ IsFirst(rhs, n + 1)
    BY <1>1, <1>3, <1>4 DEF Leading, IsFirst
  <2>2. SkipActs(rhs \o t) # <<>> /\ SkipActs(rhs \o t)[1] = rhs[n + 1]
    <3>1. rhs \in Seq(GrammarSymbols) /\ t \in Seq(GrammarSymbols)
      BY <1>1
    <3> QED
      BY ONLY <2>1, <3>1, SkipActsFirst
  <2> QED
    BY <1>0, <1>2, <2>1, <2>2
<1>5. CASE n = Len(rhs)
  <2>1. \A k \in 1 .. Len(rhs) : rhs[k] = "act"
    BY <1>3, <1>5 DEF Leading
  <2>2. SkipActs(rhs \o t) = SkipActs(t)
    BY <1>1, <2>1, SkipActsSilent
  <2>3. Form(t)
    BY <1>0, FormTail
  <2>4. t # <<>>
    <3> SUFFICES ASSUME t = <<>> PROVE FALSE
      OBVIOUS
    <3>1. Len(f) = 1 /\ f = <<f[1]>>
      BY <1>1
    <3>2. f[1] # "periodsym"
      <4>1. f[1] = "periodsym" => FALSE
        <5> SUFFICES ASSUME f[1] = "periodsym" PROVE FALSE
          OBVIOUS
        <5>1. Rank(f[1]) = 0
          BY DEF Rank, TokenTypes
        <5>2. \A B \in Follow(f[1]) : Rank(B) < Rank(f[1])
          BY <2>1 DEF RuleFits
        <5>3. "periodsym" \in Follow(f[1])
          BY DEF Follow, Statements, Factors, GrammarSymbols, TokenTypes
        <5> QED
          BY <5>1, <5>2, <5>3
      <4> QED
        BY <4>1
    <3>3. f = <<"program">>
      BY <3>1, <3>2 DEF Form
    <3>4. rhs = <<"block", "periodsym">>
      BY <3>3 DEF RuleFits
    <3>5. rhs[1] = "act"
      BY <2>1, <3>4
    <3> QED
      BY <3>4, <3>5
  <2>5. SkipActs(t) # <<>>
    BY <2>3, <2>4, FormSkip
  <2>6. PICK m \in 0 .. Len(t) : Leading(t, m)
    BY <1>1, LeadingExists
  <2>7. SkipActs(t) = SubSeq(t, m + 1, Len(t))
    BY <1>1, <2>6, SkipActsIs
  <2>8. m # Len(t) /\ m + 1 \in 1 .. Len(t)
    <3>1. Len(t) \in Nat /\ (m = Len(t) => SubSeq(t, m + 1, Len(t)) = <<>>)
      BY <1>1
    <3> QED
      BY <2>5, <2>7, <3>1
  <2>9. SkipActs(t)[1] = f[m + 2] /\ f[m + 2] # "act" /\ m + 2 \in 1 .. Len(f)
    <3>1. SubSeq(t, m + 1, Len(t))[1] = t[m + 1]
      BY <1>1, <2>8
    <3>2. t[m + 1] = f[m + 1 + 1] /\ m + 1 + 1 = m + 2
      BY <1>1, <2>8
    <3> QED
      BY <1>1, <2>6, <2>7, <2>8, <3>1, <3>2 DEF Leading
  <2>10. \A j \in 2 .. m + 1 : f[j] = "act"
    <3> TAKE j \in 2 .. m + 1
    <3>1. j - 1 \in 1 .. m /\ j - 1 \in 1 .. Len(t) /\ (j - 1) + 1 = j
      BY <1>1, <2>8
    <3>2. t[j - 1] = "act" /\ t[j - 1] = f[(j - 1) + 1]
      BY <1>1, <2>6, <3>1 DEF Leading
    <3> QED
      BY <3>1, <3>2
  <2>11. Neighbors(f, 1, m + 2)
    <3>1. m + 2 - 1 = m + 1 /\ 1 + 1 = 2 /\ 1 < m + 2 /\ 1 \in 1 .. Len(f)
      BY <1>1, <2>8
    <3> QED
      BY <2>9, <2>10, <3>1 DEF Neighbors
  <2>12. f[m + 2] \in Follow(f[1])
    BY <1>1, <2>9, <2>11 DEF InOrder, Neighbors
  <2> QED
    BY <1>0, <1>2, <2>1, <2>2, <2>5, <2>9, <2>12
<1> QED
  BY <1>4, <1>5

\* Rewriting the head of a form makes a form, whose head is nearer to a terminal.
LEMMA RewriteForm ==
  ASSUME NEW f, Form(f), f # <<>>, f[1] # "act", NEW rhs, RuleFits(f[1], rhs)
  PROVE  /\ Form(rhs \o Tail(f))
         /\ rhs \o Tail(f) # <<>>
         /\ Rank(SkipActs(rhs \o Tail(f))[1]) < Rank(f[1])
<1>0. PICK t : t = Tail(f)
  OBVIOUS
<1> DEFINE g == rhs \o t
<1>1. /\ f \in Seq(GrammarSymbols) /\ rhs \in Seq(GrammarSymbols) /\ InOrder(f) /\ InOrder(rhs)
      /\ t \in Seq(GrammarSymbols) /\ Len(t) = Len(f) - 1
      /\ Len(f) \in Nat \ {0} /\ \A k \in 1 .. Len(t) : t[k] = f[k + 1]
  BY <1>0 DEF Form, RuleFits
<1>2. /\ g \in Seq(GrammarSymbols) /\ Len(g) = Len(rhs) + Len(t)
      /\ \A k \in 1 .. Len(rhs) : g[k] = rhs[k]
      /\ \A k \in 1 .. Len(t) : g[k + Len(rhs)] = t[k]
  <2>1. rhs \in Seq(GrammarSymbols) /\ t \in Seq(GrammarSymbols)
    BY <1>1
  <2> QED
    BY ONLY <2>1 DEF g
<1>3. Len(f) \in Nat /\ Len(rhs) \in Nat /\ Len(t) \in Nat
  BY <1>1
<1>10. \A k \in 1 .. Len(t) : f[k + 1] = g[k + Len(rhs)]
  BY <1>1, <1>2
<1>4. SkipActs(g) # <<>>
  BY <1>0, RewriteHead
<1>5. g # <<>>
  BY <1>2, <1>4, SkipActsNone
<1> HIDE DEF g
<1>6. ASSUME NEW j \in 1 .. Len(g), NEW k \in 1 .. Len(g), Neighbors(g, j, k)
      PROVE  g[k] \in Follow(g[j])
  <2>0. /\ j < k /\ g[j] # "act" /\ g[k] # "act"
        /\ \A m \in j + 1 .. k - 1 : g[m] = "act"
    BY <1>6 DEF Neighbors
  <2>1. CASE k <= Len(rhs)
    <3>1. j \in 1 .. Len(rhs) /\ k \in 1 .. Len(rhs) /\ g[j] = rhs[j] /\ g[k] = rhs[k]
      BY <1>2, <1>3, <2>0, <2>1
    <3>2. \A m \in j + 1 .. k - 1 : rhs[m] = "act"
      BY <1>2, <1>3, <2>0, <2>1
    <3>3. Neighbors(rhs, j, k)
      BY <2>0, <3>1, <3>2 DEF Neighbors
    <3> QED
      BY <1>1, <3>1, <3>3 DEF InOrder
  <2>2. CASE j > Len(rhs)
    <3> DEFINE d == Len(rhs) - 1
    <3>1. /\ j - Len(rhs) \in 1 .. Len(t) /\ k - Len(rhs) \in 1 .. Len(t)
          /\ (j - Len(rhs)) + Len(rhs) = j /\ (k - Len(rhs)) + Len(rhs) = k
          /\ (j - Len(rhs)) + 1 = j - d /\ (k - Len(rhs)) + 1 = k - d
      BY <1>2, <1>3, <2>0, <2>2
    <3>2. /\ j - d \in 1 .. Len(f) /\ k - d \in 1 .. Len(f)
          /\ g[j] = f[j - d] /\ g[k] = f[k - d]
      <4>1. /\ f[(j - Len(rhs)) + 1] = g[(j - Len(rhs)) + Len(rhs)]
            /\ f[(k - Len(rhs)) + 1] = g[(k - Len(rhs)) + Len(rhs)]
        BY <1>10, <3>1
      <4>2. j - d \in 1 .. Len(f) /\ k - d \in 1 .. Len(f)
        BY <1>1, <1>3, <3>1
      <4> QED
        BY <3>1, <4>1, <4>2
    <3>3. \A m \in j - d + 1 .. k - d - 1 : f[m] = "act"
      <4> TAKE m \in j - d + 1 .. k - d - 1
      <4>1. /\ m + d \in j + 1 .. k - 1
            /\ m - 1 \in 1 .. Len(t)
            /\ (m - 1) + Len(rhs) = m + d /\ (m - 1) + 1 = m
        BY <1>1, <1>2, <1>3, <2>0, <2>2
      <4>2. f[(m - 1) + 1] = g[(m - 1) + Len(rhs)]
        BY <1>10, <4>1
      <4> QED
        BY <2>0, <4>1, <4>2
    <3>4. Neighbors(f, j - d, k - d)
      BY <1>3, <2>0, <3>2, <3>3 DEF Neighbors
    <3> QED
      BY <1>1, <3>2, <3>4 DEF InOrder
  <2>3. CASE j <= Len(rhs) /\ k > Len(rhs)
    <3>1. j \in 1 .. Len(rhs) /\ g[j] = rhs[j]
      BY <1>2, <1>3, <2>3
    <3>2. \A m \in j + 1 .. Len(rhs) : rhs[m] = "act"
      BY <1>2, <1>3, <2>0, <2>3
    <3>3. IsLast(rhs, j)
      BY <2>0, <3>1, <3>2 DEF IsLast
    <3>4. Follow(f[1]) \subseteq Follow(rhs[j])
      BY <3>1, <3>3 DEF RuleFits
    <3> DEFINE i == k - Len(rhs)
    <3>5. i \in 1 .. Len(t) /\ i + Len(rhs) = k /\ i + 1 \in 1 .. Len(f)
      BY <1>1, <1>2, <1>3, <2>3
    <3>6. g[k] = f[i + 1]
      BY <1>1, <1>2, <3>5
    <3>7. \A m \in 1 + 1 .. i + 1 - 1 : f[m] = "act"
      <4> TAKE m \in 1 + 1 .. i + 1 - 1
      <4>1. /\ m - 1 \in 1 .. Len(t) /\ (m - 1) + 1 = m
            /\ (m - 1) + Len(rhs) \in j + 1 .. k - 1
        BY <1>1, <1>2, <1>3, <2>3, <3>5
      <4>2. f[(m - 1) + 1] = g[(m - 1) + Len(rhs)]
        BY <1>10, <4>1
      <4> QED
        BY <2>0, <4>1, <4>2
    <3>8. 1 \in 1 .. Len(f) /\ 1 < i + 1
      BY <1>1, <1>3, <3>5
    <3>9. Neighbors(f, 1, i + 1)
      BY <2>0, <3>5, <3>6, <3>7, <3>8 DEF Neighbors
    <3>10. f[i + 1] \in Follow(f[1])
      BY <1>1, <3>5, <3>8, <3>9 DEF InOrder
    <3> QED
      BY <3>1, <3>4, <3>6, <3>10
  <2> QED
    BY <1>2, <1>3, <2>1, <2>2, <2>3
<1>7. InOrder(g)
  BY <1>6 DEF InOrder
<1>8. g[Len(g)] = "periodsym"
  <2>1. CASE f = <<"program">>
    <3>1. rhs = <<"block", "periodsym">> /\ t = <<>>
      BY <1>0, <2>1 DEF RuleFits
    <3>2. g = <<"block", "periodsym">>
      BY <3>1 DEF g
    <3> QED
      BY <3>2
  <2>2. CASE f # <<"program">>
    <3>1. f[Len(f)] = "periodsym"
      BY <2>2 DEF Form
    <3>2. Len(t) # 0
      <4> SUFFICES ASSUME Len(t) = 0 PROVE FALSE
        OBVIOUS
      <4>0. Len(f) = 1
        BY <1>1, <1>3
      <4>1. f[1] = "periodsym"
        BY <3>1, <4>0
      <4>2. Rank(f[1]) = 0
        BY <4>1 DEF Rank, TokenTypes
      <4>3. t = <<>>
        BY <1>1
      <4>4. g = rhs
        BY <1>1, <4>3 DEF g
      <4>5. \/ \E k \in 1 .. Len(rhs) : IsFirst(rhs, k)
            \/ \A k \in 1 .. Len(rhs) : rhs[k] = "act"
        BY RewriteHead
      <4>6. CASE \E k \in 1 .. Len(rhs) : IsFirst(rhs, k)
        <5>1. PICK k \in 1 .. Len(rhs) : IsFirst(rhs, k)
          BY <4>6
        <5>2. Rank(rhs[k]) < 0 /\ rhs[k] \in GrammarSymbols /\ rhs[k] # "act"
          BY <1>1, <4>2, <5>1 DEF RuleFits, IsFirst
        <5>3. rhs[k] \in TokenTypes \cup Nonterminals
          BY <5>2 DEF GrammarSymbols
        <5>4. Rank(rhs[k]) \in 0 .. 9
          BY <5>3, Ranks
        <5> QED
          BY <5>2, <5>4
      <4>7. CASE \A k \in 1 .. Len(rhs) : rhs[k] = "act"
        <5>1. \A B \in Follow(f[1]) : Rank(B) < Rank(f[1])
          BY <4>7 DEF RuleFits
        <5>2. "periodsym" \in Follow(f[1])
          BY <4>1 DEF Follow, Statements, Factors, GrammarSymbols, TokenTypes
        <5> QED
          BY <4>1, <4>2, <5>1, <5>2
      <4> QED
        BY <4>5, <4>6, <4>7
    <3>3. Len(t) \in 1 .. Len(t) /\ Len(t) + 1 = Len(f)
      BY <1>1, <1>3, <3>2
    <3>4. g[Len(t) + Len(rhs)] = t[Len(t)] /\ t[Len(t)] = f[Len(t) + 1]
      BY <1>1, <1>2, <3>3
    <3>5. Len(t) + Len(rhs) = Len(g)
      BY <1>2, <1>3
    <3> QED
      BY <3>1, <3>3, <3>4, <3>5
  <2> QED
    BY <2>1, <2>2
<1>9. Rank(SkipActs(g)[1]) < Rank(f[1])
  <2>1. \/ \E k \in 1 .. Len(rhs) : IsFirst(rhs, k) /\ SkipActs(g)[1] = rhs[k]
        \/ /\ \A k \in 1 .. Len(rhs) : rhs[k] = "act"
           /\ SkipActs(g)[1] \in Follow(f[1])
    BY <1>0, RewriteHead DEF g
  <2> QED
    BY <2>1 DEF RuleFits
<1> QED
  BY <1>0, <1>2, <1>5, <1>7, <1>8, <1>9 DEF Form, g

-----------------------------------------------------------------------------
(* Rounds of the recognizer.                                               *)

\* Forms whose heads are at most n rewritings away from a terminal.
RankedForms(n, fs) == \A f \in fs : Reduced(f) /\ (f = <<>> \/ Rank(f[1]) <= n)

LEMMA HeadKinds ==
  ASSUME NEW f, Reduced(f), f # <<>>
  PROVE  /\ f \in Seq(GrammarSymbols) /\ Head(f) = f[1]
         /\ f[1] \in TokenTypes \cup Nonterminals
         /\ Rank(f[1]) \in 0 .. 9
         /\ IsSettled(f) <=> f[1] \in TokenTypes
         /\ IsSettled(f) <=> Rank(f[1]) = 0
<1>1. f \in Seq(GrammarSymbols) /\ f[1] # "act"
  BY DEF Reduced, Form
<1>2. f[1] \in GrammarSymbols /\ Head(f) = f[1]
  BY <1>1
<1>3. f[1] \in TokenTypes \cup Nonterminals
  BY <1>1, <1>2 DEF GrammarSymbols
<1> QED
  BY <1>1, <1>2, <1>3, Ranks DEF IsSettled

LEMMA RoundIs ==
  ASSUME NEW R, NEW fs
  PROVE  Round(R, fs) = UNION {Rewrites(R, f) : f \in fs}
<1>1. CASE \A f \in fs : IsSettled(f)
  BY <1>1 DEF Round, Rewrites
<1>2. CASE ~\A f \in fs : IsSettled(f)
  BY <1>2 DEF Round
<1> QED
  BY <1>1, <1>2

LEMMA RoundOfUnion ==
  ASSUME NEW R, NEW X, NEW h, NEW k, k = [x \in X |-> Round(R, h[x])]
  PROVE  Round(R, UNION {h[x] : x \in X}) = UNION {k[x] : x \in X}
<1>1. \A x \in X : k[x] = UNION {Rewrites(R, f) : f \in h[x]}
  BY RoundIs
<1>2. Round(R, UNION {h[x] : x \in X}) = UNION {Rewrites(R, f) : f \in UNION {h[x] : x \in X}}
  BY RoundIs
<1> QED
  BY <1>1, <1>2

LEMMA NineRounds ==
  ASSUME NEW R, NEW fs
  PROVE  Settled(R, fs) =
           Round(R, Round(R, Round(R, Round(R, Round(R, Round(R, Round(R, Round(R, Round(R,
             {SkipActs(f) : f \in fs})))))))))
BY DEF Settled

\* The settled forms of a set are those of its members.
LEMMA SettledUnion ==
  ASSUME NEW R, NEW fs
  PROVE  Settled(R, fs) = UNION {Settled(R, {f}) : f \in fs}
<1> DEFINE h0 == [f \in fs |-> {SkipActs(g) : g \in {f}}]
           h1 == [f \in fs |-> Round(R, h0[f])]
           h2 == [f \in fs |-> Round(R, h1[f])]
           h3 == [f \in fs |-> Round(R, h2[f])]
           h4 == [f \in fs |-> Round(R, h3[f])]
           h5 == [f \in fs |-> Round(R, h4[f])]
           h6 == [f \in fs |-> Round(R, h5[f])]
           h7 == [f \in fs |-> Round(R, h6[f])]
           h8 == [f \in fs |-> Round(R, h7[f])]
           h9 == [f \in fs |-> Round(R, h8[f])]
           u0 == UNION {h0[f] : f \in fs}
           u1 == UNION {h1[f] : f \in fs}
           u2 == UNION {h2[f] : f \in fs}
           u3 == UNION {h3[f] : f \in fs}
           u4 == UNION {h4[f] : f \in fs}
           u5 == UNION {h5[f] : f \in fs}
           u6 == UNION {h6[f] : f \in fs}
           u7 == UNION {h7[f] : f \in fs}
           u8 == UNION {h8[f] : f \in fs}
           u9 == UNION {h9[f] : f \in fs}
<1>1. h0 = [f \in fs |-> {SkipActs(g) : g \in {f}}] /\ u0 = {SkipActs(f) : f \in fs}
  OBVIOUS
<1> HIDE DEF h0
<1>2. h1 = [f \in fs |-> Round(R, h0[f])]
  OBVIOUS
<1> HIDE DEF h1
<1>3. h2 = [f \in fs |-> Round(R, h1[f])]
  OBVIOUS
<1> HIDE DEF h2
<1>4. h3 = [f \in fs |-> Round(R, h2[f])]
  OBVIOUS
<1> HIDE DEF h3
<1>5. h4 = [f \in fs |-> Round(R, h3[f])]
  OBVIOUS
<1> HIDE DEF h4
<1>6. h5 = [f \in fs |-> Round(R, h4[f])]
  OBVIOUS
<1> HIDE DEF h5
<1>7. h6 = [f \in fs |-> Round(R, h5[f])]
  OBVIOUS
<1> HIDE DEF h6
<1>8. h7 = [f \in fs |-> Round(R, h6[f])]
  OBVIOUS
<1> HIDE DEF h7
<1>9. h8 = [f \in fs |-> Round(R, h7[f])]
  OBVIOUS
<1> HIDE DEF h8
<1>10. h9 = [f \in fs |-> Round(R, h8[f])]
  OBVIOUS
<1> HIDE DEF h9
<1>11. u1 = Round(R, u0)
  BY <1>2, RoundOfUnion
<1>12. u2 = Round(R, u1)
  BY <1>3, RoundOfUnion
<1>13. u3 = Round(R, u2)
  BY <1>4, RoundOfUnion
<1>14. u4 = Round(R, u3)
  BY <1>5, RoundOfUnion
<1>15. u5 = Round(R, u4)
  BY <1>6, RoundOfUnion
<1>16. u6 = Round(R, u5)
  BY <1>7, RoundOfUnion
<1>17. u7 = Round(R, u6)
  BY <1>8, RoundOfUnion
<1>18. u8 = Round(R, u7)
  BY <1>9, RoundOfUnion
<1>19. u9 = Round(R, u8)
  BY <1>10, RoundOfUnion
<1> HIDE DEF u0, u1, u2, u3, u4, u5, u6, u7, u8, u9
<1>20. Settled(R, fs) = u9
  BY ONLY <1>1, <1>11, <1>12, <1>13, <1>14, <1>15, <1>16, <1>17, <1>18, <1>19, NineRounds
<1>21. ASSUME NEW f \in fs
       PROVE  h9[f] = Settled(R, {f})
  <2>0. h0[f] = {SkipActs(g) : g \in {f}}
    BY <1>1
  <2>1. h1[f] = Round(R, h0[f])
    BY <1>2
  <2>2. h2[f] = Round(R, h1[f])
    BY <1>3
  <2>3. h3[f] = Round(R, h2[f])
    BY <1>4
  <2>4. h4[f] = Round(R, h3[f])
    BY <1>5
  <2>5. h5[f] = Round(R, h4[f])
    BY <1>6
  <2>6. h6[f] = Round(R, h5[f])
    BY <1>7
  <2>7. h7[f] = Round(R, h6[f])
    BY <1>8
  <2>8. h8[f] = Round(R, h7[f])
    BY <1>9
  <2>9. h9[f] = Round(R, h8[f])
    BY <1>10
  <2> HIDE DEF h0
  <2>10. Settled(R, {f}) =
           Round(R, Round(R, Round(R, Round(R, Round(R, Round(R, Round(R, Round(R, Round(R,
             {SkipActs(g) : g \in {f}})))))))))
    BY NineRounds
  <2> QED
    BY ONLY <2>0, <2>1, <2>2, <2>3, <2>4, <2>5, <2>6, <2>7, <2>8, <2>9, <2>10
<1>22. \A g : g \in u9 <=> \E f \in fs : g \in h9[f]
  BY DEF u9
<1>23. \A g : g \in u9 <=> \E f \in fs : g \in Settled(R, {f})
  BY <1>21, <1>22
<1> QED
  BY <1>20, <1>23

\* The forms a form is rewritten into.
LEMMA RewritesForm ==
  ASSUME NEW rules \in GrammarRules, NEW f, Reduced(f), f # <<>>, ~IsSettled(f),
         NEW g, g \in Rewrites(RightSides(rules), f)
  PROVE  Reduced(g) /\ g # <<>> /\ Rank(g[1]) < Rank(f[1])
<1>1. f[1] \in Nonterminals /\ Head(f) = f[1] /\ f[1] # "act"
  BY HeadKinds, SymbolKinds
<1>2. PICK rhs \in RightSides(rules)[f[1]] : g = SkipActs(rhs \o Tail(f))
  BY <1>1 DEF Rewrites
<1>3. RuleFits(f[1], rhs)
  BY <1>1, RightSidesAre
<1>4. Form(f)
  BY DEF Reduced
<1>5. /\ Form(rhs \o Tail(f)) /\ rhs \o Tail(f) # <<>>
      /\ Rank(SkipActs(rhs \o Tail(f))[1]) < Rank(f[1])
  BY <1>1, <1>3, <1>4, RewriteForm
<1> QED
  BY <1>2, <1>5, FormSkip

LEMMA RoundRanked ==
  ASSUME NEW rules \in GrammarRules, NEW n \in Nat, NEW fs, RankedForms(n + 1, fs)
  PROVE  RankedForms(n, Round(RightSides(rules), fs))
<1> SUFFICES ASSUME NEW f \in fs, NEW g \in Rewrites(RightSides(rules), f)
             PROVE  Reduced(g) /\ (g = <<>> \/ Rank(g[1]) <= n)
  BY RoundIs DEF RankedForms
<1>1. Reduced(f) /\ (f = <<>> \/ Rank(f[1]) <= n + 1)
  BY DEF RankedForms
<1>2. CASE IsSettled(f)
  <2>1. g = f
    BY <1>2 DEF Rewrites
  <2>2. f # <<>> => Rank(f[1]) = 0
    BY <1>1, <1>2, HeadKinds
  <2> QED
    BY <1>1, <2>1, <2>2
<1>3. CASE ~IsSettled(f)
  <2>1. f # <<>>
    BY <1>3 DEF IsSettled
  <2>2. Reduced(g) /\ g # <<>> /\ Rank(g[1]) < Rank(f[1])
    BY <1>1, <1>3, <2>1, RewritesForm
  <2>3. Rank(f[1]) \in 0 .. 9 /\ Rank(g[1]) \in 0 .. 9
    BY <1>1, <2>1, <2>2, HeadKinds
  <2> QED
    BY <1>1, <2>1, <2>2, <2>3
<1> QED
  BY <1>2, <1>3

LEMMA RoundNonempty ==
  ASSUME NEW rules \in GrammarRules, NEW n, NEW fs, RankedForms(n, fs), fs # {}
  PROVE  Round(RightSides(rules), fs) # {}
<1>1. PICK f \in fs : TRUE
  OBVIOUS
<1>2. Reduced(f)
  BY DEF RankedForms
<1>3. Rewrites(RightSides(rules), f) # {}
  <2>1. CASE IsSettled(f)
    BY <2>1 DEF Rewrites
  <2>2. CASE ~IsSettled(f)
    <3>1. f # <<>>
      BY <2>2 DEF IsSettled
    <3>2. Head(f) \in Nonterminals
      BY <1>2, <2>2, <3>1, HeadKinds
    <3>3. RightSides(rules)[Head(f)] # {}
      BY <3>2, RightSidesAre
    <3> QED
      BY <2>2, <3>3 DEF Rewrites
  <2> QED
    BY <2>1, <2>2
<1> QED
  BY <1>1, <1>3, RoundIs

LEMMA RoundStays ==
  ASSUME NEW R, NEW fs, RankedForms(0, fs)
  PROVE  Round(R, fs) = fs /\ \A f \in fs : IsSettled(f)
<1>1. ASSUME NEW f \in fs
      PROVE  IsSettled(f)
  <2>1. Reduced(f) /\ (f = <<>> \/ Rank(f[1]) <= 0)
    BY DEF RankedForms
  <2>2. f # <<>> => Rank(f[1]) \in 0 .. 9 /\ (IsSettled(f) <=> Rank(f[1]) = 0)
    BY <2>1, HeadKinds
  <2>3. f = <<>> => IsSettled(f)
    BY DEF IsSettled
  <2> QED
    BY <2>1, <2>2, <2>3
<1> QED
  BY <1>1 DEF Round

LEMMA FormsRanked ==
  ASSUME NEW fs, \A f \in fs : Form(f)
  PROVE  RankedForms(8 + 1, {SkipActs(f) : f \in fs})
<1> SUFFICES ASSUME NEW f \in fs
             PROVE  Reduced(SkipActs(f)) /\ (SkipActs(f) = <<>> \/ Rank(SkipActs(f)[1]) <= 8 + 1)
  BY DEF RankedForms
<1>1. Reduced(SkipActs(f))
  BY FormSkip
<1>2. SkipActs(f) # <<>> => Rank(SkipActs(f)[1]) \in 0 .. 9
  BY <1>1, HeadKinds
<1> QED
  BY <1>1, <1>2

\* Nine rounds leave no nonterminal at the head of a form.
LEMMA SettledForms ==
  ASSUME NEW rules \in GrammarRules, NEW fs, \A f \in fs : Form(f)
  PROVE  /\ RankedForms(0, Settled(RightSides(rules), fs))
         /\ \A g \in Settled(RightSides(rules), fs) : Reduced(g) /\ IsSettled(g)
         /\ fs # {} => Settled(RightSides(rules), fs) # {}
<1> DEFINE R == RightSides(rules)
           x0 == {SkipActs(f) : f \in fs}
           x1 == Round(R, x0)
           x2 == Round(R, x1)
           x3 == Round(R, x2)
           x4 == Round(R, x3)
           x5 == Round(R, x4)
           x6 == Round(R, x5)
           x7 == Round(R, x6)
           x8 == Round(R, x7)
           x9 == Round(R, x8)
<1>0. R = RightSides(rules) /\ x0 = {SkipActs(f) : f \in fs} /\ (fs # {} => x0 # {})
  OBVIOUS
<1> HIDE DEF R, x0
<1>1. x1 = Round(R, x0)
  OBVIOUS
<1> HIDE DEF x1
<1>2. x2 = Round(R, x1)
  OBVIOUS
<1> HIDE DEF x2
<1>3. x3 = Round(R, x2)
  OBVIOUS
<1> HIDE DEF x3
<1>4. x4 = Round(R, x3)
  OBVIOUS
<1> HIDE DEF x4
<1>5. x5 = Round(R, x4)
  OBVIOUS
<1> HIDE DEF x5
<1>6. x6 = Round(R, x5)
  OBVIOUS
<1> HIDE DEF x6
<1>7. x7 = Round(R, x6)
  OBVIOUS
<1> HIDE DEF x7
<1>8. x8 = Round(R, x7)
  OBVIOUS
<1> HIDE DEF x8
<1>9. x9 = Round(R, x8)
  OBVIOUS
<1> HIDE DEF x9
<1>11. x9 = Settled(R, fs)
  BY ONLY <1>0, <1>1, <1>2, <1>3, <1>4, <1>5, <1>6, <1>7, <1>8, <1>9, NineRounds
<1>20. /\ 9 = 8 + 1 /\ 8 = 7 + 1 /\ 7 = 6 + 1 /\ 6 = 5 + 1 /\ 5 = 4 + 1 /\ 4 = 3 + 1
       /\ 3 = 2 + 1 /\ 2 = 1 + 1 /\ 1 = 0 + 1
  OBVIOUS
<1>21. RankedForms(9, x0) /\ (fs # {} => x0 # {})
  BY <1>0, <1>20, FormsRanked
<1>22. RankedForms(8, x1) /\ (fs # {} => x1 # {})
  BY <1>0, <1>1, <1>20, <1>21, RoundRanked, RoundNonempty
<1>23. RankedForms(7, x2) /\ (fs # {} => x2 # {})
  BY <1>0, <1>2, <1>20, <1>22, RoundRanked, RoundNonempty
<1>24. RankedForms(6, x3) /\ (fs # {} => x3 # {})
  BY <1>0, <1>3, <1>20, <1>23, RoundRanked, RoundNonempty
<1>25. RankedForms(5, x4) /\ (fs # {} => x4 # {})
  BY <1>0, <1>4, <1>20, <1>24, RoundRanked, RoundNonempty
<1>26. RankedForms(4, x5) /\ (fs # {} => x5 # {})
  BY <1>0, <1>5, <1>20, <1>25, RoundRanked, RoundNonempty
<1>27. RankedForms(3, x6) /\ (fs # {} => x6 # {})
  BY <1>0, <1>6, <1>20, <1>26, RoundRanked, RoundNonempty
<1>28. RankedForms(2, x7) /\ (fs # {} => x7 # {})
  BY <1>0, <1>7, <1>20, <1>27, RoundRanked, RoundNonempty
<1>29. RankedForms(1, x8) /\ (fs # {} => x8 # {})
  BY <1>0, <1>8, <1>20, <1>28, RoundRanked, RoundNonempty
<1>30. RankedForms(0, x9) /\ (fs # {} => x9 # {})
  BY <1>0, <1>9, <1>20, <1>29, RoundRanked, RoundNonempty
<1>31. \A g \in x9 : Reduced(g) /\ IsSettled(g)
  BY <1>30, RoundStays DEF RankedForms
<1> QED
  BY <1>0, <1>11, <1>30, <1>31

\* One round more or less makes no difference.
LEMMA SettledStep ==
  ASSUME NEW rules \in GrammarRules, NEW fs, \A f \in fs : Form(f),
         NEW gs, Round(RightSides(rules), {SkipActs(f) : f \in fs}) = {SkipActs(g) : g \in gs}
  PROVE  Settled(RightSides(rules), gs) = Settled(RightSides(rules), fs)
<1> DEFINE R == RightSides(rules)
           x == {SkipActs(f) : f \in fs}
<1>0. R = RightSides(rules)
  OBVIOUS
<1>1. x = {SkipActs(f) : f \in fs}
  OBVIOUS
<1> HIDE DEF R, x
<1>2. Settled(R, fs) =
        Round(R, Round(R, Round(R, Round(R, Round(R, Round(R, Round(R, Round(R, Round(R, x)))))))))
  BY <1>1, NineRounds
<1>3. Settled(R, gs) =
        Round(R, Round(R, Round(R, Round(R, Round(R, Round(R, Round(R, Round(R, Round(R,
          Round(R, x))))))))))
  BY <1>0, <1>1, NineRounds
<1>4. Settled(R, gs) = Round(R, Settled(R, fs))
  BY ONLY <1>2, <1>3
<1>5. RankedForms(0, Settled(R, fs))
  BY <1>0, SettledForms
<1>6. Round(R, Settled(R, fs)) = Settled(R, fs)
  BY <1>5, RoundStays
<1> QED
  BY <1>0, <1>4, <1>6

-----------------------------------------------------------------------------
(* The settled forms of a form, by the symbol at its head.                 *)

LEMMA SettledSkip ==
  ASSUME NEW R, NEW f, NEW S, f \in Seq(S)
  PROVE  Settled(R, {SkipActs(f)}) = Settled(R, {f})
<1> DEFINE x == {SkipActs(g) : g \in {f}}
           y == {SkipActs(g) : g \in {SkipActs(f)}}
<1>1. x = y
  BY SkipActsTwice
<1>2. Settled(R, {f}) =
        Round(R, Round(R, Round(R, Round(R, Round(R, Round(R, Round(R, Round(R, Round(R, x)))))))))
  BY NineRounds
<1>3. Settled(R, {SkipActs(f)}) =
        Round(R, Round(R, Round(R, Round(R, Round(R, Round(R, Round(R, Round(R, Round(R, y)))))))))
  BY NineRounds
<1> HIDE DEF x, y
<1> QED
  BY ONLY <1>1, <1>2, <1>3

LEMMA SettledAct ==
  ASSUME NEW R, NEW f, NEW S, f \in Seq(S), f # <<>>, f[1] = "act"
  PROVE  Settled(R, {Tail(f)}) = Settled(R, {f})
<1>1. Tail(f) \in Seq(S) /\ SkipActs(Tail(f)) = SkipActs(f)
  BY SkipActsTail
<1>2. Settled(R, {SkipActs(Tail(f))}) = Settled(R, {Tail(f)})
  BY <1>1, SettledSkip
<1>3. Settled(R, {SkipActs(f)}) = Settled(R, {f})
  BY SettledSkip
<1> QED
  BY <1>1, <1>2, <1>3

LEMMA SettledSettled ==
  ASSUME NEW R, NEW f, Form(f), IsSettled(f)
  PROVE  Settled(R, {f}) = {f}
<1>1. f \in Seq(GrammarSymbols) /\ (f = <<>> \/ f[1] \in TokenTypes)
  BY DEF Form, IsSettled
<1>2. f = <<>> \/ f[1] # "act"
  BY <1>1, SymbolKinds
<1>3. SkipActs(f) = f /\ Reduced(f)
  BY <1>1, <1>2, SkipActsNone DEF Reduced
<1>4. RankedForms(0, {f})
  <2>1. f # <<>> => Rank(f[1]) = 0
    BY <1>3, HeadKinds
  <2> QED
    BY <1>3, <2>1 DEF RankedForms
<1>5. Round(R, {f}) = {f}
  BY <1>4, RoundStays
<1>6. {SkipActs(g) : g \in {f}} = {f}
  BY <1>3
<1> QED
  BY <1>5, <1>6, NineRounds

\* An open head stands for each of its right-hand sides.
LEMMA SettledOpen ==
  ASSUME NEW rules \in GrammarRules, NEW f, Form(f), f # <<>>, f[1] \in Nonterminals
  PROVE  \A g : g \in Settled(RightSides(rules), {f})
                  <=> \E rhs \in RightSides(rules)[f[1]] :
                         g \in Settled(RightSides(rules), {rhs \o Tail(f)})
<1> DEFINE R == RightSides(rules)
           gs == {rhs \o Tail(f) : rhs \in R[f[1]]}
<1>1. f \in Seq(GrammarSymbols) /\ f[1] # "act" /\ Head(f) = f[1]
  BY SymbolKinds DEF Form
<1>2. SkipActs(f) = f /\ ~IsSettled(f)
  BY <1>1, SkipActsNone, SymbolKinds DEF IsSettled
<1>3. {SkipActs(h) : h \in {f}} = {f}
  BY <1>2
<1>4. Round(R, {f}) = {SkipActs(g) : g \in gs}
  <2>1. Round(R, {f}) = Rewrites(R, f)
    BY RoundIs
  <2>2. Rewrites(R, f) = {SkipActs(rhs \o Tail(f)) : rhs \in R[f[1]]}
    BY <1>1, <1>2 DEF Rewrites
  <2> QED
    BY <2>1, <2>2
<1>5. Round(R, {SkipActs(h) : h \in {f}}) = {SkipActs(g) : g \in gs}
  BY <1>3, <1>4
<1>6. Settled(R, gs) = Settled(R, {f})
  <2> HIDE DEF gs
  <2>1. \A h \in {f} : Form(h)
    OBVIOUS
  <2> QED
    BY ONLY rules \in GrammarRules, <1>5, <2>1, SettledStep DEF R
<1>7. Settled(R, gs) = UNION {Settled(R, {g}) : g \in gs}
  <2> HIDE DEF R, gs
  <2> QED
    BY SettledUnion
<1>8. \A g : g \in Settled(R, {f}) <=> \E h \in gs : g \in Settled(R, {h})
  <2> HIDE DEF R, gs
  <2>1. Settled(R, {f}) = UNION {Settled(R, {g}) : g \in gs}
    BY ONLY <1>6, <1>7
  <2>2. \A g : g \in UNION {Settled(R, {h}) : h \in gs} <=> \E h \in gs : g \in Settled(R, {h})
    OBVIOUS
  <2> QED
    BY ONLY <2>1, <2>2
<1>9. \A h : h \in gs <=> \E rhs \in R[f[1]] : h = rhs \o Tail(f)
  OBVIOUS
<1> HIDE DEF gs
<1> QED
  BY <1>8, <1>9

-----------------------------------------------------------------------------
(* In the documented grammar the first terminal of a settled form is one   *)
(* that the head it comes from may start with.                             *)

Within(fs, T) == \A f \in fs : f # <<>> /\ Starts(f[1]) \subseteq T

LEMMA TerminalStarts ==
  ASSUME NEW c \in TokenTypes
  PROVE  Starts(c) = {c}
BY DEF Starts, TokenTypes

LEMMA RoundWithin ==
  ASSUME NEW n, NEW fs, RankedForms(n, fs), NEW T, Within(fs, T)
  PROVE  Within(Round(RightSides(DocumentedRules), fs), T)
<1> SUFFICES ASSUME NEW f \in fs, NEW g \in Rewrites(RightSides(DocumentedRules), f)
             PROVE  g # <<>> /\ Starts(g[1]) \subseteq T
  BY RoundIs DEF Within
<1>1. Reduced(f) /\ f # <<>> /\ Starts(f[1]) \subseteq T
  BY DEF RankedForms, Within
<1>2. CASE IsSettled(f)
  BY <1>1, <1>2 DEF Rewrites
<1>3. CASE ~IsSettled(f)
  <2>0. DocumentedRules \in GrammarRules
    BY DEF GrammarRules
  <2>1. f[1] \in Nonterminals /\ Head(f) = f[1] /\ f[1] # "act"
    BY <1>1, <1>3, HeadKinds, SymbolKinds
  <2>2. PICK rhs \in RightSides(DocumentedRules)[f[1]] : g = SkipActs(rhs \o Tail(f))
    BY <1>3, <2>1 DEF Rewrites
  <2>3. PICK rule \in DocumentedRules : rule[1] = f[1] /\ rule[2] = rhs
    BY <2>0, <2>1, RightSidesAre
  <2>4. RuleFits(f[1], rhs) /\ RuleStarts(f[1], rhs)
    BY <2>1, <2>3, DocumentedFits DEF FitsGrammar
  <2>5. Form(f)
    BY <1>1 DEF Reduced
  <2>6. /\ g # <<>>
        /\ \/ \E k \in 1 .. Len(rhs) : IsFirst(rhs, k) /\ g[1] = rhs[k]
           \/ /\ \A k \in 1 .. Len(rhs) : rhs[k] = "act"
              /\ g[1] \in Follow(f[1])
    BY <1>1, <2>1, <2>2, <2>4, <2>5, RewriteHead
  <2>7. Starts(g[1]) \subseteq Starts(f[1])
    BY <2>4, <2>6 DEF RuleStarts
  <2> QED
    BY <1>1, <2>6, <2>7
<1> QED
  BY <1>2, <1>3

LEMMA SettledStarts ==
  ASSUME NEW f, Form(f), f # <<>>, NEW g \in Settled(DocumentedRightSides, {f})
  PROVE  /\ g # <<>> /\ Form(g) /\ g[1] \in TokenTypes
         /\ g[1] \in Starts(SkipActs(f)[1])
<1> DEFINE R == RightSides(DocumentedRules)
           T == Starts(SkipActs(f)[1])
           x0 == {SkipActs(h) : h \in {f}}
           x1 == Round(R, x0)
           x2 == Round(R, x1)
           x3 == Round(R, x2)
           x4 == Round(R, x3)
           x5 == Round(R, x4)
           x6 == Round(R, x5)
           x7 == Round(R, x6)
           x8 == Round(R, x7)
           x9 == Round(R, x8)
<1>0. R = RightSides(DocumentedRules) /\ x0 = {SkipActs(h) : h \in {f}}
  OBVIOUS
<1>20. DocumentedRules \in GrammarRules
  BY DEF GrammarRules
<1>21. Reduced(SkipActs(f)) /\ SkipActs(f) # <<>>
  BY FormSkip
<1>30. RankedForms(9, x0) /\ Within(x0, T)
  <2>1. \A h \in {f} : Form(h)
    OBVIOUS
  <2>2. RankedForms(8 + 1, x0)
    <3> HIDE DEF x0
    <3> QED
      BY ONLY <1>0, <2>1, FormsRanked
  <2>3. Within(x0, T)
    BY <1>21 DEF Within
  <2> QED
    BY <2>2, <2>3
<1> HIDE DEF R, x0, T
<1>22. /\ 9 = 8 + 1 /\ 8 = 7 + 1 /\ 7 = 6 + 1 /\ 6 = 5 + 1 /\ 5 = 4 + 1 /\ 4 = 3 + 1
       /\ 3 = 2 + 1 /\ 2 = 1 + 1 /\ 1 = 0 + 1
  OBVIOUS
<1>1. x1 = Round(R, x0)
  OBVIOUS
<1> HIDE DEF x1
<1>31. RankedForms(8, x1) /\ Within(x1, T)
  BY <1>0, <1>1, <1>20, <1>22, <1>30, RoundRanked, RoundWithin
<1>2. x2 = Round(R, x1)
  OBVIOUS
<1> HIDE DEF x2
<1>32. RankedForms(7, x2) /\ Within(x2, T)
  BY <1>0, <1>2, <1>20, <1>22, <1>31, RoundRanked, RoundWithin
<1>3. x3 = Round(R, x2)
  OBVIOUS
<1> HIDE DEF x3
<1>33. RankedForms(6, x3) /\ Within(x3, T)
  BY <1>0, <1>3, <1>20, <1>22, <1>32, RoundRanked, RoundWithin
<1>4. x4 = Round(R, x3)
  OBVIOUS
<1> HIDE DEF x4
<1>34. RankedForms(5, x4) /\ Within(x4, T)
  BY <1>0, <1>4, <1>20, <1>22, <1>33, RoundRanked, RoundWithin
<1>5. x5 = Round(R, x4)
  OBVIOUS
<1> HIDE DEF x5
<1>35. RankedForms(4, x5) /\ Within(x5, T)
  BY <1>0, <1>5, <1>20, <1>22, <1>34, RoundRanked, RoundWithin
<1>6. x6 = Round(R, x5)
  OBVIOUS
<1> HIDE DEF x6
<1>36. RankedForms(3, x6) /\ Within(x6, T)
  BY <1>0, <1>6, <1>20, <1>22, <1>35, RoundRanked, RoundWithin
<1>7. x7 = Round(R, x6)
  OBVIOUS
<1> HIDE DEF x7
<1>37. RankedForms(2, x7) /\ Within(x7, T)
  BY <1>0, <1>7, <1>20, <1>22, <1>36, RoundRanked, RoundWithin
<1>8. x8 = Round(R, x7)
  OBVIOUS
<1> HIDE DEF x8
<1>38. RankedForms(1, x8) /\ Within(x8, T)
  BY <1>0, <1>8, <1>20, <1>22, <1>37, RoundRanked, RoundWithin
<1>9. x9 = Round(R, x8)
  OBVIOUS
<1> HIDE DEF x9
<1>39. RankedForms(0, x9) /\ Within(x9, T)
  BY <1>0, <1>9, <1>20, <1>22, <1>38, RoundRanked, RoundWithin
<1>11. x9 = Settled(R, {f})
  BY ONLY <1>0, <1>1, <1>2, <1>3, <1>4, <1>5, <1>6, <1>7, <1>8, <1>9, NineRounds
<1>12. g \in x9
  BY <1>0, <1>11 DEF DocumentedRightSides
<1>13. Reduced(g) /\ g # <<>> /\ Starts(g[1]) \subseteq T /\ Rank(g[1]) <= 0
  BY <1>12, <1>39 DEF RankedForms, Within
<1>14. g[1] \in TokenTypes
  BY <1>13, HeadKinds
<1> QED
  BY <1>13, <1>14, TerminalStarts DEF Reduced, T


-----------------------------------------------------------------------------
(* What is left after a word.                                              *)

\* The forms left by forms once c has been derived.
Shift(rightSides, forms, c) ==
  Settled(rightSides, {Tail(f) : f \in {g \in forms : g # <<>> /\ g[1] = c}})

\* after[i] are the settled forms left after the first i terminals of w.
Left(rightSides, w, n, after) ==
  after = [i \in 0 .. n |-> IF i = 0 THEN Settled(rightSides, {<<"program">>})
                            ELSE Shift(rightSides, after[i - 1], w[i])]

LEMMA LeftExists ==
  ASSUME NEW R, NEW w, NEW n \in Nat
  PROVE  \E after : Left(R, w, n, after)
<1> DEFINE P == {k \in 0 .. n : \E after : Left(R, w, k, after)}
<1>1. 0 \in P
  <2> DEFINE h == [i \in 0 .. 0 |-> Settled(R, {<<"program">>})]
  <2>1. Left(R, w, 0, h)
    BY DEF Left
  <2> HIDE DEF h
  <2> QED
    BY <2>1
<1>2. ASSUME NEW k \in 0 .. n - 1, k \in P
      PROVE  k + 1 \in P
  <2>1. PICK h : Left(R, w, k, h)
    BY <1>2
  <2> DEFINE g == [i \in 0 .. k + 1 |-> IF i <= k THEN h[i] ELSE Shift(R, h[k], w[k + 1])]
  <2>2. g = [i \in 0 .. k + 1 |-> IF i = 0 THEN Settled(R, {<<"program">>})
                                  ELSE Shift(R, g[i - 1], w[i])]
    <3>1. ASSUME NEW i \in 0 .. k + 1
          PROVE  g[i] = IF i = 0 THEN Settled(R, {<<"program">>}) ELSE Shift(R, g[i - 1], w[i])
      <4>1. CASE i <= k
        <5>1. i \in 0 .. k /\ g[i] = h[i] /\ (i # 0 => i - 1 \in 0 .. k + 1 /\ g[i - 1] = h[i - 1])
          BY <4>1
        <5>2. h[i] = IF i = 0 THEN Settled(R, {<<"program">>}) ELSE Shift(R, h[i - 1], w[i])
          BY <2>1, <5>1 DEF Left
        <5> HIDE DEF g
        <5> QED
          BY <5>1, <5>2
      <4>2. CASE i = k + 1
        <5>1. i # 0 /\ i - 1 = k /\ g[i] = Shift(R, h[k], w[k + 1]) /\ g[k] = h[k]
          BY <4>2
        <5> HIDE DEF g
        <5> QED
          BY <4>2, <5>1
      <4> QED
        BY <4>1, <4>2
    <3>2. g = [i \in 0 .. k + 1 |-> g[i]]
      OBVIOUS
    <3> HIDE DEF g
    <3> QED
      BY <3>1, <3>2
  <2>3. Left(R, w, k + 1, g)
    <3> HIDE DEF g
    <3> QED
      BY <2>2 DEF Left
  <2> HIDE DEF g
  <2> QED
    BY <1>2, <2>3
<1>3. \A k \in 0 .. n : k \in P
  <2> HIDE DEF P
  <2> QED
    BY ONLY n \in Nat, <1>1, <1>2, Upward
<1> QED
  BY <1>3

\* The recognizer computes such a sequence.
LEMMA FormsAfterIs ==
  ASSUME NEW R, NEW w, Len(w) \in Nat
  PROVE  \E after : Left(R, w, Len(w), after) /\ FormsAfter(R, w) = after[Len(w)]
<1> DEFINE chosen == CHOOSE after : Left(R, w, Len(w), after)
<1>1. \E after : Left(R, w, Len(w), after)
  BY LeftExists
<1>2. Left(R, w, Len(w), chosen)
  BY <1>1
<1>3. FormsAfter(R, w) = chosen[Len(w)]
  BY DEF FormsAfter, Left, Shift
<1> HIDE DEF chosen
<1> QED
  BY <1>2, <1>3

LEMMA LeftUnique ==
  ASSUME NEW R, NEW v, NEW w, NEW m \in Nat, NEW n \in Nat, m <= n,
         \A k \in 1 .. m : v[k] = w[k],
         NEW g, Left(R, v, m, g), NEW h, Left(R, w, n, h)
  PROVE  g[m] = h[m]
<1> DEFINE P == {k \in 0 .. m : g[k] = h[k]}
<1>1. 0 \in P
  BY DEF Left
<1>2. ASSUME NEW k \in 0 .. m - 1, k \in P
      PROVE  k + 1 \in P
  <2>1. /\ k + 1 \in 0 .. m /\ k + 1 \in 0 .. n /\ k + 1 # 0 /\ (k + 1) - 1 = k
        /\ v[k + 1] = w[k + 1]
    OBVIOUS
  <2>2. g[k + 1] = Shift(R, g[(k + 1) - 1], v[k + 1])
    BY <2>1 DEF Left
  <2>3. h[k + 1] = Shift(R, h[(k + 1) - 1], w[k + 1])
    BY <2>1 DEF Left
  <2> QED
    BY <1>2, <2>1, <2>2, <2>3
<1>3. \A k \in 0 .. m : k \in P
  <2> HIDE DEF P
  <2> QED
    BY ONLY m \in Nat, <1>1, <1>2, Upward
<1> QED
  BY <1>3

LEMMA FormsAfterNothing ==
  ASSUME NEW R
  PROVE  FormsAfter(R, <<>>) = Settled(R, {<<"program">>})
<1>1. PICK after : Left(R, <<>>, 0, after) /\ FormsAfter(R, <<>>) = after[0]
  BY FormsAfterIs
<1> QED
  BY <1>1 DEF Left

LEMMA FormsAfterAppend ==
  ASSUME NEW R, NEW S, NEW w \in Seq(S), NEW c \in S
  PROVE  FormsAfter(R, Append(w, c)) = Shift(R, FormsAfter(R, w), c)
<1> DEFINE u == Append(w, c)
<1>1. /\ Len(w) \in Nat /\ Len(u) = Len(w) + 1 /\ u[Len(w) + 1] = c
      /\ \A k \in 1 .. Len(w) : w[k] = u[k]
  OBVIOUS
<1> HIDE DEF u
<1>2. PICK g : Left(R, w, Len(w), g) /\ FormsAfter(R, w) = g[Len(w)]
  BY <1>1, FormsAfterIs
<1>3. Len(u) \in Nat
  BY <1>1
<1>4. PICK h : Left(R, u, Len(u), h) /\ FormsAfter(R, u) = h[Len(u)]
  BY <1>3, FormsAfterIs
<1>5. g[Len(w)] = h[Len(w)]
  <2>1. Len(w) <= Len(u)
    BY <1>1
  <2> QED
    BY <1>1, <1>2, <1>3, <1>4, <2>1, LeftUnique
<1>6. h[Len(w) + 1] = Shift(R, h[(Len(w) + 1) - 1], u[Len(w) + 1])
  <2>1. Len(w) + 1 \in 0 .. Len(u) /\ Len(w) + 1 # 0
    BY <1>1
  <2> QED
    BY <1>4, <2>1 DEF Left
<1>7. (Len(w) + 1) - 1 = Len(w)
  BY <1>1
<1> QED
  BY <1>1, <1>2, <1>4, <1>5, <1>6, <1>7 DEF u

LEMMA ShiftIs ==
  ASSUME NEW R, NEW fs, NEW c
  PROVE  \A x : x \in Shift(R, fs, c)
                <=> \E g \in fs : g # <<>> /\ g[1] = c /\ x \in Settled(R, {Tail(g)})
<1> DEFINE ts == {Tail(f) : f \in {g \in fs : g # <<>> /\ g[1] = c}}
<1>1. \A t : t \in ts <=> \E g \in fs : g # <<>> /\ g[1] = c /\ t = Tail(g)
  OBVIOUS
<1>2. Shift(R, fs, c) = Settled(R, ts)
  BY DEF Shift
<1> HIDE DEF ts
<1>3. Settled(R, ts) = UNION {Settled(R, {t}) : t \in ts}
  BY SettledUnion
<1>4. \A x : x \in Shift(R, fs, c) <=> \E t \in ts : x \in Settled(R, {t})
  <2>1. \A x : x \in UNION {Settled(R, {t}) : t \in ts} <=> \E t \in ts : x \in Settled(R, {t})
    OBVIOUS
  <2> QED
    BY ONLY <1>2, <1>3, <2>1
<1> QED
  BY <1>1, <1>4

\* The beginning of a word that can go on can go on.
LEMMA BeginningsGoOn ==
  ASSUME NEW R, NEW v, NEW w, Len(v) \in Nat, Len(w) \in Nat, Len(v) <= Len(w),
         \A k \in 1 .. Len(v) : v[k] = w[k], ViablePrefix(R, w)
  PROVE  ViablePrefix(R, v)
<1>1. PICK g : Left(R, v, Len(v), g) /\ FormsAfter(R, v) = g[Len(v)]
  BY FormsAfterIs
<1>2. PICK h : Left(R, w, Len(w), h) /\ FormsAfter(R, w) = h[Len(w)]
  BY FormsAfterIs
<1>3. g[Len(v)] = h[Len(v)]
  BY <1>1, <1>2, LeftUnique
<1>4. SUFFICES ASSUME h[Len(v)] = {} PROVE FALSE
  BY <1>1, <1>3 DEF ViablePrefix
<1>5. PICK m \in Nat, n \in Nat : m = Len(v) /\ n = Len(w) /\ m <= n
  OBVIOUS
<1> DEFINE P == {k \in 0 .. n - m : h[m + k] = {}}
<1>6. 0 \in P
  BY <1>4, <1>5
<1>7. ASSUME NEW k \in 0 .. n - m - 1, k \in P
      PROVE  k + 1 \in P
  <2>1. h[m + k] = {}
    BY <1>7
  <2>2. /\ m + k + 1 \in 0 .. n /\ m + k + 1 # 0 /\ (m + k + 1) - 1 = m + k
        /\ m + (k + 1) = m + k + 1 /\ k + 1 \in 0 .. n - m
    BY <1>5, <1>7
  <2>3. h[m + k + 1] = Shift(R, h[(m + k + 1) - 1], w[m + k + 1])
    BY <1>2, <1>5, <2>2 DEF Left
  <2>4. Shift(R, {}, w[m + k + 1]) = {}
    <3>1. PICK fs, c : fs = {} /\ c = w[m + k + 1]
      OBVIOUS
    <3>2. \A x : x \in Shift(R, fs, c)
                  <=> \E f \in fs : f # <<>> /\ f[1] = c /\ x \in Settled(R, {Tail(f)})
      BY ShiftIs
    <3>3. \A x : x \notin Shift(R, fs, c)
      BY <3>1, <3>2
    <3> QED
      BY <3>1, <3>3
  <2> QED
    BY <2>1, <2>2, <2>3, <2>4
<1>8. n - m \in Nat /\ m + (n - m) = n
  BY <1>5
<1>9. \A k \in 0 .. n - m : k \in P
  <2> HIDE DEF P
  <2> QED
    BY <1>6, <1>7, <1>8, Upward
<1>10. h[n] = {}
  BY <1>8, <1>9
<1> QED
  BY <1>2, <1>5, <1>10 DEF ViablePrefix

-----------------------------------------------------------------------------
(* One token of lookahead.                                                 *)

\* The terminals that announce the alternative rhs of A.
Predict(A, rhs) == IF rhs = <<>> THEN UNION {Starts(B) : B \in Follow(A)} ELSE Starts(rhs[1])

\* c announces no alternative of A but rhs.
Chosen(A, rhs, c) ==
  \A rule \in DocumentedRules : rule[1] = A /\ rule[2] # rhs => c \notin Predict(A, rule[2])

\* Taking rhs for A where c is the next token gives up nothing.
KeepsWays(A, rhs, c) ==
  \A f : Form(f) /\ f # <<>> /\ f[1] = A =>
    \A g \in Settled(DocumentedRightSides, {f}) :
      g = <<>> \/ g[1] = c => g \in Settled(DocumentedRightSides, {rhs \o Tail(f)})

Justified(A, rhs, c) ==
  A \in Nonterminals /\ <<A, rhs>> \in RelaxedRules /\ KeepsWays(A, rhs, c)

\* The settled forms of a rewriting start as it predicts.
LEMMA Predicted ==
  ASSUME NEW f, Form(f), f # <<>>, f[1] \in Nonterminals,
         NEW rule \in DocumentedRules, rule[1] = f[1],
         NEW g \in Settled(DocumentedRightSides, {rule[2] \o Tail(f)})
  PROVE  g # <<>> /\ g[1] \in Predict(f[1], rule[2])
<1>1. f[1] # "act"
  BY SymbolKinds
<1>2. RuleFits(f[1], rule[2])
  BY <1>1, DocumentedFits DEF FitsGrammar
<1>3. Form(rule[2] \o Tail(f)) /\ rule[2] \o Tail(f) # <<>>
  BY <1>1, <1>2, RewriteForm
<1>4. g # <<>> /\ g[1] \in Starts(SkipActs(rule[2] \o Tail(f))[1])
  BY <1>3, SettledStarts
<1>5. \/ \E k \in 1 .. Len(rule[2]) : /\ IsFirst(rule[2], k)
                                      /\ SkipActs(rule[2] \o Tail(f))[1] = rule[2][k]
      \/ /\ \A k \in 1 .. Len(rule[2]) : rule[2][k] = "act"
         /\ SkipActs(rule[2] \o Tail(f))[1] \in Follow(f[1])
  BY <1>1, <1>2, RewriteHead
<1>6. rule[2] \in Seq(GrammarSymbols) /\ (rule[2] # <<>> => rule[2][1] # "act")
  BY <1>2 DEF RuleFits
<1>7. CASE rule[2] = <<>>
  <2>1. \A k \in 1 .. Len(rule[2]) : FALSE
    BY <1>7
  <2>2. SkipActs(rule[2] \o Tail(f))[1] \in Follow(f[1])
    BY <1>5, <2>1
  <2> QED
    BY <1>4, <1>7, <2>2 DEF Predict
<1>8. CASE rule[2] # <<>>
  <2>1. 1 \in 1 .. Len(rule[2]) /\ rule[2][1] # "act"
    BY <1>6, <1>8
  <2>2. PICK k \in 1 .. Len(rule[2]) : /\ IsFirst(rule[2], k)
                                       /\ SkipActs(rule[2] \o Tail(f))[1] = rule[2][k]
    BY <1>5, <2>1
  <2>3. k = 1
    BY <2>1, <2>2 DEF IsFirst
  <2> QED
    BY <1>4, <1>8, <2>2, <2>3 DEF Predict
<1> QED
  BY <1>7, <1>8

LEMMA OpenDocumented ==
  ASSUME NEW f, Form(f), f # <<>>, f[1] \in Nonterminals,
         NEW g \in Settled(DocumentedRightSides, {f})
  PROVE  \E rule \in DocumentedRules :
           rule[1] = f[1] /\ g \in Settled(DocumentedRightSides, {rule[2] \o Tail(f)})
<1>1. DocumentedRules \in GrammarRules
  BY DEF GrammarRules
<1>2. PICK rhs \in RightSides(DocumentedRules)[f[1]] :
        g \in Settled(RightSides(DocumentedRules), {rhs \o Tail(f)})
  BY <1>1, SettledOpen DEF DocumentedRightSides
<1>3. PICK rule \in DocumentedRules : rule[1] = f[1] /\ rule[2] = rhs
  BY <1>1, RightSidesAre
<1> QED
  BY <1>2, <1>3 DEF DocumentedRightSides

LEMMA ChosenKeeps ==
  ASSUME NEW A \in Nonterminals, NEW rhs, NEW c, Chosen(A, rhs, c)
  PROVE  KeepsWays(A, rhs, c)
<1> SUFFICES ASSUME NEW f, Form(f), f # <<>>, f[1] = A,
                    NEW g \in Settled(DocumentedRightSides, {f}), g = <<>> \/ g[1] = c
             PROVE  g \in Settled(DocumentedRightSides, {rhs \o Tail(f)})
  BY DEF KeepsWays
<1>1. PICK rule \in DocumentedRules :
        rule[1] = f[1] /\ g \in Settled(DocumentedRightSides, {rule[2] \o Tail(f)})
  BY OpenDocumented
<1>2. g # <<>> /\ g[1] \in Predict(f[1], rule[2])
  BY <1>1, Predicted
<1> QED
  BY <1>1, <1>2 DEF Chosen

\* Where no form that A leads to begins with c, c cannot come next.
LEMMA NoStart ==
  ASSUME NEW f, Form(f), f # <<>>, f[1] # "act", NEW c, c \notin Starts(f[1]),
         NEW g \in Settled(DocumentedRightSides, {f})
  PROVE  g # <<>> /\ g[1] # c
<1>1. f \in Seq(GrammarSymbols)
  BY DEF Form
<1>2. SkipActs(f) = f
  BY <1>1, SkipActsNone
<1> QED
  BY <1>2, SettledStarts

-----------------------------------------------------------------------------
(* The alternatives of each nonterminal, and which of them a token calls   *)
(* for.                                                                    *)

\* The statement that each terminal begins.
StmtOf ==
  [identsym |-> "assign-stmt", beginsym |-> "begin-stmt", ifsym |-> "if-stmt",
   whilesym |-> "while-stmt", readsym |-> "read-stmt", writesym |-> "write-stmt",
   skipsym |-> "skip-stmt"]

LEMMA LeftSides ==
  /\ \A rule \in ProgramRules : rule[1] \in
       {"program", "block", "stmts", "act"}
  /\ \A rule \in ConstDeclRules : rule[1] \in
       {"const-decls", "more-const-decls", "const-decl", "comma-const-defs",
        "const-def", "const-number"}
  /\ \A rule \in VarDeclRules : rule[1] \in
       {"var-decls", "more-var-decls", "var-decl", "comma-idents",
        "var-ident"}
  /\ \A rule \in StmtRules : rule[1] \in
       {"stmt", "assign-stmt", "begin-stmt", "stmt-list", "semi-stmts",
        "if-stmt", "while-stmt", "read-stmt", "read-ident", "write-stmt",
        "skip-stmt"}
  /\ \A rule \in ConditionRules : rule[1] \in
       {"condition", "rel-op-expr"}
  /\ \A rule \in ExprRules : rule[1] \in
       {"expr", "add-sub-terms", "term", "mult-div-factors", "add-sub-term",
        "mult-div-factor"}
  /\ \A rule \in FactorRules : rule[1] \in
       {"factor", "ident-expr", "paren-expr", "signed-number", "number",
        "unsigned-number"}
<1>1. \A rule \in ProgramRules : rule[1] \in
       {"program", "block", "stmts", "act"}
  BY DEF ProgramRules
<1>2. \A rule \in ConstDeclRules : rule[1] \in
       {"const-decls", "more-const-decls", "const-decl", "comma-const-defs",
        "const-def", "const-number"}
  BY DEF ConstDeclRules
<1>3. \A rule \in VarDeclRules : rule[1] \in
       {"var-decls", "more-var-decls", "var-decl", "comma-idents",
        "var-ident"}
  BY DEF VarDeclRules
<1>4. \A rule \in StmtRules : rule[1] \in
       {"stmt", "assign-stmt", "begin-stmt", "stmt-list", "semi-stmts",
        "if-stmt", "while-stmt", "read-stmt", "read-ident", "write-stmt",
        "skip-stmt"}
  BY DEF StmtRules
<1>5. \A rule \in ConditionRules : rule[1] \in
       {"condition", "rel-op-expr"}
  BY DEF ConditionRules
<1>6. \A rule \in ExprRules : rule[1] \in
       {"expr", "add-sub-terms", "term", "mult-div-factors", "add-sub-term",
        "mult-div-factor"}
  BY DEF ExprRules
<1>7. \A rule \in FactorRules : rule[1] \in
       {"factor", "ident-expr", "paren-expr", "signed-number", "number",
        "unsigned-number"}
  BY DEF FactorRules
<1> QED
  BY <1>1, <1>2, <1>3, <1>4, <1>5, <1>6, <1>7

LEMMA ProgramAlternatives ==
  ASSUME NEW rule \in DocumentedRules
  PROVE  /\ rule[1] = "program" => rule[2] = <<"block", "periodsym">>
         /\ rule[1] = "block" =>
           rule[2] = <<"const-decls", "var-decls", "stmts", "act">>
         /\ rule[1] = "stmts" => rule[2] = <<"stmt">>
<1>1. rule[1] \in {"program", "block", "stmts"} => rule \in ProgramRules
  BY LeftSides DEF DocumentedRules
<1>2. rule[1] = "program" => rule[2] = <<"block", "periodsym">>
  BY <1>1 DEF ProgramRules
<1>3. rule[1] = "block" =>
           rule[2] = <<"const-decls", "var-decls", "stmts", "act">>
  BY <1>1 DEF ProgramRules
<1>4. rule[1] = "stmts" => rule[2] = <<"stmt">>
  BY <1>1 DEF ProgramRules
<1> QED
  BY <1>2, <1>3, <1>4

LEMMA ConstDeclAlternatives ==
  ASSUME NEW rule \in DocumentedRules
  PROVE  /\ rule[1] = "const-decls" => rule[2] = <<"more-const-decls">>
         /\ rule[1] = "more-const-decls" =>
           rule[2] \in {<<>>, <<"constsym", "const-decl", "act", "semisym", "more-const-decls">>}
         /\ rule[1] = "const-decl" =>
           rule[2] = <<"const-def", "act", "comma-const-defs">>
         /\ rule[1] = "comma-const-defs" =>
           rule[2] \in {<<>>, <<"commasym", "const-def", "act", "comma-const-defs">>}
         /\ rule[1] = "const-def" => rule[2] = <<"identsym", "eqsym", "const-number">>
         /\ rule[1] = "const-number" => rule[2] = <<"numbersym", "act">>
<1>1. rule[1] \in {"const-decls", "more-const-decls", "const-decl", "comma-const-defs", "const-def", "const-number"} => rule \in ConstDeclRules
  BY LeftSides DEF DocumentedRules
<1>2. rule[1] = "const-decls" => rule[2] = <<"more-const-decls">>
  BY <1>1 DEF ConstDeclRules
<1>3. rule[1] = "more-const-decls" =>
           rule[2] \in {<<>>, <<"constsym", "const-decl", "act", "semisym", "more-const-decls">>}
  BY <1>1 DEF ConstDeclRules
<1>4. rule[1] = "const-decl" =>
           rule[2] = <<"const-def", "act", "comma-const-defs">>
  BY <1>1 DEF ConstDeclRules
<1>5. rule[1] = "comma-const-defs" =>
           rule[2] \in {<<>>, <<"commasym", "const-def", "act", "comma-const-defs">>}
  BY <1>1 DEF ConstDeclRules
<1>6. rule[1] = "const-def" => rule[2] = <<"identsym", "eqsym", "const-number">>
  BY <1>1 DEF ConstDeclRules
<1>7. rule[1] = "const-number" => rule[2] = <<"numbersym", "act">>
  BY <1>1 DEF ConstDeclRules
<1> QED
  BY <1>2, <1>3, <1>4, <1>5, <1>6, <1>7

LEMMA VarDeclAlternatives ==
  ASSUME NEW rule \in DocumentedRules
  PROVE  /\ rule[1] = "var-decls" => rule[2] = <<"more-var-decls">>
         /\ rule[1] = "more-var-decls" =>
           rule[2] \in {<<>>, <<"varsym", "var-decl", "act", "semisym", "more-var-decls">>}
         /\ rule[1] = "var-decl" => rule[2] = <<"var-ident", "act", "comma-idents">>
         /\ rule[1] = "comma-idents" =>
           rule[2] \in {<<>>, <<"commasym", "var-ident", "act", "comma-idents">>}
         /\ rule[1] = "var-ident" => rule[2] = <<"identsym", "act">>
<1>1. rule[1] \in {"var-decls", "more-var-decls", "var-decl", "comma-idents", "var-ident"} => rule \in VarDeclRules
  BY LeftSides DEF DocumentedRules
<1>2. rule[1] = "var-decls" => rule[2] = <<"more-var-decls">>
  BY <1>1 DEF VarDeclRules
<1>3. rule[1] = "more-var-decls" =>
           rule[2] \in {<<>>, <<"varsym", "var-decl", "act", "semisym", "more-var-decls">>}
  BY <1>1 DEF VarDeclRules
<1>4. rule[1] = "var-decl" => rule[2] = <<"var-ident", "act", "comma-idents">>
  BY <1>1 DEF VarDeclRules
<1>5. rule[1] = "comma-idents" =>
           rule[2] \in {<<>>, <<"commasym", "var-ident", "act", "comma-idents">>}
  BY <1>1 DEF VarDeclRules
<1>6. rule[1] = "var-ident" => rule[2] = <<"identsym", "act">>
  BY <1>1 DEF VarDeclRules
<1> QED
  BY <1>2, <1>3, <1>4, <1>5, <1>6

LEMMA StmtAlternatives ==
  ASSUME NEW rule \in DocumentedRules
  PROVE  /\ rule[1] = "stmt" => \E s \in DOMAIN StmtOf : rule[2] = <<StmtOf[s]>>
         /\ rule[1] = "assign-stmt" =>
           rule[2] = <<"identsym", "becomessym", "expr", "act">>
         /\ rule[1] = "begin-stmt" =>
           rule[2] = <<"beginsym", "stmt", "act", "stmt-list", "act", "act", "endsym", "act">>
         /\ rule[1] = "stmt-list" => rule[2] = <<"semi-stmts">>
         /\ rule[1] = "semi-stmts" =>
           rule[2] \in {<<>>, <<"semisym", "stmt", "act", "semi-stmts">>}
         /\ rule[1] = "if-stmt" =>
           rule[2] = <<"ifsym", "condition", "thensym", "stmt", "elsesym", "stmt", "act">>
         /\ rule[1] = "while-stmt" =>
           rule[2] = <<"whilesym", "condition", "dosym", "stmt", "act">>
         /\ rule[1] = "read-stmt" => rule[2] = <<"readsym", "read-ident">>
         /\ rule[1] = "read-ident" => rule[2] = <<"identsym", "act">>
         /\ rule[1] = "write-stmt" => rule[2] = <<"writesym", "expr", "act">>
         /\ rule[1] = "skip-stmt" => rule[2] = <<"skipsym", "act">>
<1>1. rule[1] \in {"stmt", "assign-stmt", "begin-stmt", "stmt-list", "semi-stmts", "if-stmt", "while-stmt", "read-stmt", "read-ident", "write-stmt", "skip-stmt"} => rule \in StmtRules
  BY LeftSides DEF DocumentedRules
<1>2. rule[1] = "stmt" => \E s \in DOMAIN StmtOf : rule[2] = <<StmtOf[s]>>
  BY <1>1 DEF StmtRules, StmtOf
<1>3. rule[1] = "assign-stmt" =>
           rule[2] = <<"identsym", "becomessym", "expr", "act">>
  BY <1>1 DEF StmtRules
<1>4. rule[1] = "begin-stmt" =>
           rule[2] = <<"beginsym", "stmt", "act", "stmt-list", "act", "act", "endsym", "act">>
  BY <1>1 DEF StmtRules
<1>5. rule[1] = "stmt-list" => rule[2] = <<"semi-stmts">>
  BY <1>1 DEF StmtRules
<1>6. rule[1] = "semi-stmts" =>
           rule[2] \in {<<>>, <<"semisym", "stmt", "act", "semi-stmts">>}
  BY <1>1 DEF StmtRules
<1>7. rule[1] = "if-stmt" =>
           rule[2] = <<"ifsym", "condition", "thensym", "stmt", "elsesym", "stmt", "act">>
  BY <1>1 DEF StmtRules
<1>8. rule[1] = "while-stmt" =>
           rule[2] = <<"whilesym", "condition", "dosym", "stmt", "act">>
  BY <1>1 DEF StmtRules
<1>9. rule[1] = "read-stmt" => rule[2] = <<"readsym", "read-ident">>
  BY <1>1 DEF StmtRules
<1>10. rule[1] = "read-ident" => rule[2] = <<"identsym", "act">>
  BY <1>1 DEF StmtRules
<1>11. rule[1] = "write-stmt" => rule[2] = <<"writesym", "expr", "act">>
  BY <1>1 DEF StmtRules
<1>12. rule[1] = "skip-stmt" => rule[2] = <<"skipsym", "act">>
  BY <1>1 DEF StmtRules
<1> QED
  BY <1>2, <1>3, <1>4, <1>5, <1>6, <1>7, <1>8, <1>9, <1>10, <1>11, <1>12

LEMMA ConditionAlternatives ==
  ASSUME NEW rule \in DocumentedRules
  PROVE  /\ rule[1] = "condition" =>
           rule[2] \in {<<"oddsym", "expr", "act">>, <<"expr", "rel-op-expr">>}
         /\ rule[1] = "rel-op-expr" =>
           \E s \in RelOpSyms : rule[2] = <<s, "expr", "act">>
<1>1. rule[1] \in {"condition", "rel-op-expr"} => rule \in ConditionRules
  BY LeftSides DEF DocumentedRules
<1>2. rule[1] = "condition" =>
           rule[2] \in {<<"oddsym", "expr", "act">>, <<"expr", "rel-op-expr">>}
  BY <1>1 DEF ConditionRules
<1>3. rule[1] = "rel-op-expr" =>
           \E s \in RelOpSyms : rule[2] = <<s, "expr", "act">>
  BY <1>1 DEF ConditionRules
<1> QED
  BY <1>2, <1>3

LEMMA ExprAlternatives ==
  ASSUME NEW rule \in DocumentedRules
  PROVE  /\ rule[1] = "expr" => rule[2] = <<"term", "add-sub-terms">>
         /\ rule[1] = "add-sub-terms" =>
           rule[2] \in {<<>>, <<"add-sub-term", "act", "add-sub-terms">>}
         /\ rule[1] = "term" => rule[2] = <<"factor", "mult-div-factors">>
         /\ rule[1] = "mult-div-factors" =>
           rule[2] \in {<<>>, <<"mult-div-factor", "act", "mult-div-factors">>}
         /\ rule[1] = "add-sub-term" =>
           \E s \in SignSyms : rule[2] = <<s, "term", "act">>
         /\ rule[1] = "mult-div-factor" =>
           \E s \in MultDivSyms : rule[2] = <<s, "factor", "act">>
<1>1. rule[1] \in {"expr", "add-sub-terms", "term", "mult-div-factors", "add-sub-term", "mult-div-factor"} => rule \in ExprRules
  BY LeftSides DEF DocumentedRules
<1>2. rule[1] = "expr" => rule[2] = <<"term", "add-sub-terms">>
  BY <1>1 DEF ExprRules
<1>3. rule[1] = "add-sub-terms" =>
           rule[2] \in {<<>>, <<"add-sub-term", "act", "add-sub-terms">>}
  BY <1>1 DEF ExprRules
<1>4. rule[1] = "term" => rule[2] = <<"factor", "mult-div-factors">>
  BY <1>1 DEF ExprRules
<1>5. rule[1] = "mult-div-factors" =>
           rule[2] \in {<<>>, <<"mult-div-factor", "act", "mult-div-factors">>}
  BY <1>1 DEF ExprRules
<1>6. rule[1] = "add-sub-term" =>
           \E s \in SignSyms : rule[2] = <<s, "term", "act">>
  BY <1>1 DEF ExprRules
<1>7. rule[1] = "mult-div-factor" =>
           \E s \in MultDivSyms : rule[2] = <<s, "factor", "act">>
  BY <1>1 DEF ExprRules
<1> QED
  BY <1>2, <1>3, <1>4, <1>5, <1>6, <1>7

LEMMA FactorAlternatives ==
  ASSUME NEW rule \in DocumentedRules
  PROVE  /\ rule[1] = "factor" =>
           rule[2] \in {<<"ident-expr">>, <<"paren-expr">>, <<"signed-number">>, <<"number">>}
         /\ rule[1] = "ident-expr" => rule[2] = <<"identsym", "act">>
         /\ rule[1] = "paren-expr" =>
           rule[2] = <<"lparensym", "expr", "rparensym", "act">>
         /\ rule[1] = "signed-number" => rule[2] = <<"number">>
         /\ rule[1] = "number" =>
           rule[2] = <<"numbersym", "act">> \/ \E s \in SignSyms : rule[2] = <<s, "unsigned-number">>
         /\ rule[1] = "unsigned-number" => rule[2] = <<"numbersym", "act">>
<1>1. rule[1] \in {"factor", "ident-expr", "paren-expr", "signed-number", "number", "unsigned-number"} => rule \in FactorRules
  BY LeftSides DEF DocumentedRules
<1>2. rule[1] = "factor" =>
           rule[2] \in {<<"ident-expr">>, <<"paren-expr">>, <<"signed-number">>, <<"number">>}
  BY <1>1 DEF FactorRules
<1>3. rule[1] = "ident-expr" => rule[2] = <<"identsym", "act">>
  BY <1>1 DEF FactorRules
<1>4. rule[1] = "paren-expr" =>
           rule[2] = <<"lparensym", "expr", "rparensym", "act">>
  BY <1>1 DEF FactorRules
<1>5. rule[1] = "signed-number" => rule[2] = <<"number">>
  BY <1>1 DEF FactorRules
<1>6. rule[1] = "number" =>
           rule[2] = <<"numbersym", "act">> \/ \E s \in SignSyms : rule[2] = <<s, "unsigned-number">>
  BY <1>1 DEF FactorRules
<1>7. rule[1] = "unsigned-number" => rule[2] = <<"numbersym", "act">>
  BY <1>1 DEF FactorRules
<1> QED
  BY <1>2, <1>3, <1>4, <1>5, <1>6, <1>7

LEMMA ProgramChoices ==
  ASSUME NEW c
  PROVE  /\ Justified("program", <<"block", "periodsym">>, c)
         /\ Justified("block", <<"const-decls", "var-decls", "stmts", "act">>, c)
         /\ Justified("stmts", <<"stmt">>, c)
<1>1. Justified("program", <<"block", "periodsym">>, c)
  <2>1. "program" \in Nonterminals /\ <<"program", <<"block", "periodsym">>>> \in RelaxedRules
    BY DEF Nonterminals, Statements, Factors, RelaxedRules, DocumentedRules, ProgramRules
  <2>2. Chosen("program", <<"block", "periodsym">>, c)
    BY ProgramAlternatives DEF Chosen
  <2> QED
    BY <2>1, <2>2, ChosenKeeps DEF Justified
<1>2. Justified("block", <<"const-decls", "var-decls", "stmts", "act">>, c)
  <2>1. "block" \in Nonterminals /\ <<"block", <<"const-decls", "var-decls", "stmts", "act">>>> \in RelaxedRules
    BY DEF Nonterminals, Statements, Factors, RelaxedRules, DocumentedRules, ProgramRules
  <2>2. Chosen("block", <<"const-decls", "var-decls", "stmts", "act">>, c)
    BY ProgramAlternatives DEF Chosen
  <2> QED
    BY <2>1, <2>2, ChosenKeeps DEF Justified
<1>3. Justified("stmts", <<"stmt">>, c)
  <2>1. "stmts" \in Nonterminals /\ <<"stmts", <<"stmt">>>> \in RelaxedRules
    BY DEF Nonterminals, Statements, Factors, RelaxedRules, DocumentedRules, ProgramRules
  <2>2. Chosen("stmts", <<"stmt">>, c)
    BY ProgramAlternatives DEF Chosen
  <2> QED
    BY <2>1, <2>2, ChosenKeeps DEF Justified
<1> QED
  BY <1>1, <1>2, <1>3

LEMMA ConstDeclChoices ==
  ASSUME NEW c
  PROVE  /\ Justified("const-decls", <<"more-const-decls">>, c)
         /\ c # "constsym" => Justified("more-const-decls", <<>>, c)
         /\ c = "constsym" =>
           Justified("more-const-decls", <<"constsym", "const-decl", "act", "semisym", "more-const-decls">>, c)
         /\ Justified("const-decl", <<"const-def", "act", "comma-const-defs">>, c)
         /\ c # "commasym" => Justified("comma-const-defs", <<>>, c)
         /\ c = "commasym" =>
           Justified("comma-const-defs", <<"commasym", "const-def", "act", "comma-const-defs">>, c)
         /\ Justified("const-def", <<"identsym", "eqsym", "const-number">>, c)
         /\ Justified("const-number", <<"numbersym", "act">>, c)
<1>1. Justified("const-decls", <<"more-const-decls">>, c)
  <2>1. "const-decls" \in Nonterminals /\ <<"const-decls", <<"more-const-decls">>>> \in RelaxedRules
    BY DEF Nonterminals, Statements, Factors, RelaxedRules, DocumentedRules, ConstDeclRules
  <2>2. Chosen("const-decls", <<"more-const-decls">>, c)
    BY ConstDeclAlternatives DEF Chosen
  <2> QED
    BY <2>1, <2>2, ChosenKeeps DEF Justified
<1>2. c # "constsym" => Justified("more-const-decls", <<>>, c)
  <2>0. SUFFICES ASSUME c # "constsym" PROVE Justified("more-const-decls", <<>>, c)
    OBVIOUS
  <2>1. "more-const-decls" \in Nonterminals /\ <<"more-const-decls", <<>>>> \in RelaxedRules
    BY DEF Nonterminals, Statements, Factors, RelaxedRules, DocumentedRules, ConstDeclRules
  <2>2. Chosen("more-const-decls", <<>>, c)
    <3> SUFFICES ASSUME NEW rule \in DocumentedRules, rule[1] = "more-const-decls", rule[2] # <<>>
                 PROVE  c \notin Predict("more-const-decls", rule[2])
      BY DEF Chosen
    <3> QED
      BY <2>0, ConstDeclAlternatives DEF Predict, Follow, Starts, StmtStarts, ExprStarts, ExprEnds, AfterStmt, Statements, Factors,
       TokenTypes, SignSyms, MultDivSyms, RelOpSyms
  <2> QED
    BY <2>1, <2>2, ChosenKeeps DEF Justified
<1>3. c = "constsym" =>
           Justified("more-const-decls", <<"constsym", "const-decl", "act", "semisym", "more-const-decls">>, c)
  <2>0. SUFFICES ASSUME c = "constsym" PROVE Justified("more-const-decls", <<"constsym", "const-decl", "act", "semisym", "more-const-decls">>, c)
    OBVIOUS
  <2>1. "more-const-decls" \in Nonterminals /\ <<"more-const-decls", <<"constsym", "const-decl", "act", "semisym", "more-const-decls">>>> \in RelaxedRules
    BY DEF Nonterminals, Statements, Factors, RelaxedRules, DocumentedRules, ConstDeclRules
  <2>2. Chosen("more-const-decls", <<"constsym", "const-decl", "act", "semisym", "more-const-decls">>, c)
    <3> SUFFICES ASSUME NEW rule \in DocumentedRules, rule[1] = "more-const-decls", rule[2] # <<"constsym", "const-decl", "act", "semisym", "more-const-decls">>
                 PROVE  c \notin Predict("more-const-decls", rule[2])
      BY DEF Chosen
    <3> QED
      BY <2>0, ConstDeclAlternatives DEF Predict, Follow, Starts, StmtStarts, ExprStarts, ExprEnds, AfterStmt, Statements, Factors,
       TokenTypes, SignSyms, MultDivSyms, RelOpSyms
  <2> QED
    BY <2>1, <2>2, ChosenKeeps DEF Justified
<1>4. Justified("const-decl", <<"const-def", "act", "comma-const-defs">>, c)
  <2>1. "const-decl" \in Nonterminals /\ <<"const-decl", <<"const-def", "act", "comma-const-defs">>>> \in RelaxedRules
    BY DEF Nonterminals, Statements, Factors, RelaxedRules, DocumentedRules, ConstDeclRules
  <2>2. Chosen("const-decl", <<"const-def", "act", "comma-const-defs">>, c)
    BY ConstDeclAlternatives DEF Chosen
  <2> QED
    BY <2>1, <2>2, ChosenKeeps DEF Justified
<1>5. c # "commasym" => Justified("comma-const-defs", <<>>, c)
  <2>0. SUFFICES ASSUME c # "commasym" PROVE Justified("comma-const-defs", <<>>, c)
    OBVIOUS
  <2>1. "comma-const-defs" \in Nonterminals /\ <<"comma-const-defs", <<>>>> \in RelaxedRules
    BY DEF Nonterminals, Statements, Factors, RelaxedRules, DocumentedRules, ConstDeclRules
  <2>2. Chosen("comma-const-defs", <<>>, c)
    <3> SUFFICES ASSUME NEW rule \in DocumentedRules, rule[1] = "comma-const-defs", rule[2] # <<>>
                 PROVE  c \notin Predict("comma-const-defs", rule[2])
      BY DEF Chosen
    <3> QED
      BY <2>0, ConstDeclAlternatives DEF Predict, Follow, Starts, StmtStarts, ExprStarts, ExprEnds, AfterStmt, Statements, Factors,
       TokenTypes, SignSyms, MultDivSyms, RelOpSyms
  <2> QED
    BY <2>1, <2>2, ChosenKeeps DEF Justified
<1>6. c = "commasym" =>
           Justified("comma-const-defs", <<"commasym", "const-def", "act", "comma-const-defs">>, c)
  <2>0. SUFFICES ASSUME c = "commasym" PROVE Justified("comma-const-defs", <<"commasym", "const-def", "act", "comma-const-defs">>, c)
    OBVIOUS
  <2>1. "comma-const-defs" \in Nonterminals /\ <<"comma-const-defs", <<"commasym", "const-def", "act", "comma-const-defs">>>> \in RelaxedRules
    BY DEF Nonterminals, Statements, Factors, RelaxedRules, DocumentedRules, ConstDeclRules
  <2>2. Chosen("comma-const-defs", <<"commasym", "const-def", "act", "comma-const-defs">>, c)
    <3> SUFFICES ASSUME NEW rule \in DocumentedRules, rule[1] = "comma-const-defs", rule[2] # <<"commasym", "const-def", "act", "comma-const-defs">>
                 PROVE  c \notin Predict("comma-const-defs", rule[2])
      BY DEF Chosen
    <3> QED
      BY <2>0, ConstDeclAlternatives DEF Predict, Follow, Starts, StmtStarts, ExprStarts, ExprEnds, AfterStmt, Statements, Factors,
       TokenTypes, SignSyms, MultDivSyms, RelOpSyms
  <2> QED
    BY <2>1, <2>2, ChosenKeeps DEF Justified
<1>7. Justified("const-def", <<"identsym", "eqsym", "const-number">>, c)
  <2>1. "const-def" \in Nonterminals /\ <<"const-def", <<"identsym", "eqsym", "const-number">>>> \in RelaxedRules
    BY DEF Nonterminals, Statements, Factors, RelaxedRules, DocumentedRules, ConstDeclRules
  <2>2. Chosen("const-def", <<"identsym", "eqsym", "const-number">>, c)
    BY ConstDeclAlternatives DEF Chosen
  <2> QED
    BY <2>1, <2>2, ChosenKeeps DEF Justified
<1>8. Justified("const-number", <<"numbersym", "act">>, c)
  <2>1. "const-number" \in Nonterminals /\ <<"const-number", <<"numbersym", "act">>>> \in RelaxedRules
    BY DEF Nonterminals, Statements, Factors, RelaxedRules, DocumentedRules, ConstDeclRules
  <2>2. Chosen("const-number", <<"numbersym", "act">>, c)
    BY ConstDeclAlternatives DEF Chosen
  <2> QED
    BY <2>1, <2>2, ChosenKeeps DEF Justified
<1> QED
  BY <1>1, <1>2, <1>3, <1>4, <1>5, <1>6, <1>7, <1>8

LEMMA VarDeclChoices ==
  ASSUME NEW c
  PROVE  /\ Justified("var-decls", <<"more-var-decls">>, c)
         /\ c # "varsym" => Justified("more-var-decls", <<>>, c)
         /\ c = "varsym" =>
           Justified("more-var-decls", <<"varsym", "var-decl", "act", "semisym", "more-var-decls">>, c)
         /\ Justified("var-decl", <<"var-ident", "act", "comma-idents">>, c)
         /\ c # "commasym" => Justified("comma-idents", <<>>, c)
         /\ c = "commasym" =>
           Justified("comma-idents", <<"commasym", "var-ident", "act", "comma-idents">>, c)
         /\ Justified("var-ident", <<"identsym", "act">>, c)
<1>1. Justified("var-decls", <<"more-var-decls">>, c)
  <2>1. "var-decls" \in Nonterminals /\ <<"var-decls", <<"more-var-decls">>>> \in RelaxedRules
    BY DEF Nonterminals, Statements, Factors, RelaxedRules, DocumentedRules, VarDeclRules
  <2>2. Chosen("var-decls", <<"more-var-decls">>, c)
    BY VarDeclAlternatives DEF Chosen
  <2> QED
    BY <2>1, <2>2, ChosenKeeps DEF Justified
<1>2. c # "varsym" => Justified("more-var-decls", <<>>, c)
  <2>0. SUFFICES ASSUME c # "varsym" PROVE Justified("more-var-decls", <<>>, c)
    OBVIOUS
  <2>1. "more-var-decls" \in Nonterminals /\ <<"more-var-decls", <<>>>> \in RelaxedRules
    BY DEF Nonterminals, Statements, Factors, RelaxedRules, DocumentedRules, VarDeclRules
  <2>2. Chosen("more-var-decls", <<>>, c)
    <3> SUFFICES ASSUME NEW rule \in DocumentedRules, rule[1] = "more-var-decls", rule[2] # <<>>
                 PROVE  c \notin Predict("more-var-decls", rule[2])
      BY DEF Chosen
    <3> QED
      BY <2>0, VarDeclAlternatives DEF Predict, Follow, Starts, StmtStarts, ExprStarts, ExprEnds, AfterStmt, Statements, Factors,
       TokenTypes, SignSyms, MultDivSyms, RelOpSyms
  <2> QED
    BY <2>1, <2>2, ChosenKeeps DEF Justified
<1>3. c = "varsym" =>
           Justified("more-var-decls", <<"varsym", "var-decl", "act", "semisym", "more-var-decls">>, c)
  <2>0. SUFFICES ASSUME c = "varsym" PROVE Justified("more-var-decls", <<"varsym", "var-decl", "act", "semisym", "more-var-decls">>, c)
    OBVIOUS
  <2>1. "more-var-decls" \in Nonterminals /\ <<"more-var-decls", <<"varsym", "var-decl", "act", "semisym", "more-var-decls">>>> \in RelaxedRules
    BY DEF Nonterminals, Statements, Factors, RelaxedRules, DocumentedRules, VarDeclRules
  <2>2. Chosen("more-var-decls", <<"varsym", "var-decl", "act", "semisym", "more-var-decls">>, c)
    <3> SUFFICES ASSUME NEW rule \in DocumentedRules, rule[1] = "more-var-decls", rule[2] # <<"varsym", "var-decl", "act", "semisym", "more-var-decls">>
                 PROVE  c \notin Predict("more-var-decls", rule[2])
      BY DEF Chosen
    <3> QED
      BY <2>0, VarDeclAlternatives DEF Predict, Follow, Starts, StmtStarts, ExprStarts, ExprEnds, AfterStmt, Statements, Factors,
       TokenTypes, SignSyms, MultDivSyms, RelOpSyms
  <2> QED
    BY <2>1, <2>2, ChosenKeeps DEF Justified
<1>4. Justified("var-decl", <<"var-ident", "act", "comma-idents">>, c)
  <2>1. "var-decl" \in Nonterminals /\ <<"var-decl", <<"var-ident", "act", "comma-idents">>>> \in RelaxedRules
    BY DEF Nonterminals, Statements, Factors, RelaxedRules, DocumentedRules, VarDeclRules
  <2>2. Chosen("var-decl", <<"var-ident", "act", "comma-idents">>, c)
    BY VarDeclAlternatives DEF Chosen
  <2> QED
    BY <2>1, <2>2, ChosenKeeps DEF Justified
<1>5. c # "commasym" => Justified("comma-idents", <<>>, c)
  <2>0. SUFFICES ASSUME c # "commasym" PROVE Justified("comma-idents", <<>>, c)
    OBVIOUS
  <2>1. "comma-idents" \in Nonterminals /\ <<"comma-idents", <<>>>> \in RelaxedRules
    BY DEF Nonterminals, Statements, Factors, RelaxedRules, DocumentedRules, VarDeclRules
  <2>2. Chosen("comma-idents", <<>>, c)
    <3> SUFFICES ASSUME NEW rule \in DocumentedRules, rule[1] = "comma-idents", rule[2] # <<>>
                 PROVE  c \notin Predict("comma-idents", rule[2])
      BY DEF Chosen
    <3> QED
      BY <2>0, VarDeclAlternatives DEF Predict, Follow, Starts, StmtStarts, ExprStarts, ExprEnds, AfterStmt, Statements, Factors,
       TokenTypes, SignSyms, MultDivSyms, RelOpSyms
  <2> QED
    BY <2>1, <2>2, ChosenKeeps DEF Justified
<1>6. c = "commasym" =>
           Justified("comma-idents", <<"commasym", "var-ident", "act", "comma-idents">>, c)
  <2>0. SUFFICES ASSUME c = "commasym" PROVE Justified("comma-idents", <<"commasym", "var-ident", "act", "comma-idents">>, c)
    OBVIOUS
  <2>1. "comma-idents" \in Nonterminals /\ <<"comma-idents", <<"commasym", "var-ident", "act", "comma-idents">>>> \in RelaxedRules
    BY DEF Nonterminals, Statements, Factors, RelaxedRules, DocumentedRules, VarDeclRules
  <2>2. Chosen("comma-idents", <<"commasym", "var-ident", "act", "comma-idents">>, c)
    <3> SUFFICES ASSUME NEW rule \in DocumentedRules, rule[1] = "comma-idents", rule[2] # <<"commasym", "var-ident", "act", "comma-idents">>
                 PROVE  c \notin Predict("comma-idents", rule[2])
      BY DEF Chosen
    <3> QED
      BY <2>0, VarDeclAlternatives DEF Predict, Follow, Starts, StmtStarts, ExprStarts, ExprEnds, AfterStmt, Statements, Factors,
       TokenTypes, SignSyms, MultDivSyms, RelOpSyms
  <2> QED
    BY <2>1, <2>2, ChosenKeeps DEF Justified
<1>7. Justified("var-ident", <<"identsym", "act">>, c)
  <2>1. "var-ident" \in Nonterminals /\ <<"var-ident", <<"identsym", "act">>>> \in RelaxedRules
    BY DEF Nonterminals, Statements, Factors, RelaxedRules, DocumentedRules, VarDeclRules
  <2>2. Chosen("var-ident", <<"identsym", "act">>, c)
    BY VarDeclAlternatives DEF Chosen
  <2> QED
    BY <2>1, <2>2, ChosenKeeps DEF Justified
<1> QED
  BY <1>1, <1>2, <1>3, <1>4, <1>5, <1>6, <1>7

LEMMA StmtChoices ==
  ASSUME NEW c
  PROVE  /\ c \in DOMAIN StmtOf => Justified("stmt", <<StmtOf[c]>>, c)
         /\ Justified("assign-stmt", <<"identsym", "becomessym", "expr", "act">>, c)
         /\ Justified("begin-stmt", <<"beginsym", "stmt", "act", "stmt-list", "act", "act", "endsym", "act">>, c)
         /\ Justified("stmt-list", <<"semi-stmts">>, c)
         /\ c # "semisym" => Justified("semi-stmts", <<>>, c)
         /\ c = "semisym" =>
           Justified("semi-stmts", <<"semisym", "stmt", "act", "semi-stmts">>, c)
         /\ Justified("if-stmt", <<"ifsym", "condition", "thensym", "stmt", "elsesym", "stmt", "act">>, c)
         /\ Justified("while-stmt", <<"whilesym", "condition", "dosym", "stmt", "act">>, c)
         /\ Justified("read-stmt", <<"readsym", "read-ident">>, c)
         /\ Justified("read-ident", <<"identsym", "act">>, c)
         /\ Justified("write-stmt", <<"writesym", "expr", "act">>, c)
         /\ Justified("skip-stmt", <<"skipsym", "act">>, c)
<1>1. c \in DOMAIN StmtOf => Justified("stmt", <<StmtOf[c]>>, c)
  <2>0. SUFFICES ASSUME c \in DOMAIN StmtOf PROVE Justified("stmt", <<StmtOf[c]>>, c)
    OBVIOUS
  <2>1. "stmt" \in Nonterminals /\ <<"stmt", <<StmtOf[c]>>>> \in RelaxedRules
    BY <2>0 DEF Nonterminals, Statements, Factors, RelaxedRules, DocumentedRules, StmtRules, StmtOf
  <2>2. Chosen("stmt", <<StmtOf[c]>>, c)
    <3> SUFFICES ASSUME NEW rule \in DocumentedRules, rule[1] = "stmt", rule[2] # <<StmtOf[c]>>
                 PROVE  c \notin Predict("stmt", rule[2])
      BY DEF Chosen
    <3> QED
      BY <2>0, StmtAlternatives DEF Predict, Follow, Starts, StmtStarts, ExprStarts, ExprEnds, AfterStmt, Statements, Factors,
       TokenTypes, SignSyms, MultDivSyms, RelOpSyms, StmtOf
  <2> QED
    BY <2>1, <2>2, ChosenKeeps DEF Justified
<1>2. Justified("assign-stmt", <<"identsym", "becomessym", "expr", "act">>, c)
  <2>1. "assign-stmt" \in Nonterminals /\ <<"assign-stmt", <<"identsym", "becomessym", "expr", "act">>>> \in RelaxedRules
    BY DEF Nonterminals, Statements, Factors, RelaxedRules, DocumentedRules, StmtRules
  <2>2. Chosen("assign-stmt", <<"identsym", "becomessym", "expr", "act">>, c)
    BY StmtAlternatives DEF Chosen
  <2> QED
    BY <2>1, <2>2, ChosenKeeps DEF Justified
<1>3. Justified("begin-stmt", <<"beginsym", "stmt", "act", "stmt-list", "act", "act", "endsym", "act">>, c)
  <2>1. "begin-stmt" \in Nonterminals /\ <<"begin-stmt", <<"beginsym", "stmt", "act", "stmt-list", "act", "act", "endsym", "act">>>> \in RelaxedRules
    BY DEF Nonterminals, Statements, Factors, RelaxedRules, DocumentedRules, StmtRules
  <2>2. Chosen("begin-stmt", <<"beginsym", "stmt", "act", "stmt-list", "act", "act", "endsym", "act">>, c)
    BY StmtAlternatives DEF Chosen
  <2> QED
    BY <2>1, <2>2, ChosenKeeps DEF Justified
<1>4. Justified("stmt-list", <<"semi-stmts">>, c)
  <2>1. "stmt-list" \in Nonterminals /\ <<"stmt-list", <<"semi-stmts">>>> \in RelaxedRules
    BY DEF Nonterminals, Statements, Factors, RelaxedRules, DocumentedRules, StmtRules
  <2>2. Chosen("stmt-list", <<"semi-stmts">>, c)
    BY StmtAlternatives DEF Chosen
  <2> QED
    BY <2>1, <2>2, ChosenKeeps DEF Justified
<1>5. c # "semisym" => Justified("semi-stmts", <<>>, c)
  <2>0. SUFFICES ASSUME c # "semisym" PROVE Justified("semi-stmts", <<>>, c)
    OBVIOUS
  <2>1. "semi-stmts" \in Nonterminals /\ <<"semi-stmts", <<>>>> \in RelaxedRules
    BY DEF Nonterminals, Statements, Factors, RelaxedRules, DocumentedRules, StmtRules
  <2>2. Chosen("semi-stmts", <<>>, c)
    <3> SUFFICES ASSUME NEW rule \in DocumentedRules, rule[1] = "semi-stmts", rule[2] # <<>>
                 PROVE  c \notin Predict("semi-stmts", rule[2])
      BY DEF Chosen
    <3> QED
      BY <2>0, StmtAlternatives DEF Predict, Follow, Starts, StmtStarts, ExprStarts, ExprEnds, AfterStmt, Statements, Factors,
       TokenTypes, SignSyms, MultDivSyms, RelOpSyms
  <2> QED
    BY <2>1, <2>2, ChosenKeeps DEF Justified
<1>6. c = "semisym" =>
           Justified("semi-stmts", <<"semisym", "stmt", "act", "semi-stmts">>, c)
  <2>0. SUFFICES ASSUME c = "semisym" PROVE Justified("semi-stmts", <<"semisym", "stmt", "act", "semi-stmts">>, c)
    OBVIOUS
  <2>1. "semi-stmts" \in Nonterminals /\ <<"semi-stmts", <<"semisym", "stmt", "act", "semi-stmts">>>> \in RelaxedRules
    BY DEF Nonterminals, Statements, Factors, RelaxedRules, DocumentedRules, StmtRules
  <2>2. Chosen("semi-stmts", <<"semisym", "stmt", "act", "semi-stmts">>, c)
    <3> SUFFICES ASSUME NEW rule \in DocumentedRules, rule[1] = "semi-stmts", rule[2] # <<"semisym", "stmt", "act", "semi-stmts">>
                 PROVE  c \notin Predict("semi-stmts", rule[2])
      BY DEF Chosen
    <3> QED
      BY <2>0, StmtAlternatives DEF Predict, Follow, Starts, StmtStarts, ExprStarts, ExprEnds, AfterStmt, Statements, Factors,
       TokenTypes, SignSyms, MultDivSyms, RelOpSyms
  <2> QED
    BY <2>1, <2>2, ChosenKeeps DEF Justified
<1>7. Justified("if-stmt", <<"ifsym", "condition", "thensym", "stmt", "elsesym", "stmt", "act">>, c)
  <2>1. "if-stmt" \in Nonterminals /\ <<"if-stmt", <<"ifsym", "condition", "thensym", "stmt", "elsesym", "stmt", "act">>>> \in RelaxedRules
    BY DEF Nonterminals, Statements, Factors, RelaxedRules, DocumentedRules, StmtRules
  <2>2. Chosen("if-stmt", <<"ifsym", "condition", "thensym", "stmt", "elsesym", "stmt", "act">>, c)
    BY StmtAlternatives DEF Chosen
  <2> QED
    BY <2>1, <2>2, ChosenKeeps DEF Justified
<1>8. Justified("while-stmt", <<"whilesym", "condition", "dosym", "stmt", "act">>, c)
  <2>1. "while-stmt" \in Nonterminals /\ <<"while-stmt", <<"whilesym", "condition", "dosym", "stmt", "act">>>> \in RelaxedRules
    BY DEF Nonterminals, Statements, Factors, RelaxedRules, DocumentedRules, StmtRules
  <2>2. Chosen("while-stmt", <<"whilesym", "condition", "dosym", "stmt", "act">>, c)
    BY StmtAlternatives DEF Chosen
  <2> QED
    BY <2>1, <2>2, ChosenKeeps DEF Justified
<1>9. Justified("read-stmt", <<"readsym", "read-ident">>, c)
  <2>1. "read-stmt" \in Nonterminals /\ <<"read-stmt", <<"readsym", "read-ident">>>> \in RelaxedRules
    BY DEF Nonterminals, Statements, Factors, RelaxedRules, DocumentedRules, StmtRules
  <2>2. Chosen("read-stmt", <<"readsym", "read-ident">>, c)
    BY StmtAlternatives DEF Chosen
  <2> QED
    BY <2>1, <2>2, ChosenKeeps DEF Justified
<1>10. Justified("read-ident", <<"identsym", "act">>, c)
  <2>1. "read-ident" \in Nonterminals /\ <<"read-ident", <<"identsym", "act">>>> \in RelaxedRules
    BY DEF Nonterminals, Statements, Factors, RelaxedRules, DocumentedRules, StmtRules
  <2>2. Chosen("read-ident", <<"identsym", "act">>, c)
    BY StmtAlternatives DEF Chosen
  <2> QED
    BY <2>1, <2>2, ChosenKeeps DEF Justified
<1>11. Justified("write-stmt", <<"writesym", "expr", "act">>, c)
  <2>1. "write-stmt" \in Nonterminals /\ <<"write-stmt", <<"writesym", "expr", "act">>>> \in RelaxedRules
    BY DEF Nonterminals, Statements, Factors, RelaxedRules, DocumentedRules, StmtRules
  <2>2. Chosen("write-stmt", <<"writesym", "expr", "act">>, c)
    BY StmtAlternatives DEF Chosen
  <2> QED
    BY <2>1, <2>2, ChosenKeeps DEF Justified
<1>12. Justified("skip-stmt", <<"skipsym", "act">>, c)
  <2>1. "skip-stmt" \in Nonterminals /\ <<"skip-stmt", <<"skipsym", "act">>>> \in RelaxedRules
    BY DEF Nonterminals, Statements, Factors, RelaxedRules, DocumentedRules, StmtRules
  <2>2. Chosen("skip-stmt", <<"skipsym", "act">>, c)
    BY StmtAlternatives DEF Chosen
  <2> QED
    BY <2>1, <2>2, ChosenKeeps DEF Justified
<1> QED
  BY <1>1, <1>2, <1>3, <1>4, <1>5, <1>6, <1>7, <1>8, <1>9, <1>10, <1>11, <1>12

LEMMA ConditionChoices ==
  ASSUME NEW c
  PROVE  /\ c = "oddsym" => Justified("condition", <<"oddsym", "expr", "act">>, c)
         /\ c # "oddsym" => Justified("condition", <<"expr", "rel-op-expr">>, c)
         /\ c \in RelOpSyms => Justified("rel-op-expr", <<c, "expr", "act">>, c)
         /\ c \notin RelOpSyms => Justified("rel-op-expr", <<"expr", "act">>, c)
<1>1. c = "oddsym" => Justified("condition", <<"oddsym", "expr", "act">>, c)
  <2>0. SUFFICES ASSUME c = "oddsym" PROVE Justified("condition", <<"oddsym", "expr", "act">>, c)
    OBVIOUS
  <2>1. "condition" \in Nonterminals /\ <<"condition", <<"oddsym", "expr", "act">>>> \in RelaxedRules
    BY DEF Nonterminals, Statements, Factors, RelaxedRules, DocumentedRules, ConditionRules
  <2>2. Chosen("condition", <<"oddsym", "expr", "act">>, c)
    <3> SUFFICES ASSUME NEW rule \in DocumentedRules, rule[1] = "condition", rule[2] # <<"oddsym", "expr", "act">>
                 PROVE  c \notin Predict("condition", rule[2])
      BY DEF Chosen
    <3> QED
      BY <2>0, ConditionAlternatives DEF Predict, Follow, Starts, StmtStarts, ExprStarts, ExprEnds, AfterStmt, Statements, Factors,
       TokenTypes, SignSyms, MultDivSyms, RelOpSyms
  <2> QED
    BY <2>1, <2>2, ChosenKeeps DEF Justified
<1>2. c # "oddsym" => Justified("condition", <<"expr", "rel-op-expr">>, c)
  <2>0. SUFFICES ASSUME c # "oddsym" PROVE Justified("condition", <<"expr", "rel-op-expr">>, c)
    OBVIOUS
  <2>1. "condition" \in Nonterminals /\ <<"condition", <<"expr", "rel-op-expr">>>> \in RelaxedRules
    BY DEF Nonterminals, Statements, Factors, RelaxedRules, DocumentedRules, ConditionRules
  <2>2. Chosen("condition", <<"expr", "rel-op-expr">>, c)
    <3> SUFFICES ASSUME NEW rule \in DocumentedRules, rule[1] = "condition", rule[2] # <<"expr", "rel-op-expr">>
                 PROVE  c \notin Predict("condition", rule[2])
      BY DEF Chosen
    <3> QED
      BY <2>0, ConditionAlternatives DEF Predict, Follow, Starts, StmtStarts, ExprStarts, ExprEnds, AfterStmt, Statements, Factors,
       TokenTypes, SignSyms, MultDivSyms, RelOpSyms
  <2> QED
    BY <2>1, <2>2, ChosenKeeps DEF Justified
<1>3. c \in RelOpSyms => Justified("rel-op-expr", <<c, "expr", "act">>, c)
  <2>0. SUFFICES ASSUME c \in RelOpSyms PROVE Justified("rel-op-expr", <<c, "expr", "act">>, c)
    OBVIOUS
  <2>1. "rel-op-expr" \in Nonterminals /\ <<"rel-op-expr", <<c, "expr", "act">>>> \in RelaxedRules
    BY <2>0 DEF Nonterminals, Statements, Factors, RelaxedRules, DocumentedRules, ConditionRules
  <2>2. Chosen("rel-op-expr", <<c, "expr", "act">>, c)
    <3> SUFFICES ASSUME NEW rule \in DocumentedRules, rule[1] = "rel-op-expr", rule[2] # <<c, "expr", "act">>
                 PROVE  c \notin Predict("rel-op-expr", rule[2])
      BY DEF Chosen
    <3> QED
      BY <2>0, ConditionAlternatives DEF Predict, Follow, Starts, StmtStarts, ExprStarts, ExprEnds, AfterStmt, Statements, Factors,
       TokenTypes, SignSyms, MultDivSyms, RelOpSyms
  <2> QED
    BY <2>1, <2>2, ChosenKeeps DEF Justified
<1>4. c \notin RelOpSyms => Justified("rel-op-expr", <<"expr", "act">>, c)
  <2>0. SUFFICES ASSUME c \notin RelOpSyms PROVE Justified("rel-op-expr", <<"expr", "act">>, c)
    OBVIOUS
  <2>1. "rel-op-expr" \in Nonterminals /\ <<"rel-op-expr", <<"expr", "act">>>> \in RelaxedRules
    BY DEF Nonterminals, Statements, Factors, RelaxedRules, DocumentedRules, ConditionRules
  <2>2. Chosen("rel-op-expr", <<"expr", "act">>, c)
    <3> SUFFICES ASSUME NEW rule \in DocumentedRules, rule[1] = "rel-op-expr", rule[2] # <<"expr", "act">>
                 PROVE  c \notin Predict("rel-op-expr", rule[2])
      BY DEF Chosen
    <3> QED
      BY <2>0, ConditionAlternatives DEF Predict, Follow, Starts, StmtStarts, ExprStarts, ExprEnds, AfterStmt, Statements, Factors,
       TokenTypes, SignSyms, MultDivSyms, RelOpSyms
  <2> QED
    BY <2>1, <2>2, ChosenKeeps DEF Justified
<1> QED
  BY <1>1, <1>2, <1>3, <1>4

LEMMA ExprChoices ==
  ASSUME NEW c
  PROVE  /\ Justified("expr", <<"term", "add-sub-terms">>, c)
         /\ c \notin SignSyms => Justified("add-sub-terms", <<>>, c)
         /\ c \in SignSyms =>
           Justified("add-sub-terms", <<"add-sub-term", "act", "add-sub-terms">>, c)
         /\ Justified("term", <<"factor", "mult-div-factors">>, c)
         /\ c \notin MultDivSyms => Justified("mult-div-factors", <<>>, c)
         /\ c \in MultDivSyms =>
           Justified("mult-div-factors", <<"mult-div-factor", "act", "mult-div-factors">>, c)
         /\ c \in SignSyms => Justified("add-sub-term", <<c, "term", "act">>, c)
         /\ c \in MultDivSyms => Justified("mult-div-factor", <<c, "factor", "act">>, c)
<1>1. Justified("expr", <<"term", "add-sub-terms">>, c)
  <2>1. "expr" \in Nonterminals /\ <<"expr", <<"term", "add-sub-terms">>>> \in RelaxedRules
    BY DEF Nonterminals, Statements, Factors, RelaxedRules, DocumentedRules, ExprRules
  <2>2. Chosen("expr", <<"term", "add-sub-terms">>, c)
    BY ExprAlternatives DEF Chosen
  <2> QED
    BY <2>1, <2>2, ChosenKeeps DEF Justified
<1>2. c \notin SignSyms => Justified("add-sub-terms", <<>>, c)
  <2>0. SUFFICES ASSUME c \notin SignSyms PROVE Justified("add-sub-terms", <<>>, c)
    OBVIOUS
  <2>1. "add-sub-terms" \in Nonterminals /\ <<"add-sub-terms", <<>>>> \in RelaxedRules
    BY DEF Nonterminals, Statements, Factors, RelaxedRules, DocumentedRules, ExprRules
  <2>2. Chosen("add-sub-terms", <<>>, c)
    <3> SUFFICES ASSUME NEW rule \in DocumentedRules, rule[1] = "add-sub-terms", rule[2] # <<>>
                 PROVE  c \notin Predict("add-sub-terms", rule[2])
      BY DEF Chosen
    <3> QED
      BY <2>0, ExprAlternatives DEF Predict, Follow, Starts, StmtStarts, ExprStarts, ExprEnds, AfterStmt, Statements, Factors,
       TokenTypes, SignSyms, MultDivSyms, RelOpSyms
  <2> QED
    BY <2>1, <2>2, ChosenKeeps DEF Justified
<1>3. c \in SignSyms =>
           Justified("add-sub-terms", <<"add-sub-term", "act", "add-sub-terms">>, c)
  <2>0. SUFFICES ASSUME c \in SignSyms PROVE Justified("add-sub-terms", <<"add-sub-term", "act", "add-sub-terms">>, c)
    OBVIOUS
  <2>1. "add-sub-terms" \in Nonterminals /\ <<"add-sub-terms", <<"add-sub-term", "act", "add-sub-terms">>>> \in RelaxedRules
    BY DEF Nonterminals, Statements, Factors, RelaxedRules, DocumentedRules, ExprRules
  <2>2. Chosen("add-sub-terms", <<"add-sub-term", "act", "add-sub-terms">>, c)
    <3> SUFFICES ASSUME NEW rule \in DocumentedRules, rule[1] = "add-sub-terms", rule[2] # <<"add-sub-term", "act", "add-sub-terms">>
                 PROVE  c \notin Predict("add-sub-terms", rule[2])
      BY DEF Chosen
    <3> QED
      BY <2>0, ExprAlternatives DEF Predict, Follow, Starts, StmtStarts, ExprStarts, ExprEnds, AfterStmt, Statements, Factors,
       TokenTypes, SignSyms, MultDivSyms, RelOpSyms
  <2> QED
    BY <2>1, <2>2, ChosenKeeps DEF Justified
<1>4. Justified("term", <<"factor", "mult-div-factors">>, c)
  <2>1. "term" \in Nonterminals /\ <<"term", <<"factor", "mult-div-factors">>>> \in RelaxedRules
    BY DEF Nonterminals, Statements, Factors, RelaxedRules, DocumentedRules, ExprRules
  <2>2. Chosen("term", <<"factor", "mult-div-factors">>, c)
    BY ExprAlternatives DEF Chosen
  <2> QED
    BY <2>1, <2>2, ChosenKeeps DEF Justified
<1>5. c \notin MultDivSyms => Justified("mult-div-factors", <<>>, c)
  <2>0. SUFFICES ASSUME c \notin MultDivSyms PROVE Justified("mult-div-factors", <<>>, c)
    OBVIOUS
  <2>1. "mult-div-factors" \in Nonterminals /\ <<"mult-div-factors", <<>>>> \in RelaxedRules
    BY DEF Nonterminals, Statements, Factors, RelaxedRules, DocumentedRules, ExprRules
  <2>2. Chosen("mult-div-factors", <<>>, c)
    <3> SUFFICES ASSUME NEW rule \in DocumentedRules, rule[1] = "mult-div-factors", rule[2] # <<>>
                 PROVE  c \notin Predict("mult-div-factors", rule[2])
      BY DEF Chosen
    <3> QED
      BY <2>0, ExprAlternatives DEF Predict, Follow, Starts, StmtStarts, ExprStarts, ExprEnds, AfterStmt, Statements, Factors,
       TokenTypes, SignSyms, MultDivSyms, RelOpSyms
  <2> QED
    BY <2>1, <2>2, ChosenKeeps DEF Justified
<1>6. c \in MultDivSyms =>
           Justified("mult-div-factors", <<"mult-div-factor", "act", "mult-div-factors">>, c)
  <2>0. SUFFICES ASSUME c \in MultDivSyms PROVE Justified("mult-div-factors", <<"mult-div-factor", "act", "mult-div-factors">>, c)
    OBVIOUS
  <2>1. "mult-div-factors" \in Nonterminals /\ <<"mult-div-factors", <<"mult-div-factor", "act", "mult-div-factors">>>> \in RelaxedRules
    BY DEF Nonterminals, Statements, Factors, RelaxedRules, DocumentedRules, ExprRules
  <2>2. Chosen("mult-div-factors", <<"mult-div-factor", "act", "mult-div-factors">>, c)
    <3> SUFFICES ASSUME NEW rule \in DocumentedRules, rule[1] = "mult-div-factors", rule[2] # <<"mult-div-factor", "act", "mult-div-factors">>
                 PROVE  c \notin Predict("mult-div-factors", rule[2])
      BY DEF Chosen
    <3> QED
      BY <2>0, ExprAlternatives DEF Predict, Follow, Starts, StmtStarts, ExprStarts, ExprEnds, AfterStmt, Statements, Factors,
       TokenTypes, SignSyms, MultDivSyms, RelOpSyms
  <2> QED
    BY <2>1, <2>2, ChosenKeeps DEF Justified
<1>7. c \in SignSyms => Justified("add-sub-term", <<c, "term", "act">>, c)
  <2>0. SUFFICES ASSUME c \in SignSyms PROVE Justified("add-sub-term", <<c, "term", "act">>, c)
    OBVIOUS
  <2>1. "add-sub-term" \in Nonterminals /\ <<"add-sub-term", <<c, "term", "act">>>> \in RelaxedRules
    BY <2>0 DEF Nonterminals, Statements, Factors, RelaxedRules, DocumentedRules, ExprRules
  <2>2. Chosen("add-sub-term", <<c, "term", "act">>, c)
    <3> SUFFICES ASSUME NEW rule \in DocumentedRules, rule[1] = "add-sub-term", rule[2] # <<c, "term", "act">>
                 PROVE  c \notin Predict("add-sub-term", rule[2])
      BY DEF Chosen
    <3> QED
      BY <2>0, ExprAlternatives DEF Predict, Follow, Starts, StmtStarts, ExprStarts, ExprEnds, AfterStmt, Statements, Factors,
       TokenTypes, SignSyms, MultDivSyms, RelOpSyms
  <2> QED
    BY <2>1, <2>2, ChosenKeeps DEF Justified
<1>8. c \in MultDivSyms => Justified("mult-div-factor", <<c, "factor", "act">>, c)
  <2>0. SUFFICES ASSUME c \in MultDivSyms PROVE Justified("mult-div-factor", <<c, "factor", "act">>, c)
    OBVIOUS
  <2>1. "mult-div-factor" \in Nonterminals /\ <<"mult-div-factor", <<c, "factor", "act">>>> \in RelaxedRules
    BY <2>0 DEF Nonterminals, Statements, Factors, RelaxedRules, DocumentedRules, ExprRules
  <2>2. Chosen("mult-div-factor", <<c, "factor", "act">>, c)
    <3> SUFFICES ASSUME NEW rule \in DocumentedRules, rule[1] = "mult-div-factor", rule[2] # <<c, "factor", "act">>
                 PROVE  c \notin Predict("mult-div-factor", rule[2])
      BY DEF Chosen
    <3> QED
      BY <2>0, ExprAlternatives DEF Predict, Follow, Starts, StmtStarts, ExprStarts, ExprEnds, AfterStmt, Statements, Factors,
       TokenTypes, SignSyms, MultDivSyms, RelOpSyms
  <2> QED
    BY <2>1, <2>2, ChosenKeeps DEF Justified
<1> QED
  BY <1>1, <1>2, <1>3, <1>4, <1>5, <1>6, <1>7, <1>8

LEMMA FactorChoices ==
  ASSUME NEW c
  PROVE  /\ c = "identsym" => Justified("factor", <<"ident-expr">>, c)
         /\ c = "lparensym" => Justified("factor", <<"paren-expr">>, c)
         /\ Justified("ident-expr", <<"identsym", "act">>, c)
         /\ Justified("paren-expr", <<"lparensym", "expr", "rparensym", "act">>, c)
         /\ Justified("signed-number", <<"number">>, c)
         /\ c \in SignSyms => Justified("number", <<c, "unsigned-number">>, c)
         /\ c = "numbersym" => Justified("number", <<"numbersym", "act">>, c)
         /\ Justified("unsigned-number", <<"numbersym", "act">>, c)
<1>1. c = "identsym" => Justified("factor", <<"ident-expr">>, c)
  <2>0. SUFFICES ASSUME c = "identsym" PROVE Justified("factor", <<"ident-expr">>, c)
    OBVIOUS
  <2>1. "factor" \in Nonterminals /\ <<"factor", <<"ident-expr">>>> \in RelaxedRules
    BY DEF Nonterminals, Statements, Factors, RelaxedRules, DocumentedRules, FactorRules
  <2>2. Chosen("factor", <<"ident-expr">>, c)
    <3> SUFFICES ASSUME NEW rule \in DocumentedRules, rule[1] = "factor", rule[2] # <<"ident-expr">>
                 PROVE  c \notin Predict("factor", rule[2])
      BY DEF Chosen
    <3> QED
      BY <2>0, FactorAlternatives DEF Predict, Follow, Starts, StmtStarts, ExprStarts, ExprEnds, AfterStmt, Statements, Factors,
       TokenTypes, SignSyms, MultDivSyms, RelOpSyms
  <2> QED
    BY <2>1, <2>2, ChosenKeeps DEF Justified
<1>2. c = "lparensym" => Justified("factor", <<"paren-expr">>, c)
  <2>0. SUFFICES ASSUME c = "lparensym" PROVE Justified("factor", <<"paren-expr">>, c)
    OBVIOUS
  <2>1. "factor" \in Nonterminals /\ <<"factor", <<"paren-expr">>>> \in RelaxedRules
    BY DEF Nonterminals, Statements, Factors, RelaxedRules, DocumentedRules, FactorRules
  <2>2. Chosen("factor", <<"paren-expr">>, c)
    <3> SUFFICES ASSUME NEW rule \in DocumentedRules, rule[1] = "factor", rule[2] # <<"paren-expr">>
                 PROVE  c \notin Predict("factor", rule[2])
      BY DEF Chosen
    <3> QED
      BY <2>0, FactorAlternatives DEF Predict, Follow, Starts, StmtStarts, ExprStarts, ExprEnds, AfterStmt, Statements, Factors,
       TokenTypes, SignSyms, MultDivSyms, RelOpSyms
  <2> QED
    BY <2>1, <2>2, ChosenKeeps DEF Justified
<1>3. Justified("ident-expr", <<"identsym", "act">>, c)
  <2>1. "ident-expr" \in Nonterminals /\ <<"ident-expr", <<"identsym", "act">>>> \in RelaxedRules
    BY DEF Nonterminals, Statements, Factors, RelaxedRules, DocumentedRules, FactorRules
  <2>2. Chosen("ident-expr", <<"identsym", "act">>, c)
    BY FactorAlternatives DEF Chosen
  <2> QED
    BY <2>1, <2>2, ChosenKeeps DEF Justified
<1>4. Justified("paren-expr", <<"lparensym", "expr", "rparensym", "act">>, c)
  <2>1. "paren-expr" \in Nonterminals /\ <<"paren-expr", <<"lparensym", "expr", "rparensym", "act">>>> \in RelaxedRules
    BY DEF Nonterminals, Statements, Factors, RelaxedRules, DocumentedRules, FactorRules
  <2>2. Chosen("paren-expr", <<"lparensym", "expr", "rparensym", "act">>, c)
    BY FactorAlternatives DEF Chosen
  <2> QED
    BY <2>1, <2>2, ChosenKeeps DEF Justified
<1>5. Justified("signed-number", <<"number">>, c)
  <2>1. "signed-number" \in Nonterminals /\ <<"signed-number", <<"number">>>> \in RelaxedRules
    BY DEF Nonterminals, Statements, Factors, RelaxedRules, DocumentedRules, FactorRules
  <2>2. Chosen("signed-number", <<"number">>, c)
    BY FactorAlternatives DEF Chosen
  <2> QED
    BY <2>1, <2>2, ChosenKeeps DEF Justified
<1>6. c \in SignSyms => Justified("number", <<c, "unsigned-number">>, c)
  <2>0. SUFFICES ASSUME c \in SignSyms PROVE Justified("number", <<c, "unsigned-number">>, c)
    OBVIOUS
  <2>1. "number" \in Nonterminals /\ <<"number", <<c, "unsigned-number">>>> \in RelaxedRules
    BY <2>0 DEF Nonterminals, Statements, Factors, RelaxedRules, DocumentedRules, FactorRules
  <2>2. Chosen("number", <<c, "unsigned-number">>, c)
    <3> SUFFICES ASSUME NEW rule \in DocumentedRules, rule[1] = "number", rule[2] # <<c, "unsigned-number">>
                 PROVE  c \notin Predict("number", rule[2])
      BY DEF Chosen
    <3> QED
      BY <2>0, FactorAlternatives DEF Predict, Follow, Starts, StmtStarts, ExprStarts, ExprEnds, AfterStmt, Statements, Factors,
       TokenTypes, SignSyms, MultDivSyms, RelOpSyms
  <2> QED
    BY <2>1, <2>2, ChosenKeeps DEF Justified
<1>7. c = "numbersym" => Justified("number", <<"numbersym", "act">>, c)
  <2>0. SUFFICES ASSUME c = "numbersym" PROVE Justified("number", <<"numbersym", "act">>, c)
    OBVIOUS
  <2>1. "number" \in Nonterminals /\ <<"number", <<"numbersym", "act">>>> \in RelaxedRules
    BY DEF Nonterminals, Statements, Factors, RelaxedRules, DocumentedRules, FactorRules
  <2>2. Chosen("number", <<"numbersym", "act">>, c)
    <3> SUFFICES ASSUME NEW rule \in DocumentedRules, rule[1] = "number", rule[2] # <<"numbersym", "act">>
                 PROVE  c \notin Predict("number", rule[2])
      BY DEF Chosen
    <3> QED
      BY <2>0, FactorAlternatives DEF Predict, Follow, Starts, StmtStarts, ExprStarts, ExprEnds, AfterStmt, Statements, Factors,
       TokenTypes, SignSyms, MultDivSyms, RelOpSyms
  <2> QED
    BY <2>1, <2>2, ChosenKeeps DEF Justified
<1>8. Justified("unsigned-number", <<"numbersym", "act">>, c)
  <2>1. "unsigned-number" \in Nonterminals /\ <<"unsigned-number", <<"numbersym", "act">>>> \in RelaxedRules
    BY DEF Nonterminals, Statements, Factors, RelaxedRules, DocumentedRules, FactorRules
  <2>2. Chosen("unsigned-number", <<"numbersym", "act">>, c)
    BY FactorAlternatives DEF Chosen
  <2> QED
    BY <2>1, <2>2, ChosenKeeps DEF Justified
<1> QED
  BY <1>1, <1>2, <1>3, <1>4, <1>5, <1>6, <1>7, <1>8

\* A number with a sign is both a <signed-number> and a <number>: whichever the
\* parser takes, it gives up nothing.
LEMMA SignedIsNumber ==
  ASSUME NEW f, Form(f), f # <<>>, f[1] = "factor"
  PROVE  \A g : g \in Settled(DocumentedRightSides, {<<"signed-number">> \o Tail(f)})
                  <=> g \in Settled(DocumentedRightSides, {<<"number">> \o Tail(f)})
<1>0. PICK t : t = Tail(f)
  OBVIOUS
<1> DEFINE h == <<"signed-number">> \o t
<1>1. <<"factor", <<"signed-number">>>> \in DocumentedRules
  BY DEF DocumentedRules, FactorRules
<1>2. RuleFits("factor", <<"signed-number">>)
  BY <1>1, DocumentedFits DEF FitsGrammar
<1>3. Form(h)
  BY <1>0, <1>2, RewriteForm
<1>4. Form(t) /\ t \in Seq(GrammarSymbols)
  BY <1>0, FormTail DEF Form
<1>5. h # <<>> /\ h[1] = "signed-number" /\ Tail(h) = t
  <2>1. "signed-number" \in GrammarSymbols
    BY DEF GrammarSymbols, Nonterminals, Factors
  <2> QED
    BY <1>4, <2>1
<1>6. DocumentedRules \in GrammarRules /\ h[1] \in Nonterminals
  BY <1>5 DEF GrammarRules, Nonterminals, Factors
<1> HIDE DEF h
<1>7. \A g : g \in Settled(DocumentedRightSides, {h})
               <=> \E rhs \in DocumentedRightSides[h[1]] :
                      g \in Settled(DocumentedRightSides, {rhs \o t})
  BY <1>3, <1>5, <1>6, SettledOpen DEF DocumentedRightSides
<1>8. \A rhs : rhs \in DocumentedRightSides[h[1]]
                 <=> \E rule \in DocumentedRules : rule[1] = h[1] /\ rule[2] = rhs
  BY <1>6, RightSidesAre DEF DocumentedRightSides
<1>9. <<"signed-number", <<"number">>>> \in DocumentedRules
  BY DEF DocumentedRules, FactorRules
<1>10. \A rhs : rhs \in DocumentedRightSides[h[1]] <=> rhs = <<"number">>
  BY <1>5, <1>8, <1>9, FactorAlternatives
<1>11. ASSUME NEW g
       PROVE  g \in Settled(DocumentedRightSides, {h})
                <=> g \in Settled(DocumentedRightSides, {<<"number">> \o t})
  <2>1. g \in Settled(DocumentedRightSides, {h})
          <=> \E rhs \in DocumentedRightSides[h[1]] :
                 g \in Settled(DocumentedRightSides, {rhs \o t})
    BY <1>7
  <2>2. <<"number">> \in DocumentedRightSides[h[1]]
    BY <1>10
  <2> QED
    BY <1>10, <2>1, <2>2
<1>12. h = <<"signed-number">> \o Tail(f) /\ t = Tail(f)
  BY <1>0 DEF h
<1> QED
  BY ONLY <1>11, <1>12

LEMMA NumberChoices ==
  ASSUME NEW c
  PROVE  /\ c \in SignSyms => Justified("factor", <<"signed-number">>, c)
         /\ c = "numbersym" => Justified("factor", <<"number">>, c)
<1>1. ASSUME c \in SignSyms \cup {"numbersym"},
             NEW f, Form(f), f # <<>>, f[1] = "factor",
             NEW g \in Settled(DocumentedRightSides, {f}), g = <<>> \/ g[1] = c
      PROVE  /\ g \in Settled(DocumentedRightSides, {<<"signed-number">> \o Tail(f)})
             /\ g \in Settled(DocumentedRightSides, {<<"number">> \o Tail(f)})
  <2>1. f[1] \in Nonterminals
    BY <1>1 DEF Nonterminals, Factors
  <2>2. PICK rule \in DocumentedRules :
          rule[1] = f[1] /\ g \in Settled(DocumentedRightSides, {rule[2] \o Tail(f)})
    BY <1>1, <2>1, OpenDocumented
  <2>3. g # <<>> /\ g[1] \in Predict(f[1], rule[2])
    BY <1>1, <2>1, <2>2, Predicted
  <2>4. rule[2] \in {<<"ident-expr">>, <<"paren-expr">>, <<"signed-number">>, <<"number">>}
    BY <1>1, <2>2, FactorAlternatives
  <2>5. /\ c \notin Predict("factor", <<"ident-expr">>)
        /\ c \notin Predict("factor", <<"paren-expr">>)
    BY <1>1 DEF Predict, Starts, TokenTypes, SignSyms, MultDivSyms, RelOpSyms
  <2>6. rule[2] \in {<<"signed-number">>, <<"number">>}
    BY <1>1, <2>3, <2>4, <2>5
  <2> QED
    BY <1>1, <2>2, <2>6, SignedIsNumber
<1>2. /\ <<"factor", <<"signed-number">>>> \in RelaxedRules
      /\ <<"factor", <<"number">>>> \in RelaxedRules
      /\ "factor" \in Nonterminals
  BY DEF RelaxedRules, DocumentedRules, FactorRules, Nonterminals, Factors
<1> QED
  BY <1>1, <1>2 DEF Justified, KeepsWays

-----------------------------------------------------------------------------
(* What an error message may say was expected.                             *)

\* A form that begins with A can be continued with t.
CanLead(A, t) ==
  \A f : Form(f) /\ f # <<>> /\ f[1] = A =>
    \E g \in Settled(RelaxedRightSides, {f}) : g # <<>> /\ g[1] = t /\ Form(g)

LEMMA TerminalLeads ==
  ASSUME NEW t \in TokenTypes
  PROVE  CanLead(t, t)
<1> SUFFICES ASSUME NEW f, Form(f), f # <<>>, f[1] = t
             PROVE  f \in Settled(RelaxedRightSides, {f})
  BY DEF CanLead
<1>1. IsSettled(f)
  BY DEF IsSettled, Form
<1> QED
  BY <1>1, SettledSettled

LEMMA RuleLeads ==
  ASSUME NEW A \in Nonterminals, NEW rhs, <<A, rhs>> \in RelaxedRules, rhs # <<>>,
         NEW t, CanLead(rhs[1], t)
  PROVE  CanLead(A, t)
<1> SUFFICES ASSUME NEW f, Form(f), f # <<>>, f[1] = A
             PROVE  \E g \in Settled(RelaxedRightSides, {f}) : g # <<>> /\ g[1] = t /\ Form(g)
  BY DEF CanLead
<1>1. A # "act" /\ RelaxedRules \in GrammarRules
  BY SymbolKinds DEF GrammarRules
<1>2. RuleFits(A, rhs)
  BY <1>1, RelaxedFits
<1>3. Form(rhs \o Tail(f)) /\ rhs \o Tail(f) # <<>>
  BY <1>1, <1>2, RewriteForm
<1>4. (rhs \o Tail(f))[1] = rhs[1]
  <2>1. rhs \in Seq(GrammarSymbols) /\ Tail(f) \in Seq(GrammarSymbols)
    BY <1>2 DEF RuleFits, Form
  <2> QED
    BY <2>1
<1>5. PICK g \in Settled(RelaxedRightSides, {rhs \o Tail(f)}) : g # <<>> /\ g[1] = t /\ Form(g)
  BY <1>3, <1>4 DEF CanLead
<1>6. rhs \in RelaxedRightSides[A]
  <2>1. \E rule \in RelaxedRules : rule[1] = A /\ rule[2] = rhs
    OBVIOUS
  <2> QED
    BY <1>1, <2>1, RightSidesAre DEF RelaxedRightSides
<1>7. g \in Settled(RelaxedRightSides, {f})
  BY <1>1, <1>5, <1>6, SettledOpen DEF RelaxedRightSides
<1> QED
  BY <1>5, <1>7

\* The symbols at which the parser reports errors.
Committed == TokenTypes \cup {"stmt", "mult-div-factor", "add-sub-term", "factor",
                              "signed-number", "number"}

LEMMA StartsLead ==
  ASSUME NEW A \in Committed, NEW t \in Starts(A)
  PROVE  CanLead(A, t)
<1>1. CASE A \in TokenTypes
  BY <1>1, TerminalStarts, TerminalLeads
<1>2. /\ SignSyms \subseteq TokenTypes /\ MultDivSyms \subseteq TokenTypes
      /\ StmtStarts \subseteq TokenTypes
      /\ {"identsym", "lparensym", "numbersym"} \subseteq TokenTypes
  BY DEF SignSyms, MultDivSyms, StmtStarts, TokenTypes
<1>0. ProgramRules \cup ExprRules \cup StmtRules \cup FactorRules \subseteq RelaxedRules
  BY DEF RelaxedRules, DocumentedRules
<1>3. CASE A = "mult-div-factor"
  <2>1. t \in MultDivSyms
    BY <1>3 DEF Starts, TokenTypes
  <2>2. <<A, <<t, "factor", "act">>>> \in RelaxedRules /\ A \in Nonterminals
    BY <1>0, <1>3, <2>1 DEF ExprRules, Nonterminals
  <2>3. CanLead(t, t)
    BY <1>2, <2>1, TerminalLeads
  <2> QED
    BY <2>2, <2>3, RuleLeads
<1>4. CASE A = "add-sub-term"
  <2>1. t \in SignSyms
    BY <1>4 DEF Starts, TokenTypes
  <2>2. <<A, <<t, "term", "act">>>> \in RelaxedRules /\ A \in Nonterminals
    BY <1>0, <1>4, <2>1 DEF ExprRules, Nonterminals
  <2>3. CanLead(t, t)
    BY <1>2, <2>1, TerminalLeads
  <2> QED
    BY <2>2, <2>3, RuleLeads
<1>5. CASE A = "stmt"
  <2>1. t \in StmtStarts
    BY <1>5 DEF Starts, TokenTypes
  <2>2. t \in DOMAIN StmtOf
    BY <2>1 DEF StmtStarts, StmtOf
  <2>3. \E rhs : <<StmtOf[t], rhs>> \in RelaxedRules /\ rhs # <<>> /\ rhs[1] = t
    <3>1. /\ <<"assign-stmt", <<"identsym", "becomessym", "expr", "act">>>> \in StmtRules
          /\ <<"begin-stmt", <<"beginsym", "stmt", "act", "stmt-list", "act", "act",
                              "endsym", "act">>>> \in StmtRules
          /\ <<"if-stmt", <<"ifsym", "condition", "thensym", "stmt", "elsesym", "stmt",
                           "act">>>> \in StmtRules
          /\ <<"while-stmt", <<"whilesym", "condition", "dosym", "stmt", "act">>>> \in StmtRules
          /\ <<"read-stmt", <<"readsym", "read-ident">>>> \in StmtRules
          /\ <<"write-stmt", <<"writesym", "expr", "act">>>> \in StmtRules
          /\ <<"skip-stmt", <<"skipsym", "act">>>> \in StmtRules
      BY DEF StmtRules
    <3>2. \A rhs : <<StmtOf[t], rhs>> \in StmtRules => <<StmtOf[t], rhs>> \in RelaxedRules
      BY <1>0
    <3>3. t \in {"identsym", "beginsym", "ifsym", "whilesym", "readsym", "writesym",
                "skipsym"}
      BY <2>1 DEF StmtStarts
    <3>4. CASE t = "identsym"
      <4>1. StmtOf[t] = "assign-stmt"
        BY <3>4 DEF StmtOf
      <4> WITNESS <<"identsym", "becomessym", "expr", "act">>
      <4> QED
        BY ONLY <3>1, <3>2, <3>4, <4>1
    <3>5. CASE t = "beginsym"
      <4>1. StmtOf[t] = "begin-stmt"
        BY <3>5 DEF StmtOf
      <4> WITNESS <<"beginsym", "stmt", "act", "stmt-list", "act", "act", "endsym", "act">>
      <4> QED
        BY ONLY <3>1, <3>2, <3>5, <4>1
    <3>6. CASE t = "ifsym"
      <4>1. StmtOf[t] = "if-stmt"
        BY <3>6 DEF StmtOf
      <4> WITNESS <<"ifsym", "condition", "thensym", "stmt", "elsesym", "stmt", "act">>
      <4> QED
        BY ONLY <3>1, <3>2, <3>6, <4>1
    <3>7. CASE t = "whilesym"
      <4>1. StmtOf[t] = "while-stmt"
        BY <3>7 DEF StmtOf
      <4> WITNESS <<"whilesym", "condition", "dosym", "stmt", "act">>
      <4> QED
        BY ONLY <3>1, <3>2, <3>7, <4>1
    <3>8. CASE t = "readsym"
      <4>1. StmtOf[t] = "read-stmt"
        BY <3>8 DEF StmtOf
      <4> WITNESS <<"readsym", "read-ident">>
      <4> QED
        BY ONLY <3>1, <3>2, <3>8, <4>1
    <3>9. CASE t = "writesym"
      <4>1. StmtOf[t] = "write-stmt"
        BY <3>9 DEF StmtOf
      <4> WITNESS <<"writesym", "expr", "act">>
      <4> QED
        BY ONLY <3>1, <3>2, <3>9, <4>1
    <3>10. CASE t = "skipsym"
      <4>1. StmtOf[t] = "skip-stmt"
        BY <3>10 DEF StmtOf
      <4> WITNESS <<"skipsym", "act">>
      <4> QED
        BY ONLY <3>1, <3>2, <3>10, <4>1
    <3> QED
      BY <3>3, <3>4, <3>5, <3>6, <3>7, <3>8, <3>9, <3>10
  <2>4. CanLead(t, t) /\ StmtOf[t] \in Nonterminals
    BY <1>2, <2>1, <2>2, TerminalLeads DEF StmtOf, Nonterminals, Statements
  <2>5. CanLead(StmtOf[t], t)
    BY <2>3, <2>4, RuleLeads
  <2>6. <<"stmt", <<StmtOf[t]>>>> \in RelaxedRules /\ "stmt" \in Nonterminals
    BY <1>0, <2>2 DEF StmtRules, StmtOf, Nonterminals, Statements
  <2>7. <<StmtOf[t]>> # <<>> /\ <<StmtOf[t]>>[1] = StmtOf[t]
    OBVIOUS
  <2> QED
    BY <1>5, <2>5, <2>6, <2>7, RuleLeads
<1>6. ASSUME NEW u \in SignSyms \cup {"numbersym"}
      PROVE  CanLead("number", u)
  <2>1. /\ u \in SignSyms => <<"number", <<u, "unsigned-number">>>> \in RelaxedRules
        /\ <<"number", <<"numbersym", "act">>>> \in RelaxedRules
        /\ "number" \in Nonterminals
    BY <1>0 DEF FactorRules, Nonterminals, Factors
  <2>2. CanLead(u, u)
    BY <1>2, TerminalLeads
  <2>3. CASE u \in SignSyms
    BY <2>1, <2>2, <2>3, RuleLeads
  <2>4. CASE u = "numbersym"
    BY <2>1, <2>2, <2>4, RuleLeads
  <2> QED
    BY <2>3, <2>4
<1>7. ASSUME NEW u \in SignSyms \cup {"numbersym"}
      PROVE  CanLead("signed-number", u)
  <2>1. <<"signed-number", <<"number">>>> \in RelaxedRules /\ "signed-number" \in Nonterminals
    BY <1>0 DEF FactorRules, Nonterminals, Factors
  <2> QED
    BY <1>6, <2>1, RuleLeads
<1>8. CASE A \in {"number", "signed-number"}
  <2>1. t \in SignSyms \cup {"numbersym"}
    BY <1>8 DEF Starts, TokenTypes
  <2> QED
    BY <1>6, <1>7, <1>8, <2>1
<1>9. CASE A = "factor"
  <2>1. t \in {"identsym", "lparensym", "numbersym"} \cup SignSyms
    BY <1>9 DEF Starts, TokenTypes, ExprStarts
  <2>2. /\ <<"factor", <<"ident-expr">>>> \in RelaxedRules
        /\ <<"factor", <<"paren-expr">>>> \in RelaxedRules
        /\ <<"factor", <<"number">>>> \in RelaxedRules
        /\ <<"ident-expr", <<"identsym", "act">>>> \in RelaxedRules
        /\ <<"paren-expr", <<"lparensym", "expr", "rparensym", "act">>>> \in RelaxedRules
        /\ {"factor", "ident-expr", "paren-expr"} \subseteq Nonterminals
    BY <1>0 DEF FactorRules, Nonterminals, Factors
  <2>3. CanLead(t, t)
    BY <1>2, <2>1, TerminalLeads
  <2>4. CASE t = "identsym"
    <3>1. CanLead("ident-expr", t)
      BY <2>2, <2>3, <2>4, RuleLeads
    <3> QED
      BY <1>9, <2>2, <3>1, RuleLeads
  <2>5. CASE t = "lparensym"
    <3>1. CanLead("paren-expr", t)
      BY <2>2, <2>3, <2>5, RuleLeads
    <3> QED
      BY <1>9, <2>2, <3>1, RuleLeads
  <2>6. CASE t \in SignSyms \cup {"numbersym"}
    <3>1. CanLead("number", t)
      BY <1>6, <2>6
    <3> QED
      BY <1>9, <2>2, <3>1, RuleLeads
  <2> QED
    BY <2>1, <2>4, <2>5, <2>6
<1> QED
  BY <1>1, <1>3, <1>4, <1>5, <1>8, <1>9 DEF Committed
=============================================================================
