------------------------------ MODULE Grammar ------------------------------
(***************************************************************************)
(* The PL/0 grammar of the comments of parser.c, and a recognizer for it.  *)
(*                                                                         *)
(* A repetition {x} of the comments is a right recursive nonterminal, and  *)
(* the nonterminal "act", which derives only the empty string, marks the   *)
(* places of the translation scheme where the parser builds the tree.      *)
(***************************************************************************)
EXTENDS Tokens, Sequences

(* The productions, as pairs <<nonterminal, right-hand side>>.             *)

ProgramRules ==
  {<<"program", <<"block", "periodsym">>>>,
   <<"block", <<"const-decls", "var-decls", "stmts", "act">>>>,
   <<"stmts", <<"stmt">>>>,
   <<"act", <<>>>>}

ConstDeclRules ==
  {<<"const-decls", <<"more-const-decls">>>>,
   <<"more-const-decls", <<>>>>,
   <<"more-const-decls",
     <<"constsym", "const-decl", "act", "semisym", "more-const-decls">>>>,
   <<"const-decl", <<"const-def", "act", "comma-const-defs">>>>,
   <<"comma-const-defs", <<>>>>,
   <<"comma-const-defs", <<"commasym", "const-def", "act", "comma-const-defs">>>>,
   <<"const-def", <<"identsym", "eqsym", "const-number">>>>,
   <<"const-number", <<"numbersym", "act">>>>}

VarDeclRules ==
  {<<"var-decls", <<"more-var-decls">>>>,
   <<"more-var-decls", <<>>>>,
   <<"more-var-decls",
     <<"varsym", "var-decl", "act", "semisym", "more-var-decls">>>>,
   <<"var-decl", <<"var-ident", "act", "comma-idents">>>>,
   <<"comma-idents", <<>>>>,
   <<"comma-idents", <<"commasym", "var-ident", "act", "comma-idents">>>>,
   <<"var-ident", <<"identsym", "act">>>>}

StmtRules ==
  {<<"stmt", <<s>>>> : s \in {"assign-stmt", "begin-stmt", "if-stmt",
                              "while-stmt", "read-stmt", "write-stmt",
                              "skip-stmt"}}
  \cup
  {<<"assign-stmt", <<"identsym", "becomessym", "expr", "act">>>>,
   <<"begin-stmt",
     <<"beginsym", "stmt", "act", "stmt-list", "act", "act", "endsym", "act">>>>,
   <<"stmt-list", <<"semi-stmts">>>>,
   <<"semi-stmts", <<>>>>,
   <<"semi-stmts", <<"semisym", "stmt", "act", "semi-stmts">>>>,
   <<"if-stmt",
     <<"ifsym", "condition", "thensym", "stmt", "elsesym", "stmt", "act">>>>,
   <<"while-stmt", <<"whilesym", "condition", "dosym", "stmt", "act">>>>,
   <<"read-stmt", <<"readsym", "read-ident">>>>,
   <<"read-ident", <<"identsym", "act">>>>,
   <<"write-stmt", <<"writesym", "expr", "act">>>>,
   <<"skip-stmt", <<"skipsym", "act">>>>}

ConditionRules ==
  {<<"condition", <<"oddsym", "expr", "act">>>>,
   <<"condition", <<"expr", "rel-op-expr">>>>}
  \cup {<<"rel-op-expr", <<r, "expr", "act">>>> : r \in RelOpSyms}

ExprRules ==
  {<<"expr", <<"term", "add-sub-terms">>>>,
   <<"add-sub-terms", <<>>>>,
   <<"add-sub-terms", <<"add-sub-term", "act", "add-sub-terms">>>>,
   <<"term", <<"factor", "mult-div-factors">>>>,
   <<"mult-div-factors", <<>>>>,
   <<"mult-div-factors", <<"mult-div-factor", "act", "mult-div-factors">>>>}
  \cup {<<"add-sub-term", <<s, "term", "act">>>> : s \in SignSyms}
  \cup {<<"mult-div-factor", <<s, "factor", "act">>>> : s \in MultDivSyms}

FactorRules ==
  {<<"factor", <<f>>>> : f \in {"ident-expr", "paren-expr", "signed-number",
                                "number"}}
  \cup
  {<<"ident-expr", <<"identsym", "act">>>>,
   <<"paren-expr", <<"lparensym", "expr", "rparensym", "act">>>>,
   <<"signed-number", <<"number">>>>,
   <<"number", <<"numbersym", "act">>>>}
  \cup {<<"number", <<s, "unsigned-number">>>> : s \in SignSyms}
  \cup {<<"unsigned-number", <<"numbersym", "act">>>>}

\* The grammar of the comments.
DocumentedRules ==
  ProgramRules \cup ConstDeclRules \cup VarDeclRules \cup StmtRules
    \cup ConditionRules \cup ExprRules \cup FactorRules

\* Its relaxation in which the <rel-op> of a <condition> may be missing.
RelaxedRules == DocumentedRules \cup {<<"rel-op-expr", <<"expr", "act">>>>}

-----------------------------------------------------------------------------
(* A recognizer, for judging the parser's verdicts.                        *)

\* The right-hand sides of each nonterminal.
RightSides(rules) ==
  [A \in {rule[1] : rule \in rules} |->
     {rule[2] : rule \in {r \in rules : r[1] = A}}]

DocumentedRightSides == RightSides(DocumentedRules)
RelaxedRightSides == RightSides(RelaxedRules)

\* A form without the steps of the translation at its head: they derive nothing.
SkipActs(form) ==
  LET Leads(n) == /\ \A k \in 1 .. n : form[k] = "act"
                  /\ n = Len(form) \/ form[n + 1] # "act"
  IN  SubSeq(form, 1 + CHOOSE n \in 0 .. Len(form) : Leads(n), Len(form))

\* A form is settled when there is no nonterminal at its head to rewrite.
IsSettled(form) == form = <<>> \/ Head(form) \in TokenTypes

Rewrites(rightSides, form) ==
  IF IsSettled(form) THEN {form}
  ELSE {SkipActs(rhs \o Tail(form)) : rhs \in rightSides[Head(form)]}

Round(rightSides, forms) ==
  IF \A f \in forms : IsSettled(f) THEN forms
  ELSE UNION {Rewrites(rightSides, f) : f \in forms}

\* The forms that are empty or start with a terminal, reachable from forms by
\* rewriting heads.  Nine rounds are enough: the longest way to a terminal is
\* that from "program" to the identifier of an assignment.
Settled(rightSides, forms) ==
  LET Three(fs) == Round(rightSides, Round(rightSides, Round(rightSides, fs)))
  IN  Three(Three(Three({SkipActs(f) : f \in forms})))

\* The settled forms left once the terminals of w have been derived.
FormsAfter(rightSides, w) ==
  LET after[i \in 0 .. Len(w)] ==
        IF i = 0 THEN Settled(rightSides, {<<"program">>})
        ELSE Settled(rightSides, {Tail(f) : f \in {g \in after[i - 1] :
                                                     g # <<>> /\ g[1] = w[i]}})
  IN  after[Len(w)]

Derivable(rightSides, w) == <<>> \in FormsAfter(rightSides, w)
ViablePrefix(rightSides, w) == FormsAfter(rightSides, w) # {}
=============================================================================
