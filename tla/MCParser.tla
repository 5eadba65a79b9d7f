------------------------------ MODULE MCParser ------------------------------
(***************************************************************************)
(* Small inputs for the parser.  A family of inputs is a set of tokens and *)
(* a bound on how many of them a file has; each behaviour reads a file of  *)
(* one family.                                                             *)
(***************************************************************************)
EXTENDS ParserProps

CONSTANT Families  \* records [lexemes, length]

VARIABLE family

Punct(ts) == {[typ |-> t, text |-> NoText, value |-> 0] : t \in ts}
Ident(names) == {[typ |-> "identsym", text |-> x, value |-> 0] : x \in names}
Number(ns) == {[typ |-> "numbersym", text |-> "digits", value |-> n] : n \in ns}

AllLexemes == Punct(TokenTypes \ {"identsym", "numbersym", "eofsym"})
                \cup Ident({"x", "y"}) \cup Number({1})

\* Every kind of token.
AnyTokens == [lexemes |-> AllLexemes \ Ident({"y"}), length |-> 5]

\* Expressions: write e.
Expressions == [lexemes |-> Punct({"writesym", "lparensym", "rparensym", "plussym",
                                   "minussym", "multsym", "periodsym"})
                              \cup Ident({"x"}) \cup Number({1}),
                length |-> 9]

\* Declarations, before the statement skip.
Declarations == [lexemes |-> Punct({"constsym", "varsym", "commasym", "semisym",
                                    "eqsym", "skipsym", "periodsym"})
                               \cup Ident({"x", "y"}) \cup Number({1}),
                 length |-> 13]

\* Statements: nested lists, conditionals and loops.
Statements == [lexemes |-> Punct({"beginsym", "semisym", "endsym", "skipsym", "ifsym",
                                  "thensym", "elsesym", "whilesym", "dosym", "readsym",
                                  "becomessym", "oddsym", "lessym", "periodsym"})
                             \cup Ident({"x"}),
               length |-> 9]

AllFamilies == {AnyTokens, Expressions, Declarations, Statements}
OnlyAnyTokens == {AnyTokens}
OnlyDeclarations == {Declarations}

-----------------------------------------------------------------------------
\* The token read is one of the family, or the end of the file.
ReadsFamily ==
  IF currToken' = currToken \/ currToken'.typ = "eofsym" THEN TRUE
  ELSE /\ currToken'.loc <= family.length
       /\ currToken' \in {Token(x, currToken'.loc) : x \in family.lexemes}

MCInit == Init /\ family \in Families
MCStep == Step /\ ReadsFamily /\ UNCHANGED family
MCNext == MCStep \/ (Stay /\ UNCHANGED family)
MCSpec == MCInit /\ [][MCNext]_<<vars, family>> /\ WF_<<vars, family>>(MCStep)
=============================================================================
