---------------------------- MODULE MCRoundTrip ----------------------------
(***************************************************************************)
(* Small files for the round trip.  A family of files is a set of tokens   *)
(* and a bound on how many of them a file has; the first file of each      *)
(* behaviour is of one family.                                             *)
(***************************************************************************)
EXTENDS RoundTrip

CONSTANT Families  \* records [lexemes, length]

VARIABLE family

TwoNames == {"x", "y"}
Punct(ts) == {[typ |-> t, text |-> NoText, value |-> 0] : t \in ts}
Ident(names) == {[typ |-> "identsym", text |-> x, value |-> 0] : x \in names}
Number(ns) == {[typ |-> "numbersym", text |-> "digits", value |-> n] : n \in ns}

\* Expressions: operators, signs and parentheses.
Expressions == [lexemes |-> Punct({"writesym", "plussym", "minussym", "multsym",
                                   "lparensym", "rparensym", "periodsym"})
                              \cup Number({1}),
                length |-> 9]

\* Declarations and uses.
NamesAndUses == [lexemes |-> Punct({"constsym", "varsym", "commasym", "semisym", "eqsym",
                                    "becomessym", "readsym", "periodsym"})
                               \cup Ident(TwoNames) \cup Number({1}),
                 length |-> 11]

\* Lists of conditionals.
Branches == [lexemes |-> Punct({"beginsym", "semisym", "endsym", "ifsym", "oddsym",
                                "thensym", "elsesym", "skipsym", "periodsym"})
                           \cup Number({1}),
             length |-> 12]

\* Lists of loops.
Loops == [lexemes |-> Punct({"beginsym", "semisym", "endsym", "whilesym", "oddsym",
                             "lessym", "dosym", "skipsym", "periodsym"})
                        \cup Number({1}),
          length |-> 10]

AllFamilies == {Expressions, NamesAndUses, Branches, Loops}
AllLexemes == UNION {f.lexemes : f \in AllFamilies}

-----------------------------------------------------------------------------
\* The token read from the first file is one of the family.
ReadsFamily ==
  IF first = NotYet /\ currToken' # currToken /\ currToken'.typ # "eofsym"
  THEN /\ currToken'.loc <= family.length
       /\ currToken' \in {Token(x, currToken'.loc) : x \in family.lexemes}
  ELSE TRUE

\* A message begins with the name of the file that it is about.
ReadsMessage ==
  first # NotYet /\ currToken' # currToken /\ currToken'.loc > Len(first.words)
    => \/ currToken'.typ = "eofsym"
       \/ currToken' \in {Token(x, currToken'.loc) : x \in Ident({"x"})}

MCInit == RoundTripInit /\ family \in Families
MCNext == RoundTripNext /\ ReadsFamily /\ ReadsMessage /\ UNCHANGED family
MCSpec == MCInit /\ [][MCNext]_<<allVars, family>>
=============================================================================
