------------------------------- MODULE Tokens -------------------------------
(* The tokens of token.h.                                                  *)
EXTENDS Integers

\* token_type
TokenTypes ==
  {"periodsym", "constsym", "semisym", "commasym", "varsym", "procsym",
   "becomessym", "callsym", "beginsym", "endsym", "ifsym", "thensym",
   "elsesym", "whilesym", "dosym", "readsym", "writesym", "skipsym", "oddsym",
   "lparensym", "rparensym", "identsym", "numbersym", "eqsym", "neqsym",
   "lessym", "leqsym", "gtrsym", "geqsym", "plussym", "minussym", "multsym",
   "divsym", "eofsym"}

SignSyms == {"plussym", "minussym"}

MultDivSyms == {"multsym", "divsym"}
RelOpSyms == {"eqsym", "neqsym", "lessym", "leqsym", "gtrsym", "geqsym"}

NoText == "no-text"     \* the text field is NULL
Texts == STRING \cup {NoText}

\* A token of the file.  Its line and column become one location, the ordinal
\* of the token in the file: the parser only copies locations.
Token(x, n) == [typ |-> x.typ, text |-> x.text, value |-> x.value, loc |-> n]
EofToken(n) == [typ |-> "eofsym", text |-> NoText, value |-> 0, loc |-> n]
\* A zeroed static variable of type token.
ZeroToken == [typ |-> "periodsym", text |-> NoText, value |-> 0, loc |-> 0]

TokenRecords == [typ : TokenTypes, text : Texts, value : Int, loc : Nat]
=============================================================================
