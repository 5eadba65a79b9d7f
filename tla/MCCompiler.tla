----------------------------- MODULE MCCompiler -----------------------------
(* Small files for the compiler.                                           *)
EXTENDS CompilerProps

Punct(ts) == {[typ |-> t, text |-> NoText, value |-> 0] : t \in ts}

OneName == {"x"}

\* Some of every kind of token.
FewLexemes == Punct({"varsym", "semisym", "beginsym", "endsym",
                     "skipsym", "readsym", "writesym", "plussym", "minussym",
                     "lparensym", "rparensym", "oddsym", "whilesym", "dosym",
                     "periodsym"})
                \cup {[typ |-> "identsym", text |-> "x", value |-> 0],
                      [typ |-> "numbersym", text |-> "digits", value |-> 1]}
=============================================================================
