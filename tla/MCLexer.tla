------------------------------ MODULE MCLexer ------------------------------
(***************************************************************************)
(* Small files for the lexer: all files of up to length characters of the  *)
(* alphabet of a family.                                                   *)
(***************************************************************************)
EXTENDS LexerProps

CONSTANT Families  \* records [alphabet, length]

\* Blanks, comments, words and numbers; "do" and "odd" are reserved words.
Layout == [alphabet |-> {" ", "\n", "#", "d", "o", "1", "4"}, length |-> 5]

\* Everything that starts a token of one or two characters, and some that
\* start none.
Symbols == [alphabet |-> {".", ";", ",", "=", "(", ")", "<", ">", "+", "-", "*",
                          "/", ":", "x", "\n", "\r", "%"},
            length |-> 3]

\* With the byte that is no char.
Bytes == [alphabet |-> {Byte255, " ", "#", "x"}, length |-> 3]

Words == [alphabet |-> Layout.alphabet, length |-> 3]

LayoutAndSymbols == {Layout, Symbols}
OnlyBytes == {Bytes}
OnlyWords == {Words}

SmallFiles ==
  UNION {UNION {[1 .. n -> f.alphabet] : n \in 0 .. f.length} : f \in Families}

NoLeftovers == {NUL}
SomeLeftovers == {NUL, "d"}
=============================================================================
