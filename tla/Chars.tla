------------------------------- MODULE Chars -------------------------------
(* Characters, texts and the reserved words of reserved.c.                 *)
EXTENDS Tokens, Sequences

\* The classes of ctype.h.
Letters == {"a", "b", "c", "d", "e", "f", "g", "h", "i", "j", "k", "l", "m",
            "n", "o", "p", "q", "r", "s", "t", "u", "v", "w", "x", "y", "z",
            "A", "B", "C", "D", "E", "F", "G", "H", "I", "J", "K", "L", "M",
            "N", "O", "P", "Q", "R", "S", "T", "U", "V", "W", "X", "Y", "Z"}
DigitChars == <<"0", "1", "2", "3", "4", "5", "6", "7", "8", "9">>
Digits == {DigitChars[d] : d \in 1 .. 10}
Newline == "\n"
VerticalTab == "VT"  \* a model value: TLA+ has no escape for this character
Spaces == {" ", "\t", "\r", "\f", VerticalTab, Newline}

isalpha(c) == c \in Letters
isdigit(c) == c \in Digits
isalnum(c) == isalpha(c) \/ isdigit(c)
isspace(c) == c \in Spaces

\* The number that a sequence of digits denotes.
Value(digits) ==
  LET val[n \in 0 .. Len(digits)] ==
        IF n = 0 THEN 0
        ELSE 10 * val[n - 1] + (CHOOSE d \in 0 .. 9 : DigitChars[d + 1] = digits[n])
  IN  val[Len(digits)]

-----------------------------------------------------------------------------
\* reserved_words and reserved_types
reserved_words ==
  << <<"c", "o", "n", "s", "t">>, <<"v", "a", "r">>,
     <<"p", "r", "o", "c", "e", "d", "u", "r", "e">>,
     <<"c", "a", "l", "l">>, <<"b", "e", "g", "i", "n">>, <<"e", "n", "d">>,
     <<"i", "f">>, <<"t", "h", "e", "n">>, <<"e", "l", "s", "e">>,
     <<"w", "h", "i", "l", "e">>, <<"d", "o">>,
     <<"r", "e", "a", "d">>, <<"w", "r", "i", "t", "e">>,
     <<"s", "k", "i", "p">>, <<"o", "d", "d">> >>

reserved_types ==
  <<"constsym", "varsym", "procsym", "callsym", "beginsym", "endsym", "ifsym",
    "thensym", "elsesym", "whilesym", "dosym", "readsym", "writesym",
    "skipsym", "oddsym">>

\* The type of the first reserved word equal to text, or identsym.
reserved_type(text) ==
  LET same == {i \in DOMAIN reserved_words : reserved_words[i] = text}
  IN  IF same = {} THEN "identsym"
      ELSE reserved_types[CHOOSE i \in same : \A j \in same : i <= j]

\* A token with its text as characters and its place in the file.
Lexeme(typ, text, value, line, column) ==
  [typ |-> typ, text |-> text, value |-> value, line |-> line, column |-> column]
=============================================================================
