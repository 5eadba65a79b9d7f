------------------------------ MODULE Scanner ------------------------------
(***************************************************************************)
(* What lexer.h promises: the tokens of a file, one at a time.             *)
(*                                                                         *)
(* The file is blanks (white space and comments) and tokens.  Each token is*)
(* the longest legal text at the first character after the blanks, at that *)
(* character's line and column, which are counted here from the file alone.*)
(***************************************************************************)
EXTENDS Chars, FiniteSets

CONSTANTS MaxIdentLength, MaxNumLength, ShrtMax

VARIABLES
  file,           \* the characters of the file
  tokens,         \* the tokens returned so far
  status          \* "open", "ended", "failed" or "stopped"

vars == <<file, tokens, status>>

-----------------------------------------------------------------------------
(* Places.                                                                 *)

End == Len(file) + 1
NewlinesBefore(i) == {k \in 1 .. i - 1 : file[k] = Newline}
LineOf(i) == 1 + Cardinality(NewlinesBefore(i))
ColumnOf(i) == i - (CHOOSE k \in NewlinesBefore(i) \cup {0} :
                      \A m \in NewlinesBefore(i) : m <= k)

\* Where the text after a token starts.
After(tok) == {i + Len(tok.text) : i \in {k \in 1 .. Len(file) :
                 LineOf(k) = tok.line /\ ColumnOf(k) = tok.column}}
Unread == IF tokens = <<>> THEN {1} ELSE After(tokens[Len(tokens)])

-----------------------------------------------------------------------------
(* Blanks.                                                                 *)

\* The character at k belongs to a comment that starts at i or later.
InComment(i, k) ==
  \E h \in i .. k : file[h] = "#" /\ \A m \in h .. k : file[m] # Newline
IsBlank(i, k) == isspace(file[k]) \/ InComment(i, k)

\* The first character from i on that is not blank, or the end of the file.
Start(i) == CHOOSE j \in i .. End : /\ \A k \in i .. j - 1 : IsBlank(i, k)
                                    /\ j = End \/ ~IsBlank(i, j)

\* The file ends in a comment.
EndsInComment(i) == Start(i) = End /\ i < End /\ InComment(i, Len(file))

-----------------------------------------------------------------------------
(* Tokens.                                                                 *)

SymbolTypes ==
  [periodsym |-> <<".">>, semisym |-> <<";">>, commasym |-> <<",">>,
   becomessym |-> <<":", "=">>, eqsym |-> <<"=">>, lparensym |-> <<"(">>,
   rparensym |-> <<")">>, lessym |-> <<"<">>, leqsym |-> <<"<", "=">>,
   neqsym |-> <<"<", ">">>, gtrsym |-> <<">">>, geqsym |-> <<">", "=">>,
   plussym |-> <<"+">>, minussym |-> <<"-">>, multsym |-> <<"*">>,
   divsym |-> <<"/">>]

IsSymbol(text) == \E typ \in DOMAIN SymbolTypes : SymbolTypes[typ] = text
IsWord(text) == isalpha(text[1]) /\ \A k \in DOMAIN text : isalnum(text[k])
IsNumber(text) == \A k \in DOMAIN text : isdigit(text[k])

\* The longest word, number or symbol at j, if there is one.
Longest(j) ==
  LET upTo(k) == SubSeq(file, j, k)
      lasts == {k \in j .. Len(file) : \/ IsSymbol(upTo(k))
                                       \/ IsWord(upTo(k))
                                       \/ IsNumber(upTo(k))}
  IN  {upTo(k) : k \in {m \in lasts : \A n \in lasts : n <= m}}

\* The limits of the compiler.
Fits(text) ==
  /\ IsWord(text) => Len(text) <= MaxIdentLength
  /\ IsNumber(text) => Len(text) <= MaxNumLength /\ Value(text) <= ShrtMax

TypeOf(text) ==
  CASE IsSymbol(text) -> CHOOSE typ \in DOMAIN SymbolTypes : SymbolTypes[typ] = text
    [] IsNumber(text) -> "numbersym"
    [] IsWord(text) -> reserved_type(text)

\* The legal tokens at j: at most one.
TokensAt(j) ==
  {Lexeme(TypeOf(text), text, IF IsNumber(text) THEN Value(text) ELSE 0,
          LineOf(j), ColumnOf(j)) : text \in {w \in Longest(j) : Fits(w)}}

-----------------------------------------------------------------------------
Init == tokens = <<>> /\ status = "open"

\* Return the next token.
Scan == /\ \E i \in Unread : \E tok \in TokensAt(Start(i)) :
             tokens' = Append(tokens, tok)
        /\ UNCHANGED status

\* Return the end of the file.
Finish == /\ \E i \in Unread : Start(i) = End /\ ~EndsInComment(i)
          /\ tokens' = Append(tokens, Lexeme("eofsym", <<>>, 0, LineOf(End), ColumnOf(End)))
          /\ status' = "ended"

\* The text is not legal.
Fail == /\ \E i \in Unread : /\ TokensAt(Start(i)) = {}
                             /\ Start(i) = End => EndsInComment(i)
        /\ status' = "failed"
        /\ UNCHANGED tokens

\* The file is closed early or cannot be read, or there is no space.
Stop == status' = "stopped" /\ UNCHANGED tokens

Next == /\ status = "open"
        /\ Scan \/ Finish \/ Fail \/ Stop
        /\ UNCHANGED file

Spec == Init /\ [][Next]_vars
=============================================================================
