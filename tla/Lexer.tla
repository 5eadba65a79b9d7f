------------------------------- MODULE Lexer -------------------------------
(***************************************************************************)
(* The lexer of lexer.c, one character at a time, with a client that asks  *)
(* for tokens and closes the file when it wants to.                        *)
(*                                                                         *)
(* pc names the loop of lexer.c that is running, t is the token being made *)
(* and cur holds the file position and the static variables line, column   *)
(* and last_column.  A static pointer is only NULL or not.                 *)
(***************************************************************************)
EXTENDS Chars

CONSTANTS
  Files,          \* the files to read: sequences of bytes
  MaxIdentLength, \* MAX_IDENT_LENGTH
  MaxNumLength,   \* MAX_NUM_LENGTH
  ShrtMax,        \* SHRT_MAX
  Leftovers       \* what malloc may leave in the bytes it returns

ASSUME LimitsAssumption ==
  /\ MaxIdentLength \in Nat \ {0}
  /\ MaxNumLength \in Nat \ {0}
  /\ ShrtMax \in Nat

VARIABLES
  file,           \* the bytes of the file
  stream,         \* the FILE: "unopened", "open" or "closed"
  input_file,     \* input_file is not NULL
  filename,       \* filename is not NULL
  done,
  cur,            \* the place in the file: [pos, line, column, last_column]
  pc,             \* what is being executed
  t,              \* the token being made
  tokens,         \* history: the tokens returned
  outcome         \* how far the program is, or how it ended

statics == <<stream, input_file, filename, done>>
vars == <<file, stream, input_file, filename, done, cur, pc, t, tokens, outcome>>

EOF == "EOF"
Byte255 == "0xFF"       \* the byte that becomes EOF when stored in a char
NUL == "NUL"

\* A file holds bytes; EOF is none.
ASSUME FilesAssumption ==
  \A f \in Files : f \in Seq(STRING) /\ \A i \in 1 .. Len(f) : f[i] # EOF

-----------------------------------------------------------------------------
Outcome(kind, cause, line, column) ==
  [kind |-> kind, cause |-> cause, line |-> line, column |-> column]
Running == Outcome("running", "", 0, 0)

Ended == outcome # Running \/ pc = "closed"
At(label) == outcome = Running /\ pc = label

Exit(how) == outcome' = how /\ UNCHANGED <<file, statics, cur, pc, t, tokens>>

\* Both print a message and exit; bail_with_error is given no place.
bail_with_error(cause) == Exit(Outcome("bail", cause, 0, 0))
lexical_error(cause, line, column) ==
  Exit(Outcome("lexical_error", cause, line, column))
assert_fails == Exit(Outcome("abort", "assert", 0, 0))

-----------------------------------------------------------------------------
(* Characters.                                                             *)

\* The next character, as a char.
Peek == IF cur.pos > Len(file) \/ file[cur.pos] = Byte255 THEN EOF
        ELSE file[cur.pos]

\* The place after lexer_getchar.
lexer_getchar ==
  [pos |-> IF cur.pos > Len(file) THEN cur.pos ELSE cur.pos + 1,
   line |-> IF Peek = Newline THEN cur.line + 1 ELSE cur.line,
   column |-> IF Peek = Newline THEN 1 ELSE cur.column + 1,
   last_column |-> cur.column]

\* Mutant: the line is not restored.
lexer_ungetchar_same_line(at, c) ==
  [at EXCEPT !.column = at.last_column,
             !.pos = IF c = EOF THEN @ ELSE @ - 1]

\* The place at after lexer_ungetchar(c): nothing is put back for EOF.
lexer_ungetchar(at, c) ==
  [at EXCEPT !.column = at.last_column,
             !.line = IF c = Newline THEN @ - 1 ELSE @,
             !.pos = IF c = EOF THEN @ ELSE @ - 1]

Advance == cur' = lexer_getchar
PutBack == cur' = lexer_ungetchar(lexer_getchar, Peek)

\* Read a character and go on at label.
Read(label) == /\ Advance
               /\ pc' = label
               /\ UNCHANGED <<file, statics, t, tokens, outcome>>

-----------------------------------------------------------------------------
(* Opening and closing.                                                    *)

\* The invariant that lexer_okay asserts.
lexer_okay == done = ~input_file /\ done = ~filename

\* lexer_initialize and lexer_open: a file just opened is not at its end for
\* feof, whatever its length.
LexerOpen ==
  /\ At("start")
  /\ \/ bail_with_error("open")
     \/ /\ cur' = [cur EXCEPT !.line = 1, !.column = 1]
        /\ stream' = "open"
        /\ input_file' = TRUE
        /\ filename' = TRUE
        /\ done' = FALSE
        /\ pc' = "opened"
        /\ UNCHANGED <<file, t, tokens, outcome>>

\* lexer_filename bails out when the lexer is done.
lexer_filename ==
  IF done THEN bail_with_error("done")
  ELSE pc' = "idle" /\ UNCHANGED <<file, statics, cur, t, tokens, outcome>>

\* lexer_output prints the name of the file first, and then asks for tokens
\* until the lexer is done.
LexerOutput == At("opened") /\ lexer_filename

\* Mutant: the pointer to the file is cleared before it is closed.
LexerCloseForgetful ==
  /\ pc \in {"opened", "idle"} /\ outcome = Running
  /\ IF ~lexer_okay THEN assert_fails
     ELSE /\ input_file' = FALSE
          /\ filename' = FALSE
          /\ done' = TRUE
          /\ pc' = "closed"
          /\ UNCHANGED <<file, stream, cur, t, tokens, outcome>>

\* lexer_close: fclose may fail.
LexerClose ==
  /\ pc \in {"opened", "idle"} /\ outcome = Running
  /\ IF ~lexer_okay THEN assert_fails
     ELSE \/ input_file /\ bail_with_error("close")
          \/ /\ stream' = IF input_file THEN "closed" ELSE stream
             /\ input_file' = FALSE
             /\ filename' = FALSE
             /\ done' = TRUE
             /\ pc' = "closed"
             /\ UNCHANGED <<file, cur, t, tokens, outcome>>

-----------------------------------------------------------------------------
(* lexer_next.                                                             *)

\* A client calls it if the lexer is not done.
LexerNext ==
  /\ pc \in {"opened", "idle"} /\ outcome = Running
  /\ ~done
  /\ t' = Lexeme("eofsym", <<>>, 0, 0, 0)
  /\ pc' = "ignored"
  /\ UNCHANGED <<file, statics, cur, tokens, outcome>>

\* lexer_consume_ignored: a round of its loop, or its end.
ConsumeIgnored ==
  /\ At("ignored")
  /\ IF isspace(Peek) THEN Read("ignored")
     ELSE IF Peek = "#" THEN Read("comment")
     ELSE /\ PutBack
          /\ pc' = "token"
          /\ UNCHANGED <<file, statics, t, tokens, outcome>>

\* Mutant: the newline is put back and read again.
ConsumeCommentStuck ==
  /\ At("comment")
  /\ IF Peek = EOF
     THEN lexical_error("comment", lexer_getchar.line, lexer_getchar.column - 1)
     ELSE IF Peek = Newline
     THEN PutBack /\ UNCHANGED <<file, statics, pc, t, tokens, outcome>>
     ELSE Read("comment")

\* lexer_consume_comment: a round of its loop, or its end.
ConsumeComment ==
  /\ At("comment")
  /\ IF Peek = EOF
     THEN lexical_error("comment", lexer_getchar.line, lexer_getchar.column - 1)
     ELSE IF Peek = Newline THEN Read("ignored")
     ELSE Read("comment")

-----------------------------------------------------------------------------
(* Returning a token.                                                      *)

Return(tok) == /\ tokens' = Append(tokens, tok)
               /\ t' = tok
               /\ pc' = "idle"
               /\ UNCHANGED <<file, outcome>>

\* t without its text, which starts at the next character.
Fresh == [t EXCEPT !.line = cur.line, !.column = cur.column]

\* The tokens of one character.
Punctuation ==
  [c \in {".", ";", ",", "=", "(", ")", "+", "-", "*", "/"} |->
     CASE c = "." -> "periodsym" [] c = ";" -> "semisym" [] c = "," -> "commasym"
       [] c = "=" -> "eqsym" [] c = "(" -> "lparensym" [] c = ")" -> "rparensym"
       [] c = "+" -> "plussym" [] c = "-" -> "minussym" [] c = "*" -> "multsym"
       [] c = "/" -> "divsym"]

\* Where the function called for the first character of a token goes on.
Continue(c) ==
  CASE isalpha(c) -> "ident" [] isdigit(c) -> "number" [] c = ":" -> "becomes"
    [] c = "<" -> "less" [] c = ">" -> "greater"

\* lexer_next after the blanks, up to the second character of the token.
StartToken ==
  /\ At("token")
  /\ IF isspace(Peek) THEN assert_fails
     ELSE IF Peek = EOF
     THEN /\ Advance
          /\ input_file' = FALSE
          /\ filename' = FALSE
          /\ done' = TRUE
          /\ Return(Fresh)
          /\ UNCHANGED stream
     ELSE \/ bail_with_error("space")
          \/ CASE Peek \in DOMAIN Punctuation ->
                    /\ Advance
                    /\ Return([Fresh EXCEPT !.typ = Punctuation[Peek], !.text = <<Peek>>])
                    /\ UNCHANGED statics
               [] isalnum(Peek) \/ Peek \in {":", "<", ">"} ->
                    /\ Advance
                    /\ t' = [Fresh EXCEPT !.text = <<Peek>>]
                    /\ pc' = Continue(Peek)
                    /\ UNCHANGED <<file, statics, tokens, outcome>>
               [] OTHER -> lexical_error("illegal character",
                                         lexer_getchar.line, lexer_getchar.column - 1)

\* Add the next character to the text and go on with the loop.
Extend == /\ Advance
          /\ t' = [t EXCEPT !.text = Append(@, Peek)]
          /\ UNCHANGED <<file, statics, pc, tokens, outcome>>

\* The texts that may result: text[n] is never set and NUL comes after it.
Terminated(text) ==
  {IF byte = NUL THEN text ELSE Append(text, byte) : byte \in Leftovers}

\* lexer_ident: a round of its loop, or its end.
Ident ==
  /\ At("ident")
  /\ IF isalnum(Peek)
     THEN IF Len(t.text) >= MaxIdentLength
          THEN lexical_error("identifier", t.line, t.column)
          ELSE Extend
     ELSE /\ PutBack
          /\ \E text \in Terminated(t.text) :
               Return([t EXCEPT !.text = text, !.typ = reserved_type(text)])
          /\ UNCHANGED statics

\* sscanf(text, "%d"): the digits the text starts with.
Scanned(text) ==
  LET digits == {n \in 0 .. Len(text) : \A k \in 1 .. n : isdigit(text[k])}
  IN  Value(SubSeq(text, 1, CHOOSE n \in digits : \A m \in digits : m <= n))

\* Mutant: numbers are not compared with SHRT_MAX.
NumberUnbounded ==
  /\ At("number")
  /\ IF isdigit(Peek)
     THEN IF Len(t.text) >= MaxNumLength THEN bail_with_error("number") ELSE Extend
     ELSE \E text \in Terminated(t.text) :
            /\ PutBack
            /\ Return([t EXCEPT !.text = text, !.typ = "numbersym",
                                !.value = Scanned(text)])
            /\ UNCHANGED statics

\* lexer_number: a round of its loop, or its end.
Number ==
  /\ At("number")
  /\ IF isdigit(Peek)
     THEN IF Len(t.text) >= MaxNumLength THEN bail_with_error("number") ELSE Extend
     ELSE \E text \in Terminated(t.text) :
            IF Scanned(text) > ShrtMax
            THEN lexical_error("value", t.line, t.column)
            ELSE /\ PutBack
                 /\ Return([t EXCEPT !.text = text, !.typ = "numbersym",
                                     !.value = Scanned(text)])
                 /\ UNCHANGED statics

\* Mutant: the error is placed where the next character will be.
BecomesMisplaced ==
  /\ At("becomes")
  /\ IF Peek = "="
     THEN /\ Advance
          /\ Return([t EXCEPT !.text = Append(@, "="), !.typ = "becomessym"])
          /\ UNCHANGED statics
     ELSE lexical_error("colon", lexer_getchar.line, lexer_getchar.column)

\* lexer_becomes
Becomes ==
  /\ At("becomes")
  /\ IF Peek = "="
     THEN /\ Advance
          /\ Return([t EXCEPT !.text = Append(@, "="), !.typ = "becomessym"])
          /\ UNCHANGED statics
     ELSE lexical_error("colon", lexer_getchar.line, lexer_getchar.column - 1)

\* The token of t's character and the next one, if types has it, or of t's
\* character alone.
OneOrTwo(types, alone) ==
  /\ IF Peek \in DOMAIN types
     THEN /\ Advance
          /\ Return([t EXCEPT !.text = Append(@, Peek), !.typ = types[Peek]])
     ELSE /\ PutBack
          /\ Return([t EXCEPT !.typ = alone])
  /\ UNCHANGED statics

\* The second characters after "<".
LessTypes == [c \in {"=", ">"} |-> IF c = "=" THEN "leqsym" ELSE "neqsym"]

\* lexer_starts_less, lexer_starts_greater
StartsLess == At("less") /\ OneOrTwo(LessTypes, "lessym")
StartsGreater == At("greater") /\ OneOrTwo([c \in {"="} |-> "geqsym"], "gtrsym")

-----------------------------------------------------------------------------
Stay == Ended /\ UNCHANGED vars

Init == /\ file \in Files
        /\ stream = "unopened"
        /\ input_file = FALSE
        /\ filename = FALSE
        /\ done = TRUE
        /\ cur = [pos |-> 1, line |-> 0, column |-> 0, last_column |-> 0]
        /\ pc = "start"
        /\ t = Lexeme("periodsym", <<>>, 0, 0, 0)
        /\ tokens = <<>>
        /\ outcome = Running

Step == \/ LexerOpen \/ LexerOutput \/ LexerNext \/ LexerClose
        \/ ConsumeIgnored \/ ConsumeComment \/ StartToken
        \/ Ident \/ Number \/ Becomes \/ StartsLess \/ StartsGreater

Next == Step \/ Stay

Spec == Init /\ [][Next]_vars

\* One sequential process that waits for nothing but its file: the client too
\* asks for tokens, or closes the file, as long as it can.
FairSpec == Spec /\ WF_vars(Step)
=============================================================================
