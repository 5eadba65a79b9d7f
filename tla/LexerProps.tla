----------------------------- MODULE LexerProps -----------------------------
(***************************************************************************)
(* What the lexer of Lexer.tla must guarantee.                             *)
(***************************************************************************)
EXTENDS Lexer

Labels == {"start", "opened", "idle", "ignored", "comment", "token", "ident",
           "number", "becomes", "less", "greater", "closed"}

Causes == {"", "open", "close", "done", "space", "assert", "comment",
           "illegal character", "identifier", "number", "value", "colon"}

LexemeRecords ==
  [typ : TokenTypes, text : Seq(STRING), value : 0 .. ShrtMax,
   line : Nat, column : Nat]

\* The type invariant.  A token's value fits into a short, its text into the
\* array allocated for it, and no line or column is negative.
TypeOK ==
  /\ file \in Seq(STRING)
  /\ stream \in {"unopened", "open", "closed"}
  /\ input_file \in BOOLEAN /\ filename \in BOOLEAN /\ done \in BOOLEAN
  /\ cur \in [pos : 1 .. Len(file) + 1, line : Nat, column : Nat, last_column : Nat]
  /\ pc \in Labels
  /\ t \in LexemeRecords
  /\ tokens \in Seq(LexemeRecords)
  /\ outcome \in [kind : {"running", "bail", "lexical_error", "abort"},
                  cause : Causes, line : Nat, column : Nat]
  /\ pc = "ident" => Len(t.text) <= MaxIdentLength
  /\ pc = "number" => Len(t.text) <= MaxNumLength

-----------------------------------------------------------------------------
AtEof == tokens # <<>> /\ tokens[Len(tokens)].typ = "eofsym"

\* What has become of the scan: a number that is too long is an error of the
\* text, though the code reports it like a failure of the system.
ScanStatus ==
  CASE outcome.kind = "abort" -> "aborted"
    [] outcome.kind = "lexical_error" \/ outcome.cause = "number" -> "failed"
    [] outcome.kind = "bail" /\ outcome.cause # "number" -> "stopped"
    [] outcome = Running -> IF AtEof THEN "ended"
                            ELSE IF pc = "closed" THEN "stopped" ELSE "open"

Scan == INSTANCE Scanner WITH status <- ScanStatus

\* The lexer returns the tokens of the file: the longest ones, none skipped
\* or repeated, each with its text, value, line and column, though the code
\* counts lines and columns forwards and, when it puts a character back,
\* backwards from one saved column.  It ends exactly at the end of the file,
\* reports an error exactly where no legal token follows, and lexer_next's
\* assertion never fails.
RefinesScanner == Scan!Spec

\* A lexical error is reported at a character from the first one of the wrong
\* text to the last one read; a newline read counts as column 0 of the next
\* line (lexer.c:210, 258, 300, 346, 362).
ErrorsAreLocated ==
  outcome.kind = "lexical_error" =>
    \E i \in Scan!Unread : \E k \in Scan!Start(i) .. cur.pos :
      \/ outcome.line = Scan!LineOf(k) /\ outcome.column = Scan!ColumnOf(k)
      \/ /\ k <= Len(file) /\ file[k] = Newline
         /\ outcome.line = Scan!LineOf(k) + 1 /\ outcome.column = 0

\* lexer_close leaves a file open only when it was read to its end, where
\* lexer_next has forgotten it (lexer.c:154): a client that stops early, as the
\* parser does, gets its file closed.
OpenOnlyAtItsEnd == pc = "closed" /\ stream = "open" => AtEof

\* The scan of every file ends.
Terminates == <>Ended

-----------------------------------------------------------------------------
(* What the comments of the code say and the code does not do.             *)

\* "Since we consumed all the whitespace c should not be a kind of space
\* character", asserted at lexer.c:146-148.
AssertionsHold == outcome.kind # "abort"

\* lexer_ident returns a reserved word or an identifier (lexer.c:285-287) of
\* the file: the text of a token stands at the token's place.
TokensAreTheText ==
  \A n \in DOMAIN tokens :
    LET tok == tokens[n]
    IN  \E i \in 1 .. Len(file) + 1 :
          /\ Scan!LineOf(i) = tok.line
          /\ Scan!ColumnOf(i) = tok.column
          /\ i + Len(tok.text) - 1 <= Len(file)
          /\ SubSeq(file, i, i + Len(tok.text) - 1) = tok.text
=============================================================================
