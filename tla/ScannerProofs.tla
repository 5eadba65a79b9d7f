---------------------------- MODULE ScannerProofs ----------------------------
(***************************************************************************)
(* Proofs about the lexer, for every set of files, whatever their length,  *)
(* and for all limits on words and numbers; and, for files without the     *)
(* byte 0xFF, that the lexer implements its contract, the scanner.         *)
(***************************************************************************)
EXTENDS LexerProps, TLAPS, FiniteSetTheorems

-----------------------------------------------------------------------------
(* The lexer on its own.                                                   *)

Places == [pos : Nat \ {0}, line : Int, column : Int, last_column : Int]

\* A sequence, whatever its elements.
ASequence(s) == \E S : s \in Seq(S)

\* The file and the place in it.
PlaceInv == file \in Files /\ cur \in Places /\ pc \in Labels

\* Before its first character, a token is that of the end of the file.
TokenInv ==
  /\ pc \in {"ignored", "comment", "token"} => t = Lexeme("eofsym", <<>>, 0, 0, 0)
  /\ ASequence(tokens)

\* The pointers agree, and a file that is open and forgotten has been read.
FileInv ==
  /\ lexer_okay
  /\ stream = "open" /\ ~input_file => AtEof /\ pc \in {"idle", "closed"}
  /\ pc = "closed" => ~input_file
  /\ input_file \in BOOLEAN /\ filename \in BOOLEAN /\ done \in BOOLEAN

\* The inductive invariant.
IInv == PlaceInv /\ TokenInv /\ FileInv

-----------------------------------------------------------------------------
(* Characters.                                                             *)

LEMMA FileType ==
  ASSUME NEW f \in Files
  PROVE  f \in Seq(STRING) /\ Len(f) \in Nat
BY FilesAssumption

LEMMA AdvanceType ==
  ASSUME PlaceInv
  PROVE  lexer_getchar \in Places
BY FileType DEF PlaceInv, Places, lexer_getchar

LEMMA UngetcharFields ==
  ASSUME NEW at \in Places, NEW c
  PROVE  /\ lexer_ungetchar(at, c).pos = IF c = EOF THEN at.pos ELSE at.pos - 1
         /\ lexer_ungetchar(at, c).line = IF c = Newline THEN at.line - 1 ELSE at.line
         /\ lexer_ungetchar(at, c).column = at.last_column
         /\ lexer_ungetchar(at, c).last_column = at.last_column
         /\ lexer_ungetchar(at, c).pos \in Nat \ {0} => lexer_ungetchar(at, c) \in Places
<1> DEFINE u == lexer_ungetchar(at, c)
           m == IF c = Newline THEN at.line - 1 ELSE at.line
           q == IF c = EOF THEN at.pos ELSE at.pos - 1
<1>1. u = [at EXCEPT !.column = at.last_column, !.line = m, !.pos = q]
  BY DEF lexer_ungetchar
<1>2. DOMAIN at = {"pos", "line", "column", "last_column"}
  BY DEF Places
<1>3. m \in Int /\ at.last_column \in Int
  BY DEF Places
<1> HIDE DEF u, m, q
<1>4. DOMAIN u = {"pos", "line", "column", "last_column"}
  BY <1>1, <1>2
<1>5. u.pos = q /\ u.line = m /\ u.column = at.last_column /\ u.last_column = at.last_column
  BY <1>1, <1>2
<1>6. u = [pos |-> u.pos, line |-> u.line, column |-> u.column,
           last_column |-> u.last_column]
  BY <1>1, <1>2, <1>4
<1>7. u.pos \in Nat \ {0} => u \in Places
  BY <1>3, <1>5, <1>6 DEF Places
<1> QED
  BY <1>5, <1>7 DEF u, m, q

LEMMA PutBackType ==
  ASSUME PlaceInv
  PROVE  /\ lexer_ungetchar(lexer_getchar, Peek) \in Places
         /\ Peek # EOF => lexer_ungetchar(lexer_getchar, Peek).pos = cur.pos
         /\ cur.pos > Len(file) => lexer_ungetchar(lexer_getchar, Peek).pos = cur.pos
<1>1. Len(file) \in Nat /\ cur.pos \in Nat \ {0}
  BY FileType DEF PlaceInv, Places
<1>2. lexer_getchar \in Places
  BY AdvanceType
<1>3. Peek # EOF => lexer_getchar.pos = cur.pos + 1
  BY <1>1 DEF Peek, lexer_getchar
<1>4. cur.pos > Len(file) => Peek = EOF /\ lexer_getchar.pos = cur.pos
  BY <1>1 DEF Peek, lexer_getchar
<1> QED
  BY <1>1, <1>2, <1>3, <1>4, UngetcharFields DEF Places

-----------------------------------------------------------------------------
(* Sequences.                                                              *)

LEMMA AppendIsASequence ==
  ASSUME NEW s, ASequence(s), NEW e
  PROVE  /\ ASequence(Append(s, e))
         /\ Append(s, e) # <<>>
         /\ Append(s, e)[Len(Append(s, e))] = e
<1>1. PICK S : s \in Seq(S)
  BY DEF ASequence
<1>2. s \in Seq(S \cup {e}) /\ e \in S \cup {e}
  BY <1>1
<1>3. Append(s, e) \in Seq(S \cup {e})
  BY <1>2
<1>4. Append(s, e) # <<>> /\ Append(s, e)[Len(Append(s, e))] = e
  BY <1>2
<1> QED
  BY <1>3, <1>4 DEF ASequence

-----------------------------------------------------------------------------
(* The steps.                                                              *)

LEMMA InitInv == ASSUME Init PROVE IInv
<1>1. PlaceInv
  BY DEF Init, PlaceInv, Places, Labels
<1>2. tokens \in Seq({})
  BY DEF Init
<1>3. TokenInv
  BY <1>2 DEF Init, TokenInv, ASequence
<1>4. FileInv
  BY DEF Init, FileInv, lexer_okay
<1> QED
  BY <1>1, <1>3, <1>4 DEF IInv

\* The program ends with a message or a signal.
LEMMA ExitInv ==
  ASSUME IInv, UNCHANGED <<file, statics, cur, pc, t, tokens>>
  PROVE  IInv'
BY DEF IInv, PlaceInv, TokenInv, FileInv, statics, lexer_okay, AtEof, Labels

\* A character is read or put back, in a function that goes on.
LEMMA MoveInv ==
  ASSUME IInv, pc \notin {"idle", "closed"}, cur' \in Places, pc' \in Labels,
         pc' # "closed",
         pc' \in {"ignored", "comment", "token"} =>
           t' = t /\ pc \in {"ignored", "comment", "token"},
         UNCHANGED <<file, statics, tokens>>
  PROVE  IInv'
<1>1. PlaceInv'
  BY DEF IInv, PlaceInv, Labels
<1>2. TokenInv'
  BY DEF IInv, TokenInv
<1>3. FileInv'
  BY DEF IInv, FileInv, statics, lexer_okay
<1> QED
  BY <1>1, <1>2, <1>3 DEF IInv

\* A token is returned before the end of the file.
LEMMA ReturnInv ==
  ASSUME IInv, pc \notin {"idle", "closed"}, cur' \in Places, NEW tok, Return(tok),
         UNCHANGED statics
  PROVE  IInv'
<1>1. PlaceInv'
  BY DEF IInv, PlaceInv, Labels, Return
<1>2. TokenInv'
  <2>1. ASequence(Append(tokens, tok))
    BY AppendIsASequence DEF IInv, TokenInv
  <2> QED
    BY <2>1 DEF TokenInv, Return
<1>3. FileInv'
  BY DEF IInv, FileInv, statics, lexer_okay, Return
<1> QED
  BY <1>1, <1>2, <1>3 DEF IInv

LEMMA ReadInv ==
  ASSUME IInv, NEW label \in Labels \ {"closed"}, Read(label), pc \in {"ignored", "comment"}
  PROVE  IInv'
<1>1. cur' \in Places
  BY AdvanceType DEF IInv, Read, Advance
<1> QED
  BY <1>1, MoveInv DEF Read

LEMMA OpenInv == ASSUME IInv, LexerOpen PROVE IInv'
<1>1. CASE bail_with_error("open")
  BY <1>1, ExitInv DEF bail_with_error, Exit
<1>2. CASE ~bail_with_error("open")
  <2>1. /\ cur' = [cur EXCEPT !.line = 1, !.column = 1]
        /\ stream' = "open" /\ input_file' = TRUE /\ filename' = TRUE /\ done' = FALSE
        /\ pc' = "opened" /\ UNCHANGED <<file, t, tokens, outcome>>
    BY <1>2 DEF LexerOpen
  <2>2. PlaceInv'
    <3>1. cur \in Places /\ file \in Files
      BY DEF IInv, PlaceInv
    <3>2. DOMAIN cur' = {"pos", "line", "column", "last_column"}
      BY <2>1, <3>1 DEF Places
    <3>3. /\ cur'.pos = cur.pos /\ cur'.line = 1
          /\ cur'.column = 1 /\ cur'.last_column = cur.last_column
      BY <2>1, <3>1 DEF Places
    <3>4. cur' = [pos |-> cur'.pos, line |-> cur'.line, column |-> cur'.column,
                  last_column |-> cur'.last_column]
      BY <2>1, <3>1, <3>2
    <3>5. cur' \in Places
      BY <3>1, <3>3, <3>4 DEF Places
    <3> QED
      BY <2>1, <3>1, <3>5 DEF PlaceInv, Labels
  <2>3. TokenInv'
    BY <2>1 DEF IInv, TokenInv
  <2>4. FileInv'
    BY <2>1 DEF FileInv, lexer_okay
  <2> QED
    BY <2>2, <2>3, <2>4 DEF IInv
<1> QED
  BY <1>1, <1>2

LEMMA OutputInv == ASSUME IInv, LexerOutput PROVE IInv'
<1>1. CASE done
  BY <1>1, ExitInv DEF LexerOutput, lexer_filename, bail_with_error, Exit
<1>2. CASE ~done
  <2>1. pc = "opened" /\ pc' = "idle" /\ UNCHANGED <<file, statics, cur, t, tokens, outcome>>
    BY <1>2 DEF LexerOutput, lexer_filename, At
  <2>2. cur' \in Places /\ pc' \in Labels
    BY <2>1 DEF IInv, PlaceInv, Labels
  <2> QED
    BY <2>1, <2>2, MoveInv
<1> QED
  BY <1>1, <1>2

LEMMA CloseInv == ASSUME IInv, LexerClose PROVE IInv'
<1>1. lexer_okay
  BY DEF IInv, FileInv
<1>2. CASE bail_with_error("close")
  BY <1>2, ExitInv DEF bail_with_error, Exit
<1>3. CASE ~bail_with_error("close")
  <2>1. /\ stream' = IF input_file THEN "closed" ELSE stream
        /\ input_file' = FALSE /\ filename' = FALSE /\ done' = TRUE
        /\ pc' = "closed" /\ UNCHANGED <<file, cur, t, tokens, outcome>>
    BY <1>1, <1>3 DEF LexerClose
  <2>2. PlaceInv' /\ TokenInv'
    BY <2>1 DEF IInv, PlaceInv, TokenInv, Labels
  <2>3. FileInv'
    BY <2>1 DEF IInv, FileInv, lexer_okay, AtEof
  <2> QED
    BY <2>2, <2>3 DEF IInv
<1> QED
  BY <1>2, <1>3

LEMMA NextTokenInv == ASSUME IInv, LexerNext PROVE IInv'
<1>1. input_file
  BY DEF IInv, FileInv, lexer_okay, LexerNext
<1>2. PlaceInv' /\ TokenInv'
  BY DEF IInv, PlaceInv, TokenInv, LexerNext, Labels
<1>3. FileInv'
  BY <1>1 DEF IInv, FileInv, LexerNext, statics, lexer_okay
<1> QED
  BY <1>2, <1>3 DEF IInv

LEMMA IgnoredInv == ASSUME IInv, ConsumeIgnored PROVE IInv'
<1>0. pc = "ignored"
  BY DEF ConsumeIgnored, At
<1>1. CASE isspace(Peek)
  BY <1>0, <1>1, ReadInv DEF ConsumeIgnored, Labels
<1>2. CASE ~isspace(Peek) /\ Peek = "#"
  BY <1>0, <1>2, ReadInv DEF ConsumeIgnored, Labels
<1>3. CASE ~isspace(Peek) /\ Peek # "#"
  <2>1. PutBack /\ pc' = "token" /\ UNCHANGED <<file, statics, t, tokens, outcome>>
    BY <1>3 DEF ConsumeIgnored
  <2>2. cur' \in Places
    BY <2>1, PutBackType DEF PutBack, IInv
  <2> QED
    BY <1>0, <2>1, <2>2, MoveInv DEF Labels
<1> QED
  BY <1>1, <1>2, <1>3

LEMMA CommentInv == ASSUME IInv, ConsumeComment PROVE IInv'
<1>0. pc = "comment"
  BY DEF ConsumeComment, At
<1>1. CASE Peek = EOF
  BY <1>1, ExitInv DEF ConsumeComment, lexical_error, Exit
<1>2. CASE Peek # EOF
  BY <1>0, <1>2, ReadInv DEF ConsumeComment, Labels
<1> QED
  BY <1>1, <1>2

LEMMA StartTokenInv == ASSUME IInv, StartToken PROVE IInv'
<1>0. pc = "token" /\ t = Lexeme("eofsym", <<>>, 0, 0, 0) /\ ASequence(tokens)
  BY DEF StartToken, At, IInv, TokenInv
<1>1. CASE UNCHANGED <<file, statics, cur, pc, t, tokens>>
  BY <1>1, ExitInv
<1>2. CASE /\ Advance
           /\ input_file' = FALSE /\ filename' = FALSE /\ done' = TRUE
           /\ Return(Fresh)
           /\ UNCHANGED stream
  <2>1. Fresh.typ = "eofsym"
    <3>1. "typ" \in DOMAIN t /\ t.typ = "eofsym"
      BY <1>0 DEF Lexeme
    <3> QED
      BY <3>1 DEF Fresh
  <2>2. PlaceInv'
    BY <1>2, AdvanceType DEF IInv, PlaceInv, Advance, Return, Labels
  <2>3. TokenInv'
    BY <1>0, <1>2, AppendIsASequence DEF Return, TokenInv
  <2>4. AtEof'
    BY <1>0, <1>2, <2>1, AppendIsASequence DEF Return, AtEof
  <2>5. FileInv'
    BY <1>2, <2>4 DEF FileInv, lexer_okay, Return
  <2> QED
    BY <2>2, <2>3, <2>5 DEF IInv
<1>3. CASE /\ Advance
           /\ Return([Fresh EXCEPT !.typ = Punctuation[Peek], !.text = <<Peek>>])
           /\ UNCHANGED statics
  BY <1>0, <1>3, AdvanceType, ReturnInv DEF Advance, IInv
<1>4. CASE /\ isalnum(Peek) \/ Peek \in {":", "<", ">"}
           /\ Advance
           /\ pc' = Continue(Peek)
           /\ UNCHANGED <<file, statics, tokens, outcome>>
  <2>1. Continue(Peek) \in {"ident", "number", "becomes", "less", "greater"}
    BY <1>4 DEF Continue, isalnum
  <2> QED
    BY <1>0, <1>4, <2>1, AdvanceType, MoveInv DEF Advance, IInv, Labels
<1> QED
  BY <1>1, <1>2, <1>3, <1>4
     DEF StartToken, assert_fails, bail_with_error, lexical_error, Exit

\* A character is added to the text.
LEMMA ExtendInv ==
  ASSUME IInv, Extend, pc \in {"ident", "number"}
  PROVE  IInv'
BY AdvanceType, MoveInv DEF Extend, Advance, IInv, Labels

LEMMA IdentInv == ASSUME IInv, Ident PROVE IInv'
<1>0. pc = "ident"
  BY DEF Ident, At
<1>1. CASE UNCHANGED <<file, statics, cur, pc, t, tokens>>
  BY <1>1, ExitInv
<1>2. CASE Extend
  BY <1>0, <1>2, ExtendInv
<1>3. ASSUME PutBack, UNCHANGED statics, NEW tok, Return(tok)
      PROVE  IInv'
  BY <1>0, <1>3, PutBackType, ReturnInv DEF PutBack, IInv
<1> QED
  BY <1>1, <1>2, <1>3 DEF Ident, lexical_error, Exit

LEMMA NumberInv == ASSUME IInv, Number PROVE IInv'
<1>0. pc = "number"
  BY DEF Number, At
<1>1. CASE UNCHANGED <<file, statics, cur, pc, t, tokens>>
  BY <1>1, ExitInv
<1>2. CASE Extend
  BY <1>0, <1>2, ExtendInv
<1>3. ASSUME PutBack, UNCHANGED statics, NEW tok, Return(tok)
      PROVE  IInv'
  BY <1>0, <1>3, PutBackType, ReturnInv DEF PutBack, IInv
<1> QED
  BY <1>1, <1>2, <1>3 DEF Number, bail_with_error, lexical_error, Exit

LEMMA BecomesInv == ASSUME IInv, Becomes PROVE IInv'
<1>0. pc = "becomes"
  BY DEF Becomes, At
<1>1. CASE Peek = "="
  BY <1>0, <1>1, AdvanceType, ReturnInv DEF Becomes, Advance, IInv
<1>2. CASE Peek # "="
  BY <1>2, ExitInv DEF Becomes, lexical_error, Exit
<1> QED
  BY <1>1, <1>2

LEMMA OneOrTwoInv ==
  ASSUME IInv, pc \in {"less", "greater"}, NEW types, NEW alone, OneOrTwo(types, alone)
  PROVE  IInv'
<1>1. CASE Peek \in DOMAIN types
  BY <1>1, AdvanceType, ReturnInv DEF OneOrTwo, Advance, IInv
<1>2. CASE Peek \notin DOMAIN types
  BY <1>2, PutBackType, ReturnInv DEF OneOrTwo, PutBack, IInv
<1> QED
  BY <1>1, <1>2

LEMMA NextInv == ASSUME IInv, [Next]_vars PROVE IInv'
<1>1. CASE LexerOpen \/ LexerOutput \/ LexerNext \/ LexerClose
  BY <1>1, OpenInv, OutputInv, NextTokenInv, CloseInv
<1>2. CASE ConsumeIgnored \/ ConsumeComment \/ StartToken
  BY <1>2, IgnoredInv, CommentInv, StartTokenInv
<1>3. CASE Ident \/ Number \/ Becomes
  BY <1>3, IdentInv, NumberInv, BecomesInv
<1>4. CASE StartsLess \/ StartsGreater
  BY <1>4, OneOrTwoInv DEF StartsLess, StartsGreater, At
<1>5. CASE UNCHANGED vars
  BY <1>5, ExitInv DEF vars, statics
<1> QED
  BY <1>1, <1>2, <1>3, <1>4, <1>5 DEF Next, Step, Stay

\* The pointers to the file, its place and the token agree in every state.
THEOREM Invariant == Spec => []IInv
BY InitInv, NextInv, PTL DEF Spec

\* For every set of files: lexer_close closes the file it is asked to close,
\* unless the lexer has met the end of the file and forgotten it.
THEOREM ClosesUnlessAtEnd == Spec => []OpenOnlyAtItsEnd
<1>1. IInv => OpenOnlyAtItsEnd
  BY DEF IInv, FileInv, OpenOnlyAtItsEnd
<1> QED
  BY <1>1, Invariant, PTL

-----------------------------------------------------------------------------
(* Files without the byte 0xFF.                                            *)

NoByte255 == \A f \in Files : \A i \in 1 .. Len(f) : f[i] # Byte255

\* After lexer_consume_ignored no white space follows.
SafeInv == (pc = "token" => ~isspace(Peek)) /\ AssertionsHold

\* A character that is put back is read again.
LEMMA PutBackPeek ==
  ASSUME NoByte255, PlaceInv, PutBack, UNCHANGED file
  PROVE  Peek' = Peek
<1>1. file \in Files /\ Len(file) \in Nat /\ cur.pos \in Nat \ {0}
  BY FileType DEF PlaceInv, Places
<1>2. CASE cur.pos > Len(file)
  <2>1. cur'.pos = cur.pos
    BY <1>2, PutBackType DEF PutBack
  <2> QED
    BY <1>2, <2>1 DEF Peek
<1>3. CASE cur.pos <= Len(file)
  <2>1. file[cur.pos] # Byte255 /\ file[cur.pos] # EOF
    BY <1>1, <1>3, FilesAssumption DEF NoByte255
  <2>2. Peek # EOF
    BY <1>1, <1>3, <2>1 DEF Peek
  <2>3. cur'.pos = cur.pos
    BY <2>2, PutBackType DEF PutBack
  <2> QED
    BY <2>3 DEF Peek
<1> QED
  BY <1>1, <1>2, <1>3

LEMMA MoveSafe ==
  ASSUME SafeInv, UNCHANGED outcome, pc' # "token"
  PROVE  SafeInv'
BY DEF SafeInv, AssertionsHold

LEMMA ExitSafe ==
  ASSUME SafeInv, NEW kind \in {"bail", "lexical_error"}, NEW cause, NEW l, NEW c,
         Exit(Outcome(kind, cause, l, c))
  PROVE  SafeInv'
BY DEF SafeInv, AssertionsHold, Exit, Outcome, Peek

LEMMA BailSafe ==
  ASSUME SafeInv, NEW cause, bail_with_error(cause)
  PROVE  SafeInv'
BY ExitSafe DEF bail_with_error

LEMMA ErrorSafe ==
  ASSUME SafeInv, NEW cause, NEW l, NEW c, lexical_error(cause, l, c)
  PROVE  SafeInv'
BY ExitSafe DEF lexical_error

LEMMA ClientSafe ==
  ASSUME IInv, SafeInv, LexerOpen \/ LexerOutput \/ LexerNext \/ LexerClose
  PROVE  SafeInv'
<1>1. lexer_okay
  BY DEF IInv, FileInv
<1>2. CASE LexerOpen
  BY <1>2, BailSafe, MoveSafe DEF LexerOpen
<1>3. CASE LexerOutput
  BY <1>3, BailSafe, MoveSafe DEF LexerOutput, lexer_filename
<1>4. CASE LexerNext
  BY <1>4, MoveSafe DEF LexerNext
<1>5. CASE LexerClose
  BY <1>1, <1>5, BailSafe, MoveSafe DEF LexerClose
<1> QED
  BY <1>2, <1>3, <1>4, <1>5

LEMMA BlanksSafe ==
  ASSUME NoByte255, IInv, SafeInv, ConsumeIgnored \/ ConsumeComment
  PROVE  SafeInv'
<1>1. CASE ConsumeIgnored /\ pc' = "token"
  <2>1. ~isspace(Peek) /\ PutBack /\ UNCHANGED <<file, outcome>>
    BY <1>1 DEF ConsumeIgnored, Read
  <2>2. Peek' = Peek
    BY <2>1, PutBackPeek DEF IInv
  <2> QED
    BY <2>1, <2>2 DEF SafeInv, AssertionsHold, isspace
<1>2. CASE ConsumeIgnored /\ pc' # "token"
  BY <1>2, MoveSafe DEF ConsumeIgnored, Read
<1>3. CASE ConsumeComment
  BY <1>3, MoveSafe, ErrorSafe DEF ConsumeComment, Read
<1> QED
  BY <1>1, <1>2, <1>3

LEMMA StartTokenSafe ==
  ASSUME IInv, SafeInv, StartToken
  PROVE  SafeInv'
<1>1. pc = "token" /\ ~isspace(Peek)
  BY DEF StartToken, At, SafeInv
<1>2. CASE \/ bail_with_error("space")
           \/ lexical_error("illegal character", lexer_getchar.line,
                            lexer_getchar.column - 1)
  BY <1>2, BailSafe, ErrorSafe
<1>3. CASE UNCHANGED outcome /\ pc' = "idle"
  BY <1>3, MoveSafe
<1>4. CASE /\ isalnum(Peek) \/ Peek \in {":", "<", ">"}
           /\ pc' = Continue(Peek)
           /\ UNCHANGED outcome
  <2>1. Continue(Peek) # "token"
    BY <1>4 DEF Continue, isalnum
  <2> QED
    BY <1>4, <2>1, MoveSafe
<1> QED
  BY <1>1, <1>2, <1>3, <1>4 DEF StartToken, Return

LEMMA TokensSafe ==
  ASSUME IInv, SafeInv,
         Ident \/ Number \/ Becomes \/ StartsLess \/ StartsGreater
  PROVE  SafeInv'
<1>1. CASE Ident
  BY <1>1, MoveSafe, ErrorSafe DEF Ident, Extend, Return, At
<1>2. CASE Number
  BY <1>2, MoveSafe, ErrorSafe, BailSafe DEF Number, Extend, Return, At
<1>3. CASE Becomes
  BY <1>3, MoveSafe, ErrorSafe DEF Becomes, Return
<1>4. CASE StartsLess \/ StartsGreater
  BY <1>4, MoveSafe DEF StartsLess, StartsGreater, OneOrTwo, Return
<1> QED
  BY <1>1, <1>2, <1>3, <1>4

LEMMA InitSafe == ASSUME Init PROVE SafeInv
<1>1. outcome.kind = "running"
  BY DEF Init, Running, Outcome
<1>2. pc # "token"
  BY DEF Init
<1> QED
  BY <1>1, <1>2 DEF SafeInv, AssertionsHold

LEMMA NextSafe ==
  ASSUME NoByte255, IInv, SafeInv, [Next]_vars
  PROVE  SafeInv'
<1>1. CASE UNCHANGED vars
  BY <1>1 DEF vars, SafeInv, AssertionsHold, Peek
<1> QED
  BY <1>1, ClientSafe, BlanksSafe, StartTokenSafe, TokensSafe DEF Next, Step, Stay

LEMMA SafeInvariant ==
  ASSUME NoByte255
  PROVE  Spec => []SafeInv
<1>1. IInv /\ SafeInv /\ [Next]_vars => SafeInv'
  BY NextSafe
<1> QED
  BY <1>1, InitSafe, Invariant, PTL DEF Spec

\* In files without the byte 0xFF, whatever else they hold and whenever the
\* client stops, neither assertion of lexer.c fails: not that no white space
\* follows the blanks, nor that the pointers to the file and to its name are
\* NULL together.
THEOREM NoAssertionFails ==
  ASSUME NoByte255
  PROVE  Spec => []AssertionsHold
<1>1. SafeInv => AssertionsHold
  BY DEF SafeInv
<1> QED
  BY <1>1, SafeInvariant, PTL

-----------------------------------------------------------------------------
(* Numbers.                                                                *)

LEMMA LeastNat ==
  ASSUME NEW S, S \subseteq Nat, S # {}
  PROVE  \E x \in S : \A y \in S : x <= y
<1>1. PICK x \in S : \A y \in S : ~(<<y, x>> \in OpToRel(<, Nat))
  BY NatLessThanWellFounded, WFMin
<1>2. \A y \in S : ~(y < x)
  BY <1>1 DEF OpToRel
<1> QED
  BY <1>2

LEMMA GreatestNat ==
  ASSUME NEW b \in Nat, NEW S, S \subseteq 0 .. b, S # {}
  PROVE  \E x \in S : \A y \in S : y <= x
<1> DEFINE T == {k \in 0 .. b : b - k \in S}
<1>1. T \subseteq Nat
  OBVIOUS
<1>2. PICK s : s \in S
  OBVIOUS
<1>3. b - s \in T
  BY <1>2
<1>4. PICK k \in T : \A m \in T : k <= m
  <2> HIDE DEF T
  <2> QED
    BY <1>1, <1>3, LeastNat
<1>5. ASSUME NEW y \in S
      PROVE  y <= b - k
  <2>1. b - y \in T
    BY <1>5
  <2> QED
    BY <1>4, <2>1
<1> QED
  BY <1>4, <1>5

\* Induction up to n.
LEMMA UpTo ==
  ASSUME NEW n \in Nat, NEW S, 0 \in S, \A k \in 0 .. n - 1 : k \in S => k + 1 \in S
  PROVE  \A k \in 0 .. n : k \in S
<1> DEFINE T == (0 .. n) \ S
<1> SUFFICES ASSUME T # {}
             PROVE  FALSE
  OBVIOUS
<1>1. T \subseteq Nat
  OBVIOUS
<1>2. PICK x \in T : \A y \in T : x <= y
  <2> HIDE DEF T
  <2> QED
    BY <1>1, LeastNat
<1>3. x - 1 \in 0 .. n - 1 /\ x - 1 \notin T
  BY <1>2
<1> QED
  BY <1>3

-----------------------------------------------------------------------------
(* The scanner has its own copies of the operators on characters.          *)

LEMMA SameOperators ==
  /\ \A S : Scan!Cardinality(S) = Cardinality(S)
  /\ Scan!Newline = Newline
  /\ \A c : /\ Scan!isalpha(c) = isalpha(c)
            /\ Scan!isdigit(c) = isdigit(c)
            /\ Scan!isalnum(c) = isalnum(c)
            /\ Scan!isspace(c) = isspace(c)
BY DEF Scan!Cardinality, Cardinality, Scan!Newline, Newline, Scan!isspace, isspace,
       Scan!Spaces, Spaces, Scan!VerticalTab, VerticalTab, Scan!isalnum, isalnum, Scan!isalpha, isalpha,
       Scan!isdigit, isdigit, Scan!Letters, Letters, Scan!Digits, Digits,
       Scan!DigitChars, DigitChars

LEMMA SameTexts ==
  /\ \A text : Scan!Value(text) = Value(text)
  /\ \A text : Scan!reserved_type(text) = reserved_type(text)
  /\ \A typ, text, value, line, column :
       Scan!Lexeme(typ, text, value, line, column) = Lexeme(typ, text, value, line, column)
<1>1. \A text : Scan!Value(text) = Value(text)
  BY DEF Scan!Value, Value, Scan!DigitChars, DigitChars
<1>2. \A text : Scan!reserved_type(text) = reserved_type(text)
  BY DEF Scan!reserved_type, reserved_type, Scan!reserved_words, reserved_words,
         Scan!reserved_types, reserved_types
<1>3. \A typ, text, value, line, column :
        Scan!Lexeme(typ, text, value, line, column) = Lexeme(typ, text, value, line, column)
  BY DEF Scan!Lexeme, Lexeme
<1> QED
  BY <1>1, <1>2, <1>3

-----------------------------------------------------------------------------
(* Places.                                                                 *)

LEMMA Newlines ==
  ASSUME file \in Files, NEW i \in 1 .. Len(file) + 1
  PROVE  /\ Scan!NewlinesBefore(i) = {k \in 1 .. i - 1 : file[k] = Newline}
         /\ IsFiniteSet(Scan!NewlinesBefore(i))
         /\ Cardinality(Scan!NewlinesBefore(i)) \in Nat
         /\ Scan!LineOf(i) = 1 + Cardinality(Scan!NewlinesBefore(i))
<1>1. Scan!NewlinesBefore(i) = {k \in 1 .. i - 1 : file[k] = Newline}
  BY SameOperators DEF Scan!NewlinesBefore
<1>2. Len(file) \in Nat
  BY FileType
<1>3. IsFiniteSet(1 .. i - 1)
  BY <1>2, FS_Interval
<1>4. IsFiniteSet(Scan!NewlinesBefore(i))
  BY <1>1, <1>3, FS_Subset
<1>5. Cardinality(Scan!NewlinesBefore(i)) \in Nat
  BY <1>4, FS_CardinalityType
<1>6. Scan!LineOf(i) = 1 + Cardinality(Scan!NewlinesBefore(i))
  BY SameOperators DEF Scan!LineOf
<1> QED
  BY <1>1, <1>4, <1>5, <1>6

\* The column is counted from the last newline.
LEMMA LastNewline ==
  ASSUME file \in Files, NEW i \in 1 .. Len(file) + 1
  PROVE  \E k \in 0 .. i - 1 :
           /\ k \in Scan!NewlinesBefore(i) \cup {0}
           /\ \A m \in Scan!NewlinesBefore(i) : m <= k
           /\ Scan!ColumnOf(i) = i - k
<1> DEFINE S == Scan!NewlinesBefore(i) \cup {0}
<1>1. Len(file) \in Nat
  BY FileType
<1>2. S \subseteq 0 .. i - 1
  BY <1>1, Newlines
<1>3. i - 1 \in Nat
  BY <1>1
<1>4. \E k \in S : \A m \in S : m <= k
  <2>1. 0 \in S
    OBVIOUS
  <2> HIDE DEF S
  <2> QED
    BY <1>2, <1>3, <2>1, GreatestNat
<1>5. \E k \in S : \A m \in Scan!NewlinesBefore(i) : m <= k
  BY <1>4
<1> QED
  BY <1>2, <1>5 DEF Scan!ColumnOf

LEMMA PlaceTypes ==
  ASSUME file \in Files, NEW i \in 1 .. Len(file) + 1
  PROVE  Scan!LineOf(i) \in Nat /\ Scan!ColumnOf(i) \in Nat /\ Scan!ColumnOf(i) >= 1
<1>1. Len(file) \in Nat
  BY FileType
<1> QED
  BY <1>1, Newlines, LastNewline

LEMMA FirstPlace ==
  ASSUME file \in Files
  PROVE  Scan!LineOf(1) = 1 /\ Scan!ColumnOf(1) = 1
<1>1. Len(file) \in Nat /\ 1 \in 1 .. Len(file) + 1
  BY FileType
<1>2. Scan!NewlinesBefore(1) = {}
  BY <1>1, Newlines
<1>3. Scan!LineOf(1) = 1
  BY <1>1, <1>2, Newlines, FS_EmptySet
<1>4. Scan!ColumnOf(1) = 1
  BY <1>1, <1>2, LastNewline
<1> QED
  BY <1>3, <1>4

\* How lexer_getchar counts.
LEMMA NextPlace ==
  ASSUME file \in Files, NEW i \in 1 .. Len(file)
  PROVE  /\ Scan!LineOf(i + 1) = IF file[i] = Newline THEN Scan!LineOf(i) + 1
                                 ELSE Scan!LineOf(i)
         /\ Scan!ColumnOf(i + 1) = IF file[i] = Newline THEN 1
                                   ELSE Scan!ColumnOf(i) + 1
<1>1. Len(file) \in Nat /\ i \in 1 .. Len(file) + 1 /\ i + 1 \in 1 .. Len(file) + 1
  BY FileType
<1>2. PICK j \in 1 .. Len(file) + 1 : j = i + 1
  BY <1>1
<1>3. PICK k \in 0 .. j - 1 :
        /\ k \in Scan!NewlinesBefore(j) \cup {0}
        /\ \A m \in Scan!NewlinesBefore(j) : m <= k
        /\ Scan!ColumnOf(j) = j - k
  BY LastNewline
<1>4. CASE file[i] = Newline
  <2>1. Scan!NewlinesBefore(j) = Scan!NewlinesBefore(i) \cup {i}
    BY <1>1, <1>2, <1>4, Newlines
  <2>2. i \notin Scan!NewlinesBefore(i)
    BY <1>1, Newlines
  <2>3. Cardinality(Scan!NewlinesBefore(j)) = Cardinality(Scan!NewlinesBefore(i)) + 1
    BY <1>1, <2>1, <2>2, Newlines, FS_AddElement
  <2>4. Scan!LineOf(j) = Scan!LineOf(i) + 1
    BY <1>1, <2>3, Newlines
  <2>5. i \in Scan!NewlinesBefore(j)
    BY <2>1
  <2>6. k = i
    BY <1>1, <1>2, <1>3, <2>5
  <2> QED
    BY <1>1, <1>2, <1>3, <1>4, <2>4, <2>6
<1>5. CASE file[i] # Newline
  <2>1. Scan!NewlinesBefore(j) = Scan!NewlinesBefore(i)
    <3>1. \A m \in 1 .. j - 1 : file[m] = Newline => m \in 1 .. i - 1
      BY <1>1, <1>2, <1>5
    <3>2. \A m \in 1 .. i - 1 : m \in 1 .. j - 1
      BY <1>1, <1>2
    <3> QED
      BY <1>1, <3>1, <3>2, Newlines
  <2>2. Scan!LineOf(j) = Scan!LineOf(i)
    BY <1>1, <2>1, Newlines
  <2>3. PICK n \in 0 .. i - 1 :
          /\ n \in Scan!NewlinesBefore(i) \cup {0}
          /\ \A m \in Scan!NewlinesBefore(i) : m <= n
          /\ Scan!ColumnOf(i) = i - n
    BY <1>1, LastNewline
  <2>4. k = n
    BY <1>1, <1>3, <2>1, <2>3
  <2> QED
    BY <1>1, <1>2, <1>3, <1>5, <2>2, <2>3, <2>4
<1> QED
  BY <1>4, <1>5

\* No character follows another one in the same place.
LEMMA LaterPlace ==
  ASSUME file \in Files, NEW i \in 1 .. Len(file) + 1, NEW j \in 1 .. Len(file) + 1, i < j
  PROVE  Scan!LineOf(i) # Scan!LineOf(j) \/ Scan!ColumnOf(i) # Scan!ColumnOf(j)
<1>1. Len(file) \in Nat
  BY FileType
<1>2. Scan!NewlinesBefore(i) \subseteq Scan!NewlinesBefore(j)
  BY <1>1, Newlines
<1>3. CASE Scan!NewlinesBefore(i) = Scan!NewlinesBefore(j)
  <2>1. PICK k \in 0 .. i - 1 :
          /\ k \in Scan!NewlinesBefore(i) \cup {0}
          /\ \A m \in Scan!NewlinesBefore(i) : m <= k
          /\ Scan!ColumnOf(i) = i - k
    BY LastNewline
  <2>2. PICK n \in 0 .. j - 1 :
          /\ n \in Scan!NewlinesBefore(j) \cup {0}
          /\ \A m \in Scan!NewlinesBefore(j) : m <= n
          /\ Scan!ColumnOf(j) = j - n
    BY LastNewline
  <2>3. k = n
    BY <1>1, <1>3, <2>1, <2>2
  <2> QED
    BY <1>1, <2>1, <2>2, <2>3
<1>4. CASE Scan!NewlinesBefore(i) # Scan!NewlinesBefore(j)
  <2>1. Cardinality(Scan!NewlinesBefore(i)) < Cardinality(Scan!NewlinesBefore(j))
    BY <1>2, <1>4, Newlines, FS_Subset
  <2> QED
    BY <2>1, Newlines
<1> QED
  BY <1>3, <1>4

LEMMA PlacesDiffer ==
  ASSUME file \in Files, NEW i \in 1 .. Len(file) + 1, NEW j \in 1 .. Len(file) + 1,
         Scan!LineOf(i) = Scan!LineOf(j), Scan!ColumnOf(i) = Scan!ColumnOf(j)
  PROVE  i = j
<1>1. Len(file) \in Nat
  BY FileType
<1> QED
  BY <1>1, LaterPlace

-----------------------------------------------------------------------------
(* Blanks.                                                                 *)

\* How lexer_consume_ignored and lexer_consume_comment go on.
LEMMA CommentStep ==
  ASSUME file \in Files, NEW u \in 1 .. Len(file) + 1, NEW k \in u .. Len(file)
  PROVE  /\ Scan!InComment(u, k) <=> /\ file[k] # Newline
                                     /\ file[k] = "#" \/ Scan!InComment(u, k - 1)
         /\ Scan!IsBlank(u, k) <=> isspace(file[k]) \/ Scan!InComment(u, k)
<1>1. Len(file) \in Nat /\ Scan!Newline = Newline
  BY FileType, SameOperators
<1>2. ASSUME Scan!InComment(u, k)
      PROVE  file[k] # Newline /\ (file[k] = "#" \/ Scan!InComment(u, k - 1))
  <2>1. PICK h \in u .. k : file[h] = "#" /\ \A m \in h .. k : file[m] # Newline
    BY <1>1, <1>2 DEF Scan!InComment
  <2>2. k \in h .. k
    BY <1>1
  <2>3. CASE h = k
    BY <2>1, <2>2, <2>3
  <2>4. CASE h # k
    <3>1. h \in u .. k - 1 /\ \A m \in h .. k - 1 : m \in h .. k
      BY <1>1, <2>4
    <3>2. Scan!InComment(u, k - 1)
      BY <1>1, <2>1, <3>1 DEF Scan!InComment
    <3> QED
      BY <2>1, <2>2, <3>2
  <2> QED
    BY <2>3, <2>4
<1>3. ASSUME file[k] # Newline, file[k] = "#" \/ Scan!InComment(u, k - 1)
      PROVE  Scan!InComment(u, k)
  <2>1. CASE file[k] = "#"
    <3>1. k \in u .. k /\ \A m \in k .. k : m = k
      BY <1>1
    <3> QED
      BY <1>1, <1>3, <2>1, <3>1 DEF Scan!InComment
  <2>2. CASE Scan!InComment(u, k - 1)
    <3>1. PICK h \in u .. k - 1 : file[h] = "#" /\ \A m \in h .. k - 1 : file[m] # Newline
      BY <1>1, <2>2 DEF Scan!InComment
    <3>2. h \in u .. k /\ \A m \in h .. k : m \in h .. k - 1 \/ m = k
      BY <1>1
    <3> QED
      BY <1>1, <1>3, <3>1, <3>2 DEF Scan!InComment
  <2> QED
    BY <1>3, <2>1, <2>2
<1> QED
  BY <1>2, <1>3, SameOperators DEF Scan!IsBlank

LEMMA NoCommentYet ==
  ASSUME NEW u \in Nat
  PROVE  ~Scan!InComment(u, u - 1)
BY DEF Scan!InComment

\* Where the blanks end.
LEMMA StartIs ==
  ASSUME file \in Files, NEW u \in 1 .. Len(file) + 1, NEW j \in u .. Len(file) + 1,
         \A k \in u .. j - 1 : Scan!IsBlank(u, k),
         j = Len(file) + 1 \/ ~Scan!IsBlank(u, j)
  PROVE  Scan!Start(u) = j
<1> DEFINE Ends(i) == /\ \A k \in u .. i - 1 : Scan!IsBlank(u, k)
                      /\ i = Len(file) + 1 \/ ~Scan!IsBlank(u, i)
<1>1. Len(file) \in Nat
  BY FileType
<1>2. ASSUME NEW i \in u .. Len(file) + 1, Ends(i)
      PROVE  i = j
  <2>1. ~(i < j)
    <3> SUFFICES ASSUME i < j PROVE FALSE
      OBVIOUS
    <3>1. i \in u .. j - 1 /\ i # Len(file) + 1
      BY <1>1
    <3> QED
      BY <1>2, <3>1
  <2>2. ~(j < i)
    <3> SUFFICES ASSUME j < i PROVE FALSE
      OBVIOUS
    <3>1. j \in u .. i - 1 /\ j # Len(file) + 1
      BY <1>1
    <3> QED
      BY <1>2, <3>1
  <2> QED
    BY <1>1, <2>1, <2>2
<1>3. Ends(j)
  OBVIOUS
<1>4. Scan!Start(u) = CHOOSE i \in u .. Len(file) + 1 : Ends(i)
  BY DEF Scan!Start, Scan!End
<1> HIDE DEF Ends
<1> QED
  BY <1>2, <1>3, <1>4

-----------------------------------------------------------------------------
(* The text of a token.                                                    *)

\* The text from j to k.
LEMMA TextIs ==
  ASSUME file \in Files, NEW j \in 1 .. Len(file), NEW k \in j .. Len(file)
  PROVE  /\ SubSeq(file, j, k) \in Seq(STRING)
         /\ Len(SubSeq(file, j, k)) = k - j + 1
         /\ DOMAIN SubSeq(file, j, k) = 1 .. k - j + 1
         /\ \A m \in 1 .. k - j + 1 : SubSeq(file, j, k)[m] = file[j + m - 1]
         /\ SubSeq(file, j, k)[1] = file[j]
BY FileType

LEMMA AppendIs ==
  ASSUME NEW S, NEW s \in Seq(S), NEW e \in S
  PROVE  /\ Append(s, e) \in Seq(S)
         /\ Len(Append(s, e)) = Len(s) + 1
         /\ Append(s, e)[Len(s) + 1] = e
         /\ \A m \in 1 .. Len(s) : Append(s, e)[m] = s[m]
OBVIOUS

LEMMA LongerText ==
  ASSUME file \in Files, NEW j \in 1 .. Len(file), NEW k \in j .. Len(file) - 1
  PROVE  SubSeq(file, j, k + 1) = Append(SubSeq(file, j, k), file[k + 1])
<1>1. file \in Seq(STRING) /\ Len(file) \in Nat
  BY FileType
<1>2. /\ SubSeq(file, j, k) \in Seq(STRING) /\ Len(SubSeq(file, j, k)) = k - j + 1
      /\ \A m \in 1 .. k - j + 1 : SubSeq(file, j, k)[m] = file[j + m - 1]
  BY TextIs, <1>1
<1>3. /\ SubSeq(file, j, k + 1) \in Seq(STRING) /\ Len(SubSeq(file, j, k + 1)) = k - j + 2
      /\ \A m \in 1 .. k - j + 2 : SubSeq(file, j, k + 1)[m] = file[j + m - 1]
  <2>1. k + 1 \in j .. Len(file)
    BY <1>1
  <2>2. k + 1 - j + 1 = k - j + 2
    BY <1>1
  <2> QED
    BY TextIs, <2>1, <2>2
<1>4. file[k + 1] \in STRING
  BY <1>1
<1> DEFINE s == SubSeq(file, j, k)
           e == file[k + 1]
           a == Append(s, e)
<1>5. a \in Seq(STRING) /\ Len(a) = k - j + 2 /\ a[k - j + 2] = e
      /\ \A m \in 1 .. k - j + 1 : a[m] = s[m]
  <2> HIDE DEF s, e
  <2>1. s \in Seq(STRING) /\ Len(s) = k - j + 1 /\ e \in STRING
    BY <1>2, <1>4 DEF s, e
  <2>2. a \in Seq(STRING) /\ Len(a) = Len(s) + 1 /\ a[Len(s) + 1] = e
    BY <2>1, AppendIs
  <2>3. \A m \in 1 .. Len(s) : a[m] = s[m]
    BY <2>1, AppendIs
  <2>4. Len(s) + 1 = k - j + 2
    BY <1>1, <2>1
  <2> HIDE DEF a
  <2> QED
    BY <2>1, <2>2, <2>3, <2>4
<1>6. \A m \in 1 .. k - j + 2 : a[m] = file[j + m - 1]
  <2> TAKE m \in 1 .. k - j + 2
  <2>1. m \in 1 .. k - j + 1 \/ m = k - j + 2
    BY <1>1
  <2>2. m = k - j + 2 => j + m - 1 = k + 1
    BY <1>1
  <2> HIDE DEF a
  <2> QED
    BY <1>2, <1>5, <2>1, <2>2
<1> HIDE DEF a
<1> QED
  BY <1>1, <1>3, <1>5, <1>6 DEF a

\* The texts from j that are legal.
Legal(j, k) == \/ Scan!IsSymbol(SubSeq(file, j, k))
               \/ Scan!IsWord(SubSeq(file, j, k))
               \/ Scan!IsNumber(SubSeq(file, j, k))

LEMMA LongestIs ==
  ASSUME file \in Files, NEW j \in 1 .. Len(file), NEW k \in j .. Len(file),
         Legal(j, k), \A m \in k + 1 .. Len(file) : ~Legal(j, m)
  PROVE  Scan!Longest(j) = {SubSeq(file, j, k)}
<1> DEFINE lasts == {m \in j .. Len(file) : Legal(j, m)}
<1>1. Len(file) \in Nat
  BY FileType
<1>2. {m \in lasts : \A n \in lasts : n <= m} = {k}
  <2>1. k \in lasts
    OBVIOUS
  <2>2. \A m \in lasts : m <= k
    BY <1>1
  <2>3. ASSUME NEW m \in lasts, \A n \in lasts : n <= m
        PROVE  m = k
    BY <1>1, <2>1, <2>2, <2>3
  <2> HIDE DEF lasts
  <2> QED
    BY <2>1, <2>2, <2>3
<1>3. Scan!Longest(j) = {SubSeq(file, j, m) : m \in {n \in lasts : \A o \in lasts : o <= n}}
  BY DEF Scan!Longest, Legal
<1> QED
  BY <1>2, <1>3

LEMMA NoneLegal ==
  ASSUME NEW j, \A m \in j .. Len(file) : ~Legal(j, m)
  PROVE  Scan!Longest(j) = {} /\ Scan!TokensAt(j) = {}
<1>1. Scan!Longest(j) = {}
  BY DEF Scan!Longest, Legal
<1> QED
  BY <1>1 DEF Scan!TokensAt

-----------------------------------------------------------------------------
(* Symbols, words and numbers.                                             *)

SymbolTexts ==
  {<<".">>, <<";">>, <<",">>, <<":", "=">>, <<"=">>, <<"(">>, <<")">>, <<"<">>,
   <<"<", "=">>, <<"<", ">">>, <<">">>, <<">", "=">>, <<"+">>, <<"-">>, <<"*">>, <<"/">>}

LEMMA SymbolDomain ==
  DOMAIN Scan!SymbolTypes =
    {"periodsym", "semisym", "commasym", "becomessym", "eqsym", "lparensym",
     "rparensym", "lessym", "leqsym", "neqsym", "gtrsym", "geqsym", "plussym",
     "minussym", "multsym", "divsym"}
BY DEF Scan!SymbolTypes

LEMMA SymbolTable ==
  LET S == Scan!SymbolTypes
  IN  /\ S["periodsym"] = <<".">> /\ S["semisym"] = <<";">> /\ S["commasym"] = <<",">>
      /\ S["becomessym"] = <<":", "=">> /\ S["eqsym"] = <<"=">> /\ S["lparensym"] = <<"(">>
      /\ S["rparensym"] = <<")">> /\ S["lessym"] = <<"<">> /\ S["leqsym"] = <<"<", "=">>
      /\ S["neqsym"] = <<"<", ">">> /\ S["gtrsym"] = <<">">> /\ S["geqsym"] = <<">", "=">>
      /\ S["plussym"] = <<"+">> /\ S["minussym"] = <<"-">> /\ S["multsym"] = <<"*">>
      /\ S["divsym"] = <<"/">>
BY DEF Scan!SymbolTypes

LEMMA SymbolsAre ==
  ASSUME NEW text
  PROVE  Scan!IsSymbol(text) <=> text \in SymbolTexts
BY SymbolDomain, SymbolTable DEF Scan!IsSymbol, SymbolTexts

LEMMA FirstChars ==
  LET S == Scan!SymbolTypes
  IN  /\ S["periodsym"][1] = "." /\ S["semisym"][1] = ";" /\ S["commasym"][1] = ","
      /\ S["becomessym"][1] = ":" /\ S["eqsym"][1] = "=" /\ S["lparensym"][1] = "("
      /\ S["rparensym"][1] = ")" /\ S["lessym"][1] = "<" /\ S["leqsym"][1] = "<"
      /\ S["neqsym"][1] = "<" /\ S["gtrsym"][1] = ">" /\ S["geqsym"][1] = ">"
      /\ S["plussym"][1] = "+" /\ S["minussym"][1] = "-" /\ S["multsym"][1] = "*"
      /\ S["divsym"][1] = "/"
BY DEF Scan!SymbolTypes

LEMMA SecondChars ==
  LET S == Scan!SymbolTypes
  IN  /\ Len(S["lessym"]) = 1 /\ Len(S["leqsym"]) = 2 /\ S["leqsym"][2] = "="
      /\ Len(S["neqsym"]) = 2 /\ S["neqsym"][2] = ">"
      /\ Len(S["gtrsym"]) = 1 /\ Len(S["geqsym"]) = 2
BY DEF Scan!SymbolTypes

\* No symbol has two types.
LEMMA SymbolTypesDiffer ==
  ASSUME NEW a \in DOMAIN Scan!SymbolTypes, NEW b \in DOMAIN Scan!SymbolTypes,
         Scan!SymbolTypes[a] = Scan!SymbolTypes[b]
  PROVE  a = b
<1> DEFINE S == Scan!SymbolTypes
<1>1. S[a][1] = S[b][1] /\ S[a][2] = S[b][2] /\ Len(S[a]) = Len(S[b])
  OBVIOUS
<1>2. CASE a \in {"periodsym", "semisym", "commasym"}
  BY <1>1, <1>2, SymbolDomain, FirstChars
<1>3. CASE a \in {"becomessym", "eqsym", "lparensym"}
  BY <1>1, <1>3, SymbolDomain, FirstChars
<1>4. CASE a \in {"rparensym", "plussym", "minussym"}
  BY <1>1, <1>4, SymbolDomain, FirstChars
<1>5. CASE a \in {"multsym", "divsym"}
  BY <1>1, <1>5, SymbolDomain, FirstChars
<1>6. CASE a = "lessym"
  BY <1>1, <1>6, SymbolDomain, FirstChars, SecondChars
<1>7. CASE a = "leqsym"
  BY <1>1, <1>7, SymbolDomain, FirstChars, SecondChars
<1>8. CASE a = "neqsym"
  BY <1>1, <1>8, SymbolDomain, FirstChars, SecondChars
<1>9. CASE a = "gtrsym"
  BY <1>1, <1>9, SymbolDomain, FirstChars, SecondChars
<1>10. CASE a = "geqsym"
  BY <1>1, <1>10, SymbolDomain, FirstChars, SecondChars
<1> QED
  BY <1>2, <1>3, <1>4, <1>5, <1>6, <1>7, <1>8, <1>9, <1>10, SymbolDomain

LEMMA Short ==
  ASSUME NEW a, NEW b
  PROVE  /\ Len(<<a>>) = 1 /\ <<a>>[1] = a
         /\ Len(<<a, b>>) = 2 /\ <<a, b>>[1] = a /\ <<a, b>>[2] = b
OBVIOUS

LEMMA PunctuationDomain ==
  DOMAIN Punctuation = {".", ";", ",", "=", "(", ")", "+", "-", "*", "/"}
BY DEF Punctuation

LEMMA SymbolStarts ==
  ASSUME NEW text \in SymbolTexts
  PROVE  /\ Len(text) \in {1, 2}
         /\ text[1] \in DOMAIN Punctuation \cup {":", "<", ">"}
         /\ Len(text) = 1 => text[1] # ":"
         /\ Len(text) = 2 => \/ text[1] = ":" /\ text[2] = "="
                             \/ text[1] = "<" /\ text[2] \in {"=", ">"}
                             \/ text[1] = ">" /\ text[2] = "="
<1>1. CASE \E c \in DOMAIN Punctuation \cup {"<", ">"} : text = <<c>>
  BY <1>1, Short, PunctuationDomain
<1>2. CASE text = <<":", "=">>
  BY <1>2, Short
<1>3. CASE \E c \in {"=", ">"} : text = <<"<", c>>
  BY <1>3, Short
<1>4. CASE text = <<">", "=">>
  BY <1>4, Short
<1> QED
  BY <1>1, <1>2, <1>3, <1>4, PunctuationDomain DEF SymbolTexts

LEMMA DigitsAre ==
  Digits = {"0", "1", "2", "3", "4", "5", "6", "7", "8", "9"}
<1>1. 1 .. 10 = {1, 2, 3, 4, 5, 6, 7, 8, 9, 10}
  OBVIOUS
<1>2. /\ DigitChars[1] = "0" /\ DigitChars[2] = "1" /\ DigitChars[3] = "2"
      /\ DigitChars[4] = "3" /\ DigitChars[5] = "4" /\ DigitChars[6] = "5"
      /\ DigitChars[7] = "6" /\ DigitChars[8] = "7" /\ DigitChars[9] = "8"
      /\ DigitChars[10] = "9"
  BY DEF DigitChars
<1> QED
  BY <1>1, <1>2 DEF Digits

LEMMA CharKinds ==
  ASSUME NEW c
  PROVE  /\ isalpha(c) => ~isdigit(c)
         /\ c \in DOMAIN Punctuation \cup {":", "<", ">"} => ~isalnum(c) /\ ~isspace(c)
         /\ isalnum(c) => ~isspace(c) /\ c # Newline /\ c # "#" /\ c # EOF
         /\ isspace(c) => c # "#" /\ c # EOF
<1>1. isalpha(c) => ~isdigit(c)
  BY DigitsAre DEF isalpha, isdigit, Letters
<1>2. c \in DOMAIN Punctuation \cup {":", "<", ">"} => ~isalnum(c) /\ ~isspace(c)
  BY DigitsAre, PunctuationDomain
     DEF isalpha, isdigit, isalnum, isspace, Letters, Spaces, VerticalTab, Newline
<1>3. isalnum(c) => ~isspace(c) /\ c # Newline /\ c # "#" /\ c # EOF
  BY DigitsAre DEF isalpha, isdigit, isalnum, isspace, Letters, Spaces, VerticalTab, Newline, EOF
<1>4. isspace(c) => c # "#" /\ c # EOF
  BY DEF isspace, Spaces, VerticalTab, Newline, EOF
<1> QED
  BY <1>1, <1>2, <1>3, <1>4

-----------------------------------------------------------------------------
(* Texts of the file.                                                      *)

LEMMA WordIs ==
  ASSUME file \in Files, NEW j \in 1 .. Len(file), NEW k \in j .. Len(file)
  PROVE  Scan!IsWord(SubSeq(file, j, k)) <=> /\ isalpha(file[j])
                                             /\ \A m \in j .. k : isalnum(file[m])
<1> DEFINE text == SubSeq(file, j, k)
<1>1. Len(file) \in Nat
  BY FileType
<1>2. Scan!IsWord(text) <=> isalpha(text[1]) /\ \A m \in DOMAIN text : isalnum(text[m])
  BY SameOperators DEF Scan!IsWord
<1>3. /\ DOMAIN text = 1 .. k - j + 1 /\ text[1] = file[j]
      /\ \A m \in 1 .. k - j + 1 : text[m] = file[j + m - 1]
  BY TextIs
<1> HIDE DEF text
<1>4. (\A m \in DOMAIN text : isalnum(text[m])) <=> \A m \in j .. k : isalnum(file[m])
  <2>1. ASSUME \A m \in DOMAIN text : isalnum(text[m]), NEW m \in j .. k
        PROVE  isalnum(file[m])
    <3>1. m - j + 1 \in 1 .. k - j + 1 /\ j + (m - j + 1) - 1 = m
      BY <1>1
    <3> QED
      BY <1>3, <2>1, <3>1
  <2>2. ASSUME \A m \in j .. k : isalnum(file[m]), NEW m \in DOMAIN text
        PROVE  isalnum(text[m])
    <3>1. j + m - 1 \in j .. k
      BY <1>1, <1>3
    <3> QED
      BY <1>3, <2>2, <3>1
  <2> QED
    BY <2>1, <2>2
<1> QED
  BY <1>2, <1>3, <1>4 DEF text

LEMMA NumberIs ==
  ASSUME file \in Files, NEW j \in 1 .. Len(file), NEW k \in j .. Len(file)
  PROVE  Scan!IsNumber(SubSeq(file, j, k)) <=> \A m \in j .. k : isdigit(file[m])
<1> DEFINE text == SubSeq(file, j, k)
<1>1. Len(file) \in Nat
  BY FileType
<1>2. Scan!IsNumber(text) <=> \A m \in DOMAIN text : isdigit(text[m])
  BY SameOperators DEF Scan!IsNumber
<1>3. /\ DOMAIN text = 1 .. k - j + 1
      /\ \A m \in 1 .. k - j + 1 : text[m] = file[j + m - 1]
  BY TextIs
<1> HIDE DEF text
<1>4. ASSUME \A m \in DOMAIN text : isdigit(text[m]), NEW m \in j .. k
      PROVE  isdigit(file[m])
  <2>1. m - j + 1 \in 1 .. k - j + 1 /\ j + (m - j + 1) - 1 = m
    BY <1>1
  <2> QED
    BY <1>3, <1>4, <2>1
<1>5. ASSUME \A m \in j .. k : isdigit(file[m]), NEW m \in DOMAIN text
      PROVE  isdigit(text[m])
  <2>1. j + m - 1 \in j .. k
    BY <1>1, <1>3
  <2> QED
    BY <1>3, <1>5, <2>1
<1> QED
  BY <1>2, <1>4, <1>5 DEF text

LEMMA SymbolIs ==
  ASSUME file \in Files, NEW j \in 1 .. Len(file), NEW k \in j .. Len(file),
         Scan!IsSymbol(SubSeq(file, j, k))
  PROVE  /\ k \in {j, j + 1}
         /\ file[j] \in DOMAIN Punctuation \cup {":", "<", ">"}
         /\ k = j => file[j] # ":"
         /\ k = j + 1 => \/ file[j] = ":" /\ file[j + 1] = "="
                         \/ file[j] = "<" /\ file[j + 1] \in {"=", ">"}
                         \/ file[j] = ">" /\ file[j + 1] = "="
<1> DEFINE text == SubSeq(file, j, k)
<1>1. Len(file) \in Nat
  BY FileType
<1>2. text \in SymbolTexts
  BY SymbolsAre
<1>3. /\ Len(text) = k - j + 1 /\ text[1] = file[j]
      /\ \A m \in 1 .. k - j + 1 : text[m] = file[j + m - 1]
  BY TextIs
<1> HIDE DEF text
<1>4. k \in {j, j + 1}
  <2>1. Len(text) = 1 \/ Len(text) = 2
    BY <1>2, SymbolStarts
  <2> QED
    BY <1>1, <1>3, <2>1
<1>5. k = j + 1 => text[2] = file[j + 1]
  <2> SUFFICES ASSUME k = j + 1 PROVE text[2] = file[j + 1]
    OBVIOUS
  <2>1. 2 \in 1 .. k - j + 1 /\ j + 2 - 1 = j + 1
    BY <1>1
  <2> QED
    BY <1>3, <2>1
<1>6. (k = j => Len(text) = 1) /\ (k = j + 1 => Len(text) = 2)
  BY <1>1, <1>3
<1> QED
  BY <1>2, <1>3, <1>4, <1>5, <1>6, SymbolStarts

-----------------------------------------------------------------------------
(* The longest text at a place.                                            *)

LEMMA LongestWord ==
  ASSUME file \in Files, NEW j \in 1 .. Len(file), NEW k \in j .. Len(file),
         Scan!IsWord(SubSeq(file, j, k)), k = Len(file) \/ ~isalnum(file[k + 1])
  PROVE  Scan!Longest(j) = {SubSeq(file, j, k)}
<1>1. Len(file) \in Nat
  BY FileType
<1>2. isalpha(file[j])
  BY WordIs
<1>3. Legal(j, k)
  BY DEF Legal
<1>4. ASSUME NEW m \in k + 1 .. Len(file)
      PROVE  ~Legal(j, m)
  <2>1. m \in j .. Len(file) /\ k + 1 \in j .. m /\ j \in j .. m /\ k # Len(file)
    BY <1>1
  <2>2. ~isdigit(file[j]) /\ isalnum(file[j]) /\ ~isalnum(file[k + 1])
    BY <1>2, <2>1, CharKinds DEF isalnum
  <2>3. ~Scan!IsWord(SubSeq(file, j, m))
    BY <2>1, <2>2, WordIs
  <2>4. ~Scan!IsNumber(SubSeq(file, j, m))
    BY <2>1, <2>2, NumberIs
  <2>5. ~Scan!IsSymbol(SubSeq(file, j, m))
    BY <2>1, <2>2, SymbolIs, CharKinds
  <2> QED
    BY <2>3, <2>4, <2>5 DEF Legal
<1> QED
  BY <1>3, <1>4, LongestIs

LEMMA LongestNumber ==
  ASSUME file \in Files, NEW j \in 1 .. Len(file), NEW k \in j .. Len(file),
         Scan!IsNumber(SubSeq(file, j, k)), k = Len(file) \/ ~isdigit(file[k + 1])
  PROVE  Scan!Longest(j) = {SubSeq(file, j, k)}
<1>1. Len(file) \in Nat
  BY FileType
<1>2. isdigit(file[j])
  <2>1. j \in j .. k
    BY <1>1
  <2> QED
    BY <2>1, NumberIs
<1>3. Legal(j, k)
  BY DEF Legal
<1>4. ASSUME NEW m \in k + 1 .. Len(file)
      PROVE  ~Legal(j, m)
  <2>1. m \in j .. Len(file) /\ k + 1 \in j .. m /\ k # Len(file)
    BY <1>1
  <2>2. ~isalpha(file[j]) /\ isalnum(file[j]) /\ ~isdigit(file[k + 1])
    BY <1>2, <2>1, CharKinds DEF isalnum
  <2>3. ~Scan!IsWord(SubSeq(file, j, m))
    BY <2>1, <2>2, WordIs
  <2>4. ~Scan!IsNumber(SubSeq(file, j, m))
    BY <2>1, <2>2, NumberIs
  <2>5. ~Scan!IsSymbol(SubSeq(file, j, m))
    BY <2>1, <2>2, SymbolIs, CharKinds
  <2> QED
    BY <2>3, <2>4, <2>5 DEF Legal
<1> QED
  BY <1>3, <1>4, LongestIs

\* Symbols have one or two characters.
LEMMA LongestSymbol ==
  ASSUME file \in Files, NEW j \in 1 .. Len(file), NEW k \in j .. Len(file),
         Scan!IsSymbol(SubSeq(file, j, k)),
         k = j /\ j < Len(file) => ~Scan!IsSymbol(SubSeq(file, j, j + 1))
  PROVE  Scan!Longest(j) = {SubSeq(file, j, k)}
<1>1. Len(file) \in Nat
  BY FileType
<1>2. ~isalnum(file[j]) /\ ~isalpha(file[j]) /\ ~isdigit(file[j])
  BY SymbolIs, CharKinds DEF isalnum
<1>3. Legal(j, k)
  BY DEF Legal
<1>4. ASSUME NEW m \in k + 1 .. Len(file)
      PROVE  ~Legal(j, m)
  <2>1. m \in j .. Len(file) /\ j \in j .. m /\ m # j /\ k \in {j, j + 1}
    BY <1>1, SymbolIs
  <2>2. ~Scan!IsWord(SubSeq(file, j, m))
    BY <1>2, <2>1, WordIs
  <2>3. ~Scan!IsNumber(SubSeq(file, j, m))
    BY <1>2, <2>1, NumberIs
  <2>4. ~Scan!IsSymbol(SubSeq(file, j, m))
    <3>1. CASE m = j + 1
      <4>1. k = j /\ j < Len(file)
        BY <1>1, <2>1, <3>1
      <4> QED
        BY <3>1, <4>1
    <3>2. CASE m # j + 1
      BY <2>1, <3>2, SymbolIs
    <3> QED
      BY <3>1, <3>2
  <2> QED
    BY <2>2, <2>3, <2>4 DEF Legal
<1> QED
  BY <1>3, <1>4, LongestIs

-----------------------------------------------------------------------------
(* The legal tokens at a place.                                            *)

\* The record of a token in place j.
TokenAt(j, typ, text, value) ==
  Lexeme(typ, text, value, Scan!LineOf(j), Scan!ColumnOf(j))

LEMMA WordToken ==
  ASSUME file \in Files, NEW j \in 1 .. Len(file), NEW k \in j .. Len(file),
         NEW text, text = SubSeq(file, j, k), Scan!IsWord(text),
         k = Len(file) \/ ~isalnum(file[k + 1]), Len(text) <= MaxIdentLength
  PROVE  Scan!TokensAt(j) = {TokenAt(j, reserved_type(text), text, 0)}
<1>1. Len(file) \in Nat /\ j \in j .. k /\ isalpha(file[j])
  BY FileType, WordIs
<1>2. ~Scan!IsNumber(text)
  BY <1>1, NumberIs, CharKinds
<1>3. ~Scan!IsSymbol(text)
  BY <1>1, SymbolIs, CharKinds DEF isalnum
<1>4. Scan!Fits(text)
  BY <1>2 DEF Scan!Fits
<1>5. {w \in Scan!Longest(j) : Scan!Fits(w)} = {text}
  BY <1>4, LongestWord
<1>6. Scan!TypeOf(text) = reserved_type(text)
  BY <1>2, <1>3, SameTexts DEF Scan!TypeOf
<1> QED
  BY <1>2, <1>5, <1>6, SameTexts DEF Scan!TokensAt, TokenAt

LEMMA NumberToken ==
  ASSUME file \in Files, NEW j \in 1 .. Len(file), NEW k \in j .. Len(file),
         NEW text, text = SubSeq(file, j, k), Scan!IsNumber(text),
         k = Len(file) \/ ~isdigit(file[k + 1]), Len(text) <= MaxNumLength,
         Value(text) <= ShrtMax
  PROVE  Scan!TokensAt(j) = {TokenAt(j, "numbersym", text, Value(text))}
<1>1. Len(file) \in Nat /\ j \in j .. k
  BY FileType
<1>2. isdigit(file[j])
  BY <1>1, NumberIs
<1>3. ~Scan!IsWord(text)
  BY <1>1, <1>2, WordIs, CharKinds
<1>4. ~Scan!IsSymbol(text)
  BY <1>2, SymbolIs, CharKinds DEF isalnum
<1>5. Scan!Fits(text)
  BY <1>3, SameTexts DEF Scan!Fits
<1>6. {w \in Scan!Longest(j) : Scan!Fits(w)} = {text}
  BY <1>5, LongestNumber
<1>7. Scan!TypeOf(text) = "numbersym"
  BY <1>3, <1>4 DEF Scan!TypeOf
<1> QED
  BY <1>6, <1>7, SameTexts DEF Scan!TokensAt, TokenAt

LEMMA SymbolToken ==
  ASSUME file \in Files, NEW j \in 1 .. Len(file), NEW k \in j .. Len(file),
         NEW text, text = SubSeq(file, j, k),
         NEW typ \in DOMAIN Scan!SymbolTypes, Scan!SymbolTypes[typ] = text,
         k = j /\ j < Len(file) => ~Scan!IsSymbol(SubSeq(file, j, j + 1))
  PROVE  Scan!TokensAt(j) = {TokenAt(j, typ, text, 0)}
<1>1. Len(file) \in Nat /\ j \in j .. k /\ Scan!IsSymbol(text)
  BY FileType DEF Scan!IsSymbol
<1>2. ~isalnum(file[j])
  BY <1>1, SymbolIs, CharKinds
<1>3. ~Scan!IsWord(text) /\ ~Scan!IsNumber(text)
  BY <1>1, <1>2, WordIs, NumberIs DEF isalnum
<1>4. Scan!Fits(text)
  BY <1>3 DEF Scan!Fits
<1>5. {w \in Scan!Longest(j) : Scan!Fits(w)} = {text}
  BY <1>1, <1>4, LongestSymbol
<1>6. Scan!TypeOf(text) = typ
  <2>1. \A a \in DOMAIN Scan!SymbolTypes : Scan!SymbolTypes[a] = text => a = typ
    BY SymbolTypesDiffer
  <2> QED
    BY <1>1, <1>3, <2>1 DEF Scan!TypeOf
<1> QED
  BY <1>3, <1>5, <1>6, SameTexts DEF Scan!TokensAt, TokenAt

\* No token: a word or a number that is too long, a number that is too large,
\* a character that starts none.
LEMMA LongWord ==
  ASSUME file \in Files, NEW j \in 1 .. Len(file), NEW k \in j .. Len(file) - 1,
         Scan!IsWord(SubSeq(file, j, k)), isalnum(file[k + 1]),
         Len(SubSeq(file, j, k)) >= MaxIdentLength
  PROVE  Scan!TokensAt(j) = {}
<1>1. Len(file) \in Nat /\ k + 1 \in j .. Len(file) /\ k \in j .. Len(file)
  BY FileType
<1>2. isalpha(file[j]) /\ \A m \in j .. k : isalnum(file[m])
  BY <1>1, WordIs
<1>3. Scan!IsWord(SubSeq(file, j, k + 1))
  <2>1. \A m \in j .. k + 1 : m \in j .. k \/ m = k + 1
    BY <1>1
  <2> QED
    BY <1>1, <1>2, <2>1, WordIs
<1>4. ASSUME NEW m \in j .. Len(file), Legal(j, m), m >= k + 1
      PROVE  ~Scan!Fits(SubSeq(file, j, m))
  <2>1. j \in j .. m /\ ~isdigit(file[j]) /\ isalnum(file[j])
    BY <1>1, <1>2, CharKinds DEF isalnum
  <2>2. Scan!IsWord(SubSeq(file, j, m))
    BY <1>4, <2>1, NumberIs, SymbolIs, CharKinds DEF Legal
  <2>3. Len(SubSeq(file, j, m)) > MaxIdentLength
    BY <1>1, <1>4, TextIs, LimitsAssumption
  <2> QED
    BY <1>1, <2>2, <2>3, LimitsAssumption DEF Scan!Fits
<1>5. ASSUME NEW w \in Scan!Longest(j)
      PROVE  ~Scan!Fits(w)
  <2>1. PICK m \in j .. Len(file) : /\ Legal(j, m) /\ w = SubSeq(file, j, m)
                                    /\ \A n \in j .. Len(file) : Legal(j, n) => n <= m
    BY DEF Scan!Longest, Legal
  <2>2. m >= k + 1
    BY <1>1, <1>3, <2>1 DEF Legal
  <2> QED
    BY <1>4, <2>1, <2>2
<1> QED
  BY <1>5 DEF Scan!TokensAt

LEMMA LongNumber ==
  ASSUME file \in Files, NEW j \in 1 .. Len(file), NEW k \in j .. Len(file) - 1,
         Scan!IsNumber(SubSeq(file, j, k)), isdigit(file[k + 1]),
         Len(SubSeq(file, j, k)) >= MaxNumLength
  PROVE  Scan!TokensAt(j) = {}
<1>1. Len(file) \in Nat /\ k + 1 \in j .. Len(file) /\ k \in j .. Len(file)
  BY FileType
<1>2. \A m \in j .. k : isdigit(file[m])
  BY <1>1, NumberIs
<1>3. Scan!IsNumber(SubSeq(file, j, k + 1))
  <2>1. \A m \in j .. k + 1 : m \in j .. k \/ m = k + 1
    BY <1>1
  <2> QED
    BY <1>1, <1>2, <2>1, NumberIs
<1>4. ASSUME NEW m \in j .. Len(file), Legal(j, m), m >= k + 1
      PROVE  ~Scan!Fits(SubSeq(file, j, m))
  <2>1. j \in j .. m /\ j \in j .. k
    BY <1>1
  <2>2. isdigit(file[j]) /\ isalnum(file[j]) /\ ~isalpha(file[j])
    BY <1>2, <2>1, CharKinds DEF isalnum
  <2>3. Scan!IsNumber(SubSeq(file, j, m))
    BY <1>4, <2>2, WordIs, SymbolIs, CharKinds DEF Legal
  <2>4. Len(SubSeq(file, j, m)) > MaxNumLength
    BY <1>1, <1>4, TextIs, LimitsAssumption
  <2> QED
    BY <1>1, <2>3, <2>4, LimitsAssumption DEF Scan!Fits
<1>5. ASSUME NEW w \in Scan!Longest(j)
      PROVE  ~Scan!Fits(w)
  <2>1. PICK m \in j .. Len(file) : /\ Legal(j, m) /\ w = SubSeq(file, j, m)
                                    /\ \A n \in j .. Len(file) : Legal(j, n) => n <= m
    BY DEF Scan!Longest, Legal
  <2>2. m >= k + 1
    BY <1>1, <1>3, <2>1 DEF Legal
  <2> QED
    BY <1>4, <2>1, <2>2
<1> QED
  BY <1>5 DEF Scan!TokensAt

LEMMA LargeNumber ==
  ASSUME file \in Files, NEW j \in 1 .. Len(file), NEW k \in j .. Len(file),
         Scan!IsNumber(SubSeq(file, j, k)), k = Len(file) \/ ~isdigit(file[k + 1]),
         ~(Value(SubSeq(file, j, k)) <= ShrtMax)
  PROVE  Scan!TokensAt(j) = {}
<1>1. ~Scan!Fits(SubSeq(file, j, k))
  BY SameTexts DEF Scan!Fits
<1>2. Scan!Longest(j) = {SubSeq(file, j, k)}
  BY LongestNumber
<1> QED
  BY <1>1, <1>2 DEF Scan!TokensAt

LEMMA IllegalChar ==
  ASSUME file \in Files, NEW j \in 1 .. Len(file), ~isalnum(file[j]),
         file[j] \notin DOMAIN Punctuation \cup {"<", ">"},
         file[j] = ":" /\ j < Len(file) => file[j + 1] # "="
  PROVE  Scan!TokensAt(j) = {}
<1>1. Len(file) \in Nat
  BY FileType
<1>2. ASSUME NEW m \in j .. Len(file)
      PROVE  ~Legal(j, m)
  <2>1. j \in j .. m
    BY <1>1
  <2>2. ~Scan!IsWord(SubSeq(file, j, m)) /\ ~Scan!IsNumber(SubSeq(file, j, m))
    BY <2>1, WordIs, NumberIs DEF isalnum
  <2>3. ~Scan!IsSymbol(SubSeq(file, j, m))
    <3> SUFFICES ASSUME Scan!IsSymbol(SubSeq(file, j, m)) PROVE FALSE
      OBVIOUS
    <3>1. file[j] = ":" /\ m = j + 1 /\ file[j + 1] = "="
      BY SymbolIs, PunctuationDomain
    <3>2. j < Len(file)
      BY <1>1, <3>1
    <3> QED
      BY <3>1, <3>2
  <2> QED
    BY <2>2, <2>3 DEF Legal
<1> QED
  BY <1>2, NoneLegal

-----------------------------------------------------------------------------
(* The value of a number.                                                  *)

DigitOf(c) == CHOOSE d \in 0 .. 9 : DigitChars[d + 1] = c

LEMMA DigitType ==
  ASSUME NEW c \in Digits
  PROVE  DigitOf(c) \in 0 .. 9
<1>1. PICK d \in 1 .. 10 : DigitChars[d] = c
  BY DEF Digits
<1>2. d - 1 \in 0 .. 9 /\ DigitChars[d - 1 + 1] = c
  BY <1>1
<1> QED
  BY <1>2 DEF DigitOf

\* The equation of Value.
ValueIn(s, D, f) ==
  f = [n \in D |-> IF n = 0 THEN 0 ELSE 10 * f[n - 1] + DigitOf(s[n])]

LEMMA ValueExists ==
  ASSUME NEW s, Len(s) \in Nat, \A i \in 1 .. Len(s) : s[i] \in Digits
  PROVE  \E f : ValueIn(s, 0 .. Len(s), f)
<1> DEFINE L == Len(s)
           S == {m \in 0 .. L : \E f : ValueIn(s, 0 .. m, f)}
<1>1. 0 \in S
  <2>1. ValueIn(s, 0 .. 0, [n \in 0 .. 0 |-> 0])
    BY DEF ValueIn
  <2> QED
    BY <2>1
<1>2. ASSUME NEW m \in 0 .. L - 1, m \in S
      PROVE  m + 1 \in S
  <2>1. PICK f : ValueIn(s, 0 .. m, f)
    BY <1>2
  <2> DEFINE e == 10 * f[m] + DigitOf(s[m + 1])
             g == [n \in 0 .. m + 1 |-> IF n = m + 1 THEN e ELSE f[n]]
  <2>2. \A n \in 0 .. m : g[n] = f[n]
    OBVIOUS
  <2>3. g[m + 1] = e
    OBVIOUS
  <2>4. \A n \in 0 .. m : f[n] = IF n = 0 THEN 0 ELSE 10 * f[n - 1] + DigitOf(s[n])
    BY <2>1 DEF ValueIn
  <2>5. ASSUME NEW n \in 0 .. m + 1
        PROVE  g[n] = IF n = 0 THEN 0 ELSE 10 * g[n - 1] + DigitOf(s[n])
    <3>1. CASE n = m + 1
      <4>1. n - 1 = m /\ m \in 0 .. m /\ n # 0
        BY <3>1
      <4>2. g[n - 1] = f[m]
        BY <2>2, <4>1
      <4> HIDE DEF g
      <4> QED
        BY <2>3, <3>1, <4>1, <4>2
    <3>2. CASE n # m + 1
      <4>1. n \in 0 .. m /\ (n # 0 => n - 1 \in 0 .. m)
        BY <3>2
      <4>2. g[n] = f[n] /\ (n # 0 => g[n - 1] = f[n - 1])
        BY <2>2, <4>1
      <4> HIDE DEF g
      <4> QED
        BY <2>4, <4>1, <4>2
    <3> QED
      BY <3>1, <3>2
  <2>6. g = [n \in 0 .. m + 1 |-> g[n]]
    OBVIOUS
  <2>7. ValueIn(s, 0 .. m + 1, g)
    <3> HIDE DEF g
    <3> QED
      BY <2>5, <2>6 DEF ValueIn
  <2> QED
    BY <2>7
<1>3. \A k \in 0 .. L : k \in S
  <2> HIDE DEF S
  <2> QED
    BY <1>1, <1>2, UpTo
<1> QED
  BY <1>3

LEMMA ValueType ==
  ASSUME NEW s, Len(s) \in Nat, \A i \in 1 .. Len(s) : s[i] \in Digits
  PROVE  Value(s) \in Nat
<1> DEFINE L == Len(s)
           F == CHOOSE f : ValueIn(s, 0 .. L, f)
           S == {n \in 0 .. L : F[n] \in Nat}
<1>1. ValueIn(s, 0 .. L, F)
  BY ValueExists
<1>2. Value(s) = F[L]
  BY DEF Value, ValueIn, DigitOf
<1> HIDE DEF F
<1>3. \A n \in 0 .. L : F[n] = IF n = 0 THEN 0 ELSE 10 * F[n - 1] + DigitOf(s[n])
  BY <1>1 DEF ValueIn
<1>4. 0 \in S
  BY <1>3
<1>5. ASSUME NEW m \in 0 .. L - 1, m \in S
      PROVE  m + 1 \in S
  <2>1. m + 1 \in 0 .. L /\ m + 1 # 0 /\ m + 1 - 1 = m /\ m + 1 \in 1 .. Len(s)
    OBVIOUS
  <2>2. F[m + 1] = 10 * F[m] + DigitOf(s[m + 1])
    BY <1>3, <2>1
  <2>3. DigitOf(s[m + 1]) \in 0 .. 9
    BY <2>1, DigitType
  <2>4. F[m] \in Nat
    BY <1>5
  <2> QED
    BY <2>1, <2>2, <2>3, <2>4
<1>6. \A k \in 0 .. L : k \in S
  <2> HIDE DEF S
  <2> QED
    BY <1>4, <1>5, UpTo
<1> QED
  BY <1>2, <1>6

\* sscanf reads the digits that the text starts with.
LEMMA ScannedIs ==
  ASSUME NEW text \in Seq(STRING)
  PROVE  /\ Scanned(text) \in Nat
         /\ (\A m \in 1 .. Len(text) : isdigit(text[m])) => Scanned(text) = Value(text)
<1> DEFINE S == {n \in 0 .. Len(text) : \A k \in 1 .. n : isdigit(text[k])}
           d == CHOOSE n \in S : \A m \in S : m <= n
<1>1. Len(text) \in Nat
  OBVIOUS
<1>2. 0 \in S
  OBVIOUS
<1>3. \E n \in S : \A m \in S : m <= n
  <2>1. S \subseteq 0 .. Len(text)
    OBVIOUS
  <2> HIDE DEF S
  <2> QED
    BY <1>1, <1>2, <2>1, GreatestNat
<1>4. d \in S /\ \A m \in S : m <= d
  <2> HIDE DEF S
  <2> QED
    BY <1>3
<1>5. Scanned(text) = Value(SubSeq(text, 1, d))
  BY DEF Scanned
<1> HIDE DEF d
<1>6. /\ Len(SubSeq(text, 1, d)) = d
      /\ \A i \in 1 .. d : SubSeq(text, 1, d)[i] = text[i]
  BY <1>1, <1>4
<1>7. d \in Nat /\ \A i \in 1 .. d : isdigit(text[i])
  BY <1>4
<1>8. Scanned(text) \in Nat
  BY <1>5, <1>6, <1>7, ValueType DEF isdigit
<1>9. ASSUME \A m \in 1 .. Len(text) : isdigit(text[m])
      PROVE  Scanned(text) = Value(text)
  <2>1. Len(text) \in S
    BY <1>1, <1>9
  <2>2. d = Len(text)
    BY <1>1, <1>4, <2>1
  <2>3. SubSeq(text, 1, Len(text)) = text
    BY <1>1
  <2> QED
    BY <1>5, <2>2, <2>3
<1> QED
  BY <1>8, <1>9

-----------------------------------------------------------------------------
(* The invariant.                                                          *)

\* The bytes that malloc returns are 0.
CleanMemory == Leftovers = {NUL}

Blanks == {"ignored", "comment", "token"}
InTokens == {"ident", "number", "becomes", "less", "greater"}

\* line and column are those of the next character.
Located == /\ cur.pos \in 1 .. Len(file) + 1
           /\ cur.line = Scan!LineOf(cur.pos)
           /\ cur.column = Scan!ColumnOf(cur.pos)

\* Only blanks have been read since u, and the function that runs is the one
\* for the blank that was read last.
InBlanks(u) ==
  /\ u \in 1 .. cur.pos
  /\ \A k \in u .. cur.pos - 1 : Scan!IsBlank(u, k)
  /\ pc = "comment" <=> Scan!InComment(u, cur.pos - 1)
  /\ pc = "token" => cur.pos = Len(file) + 1 \/ ~Scan!IsBlank(u, cur.pos)

\* t holds what has been read since the blanks after u, which the function that
\* runs may go on with.
InToken(u) ==
  LET j == Scan!Start(u)
  IN  /\ u \in 1 .. Len(file) /\ j \in u .. cur.pos - 1
      /\ t = TokenAt(j, "eofsym", SubSeq(file, j, cur.pos - 1), 0)
      /\ pc = "ident" => Scan!IsWord(t.text) /\ Len(t.text) <= MaxIdentLength
      /\ pc = "number" => Scan!IsNumber(t.text) /\ Len(t.text) <= MaxNumLength
      /\ pc = "becomes" => cur.pos = j + 1 /\ file[j] = ":"
      /\ pc = "less" => cur.pos = j + 1 /\ file[j] = "<"
      /\ pc = "greater" => cur.pos = j + 1 /\ file[j] = ">"

\* The inductive invariant: where the scanner is, and what the lexer has read
\* since.
ScanInv ==
  /\ pc = "start" => cur.pos = 1 /\ tokens = <<>>
  /\ pc # "start" /\ ~AtEof => Located
  /\ AtEof => done /\ pc \in {"idle", "closed"}
  /\ pc \in {"start", "opened", "idle"} /\ ~AtEof => Scan!Unread = {cur.pos}
  /\ pc \in Blanks => \E u : Scan!Unread = {u} /\ InBlanks(u)
  /\ pc \in InTokens => \E u : Scan!Unread = {u} /\ InToken(u)

\* What is known of a state in which the lexer has met no byte 0xFF.
Known == IInv /\ SafeInv /\ ScanInv

\* A step of the scanner, or none.
ScanStep == [Scan!Next]_(Scan!vars)

-----------------------------------------------------------------------------
(* Reading a character and putting it back.                                *)

\* The scanner's view of the file does not change.
LEMMA SameFile ==
  ASSUME UNCHANGED file
  PROVE  /\ \A i : /\ Scan!LineOf(i)' = Scan!LineOf(i)
                   /\ Scan!ColumnOf(i)' = Scan!ColumnOf(i)
                   /\ Scan!Start(i)' = Scan!Start(i)
                   /\ Scan!After(i)' = Scan!After(i)
         /\ \A i, k : /\ Scan!InComment(i, k)' = Scan!InComment(i, k)
                      /\ Scan!IsBlank(i, k)' = Scan!IsBlank(i, k)
         /\ UNCHANGED tokens => Scan!Unread' = Scan!Unread
         /\ \A j, typ, text, value :
              TokenAt(j, typ, text, value)' = TokenAt(j, typ, text, value)
<1>1. \A i : Scan!LineOf(i)' = Scan!LineOf(i)
  BY DEF Scan!LineOf, Scan!NewlinesBefore
<1>2. \A i : Scan!ColumnOf(i)' = Scan!ColumnOf(i)
  BY DEF Scan!ColumnOf, Scan!NewlinesBefore
<1>3. \A i, k : Scan!InComment(i, k)' = Scan!InComment(i, k)
  BY DEF Scan!InComment
<1>4. \A i, k : Scan!IsBlank(i, k)' = Scan!IsBlank(i, k)
  BY <1>3 DEF Scan!IsBlank
<1>5. \A i : Scan!Start(i)' = Scan!Start(i)
  BY <1>4 DEF Scan!Start, Scan!End
<1>6. \A i : Scan!After(i)' = Scan!After(i)
  BY <1>1, <1>2 DEF Scan!After
<1>7. UNCHANGED tokens => Scan!Unread' = Scan!Unread
  BY <1>6 DEF Scan!Unread
<1>8. \A j, typ, text, value : TokenAt(j, typ, text, value)' = TokenAt(j, typ, text, value)
  BY <1>1, <1>2 DEF TokenAt, Lexeme
<1> QED
  BY <1>1, <1>2, <1>3, <1>4, <1>5, <1>6, <1>7, <1>8

LEMMA PeekIs ==
  ASSUME NoByte255, PlaceInv, cur.pos \in 1 .. Len(file) + 1
  PROVE  /\ cur.pos \in 1 .. Len(file) => Peek = file[cur.pos] /\ Peek # EOF
         /\ Peek # EOF => cur.pos \in 1 .. Len(file)
         /\ Peek = EOF => cur.pos = Len(file) + 1
<1>1. Len(file) \in Nat /\ file \in Files
  BY FileType DEF PlaceInv
<1>2. \A i \in 1 .. Len(file) : file[i] # Byte255 /\ file[i] # EOF
  BY <1>1, FilesAssumption DEF NoByte255
<1> QED
  BY <1>1, <1>2 DEF Peek

LEMMA GetcharFields ==
  /\ lexer_getchar.pos = IF cur.pos > Len(file) THEN cur.pos ELSE cur.pos + 1
  /\ lexer_getchar.line = IF Peek = Newline THEN cur.line + 1 ELSE cur.line
  /\ lexer_getchar.column = IF Peek = Newline THEN 1 ELSE cur.column + 1
  /\ lexer_getchar.last_column = cur.column
BY DEF lexer_getchar

LEMMA Advanced ==
  ASSUME NoByte255, PlaceInv, Located, Peek # EOF, Advance, UNCHANGED file
  PROVE  /\ Located'
         /\ cur.pos \in 1 .. Len(file)
         /\ Peek = file[cur.pos]
         /\ cur'.pos = cur.pos + 1
<1>1. cur.pos \in 1 .. Len(file) + 1 /\ file \in Files /\ Len(file) \in Nat
  BY FileType DEF Located, PlaceInv
<1>2. cur.pos \in 1 .. Len(file) /\ Peek = file[cur.pos]
  BY <1>1, PeekIs
<1>3. cur'.pos = cur.pos + 1
  BY <1>1, <1>2, GetcharFields DEF Advance
<1>4. cur'.line = Scan!LineOf(cur.pos + 1) /\ cur'.column = Scan!ColumnOf(cur.pos + 1)
  BY <1>1, <1>2, GetcharFields, NextPlace DEF Advance, Located
<1>5. cur'.pos \in 1 .. Len(file) + 1
  BY <1>1, <1>2, <1>3
<1> QED
  BY <1>2, <1>3, <1>4, <1>5, SameFile DEF Located

LEMMA Restored ==
  ASSUME NoByte255, PlaceInv, Located, PutBack, UNCHANGED file
  PROVE  Located' /\ cur'.pos = cur.pos
<1>1. cur.pos \in 1 .. Len(file) + 1 /\ file \in Files /\ Len(file) \in Nat
  BY FileType DEF Located, PlaceInv
<1>2. lexer_getchar \in Places /\ cur \in Places
  BY AdvanceType DEF PlaceInv
<1>3. cur'.pos = cur.pos
  BY <1>1, PeekIs, PutBackType DEF PutBack
<1>4. cur'.line = cur.line /\ cur'.column = cur.column
  BY <1>2, UngetcharFields, GetcharFields DEF PutBack, Places
<1> QED
  BY <1>1, <1>3, <1>4, SameFile DEF Located

-----------------------------------------------------------------------------
(* The steps of the scanner.                                               *)

LEMMA OpenStatus ==
  ASSUME outcome = Running, ~AtEof, pc # "closed"
  PROVE  ScanStatus = "open"
BY DEF ScanStatus, Running, Outcome

\* The lexer goes on.
LEMMA QuietStep ==
  ASSUME outcome = Running, UNCHANGED <<file, tokens, outcome>>,
         pc # "closed", pc' # "closed"
  PROVE  ScanStep
<1>1. UNCHANGED ScanStatus
  BY DEF ScanStatus, Running, Outcome, AtEof
<1> QED
  BY <1>1 DEF ScanStep, Scan!vars

\* It ends for a reason that is not in the text.
LEMMA StopStep ==
  ASSUME outcome = Running, ~AtEof, pc # "closed", NEW cause, cause # "number",
         bail_with_error(cause)
  PROVE  ScanStep
<1>1. ScanStatus = "open"
  BY OpenStatus
<1>2. ScanStatus' = "stopped"
  BY DEF bail_with_error, Exit, Running, Outcome, ScanStatus
<1>3. UNCHANGED <<file, tokens>>
  BY DEF bail_with_error, Exit
<1> QED
  BY <1>1, <1>2, <1>3 DEF ScanStep, Scan!Next, Scan!Stop

\* No legal token follows.
LEMMA FailStep ==
  ASSUME outcome = Running, ~AtEof, pc # "closed",
         \/ bail_with_error("number")
         \/ \E cause, line, column : lexical_error(cause, line, column),
         NEW u, Scan!Unread = {u}, Scan!TokensAt(Scan!Start(u)) = {},
         Scan!Start(u) = Len(file) + 1 => Scan!EndsInComment(u)
  PROVE  ScanStep
<1>1. ScanStatus = "open"
  BY OpenStatus
<1>2. ScanStatus' = "failed"
  <2>1. CASE bail_with_error("number")
    BY <2>1 DEF bail_with_error, Exit, Running, Outcome, ScanStatus
  <2>2. CASE \E cause, line, column : lexical_error(cause, line, column)
    <3>1. PICK cause, line, column : lexical_error(cause, line, column)
      BY <2>2
    <3>2. outcome' = Outcome("lexical_error", cause, line, column)
      BY <3>1 DEF lexical_error, Exit
    <3>3. outcome'.kind = "lexical_error" /\ outcome' # Running
      BY <3>2 DEF Running, Outcome
    <3> QED
      BY <3>3 DEF ScanStatus
  <2> QED
    BY <2>1, <2>2
<1>3. UNCHANGED <<file, tokens>>
  BY DEF bail_with_error, lexical_error, Exit
<1>4. Scan!Fail
  BY <1>2, <1>3 DEF Scan!Fail, Scan!End
<1> QED
  BY <1>1, <1>3, <1>4 DEF ScanStep, Scan!Next

\* A token is returned.
LEMMA TokenStep ==
  ASSUME outcome = Running, ~AtEof, pc # "closed", ASequence(tokens),
         NEW tok, tok.typ # "eofsym", Return(tok),
         NEW u, Scan!Unread = {u}, tok \in Scan!TokensAt(Scan!Start(u))
  PROVE  ScanStep /\ ~AtEof'
<1>1. ScanStatus = "open"
  BY OpenStatus
<1>2. tokens' = Append(tokens, tok) /\ pc' = "idle" /\ UNCHANGED <<file, outcome>>
  BY DEF Return
<1>3. ~AtEof'
  BY <1>2, AppendIsASequence DEF AtEof
<1>4. ScanStatus' = "open"
  BY <1>2, <1>3 DEF ScanStatus, Running, Outcome
<1>5. Scan!Scan
  BY <1>1, <1>2, <1>4 DEF Scan!Scan
<1> QED
  BY <1>1, <1>2, <1>3, <1>5 DEF ScanStep, Scan!Next

-----------------------------------------------------------------------------
(* The invariant and the steps of the client.                              *)

\* The text after a token is unread.
LEMMA AfterIs ==
  ASSUME file \in Files, NEW j \in 1 .. Len(file), NEW typ, NEW text, NEW value,
         Len(text) \in Nat
  PROVE  Scan!After(TokenAt(j, typ, text, value)) = {j + Len(text)}
<1>1. Len(file) \in Nat
  BY FileType
<1> DEFINE tok == TokenAt(j, typ, text, value)
<1>2. tok.text = text /\ tok.line = Scan!LineOf(j) /\ tok.column = Scan!ColumnOf(j)
  BY DEF TokenAt, Lexeme
<1> HIDE DEF tok
<1>3. ASSUME NEW k \in 1 .. Len(file), Scan!LineOf(k) = tok.line, Scan!ColumnOf(k) = tok.column
      PROVE  k = j
  <2>1. k \in 1 .. Len(file) + 1 /\ j \in 1 .. Len(file) + 1
    BY <1>1
  <2> QED
    BY <1>2, <1>3, <2>1, PlacesDiffer
<1>4. {k \in 1 .. Len(file) : Scan!LineOf(k) = tok.line /\ Scan!ColumnOf(k) = tok.column} = {j}
  BY <1>2, <1>3
<1>5. Scan!After(tok) = {j + Len(text)}
  BY <1>2, <1>4 DEF Scan!After
<1> QED
  BY <1>5 DEF tok

\* Nothing that the invariant speaks of changes.
LEMMA ExitScan ==
  ASSUME ScanInv, UNCHANGED <<file, statics, cur, pc, t, tokens>>
  PROVE  ScanInv'
<1>1. UNCHANGED <<AtEof, Located>>
  BY SameFile DEF AtEof, Located
<1>2. \A u : InBlanks(u)' = InBlanks(u)
  BY SameFile DEF InBlanks
<1>3. \A u : InToken(u)' = InToken(u)
  BY SameFile DEF InToken
<1>4. UNCHANGED <<Scan!Unread, done, cur, pc, tokens>>
  BY SameFile DEF statics
<1> QED
  BY <1>1, <1>2, <1>3, <1>4 DEF ScanInv

\* The client is waiting and the lexer has not met the end of the file.
LEMMA IdleScan ==
  ASSUME ScanInv, ~AtEof, pc \in {"start", "opened", "idle"},
         UNCHANGED <<file, tokens>>, cur'.pos = cur.pos, Located',
         pc' \in {"opened", "idle", "closed"}
  PROVE  ScanInv'
<1>1. ~AtEof'
  BY DEF AtEof
<1>2. Scan!Unread' = {cur'.pos}
  BY SameFile DEF ScanInv
<1> QED
  BY <1>1, <1>2 DEF ScanInv, Blanks, InTokens

LEMMA OpenScan ==
  ASSUME Known, LexerOpen
  PROVE  ScanInv' /\ ScanStep
<1>1. outcome = Running /\ pc = "start" /\ cur.pos = 1 /\ tokens = <<>> /\ file \in Files
  BY DEF LexerOpen, At, Known, ScanInv, IInv, PlaceInv
<1>2. ~AtEof
  BY <1>1 DEF AtEof
<1>3. CASE bail_with_error("open")
  <2>1. ScanInv'
    BY <1>3, ExitScan DEF bail_with_error, Exit, Known
  <2> QED
    BY <1>1, <1>2, <1>3, <2>1, StopStep
<1>4. CASE ~bail_with_error("open")
  <2>1. /\ cur' = [cur EXCEPT !.line = 1, !.column = 1]
        /\ pc' = "opened" /\ UNCHANGED <<file, t, tokens, outcome>>
    BY <1>4 DEF LexerOpen
  <2>2. cur'.pos = 1 /\ cur'.line = 1 /\ cur'.column = 1
    BY <1>1, <2>1 DEF Known, IInv, PlaceInv, Places
  <2>3. Located'
    <3>1. Len(file) \in Nat
      BY <1>1, FileType
    <3> QED
      BY <1>1, <2>1, <2>2, <3>1, FirstPlace, SameFile DEF Located
  <2>4. ScanInv'
    BY <1>1, <1>2, <2>1, <2>2, <2>3, IdleScan DEF Known
  <2> QED
    BY <1>1, <2>1, <2>4, QuietStep
<1> QED
  BY <1>3, <1>4

LEMMA OutputScan ==
  ASSUME Known, LexerOutput
  PROVE  ScanInv' /\ ScanStep
<1>1. outcome = Running /\ pc = "opened" /\ ~AtEof
  BY DEF LexerOutput, At, Known, ScanInv
<1>2. CASE done
  <2>1. bail_with_error("done")
    BY <1>2 DEF LexerOutput, lexer_filename
  <2>2. ScanInv'
    BY <2>1, ExitScan DEF bail_with_error, Exit, Known
  <2> QED
    BY <1>1, <2>1, <2>2, StopStep
<1>3. CASE ~done
  <2>1. pc' = "idle" /\ UNCHANGED <<file, statics, cur, t, tokens, outcome>>
    BY <1>3 DEF LexerOutput, lexer_filename
  <2>2. Located'
    BY <1>1, <2>1, SameFile DEF Located, Known, ScanInv
  <2>3. ScanInv'
    BY <1>1, <2>1, <2>2, IdleScan DEF Known
  <2> QED
    BY <1>1, <2>1, <2>3, QuietStep
<1> QED
  BY <1>2, <1>3

LEMMA CloseScan ==
  ASSUME Known, LexerClose
  PROVE  ScanInv' /\ ScanStep
<1>1. outcome = Running /\ pc \in {"opened", "idle"} /\ lexer_okay
  BY DEF LexerClose, Known, IInv, FileInv
<1>2. CASE input_file /\ bail_with_error("close")
  <2>1. ~AtEof
    BY <1>1, <1>2 DEF Known, ScanInv, lexer_okay
  <2>2. ScanInv'
    BY <1>2, ExitScan DEF bail_with_error, Exit, Known
  <2> QED
    BY <1>1, <1>2, <2>1, <2>2, StopStep
<1>3. CASE ~(input_file /\ bail_with_error("close"))
  <2>1. done' = TRUE /\ pc' = "closed" /\ UNCHANGED <<file, cur, t, tokens, outcome>>
    BY <1>1, <1>3 DEF LexerClose
  <2>2. CASE AtEof
    <3>1. ScanInv'
      BY <2>1, <2>2 DEF ScanInv, AtEof, Blanks, InTokens
    <3>2. ScanStatus = "ended" /\ ScanStatus' = "ended"
      BY <1>1, <2>1, <2>2 DEF ScanStatus, AtEof, Running, Outcome
    <3> QED
      BY <2>1, <3>1, <3>2 DEF ScanStep, Scan!vars
  <2>3. CASE ~AtEof
    <3>1. Located'
      BY <1>1, <2>1, <2>3, SameFile DEF Located, Known, ScanInv
    <3>2. ScanInv'
      BY <1>1, <2>1, <2>3, <3>1, IdleScan DEF Known
    <3>3. ScanStatus = "open" /\ ScanStatus' = "stopped"
      BY <1>1, <2>1, <2>3 DEF ScanStatus, AtEof, Running, Outcome
    <3> QED
      BY <2>1, <3>2, <3>3 DEF ScanStep, Scan!Next, Scan!Stop
  <2> QED
    BY <2>2, <2>3
<1> QED
  BY <1>2, <1>3

LEMMA NextScan ==
  ASSUME Known, LexerNext
  PROVE  ScanInv' /\ ScanStep
<1>1. /\ outcome = Running /\ pc \in {"opened", "idle"} /\ ~done
      /\ pc' = "ignored" /\ UNCHANGED <<file, statics, cur, tokens, outcome>>
  BY DEF LexerNext
<1>2. ~AtEof /\ Scan!Unread = {cur.pos} /\ Located
  BY <1>1 DEF Known, ScanInv
<1>3. ~AtEof' /\ Scan!Unread' = {cur.pos} /\ Located'
  BY <1>1, <1>2, SameFile DEF AtEof, Located
<1>4. cur.pos \in Nat /\ cur.pos # 0
  BY DEF Known, IInv, PlaceInv, Places
<1>5. InBlanks(cur.pos)'
  <2>1. ~Scan!InComment(cur.pos, cur.pos - 1)
    BY <1>4, NoCommentYet
  <2> QED
    BY <1>1, <1>4, <2>1, SameFile DEF InBlanks
<1>6. ScanInv'
  BY <1>1, <1>3, <1>5 DEF ScanInv, Blanks, InTokens
<1> QED
  BY <1>1, <1>6, QuietStep

-----------------------------------------------------------------------------
(* The blanks.                                                             *)

\* The lexer is in the blanks after u.
LEMMA BlanksAre ==
  ASSUME Known, pc \in Blanks
  PROVE  /\ \E u \in 1 .. Len(file) + 1 : Scan!Unread = {u} /\ InBlanks(u)
         /\ ~AtEof /\ Located /\ file \in Files /\ Len(file) \in Nat
         /\ cur.pos \in 1 .. Len(file) + 1
<1>1. ~AtEof /\ file \in Files /\ Len(file) \in Nat
  BY FileType DEF Known, ScanInv, IInv, PlaceInv, Blanks
<1>2. Located
  BY <1>1 DEF Known, ScanInv, Blanks
<1>3. cur.pos \in 1 .. Len(file) + 1
  BY <1>2 DEF Located
<1>4. PICK u : Scan!Unread = {u} /\ InBlanks(u)
  BY DEF Known, ScanInv
<1>5. u \in 1 .. Len(file) + 1
  BY <1>1, <1>3, <1>4 DEF InBlanks
<1> QED
  BY <1>1, <1>2, <1>3, <1>4, <1>5

\* One more blank has been read.
LEMMA BlankScan ==
  ASSUME NoByte255, Known, pc \in {"ignored", "comment"}, Peek # EOF,
         outcome = Running, NEW label \in {"ignored", "comment"}, Read(label),
         NEW u \in 1 .. Len(file) + 1, Scan!Unread = {u}, InBlanks(u),
         Scan!IsBlank(u, cur.pos),
         label = "comment" <=> Scan!InComment(u, cur.pos)
  PROVE  ScanInv' /\ ScanStep
<1>1. /\ ~AtEof /\ Located /\ PlaceInv
  BY BlanksAre DEF Known, IInv, Blanks
<1>2. /\ Located' /\ cur'.pos = cur.pos + 1 /\ cur.pos \in 1 .. Len(file)
      /\ UNCHANGED <<file, statics, t, tokens, outcome>> /\ pc' = label
  BY <1>1, Advanced DEF Read
<1>3. InBlanks(u)'
  <2>1. cur'.pos - 1 = cur.pos /\ u \in 1 .. cur'.pos
    BY <1>2 DEF InBlanks
  <2>2. ASSUME NEW k \in u .. cur'.pos - 1
        PROVE  Scan!IsBlank(u, k)
    <3>1. k \in u .. cur.pos - 1 \/ k = cur.pos
      BY <1>2, <2>1
    <3> QED
      BY <3>1 DEF InBlanks
  <2> QED
    BY <1>2, <2>1, <2>2, SameFile DEF InBlanks
<1>4. ~AtEof' /\ Scan!Unread' = {u}
  BY <1>1, <1>2, SameFile DEF AtEof
<1>5. ScanInv'
  BY <1>2, <1>3, <1>4 DEF ScanInv, Blanks, InTokens
<1> QED
  BY <1>2, <1>5, QuietStep

LEMMA IgnoredScan ==
  ASSUME NoByte255, Known, ConsumeIgnored
  PROVE  ScanInv' /\ ScanStep
<1>1. outcome = Running /\ pc = "ignored" /\ pc \in Blanks
  BY DEF ConsumeIgnored, At, Blanks
<1>2. /\ ~AtEof /\ Located /\ PlaceInv /\ file \in Files /\ Len(file) \in Nat
      /\ cur.pos \in 1 .. Len(file) + 1
  BY <1>1, BlanksAre DEF Known, IInv
<1>3. PICK u \in 1 .. Len(file) + 1 : Scan!Unread = {u} /\ InBlanks(u)
  BY <1>1, BlanksAre
<1>4. ~Scan!InComment(u, cur.pos - 1) /\ u \in 1 .. cur.pos
  BY <1>1, <1>3 DEF InBlanks
<1>5. CASE isspace(Peek)
  <2>1. Peek # EOF /\ Peek # "#" /\ Read("ignored")
    BY <1>5, CharKinds DEF ConsumeIgnored
  <2>2. cur.pos \in u .. Len(file) /\ Peek = file[cur.pos]
    BY <1>2, <1>4, <2>1, PeekIs
  <2>3. Scan!IsBlank(u, cur.pos) /\ ~Scan!InComment(u, cur.pos)
    BY <1>2, <1>4, <1>5, <2>1, <2>2, CommentStep
  <2> QED
    BY <1>1, <1>3, <2>1, <2>3, BlankScan
<1>6. CASE ~isspace(Peek) /\ Peek = "#"
  <2>1. Peek # EOF /\ Peek # Newline /\ Read("comment")
    BY <1>6 DEF ConsumeIgnored, EOF, Newline
  <2>2. cur.pos \in u .. Len(file) /\ Peek = file[cur.pos]
    BY <1>2, <1>4, <2>1, PeekIs
  <2>3. Scan!IsBlank(u, cur.pos) /\ Scan!InComment(u, cur.pos)
    BY <1>2, <1>6, <2>1, <2>2, CommentStep
  <2> QED
    BY <1>1, <1>3, <2>1, <2>3, BlankScan
<1>7. CASE ~isspace(Peek) /\ Peek # "#"
  <2>1. PutBack /\ pc' = "token" /\ UNCHANGED <<file, statics, t, tokens, outcome>>
    BY <1>7 DEF ConsumeIgnored
  <2>2. Located' /\ cur'.pos = cur.pos
    BY <1>2, <2>1, Restored
  <2>3. cur.pos = Len(file) + 1 \/ ~Scan!IsBlank(u, cur.pos)
    <3> SUFFICES ASSUME cur.pos # Len(file) + 1 PROVE ~Scan!IsBlank(u, cur.pos)
      OBVIOUS
    <3>1. cur.pos \in u .. Len(file) /\ Peek = file[cur.pos]
      BY <1>2, <1>4, PeekIs
    <3> QED
      BY <1>2, <1>4, <1>7, <3>1, CommentStep
  <2>4. InBlanks(u)'
    BY <1>3, <1>4, <2>1, <2>2, <2>3, SameFile DEF InBlanks
  <2>5. ~AtEof' /\ Scan!Unread' = {u}
    BY <1>2, <1>3, <2>1, SameFile DEF AtEof
  <2>6. ScanInv'
    BY <2>1, <2>2, <2>4, <2>5 DEF ScanInv, Blanks, InTokens
  <2> QED
    BY <1>1, <2>1, <2>6, QuietStep
<1> QED
  BY <1>5, <1>6, <1>7

\* Where the file ends in a comment.
LEMMA CommentAtEnd ==
  ASSUME NoByte255, Known, pc = "comment", Peek = EOF,
         NEW u \in 1 .. Len(file) + 1, Scan!Unread = {u}, InBlanks(u)
  PROVE  /\ cur.pos = Len(file) + 1 /\ Scan!Start(u) = cur.pos
         /\ Scan!EndsInComment(u) /\ Scan!TokensAt(Scan!Start(u)) = {}
<1>1. /\ PlaceInv /\ file \in Files /\ Len(file) \in Nat
      /\ cur.pos \in 1 .. Len(file) + 1
  BY BlanksAre DEF Known, IInv, Blanks
<1>2. cur.pos = Len(file) + 1
  BY <1>1, PeekIs
<1>3. Scan!Start(u) = cur.pos
  BY <1>1, <1>2, StartIs DEF InBlanks
<1>4. Scan!InComment(u, Len(file))
  <2>1. cur.pos - 1 = Len(file)
    BY <1>1, <1>2
  <2> QED
    BY <2>1 DEF InBlanks
<1>5. u < Len(file) + 1
  <2> SUFFICES ASSUME u = Len(file) + 1 PROVE FALSE
    BY <1>1
  <2>1. u - 1 = Len(file) /\ u \in Nat
    BY <1>1
  <2> QED
    BY <1>4, <2>1, NoCommentYet
<1>6. Scan!TokensAt(cur.pos) = {}
  <2>1. \A m \in cur.pos .. Len(file) : ~Legal(cur.pos, m)
    BY <1>1, <1>2
  <2> QED
    BY <2>1, NoneLegal
<1> QED
  BY <1>2, <1>3, <1>4, <1>5, <1>6 DEF Scan!EndsInComment, Scan!End

LEMMA CommentScan ==
  ASSUME NoByte255, Known, ConsumeComment
  PROVE  ScanInv' /\ ScanStep
<1>1. outcome = Running /\ pc = "comment" /\ pc \in Blanks
  BY DEF ConsumeComment, At, Blanks
<1>2. /\ ~AtEof /\ PlaceInv /\ file \in Files /\ Len(file) \in Nat
      /\ cur.pos \in 1 .. Len(file) + 1
  BY <1>1, BlanksAre DEF Known, IInv
<1>3. PICK u \in 1 .. Len(file) + 1 : Scan!Unread = {u} /\ InBlanks(u)
  BY <1>1, BlanksAre
<1>4. Scan!InComment(u, cur.pos - 1) /\ u \in 1 .. cur.pos
  BY <1>1, <1>3 DEF InBlanks
<1>5. CASE Peek = EOF
  <2>1. lexical_error("comment", lexer_getchar.line, lexer_getchar.column - 1)
    BY <1>5 DEF ConsumeComment
  <2>2. ScanInv'
    BY <2>1, ExitScan DEF lexical_error, Exit, Known
  <2> QED
    BY <1>1, <1>2, <1>3, <1>5, <2>1, <2>2, CommentAtEnd, FailStep
<1>6. CASE Peek # EOF
  <2>1. cur.pos \in u .. Len(file) /\ Peek = file[cur.pos]
    BY <1>2, <1>4, <1>6, PeekIs
  <2>2. CASE Peek = Newline
    <3>1. isspace(Peek) /\ Read("ignored")
      BY <1>6, <2>2 DEF ConsumeComment, isspace, Spaces, VerticalTab
    <3>2. Scan!IsBlank(u, cur.pos) /\ ~Scan!InComment(u, cur.pos)
      BY <1>2, <2>1, <2>2, <3>1, CommentStep
    <3> QED
      BY <1>1, <1>3, <1>6, <3>1, <3>2, BlankScan
  <2>3. CASE Peek # Newline
    <3>1. Read("comment")
      BY <1>6, <2>3 DEF ConsumeComment
    <3>2. Scan!IsBlank(u, cur.pos) /\ Scan!InComment(u, cur.pos)
      BY <1>2, <1>4, <2>1, <2>3, CommentStep
    <3> QED
      BY <1>1, <1>3, <1>6, <3>1, <3>2, BlankScan
  <2> QED
    BY <2>2, <2>3
<1> QED
  BY <1>5, <1>6

-----------------------------------------------------------------------------
(* Types and records of tokens.                                            *)

LEMMA PunctuationIs ==
  ASSUME NEW c \in DOMAIN Punctuation
  PROVE  /\ Punctuation[c] \in DOMAIN Scan!SymbolTypes
         /\ Scan!SymbolTypes[Punctuation[c]] = <<c>>
<1>1. CASE c \in {".", ";", ","}
  BY <1>1 DEF Punctuation, Scan!SymbolTypes
<1>2. CASE c \in {"=", "(", ")"}
  BY <1>2 DEF Punctuation, Scan!SymbolTypes
<1>3. CASE c \in {"+", "-"}
  BY <1>3 DEF Punctuation, Scan!SymbolTypes
<1>4. CASE c \in {"*", "/"}
  BY <1>4 DEF Punctuation, Scan!SymbolTypes
<1> QED
  BY <1>1, <1>2, <1>3, <1>4, PunctuationDomain

LEMMA WordTypes ==
  ASSUME NEW text
  PROVE  reserved_type(text) \in TokenTypes \ {"eofsym"}
<1> DEFINE same == {i \in DOMAIN reserved_words : reserved_words[i] = text}
           first == CHOOSE i \in same : \A j \in same : i <= j
<1>1. DOMAIN reserved_words = 1 .. 15
  BY DEF reserved_words
<1>2. \A i \in 1 .. 15 : reserved_types[i] \in TokenTypes \ {"eofsym"}
  BY DEF reserved_types, TokenTypes
<1>3. CASE same = {}
  BY <1>3 DEF reserved_type, TokenTypes
<1>4. CASE same # {}
  <2>1. same \subseteq Nat /\ same \subseteq 1 .. 15
    BY <1>1
  <2>2. \E i \in same : \A j \in same : i <= j
    <3> HIDE DEF same
    <3> QED
      BY <1>4, <2>1, LeastNat
  <2>3. first \in 1 .. 15
    <3> HIDE DEF same
    <3> QED
      BY <2>1, <2>2
  <2>4. reserved_type(text) = reserved_types[first]
    BY <1>4 DEF reserved_type
  <2> HIDE DEF first
  <2> QED
    BY <1>2, <2>3, <2>4
<1> QED
  BY <1>3, <1>4

LEMMA TokenFields ==
  ASSUME NEW tok, NEW j, NEW typ, NEW text, NEW value, tok = TokenAt(j, typ, text, value)
  PROVE  tok.text = text /\ tok.typ = typ
BY DEF TokenAt, Lexeme

LEMMA TextUpdate ==
  ASSUME NEW tok, NEW j, NEW typ, NEW text, NEW value, tok = TokenAt(j, typ, text, value),
         NEW a
  PROVE  [tok EXCEPT !.text = a] = TokenAt(j, typ, a, value)
BY DEF TokenAt, Lexeme

LEMMA TypeUpdate ==
  ASSUME NEW tok, NEW j, NEW typ, NEW text, NEW value, tok = TokenAt(j, typ, text, value),
         NEW b
  PROVE  [tok EXCEPT !.typ = b] = TokenAt(j, b, text, value)
BY DEF TokenAt, Lexeme

\* A token with its text and its type set, in this order or in the other one.
Completed(tok, a, b) == [tok EXCEPT !.text = a, !.typ = b]
Typed(tok, a, b) == [tok EXCEPT !.typ = b, !.text = a]
Numbered(tok, a, b, c) == [tok EXCEPT !.text = a, !.typ = b, !.value = c]

LEMMA TokenUpdates ==
  ASSUME NEW tok, NEW j, NEW typ, NEW text, NEW value, tok = TokenAt(j, typ, text, value),
         NEW a, NEW b
  PROVE  /\ Completed(tok, a, b) = TokenAt(j, b, a, value)
         /\ Typed(tok, a, b) = TokenAt(j, b, a, value)
<1>1. Completed(tok, a, b) = [[tok EXCEPT !.text = a] EXCEPT !.typ = b]
  BY DEF TokenAt, Lexeme, Completed
<1>2. Typed(tok, a, b) = [[tok EXCEPT !.typ = b] EXCEPT !.text = a]
  BY DEF TokenAt, Lexeme, Typed
<1> DEFINE x == [tok EXCEPT !.text = a]
           y == [tok EXCEPT !.typ = b]
<1>3. x = TokenAt(j, typ, a, value)
  BY TextUpdate
<1>4. y = TokenAt(j, b, text, value)
  BY TypeUpdate
<1> HIDE DEF x, y
<1>5. [x EXCEPT !.typ = b] = TokenAt(j, b, a, value)
  BY <1>3, TypeUpdate
<1>6. [y EXCEPT !.text = a] = TokenAt(j, b, a, value)
  BY <1>4, TextUpdate
<1> QED
  BY <1>1, <1>2, <1>5, <1>6 DEF x, y

LEMMA NumberUpdate ==
  ASSUME NEW tok, NEW j, NEW typ, NEW text, NEW value, tok = TokenAt(j, typ, text, value),
         NEW a, NEW b, NEW c
  PROVE  Numbered(tok, a, b, c) = TokenAt(j, b, a, c)
<1>1. Numbered(tok, a, b, c) = [Completed(tok, a, b) EXCEPT !.value = c]
  BY DEF TokenAt, Lexeme, Numbered, Completed
<1>2. Completed(tok, a, b) = TokenAt(j, b, a, value)
  BY TokenUpdates
<1>3. [Completed(tok, a, b) EXCEPT !.value = c] = TokenAt(j, b, a, c)
  BY <1>2 DEF TokenAt, Lexeme
<1> QED
  BY <1>1, <1>3

LEMMA OneOrTwoLong ==
  ASSUME NEW S, NEW s \in Seq(S)
  PROVE  /\ Len(s) = 1 => s = <<s[1]>>
         /\ Len(s) = 2 => s = <<s[1], s[2]>>
OBVIOUS

LEMMA OneOrTwoChars ==
  ASSUME file \in Files, NEW j \in 1 .. Len(file)
  PROVE  /\ SubSeq(file, j, j) = <<file[j]>>
         /\ j < Len(file) => SubSeq(file, j, j + 1) = <<file[j], file[j + 1]>>
<1>1. file \in Seq(STRING) /\ Len(file) \in Nat /\ j \in j .. Len(file)
  BY FileType
<1>2. SubSeq(file, j, j) = <<file[j]>>
  <2>1. SubSeq(file, j, j) \in Seq(STRING) /\ Len(SubSeq(file, j, j)) = 1
    BY <1>1, TextIs
  <2> QED
    BY <1>1, <2>1, TextIs, OneOrTwoLong
<1>3. CASE j < Len(file)
  <2> DEFINE s == SubSeq(file, j, j + 1)
  <2>1. j + 1 \in j .. Len(file) /\ j + 1 - j + 1 = 2 /\ j + 2 - 1 = j + 1 /\ 2 \in 1 .. 2
    BY <1>1, <1>3
  <2>2. s \in Seq(STRING) /\ Len(s) = 2 /\ s[1] = file[j] /\ s[2] = file[j + 1]
    BY <2>1, TextIs
  <2> HIDE DEF s
  <2>3. s = <<s[1], s[2]>>
    BY <2>2, OneOrTwoLong
  <2>4. s = <<file[j], file[j + 1]>>
    BY <2>2, <2>3, Zenon
  <2> QED
    BY <1>2, <2>4 DEF s
<1> QED
  BY <1>2, <1>3

-----------------------------------------------------------------------------
(* The tokens.                                                             *)

\* A token from j to k is returned.
LEMMA ReturnScan ==
  ASSUME Known, outcome = Running, pc \in {"token"} \cup InTokens,
         NEW u, Scan!Unread = {u}, NEW j \in 1 .. Len(file), Scan!Start(u) = j,
         NEW k \in j .. Len(file), NEW text, text = SubSeq(file, j, k),
         NEW typ, typ # "eofsym", NEW value,
         Scan!TokensAt(j) = {TokenAt(j, typ, text, value)},
         Return(TokenAt(j, typ, text, value)), Located', cur'.pos = k + 1
  PROVE  ScanInv' /\ ScanStep
<1> DEFINE tok == TokenAt(j, typ, text, value)
<1>1. /\ ASequence(tokens) /\ ~AtEof /\ pc # "closed"
      /\ file \in Files /\ Len(file) \in Nat
  BY FileType DEF Known, IInv, TokenInv, PlaceInv, ScanInv, InTokens
<1>2. tok.typ # "eofsym"
  BY TokenFields
<1>3. tok \in Scan!TokensAt(Scan!Start(u))
  OBVIOUS
<1>4. Len(text) = k - j + 1 /\ Len(text) \in Nat
  <2>1. Len(text) = k - j + 1
    BY <1>1, TextIs
  <2> QED
    BY <1>1, <2>1
<1>5. Scan!After(tok) = {j + Len(text)}
  <2>1. j \in 1 .. Len(file)
    OBVIOUS
  <2> QED
    BY ONLY <1>1, <1>4, <2>1, AfterIs, FilesAssumption, LimitsAssumption
<1>6. Return(tok)
  OBVIOUS
<1> HIDE DEF tok
<1>7. ScanStep /\ ~AtEof'
  BY <1>1, <1>2, <1>3, <1>6, TokenStep
<1>8. tokens' = Append(tokens, tok) /\ pc' = "idle" /\ UNCHANGED file
  BY <1>6 DEF Return
<1>9. tokens' # <<>> /\ tokens'[Len(tokens')] = tok
  BY <1>1, <1>8, AppendIsASequence
<1>10. Scan!Unread' = Scan!After(tok)
  BY <1>8, <1>9, SameFile DEF Scan!Unread
<1>11. Scan!Unread' = {cur'.pos}
  BY <1>1, <1>4, <1>5, <1>10
<1> QED
  BY <1>7, <1>8, <1>11 DEF ScanInv, Blanks, InTokens

\* The next character is the first one after the blanks.
LEMMA FirstChar ==
  ASSUME NoByte255, Known, pc = "token"
  PROVE  /\ \E u \in 1 .. Len(file) + 1 : /\ Scan!Unread = {u} /\ u \in 1 .. cur.pos
                                          /\ Scan!Start(u) = cur.pos
                                          /\ ~Scan!InComment(u, cur.pos - 1)
         /\ Fresh = TokenAt(cur.pos, "eofsym", <<>>, 0)
<1>1. /\ Located /\ file \in Files /\ Len(file) \in Nat
      /\ cur.pos \in 1 .. Len(file) + 1
  BY BlanksAre DEF Blanks
<1>2. PICK u \in 1 .. Len(file) + 1 : Scan!Unread = {u} /\ InBlanks(u)
  BY BlanksAre DEF Blanks
<1>3. u \in 1 .. cur.pos /\ ~Scan!InComment(u, cur.pos - 1)
  BY <1>2 DEF InBlanks
<1>4. cur.pos \in u .. Len(file) + 1
  BY <1>1, <1>3
<1>5. Scan!Start(u) = cur.pos
  BY <1>1, <1>2, <1>4, StartIs DEF InBlanks
<1>6. t = Lexeme("eofsym", <<>>, 0, 0, 0)
  BY DEF Known, IInv, TokenInv
<1>7. Fresh = [typ |-> "eofsym", text |-> <<>>, value |-> 0,
               line |-> cur.line, column |-> cur.column]
  <2>1. Fresh = [[t EXCEPT !.line = cur.line] EXCEPT !.column = cur.column]
    BY <1>6 DEF Fresh, Lexeme
  <2>2. [t EXCEPT !.line = cur.line] =
          [typ |-> "eofsym", text |-> <<>>, value |-> 0, line |-> cur.line, column |-> 0]
    BY <1>6 DEF Lexeme
  <2> QED
    BY <2>1, <2>2
<1>8. Fresh = TokenAt(cur.pos, "eofsym", <<>>, 0)
  BY <1>1, <1>7 DEF TokenAt, Lexeme, Located
<1> QED
  BY <1>2, <1>3, <1>5, <1>8

\* The end of the file.
LEMMA EndScan ==
  ASSUME NoByte255, Known, StartToken, Peek = EOF
  PROVE  ScanInv' /\ ScanStep
<1>1. outcome = Running /\ pc = "token" /\ ~isspace(Peek)
  BY CharKinds DEF StartToken, At
<1>2. /\ ~AtEof /\ PlaceInv /\ file \in Files /\ Len(file) \in Nat
      /\ cur.pos \in 1 .. Len(file) + 1 /\ ASequence(tokens)
  BY <1>1, BlanksAre DEF Known, IInv, TokenInv, Blanks
<1>3. PICK u \in 1 .. Len(file) + 1 : /\ Scan!Unread = {u} /\ Scan!Start(u) = cur.pos
                                      /\ ~Scan!InComment(u, cur.pos - 1)
  BY <1>1, FirstChar
<1>4. cur.pos = Len(file) + 1 /\ cur.pos - 1 = Len(file)
  BY <1>2, PeekIs
<1>5. done' = TRUE /\ Return(Fresh)
  BY <1>1 DEF StartToken
<1>6. Fresh = TokenAt(cur.pos, "eofsym", <<>>, 0)
  BY <1>1, FirstChar
<1>7. tokens' = Append(tokens, Fresh) /\ pc' = "idle" /\ UNCHANGED <<file, outcome>>
  BY <1>5 DEF Return
<1>8. Fresh.typ = "eofsym"
  BY <1>6, TokenFields
<1>9. AtEof'
  BY <1>2, <1>7, <1>8, AppendIsASequence DEF AtEof
<1>10. ScanInv'
  BY <1>5, <1>7, <1>9 DEF ScanInv, Blanks, InTokens
<1>11. ScanStatus = "open"
  BY <1>1, <1>2, OpenStatus
<1>12. ScanStatus' = "ended"
  BY <1>1, <1>7, <1>9 DEF ScanStatus, Running, Outcome
<1>13. ~Scan!EndsInComment(u)
  BY <1>3, <1>4 DEF Scan!EndsInComment
<1>14. Scan!Finish
  <2>1. Fresh = Scan!Lexeme("eofsym", <<>>, 0, Scan!LineOf(Scan!End), Scan!ColumnOf(Scan!End))
    BY <1>4, <1>6, SameTexts DEF TokenAt, Scan!End
  <2> QED
    BY <1>3, <1>4, <1>7, <1>12, <1>13, <2>1 DEF Scan!Finish, Scan!End
<1> QED
  BY <1>7, <1>10, <1>11, <1>14 DEF ScanStep, Scan!Next

\* The first character of a token that may have more.
LEMMA BeginScan ==
  ASSUME NoByte255, Known, outcome = Running, pc = "token", Peek # EOF,
         isalnum(Peek) \/ Peek \in {":", "<", ">"},
         Advance, t' = [Fresh EXCEPT !.text = <<Peek>>], pc' = Continue(Peek),
         UNCHANGED <<file, statics, tokens, outcome>>
  PROVE  ScanInv' /\ ScanStep
<1>1. /\ ~AtEof /\ Located /\ PlaceInv /\ file \in Files /\ Len(file) \in Nat
      /\ cur.pos \in 1 .. Len(file) + 1
  BY BlanksAre DEF Known, IInv, Blanks
<1>2. /\ Located' /\ cur.pos \in 1 .. Len(file) /\ Peek = file[cur.pos]
      /\ cur'.pos = cur.pos + 1
  BY <1>1, Advanced
<1>3. PICK u \in 1 .. Len(file) + 1 : /\ Scan!Unread = {u} /\ u \in 1 .. cur.pos
                                      /\ Scan!Start(u) = cur.pos
  BY FirstChar
<1>0. PICK j : j = cur.pos
  OBVIOUS
<1>4. cur'.pos - 1 = j /\ j \in 1 .. Len(file) /\ u \in 1 .. Len(file) /\ j \in u .. cur'.pos - 1
  BY <1>0, <1>1, <1>2, <1>3
<1>5. t' = TokenAt(j, "eofsym", SubSeq(file, j, j), 0)
  <2>1. <<Peek>> = SubSeq(file, j, j)
    BY <1>0, <1>1, <1>2, OneOrTwoChars
  <2>2. Fresh = TokenAt(j, "eofsym", <<>>, 0)
    BY <1>0, FirstChar
  <2>3. [Fresh EXCEPT !.text = <<Peek>>] = TokenAt(j, "eofsym", <<Peek>>, 0)
    BY <2>2, TextUpdate
  <2> QED
    BY <2>1, <2>3, Zenon
<1>6. t'.text = SubSeq(file, j, j)
  BY <1>5, TokenFields
<1>7. \A m \in j .. j : m = j
  BY <1>4
<1>8. pc' = "ident" => Scan!IsWord(SubSeq(file, j, j))
  <2> SUFFICES ASSUME pc' = "ident" PROVE Scan!IsWord(SubSeq(file, j, j))
    OBVIOUS
  <2>1. isalpha(Peek)
    BY DEF Continue, isalnum
  <2> QED
    BY <1>0, <1>1, <1>2, <1>4, <1>7, <2>1, WordIs DEF isalnum
<1>9. pc' = "number" => Scan!IsNumber(SubSeq(file, j, j))
  <2> SUFFICES ASSUME pc' = "number" PROVE Scan!IsNumber(SubSeq(file, j, j))
    OBVIOUS
  <2>1. isdigit(Peek)
    BY DEF Continue, isalnum
  <2> QED
    BY <1>0, <1>1, <1>2, <1>4, <1>7, <2>1, NumberIs
<1>10. /\ pc' = "becomes" => file[j] = ":"
       /\ pc' = "less" => file[j] = "<"
       /\ pc' = "greater" => file[j] = ">"
       /\ pc' \in InTokens
  BY <1>0, <1>2 DEF Continue, isalnum, InTokens
<1>11. InToken(u)'
  <2>1. Scan!Start(u)' = j /\ TokenAt(j, "eofsym", SubSeq(file, j, j), 0)' = t'
    BY <1>0, <1>3, <1>5, SameFile
  <2>2. Len(t'.text) <= MaxIdentLength /\ Len(t'.text) <= MaxNumLength
    <3>1. j \in j .. Len(file) /\ j - j + 1 = 1
      BY <1>1, <1>4
    <3>2. Len(SubSeq(file, j, j)) = 1
      BY <1>1, <1>4, <3>1, TextIs
    <3> QED
      BY <1>6, <3>2, LimitsAssumption
  <2> QED
    BY <1>0, <1>2, <1>4, <1>5, <1>6, <1>8, <1>9, <1>10, <2>1, <2>2, SameFile DEF InToken
<1>12. ~AtEof' /\ Scan!Unread' = {u}
  BY <1>1, <1>3, SameFile DEF AtEof
<1>13. ScanInv'
  BY <1>2, <1>10, <1>11, <1>12 DEF ScanInv, Blanks, InTokens
<1> QED
  BY <1>10, <1>13, QuietStep DEF InTokens

LEMMA StartTokenScan ==
  ASSUME NoByte255, Known, StartToken
  PROVE  ScanInv' /\ ScanStep
<1>1. outcome = Running /\ pc = "token" /\ ~isspace(Peek)
  BY DEF StartToken, At, Known, SafeInv
<1>2. /\ ~AtEof /\ Located /\ PlaceInv /\ file \in Files /\ Len(file) \in Nat
      /\ cur.pos \in 1 .. Len(file) + 1
  BY <1>1, BlanksAre DEF Known, IInv, Blanks
<1>3. PICK u \in 1 .. Len(file) + 1 : /\ Scan!Unread = {u} /\ Scan!Start(u) = cur.pos
  BY <1>1, FirstChar
<1>4. CASE Peek = EOF
  BY <1>4, EndScan
<1>5. CASE Peek # EOF /\ bail_with_error("space")
  <2>1. ScanInv'
    BY <1>5, ExitScan DEF bail_with_error, Exit, Known
  <2> QED
    BY <1>1, <1>2, <1>5, <2>1, StopStep
<1>6. CASE /\ Peek # EOF /\ Peek \in DOMAIN Punctuation /\ Advance
           /\ Return([Fresh EXCEPT !.typ = Punctuation[Peek], !.text = <<Peek>>])
  <2> DEFINE j == cur.pos
             typ == Punctuation[Peek]
             text == SubSeq(file, j, j)
  <2>1. file' = file
    BY <1>6 DEF Return
  <2>2. /\ Located' /\ j \in 1 .. Len(file) /\ Peek = file[j] /\ cur'.pos = j + 1
        /\ j \in j .. Len(file)
    BY <1>2, <1>6, <2>1, Advanced
  <2>3. <<Peek>> = text
    BY <1>2, <2>2, OneOrTwoChars
  <2>4. typ \in DOMAIN Scan!SymbolTypes /\ Scan!SymbolTypes[typ] = <<Peek>>
    BY <1>6, PunctuationIs
  <2>5. Scan!SymbolTypes[typ] = text /\ typ # "eofsym"
    BY <2>3, <2>4, SymbolDomain
  <2>6. ~(j < Len(file)) \/ ~Scan!IsSymbol(SubSeq(file, j, j + 1))
    <3> SUFFICES ASSUME j < Len(file), Scan!IsSymbol(SubSeq(file, j, j + 1)) PROVE FALSE
      OBVIOUS
    <3>1. j + 1 \in j .. Len(file) /\ j + 1 # j
      BY <1>2, <2>2
    <3>2. file[j] \in {":", "<", ">"}
      BY <1>2, <2>2, <3>1, SymbolIs
    <3> QED
      BY <1>6, <2>2, <3>2, PunctuationDomain
  <2>7. Scan!TokensAt(j) = {TokenAt(j, typ, text, 0)}
    BY <1>2, <2>2, <2>4, <2>5, <2>6, SymbolToken
  <2>8. [Fresh EXCEPT !.typ = typ, !.text = <<Peek>>] = TokenAt(j, typ, text, 0)
    <3>1. Fresh = TokenAt(j, "eofsym", <<>>, 0)
      BY <1>1, FirstChar
    <3>2. Typed(Fresh, <<Peek>>, typ) = TokenAt(j, typ, <<Peek>>, 0)
      BY <3>1, TokenUpdates
    <3>3. Typed(Fresh, <<Peek>>, typ) = [Fresh EXCEPT !.typ = typ, !.text = <<Peek>>]
      BY DEF Typed
    <3> QED
      BY <2>3, <3>2, <3>3, Zenon
  <2>9. Return(TokenAt(j, typ, text, 0))
    BY <1>6, <2>8
  <2> HIDE DEF typ, text
  <2> QED
    BY <1>1, <1>3, <2>2, <2>5, <2>7, <2>9, ReturnScan DEF text
<1>7. CASE /\ Peek # EOF
           /\ isalnum(Peek) \/ Peek \in {":", "<", ">"}
           /\ Advance
           /\ t' = [Fresh EXCEPT !.text = <<Peek>>]
           /\ pc' = Continue(Peek)
           /\ UNCHANGED <<file, statics, tokens, outcome>>
  BY <1>1, <1>7, BeginScan
<1>8. CASE /\ Peek # EOF /\ ~isalnum(Peek) /\ Peek \notin {":", "<", ">"}
           /\ Peek \notin DOMAIN Punctuation
           /\ lexical_error("illegal character", lexer_getchar.line,
                            lexer_getchar.column - 1)
  <2>1. cur.pos \in 1 .. Len(file) /\ Peek = file[cur.pos]
    BY <1>2, <1>8, PeekIs
  <2>2. Scan!TokensAt(cur.pos) = {}
    BY <1>2, <1>8, <2>1, IllegalChar
  <2>3. ScanInv'
    BY <1>8, ExitScan DEF lexical_error, Exit, Known
  <2>4. cur.pos # Len(file) + 1
    BY <1>2, <2>1
  <2> QED
    BY <1>1, <1>2, <1>3, <1>8, <2>2, <2>3, <2>4, FailStep
<1> QED
  BY <1>1, <1>4, <1>5, <1>6, <1>7, <1>8 DEF StartToken

\* The token from j to k, after the blanks after u, has been read.
Reading(u, j, k) ==
  /\ u \in 1 .. Len(file) /\ j \in u .. Len(file) /\ k \in j .. Len(file)
  /\ Scan!Unread = {u} /\ Scan!Start(u) = j /\ cur.pos = k + 1
  /\ t = TokenAt(j, "eofsym", SubSeq(file, j, k), 0)
  /\ pc = "ident" => /\ Scan!IsWord(SubSeq(file, j, k))
                     /\ Len(SubSeq(file, j, k)) <= MaxIdentLength
  /\ pc = "number" => /\ Scan!IsNumber(SubSeq(file, j, k))
                      /\ Len(SubSeq(file, j, k)) <= MaxNumLength
  /\ pc = "becomes" => k = j /\ file[j] = ":"
  /\ pc = "less" => k = j /\ file[j] = "<"
  /\ pc = "greater" => k = j /\ file[j] = ">"

LEMMA TextOf ==
  ASSUME NEW j, NEW k, t = TokenAt(j, "eofsym", SubSeq(file, j, k), 0)
  PROVE  t.text = SubSeq(file, j, k)
<1>1. PICK s : s = SubSeq(file, j, k)
  OBVIOUS
<1>2. t = TokenAt(j, "eofsym", s, 0)
  BY <1>1
<1>3. t.text = s
  BY ONLY <1>2 DEF TokenAt, Lexeme
<1> QED
  BY <1>1, <1>3

LEMMA TokenIs ==
  ASSUME Known, pc \in InTokens
  PROVE  /\ \E u, j, k : Reading(u, j, k)
         /\ ~AtEof /\ Located /\ PlaceInv /\ file \in Files /\ Len(file) \in Nat
<1>1. ~AtEof /\ PlaceInv /\ file \in Files /\ Len(file) \in Nat
  BY FileType DEF Known, ScanInv, IInv, PlaceInv, InTokens
<1>2. Located
  BY <1>1 DEF Known, ScanInv, InTokens
<1>3. PICK u : Scan!Unread = {u} /\ InToken(u)
  BY DEF Known, ScanInv
<1>4. PICK j : j = Scan!Start(u)
  OBVIOUS
<1>5. /\ u \in 1 .. Len(file) /\ j \in u .. cur.pos - 1
      /\ t = TokenAt(j, "eofsym", SubSeq(file, j, cur.pos - 1), 0)
      /\ pc = "ident" => Scan!IsWord(t.text) /\ Len(t.text) <= MaxIdentLength
      /\ pc = "number" => Scan!IsNumber(t.text) /\ Len(t.text) <= MaxNumLength
      /\ pc = "becomes" => cur.pos = j + 1 /\ file[j] = ":"
      /\ pc = "less" => cur.pos = j + 1 /\ file[j] = "<"
      /\ pc = "greater" => cur.pos = j + 1 /\ file[j] = ">"
  BY <1>3, <1>4 DEF InToken
<1>6. PICK k : k = cur.pos - 1
  OBVIOUS
<1>7. cur.pos \in 1 .. Len(file) + 1
  BY <1>2 DEF Located
<1>8. cur.pos = k + 1 /\ k \in j .. Len(file) /\ j \in u .. Len(file)
  BY <1>1, <1>5, <1>6, <1>7
<1>9. t = TokenAt(j, "eofsym", SubSeq(file, j, k), 0)
  BY <1>5, <1>6
<1>10. t.text = SubSeq(file, j, k)
  BY ONLY <1>9, TextOf
<1>11. cur.pos = j + 1 => k = j
  BY <1>1, <1>5, <1>8
<1>12. Reading(u, j, k)
  BY <1>3, <1>4, <1>5, <1>8, <1>9, <1>10, <1>11 DEF Reading
<1> QED
  BY <1>1, <1>2, <1>12

\* The character after a text.
LEMMA NextChar ==
  ASSUME NoByte255, PlaceInv, Located, NEW u, NEW j, NEW k, Reading(u, j, k)
  PROVE  /\ Peek = EOF => k = Len(file)
         /\ Peek # EOF => k \in j .. Len(file) - 1 /\ Peek = file[k + 1]
         /\ k # Len(file) => Peek = file[k + 1]
<1>1. Len(file) \in Nat /\ cur.pos \in 1 .. Len(file) + 1
  BY FileType DEF PlaceInv, Located
<1>2. k \in j .. Len(file) /\ cur.pos = k + 1 /\ j \in Int
  BY <1>1 DEF Reading
<1> QED
  BY <1>1, <1>2, PeekIs

\* The text goes on.
LEMMA ExtendScan ==
  ASSUME NoByte255, Known, outcome = Running, pc \in {"ident", "number"}, Extend,
         Peek # EOF, NEW u, NEW j, NEW k, Reading(u, j, k),
         pc = "ident" => /\ Scan!IsWord(SubSeq(file, j, k + 1))
                         /\ Len(SubSeq(file, j, k + 1)) <= MaxIdentLength,
         pc = "number" => /\ Scan!IsNumber(SubSeq(file, j, k + 1))
                          /\ Len(SubSeq(file, j, k + 1)) <= MaxNumLength
  PROVE  ScanInv' /\ ScanStep
<1>1. ~AtEof /\ Located /\ PlaceInv /\ file \in Files /\ Len(file) \in Nat
  BY TokenIs DEF InTokens
<1>2. Advance /\ t' = [t EXCEPT !.text = Append(t.text, Peek)] /\ pc' = pc
      /\ UNCHANGED <<file, statics, tokens, outcome>>
  BY DEF Extend
<1>3. Located' /\ cur'.pos = cur.pos + 1
  BY <1>1, <1>2, Advanced
<1>4. k \in j .. Len(file) - 1 /\ Peek = file[k + 1]
  BY <1>1, NextChar
<1>5. /\ u \in 1 .. Len(file) /\ j \in u .. Len(file) /\ k \in j .. Len(file)
      /\ Scan!Unread = {u} /\ Scan!Start(u) = j /\ cur.pos = k + 1
      /\ t = TokenAt(j, "eofsym", SubSeq(file, j, k), 0)
  BY DEF Reading
<1>6. j \in 1 .. Len(file) /\ cur'.pos - 1 = k + 1 /\ j \in u .. cur'.pos - 1
  BY <1>1, <1>3, <1>4, <1>5
<1>7. t' = TokenAt(j, "eofsym", SubSeq(file, j, k + 1), 0)
  <2>1. t.text = SubSeq(file, j, k)
    BY ONLY <1>5, TextOf
  <2>2. Append(t.text, Peek) = SubSeq(file, j, k + 1)
    BY <1>1, <1>4, <1>6, <2>1, LongerText
  <2>3. PICK s, a : s = SubSeq(file, j, k) /\ a = SubSeq(file, j, k + 1)
    OBVIOUS
  <2>4. t = TokenAt(j, "eofsym", s, 0)
    BY <1>5, <2>3
  <2>5. [t EXCEPT !.text = a] = TokenAt(j, "eofsym", a, 0)
    BY ONLY <2>4 DEF TokenAt, Lexeme
  <2> QED
    BY <1>2, <2>2, <2>3, <2>5
<1>8. t'.text = SubSeq(file, j, k + 1)
  <2>1. PICK a : a = SubSeq(file, j, k + 1)
    OBVIOUS
  <2>2. t' = TokenAt(j, "eofsym", a, 0)
    BY <1>7, <2>1
  <2>3. t'.text = a
    BY ONLY <2>2 DEF TokenAt, Lexeme
  <2> QED
    BY <2>1, <2>3
<1>9. InToken(u)'
  <2>1. Scan!Start(u)' = j
    BY <1>2, <1>5, SameFile
  <2>2. PICK a : a = SubSeq(file, j, k + 1)
    OBVIOUS
  <2>3. t' = TokenAt(j, "eofsym", a, 0)
    BY <1>7, <2>2
  <2>4. t' = [typ |-> "eofsym", text |-> a, value |-> 0,
              line |-> Scan!LineOf(j), column |-> Scan!ColumnOf(j)]
    BY ONLY <2>3 DEF TokenAt, Lexeme
  <2>5. Scan!LineOf(j)' = Scan!LineOf(j) /\ Scan!ColumnOf(j)' = Scan!ColumnOf(j)
    BY <1>2, SameFile
  <2>6. SubSeq(file', j, cur'.pos - 1) = a
    BY <1>2, <1>6, <2>2
  <2>7. t' = TokenAt(j, "eofsym", SubSeq(file, j, cur.pos - 1), 0)'
    BY <2>4, <2>5, <2>6 DEF TokenAt, Lexeme
  <2> QED
    BY <1>2, <1>5, <1>6, <1>8, <2>1, <2>7 DEF InToken
<1>10. ~AtEof' /\ Scan!Unread' = {u}
  BY <1>1, <1>2, <1>5, SameFile DEF AtEof
<1>11. ScanInv'
  BY <1>2, <1>3, <1>9, <1>10 DEF ScanInv, Blanks, InTokens
<1> QED
  BY <1>2, <1>11, QuietStep

\* The text is a token and the next character is put back.
LEMMA PutBackScan ==
  ASSUME NoByte255, Known, outcome = Running, pc \in InTokens,
         NEW u, NEW j, NEW k, Reading(u, j, k), NEW text, text = SubSeq(file, j, k),
         NEW typ, typ # "eofsym", NEW value,
         Scan!TokensAt(j) = {TokenAt(j, typ, text, value)},
         PutBack, Return(TokenAt(j, typ, text, value))
  PROVE  ScanInv' /\ ScanStep
<1>1. Located /\ PlaceInv /\ Len(file) \in Nat
  BY TokenIs
<1>2. Located' /\ cur'.pos = cur.pos
  BY <1>1, Restored DEF Return
<1>3. /\ u \in 1 .. Len(file) /\ j \in u .. Len(file) /\ k \in j .. Len(file)
      /\ Scan!Unread = {u} /\ Scan!Start(u) = j /\ cur.pos = k + 1
  BY DEF Reading
<1>4. j \in 1 .. Len(file) /\ cur'.pos = k + 1
  BY <1>1, <1>2, <1>3
<1> QED
  BY <1>2, <1>3, <1>4, ReturnScan

\* The next character is the last one of the token.
LEMMA LastCharScan ==
  ASSUME NoByte255, Known, outcome = Running, pc \in InTokens, Peek # EOF,
         NEW u, NEW j, NEW k, Reading(u, j, k), NEW text, text = SubSeq(file, j, k + 1),
         NEW typ, typ # "eofsym", NEW value,
         Scan!TokensAt(j) = {TokenAt(j, typ, text, value)},
         Advance, Return(TokenAt(j, typ, text, value))
  PROVE  ScanInv' /\ ScanStep
<1>1. Located /\ PlaceInv /\ Len(file) \in Nat
  BY TokenIs
<1>2. Located' /\ cur'.pos = cur.pos + 1
  BY <1>1, Advanced DEF Return
<1>3. /\ u \in 1 .. Len(file) /\ j \in u .. Len(file) /\ k \in j .. Len(file) - 1
      /\ Scan!Unread = {u} /\ Scan!Start(u) = j /\ cur.pos = k + 1
  BY <1>1, NextChar DEF Reading
<1>4. j \in 1 .. Len(file) /\ k + 1 \in j .. Len(file) /\ cur'.pos = k + 1 + 1
  BY <1>1, <1>2, <1>3
<1> QED
  BY <1>2, <1>3, <1>4, ReturnScan

LEMMA CleanText ==
  ASSUME CleanMemory, NEW text
  PROVE  Terminated(text) = {text}
BY DEF CleanMemory, Terminated

LEMMA ReadingIs ==
  ASSUME file \in Files, NEW u, NEW j, NEW k, Reading(u, j, k)
  PROVE  /\ j \in 1 .. Len(file) /\ k \in j .. Len(file)
         /\ Scan!Unread = {u} /\ Scan!Start(u) = j /\ j # Len(file) + 1
         /\ t = TokenAt(j, "eofsym", SubSeq(file, j, k), 0)
         /\ t.text = SubSeq(file, j, k)
         /\ Len(SubSeq(file, j, k)) = k - j + 1
         /\ k < Len(file) => Len(SubSeq(file, j, k + 1)) = k - j + 2
<1>1. Len(file) \in Nat
  BY FileType
<1>2. /\ u \in 1 .. Len(file) /\ j \in u .. Len(file) /\ k \in j .. Len(file)
      /\ Scan!Unread = {u} /\ Scan!Start(u) = j
      /\ t = TokenAt(j, "eofsym", SubSeq(file, j, k), 0)
  BY DEF Reading
<1>3. j \in 1 .. Len(file) /\ j # Len(file) + 1
  BY <1>1, <1>2
<1>4. t.text = SubSeq(file, j, k)
  BY ONLY <1>2, TextOf
<1>5. Len(SubSeq(file, j, k)) = k - j + 1
  BY <1>2, <1>3, TextIs
<1>6. k < Len(file) => Len(SubSeq(file, j, k + 1)) = k - j + 2
  <2> SUFFICES ASSUME k < Len(file) PROVE Len(SubSeq(file, j, k + 1)) = k - j + 2
    OBVIOUS
  <2>1. PICK m : m = k + 1
    OBVIOUS
  <2>2. m \in j .. Len(file) /\ m - j + 1 = k - j + 2
    BY <1>1, <1>2, <1>3, <2>1
  <2>3. Len(SubSeq(file, j, m)) = m - j + 1
    BY <1>3, <2>2, TextIs
  <2> QED
    BY <2>1, <2>2, <2>3
<1> QED
  BY <1>2, <1>3, <1>4, <1>5, <1>6

\* An error in a token.
LEMMA ErrorScan ==
  ASSUME Known, outcome = Running, pc \in InTokens, NEW u, NEW j, NEW k, Reading(u, j, k),
         Scan!TokensAt(j) = {},
         \/ bail_with_error("number")
         \/ \E cause, line, column : lexical_error(cause, line, column)
  PROVE  ScanInv' /\ ScanStep
<1>1. ~AtEof /\ pc # "closed" /\ file \in Files
  BY TokenIs DEF InTokens
<1>2. Scan!Unread = {u} /\ Scan!Start(u) = j /\ j # Len(file) + 1
  BY <1>1, ReadingIs
<1>3. ScanInv'
  BY ExitScan DEF bail_with_error, lexical_error, Exit, Known
<1> QED
  BY <1>1, <1>2, <1>3, FailStep

LEMMA IdentScan ==
  ASSUME NoByte255, CleanMemory, Known, Ident
  PROVE  ScanInv' /\ ScanStep
<1>1. outcome = Running /\ pc = "ident" /\ pc \in InTokens
  BY DEF Ident, At, InTokens
<1>2. /\ ~AtEof /\ Located /\ PlaceInv /\ file \in Files /\ Len(file) \in Nat
      /\ \E u, j, k : Reading(u, j, k)
  BY <1>1, TokenIs
<1>3. PICK u, j, k : Reading(u, j, k)
  BY <1>2
<1>4. /\ j \in 1 .. Len(file) /\ k \in j .. Len(file)
      /\ t.text = SubSeq(file, j, k)
      /\ Len(SubSeq(file, j, k)) = k - j + 1
      /\ k < Len(file) => Len(SubSeq(file, j, k + 1)) = k - j + 2
  BY <1>2, <1>3, ReadingIs
<1>5. Scan!IsWord(SubSeq(file, j, k)) /\ Len(SubSeq(file, j, k)) <= MaxIdentLength
  BY <1>1, <1>3 DEF Reading
<1>6. MaxIdentLength \in Nat
  BY LimitsAssumption
<1>7. CASE isalnum(Peek)
  <2>1. Peek # EOF
    BY <1>7, CharKinds
  <2>2. k \in j .. Len(file) - 1 /\ isalnum(file[k + 1]) /\ k < Len(file)
    BY <1>2, <1>3, <1>4, <1>7, <2>1, NextChar
  <2>3. CASE Len(t.text) >= MaxIdentLength
    <3>1. Scan!TokensAt(j) = {}
      BY <1>2, <1>4, <1>5, <2>2, <2>3, LongWord
    <3>2. lexical_error("identifier", t.line, t.column)
      BY <1>7, <2>3 DEF Ident
    <3> QED
      BY <1>1, <1>3, <3>1, <3>2, ErrorScan
  <2>4. CASE ~(Len(t.text) >= MaxIdentLength)
    <3>1. Extend
      BY <1>7, <2>4 DEF Ident
    <3>2. Len(SubSeq(file, j, k + 1)) <= MaxIdentLength
      BY <1>2, <1>4, <1>6, <2>2, <2>4
    <3>3. Scan!IsWord(SubSeq(file, j, k + 1))
      <4>1. k + 1 \in j .. Len(file)
        BY <1>2, <1>4, <2>2
      <4>2. \A m \in j .. k + 1 : m \in j .. k \/ m = k + 1
        BY <1>2, <1>4
      <4>3. isalpha(file[j]) /\ \A m \in j .. k : isalnum(file[m])
        BY <1>2, <1>4, <1>5, WordIs
      <4> QED
        BY <1>2, <1>4, <2>2, <4>1, <4>2, <4>3, WordIs
    <3> QED
      BY <1>1, <1>3, <2>1, <3>1, <3>2, <3>3, ExtendScan
  <2> QED
    BY <2>3, <2>4
<1>8. CASE ~isalnum(Peek)
  <2> DEFINE word == SubSeq(file, j, k)
             typ == reserved_type(word)
  <2>1. PutBack /\ Return([t EXCEPT !.text = word, !.typ = typ])
    BY <1>4, <1>8, CleanText DEF Ident
  <2>2. k = Len(file) \/ ~isalnum(file[k + 1])
    BY <1>2, <1>3, <1>8, NextChar
  <2>3. Scan!TokensAt(j) = {TokenAt(j, typ, word, 0)}
    BY <1>2, <1>4, <1>5, <2>2, WordToken
  <2>4. typ # "eofsym"
    BY WordTypes
  <2>5. t = TokenAt(j, "eofsym", word, 0)
    BY <1>2, <1>3, ReadingIs
  <2>6. word = SubSeq(file, j, k)
    OBVIOUS
  <2> HIDE DEF word, typ
  <2>7. [t EXCEPT !.text = word, !.typ = typ] = TokenAt(j, typ, word, 0)
    <3>1. PICK e, z : e = "eofsym" /\ z = 0
      OBVIOUS
    <3>2. t = TokenAt(j, e, word, z)
      BY <2>5, <3>1
    <3>3. Completed(t, word, typ) = TokenAt(j, typ, word, z)
      BY <3>2, TokenUpdates
    <3> QED
      BY <3>1, <3>3 DEF Completed
  <2>8. Return(TokenAt(j, typ, word, 0))
    BY <2>1, <2>7
  <2> QED
    BY <1>1, <1>3, <2>1, <2>3, <2>4, <2>6, <2>8, PutBackScan
<1> QED
  BY <1>7, <1>8

LEMMA NumberScan ==
  ASSUME NoByte255, CleanMemory, Known, Number
  PROVE  ScanInv' /\ ScanStep
<1>1. outcome = Running /\ pc = "number" /\ pc \in InTokens
  BY DEF Number, At, InTokens
<1>2. /\ ~AtEof /\ Located /\ PlaceInv /\ file \in Files /\ Len(file) \in Nat
      /\ \E u, j, k : Reading(u, j, k)
  BY <1>1, TokenIs
<1>3. PICK u, j, k : Reading(u, j, k)
  BY <1>2
<1>4. /\ j \in 1 .. Len(file) /\ k \in j .. Len(file)
      /\ t.text = SubSeq(file, j, k)
      /\ Len(SubSeq(file, j, k)) = k - j + 1
      /\ k < Len(file) => Len(SubSeq(file, j, k + 1)) = k - j + 2
  BY <1>2, <1>3, ReadingIs
<1>5. Scan!IsNumber(SubSeq(file, j, k)) /\ Len(SubSeq(file, j, k)) <= MaxNumLength
  BY <1>1, <1>3 DEF Reading
<1>6. MaxNumLength \in Nat /\ ShrtMax \in Nat
  BY LimitsAssumption
<1>7. CASE isdigit(Peek)
  <2>1. Peek # EOF
    BY <1>7, CharKinds DEF isalnum
  <2>2. k \in j .. Len(file) - 1 /\ isdigit(file[k + 1]) /\ k < Len(file)
    BY <1>2, <1>3, <1>4, <1>7, <2>1, NextChar
  <2>3. CASE Len(t.text) >= MaxNumLength
    <3>1. Scan!TokensAt(j) = {}
      BY <1>2, <1>4, <1>5, <2>2, <2>3, LongNumber
    <3>2. bail_with_error("number")
      BY <1>7, <2>3 DEF Number
    <3> QED
      BY <1>1, <1>3, <3>1, <3>2, ErrorScan
  <2>4. CASE ~(Len(t.text) >= MaxNumLength)
    <3>1. Extend
      BY <1>7, <2>4 DEF Number
    <3>2. Len(SubSeq(file, j, k + 1)) <= MaxNumLength
      BY <1>2, <1>4, <1>6, <2>2, <2>4
    <3>3. Scan!IsNumber(SubSeq(file, j, k + 1))
      <4>1. k + 1 \in j .. Len(file)
        BY <1>2, <1>4, <2>2
      <4>2. \A m \in j .. k + 1 : m \in j .. k \/ m = k + 1
        BY <1>2, <1>4
      <4>3. \A m \in j .. k : isdigit(file[m])
        BY <1>2, <1>4, <1>5, NumberIs
      <4> QED
        BY <1>2, <1>4, <2>2, <4>1, <4>2, <4>3, NumberIs
    <3> QED
      BY <1>1, <1>3, <2>1, <3>1, <3>2, <3>3, ExtendScan
  <2> QED
    BY <2>3, <2>4
<1>8. CASE ~isdigit(Peek)
  <2> DEFINE digits == SubSeq(file, j, k)
  <2>1. k = Len(file) \/ ~isdigit(file[k + 1])
    BY <1>2, <1>3, <1>8, NextChar
  <2>2. Scanned(digits) = Value(digits) /\ Scanned(digits) \in Nat
    <3>1. digits \in Seq(STRING) /\ DOMAIN digits = 1 .. Len(digits)
      BY <1>2, <1>4, TextIs
    <3>2. \A m \in 1 .. Len(digits) : isdigit(digits[m])
      BY <1>5, <3>1, SameOperators DEF Scan!IsNumber
    <3> HIDE DEF digits
    <3> QED
      BY <3>1, <3>2, ScannedIs
  <2>3. t = TokenAt(j, "eofsym", digits, 0)
    BY <1>2, <1>3, ReadingIs
  <2>4. digits = SubSeq(file, j, k)
    OBVIOUS
  <2>5. IF Scanned(digits) > ShrtMax
        THEN lexical_error("value", t.line, t.column)
        ELSE /\ PutBack
             /\ Return([t EXCEPT !.text = digits, !.typ = "numbersym",
                                 !.value = Scanned(digits)])
    BY <1>4, <1>8, CleanText DEF Number
  <2>6. CASE Scanned(digits) > ShrtMax
    <3>1. Scan!TokensAt(j) = {}
      BY <1>2, <1>4, <1>5, <1>6, <2>1, <2>2, <2>6, LargeNumber
    <3>2. lexical_error("value", t.line, t.column)
      BY <2>5, <2>6
    <3> QED
      BY <1>1, <1>3, <3>1, <3>2, ErrorScan
  <2>7. CASE ~(Scanned(digits) > ShrtMax)
    <3>1. Value(digits) <= ShrtMax
      BY <1>6, <2>2, <2>7
    <3> DEFINE value == Value(digits)
    <3>2. Scan!TokensAt(j) = {TokenAt(j, "numbersym", digits, value)}
      BY <1>2, <1>4, <1>5, <2>1, <3>1, NumberToken
    <3>3. PutBack /\ Return([t EXCEPT !.text = digits, !.typ = "numbersym", !.value = value])
      BY <2>2, <2>5, <2>7
    <3> HIDE DEF digits, value
    <3>4. PICK typ : typ = "numbersym" /\ typ # "eofsym"
      OBVIOUS
    <3>5. Numbered(t, digits, typ, value) = TokenAt(j, typ, digits, value)
      BY <2>3, NumberUpdate
    <3>6. Return(TokenAt(j, typ, digits, value))
      BY <3>3, <3>4, <3>5 DEF Numbered
    <3>7. Scan!TokensAt(j) = {TokenAt(j, typ, digits, value)}
      BY <3>2, <3>4
    <3> QED
      BY <1>1, <1>3, <2>4, <3>3, <3>4, <3>6, <3>7, PutBackScan
  <2> QED
    BY <2>6, <2>7
<1> QED
  BY <1>7, <1>8

\* A symbol of two characters.
LEMMA TwoScan ==
  ASSUME NoByte255, Known, outcome = Running, pc \in InTokens, Peek # EOF,
         NEW u, NEW j, Reading(u, j, j), NEW typ \in DOMAIN Scan!SymbolTypes,
         Scan!SymbolTypes[typ] = <<file[j], Peek>>, Advance,
         Return([t EXCEPT !.text = Append(t.text, Peek), !.typ = typ])
  PROVE  ScanInv' /\ ScanStep
<1>1. Located /\ PlaceInv /\ file \in Files /\ Len(file) \in Nat
  BY TokenIs
<1>2. j \in 1 .. Len(file) /\ t.text = SubSeq(file, j, j)
      /\ t = TokenAt(j, "eofsym", SubSeq(file, j, j), 0)
  BY <1>1, ReadingIs
<1>3. j \in j .. Len(file) - 1 /\ Peek = file[j + 1]
  BY <1>1, NextChar
<1>4. j < Len(file)
  BY <1>1, <1>2, <1>3
<1>5. PICK k, text, old, e, z : /\ k = j + 1 /\ text = SubSeq(file, j, k)
                                /\ old = SubSeq(file, j, j) /\ e = "eofsym" /\ z = 0
  OBVIOUS
<1>6. text = Append(t.text, Peek) /\ text = <<file[j], Peek>>
  <2>1. text = Append(old, Peek)
    BY <1>1, <1>2, <1>3, <1>5, LongerText
  <2>2. text = <<file[j], file[j + 1]>>
    BY <1>1, <1>2, <1>4, <1>5, OneOrTwoChars
  <2> QED
    BY <1>2, <1>3, <1>5, <2>1, <2>2, Zenon
<1>7. t = TokenAt(j, e, old, z)
  BY <1>2, <1>5
<1>8. Completed(t, text, typ) = TokenAt(j, typ, text, z)
  BY <1>7, TokenUpdates
<1>9. Return(TokenAt(j, typ, text, z))
  <2>1. Return([t EXCEPT !.text = text, !.typ = typ])
    BY <1>6, Zenon
  <2> QED
    BY <1>8, <2>1, Zenon DEF Completed
<1>10. k \in j .. Len(file) /\ k # j
  <2>1. k = j + 1
    BY <1>5
  <2>2. j \in 1 .. Len(file)
    BY <1>2
  <2> QED
    BY ONLY <1>1, <1>4, <2>1, <2>2
<1>11. Scan!SymbolTypes[typ] = text
  BY <1>6, Zenon
<1>12. Scan!TokensAt(j) = {TokenAt(j, typ, text, z)}
  BY <1>1, <1>2, <1>5, <1>10, <1>11, SymbolToken
<1>13. typ # "eofsym"
  BY SymbolDomain
<1>14. text = SubSeq(file, j, j + 1)
  BY <1>5
<1> QED
  BY <1>9, <1>12, <1>13, <1>14, LastCharScan

\* A symbol of one character.
LEMMA OneScan ==
  ASSUME NoByte255, Known, outcome = Running, pc \in InTokens,
         NEW u, NEW j, Reading(u, j, j), NEW typ \in DOMAIN Scan!SymbolTypes,
         Scan!SymbolTypes[typ] = <<file[j]>>,
         j < Len(file) => ~Scan!IsSymbol(<<file[j], file[j + 1]>>),
         PutBack, Return([t EXCEPT !.typ = typ])
  PROVE  ScanInv' /\ ScanStep
<1>1. file \in Files /\ Len(file) \in Nat
  BY TokenIs
<1>2. j \in 1 .. Len(file) /\ t = TokenAt(j, "eofsym", SubSeq(file, j, j), 0)
  BY <1>1, ReadingIs
<1>3. PICK text, e, z : text = SubSeq(file, j, j) /\ e = "eofsym" /\ z = 0
  OBVIOUS
<1>4. text = <<file[j]>>
  BY <1>1, <1>2, <1>3, OneOrTwoChars
<1>5. t = TokenAt(j, e, text, z)
  BY <1>2, <1>3
<1>6. [t EXCEPT !.typ = typ] = TokenAt(j, typ, text, z)
  BY <1>5, TypeUpdate
<1>7. Return(TokenAt(j, typ, text, z))
  BY <1>6, Zenon
<1>8. j \in j .. Len(file)
  BY <1>1, <1>2
<1>9. j < Len(file) => ~Scan!IsSymbol(SubSeq(file, j, j + 1))
  BY <1>1, <1>2, OneOrTwoChars
<1>10. Scan!SymbolTypes[typ] = text
  BY <1>4, Zenon
<1>11. Scan!TokensAt(j) = {TokenAt(j, typ, text, z)}
  BY <1>1, <1>2, <1>3, <1>8, <1>9, <1>10, SymbolToken
<1>12. typ # "eofsym"
  BY SymbolDomain
<1> QED
  BY <1>3, <1>7, <1>11, <1>12, PutBackScan

LEMMA BecomesScan ==
  ASSUME NoByte255, Known, Becomes
  PROVE  ScanInv' /\ ScanStep
<1>1. outcome = Running /\ pc = "becomes" /\ pc \in InTokens
  BY DEF Becomes, At, InTokens
<1>2. /\ Located /\ PlaceInv /\ file \in Files /\ Len(file) \in Nat
      /\ \E u, j, k : Reading(u, j, k)
  BY <1>1, TokenIs
<1>3. PICK u, j, k : Reading(u, j, k)
  BY <1>2
<1>4. k = j /\ file[j] = ":"
  BY <1>1, <1>3 DEF Reading
<1>5. Reading(u, j, j) /\ j \in 1 .. Len(file)
  BY <1>2, <1>3, <1>4, ReadingIs
<1>6. CASE Peek = "="
  <2>1. Peek # EOF
    BY <1>6 DEF EOF
  <2>2. Advance /\ Return([t EXCEPT !.text = Append(t.text, Peek), !.typ = "becomessym"])
    BY <1>6 DEF Becomes
  <2>3. PICK typ : typ = "becomessym"
    OBVIOUS
  <2>4. typ \in DOMAIN Scan!SymbolTypes
    BY <2>3, SymbolDomain
  <2>5. Scan!SymbolTypes[typ] = <<file[j], Peek>>
    <3>1. Scan!SymbolTypes[typ] = <<":", "=">>
      BY <2>3, SymbolTable
    <3> QED
      BY <1>4, <1>6, <3>1, Zenon
  <2>6. Return([t EXCEPT !.text = Append(t.text, Peek), !.typ = typ])
    BY <2>2, <2>3, Zenon
  <2> QED
    BY <1>1, <1>5, <2>1, <2>2, <2>4, <2>5, <2>6, TwoScan
<1>7. CASE Peek # "="
  <2>1. lexical_error("colon", lexer_getchar.line, lexer_getchar.column - 1)
    BY <1>7 DEF Becomes
  <2>2. j < Len(file) => file[j + 1] # "="
    BY <1>2, <1>3, <1>4, <1>5, <1>7, NextChar
  <2>3. ~isalnum(file[j]) /\ file[j] \notin DOMAIN Punctuation \cup {"<", ">"}
    BY <1>4, PunctuationDomain, CharKinds
  <2>4. Scan!TokensAt(j) = {}
    BY <1>2, <1>5, <2>2, <2>3, IllegalChar
  <2> QED
    BY <1>1, <1>5, <2>1, <2>4, ErrorScan
<1> QED
  BY <1>6, <1>7


LEMMA OneOrTwoScan ==
  ASSUME NoByte255, Known, outcome = Running, pc \in InTokens,
         NEW u, NEW j, Reading(u, j, j),
         NEW types, NEW alone \in DOMAIN Scan!SymbolTypes, OneOrTwo(types, alone),
         EOF \notin DOMAIN types,
         Scan!SymbolTypes[alone] = <<file[j]>>,
         \A d \in DOMAIN types : /\ types[d] \in DOMAIN Scan!SymbolTypes
                                 /\ Scan!SymbolTypes[types[d]] = <<file[j], d>>,
         \A d : d \notin DOMAIN types => ~Scan!IsSymbol(<<file[j], d>>)
  PROVE  ScanInv' /\ ScanStep
<1>1. Located /\ PlaceInv /\ file \in Files /\ Len(file) \in Nat
  BY TokenIs
<1>2. CASE Peek \in DOMAIN types
  <2>1. Peek # EOF
    BY <1>2
  <2>2. PICK typ : typ = types[Peek]
    OBVIOUS
  <2>3. Advance /\ Return([t EXCEPT !.text = Append(t.text, Peek), !.typ = typ])
    BY <1>2, <2>2 DEF OneOrTwo
  <2>4. typ \in DOMAIN Scan!SymbolTypes /\ Scan!SymbolTypes[typ] = <<file[j], Peek>>
    BY <1>2, <2>2, Zenon
  <2> QED
    BY <2>1, <2>3, <2>4, TwoScan
<1>3. CASE Peek \notin DOMAIN types
  <2>1. PutBack /\ Return([t EXCEPT !.typ = alone])
    BY <1>3 DEF OneOrTwo
  <2>2. j < Len(file) => ~Scan!IsSymbol(<<file[j], file[j + 1]>>)
    <3>1. j < Len(file) => Peek = file[j + 1]
      BY <1>1, NextChar, ReadingIs
    <3> QED
      BY <1>3, <3>1, Zenon
  <2> QED
    BY <2>1, <2>2, OneScan
<1> QED
  BY <1>2, <1>3

LEMMA LessScan ==
  ASSUME NoByte255, Known, StartsLess
  PROVE  ScanInv' /\ ScanStep
<1>1. /\ outcome = Running /\ pc = "less" /\ pc \in InTokens
      /\ OneOrTwo(LessTypes, "lessym")
  BY DEF StartsLess, At, InTokens
<1>2. /\ file \in Files
      /\ \E u, j, k : Reading(u, j, k)
  BY <1>1, TokenIs
<1>3. PICK u, j, k : Reading(u, j, k)
  BY <1>2
<1>4. k = j /\ file[j] = "<"
  BY <1>1, <1>3 DEF Reading
<1>5. Reading(u, j, j)
  BY <1>3, <1>4
<1>6. DOMAIN LessTypes = {"=", ">"} /\ LessTypes["="] = "leqsym" /\ LessTypes[">"] = "neqsym"
  BY DEF LessTypes
<1>7. EOF \notin DOMAIN LessTypes
  BY <1>6 DEF EOF
<1>8. PICK alone : alone = "lessym"
  OBVIOUS
<1>9. alone \in DOMAIN Scan!SymbolTypes /\ Scan!SymbolTypes[alone] = <<file[j]>>
  <2>1. Scan!SymbolTypes[alone] = <<"<">>
    BY <1>8, SymbolTable
  <2> QED
    BY <1>4, <1>8, <2>1, SymbolDomain
<1>10. ASSUME NEW d \in DOMAIN LessTypes
       PROVE  /\ LessTypes[d] \in DOMAIN Scan!SymbolTypes
              /\ Scan!SymbolTypes[LessTypes[d]] = <<file[j], d>>
  <2>1. CASE d = "="
    <3>1. Scan!SymbolTypes[LessTypes[d]] = <<"<", "=">>
      BY <1>6, <2>1, SymbolTable
    <3> QED
      BY <1>4, <1>6, <2>1, <3>1, SymbolDomain
  <2>2. CASE d = ">"
    <3>1. Scan!SymbolTypes[LessTypes[d]] = <<"<", ">">>
      BY <1>6, <2>2, SymbolTable
    <3> QED
      BY <1>4, <1>6, <2>2, <3>1, SymbolDomain
  <2> QED
    BY <1>6, <2>1, <2>2
<1>11. ASSUME NEW d, d \notin DOMAIN LessTypes
       PROVE  ~Scan!IsSymbol(<<file[j], d>>)
  <2> SUFFICES ASSUME Scan!IsSymbol(<<file[j], d>>) PROVE FALSE
    OBVIOUS
  <2>1. PICK text : text = <<file[j], d>>
    OBVIOUS
  <2>2. text \in SymbolTexts
    BY <2>1, SymbolsAre
  <2>3. Len(text) = 2 /\ text[1] = "<" /\ text[2] = d
    BY <1>4, <2>1, Short
  <2>4. d \in {"=", ">"}
    BY <2>2, <2>3, SymbolStarts
  <2> QED
    BY <1>6, <1>11, <2>4
<1>12. OneOrTwo(LessTypes, alone)
  BY <1>1, <1>8
<1> QED
  BY <1>1, <1>5, <1>7, <1>9, <1>10, <1>11, <1>12, OneOrTwoScan

LEMMA GreaterScan ==
  ASSUME NoByte255, Known, StartsGreater
  PROVE  ScanInv' /\ ScanStep
<1> DEFINE types == [c \in {"="} |-> "geqsym"]
<1>1. /\ outcome = Running /\ pc = "greater" /\ pc \in InTokens
      /\ OneOrTwo(types, "gtrsym")
  BY DEF StartsGreater, At, InTokens
<1>2. /\ file \in Files
      /\ \E u, j, k : Reading(u, j, k)
  BY <1>1, TokenIs
<1>3. PICK u, j, k : Reading(u, j, k)
  BY <1>2
<1>4. k = j /\ file[j] = ">"
  BY <1>1, <1>3 DEF Reading
<1>5. Reading(u, j, j)
  BY <1>3, <1>4
<1>6. DOMAIN types = {"="} /\ types["="] = "geqsym"
  OBVIOUS
<1> HIDE DEF types
<1>7. EOF \notin DOMAIN types
  BY <1>6 DEF EOF
<1>8. PICK alone : alone = "gtrsym"
  OBVIOUS
<1>9. alone \in DOMAIN Scan!SymbolTypes /\ Scan!SymbolTypes[alone] = <<file[j]>>
  <2>1. Scan!SymbolTypes[alone] = <<">">>
    BY <1>8, SymbolTable
  <2> QED
    BY <1>4, <1>8, <2>1, SymbolDomain
<1>10. ASSUME NEW d \in DOMAIN types
       PROVE  /\ types[d] \in DOMAIN Scan!SymbolTypes
              /\ Scan!SymbolTypes[types[d]] = <<file[j], d>>
  <2>1. d = "="
    BY <1>6
  <2>2. Scan!SymbolTypes[types[d]] = <<">", "=">>
    BY <1>6, <2>1, SymbolTable
  <2> QED
    BY <1>4, <1>6, <2>1, <2>2, SymbolDomain
<1>11. ASSUME NEW d, d \notin DOMAIN types
       PROVE  ~Scan!IsSymbol(<<file[j], d>>)
  <2> SUFFICES ASSUME Scan!IsSymbol(<<file[j], d>>) PROVE FALSE
    OBVIOUS
  <2>1. PICK text : text = <<file[j], d>>
    OBVIOUS
  <2>2. text \in SymbolTexts
    BY <2>1, SymbolsAre
  <2>3. Len(text) = 2 /\ text[1] = ">" /\ text[2] = d
    BY <1>4, <2>1, Short
  <2>4. d = "="
    BY <2>2, <2>3, SymbolStarts
  <2> QED
    BY <1>6, <1>11, <2>4
<1>12. OneOrTwo(types, alone)
  BY <1>1, <1>8
<1> QED
  BY <1>1, <1>5, <1>7, <1>9, <1>10, <1>11, <1>12, OneOrTwoScan

-----------------------------------------------------------------------------
(* Every step.                                                             *)

LEMMA InitScan ==
  ASSUME Init
  PROVE  ScanInv /\ Scan!Init
<1>1. tokens = <<>> /\ outcome = Running /\ pc = "start" /\ cur.pos = 1
  BY DEF Init
<1>2. ~AtEof /\ Scan!Unread = {1}
  BY <1>1 DEF AtEof, Scan!Unread
<1>3. ScanStatus = "open"
  BY <1>1, <1>2, OpenStatus
<1> QED
  BY <1>1, <1>2, <1>3 DEF ScanInv, Blanks, InTokens, Scan!Init

LEMMA StepScan ==
  ASSUME NoByte255, CleanMemory, Known, [Next]_vars
  PROVE  ScanInv' /\ ScanStep
<1>1. CASE LexerOpen \/ LexerOutput \/ LexerNext \/ LexerClose
  BY <1>1, OpenScan, OutputScan, NextScan, CloseScan
<1>2. CASE ConsumeIgnored \/ ConsumeComment \/ StartToken
  BY <1>2, IgnoredScan, CommentScan, StartTokenScan
<1>3. CASE Ident \/ Number \/ Becomes
  BY <1>3, IdentScan, NumberScan, BecomesScan
<1>4. CASE StartsLess \/ StartsGreater
  BY <1>4, LessScan, GreaterScan
<1>5. CASE UNCHANGED vars
  <2>1. ScanInv'
    BY <1>5, ExitScan DEF vars, statics, Known
  <2>2. UNCHANGED ScanStatus
    BY <1>5 DEF vars, ScanStatus, AtEof
  <2> QED
    BY <1>5, <2>1, <2>2 DEF vars, ScanStep, Scan!vars
<1> QED
  BY <1>1, <1>2, <1>3, <1>4, <1>5 DEF Next, Step, Stay

\* The lexer stands where the scanner does, and holds what it has read since.
LEMMA ScanInvariant ==
  ASSUME NoByte255, CleanMemory
  PROVE  Spec => []Known
<1>1. Init => ScanInv
  BY InitScan
<1>2. IInv /\ SafeInv /\ ScanInv /\ [Next]_vars => ScanInv'
  BY StepScan DEF Known
<1>3. IInv /\ SafeInv /\ ScanInv => Known
  BY DEF Known
<1> QED
  BY <1>1, <1>2, <1>3, Invariant, SafeInvariant, PTL DEF Spec

\* For every set of files without the byte 0xFF, whatever their length, and for
\* all limits: the lexer implements the scanner.  It returns the longest tokens
\* of the file in their order, none skipped, split or repeated, each with its
\* text, value, line and column; it ends at the end of the file and nowhere
\* else; and it reports an error where, and only where, no legal token follows,
\* provided that malloc returns zeroed memory.
THEOREM Refinement ==
  ASSUME NoByte255, CleanMemory
  PROVE  Spec => RefinesScanner
<1>1. Init => Scan!Init
  BY InitScan
<1>2. Known /\ [Next]_vars => [Scan!Next]_(Scan!vars)
  BY StepScan DEF ScanStep
<1> QED
  BY <1>1, <1>2, ScanInvariant, PTL DEF Spec, RefinesScanner, Scan!Spec

-----------------------------------------------------------------------------
(* The places of errors.                                                   *)

\* An error at a character of the file.
LEMMA ErrorPlace ==
  ASSUME NEW cause, NEW line, NEW column, lexical_error(cause, line, column),
         NEW u, Scan!Unread = {u}, NEW k \in Scan!Start(u) .. cur.pos,
         \/ line = Scan!LineOf(k) /\ column = Scan!ColumnOf(k)
         \/ /\ k <= Len(file) /\ file[k] = Newline
            /\ line = Scan!LineOf(k) + 1 /\ column = 0
  PROVE  ErrorsAreLocated'
<1>1. UNCHANGED <<file, cur, tokens>>
  BY DEF lexical_error, Exit
<1>2. outcome'.line = line /\ outcome'.column = column
  BY DEF lexical_error, Exit, Outcome
<1>3. Scan!Unread' = {u} /\ k \in Scan!Start(u)' .. cur'.pos
  BY <1>1, SameFile
<1>4. Scan!LineOf(k)' = Scan!LineOf(k) /\ Scan!ColumnOf(k)' = Scan!ColumnOf(k)
  BY <1>1, SameFile
<1> QED
  BY <1>1, <1>2, <1>3, <1>4 DEF ErrorsAreLocated

LEMMA RunningKind == Running.kind = "running"
BY DEF Running, Outcome

\* No error is reported.
LEMMA NoErrorPlace ==
  ASSUME outcome = Running, UNCHANGED outcome \/ outcome'.kind # "lexical_error"
  PROVE  ErrorsAreLocated'
<1>1. outcome'.kind # "lexical_error"
  BY RunningKind
<1> QED
  BY <1>1 DEF ErrorsAreLocated

LEMMA BailPlace ==
  ASSUME NEW cause, bail_with_error(cause)
  PROVE  outcome'.kind # "lexical_error"
BY DEF bail_with_error, Exit, Outcome

\* The line and the column of the character at cur.pos, after it is read.
LEMMA NextCharPlace ==
  ASSUME Known, Located
  PROVE  /\ Peek # Newline => /\ lexer_getchar.line = Scan!LineOf(cur.pos)
                              /\ lexer_getchar.column - 1 = Scan!ColumnOf(cur.pos)
         /\ Peek = Newline => /\ cur.pos <= Len(file) /\ file[cur.pos] = Newline
                              /\ lexer_getchar.line = Scan!LineOf(cur.pos) + 1
                              /\ lexer_getchar.column - 1 = 0
<1>1. cur.column \in Int /\ cur.line \in Int /\ Len(file) \in Nat /\ cur.pos \in Nat
  BY FileType DEF Known, IInv, PlaceInv, Places
<1>2. Peek = Newline => cur.pos <= Len(file) /\ file[cur.pos] = Newline
  BY <1>1 DEF Peek, Newline, EOF
<1> QED
  BY <1>1, <1>2, GetcharFields DEF Located

LEMMA BlanksPlace ==
  ASSUME NoByte255, Known, ConsumeComment \/ StartToken
  PROVE  ErrorsAreLocated'
<1>1. outcome = Running /\ pc \in Blanks
  BY DEF ConsumeComment, StartToken, At, Blanks
<1>2. /\ ~AtEof /\ Located /\ file \in Files /\ Len(file) \in Nat
      /\ cur.pos \in 1 .. Len(file) + 1 /\ cur.pos \in cur.pos .. cur.pos
  BY <1>1, BlanksAre
<1>3. CASE ConsumeComment /\ Peek = EOF
  <2>1. lexical_error("comment", lexer_getchar.line, lexer_getchar.column - 1)
    BY <1>3 DEF ConsumeComment
  <2>2. pc = "comment" /\ Peek # Newline
    BY <1>3 DEF ConsumeComment, At, EOF, Newline
  <2>3. PICK u \in 1 .. Len(file) + 1 : Scan!Unread = {u} /\ InBlanks(u)
    BY <1>1, BlanksAre
  <2>4. Scan!Start(u) = cur.pos
    BY <1>3, <2>2, <2>3, CommentAtEnd
  <2> QED
    BY <1>2, <2>1, <2>2, <2>3, <2>4, NextCharPlace, ErrorPlace
<1>4. CASE ConsumeComment /\ Peek # EOF
  BY <1>1, <1>4, NoErrorPlace DEF ConsumeComment, Read
<1>5. CASE StartToken /\ lexical_error("illegal character", lexer_getchar.line,
                                       lexer_getchar.column - 1)
  <2>1. pc = "token" /\ ~isspace(Peek)
    BY <1>5 DEF StartToken, At, Known, SafeInv
  <2>2. Peek # Newline
    BY <2>1 DEF isspace, Spaces, VerticalTab
  <2>3. PICK u : Scan!Unread = {u} /\ Scan!Start(u) = cur.pos
    BY <2>1, FirstChar
  <2> QED
    BY <1>2, <1>5, <2>2, <2>3, NextCharPlace, ErrorPlace
<1>6. CASE StartToken /\ ~lexical_error("illegal character", lexer_getchar.line,
                                        lexer_getchar.column - 1)
  <2>1. pc = "token" /\ ~isspace(Peek)
    BY <1>6 DEF StartToken, At, Known, SafeInv
  <2>2. UNCHANGED outcome \/ bail_with_error("space")
    BY <1>6, <2>1 DEF StartToken, Return
  <2> QED
    BY <1>1, <2>2, BailPlace, NoErrorPlace
<1> QED
  BY <1>3, <1>4, <1>5, <1>6

LEMMA TokensPlace ==
  ASSUME NoByte255, Known, Ident \/ Number \/ Becomes
  PROVE  ErrorsAreLocated'
<1>1. outcome = Running /\ pc \in InTokens
  BY DEF Ident, Number, Becomes, At, InTokens
<1>2. /\ Located /\ file \in Files /\ Len(file) \in Nat
      /\ \E u, j, k : Reading(u, j, k)
  BY <1>1, TokenIs
<1>3. PICK u, j, k : Reading(u, j, k)
  BY <1>2
<1>4. /\ Scan!Unread = {u} /\ Scan!Start(u) = j /\ j \in 1 .. Len(file)
      /\ k \in j .. Len(file) /\ t = TokenAt(j, "eofsym", SubSeq(file, j, k), 0)
  BY <1>2, <1>3, ReadingIs
<1>5. cur.pos = k + 1
  BY <1>3 DEF Reading
<1>6. j \in Scan!Start(u) .. cur.pos /\ cur.pos \in Scan!Start(u) .. cur.pos
  BY <1>2, <1>4, <1>5
<1>7. t.line = Scan!LineOf(j) /\ t.column = Scan!ColumnOf(j)
  BY <1>4 DEF TokenAt, Lexeme
<1>8. CASE \E cause : lexical_error(cause, t.line, t.column)
  BY <1>4, <1>6, <1>7, <1>8, ErrorPlace
<1>9. CASE lexical_error("colon", lexer_getchar.line, lexer_getchar.column - 1)
  <2>1. CASE Peek = Newline
    <3>1. PICK line, column : line = lexer_getchar.line /\ column = lexer_getchar.column - 1
      OBVIOUS
    <3>2. /\ cur.pos <= Len(file) /\ file[cur.pos] = Newline
          /\ line = Scan!LineOf(cur.pos) + 1 /\ column = 0
      BY <1>2, <2>1, <3>1, NextCharPlace
    <3>3. lexical_error("colon", line, column)
      BY <1>9, <3>1
    <3> QED
      BY <1>4, <1>6, <3>2, <3>3, ErrorPlace
  <2>2. CASE Peek # Newline
    BY <1>2, <1>4, <1>6, <1>9, <2>2, NextCharPlace, ErrorPlace
  <2> QED
    BY <2>1, <2>2
<1>10. CASE UNCHANGED outcome \/ \E cause : bail_with_error(cause)
  BY <1>1, <1>10, BailPlace, NoErrorPlace
<1>11. \/ \E cause : lexical_error(cause, t.line, t.column)
       \/ lexical_error("colon", lexer_getchar.line, lexer_getchar.column - 1)
       \/ UNCHANGED outcome
       \/ \E cause : bail_with_error(cause)
  <2>1. CASE Ident
    BY <2>1 DEF Ident, Extend, Return
  <2>2. CASE Number
    BY <2>2 DEF Number, Extend, Return
  <2>3. CASE Becomes
    BY <2>3 DEF Becomes, Return
  <2> QED
    BY <2>1, <2>2, <2>3
<1> QED
  BY <1>8, <1>9, <1>10, <1>11

LEMMA ClientPlace ==
  ASSUME Known, LexerOpen \/ LexerOutput \/ LexerNext \/ LexerClose
  PROVE  ErrorsAreLocated'
<1>1. outcome = Running /\ lexer_okay
  BY DEF LexerOpen, LexerOutput, LexerNext, LexerClose, At, Known, IInv, FileInv
<1>2. UNCHANGED outcome \/ \E cause : bail_with_error(cause)
  <2>1. CASE LexerOpen
    BY <2>1 DEF LexerOpen
  <2>2. CASE LexerOutput
    BY <2>2 DEF LexerOutput, lexer_filename
  <2>3. CASE LexerNext
    BY <2>3 DEF LexerNext
  <2>4. CASE LexerClose
    BY <1>1, <2>4 DEF LexerClose
  <2> QED
    BY <2>1, <2>2, <2>3, <2>4
<1> QED
  BY <1>1, <1>2, BailPlace, NoErrorPlace

LEMMA StepPlace ==
  ASSUME NoByte255, Known, ErrorsAreLocated, [Next]_vars
  PROVE  ErrorsAreLocated'
<1>1. CASE ConsumeIgnored
  <2>1. outcome = Running /\ UNCHANGED outcome
    BY <1>1 DEF ConsumeIgnored, At, Read
  <2> QED
    BY <2>1, NoErrorPlace
<1>2. CASE StartsLess \/ StartsGreater
  <2>1. outcome = Running /\ UNCHANGED outcome
    BY <1>2 DEF StartsLess, StartsGreater, At, OneOrTwo, Return
  <2> QED
    BY <2>1, NoErrorPlace
<1>3. CASE UNCHANGED vars
  <2>1. UNCHANGED <<file, tokens, cur, outcome>>
    BY <1>3 DEF vars
  <2>2. UNCHANGED Scan!Unread
    BY <2>1, SameFile
  <2>3. \A i : /\ Scan!Start(i)' = Scan!Start(i) /\ Scan!LineOf(i)' = Scan!LineOf(i)
               /\ Scan!ColumnOf(i)' = Scan!ColumnOf(i)
    BY <2>1, SameFile
  <2> QED
    BY <2>1, <2>2, <2>3 DEF ErrorsAreLocated
<1> QED
  BY <1>1, <1>2, <1>3, ClientPlace, BlanksPlace, TokensPlace DEF Next, Step, Stay

\* For every set of files without the byte 0xFF: an error is reported at a
\* character from the first one of the wrong text to the last one read, or at
\* column 0 of the line after a newline that was read.
THEOREM ErrorsLocated ==
  ASSUME NoByte255, CleanMemory
  PROVE  Spec => []ErrorsAreLocated
<1>1. Init => ErrorsAreLocated
  <2>1. Init => outcome.kind = "running"
    BY RunningKind DEF Init
  <2> QED
    BY <2>1 DEF ErrorsAreLocated
<1>2. Known /\ ErrorsAreLocated /\ [Next]_vars => ErrorsAreLocated'
  BY StepPlace
<1> QED
  BY <1>1, <1>2, ScanInvariant, PTL DEF Spec

-----------------------------------------------------------------------------
(* The type invariant.                                                     *)

\* malloc leaves characters.
CharsLeft == Leftovers \subseteq STRING

PlaceRecords == [pos : 1 .. Len(file) + 1, line : Nat, column : Nat, last_column : Nat]

LEMMA AdvancedType ==
  ASSUME IInv, TypeOK, Advance, UNCHANGED file
  PROVE  PlaceRecords' = PlaceRecords /\ cur' \in PlaceRecords
<1>1. cur \in PlaceRecords /\ Len(file) \in Nat
  BY FileType DEF TypeOK, PlaceRecords, IInv, PlaceInv
<1> QED
  BY <1>1 DEF Advance, lexer_getchar, PlaceRecords

LEMMA RestoredType ==
  ASSUME IInv, TypeOK, PutBack, UNCHANGED file
  PROVE  PlaceRecords' = PlaceRecords /\ cur' \in PlaceRecords
<1>1. cur \in PlaceRecords /\ Len(file) \in Nat
  BY FileType DEF TypeOK, PlaceRecords, IInv, PlaceInv
<1>2. lexer_getchar \in Places /\ cur \in Places
  BY AdvanceType DEF IInv, PlaceInv
<1>3. cur' \in Places
  BY PutBackType DEF PutBack, IInv
<1>4. cur'.pos \in 1 .. Len(file) + 1
  <2>1. cur'.pos = IF Peek = EOF THEN lexer_getchar.pos ELSE lexer_getchar.pos - 1
    BY <1>2, UngetcharFields DEF PutBack
  <2>2. cur.pos \in 1 .. Len(file) + 1
    BY <1>1 DEF PlaceRecords
  <2>3. Peek # EOF => cur.pos <= Len(file)
    BY <1>1, <2>2 DEF Peek
  <2> QED
    BY <1>1, <2>1, <2>2, <2>3, GetcharFields
<1>5. cur'.line = cur.line /\ cur'.column = cur.column /\ cur'.last_column = cur.column
  BY <1>2, UngetcharFields, GetcharFields DEF PutBack, Places
<1>6. cur.line \in Nat /\ cur.column \in Nat
  BY <1>1 DEF PlaceRecords
<1> QED
  BY <1>3, <1>4, <1>5, <1>6 DEF Places, PlaceRecords

LEMMA PeekType ==
  ASSUME IInv, Peek # EOF
  PROVE  Peek \in STRING
<1>1. file \in Seq(STRING) /\ Len(file) \in Nat /\ cur.pos \in Nat \ {0}
  BY FileType DEF IInv, PlaceInv, Places
<1>2. cur.pos \in 1 .. Len(file) /\ Peek = file[cur.pos]
  BY <1>1 DEF Peek
<1> QED
  BY <1>1, <1>2

LEMMA RecordUpdates ==
  ASSUME NEW r \in LexemeRecords, NEW a \in Seq(STRING), NEW b \in TokenTypes,
         NEW c \in 0 .. ShrtMax
  PROVE  /\ [r EXCEPT !.text = a] \in LexemeRecords /\ [r EXCEPT !.text = a].text = a
         /\ [r EXCEPT !.typ = b] \in LexemeRecords
         /\ [r EXCEPT !.value = c] \in LexemeRecords
BY DEF LexemeRecords

LEMMA RecordsUpdated ==
  ASSUME NEW r \in LexemeRecords, NEW a \in Seq(STRING), NEW b \in TokenTypes,
         NEW c \in 0 .. ShrtMax
  PROVE  /\ Completed(r, a, b) \in LexemeRecords
         /\ Typed(r, a, b) \in LexemeRecords
         /\ Numbered(r, a, b, c) \in LexemeRecords
<1> DEFINE x == [r EXCEPT !.text = a]
           y == [x EXCEPT !.typ = b]
           z == [r EXCEPT !.typ = b]
<1>1. x \in LexemeRecords /\ z \in LexemeRecords
  BY RecordUpdates
<1>2. Completed(r, a, b) = y
  BY DEF Completed, LexemeRecords
<1>3. Typed(r, a, b) = [z EXCEPT !.text = a]
  BY DEF Typed, LexemeRecords
<1>4. Numbered(r, a, b, c) = [y EXCEPT !.value = c]
  BY DEF Numbered, LexemeRecords
<1> HIDE DEF x, z
<1>5. y \in LexemeRecords
  BY <1>1, RecordUpdates
<1>6. [z EXCEPT !.text = a] \in LexemeRecords
  BY <1>1, RecordUpdates
<1> HIDE DEF y
<1>7. [y EXCEPT !.value = c] \in LexemeRecords
  BY <1>5, RecordUpdates
<1> QED
  BY <1>2, <1>3, <1>4, <1>5, <1>6, <1>7

LEMMA FreshType ==
  ASSUME IInv, TypeOK
  PROVE  Fresh \in LexemeRecords
<1>1. t \in LexemeRecords /\ cur.line \in Nat /\ cur.column \in Nat
  BY DEF TypeOK
<1> QED
  BY <1>1 DEF Fresh, LexemeRecords

LEMMA TerminatedType ==
  ASSUME CharsLeft, NEW text \in Seq(STRING), NEW s \in Terminated(text)
  PROVE  s \in Seq(STRING)
<1>1. PICK byte \in Leftovers : s = IF byte = NUL THEN text ELSE Append(text, byte)
  BY DEF Terminated
<1>2. byte \in STRING
  BY DEF CharsLeft
<1>3. Append(text, byte) \in Seq(STRING)
  BY <1>2, AppendIs
<1> QED
  BY <1>1, <1>3

\* The program goes on with the same token.
LEMMA MoveType ==
  ASSUME IInv, TypeOK, UNCHANGED <<file, statics, tokens, outcome>>,
         PlaceRecords' = PlaceRecords, cur' \in PlaceRecords, pc' \in Labels,
         t' \in LexemeRecords,
         pc' = "ident" => Len(t'.text) <= MaxIdentLength,
         pc' = "number" => Len(t'.text) <= MaxNumLength
  PROVE  TypeOK'
BY DEF TypeOK, PlaceRecords, statics

LEMMA ReturnType ==
  ASSUME IInv, TypeOK, NEW tok \in LexemeRecords, Return(tok),
         PlaceRecords' = PlaceRecords, cur' \in PlaceRecords, UNCHANGED stream,
         input_file' \in BOOLEAN, filename' \in BOOLEAN, done' \in BOOLEAN
  PROVE  TypeOK'
<1>1. tokens' = Append(tokens, tok) /\ t' = tok /\ pc' = "idle" /\ UNCHANGED <<file, outcome>>
  BY DEF Return
<1>2. tokens' \in Seq(LexemeRecords)
  BY <1>1 DEF TypeOK
<1> QED
  BY <1>1, <1>2 DEF TypeOK, PlaceRecords, Labels

LEMMA ExitType ==
  ASSUME TypeOK, NEW kind \in {"bail", "lexical_error", "abort"}, NEW cause \in Causes,
         NEW line \in Nat, NEW column \in Nat, Exit(Outcome(kind, cause, line, column))
  PROVE  TypeOK'
<1>1. outcome' \in [kind : {"running", "bail", "lexical_error", "abort"},
                    cause : Causes, line : Nat, column : Nat]
  BY DEF Exit, Outcome
<1> QED
  BY <1>1 DEF TypeOK, Exit, statics

LEMMA BailType ==
  ASSUME TypeOK, NEW cause \in Causes, bail_with_error(cause)
  PROVE  TypeOK'
BY ExitType DEF bail_with_error

LEMMA AssertType ==
  ASSUME TypeOK, assert_fails
  PROVE  TypeOK'
BY ExitType DEF assert_fails, Causes

\* At the character just read, or at the token.
LEMMA ErrorType ==
  ASSUME IInv, TypeOK, NEW cause \in Causes,
         \/ lexical_error(cause, lexer_getchar.line, lexer_getchar.column - 1)
         \/ lexical_error(cause, t.line, t.column)
  PROVE  TypeOK'
<1>1. cur.line \in Nat /\ cur.column \in Nat /\ t.line \in Nat /\ t.column \in Nat
  BY DEF TypeOK, LexemeRecords
<1>2. lexer_getchar.line \in Nat /\ lexer_getchar.column - 1 \in Nat
  BY <1>1, GetcharFields
<1> QED
  BY <1>1, <1>2, ExitType DEF lexical_error

LEMMA ClientType ==
  ASSUME IInv, TypeOK, LexerOpen \/ LexerOutput \/ LexerNext \/ LexerClose
  PROVE  TypeOK'
<1>1. /\ cur \in PlaceRecords /\ Len(file) \in Nat
      /\ UNCHANGED file => PlaceRecords' = PlaceRecords
  BY FileType DEF TypeOK, PlaceRecords, IInv, PlaceInv
<1>2. CASE LexerOpen
  <2>1. CASE bail_with_error("open")
    BY <2>1, BailType DEF Causes
  <2>2. CASE ~bail_with_error("open")
    <3>1. /\ cur' = [cur EXCEPT !.line = 1, !.column = 1] /\ stream' = "open"
          /\ input_file' = TRUE /\ filename' = TRUE /\ done' = FALSE /\ pc' = "opened"
          /\ UNCHANGED <<file, t, tokens, outcome>>
      BY <1>2, <2>2 DEF LexerOpen
    <3>2. cur' \in PlaceRecords
      <4>1. cur' = [[cur EXCEPT !.line = 1] EXCEPT !.column = 1]
        BY <1>1, <3>1 DEF PlaceRecords
      <4>2. [cur EXCEPT !.line = 1] \in PlaceRecords
        BY <1>1 DEF PlaceRecords
      <4> QED
        BY <4>1, <4>2 DEF PlaceRecords
    <3> QED
      BY <1>1, <3>1, <3>2 DEF TypeOK, PlaceRecords, Labels
  <2> QED
    BY <2>1, <2>2
<1>3. CASE LexerOutput
  <2>1. CASE done
    BY <1>3, <2>1, BailType DEF LexerOutput, lexer_filename, Causes
  <2>2. CASE ~done
    BY <1>1, <1>3, <2>2 DEF LexerOutput, lexer_filename, TypeOK, PlaceRecords, Labels, statics
  <2> QED
    BY <2>1, <2>2
<1>4. CASE LexerNext
  <2>1. Lexeme("eofsym", <<>>, 0, 0, 0) \in LexemeRecords
    BY LimitsAssumption DEF Lexeme, LexemeRecords, TokenTypes
  <2> QED
    BY <1>1, <1>4, <2>1, MoveType DEF LexerNext, Labels
<1>5. CASE LexerClose
  <2>1. CASE ~lexer_okay
    BY <1>5, <2>1, AssertType DEF LexerClose
  <2>2. CASE bail_with_error("close")
    BY <2>2, BailType DEF Causes
  <2>3. CASE lexer_okay /\ ~bail_with_error("close")
    BY <1>5, <2>3 DEF LexerClose, TypeOK, Labels
  <2> QED
    BY <2>1, <2>2, <2>3
<1> QED
  BY <1>2, <1>3, <1>4, <1>5

LEMMA BlanksType ==
  ASSUME IInv, TypeOK, ConsumeIgnored \/ ConsumeComment
  PROVE  TypeOK'
<1>1. t \in LexemeRecords
  BY DEF TypeOK
<1>2. ASSUME NEW label \in {"ignored", "comment"}, Read(label)
      PROVE  TypeOK'
  <2>1. PlaceRecords' = PlaceRecords /\ cur' \in PlaceRecords
    BY <1>2, AdvancedType DEF Read
  <2> QED
    BY <1>1, <1>2, <2>1, MoveType DEF Read, Labels
<1>3. ASSUME PutBack, pc' = "token", UNCHANGED <<file, statics, t, tokens, outcome>>
      PROVE  TypeOK'
  <2>1. PlaceRecords' = PlaceRecords /\ cur' \in PlaceRecords
    BY <1>3, RestoredType
  <2> QED
    BY <1>1, <1>3, <2>1, MoveType DEF Labels
<1>4. CASE ConsumeIgnored
  BY <1>2, <1>3, <1>4 DEF ConsumeIgnored
<1>5. CASE ConsumeComment
  BY <1>2, <1>5, ErrorType DEF ConsumeComment, Causes
<1> QED
  BY <1>4, <1>5

LEMMA PunctuationTypes ==
  ASSUME NEW c \in DOMAIN Punctuation
  PROVE  Punctuation[c] \in TokenTypes
<1>1. Punctuation[c] \in DOMAIN Scan!SymbolTypes
  BY PunctuationIs
<1> QED
  BY <1>1, SymbolDomain DEF TokenTypes

LEMMA OneChar ==
  ASSUME NEW S, NEW c \in S
  PROVE  <<c>> \in Seq(S) /\ Len(<<c>>) = 1
OBVIOUS

LEMMA StartTokenType ==
  ASSUME IInv, TypeOK, StartToken
  PROVE  TypeOK'
<1>1. Fresh \in LexemeRecords /\ UNCHANGED file
  BY FreshType DEF StartToken, assert_fails, bail_with_error, lexical_error, Exit, Return
<1>2. CASE isspace(Peek)
  BY <1>2, AssertType DEF StartToken
<1>3. CASE Peek = EOF /\ ~isspace(Peek)
  <2>1. /\ Advance /\ Return(Fresh) /\ UNCHANGED stream
        /\ input_file' = FALSE /\ filename' = FALSE /\ done' = TRUE
    BY <1>3 DEF StartToken
  <2>2. PlaceRecords' = PlaceRecords /\ cur' \in PlaceRecords
    BY <1>1, <2>1, AdvancedType
  <2> QED
    BY <1>1, <2>1, <2>2, ReturnType
<1>4. CASE Peek # EOF /\ ~isspace(Peek)
  <2> DEFINE one == <<Peek>>
  <2>1. one \in Seq(STRING) /\ Len(one) = 1
    BY <1>4, PeekType, OneChar
  <2>2. Advance => PlaceRecords' = PlaceRecords /\ cur' \in PlaceRecords
    BY <1>1, AdvancedType
  <2>3. CASE bail_with_error("space")
    BY <2>3, BailType DEF Causes
  <2>4. CASE /\ Peek \in DOMAIN Punctuation /\ Advance /\ UNCHANGED statics
             /\ Return([Fresh EXCEPT !.typ = Punctuation[Peek], !.text = one])
    <3>1. PICK typ \in TokenTypes : typ = Punctuation[Peek]
      BY <2>4, PunctuationTypes
    <3>2. 0 \in 0 .. ShrtMax
      BY LimitsAssumption
    <3> HIDE DEF one
    <3>3. Typed(Fresh, one, typ) \in LexemeRecords
      BY <1>1, <2>1, <3>2, RecordsUpdated
    <3>4. Return(Typed(Fresh, one, typ))
      BY <2>4, <3>1 DEF Typed
    <3>5. /\ UNCHANGED stream
          /\ input_file' \in BOOLEAN /\ filename' \in BOOLEAN /\ done' \in BOOLEAN
      BY <2>4 DEF statics, TypeOK
    <3> QED
      BY <2>2, <2>4, <3>3, <3>4, <3>5, ReturnType
  <2>5. CASE /\ isalnum(Peek) \/ Peek \in {":", "<", ">"}
             /\ Advance /\ t' = [Fresh EXCEPT !.text = one] /\ pc' = Continue(Peek)
             /\ UNCHANGED <<file, statics, tokens, outcome>>
    <3>1. pc' \in {"ident", "number", "becomes", "less", "greater"}
      BY <2>5 DEF Continue, isalnum
    <3>2. t' \in LexemeRecords /\ t'.text = one
      <4>1. 0 \in 0 .. ShrtMax /\ "eofsym" \in TokenTypes
        BY LimitsAssumption DEF TokenTypes
      <4> HIDE DEF one
      <4> QED
        BY <1>1, <2>1, <2>5, <4>1, RecordUpdates
    <3>3. Len(t'.text) <= MaxIdentLength /\ Len(t'.text) <= MaxNumLength
      BY <2>1, <3>2, LimitsAssumption
    <3> QED
      BY <2>2, <2>5, <3>1, <3>2, <3>3, MoveType DEF Labels
  <2>6. CASE lexical_error("illegal character", lexer_getchar.line, lexer_getchar.column - 1)
    BY <2>6, ErrorType DEF Causes
  <2> QED
    BY <1>4, <2>3, <2>4, <2>5, <2>6 DEF StartToken
<1> QED
  BY <1>2, <1>3, <1>4

LEMMA TextType ==
  ASSUME TypeOK
  PROVE  t \in LexemeRecords /\ t.text \in Seq(STRING) /\ Len(t.text) \in Nat
<1>1. t \in LexemeRecords
  BY DEF TypeOK
<1>2. t.text \in Seq(STRING)
  BY <1>1 DEF LexemeRecords
<1> QED
  BY <1>1, <1>2

LEMMA ExtendType ==
  ASSUME IInv, TypeOK, Peek # EOF, pc \in {"ident", "number"}, Extend,
         pc = "ident" => ~(Len(t.text) >= MaxIdentLength),
         pc = "number" => ~(Len(t.text) >= MaxNumLength)
  PROVE  TypeOK'
<1>1. Advance /\ pc' = pc /\ UNCHANGED <<file, statics, tokens, outcome>>
  BY DEF Extend
<1>2. PlaceRecords' = PlaceRecords /\ cur' \in PlaceRecords
  BY <1>1, AdvancedType
<1>3. PICK a : a = Append(t.text, Peek)
  OBVIOUS
<1>4. a \in Seq(STRING) /\ Len(a) = Len(t.text) + 1
  BY <1>3, TextType, PeekType, AppendIs
<1>5. t' = [t EXCEPT !.text = a]
  BY <1>3 DEF Extend
<1>6. t' \in LexemeRecords /\ t'.text = a
  <2>1. 0 \in 0 .. ShrtMax /\ "eofsym" \in TokenTypes
    BY LimitsAssumption DEF TokenTypes
  <2> QED
    BY <1>4, <1>5, <2>1, TextType, RecordUpdates
<1>7. /\ pc' = "ident" => Len(t'.text) <= MaxIdentLength
      /\ pc' = "number" => Len(t'.text) <= MaxNumLength
  BY <1>1, <1>4, <1>6, TextType, LimitsAssumption
<1>8. pc' \in Labels
  BY <1>1 DEF Labels
<1> QED
  BY <1>1, <1>2, <1>6, <1>7, <1>8, MoveType

\* A token is returned; the next character is put back or is its last one.
LEMMA TokenType ==
  ASSUME IInv, TypeOK, NEW tok \in LexemeRecords, Return(tok), PutBack \/ Advance,
         UNCHANGED statics
  PROVE  TypeOK'
<1>1. UNCHANGED file
  BY DEF Return
<1>2. PlaceRecords' = PlaceRecords /\ cur' \in PlaceRecords
  BY <1>1, AdvancedType, RestoredType
<1>3. /\ UNCHANGED stream
      /\ input_file' \in BOOLEAN /\ filename' \in BOOLEAN /\ done' \in BOOLEAN
  BY DEF statics, TypeOK
<1> QED
  BY <1>2, <1>3, ReturnType

LEMMA IdentType ==
  ASSUME CharsLeft, IInv, TypeOK, Ident
  PROVE  TypeOK'
<1>1. pc = "ident"
  BY DEF Ident, At
<1>2. CASE isalnum(Peek) /\ Len(t.text) >= MaxIdentLength
  BY <1>2, ErrorType DEF Ident, Causes
<1>3. CASE isalnum(Peek) /\ ~(Len(t.text) >= MaxIdentLength)
  <2>1. Extend /\ Peek # EOF
    BY <1>3, CharKinds DEF Ident
  <2> QED
    BY <1>1, <1>3, <2>1, ExtendType
<1>4. CASE ~isalnum(Peek)
  <2>1. PICK text \in Terminated(t.text) :
          Return([t EXCEPT !.text = text, !.typ = reserved_type(text)])
    BY <1>4 DEF Ident
  <2>2. text \in Seq(STRING)
    BY TextType, TerminatedType
  <2>3. PICK typ \in TokenTypes : typ = reserved_type(text)
    BY WordTypes
  <2>4. 0 \in 0 .. ShrtMax
    BY LimitsAssumption
  <2>5. Completed(t, text, typ) \in LexemeRecords
    BY <2>2, <2>4, TextType, RecordsUpdated
  <2>6. Return(Completed(t, text, typ))
    BY <2>1, <2>3 DEF Completed
  <2>7. PutBack /\ UNCHANGED statics
    BY <1>4 DEF Ident
  <2> QED
    BY <2>5, <2>6, <2>7, TokenType
<1> QED
  BY <1>2, <1>3, <1>4

LEMMA NumberType ==
  ASSUME CharsLeft, IInv, TypeOK, Number
  PROVE  TypeOK'
<1>1. pc = "number"
  BY DEF Number, At
<1>2. CASE isdigit(Peek) /\ Len(t.text) >= MaxNumLength
  BY <1>2, BailType DEF Number, Causes
<1>3. CASE isdigit(Peek) /\ ~(Len(t.text) >= MaxNumLength)
  <2>1. Extend /\ Peek # EOF
    BY <1>3, CharKinds DEF Number, isalnum
  <2> QED
    BY <1>1, <1>3, <2>1, ExtendType
<1>4. CASE ~isdigit(Peek)
  <2>1. PICK text \in Terminated(t.text) :
          IF Scanned(text) > ShrtMax
          THEN lexical_error("value", t.line, t.column)
          ELSE /\ PutBack
               /\ Return([t EXCEPT !.text = text, !.typ = "numbersym",
                                   !.value = Scanned(text)])
               /\ UNCHANGED statics
    BY <1>4 DEF Number
  <2>2. text \in Seq(STRING)
    BY TextType, TerminatedType
  <2>3. Scanned(text) \in Nat
    BY <2>2, ScannedIs
  <2>4. CASE Scanned(text) > ShrtMax
    BY <2>1, <2>4, ErrorType DEF Causes
  <2>5. CASE ~(Scanned(text) > ShrtMax)
    <3>1. PICK value \in 0 .. ShrtMax : value = Scanned(text)
      BY <2>3, <2>5, LimitsAssumption
    <3>2. PICK typ \in TokenTypes : typ = "numbersym"
      BY DEF TokenTypes
    <3>3. Numbered(t, text, typ, value) \in LexemeRecords
      BY <2>2, TextType, RecordsUpdated
    <3>4. Return([t EXCEPT !.text = text, !.typ = typ, !.value = value])
      BY <2>1, <2>5, <3>1, <3>2, Zenon
    <3>5. PutBack /\ UNCHANGED statics
      BY <2>1, <2>5
    <3> QED
      BY <3>3, <3>4, <3>5, TokenType DEF Numbered
  <2> QED
    BY <2>4, <2>5
<1> QED
  BY <1>2, <1>3, <1>4

\* A symbol with its second character.
LEMMA TwoType ==
  ASSUME IInv, TypeOK, Peek # EOF, NEW typ \in TokenTypes,
         NEW tok, tok = [t EXCEPT !.text = Append(t.text, Peek), !.typ = typ]
  PROVE  tok \in LexemeRecords
<1>1. PICK a : a = Append(t.text, Peek)
  OBVIOUS
<1>2. a \in Seq(STRING)
  BY <1>1, TextType, PeekType, AppendIs
<1>3. 0 \in 0 .. ShrtMax
  BY LimitsAssumption
<1>4. Completed(t, a, typ) \in LexemeRecords
  BY <1>2, <1>3, TextType, RecordsUpdated
<1> QED
  BY <1>1, <1>4 DEF Completed

LEMMA BecomesType ==
  ASSUME IInv, TypeOK, Becomes
  PROVE  TypeOK'
<1>1. CASE Peek = "="
  <2>1. /\ Advance /\ UNCHANGED statics
        /\ Return([t EXCEPT !.text = Append(t.text, Peek), !.typ = "becomessym"])
    BY <1>1 DEF Becomes
  <2>2. PICK typ \in TokenTypes : typ = "becomessym"
    BY DEF TokenTypes
  <2>3. PICK tok : tok = [t EXCEPT !.text = Append(t.text, Peek), !.typ = typ]
    OBVIOUS
  <2>4. Peek # EOF
    BY <1>1 DEF EOF
  <2>5. tok \in LexemeRecords
    BY <2>3, <2>4, TwoType
  <2>6. Return(tok)
    BY <2>1, <2>2, <2>3
  <2> QED
    BY <2>1, <2>5, <2>6, TokenType
<1>2. CASE Peek # "="
  BY <1>2, ErrorType DEF Becomes, Causes
<1> QED
  BY <1>1, <1>2

LEMMA OneOrTwoType ==
  ASSUME IInv, TypeOK, NEW types, NEW alone \in TokenTypes, OneOrTwo(types, alone),
         EOF \notin DOMAIN types, \A d \in DOMAIN types : types[d] \in TokenTypes
  PROVE  TypeOK'
<1>1. CASE Peek \in DOMAIN types
  <2>1. PICK typ \in TokenTypes : typ = types[Peek]
    BY <1>1
  <2>2. PICK tok : tok = [t EXCEPT !.text = Append(t.text, Peek), !.typ = typ]
    OBVIOUS
  <2>3. tok \in LexemeRecords
    BY <1>1, <2>2, TwoType
  <2>4. Advance /\ Return(tok) /\ UNCHANGED statics
    BY <1>1, <2>1, <2>2 DEF OneOrTwo
  <2> QED
    BY <2>3, <2>4, TokenType
<1>2. CASE Peek \notin DOMAIN types
  <2>1. PutBack /\ Return([t EXCEPT !.typ = alone]) /\ UNCHANGED statics
    BY <1>2 DEF OneOrTwo
  <2>2. [t EXCEPT !.typ = alone] \in LexemeRecords
    BY TextType DEF LexemeRecords
  <2> QED
    BY <2>1, <2>2, TokenType
<1> QED
  BY <1>1, <1>2

LEMMA SymbolsType ==
  ASSUME IInv, TypeOK, StartsLess \/ StartsGreater
  PROVE  TypeOK'
<1>1. CASE StartsLess
  <2>1. EOF \notin DOMAIN LessTypes /\ \A d \in DOMAIN LessTypes : LessTypes[d] \in TokenTypes
    BY DEF LessTypes, TokenTypes, EOF
  <2>2. "lessym" \in TokenTypes
    BY DEF TokenTypes
  <2> QED
    BY <1>1, <2>1, <2>2, OneOrTwoType DEF StartsLess
<1>2. CASE StartsGreater
  <2> DEFINE types == [c \in {"="} |-> "geqsym"]
  <2>1. EOF \notin DOMAIN types /\ \A d \in DOMAIN types : types[d] \in TokenTypes
    BY DEF TokenTypes, EOF
  <2>2. "gtrsym" \in TokenTypes
    BY DEF TokenTypes
  <2>3. OneOrTwo(types, "gtrsym")
    BY <1>2 DEF StartsGreater
  <2> HIDE DEF types
  <2> QED
    BY <2>1, <2>2, <2>3, OneOrTwoType
<1> QED
  BY <1>1, <1>2

LEMMA InitType ==
  ASSUME Init
  PROVE  TypeOK
<1>1. file \in Files
  BY DEF Init
<1>2. file \in Seq(STRING) /\ Len(file) \in Nat
  BY <1>1, FileType
<1>3. cur \in [pos : 1 .. Len(file) + 1, line : Nat, column : Nat, last_column : Nat]
  BY <1>2 DEF Init
<1>4. t \in LexemeRecords
  <2>1. Lexeme("periodsym", <<>>, 0, 0, 0) \in LexemeRecords
    BY LimitsAssumption DEF Lexeme, LexemeRecords, TokenTypes
  <2> QED
    BY <2>1 DEF Init
<1>5. tokens \in Seq(LexemeRecords)
  BY DEF Init
<1>6. outcome \in [kind : {"running", "bail", "lexical_error", "abort"},
                   cause : Causes, line : Nat, column : Nat]
  BY DEF Init, Running, Outcome, Causes
<1>7. pc = "start" /\ pc \in Labels
  BY DEF Init, Labels
<1>8. /\ stream \in {"unopened", "open", "closed"}
      /\ input_file \in BOOLEAN /\ filename \in BOOLEAN /\ done \in BOOLEAN
  BY DEF Init
<1> QED
  BY <1>2, <1>3, <1>4, <1>5, <1>6, <1>7, <1>8 DEF TypeOK

LEMMA StepType ==
  ASSUME CharsLeft, IInv, TypeOK, [Next]_vars
  PROVE  TypeOK'
<1>1. CASE UNCHANGED vars
  BY <1>1 DEF vars, TypeOK
<1> QED
  BY <1>1, ClientType, BlanksType, StartTokenType, IdentType, NumberType, BecomesType,
     SymbolsType DEF Next, Step, Stay

\* For every set of files: a token's value fits into a short and its text into
\* the array allocated for it, and no line or column is negative, though the
\* lexer counts backwards when it puts a character back.
THEOREM TypeCorrect ==
  ASSUME CharsLeft
  PROVE  Spec => []TypeOK
<1>1. IInv /\ TypeOK /\ [Next]_vars => TypeOK'
  BY StepType
<1> QED
  BY <1>1, InitType, Invariant, PTL DEF Spec
=============================================================================
