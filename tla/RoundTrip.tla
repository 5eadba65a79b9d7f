----------------------------- MODULE RoundTrip -----------------------------
(***************************************************************************)
(* The check of the Makefile (check-good-outputs): compile a file, compile *)
(* what was printed, and compare the two outputs.                          *)
(*                                                                         *)
(* The first compilation reads any file of at most MaxFirst tokens.  After *)
(* it the compiler is started again, as a new process, on the file that its*)
(* standard output and standard error went to.  The lexer finds the words  *)
(* that were printed there as far as nothing makes it run two of them      *)
(* together; from there on, and in an error message, it may find anything. *)
(***************************************************************************)
EXTENDS CompilerProps

CONSTANT MaxFirst  \* bound on the number of tokens of the first file

ASSUME MaxFirstAssumption == MaxFirst \in 0 .. MaxTokens

VARIABLE first     \* what is kept of the first compilation, once it has ended

NotYet == [words |-> <<>>, whole |-> TRUE, tree |-> <<>>, verdict |-> "none",
           name |-> NoText]

allVars == <<vars, first>>

-----------------------------------------------------------------------------
(* The lexer on a file that the compiler has written.                      *)

\* The types of the words made of letters or digits, and of messages, which may
\* begin with any character.
Alphanumeric(typ) == typ \notin Printer!SymbolSyms \cup {"gap"}

\* The lexer reads on from a word of type v into the text of type w after it:
\* names and keywords as far as there are letters and digits, numbers as far as
\* there are digits, and "<" and ">" into a longer symbol.
ReadsOn(v, w) ==
  \/ Alphanumeric(v) /\ Alphanumeric(w) /\ (v = "numbersym" => w \in {"numbersym", "message"})
  \/ v = "lessym" /\ w \in {"eqsym", "gtrsym", "geqsym", "message"}
  \/ v = "gtrsym" /\ w \in {"eqsym", "message"}

\* Item number k of the file is no word that the lexer finds as it was printed.
Unclear(items, k) ==
  \/ items[k] = Message
  \/ k < Len(items) /\ ReadsOn(items[k].typ, items[k + 1].typ)

\* How many items of the file come before the first of those.
ClearLength(items) ==
  CHOOSE n \in 0 .. Len(items) : /\ \A k \in 1 .. n : ~Unclear(items, k)
                                 /\ n < Len(items) => Unclear(items, n + 1)

\* The lexer ignores what is between the words.
AddWord(words, item) == IF item = Unparser!Gap THEN words ELSE Append(words, item)

\* The first words that it finds.
WordsOf(items) ==
  LET read[k \in 0 .. ClearLength(items)] ==
        IF k = 0 THEN <<>> ELSE AddWord(read[k - 1], items[k])
  IN  read[ClearLength(items)]

Words == WordsOf(stdio.file)

\* A tree without the places of its nodes.
ShapeOf(p) ==
  LET shape[q \in 0 .. Len(heap)] ==
        IF q = NULL THEN <<>>
        ELSE <<heap[q].tag, heap[q].name, heap[q].num, heap[q].op,
               [k \in DOMAIN heap[q].kids |-> shape[heap[q].kids[k]]],
               shape[heap[q].next]>>
  IN  shape[p]

-----------------------------------------------------------------------------
\* The lexer reads token number currToken'.loc of a short file at first.
ReadsFirstFile ==
  currToken' # currToken => currToken'.loc <= MaxFirst \/ currToken'.typ = "eofsym"

\* And then it reads what was written for the first file.  No word that it finds
\* as it was printed is an error.
ReadsOutput ==
  LET n == currToken'.loc
  IN  /\ currToken' # currToken =>
           IF n \in DOMAIN first.words THEN currToken' = Token(first.words[n], n)
           ELSE first.whole => currToken' = EofToken(n)
      /\ outcome' # outcome /\ outcome'.kind \in {"lexical_error", "abort"} =>
           n >= Len(first.words) /\ ~first.whole

Compile ==
  /\ Step
  /\ UNCHANGED first
  /\ IF first = NotYet THEN ReadsFirstFile ELSE ReadsOutput

\* The variables of a new process: those of Init.
NewProcess ==
  /\ currToken' = ZeroToken /\ done' = TRUE /\ eaten' = <<>> /\ heap' = <<>>
  /\ todo' = <<Parser!Call("parseyParse")>> /\ vals' = <<>>
  /\ outcome' = [kind |-> "not_open", expected |-> {}]
  /\ root' = NULL /\ rest' = <<>> /\ out' = <<>> /\ status' = "printing"
  /\ symtab' = Checker!NoTable /\ work' = <<>> /\ verdict' = Checker!NotStarted
  /\ phase' = "parse" /\ stdio' = NothingPrinted

\* ./compiler f.pl0 > f.out 2>&1, and now ./compiler f.out, if f.pl0 was printed
CompileAgain ==
  /\ first = NotYet
  /\ phase = "exited"
  /\ status = "printed"
  /\ first' = [words |-> Words, whole |-> ClearLength(stdio.file) = Len(stdio.file),
               tree |-> ShapeOf(root), verdict |-> verdict.kind, name |-> verdict.name]
  /\ NewProcess

StayEnded == Ended /\ UNCHANGED allVars

RoundTripInit == Init /\ first = NotYet
RoundTripNext == Compile \/ CompileAgain \/ StayEnded
RoundTripSpec == RoundTripInit /\ [][RoundTripNext]_allVars

-----------------------------------------------------------------------------
Again == first # NotYet

\* What was printed is a program.
OutputIsAProgram == Again => outcome.kind # "syntax_error"

\* It means what the first file meant: it has the same tree, but for the
\* places of its nodes.
OutputMeansTheSame == Again /\ root # NULL => ShapeOf(root) = first.tree

\* Both outputs are the same, and so are the verdicts on the declarations, if
\* memory does not run out.
OutputsAgree ==
  Again =>
    /\ status = "printed" /\ phase = "exited" => Words = first.words
    /\ {verdict.kind, first.verdict} \subseteq
         {"accepted", "already declared", "not declared"} =>
           verdict.kind = first.verdict /\ verdict.name = first.name
=============================================================================
