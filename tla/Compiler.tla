------------------------------ MODULE Compiler ------------------------------
(***************************************************************************)
(* main of compiler_main.c: the phases of the compiler one after the other,*)
(* on one heap of nodes, and what becomes of its output.                   *)
(*                                                                         *)
(* stdio buffers what is printed: it reaches the file when the buffer is   *)
(* full, when fflush is called, and at exit, but not when a signal kills   *)
(* the process.  Messages go to stderr, which is not buffered; the Makefile*)
(* sends both to one file.                                                 *)
(***************************************************************************)
EXTENDS AST

CONSTANTS
  Lexemes,        \* the tokens to choose from
  MaxTokens,      \* bound on the number of tokens of the file
  Names,          \* the identifiers
  MaxScopeSize,   \* MAX_SCOPE_SIZE
  BufferSize      \* the items of output that stdio's buffer holds

ASSUME BufferSizeAssumption == BufferSize \in Nat \ {0}

VARIABLES
  \* the parser's
  currToken, done, eaten, heap, todo, vals, outcome,
  \* the unparser's
  root, rest, out, status,
  \* the declaration checker's
  symtab, work, verdict,
  phase,          \* what main is doing, or how the process ended
  stdio           \* what is in the file, and what in the buffer of stdout

parserVars == <<currToken, done, eaten, heap, todo, vals, outcome>>
unparserVars == <<rest, out, status>>
checkerVars == <<symtab, work, verdict>>
vars == <<parserVars, root, unparserVars, checkerVars, phase, stdio>>

Parser == INSTANCE Parser
Unparser == INSTANCE Unparser WITH Programs <- {}
Checker == INSTANCE ScopeCheck WITH Programs <- {}

ASSUME LexemesAssumption ==
  \A x \in Lexemes : /\ DOMAIN x = {"typ", "text", "value"}
                     /\ x.typ \in TokenTypes \ {"eofsym"}
                     /\ x.text \in Texts
                     /\ x.value \in Nat
ASSUME MaxTokensAssumption == MaxTokens \in Nat
ASSUME MaxScopeSizeAssumption == MaxScopeSize \in Nat
ASSUME NamesAssumption ==
  /\ Names \subseteq STRING \ {Checker!NullId, Checker!JunkId, NoText}
  /\ \A x \in Lexemes : x.typ = "identsym" => x.text \in Names

-----------------------------------------------------------------------------
(* Standard output and standard error, which go to one file.               *)

NothingPrinted == [file |-> <<>>, buffer |-> <<>>]

\* A part of an error message, the place or the text.
Message == Unparser!Word("message")

\* printf: what is printed reaches the file one full buffer at a time.
Put(s, items) ==
  LET all == s.buffer \o items
      full == BufferSize * (Len(all) \div BufferSize)
  IN  [file |-> s.file \o SubSeq(all, 1, full),
       buffer |-> SubSeq(all, full + 1, Len(all))]

\* fflush(stdout), which exit does too
Flush(s) == [file |-> s.file \o s.buffer, buffer |-> <<>>]

\* fprintf(stderr, ...) and perror
Tell(s) == [s EXCEPT !.file = Append(@, Message)]

\* The error functions: what each has made of standard output and standard
\* error when the process has exited.
vbail_with_error(s) == Flush(Tell(s))
bail_with_error(s) == vbail_with_error(Flush(s))
lexical_error(s) == vbail_with_error(Tell(Flush(s)))
parse_error_unexpected(s) == bail_with_error(Tell(Flush(s)))

\* Mutant: standard output is not flushed before the place is printed.
general_error_unflushed(s) == vbail_with_error(Tell(s))

general_error(s) == vbail_with_error(Tell(Flush(s)))

\* The functions of utilities.c that the compiler calls for each failure.
ErrorFunction(failure, s) ==
  CASE failure = "bail" -> bail_with_error(s)
    [] failure = "lexical_error" -> lexical_error(s)
    [] failure = "syntax_error" -> parse_error_unexpected(s)
    [] failure \in {"already declared", "not declared"} -> general_error(s)

-----------------------------------------------------------------------------
(* What becomes of the process after a step of a phase.                    *)

GoTo(p) == phase' = p /\ UNCHANGED stdio

Exit(s) == phase' = "exited" /\ stdio' = s

Fail(failure) == Exit(ErrorFunction(failure, stdio))

-----------------------------------------------------------------------------
\* parser_open and parseyParse
Parse ==
  /\ phase = "parse"
  /\ Parser!Step
  /\ UNCHANGED <<root, unparserVars, checkerVars>>
  /\ CASE outcome'.kind \in {"not_open", "running"} -> GoTo("parse")
       [] outcome'.kind = "parsed" -> GoTo("close")
       [] outcome'.kind = "abort" -> GoTo("killed")
       [] OTHER -> Fail(outcome'.kind)

\* parser_close: the file is still open, and fclose may fail, if the lexer has
\* not met its end.
ParserClose ==
  /\ phase = "close"
  /\ UNCHANGED <<parserVars, out, status, checkerVars>>
  /\ \/ /\ ~done
        /\ Fail("bail")
        /\ UNCHANGED <<root, rest>>
     \/ /\ GoTo("unparse")
        /\ root' = vals[1]
        /\ rest' = <<Unparser!Call("unparseProgram", root')>>

\* unparseProgram(stdout, progAST)
UnparseProgram ==
  /\ phase = "unparse"
  /\ Unparser!Step
  /\ CASE status' = "printing" ->
              /\ stdio' = Put(stdio, SubSeq(out', Len(out) + 1, Len(out')))
              /\ UNCHANGED <<phase, work>>
       [] status' = "printed" -> /\ GoTo("check")
                                 /\ work' = <<Checker!Call("scope_check_program", root)>>
       [] OTHER -> Fail("bail") /\ UNCHANGED work
  /\ UNCHANGED <<currToken, done, eaten, todo, vals, outcome, symtab, verdict>>

\* scope_initialize and scope_check_program
CheckProgram ==
  /\ phase = "check"
  /\ Checker!Step
  /\ UNCHANGED unparserVars
  /\ CASE verdict'.kind \in {"not_started", "checking"} -> GoTo("check")
       [] verdict'.kind = "accepted" -> Exit(Flush(stdio))
       [] verdict'.kind = "crash" -> GoTo("killed")
       [] OTHER -> Fail(verdict'.kind)
  /\ UNCHANGED <<currToken, done, eaten, todo, vals, outcome>>

Ended == phase \in {"exited", "killed"}
Stay == Ended /\ UNCHANGED vars

Init == /\ Parser!Init
        /\ root = NULL
        /\ rest = <<>>
        /\ out = <<>>
        /\ status = "printing"
        /\ symtab = Checker!NoTable
        /\ work = <<>>
        /\ verdict = Checker!NotStarted
        /\ phase = "parse"
        /\ stdio = NothingPrinted

Step == Parse \/ ParserClose \/ UnparseProgram \/ CheckProgram

Next == Step \/ Stay

Spec == Init /\ [][Next]_vars

\* One sequential process that nothing can block.
FairSpec == Spec /\ WF_vars(Step)
=============================================================================
