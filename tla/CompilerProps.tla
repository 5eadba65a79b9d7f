--------------------------- MODULE CompilerProps ---------------------------
(***************************************************************************)
(* What the compiler of Compiler.tla must guarantee.                       *)
(***************************************************************************)
EXTENDS Compiler, Grammar

Reader == INSTANCE ParserProps
Printer == INSTANCE UnparserProps WITH Programs <- {}
Judge == INSTANCE ScopeCheckProps WITH Programs <- {}

\* The type invariant: each phase finds its own state, and the tree of the
\* phases before it, as its own type invariant says.
TypeOK ==
  /\ Reader!TypeOK
  /\ phase \in {"parse", "close", "unparse", "check", "exited", "killed"}
  /\ root # NULL => Printer!TypeOK
  /\ work # <<>> => Judge!TypeOK
  /\ stdio \in [file : Seq(Printer!Items \cup {Message}), buffer : Seq(Printer!Items)]
  /\ Len(stdio.buffer) < BufferSize

-----------------------------------------------------------------------------
\* Standard output and standard error share a file: it holds the beginning of
\* what was printed, and messages only after all of it, whatever stdio had kept
\* in its buffer ("flush so output comes after what has happened already",
\* utilities.c:52, 76, 108, 157).  When the process has exited nothing printed is
\* missing, and there is a message unless the program is accepted.
MessageComesLast ==
  \E n \in 0 .. Len(out) :
    /\ n <= Len(stdio.file)
    /\ \A k \in 1 .. n : stdio.file[k] = out[k]
    /\ \A k \in n + 1 .. Len(stdio.file) : stdio.file[k] = Message
    /\ n < Len(stdio.file) \/ phase = "exited" => n = Len(out)
    /\ phase = "exited" => (verdict.kind = "accepted" <=> n = Len(stdio.file))

\* Once the declarations are checked, the whole program has been printed, and
\* it is one of the language: also when it turns out to be wrong, and when a
\* message follows.
PrintsBeforeItChecks ==
  phase = "check" \/ verdict # Checker!NotStarted =>
    /\ status = "printed"
    /\ Derivable(DocumentedRightSides, Printer!Printed)

\* The compiler fails without a message about the program only where memory
\* or the file system fails, or for an operator that which_one made up: the
\* phases agree on the trees that pass between them.
FailsOnlyOutside ==
  /\ Printer!BailsOnlyForOperators
  /\ status = "bail" => heap[Head(rest).p].op = GarbageOp
  /\ Judge!BailsOnlyWithoutSpace

-----------------------------------------------------------------------------
(* The declarations and uses of the text, before any tree.                 *)

Typ(k) == Reader!Typ(k)
IdentPlaces == {k \in DOMAIN eaten : Typ(k) = "identsym"}
DeclPlaces == {k \in IdentPlaces : k > 1 /\ Typ(k - 1) \in {"constsym", "varsym", "commasym"}}
SameName(j, k) == eaten[j].text = eaten[k].text

DeclaredBefore(k) == \E j \in DeclPlaces : j < k /\ SameName(j, k)

\* Where the text breaks a rule: a second declaration of a name, and a use of
\* a name that is not declared.
WrongPlaces == {k \in DeclPlaces : DeclaredBefore(k)}
                 \cup {k \in IdentPlaces \ DeclPlaces : ~DeclaredBefore(k)}

\* The compiler accepts a program exactly when its text declares every name
\* once and before its uses, and otherwise names the first wrong identifier of
\* the text and the rule it breaks.  The place it reports is that of the
\* identifier, or of a keyword before it.
VerdictFollowsText ==
  /\ verdict.kind = "accepted" => WrongPlaces = {}
  /\ verdict.kind \in {"already declared", "not declared"} =>
       \E k \in WrongPlaces :
         /\ \A j \in WrongPlaces : k <= j
         /\ verdict.name = eaten[k].text
         /\ verdict.kind = IF k \in DeclPlaces THEN "already declared" ELSE "not declared"
         /\ \/ verdict.loc = k
            \/ verdict.loc < k /\ Typ(verdict.loc) \in {"readsym", "constsym"}

\* Every compilation ends.
Terminates == <>Ended
=============================================================================
