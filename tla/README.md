# A verification of the PL/0 front end

The program reads a PL/0 source file, parses it into an abstract syntax tree
(AST), prints the tree back as a program, and checks that every name is
declared once and before it is used. These modules model its lexer, its parser,
its trees, its unparser, its symbol table, its declaration checker and the
driver that puts them together; TLC checks them on small inputs and TLAPS proves
theorems about them for all inputs.

## 1. The system

`main` (compiler_main.c:20-39) runs its phases one after the other, in one
process without threads:

    parser_open -> parseyParse -> parser_close -> unparseProgram
                -> scope_initialize -> scope_check_program -> exit 0

Any error flushes standard output, prints one message and calls `exit(1)` at
once, or aborts where an assertion fails; nothing is retried or cleaned up.
There is no persistent state. What is hard is therefore not concurrency but
*sequence*: what is saved before a token is consumed and used after, in which
order recursive calls return, which pointer is the end of a list, which
character is put back, which of several errors is met first, and what has been
written by then.

| component | state | operations | interaction | what makes it correct |
|---|---|---|---|---|
| lexer (lexer.c) | the open file, line and column, `done`, one column to restore | lexer_open, lexer_next, lexer_done, lexer_close | parser pulls tokens | tokens are those of the text, each at its place; it ends at the end of the file |
| reserved words (reserved.c) | a constant table | reserved_type | called by lexer | keywords, and only keywords, are not identifiers |
| parser (parser.c) | currToken, and the call stack | parser_open, parseyParse, one function per nonterminal | pulls tokens, allocates AST nodes | accepts the language of its comments, rejects the rest at the first wrong token, and the tree says what the text says |
| AST (ast.c) | malloc'ed nodes, never freed | constructors, list operations | built by parser, read by the rest | every pointer leads to a node of the kind its reader switches on; lists keep their elements |
| unparser (unparser.c) | the call stack, the output | unparseProgram and one function per kind of node | reads the tree, writes stdout | what it prints is a program that means the same |
| symbol table (scope_symtab.c, id_attrs.c) | an array of 4096 associations and its size | scope_initialize, scope_insert, scope_lookup, scope_defined, scope_size, scope_full | called by the checker | a finite map: one entry per name, offsets counted from 0, never beyond its size |
| declaration checker (scope_check.c) | the walk | one function per kind of node | reads the tree, writes the table | accepts exactly the well-declared programs and reports the first error of the others |
| error reporting (utilities.c) | none | bail_with_error, lexical_error, parse_error_unexpected, general_error | ends the process | the message comes after the output it is about |
| driver (compiler_main.c) | none | main | calls all of them | phases in order, each on what the one before left |
| tests (Makefile) | the outputs | check-good-outputs | compiles the file that holds output and message again | the second output is the first |

## 2. Modules

| module | models | kind |
|---|---|---|
| Tokens | token.h | data |
| AST | ast.c, ast.h | data: nodes, constructors, list operations, and what each pointer of a node may point to |
| Chars | ctype.h as used, reserved.c | data |
| Scanner | what lexer.h promises: the longest tokens of a file, at their places | abstract specification |
| Lexer | lexer.c and its client lexer_output.c | state machine |
| LexerProps, MCLexer, ScannerProofs | | properties, small files, proofs |
| Grammar | the productions in the comments of parser.c, and a recognizer for them | reference |
| Derivation | what a parser promises: a machine that writes a leftmost derivation | abstract specification |
| Parser | parser.c, with the lexer as a source of tokens | state machine |
| ParserProps, MCParser, ParserProofs, ParserTreeProofs | | properties, families of files, proofs |
| Unparser | unparser.c | state machine |
| UnparserProps, MCUnparser, UnparserProofs | | properties, small trees, proofs |
| Scope | what scope_symtab.h promises: a finite map with a capacity | abstract specification |
| Symtab | scope_symtab.c, id_attrs.c | data and operations |
| ScopeCheck | scope_check.c | state machine (EXTENDS Symtab) |
| ScopeCheckProps, MCScopeCheck, ScopeCheckProofs | | properties, small programs, proofs |
| Compiler | compiler_main.c: Parser, Unparser and ScopeCheck on one heap, and stdio's buffer | composition |
| CompilerProps, MCCompiler, CompilerProofs | | properties, small files, proofs |
| RoundTrip, MCRoundTrip | check-good-outputs: the compiler run on its own output | composition, families of files |
| SmallTrees | | the trees that MCUnparser and MCScopeCheck use |
| ASTProofs | | lemmas about heaps, lists and well-formed trees |
| GrammarProofs | | lemmas about the grammar and the recognizer |

Definitions named "mutant" in a comment are deliberate bugs. Nothing uses them;
each takes the place of the definition after it to show that a property is
violated by that bug.

### The parser

The C call stack is flattened into two sequences. `todo` is the rest of the
computation: calls still to be made, tokens still to be eaten, nodes still to be
built. `vals` holds the local AST pointers and the results not used yet. An
action executes the head of `todo`: a call is replaced by the body of the
function, up to the next point where the code looks at a token it has not read
yet (a loop test, a `switch`, a token saved after an `eat`); such a point is an
instruction of its own, so it sees the `currToken` of that moment, and a token
the code saved *before* is stored in the instruction at the moment the code
saves it. That distinction is where the const location bug shows.

| action | code |
|---|---|
| Eat | eat, advance, lexer_next |
| ParseX | the entry of parseX |
| XLoop | the `while` of parseX: its test, one round, or its exit |
| ConstNumber, ReadIdent, SignedValue | the rest of parseConstIdent, parseReadStmt, parseNumber after it saves a second token |
| WhichOne | which_one and the rest of parseCondition |
| Allocate, BinExpr, MakeProgram | a constructor call, with ast_allocate's failure |
| AddAstToEnd, StartList, DropLast, RelocateParenExpr | the list variables and the last assignment of parseParenExpr |
| ParserOpen, Return, Stay | parser_open, the return to main, the process is over |

The file is chosen while it is read: each call of lexer_next returns any token
of `Lexemes`, the end of the file, or fails: on a lexical error, for lack of
memory, or by the assertion at lexer.c:148. So all files of up to `MaxTokens`
tokens are covered, each with a failure at every position.
`eaten` is a history variable: the tokens before `currToken`. A location is the
ordinal of a token in the file. `which_one` may return any operator, or none of
the six, when it returns its variable uninitialized.

### The lexer

`cur` holds the position in the file and the static variables line, column and
last_column; the other statics are only NULL or not. `pc` names the loop that is
running. Each round of a loop of lexer.c is a step (ConsumeIgnored,
ConsumeComment, Ident, Number); a token of one or two characters is a step for
its first character (StartToken) and one for the rest (Becomes, StartsLess,
StartsGreater). LexerOutput is the client: it asks for a token or stops whenever
it likes, so that lexer_close is met in every situation; the parser stops after
the period, lexer_output at the end of the file. A byte 0xFF equals EOF once it
is stored in a `char`: Peek makes it EOF, and lexer_ungetchar puts nothing back.
`Leftovers` is what malloc may leave in text[n], which lexer_ident and
lexer_number never set.

### The unparser

`rest` is the rest of the walk in order, like the parser's `todo`; words to print
between two calls are instructions of their own. `out` is a sequence of words (the
texts the lexer takes for tokens) and gaps (the blanks and newlines between them).
Where a format string has a blank there is a Gap, where it has none there is
none. A negative number is two words.

### The declaration checker

`work` is the rest of the walk, in the same style. `symtab` has the size and the
array. `scope_create` leaves a prefix of the array unwritten (its loop variable
is uninitialized), so the initial table is chosen among those; it may also
crash. A write past the end of the array is kept there, damages an entry in use,
or crashes; a lookup in a damaged table may crash. Both allocations of an
insertion may fail.

### The compiler and the round trip

Compiler instantiates the three phases over the variables of one process, with
the same `heap`. `stdio` is what has been written: `file`, which standard output
and standard error share (Makefile:72, 80), and `buffer`, where stdio keeps what
is printed until it holds `BufferSize` items. Put is printf; Flush is fflush,
which `exit` does too; Tell is a write to standard error, which is not buffered.
Each error function that the compiler calls has an operator of its own, with the
flushes and writes of its body in their order: lexical_error and general_error
write a place and call vbail_with_error, parse_error_unexpected calls
bail_with_error, which flushes once more. A signal (SIGABRT, or SIGSEGV in a
damaged table) ends the process without a flush.

RoundTrip starts the compiler a second time, as a new process, on the file that
the first one left, message included. Words is what the lexer finds in it:

| definition | lexer.c |
|---|---|
| AddWord | lexer_consume_ignored skips what stands between two words |
| ReadsOn | lexer_ident, lexer_number, lexer_becomes, lexer_starts_less and lexer_starts_greater read on into the word after, if nothing separates them |
| Unclear, ClearLength | how many items are read as they were printed: up to the first two that run together, or to a message |
| ReadsOutput | up to there each token is the word printed; after it the lexer may return any token, the end of the file or an error, and without such an item only the end of the file |

So that printing and reading again gives the same words is no assumption: in the
run it is TLC that finds them clear, and in the proofs it follows from
WordsStayApart (ApartIsClear, PrintedIsClear). What is abstracted is the
characters of one word: a word of `out` stands for a text that the lexer reads
as one token of that type and value. That holds for names that have been read
once, for numbers as far as the parser has stored them in a short, and with the
leftover byte of lexer.c:309 zero.

## 3. Properties and runs

All runs check deadlock: `Stay` is the only step of a process that has ended, so
a computation that gets stuck before is reported.

| run | bounds | properties |
|---|---|---|
| parser | four families of files: all 33 kinds of tokens, length 5; expressions, 9; declarations, 13; statements, 9 | TypeOK; RejectsOnlyNonSentences; ExpectedTokensFit; ExpressionsMeanWhatTextMeans; TreeIsComplete; TreeSaysWhatTextSays; NodesFitTheirSlots; SplicesAreLegal; RefinesRelaxedGrammar; ListsOnlyGrow |
| scope_check | capacity 2, up to 3 declarations of 3 names, 18 statements | TypeOK; VerdictIsFirstError; BailsOnlyWithoutSpace; TableHoldsDeclarations; TableIsAList; RefinesScope; Terminates |
| lexer | all files of 5 characters of 7 (blank, newline, comment, letters, digits) and of 3 characters of 17; words of 3, numbers of 2 digits up to 30 | TypeOK; ErrorsAreLocated; OpenOnlyAtItsEnd; RefinesScanner; Terminates |
| unparser | statements nested three deep, all operators | TypeOK; PrintsAProgram; WordsStayApart; BailsOnlyForOperators; Terminates |
| compiler_terminates | 17 kinds of tokens, 7 tokens | Terminates |
| round_trip | four families of first files: expressions, 9 tokens; declarations and uses, 11; conditionals, 12; loops, 10; a buffer of 4 items | TypeOK; MessageComesLast; VerdictFollowsText; PrintsBeforeItChecks; FailsOnlyOutside; OutputIsAProgram; OutputMeansTheSame; OutputsAgree |

A *family* is a set of tokens and a bound on the length of the file; the file of
a behaviour is of one family. Every kind of token is in one, and the bound of each
is the least at which what it is for happens.

*The language.* RefinesRelaxedGrammar says that every step of the parser is a
step of a leftmost derivation of the tokens it eats (Derivation, with the
refinement mapping FormOf and WordOf from `todo` and `eaten`).
RejectsOnlyNonSentences is the converse at the level of prefixes: at a syntax
error, the tokens before the reported one are no program of the grammar, and no
program begins with them and that one. Together: nothing
illegal is accepted but a missing relational operator, nothing legal is
rejected, and every error is reported at the first wrong token.
ExpectedTokensFit: what a message says was expected could stand there. Five
tokens reach each alternative of the grammar, and each error of each function;
longer programs are the business of the proof and of the other families.

*The tree.* Three references are computed from the token sequence alone and
compared with the tree: Text against Yield (order, nesting, names, numbers,
statement locations), Meaning against LocatedTree (precedence, associativity,
parentheses, signs, expression locations). TreeIsComplete counts pointers: the
finished program is a tree that hangs together and leaves nothing out.
ListsOnlyGrow is the action property behind it, and SplicesAreLegal what
ast_list_splice asks of its caller and cannot see for itself (ast.c:246): that
the node it appends to is the last one. NodesFitTheirSlots is what the later
phases assume of the tree. Nine tokens allow two operators of different
precedence with parentheses or signs, or `begin` nested in `if` or in a list;
thirteen allow two const declarations, one of them with two names.

*The lexer.* RefinesScanner compares each token with the longest legal text at
its place, where lines and columns are counted from the file alone: no
character is lost or read twice, though the code reads one too many and puts it
back. ErrorsAreLocated says where an error may be reported; OpenOnlyAtItsEnd that
a client that stops early gets its file closed. The limits are small so that
files cross them in each direction; the code uses them in comparisons only. The
run takes `Leftovers` to be NUL, which is what malloc leaves in fresh memory; the
run lexer_leftovers shows what happens otherwise.

*The checker.* VerdictIsFirstError compares the verdict with the lists of all
second declarations and all undeclared uses of the program, computed from the
tree at once, as long as the table has not overflowed; BailsOnlyWithoutSpace is
the other half of NodesFitTheirSlots. RefinesScope is the contract of
scope_symtab.h: it holds until a name is added to a full scope, and the run goes
past that point. The real capacity is 4096; nothing in the code depends on its
value but the comparison in scope_full and the size of the array.

*The unparser.* PrintsAProgram derives what was printed in the documented
grammar, semicolons included. WordsStayApart: no two words touch that the lexer
would read as one. Three levels put every statement with a part inside each
other one, last and not last in a list, so each value of `addSemiToEnd` is passed
through each of them.

*The composition.* VerdictFollowsText goes from the tokens of the file to the
verdict, past the tree: accepted exactly when each name is declared once and
before its uses, and otherwise the first wrong identifier of the text.
FailsOnlyOutside: no phase meets a tree that it does not expect.
MessageComesLast: in every state the file holds a beginning of the output and
then messages only; when the process has exited nothing printed is missing, and
there is a message unless the program is accepted. What is in the buffer at an
error depends on how long the output is, and the functions that can find
something there are bail_with_error (in the unparser and the checker) and
general_error; the lexer and the parser are done before anything is printed, so
the flushes of lexical_error and parse_error_unexpected have nothing to write.
OutputMeansTheSame and OutputsAgree: the second compilation has the
tree, the output and the verdict of the first. The capacity of 2 is room for the
two names, so the table gets full without overflowing; the bounds allow two
declarations with a use, two operators in either association, and an `if` in a
list with another statement after it. The buffer of 4 is full several times in
each output and empty at no fixed place. In the second process ReadsMessage of
MCRoundTrip bounds what the lexer makes of a message: a name, as the file name
that it begins with does, the end of the file, or a failure; the parser reads one
token after the period and does not look at it.

*Fairness.* FairSpec adds WF_vars(Step): one sequential process that never waits
for anything but its file, so a step that is enabled is taken. Terminates is
checked under it in each phase and for the whole compiler. The actions are
disjoint by the head of `todo`, `rest` or `work`, or by `pc`, so fairness of the
whole step says no more than fairness of each.

### Disagreements between code and text

| run | what |
|---|---|
| parser_documented_grammar | `while x y do skip` is accepted: which_one rejects nothing (parser.c:710 against the grammar at 645-646) |
| parser_decl_locations | the first name of every const declaration is located at the first `const` (parser.c:146 against id_attrs.h:12, ast.h:165), so a duplicate is reported at the wrong line |
| scope_full | scope_add is called on a full scope (scope_symtab.c:63), so `size` may even pass MAX_SCOPE_SIZE |
| scope_constants | assignments to constants are accepted (README.md:8) |
| lexer_assertion | a byte 0xFF before white space makes the assertion of lexer_next fail (lexer.c:146-148) |
| lexer_leftovers | text[n] is never set, so a word ends with a byte that malloc left (lexer.c:309 against 285-287) |

Two comments on the symbol table say otherwise than the code even before it
overflows. "Invariant: 0 <= size < MAX_SCOPE_SIZE" (scope_symtab.c:14) is not one:
a table that is legally full has `size` equal to MAX_SCOPE_SIZE, as scope_full
(scope_symtab.c:60) expects, and TableIsAList and RefinesScope go up to there.
"size is the index into entries of the most recent symtab_assoc", "the next entry
goes into the index size+1" (scope_symtab.c:21-23): the code stores the next entry
at `size` and searches below it. TableIsAList states what the code does, and
WrittenOnePast, a mutant that does what the comment says, violates it.

The models also show these, which no text of the repository contradicts: a byte
0xFF where a token may start is taken for the end of the file; a number that is
too long is reported by bail_with_error, with the file name as its format
(lexer.c:332); a file read to its end is never closed (lexer.c:154); the
terminator of a word of full length is stored one byte past its array
(lexer.c:309); an illegal program leaves a complete output before its message
(compiler_main.c:30).

## 4. Proofs

All are for every value of the constants, under the assumptions that the modules
name; a theorem that needs more says so after ASSUME. The proofs about the
unparser and the checker take sets of well-formed trees, as `Programs`; that the
parser builds such trees is proved in ParserTreeProofs, and CompilerProofs puts
the three together.

**ParserProofs**, for every set `Lexemes` and every `MaxTokens`:

- ControlInvariance: `Spec => []ControlOK`. Whatever the tokens, `todo` is
  made of known instructions with typed tokens and nodes, no end of file is eaten,
  and parseOpExpr, which has no error of its own, is only called on a sign.
- ParserRefinesGrammar: `Spec => RefinesRelaxedGrammar`. ControlOK is the
  invariant it needs: the mapping FormOf replaces each instruction of `todo` by
  its grammar symbol, which is only defined for known instructions.
- LegalProgramsAreAccepted: `Spec => []RejectsOnlyNonSentences`.
- ErrorMessagesAreTrue: `Spec => []ExpectedTokensFit`.

The argument for the refinement: a call replaces the head of `todo` by a body
whose symbols are the right-hand side of a production (ExpandStep); a piece that
builds a tree derives the empty word (ActStep), and the exit of a loop
takes the empty production (EmptyStep); `eat` settles a terminal
(EatStep); everything else, errors included, leaves form and word alone
(ErrorStep). One lemma per group of actions (DeclSteps, StmtSteps, ExprSteps,
BuildSteps, ProgramSteps) has one step per action.

The last two properties ask the recognizer of Grammar, which knows nothing of the
parser, whether a word is a program or begins one, and speak of errors only. The
invariant DerivationInv says of every state what makes them true of an error:

- Leads(f, w), for the form `f` still to be derived and the word `w` read:
  whatever f can go on with, w can, in the relaxed grammar. So a terminal that
  the function at the head of `todo` could eat next is one that fits.
- Covers(f, w, c), for the current token c: every way in which the documented
  grammar goes on after w with c, or ends, is still open in f. So if f cannot
  begin with c, no program begins with w and c.

An expansion keeps Covers only if the token that the code looked at justifies
the production it chose. Every step of the parser is therefore classified by
what it does to the form (ParseStep): Expands by a production that is Justified
by currToken, Builds, Matches a terminal, Reports an error at a symbol that cannot
begin with currToken, or Rests. DerivationNext has one step for each class.

**GrammarProofs** has what these proofs know of the two grammars and of the
recognizer. The recognizer rewrites the heads of its forms in rounds; nine are
enough, since each head has a Rank which every rewriting lowers (NineRounds,
SettledForms). In a Form each symbol is in the Follow set of the one before it,
which every rule keeps (RuleFits, RewriteForm). Starts is the FIRST set of a
symbol (SettledStarts), and where the code chooses by one token, the
alternatives it leaves out cannot begin with that token, or not be followed by
it: the seven lemmas StmtChoices, ExprChoices, ... check this for each
nonterminal (KeepsWays, Justified), which is the LL(1) argument for this
grammar. FormsAfter, the recursive function that runs the recognizer along a
word, is shown to exist and to add one token at a time (LeftExists,
FormsAfterAppend), and the beginning of a program to be one that can go on
(BeginningsGoOn).

**ParserTreeProofs**, for every set `Lexemes` and every `MaxTokens`: TypeCorrect,
TreesAreWellFormed, TreesAreComplete, SplicesAtTheEnd, ListsKeepTheirRests
(`Spec => []TypeOK`, `[]NodesFitTheirSlots`, `[]TreeIsComplete`,
`[]SplicesAreLegal`, `ListsOnlyGrow`) and NamesAreIdentifiers: whatever token the
code has saved for it, a node is named after an identifier or has no name; and the
number of a constant's declaration has no sign, which the unparser relies on.

These properties speak of finished trees, the states between of pointers in
local variables of calls that have not returned. The invariant TreeInv therefore
types the computation. A *kind* says what a pointer is for (a single node, the
first of a list, a list that may be empty, its last element, a last element that
is not used again) and which tags its node may have; `Effect(i, s, t)` says
which kinds an instruction finds on top of `vals` and which it leaves, and
`Flows(p, s, t)` that the instructions of `p` fit together. TreeInv is
ControlOK, HeapOK (each pointer of a node fits its slot, and the successor of a
node in a list is younger) and Typed: some stack of kinds fits the pointers in
`vals` (StackOK), `todo` leads from it to a single program, and each node hangs
from exactly one pointer, of another node or in use (Owned). There is one lemma
per action (ParseBlockTyped, ...). A call is replaced by a body of its type
(DoStep); a constructor takes pointers off and pushes the new node (BuildStep);
AddAstToEnd is the one step that changes a pointer of a node which others
already point to. What ast_list_last_elem returns is defined by recursion along
the list; because successors are younger, LastExists and LastElem can go from
the youngest node to the older ones, by an induction on numbers whose hypothesis
is a set, not an operator (Upward). At the end `todo` is empty, so a single
program is left and every other node hangs from one of the tree.

TreesHaveNoCycles (`Spec => []Acyclic(heap)`) says that the nodes can be ranked
so that each pointer leads to a lower rank. "Successors are younger" is not
enough for it: the children of a node are older. The invariant needs more,
namely that the pointers in use hold different trees, since a splice between two
nodes of one tree could close a cycle. Owned therefore also has Grove: labels on
the nodes, the same along every pointer, which give each tree the place in
`vals` of the pointer that holds it. A constructor joins the trees of its
arguments and ranks the new node above all others (BuildGrove, AllocForest);
AddAstToEnd redirects the last element of one tree to the first of another,
whose ranks can stay while those of the first are raised above them
(ExtendGrove, SpliceForest).

**ScopeCheckProofs**, for every set `Programs` of well-formed trees, every set of
`Names` and every `MaxScopeSize`: TypeCorrect, TableIsCorrect, BailsAreForSpace
(`Spec => []TypeOK`, `[]TableIsAList`, `[]BailsOnlyWithoutSpace`) and Refinement
(`Spec => RefinesScope`). The inductive invariant IInv adds to these properties:
HeapOK, the assumption on `Programs` carried along, because the calls of the next
step are read from the nodes; Counted, that the table has as many names as slots
in use, because the abstract scope takes the cardinality of its domain as the
offset where the code takes `size`; that slots in use exist; and that the table
is not created before the check has started. DoStep, ErrorStep and ListStep are
the three ways in which a step leaves the table alone, RoomStep and FullStep the
two in which a name is added: with room, the new name is found with its
attributes and the others as before, since names are distinct (LookupInAt);
without, the contract is void.

FirstErrorsReported and DeclarationsAreHeld (`Spec => []VerdictIsFirstError`,
`[]TableHoldsDeclarations`) say what the check finds. They assume that every
tree of `Programs` is Acyclic. The code needs that to end, and the trees of the
parser have it (TreesHaveNoCycles).
VerdictIsFirstError compares the verdict with lists, Decls and Uses, that are read
from the whole tree by recursion; ChainIs and ReadingsAre show by induction on the
rank that these functions exist and obey their equations. The invariant is the walk:
each call in `work` stands for a piece of Decls and of Uses (DeclsOf, UsesOf,
Piece), and WalkFrom(s) says that these pieces follow each other from the place
s, where the check is, to the end of both lists (Covers), that the table has
taken as many names as there are declarations before s, and that the uses before
s are declared. Replacing a call by the calls of its body keeps the walk
(NodeStep and the lemmas *Covers); entering a declaration and checking an
identifier move s by one, or end the check at the first error (AddWalk,
IdentWalk). The second declarations come first because no use is checked before
s has passed all of Decls (Late).

**UnparserProofs**, for every set `Programs` of well-formed trees: TypeCorrect,
OnlyOperatorsFail and NoWordsMerge (`Spec => []TypeOK`, `[]BailsOnlyForOperators`,
`[]WordsStayApart`). WordsStayApart speaks of what has been printed and is not
inductive: the next word must not touch the last one either, and it comes from
an instruction that may still have to be expanded. The invariant therefore
classifies instructions as it does words: StartInstrs may begin, EndInstrs may end
with a word that a neighbour could swallow. No word and no instruction of the
second kind comes before one of the first kind (WordsApart, BodyApart), nor does
the last word printed before the first instruction left. ReplaceStep is the one
lemma about steps: if words and body begin and end no worse than the instruction
they replace (Expands), the invariant holds afterwards. Each function of
unparser.c then needs only its own words and calls; ASTProofs gives the kinds of
the nodes it calls with.

OutputIsLegal (`Spec => []PrintsAProgram`) says that the tokens of the complete
output are a program of the documented grammar, and those of an output that a
bail out has cut short the beginning of one. Its invariant DerivInv relates the
output to the walk through a sentential form: some form f is left by the grammar
after the tokens of `out` (Reaches), and `rest` writes f (Path): the first
instruction derives a first part of f, the next goes on where it ends. What an
instruction derives depends on its node and on `addSemiToEnd`: a statement in
the middle of a list owes a semicolon and the statements after it, the last one
owes neither, and the part of an `if` or a `while` passes on what it was given.
There is one lemma per function of unparser.c, which derives its words and calls
from its own form. It is here that a semicolon too many or too few would show.
The last section adds EndInv for the round trip: the gap after the period is
still to be printed or is the last item, so that nothing can run together with
the period (PrintedEnds). Every step but a return replaces the first instruction
by words and instructions (StepReplaces) and leaves the last one where it is.
The assumption on `Programs` includes that the numbers of constants'
declarations have no sign (UnsignedConsts): the grammar has none there.

**ScannerProofs**, for every set of files of any length and all limits, begins
with NoAssertionFails (if no file has a byte 0xFF, `Spec => []AssertionsHold`;
the run lexer_assertion shows that the condition is needed) and
ClosesUnlessAtEnd (`Spec => []OpenOnlyAtItsEnd`). Their invariant keeps the
three pointers together with `done`, and says when an open file may have been
forgotten; SafeInv adds that the blanks end before a character that is no white
space. It goes on to prove Refinement (`Spec => RefinesScanner`) and
ErrorsLocated (`Spec => []ErrorsAreLocated`), both under NoByte255 and
CleanMemory, that `Leftovers` is NUL alone; the runs lexer_assertion and
lexer_leftovers show what happens without. TypeCorrect (`Spec => []TypeOK`)
needs neither, only that what malloc leaves are characters (CharsLeft).

The scanner returns a token at once, the lexer after many steps, with a character
too many read and put back. ScanInv says where it is between: `line` and `column`
are those counted from the file (Located), only blanks have been read since the
last token (InBlanks), or `t` holds exactly the text from the token's first
character to the last one read (InToken). A step then is none of the scanner
(QuietStep), its end (StopStep, FailStep) or a token (TokenStep), one lemma per
action. For a token, the text read must be the longest legal one (LongestWord,
LongestNumber, LongestSymbol), and its number the value of its digits
(ScannedIs); different places have different lines or columns (PlacesDiffer), so
the place of a token says where in the file it begins.

**CompilerProofs**, for every set `Lexemes`, every capacity of the table and
every size of the buffer: MessagesComeLast (`Spec => []MessageComesLast`),
ChecksWhatItPrinted (`Spec => []PrintsBeforeItChecks`: when the declarations are
checked, all has been printed and it is a program) with NoVerdictBeforePrinted,
the part of it that holds without any knowledge of the tree, PhasesAgree (`Spec
=> []FailsOnlyOutside`), TypeCorrect (`Spec => []TypeOK`), and NoWordsMerge and
TableIsCorrect, which state of the compiler what UnparserProofs and
ScopeCheckProofs state of their phases. So do FirstErrorIsReported (`Spec =>
[]Judge!VerdictIsFirstError`) and DeclarationsAreHeld, and they no longer assume
that the tree is Acyclic. The proof modules of the phases are instantiated on
the driver's variables (OfParser, OfUnparser, OfChecker), and PhasesInv says
which of their invariants hold in which phase. The work is at the borders:
ClosePhase and UnparsePhase show that the tree of the finished parser is a
well-formed program without cycles, its names those of identifiers and its
constants without signs (ParsedConsts), which is all the later phases assume,
and PhasesInv that no phase changes the tree. The assumptions left are those on
constants in Compiler: the type of the lexemes, and that the texts of
identifiers are in `Names`.

The invariant behind MessagesComeLast is StdioInv: until the process exits, file
and buffer together are `out` and the buffer is not full; after it, the file is
`out`, with one message or two unless the program was accepted. PutAdds shows that
printing keeps this, whatever number of full buffers reaches the file; ErrorsTell
goes through the error functions one by one and shows that each leaves all of the
output and then its message; NextStdio has one step per phase. It needs the
invariants of the phases for the kinds of failures and for what a step of the
unparser adds to `out` (StepAddsWords).

Two theorems are about check-good-outputs, for every first file, with
`RoundTripSpec`. PrintedProgramsAreRead (`RoundTripSpec => []OutputIsAProgram`): the
compiler rejects nothing that it has printed. SecondKeepsPromises: TypeOK,
MessageComesLast, PrintsBeforeItChecks and FailsOnlyOutside hold in the second
process as well. The invariant is SecondInv: the words that the lexer finds as they
were printed are a program of the documented grammar, which AgainPhase takes from
OutputIsLegal, StdioInv and PrintedIsClear at the moment the first process ends,
and what the second parser has read is their beginning (Follows, in
ParserProofs). That is so although the lexer may return anything after them: the
parser eats no token after the period (FollowsEnds), so only its currToken can be
one of those. At a syntax error the tokens before the
reported one, with it or, at the end of the file, without it, would then begin a
program or be one (FollowsProgram), against RejectsOnlyNonSentences. The tokens that
PrintsAProgram speaks of and those that the second process reads are two
recursive functions of the same output; WordTypes shows that they agree.

Only model-checked:

- Terminates, in each phase and for the whole: liveness is out of the provers'
  reach.
- TreeSaysWhatTextSays and ExpressionsMeanWhatTextMeans: what the tree of the
  parser says. Text and Meaning are read from the tokens, with a look at the
  ones before and after, Yield and LocatedTree from the finished tree; the
  invariant would have to give what each pointer in `vals` says while its tree
  is being built, splices included, and which part of the text lies between two
  of them.
- VerdictFollowsText, which needs the former, and FirstErrorIsReported. It also
  depends on the bounds of its run, in which a table of 2 slots is enough for
  every file of at most two names.
- OutputMeansTheSame and OutputsAgree: they need that the parser inverts the
  unparser on trees, on top of the former.

Of a function defined by recursion over data the prover knows nothing until it
is shown to exist, by an induction that has to be carried out with a set of
numbers (LastExists does so for the last element of a list, ValueExists for the
digits of a number, ReadingsAre for the uses of a tree, LeftExists for the
recognizer's forms).

## 5. Not modelled

- The layout of the output: how deep a line is indented. It is always white
  space between words.
- Failures of printf and fprintf, which the code ignores.
- The formats of messages: ttyp2str, kind2str, token2string, and the printing of
  lexer_output. lexer_line, lexer_column, debug_print, parse_error_general and
  is_stmt_beginning_token are never called by the compiler.
- Characters and the tokens made of them at once in the compiler: the lexer is
  composed with the parser through its contract, tokens or a failure, and with
  the unparser through the types of the words (ReadsOn). The composition takes
  the byte that malloc leaves after a word (lexer.c:309) to be zero.
- The text of a message: that it begins with a file name, how long it is.
- Opening a second file with the same lexer, which no caller does.
- The effect of the byte stored past a word of full length: glibc's malloc rounds
  256 and 6 bytes up, so that it belongs to the same block.
- Stack overflow of the recursion in C.
- The example programs, and `submissions/`, a second copy of the sources.

## 6. Plan

Written so far, in this order: parser and grammar; checker and table; lexer and
scanner; unparser; compiler; round trip; proofs for each; the parser's trees; the
compiler with its phases; the lexer's contract; the language that the parser
accepts and the unparser writes, and the compiler on its own output. Left:
TreeSaysWhatTextSays in the same way as FirstErrorsReported, with the yield of
`vals` and the text of `eaten`; then VerdictFollowsText, for a table with
room, follows from it and from FirstErrorIsReported.
