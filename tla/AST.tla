-------------------------------- MODULE AST --------------------------------
(***************************************************************************)
(* The abstract syntax trees of ast.c and ast.h.                           *)
(*                                                                         *)
(* malloc'ed nodes live in a heap, a sequence of node records; a pointer   *)
(* is an index into it and NULL is 0.  Nothing is ever freed, so allocation*)
(* appends.  A list of ASTs is a chain of nodes through their next field.  *)
(*                                                                         *)
(* The C union of one struct per kind of node becomes the fields           *)
(*   name  the identifier the node mentions, if any,                       *)
(*   num   the value of a number or of a constant,                         *)
(*   op    its relational or arithmetic operator,                          *)
(*   kids  its pointers to other nodes, in the order of the C struct.      *)
(* A location is the ordinal, in the file, of the token it was taken from. *)
(***************************************************************************)
EXTENDS Tokens, Sequences

NULL == 0
NoOp == "no-op"         \* the op field of a node that has no operator

ListTags == {"const_decl_ast", "var_decl_ast"}
StmtTags == {"assign_ast", "begin_ast", "if_ast", "while_ast", "read_ast",
             "write_ast", "skip_ast"}
CondTags == {"odd_cond_ast", "bin_cond_ast"}
ExprTags == {"bin_expr_ast", "ident_ast", "number_ast"}
\* "unset": ast_allocate leaves the tag unset and ast_op_expr never sets it.
AstTags == {"program_ast", "unset"} \cup ListTags \cup StmtTags \cup CondTags
             \cup ExprTags

ArithOps == {"addop", "subop", "multop", "divop"}
RelOps == {"eqop", "neqop", "ltop", "leqop", "gtop", "geqop"}
\* The value of an uninitialized rel_op that is none of the enum's values.
GarbageOp == "garbage"
Ops == ArithOps \cup RelOps \cup {GarbageOp, NoOp}

Nodes == [tag : AstTags, loc : Nat, next : Nat, name : Texts, num : Int,
          op : Ops, kids : Seq(Nat)]

-----------------------------------------------------------------------------
(* Constructors.  The pointer arguments of a C constructor are the kids,   *)
(* which the caller supplies when it allocates the node.                   *)

ast_allocate(t) ==
  [tag |-> "unset", loc |-> t.loc, next |-> NULL,
   name |-> NoText, num |-> 0, op |-> NoOp, kids |-> <<>>]

ast_program(t) == [ast_allocate(t) EXCEPT !.tag = "program_ast"]

ast_const_def(t, ident, n) ==
  [ast_allocate(t) EXCEPT !.tag = "const_decl_ast", !.name = ident, !.num = n]

ast_var_decl(t, ident) ==
  [ast_allocate(t) EXCEPT !.tag = "var_decl_ast", !.name = ident]

ast_assign_stmt(t, ident) ==
  [ast_allocate(t) EXCEPT !.tag = "assign_ast", !.name = ident]

ast_begin_stmt(t) == [ast_allocate(t) EXCEPT !.tag = "begin_ast"]

ast_if_stmt(t) == [ast_allocate(t) EXCEPT !.tag = "if_ast"]

ast_while_stmt(t) == [ast_allocate(t) EXCEPT !.tag = "while_ast"]

ast_read_stmt(t, ident) ==
  [ast_allocate(t) EXCEPT !.tag = "read_ast", !.name = ident]

ast_write_stmt(t) == [ast_allocate(t) EXCEPT !.tag = "write_ast"]

ast_skip_stmt(t) == [ast_allocate(t) EXCEPT !.tag = "skip_ast"]

ast_odd_cond(t) == [ast_allocate(t) EXCEPT !.tag = "odd_cond_ast"]

ast_bin_cond(t, relop) ==
  [ast_allocate(t) EXCEPT !.tag = "bin_cond_ast", !.op = relop]

\* The temporary pair of an operator and its right operand: its tag is not set.
ast_op_expr(t, arith) == [ast_allocate(t) EXCEPT !.op = arith]

ast_bin_expr(t, arith) ==
  [ast_allocate(t) EXCEPT !.tag = "bin_expr_ast", !.op = arith]

ast_ident(t, ident) ==
  [ast_allocate(t) EXCEPT !.tag = "ident_ast", !.name = ident]

ast_number(t, n) == [ast_allocate(t) EXCEPT !.tag = "number_ast", !.num = n]

-----------------------------------------------------------------------------
(* Lists.  first(lst) is lst itself and a singleton is the node itself.    *)

ast_list_is_empty(lst) == lst = NULL

ast_list_rest(heap, lst) == heap[lst].next

\* The loop of ast_list_last_elem: NULL for the empty list.
ast_list_last_elem(heap, lst) ==
  LET last[p \in 0 .. Len(heap)] ==
        IF ast_list_is_empty(p) \/ ast_list_is_empty(ast_list_rest(heap, p)) THEN p
        ELSE last[ast_list_rest(heap, p)]
  IN  last[lst]

ast_list_splice(heap, lst, newtail) == [heap EXCEPT ![lst].next = newtail]

-----------------------------------------------------------------------------
(* The trees that the consumers of the parser expect.                      *)

\* What each pointer of each kind of node points to.
SlotTags ==
  [program_ast |-> <<{"const_decl_ast"}, {"var_decl_ast"}, StmtTags>>,
   assign_ast |-> <<ExprTags>>, begin_ast |-> <<StmtTags>>,
   if_ast |-> <<CondTags, StmtTags, StmtTags>>,
   while_ast |-> <<CondTags, StmtTags>>, write_ast |-> <<ExprTags>>,
   odd_cond_ast |-> <<ExprTags>>, bin_cond_ast |-> <<ExprTags, ExprTags>>,
   bin_expr_ast |-> <<ExprTags, ExprTags>>]

\* The nodes that mention an identifier.
NamedTags == ListTags \cup {"assign_ast", "read_ast", "ident_ast"}

\* The lists of declarations may be empty.
MayBeEmpty == {<<"program_ast", 1>>, <<"program_ast", 2>>}

SlotFits(heap, node, k) ==
  \/ node.kids[k] = NULL /\ <<node.tag, k>> \in MayBeEmpty
  \/ /\ node.kids[k] \in 1 .. Len(heap)
     /\ heap[node.kids[k]].tag \in SlotTags[node.tag][k]

\* The successor of a declaration declares too, in the same way, and that of
\* a statement is a statement.
NextFits(heap, node) ==
  \/ node.next = NULL
  \/ /\ node.next \in 1 .. Len(heap)
     /\ \/ node.tag \in ListTags /\ heap[node.next].tag = node.tag
        \/ node.tag \in StmtTags /\ heap[node.next].tag \in StmtTags

WellFormed(heap) ==
  \A p \in 1 .. Len(heap) :
    heap[p].tag # "unset" =>
      /\ heap[p].tag \in DOMAIN SlotTags =>
           \A k \in DOMAIN SlotTags[heap[p].tag] : SlotFits(heap, heap[p], k)
      /\ NextFits(heap, heap[p])
=============================================================================
