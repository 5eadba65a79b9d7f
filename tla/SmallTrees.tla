----------------------------- MODULE SmallTrees -----------------------------
(***************************************************************************)
(* Small programs as trees, for the phases that walk them.  A tree is the  *)
(* sequence of its nodes, whose pointers are indices, with its root last.  *)
(***************************************************************************)
EXTENDS AST

\* The nodes of a tree moved behind b others.
Moved(tree, b) ==
  LET move(p) == IF p = NULL THEN NULL ELSE p + b
  IN  [k \in DOMAIN tree |->
         [tree[k] EXCEPT !.next = move(@),
                         !.kids = [i \in DOMAIN @ |-> move(@[i])]]]

\* The nodes of several trees, and where their roots are.
Joined(trees) ==
  LET join[n \in 0 .. Len(trees)] ==
        IF n = 0 THEN [nodes |-> <<>>, roots |-> <<>>]
        ELSE LET before == join[n - 1].nodes
                 nodes == before \o Moved(trees[n], Len(before))
             IN  [nodes |-> nodes, roots |-> Append(join[n - 1].roots, Len(nodes))]
  IN  join[Len(trees)]

\* The same with the roots linked to a list.
Linked(trees) ==
  LET j == Joined(trees)
      after(p) == {k \in DOMAIN j.roots : k > 1 /\ j.roots[k - 1] = p}
  IN  [j EXCEPT !.nodes =
         [p \in DOMAIN @ |-> IF after(p) = {} THEN @[p]
                             ELSE [@[p] EXCEPT !.next = j.roots[CHOOSE k \in after(p) : TRUE]]]]

First(roots) == IF roots = <<>> THEN NULL ELSE roots[1]

\* The tree of a node and its parts.
Tree(node, parts) ==
  Append(Joined(parts).nodes, [node EXCEPT !.kids = Joined(parts).roots])

-----------------------------------------------------------------------------
T == ZeroToken

Num(n) == <<ast_number(T, n)>>
Id(x) == <<ast_ident(T, x)>>
Bin(op, l, r) == Tree(ast_bin_expr(T, op), <<l, r>>)
Odd(e) == Tree(ast_odd_cond(T), <<e>>)
Rel(op, l, r) == Tree(ast_bin_cond(T, op), <<l, r>>)
Assign(x, e) == Tree(ast_assign_stmt(T, x), <<e>>)
If(c, s1, s2) == Tree(ast_if_stmt(T), <<c, s1, s2>>)
While(c, s) == Tree(ast_while_stmt(T), <<c, s>>)
ReadS(x) == <<ast_read_stmt(T, x)>>
WriteS(e) == Tree(ast_write_stmt(T), <<e>>)
Skip == <<ast_skip_stmt(T)>>
Begin(stmts) ==
  LET l == Linked(stmts) IN Append(l.nodes, [ast_begin_stmt(T) EXCEPT !.kids = <<First(l.roots)>>])

\* The program of the constants cs, the variables vs and a statement, each
\* node at a location of its own.
ProgramOf(cs, vs, stmt) ==
  LET consts == Linked([k \in DOMAIN cs |-> <<ast_const_def(T, cs[k], 1)>>])
      variables == Linked([k \in DOMAIN vs |-> <<ast_var_decl(T, vs[k])>>])
      c == Len(consts.nodes)
      v == Len(variables.nodes)
      firstVar == IF vs = <<>> THEN NULL ELSE c + First(variables.roots)
      nodes == consts.nodes \o Moved(variables.nodes, c) \o Moved(stmt, c + v)
      all == Append(nodes, [ast_program(T) EXCEPT !.kids =
                              <<First(consts.roots), firstVar, Len(nodes)>>])
  IN  [heap |-> [p \in DOMAIN all |-> [all[p] EXCEPT !.loc = p]], root |-> Len(all)]
=============================================================================
