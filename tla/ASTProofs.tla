----------------------------- MODULE ASTProofs -----------------------------
(***************************************************************************)
(* What hangs from each kind of node of a well-formed tree, and where a    *)
(* list ends: lemmas for the proofs about the phases that build the tree   *)
(* and that walk it.                                                       *)
(***************************************************************************)
EXTENDS AST, TLAPS, WellFoundedInduction

TreeOK(h) == h \in Seq(Nodes) /\ WellFormed(h)

\* Slot k of node p points to a node with one of the tags.
Points(h, p, k, tags) == /\ h[p].kids[k] \in 1 .. Len(h)
                         /\ h[h[p].kids[k]].tag \in tags

LEMMA SlotFitsTag ==
  ASSUME NEW h, TreeOK(h), NEW p \in 1 .. Len(h), h[p].tag \in DOMAIN SlotTags,
         NEW k \in DOMAIN SlotTags[h[p].tag]
  PROVE  \/ h[p].kids[k] = NULL /\ <<h[p].tag, k>> \in MayBeEmpty
         \/ Points(h, p, k, SlotTags[h[p].tag][k])
<1>1. h[p].tag # "unset"
  BY DEF SlotTags
<1> QED
  BY <1>1 DEF TreeOK, WellFormed, SlotFits, Points

LEMMA SlotsOfProgram ==
  ASSUME NEW h, TreeOK(h), NEW p \in 1 .. Len(h), h[p].tag = "program_ast"
  PROVE  /\ h[p].kids[1] = NULL \/ Points(h, p, 1, {"const_decl_ast"})
         /\ h[p].kids[2] = NULL \/ Points(h, p, 2, {"var_decl_ast"})
         /\ Points(h, p, 3, StmtTags)
<1>1. /\ h[p].tag \in DOMAIN SlotTags
      /\ SlotTags[h[p].tag] = <<{"const_decl_ast"}, {"var_decl_ast"}, StmtTags>>
  BY DEF SlotTags
<1>2. {1, 2, 3} \subseteq DOMAIN SlotTags[h[p].tag]
  BY <1>1
<1>3. h[p].kids[1] = NULL \/ Points(h, p, 1, {"const_decl_ast"})
  <2>1. 1 \in DOMAIN SlotTags[h[p].tag]
    BY <1>2
  <2>2. SlotTags[h[p].tag][1] = {"const_decl_ast"}
    BY <1>1
  <2>3. \/ h[p].kids[1] = NULL
        \/ Points(h, p, 1, SlotTags[h[p].tag][1])
    BY <1>1, <2>1, SlotFitsTag
  <2> QED
    BY <2>2, <2>3
<1>4. h[p].kids[2] = NULL \/ Points(h, p, 2, {"var_decl_ast"})
  <2>1. 2 \in DOMAIN SlotTags[h[p].tag]
    BY <1>2
  <2>2. SlotTags[h[p].tag][2] = {"var_decl_ast"}
    BY <1>1
  <2>3. \/ h[p].kids[2] = NULL
        \/ Points(h, p, 2, SlotTags[h[p].tag][2])
    BY <1>1, <2>1, SlotFitsTag
  <2> QED
    BY <2>2, <2>3
<1>5. <<h[p].tag, 3>> \notin MayBeEmpty
  BY <1>1 DEF MayBeEmpty
<1>6. Points(h, p, 3, StmtTags)
  BY <1>1, <1>2, <1>5, SlotFitsTag
<1> QED
  BY <1>3, <1>4, <1>6

LEMMA SlotsOfIf ==
  ASSUME NEW h, TreeOK(h), NEW p \in 1 .. Len(h), h[p].tag = "if_ast"
  PROVE  Points(h, p, 1, CondTags) /\ Points(h, p, 2, StmtTags) /\ Points(h, p, 3, StmtTags)
<1>1. /\ h[p].tag \in DOMAIN SlotTags
      /\ SlotTags[h[p].tag] = <<CondTags, StmtTags, StmtTags>>
  BY DEF SlotTags
<1>2. {1, 2, 3} \subseteq DOMAIN SlotTags[h[p].tag]
  BY <1>1
<1>3. \A k \in 1 .. 3 : <<h[p].tag, k>> \notin MayBeEmpty
  BY DEF MayBeEmpty
<1> QED
  BY <1>1, <1>2, <1>3, SlotFitsTag

LEMMA SlotsOfWhile ==
  ASSUME NEW h, TreeOK(h), NEW p \in 1 .. Len(h), h[p].tag = "while_ast"
  PROVE  Points(h, p, 1, CondTags) /\ Points(h, p, 2, StmtTags)
<1>1. /\ h[p].tag \in DOMAIN SlotTags
      /\ SlotTags[h[p].tag] = <<CondTags, StmtTags>>
  BY DEF SlotTags
<1>2. {1, 2} \subseteq DOMAIN SlotTags[h[p].tag]
  BY <1>1
<1>3. \A k \in 1 .. 2 : <<h[p].tag, k>> \notin MayBeEmpty
  BY DEF MayBeEmpty
<1> QED
  BY <1>1, <1>2, <1>3, SlotFitsTag

LEMMA SlotsOfBinary ==
  ASSUME NEW h, TreeOK(h), NEW p \in 1 .. Len(h),
         h[p].tag \in {"bin_cond_ast", "bin_expr_ast"}
  PROVE  Points(h, p, 1, ExprTags) /\ Points(h, p, 2, ExprTags)
<1>1. /\ h[p].tag \in DOMAIN SlotTags
      /\ SlotTags[h[p].tag] = <<ExprTags, ExprTags>>
  BY DEF SlotTags
<1>2. {1, 2} \subseteq DOMAIN SlotTags[h[p].tag]
  BY <1>1
<1>3. \A k \in 1 .. 2 : <<h[p].tag, k>> \notin MayBeEmpty
  BY DEF MayBeEmpty
<1> QED
  BY <1>1, <1>2, <1>3, SlotFitsTag

LEMMA SlotsOfUnary ==
  ASSUME NEW h, TreeOK(h), NEW p \in 1 .. Len(h)
  PROVE  /\ h[p].tag = "begin_ast" => Points(h, p, 1, StmtTags)
         /\ h[p].tag \in {"assign_ast", "write_ast", "odd_cond_ast"} =>
              Points(h, p, 1, ExprTags)
BY DEF TreeOK, WellFormed, SlotFits, SlotTags, MayBeEmpty, Points

\* What follows a node in a list.
LEMMA NextSlot ==
  ASSUME NEW h, TreeOK(h), NEW p \in 1 .. Len(h),
         h[p].tag \in ListTags \cup StmtTags
  PROVE  \/ h[p].next = NULL
         \/ /\ h[p].next \in 1 .. Len(h)
            /\ \/ h[p].tag \in ListTags /\ h[h[p].next].tag = h[p].tag
               \/ h[p].tag \in StmtTags /\ h[h[p].next].tag \in StmtTags
BY DEF TreeOK, WellFormed, NextFits, ListTags, StmtTags
-----------------------------------------------------------------------------
(* Where a list ends.                                                      *)

\* Induction up to n on a set.
LEMMA Upward ==
  ASSUME NEW n \in Nat, NEW S, 0 \in S, \A k \in 0 .. n - 1 : k \in S => k + 1 \in S
  PROVE  \A k \in 0 .. n : k \in S
<1> DEFINE T == (0 .. n) \ S
<1> SUFFICES ASSUME T # {}
             PROVE  FALSE
  OBVIOUS
<1>1. T \subseteq Nat
  OBVIOUS
<1>2. PICK x \in T : \A y \in T : ~(<<y, x>> \in OpToRel(<, Nat))
  <2> HIDE DEF T
  <2> QED
    BY <1>1, NatLessThanWellFounded, WFMin
<1>3. \A y \in T : ~(y < x)
  BY <1>1, <1>2 DEF OpToRel
<1>4. x - 1 \in 0 .. n - 1 /\ x - 1 \notin T
  BY <1>3
<1> QED
  BY <1>4

\* A node is linked only to nodes allocated after it.
Forward(h) == \A p \in 1 .. Len(h) : h[p].next = NULL \/ h[p].next \in p + 1 .. Len(h)

\* The equation of the loop, for the pointers of D.
LastIn(h, D, f) ==
  f = [p \in D |-> IF ast_list_is_empty(p) \/ ast_list_is_empty(ast_list_rest(h, p)) THEN p
                   ELSE f[ast_list_rest(h, p)]]

\* The loop of ast_list_last_elem has a result for every list.
LEMMA LastExists ==
  ASSUME NEW h, Len(h) \in Nat, Forward(h)
  PROVE  \E f : LastIn(h, 0 .. Len(h), f)
<1> DEFINE n == Len(h)
           S == {k \in 0 .. n : \E f : LastIn(h, n - k .. n, f)}
<1>1. 0 \in S
  <2>1. n - 0 .. n = {n}
    OBVIOUS
  <2>2. LastIn(h, {n}, [p \in {n} |-> n])
    <3>1. n = 0 \/ h[n].next = NULL
      BY DEF Forward
    <3> QED
      BY <3>1 DEF LastIn, ast_list_is_empty, ast_list_rest, NULL
  <2> QED
    BY <2>1, <2>2
<1>2. ASSUME NEW k \in 0 .. n - 1, k \in S
      PROVE  k + 1 \in S
  <2>1. PICK f : LastIn(h, n - k .. n, f)
    BY <1>2
  <2> DEFINE q == n - k - 1
             D == n - k .. n
             E == n - (k + 1) .. n
             v == IF ast_list_is_empty(q) \/ ast_list_is_empty(ast_list_rest(h, q)) THEN q
                  ELSE f[ast_list_rest(h, q)]
             g == [p \in E |-> IF p \in D THEN f[p] ELSE v]
  <2>2. /\ \A p \in E : p \in D \/ p = q
        /\ D \subseteq E /\ q \in E /\ q \notin D
        /\ q \in 0 .. n
    OBVIOUS
  <2>3. ASSUME NEW p \in E, ~ast_list_is_empty(p), ~ast_list_is_empty(ast_list_rest(h, p))
        PROVE  ast_list_rest(h, p) \in D
    BY <2>3 DEF Forward, ast_list_is_empty, ast_list_rest, NULL
  <2>4. LastIn(h, E, g)
    <3>1. ASSUME NEW p \in D
          PROVE  g[p] = IF ast_list_is_empty(p) \/ ast_list_is_empty(ast_list_rest(h, p)) THEN p
                        ELSE g[ast_list_rest(h, p)]
      <4> HIDE DEF D, E, q
      <4>1. g[p] = f[p]
        BY <2>2
      <4>2. f[p] = IF ast_list_is_empty(p) \/ ast_list_is_empty(ast_list_rest(h, p)) THEN p
                   ELSE f[ast_list_rest(h, p)]
        BY <2>1 DEF LastIn, D
      <4> QED
        BY <2>2, <2>3, <4>1, <4>2
    <3>2. g[q] = IF ast_list_is_empty(q) \/ ast_list_is_empty(ast_list_rest(h, q)) THEN q
                 ELSE g[ast_list_rest(h, q)]
      <4> HIDE DEF D, E, q
      <4> QED
        BY <2>2, <2>3
    <3> HIDE DEF D, q, v
    <3> QED
      BY <2>2, <3>1, <3>2 DEF LastIn
  <2> HIDE DEF g
  <2> QED
    BY <2>4
<1>3. \A k \in 0 .. n : k \in S
  <2> HIDE DEF S
  <2> QED
    BY <1>1, <1>2, Upward
<1>4. n \in S
  BY <1>3
<1>5. n - n .. n = 0 .. n
  OBVIOUS
<1> QED
  BY <1>4, <1>5

\* Where the loop ends: at an element of the list that has no successor.
LEMMA LastElem ==
  ASSUME NEW h, Len(h) \in Nat, Forward(h), NEW T, NEW lst \in 1 .. Len(h),
         lst \in T, \A p \in T \cap (1 .. Len(h)) : h[p].next \in T \cup {NULL}
  PROVE  /\ ast_list_last_elem(h, lst) \in lst .. Len(h)
         /\ ast_list_last_elem(h, lst) \in T
         /\ h[ast_list_last_elem(h, lst)].next = NULL
<1> DEFINE n == Len(h)
           F == CHOOSE f : LastIn(h, 0 .. n, f)
           Ends(p) == p \in T => F[p] \in p .. n /\ F[p] \in T /\ h[F[p]].next = NULL
           S == {k \in 0 .. n : \A p \in n - k .. n : p # 0 => Ends(p)}
<1>1. LastIn(h, 0 .. n, F)
  BY LastExists
<1>2. \A p \in T : ast_list_last_elem(h, p) = F[p]
  BY DEF ast_list_last_elem, LastIn
<1>3. ASSUME NEW p \in 1 .. n
      PROVE  F[p] = IF h[p].next = NULL THEN p ELSE F[h[p].next]
  <2> HIDE DEF F
  <2> QED
    BY <1>1, <1>3 DEF LastIn, ast_list_is_empty, ast_list_rest, NULL
<1>4. 0 \in S
  <2> SUFFICES ASSUME n # 0
               PROVE  Ends(n)
    <3> HIDE DEF Ends
    <3> QED
      OBVIOUS
  <2>1. h[n].next = NULL
    BY DEF Forward
  <2> HIDE DEF F
  <2> QED
    BY <1>3, <2>1
<1>5. ASSUME NEW k \in 0 .. n - 1, k \in S
      PROVE  k + 1 \in S
  <2> DEFINE q == n - (k + 1)
  <2> SUFFICES ASSUME q # 0
               PROVE  Ends(q)
    <3> HIDE DEF Ends
    <3> QED
      BY <1>5
  <2>1. q \in 1 .. n
    OBVIOUS
  <2>2. h[q].next = NULL \/ h[q].next \in q + 1 .. n
    BY <2>1 DEF Forward
  <2>3. CASE h[q].next = NULL
    <3> HIDE DEF F, q
    <3> QED
      BY <1>3, <2>1, <2>3
  <2>4. CASE h[q].next # NULL
    <3>1. F[q] = F[h[q].next]
      <4> HIDE DEF F, q
      <4> QED
        BY <1>3, <2>1, <2>4
    <3>2. Ends(h[q].next)
      <4>1. h[q].next \in n - k .. n /\ h[q].next # 0
        <5> HIDE DEF F
        <5> QED
          BY <2>2, <2>4 DEF NULL
      <4> HIDE DEF Ends, q
      <4> QED
        BY <1>5, <4>1
    <3> HIDE DEF F, q
    <3> QED
      BY <2>1, <2>2, <2>4, <3>1, <3>2
  <2> QED
    BY <2>3, <2>4
<1>6. \A k \in 0 .. n : k \in S
  <2> HIDE DEF S
  <2> QED
    BY <1>4, <1>5, Upward
<1>7. Ends(lst)
  <2>1. n - lst \in S /\ lst \in n - (n - lst) .. n
    BY <1>6
  <2> HIDE DEF Ends
  <2> QED
    BY <2>1
<1>8. ast_list_last_elem(h, lst) = F[lst]
  BY <1>2
<1> HIDE DEF F
<1> QED
  BY <1>7, <1>8

-----------------------------------------------------------------------------
(* What holds a node.  roots are pointers that are not in the heap; those  *)
(* of a node whose tag is not set do not count.                            *)

KeptIn(h) == {p \in 1 .. Len(h) : h[p].tag # "unset"}

\* The k-th kid of node p, for k = 0 its next, or the k-th root, is node q.
Holds(h, roots, p, k, q) ==
  /\ q # NULL
  /\ \/ p = 0 /\ k \in 1 .. Len(roots) /\ q = roots[k]
     \/ p \in KeptIn(h) /\ k = 0 /\ q = h[p].next
     \/ p \in KeptIn(h) /\ k \in 1 .. Len(h[p].kids) /\ q = h[p].kids[k]

\* Each node is held exactly once, and no node is held whose tag is not set.
Whole(h, roots) ==
  /\ \A p, k, q : Holds(h, roots, p, k, q) => q \in KeptIn(h)
  /\ \A q \in KeptIn(h) : \E p, k : Holds(h, roots, p, k, q)
  /\ \A p, k, m, l, q :
       Holds(h, roots, p, k, q) /\ Holds(h, roots, m, l, q) => p = m /\ k = l

LEMMA SameWhole ==
  ASSUME NEW h, NEW x, NEW g, NEW y, KeptIn(g) = KeptIn(h),
         \A p, k, q : Holds(g, y, p, k, q) <=> Holds(h, x, p, k, q),
         Whole(h, x)
  PROVE  Whole(g, y)
BY DEF Whole

\* One pointer moves from (a, b) to (c, d), which was free.
LEMMA MovedWhole ==
  ASSUME NEW h, NEW x, NEW g, NEW y, KeptIn(g) = KeptIn(h),
         NEW a, NEW b, NEW c, NEW d,
         \A q : ~Holds(h, x, c, d, q),
         \A p, k, q : Holds(g, y, p, k, q) <=>
                        \/ Holds(h, x, p, k, q) /\ ~(p = a /\ k = b)
                        \/ p = c /\ k = d /\ Holds(h, x, a, b, q),
         Whole(h, x)
  PROVE  Whole(g, y)
<1>1. \A p, k, q : Holds(g, y, p, k, q) => q \in KeptIn(g)
  BY DEF Whole
<1>2. \A q \in KeptIn(g) : \E p, k : Holds(g, y, p, k, q)
  <2> TAKE q \in KeptIn(g)
  <2>1. PICK p, k : Holds(h, x, p, k, q)
    BY DEF Whole
  <2> QED
    BY <2>1
<1>3. ASSUME NEW p, NEW k, NEW m, NEW l, NEW q,
             Holds(g, y, p, k, q), Holds(g, y, m, l, q)
      PROVE  p = m /\ k = l
  <2>1. \A i, j, e, f : Holds(h, x, i, j, q) /\ Holds(h, x, e, f, q) => i = e /\ j = f
    BY DEF Whole
  <2> QED
    BY <1>3, <2>1
<1> QED
  BY <1>1, <1>2, <1>3 DEF Whole

\* A NULL pointer holds nothing.
LEMMA NullRoot ==
  ASSUME NEW h, NEW x \in Seq(Nat)
  PROVE  Whole(h, Append(x, NULL)) <=> Whole(h, x)
<1>1. ASSUME NEW p, NEW k, NEW q
      PROVE  Holds(h, Append(x, NULL), p, k, q) <=> Holds(h, x, p, k, q)
  <2> DEFINE y == Append(x, NULL)
             n == Len(x)
  <2>1. /\ n \in Nat /\ Len(y) = n + 1 /\ y[n + 1] = NULL
        /\ \A i \in 1 .. n : y[i] = x[i]
    BY DEF NULL
  <2> HIDE DEF y, n
  <2>2. (k \in 1 .. Len(y) /\ q = y[k] /\ q # NULL) <=> (k \in 1 .. n /\ q = x[k] /\ q # NULL)
    BY <2>1
  <2> QED
    BY <2>2 DEF Holds, y, n
<1> DEFINE z == Append(x, NULL)
<1>2. \A p, k, q : Holds(h, z, p, k, q) <=> Holds(h, x, p, k, q)
  BY <1>1
<1> HIDE DEF z
<1>3. Whole(h, z) <=> Whole(h, x)
  BY <1>2, SameWhole
<1> QED
  BY <1>3 DEF z

\* The roots on top of some others.
LEMMA RootsOnTop ==
  ASSUME NEW h, NEW x \in Seq(Nat), NEW r \in Nat, NEW p, NEW k, NEW q
  PROVE  Holds(h, Append(x, r), p, k, q) <=>
           \/ Holds(h, x, p, k, q)
           \/ p = 0 /\ k = Len(x) + 1 /\ q = r /\ q # NULL
<1> DEFINE y == Append(x, r)
           n == Len(x)
<1>1. /\ n \in Nat /\ Len(y) = n + 1 /\ y[n + 1] = r
      /\ \A i \in 1 .. n : y[i] = x[i]
  OBVIOUS
<1> HIDE DEF y, n
<1>2. k \in 1 .. Len(y) /\ q = y[k] <=> (k \in 1 .. n /\ q = x[k]) \/ (k = n + 1 /\ q = r)
  BY <1>1
<1>3. Holds(h, y, p, k, q) <=>
           \/ Holds(h, x, p, k, q)
           \/ p = 0 /\ k = n + 1 /\ q = r /\ q # NULL
  BY <1>2 DEF Holds, n
<1> QED
  BY <1>3 DEF y, n

\* The latest of three roots becomes the first, which was NULL.
LEMMA RootMoves ==
  ASSUME NEW h, NEW x \in Seq(Nat), NEW r \in Nat,
         Whole(h, Append(Append(Append(x, NULL), NULL), r))
  PROVE  Whole(h, Append(x, r))
<1> DEFINE n == Len(x)
           u == Append(Append(x, NULL), NULL)
           z == Append(u, r)
           y == Append(x, r)
<1>1. /\ n \in Nat /\ u \in Seq(Nat) /\ Len(u) = n + 2
  BY DEF NULL
<1>2. ASSUME NEW p, NEW k, NEW q
      PROVE  Holds(h, u, p, k, q) <=> Holds(h, x, p, k, q)
  <2>1. NULL \in Nat /\ Append(x, NULL) \in Seq(Nat)
    BY DEF NULL
  <2>2. Holds(h, u, p, k, q) <=> Holds(h, Append(x, NULL), p, k, q)
    BY <2>1, RootsOnTop
  <2>3. Holds(h, Append(x, NULL), p, k, q) <=> Holds(h, x, p, k, q)
    BY <2>1, RootsOnTop
  <2> QED
    BY <2>2, <2>3
<1> HIDE DEF u
<1>3. ASSUME NEW p, NEW k, NEW q
      PROVE  Holds(h, z, p, k, q) <=> \/ Holds(h, x, p, k, q)
                                      \/ p = 0 /\ k = n + 3 /\ q = r /\ q # NULL
  <2>1. Len(u) + 1 = n + 3
    BY <1>1
  <2> QED
    BY <1>1, <1>2, <2>1, RootsOnTop
<1>4. ASSUME NEW p, NEW k, NEW q
      PROVE  Holds(h, y, p, k, q) <=> \/ Holds(h, x, p, k, q)
                                      \/ p = 0 /\ k = n + 1 /\ q = r /\ q # NULL
  BY RootsOnTop
<1>5. \A q : ~Holds(h, x, 0, n + 1, q) /\ ~Holds(h, x, 0, n + 3, q)
  <2>1. 0 \notin KeptIn(h)
    BY DEF KeptIn
  <2>2. n + 1 \notin 1 .. Len(x) /\ n + 3 \notin 1 .. Len(x)
    BY <1>1
  <2> QED
    BY <2>1, <2>2 DEF Holds
<1>6. Whole(h, z)
  BY DEF u
<1> HIDE DEF y, z
<1>7. n + 1 # n + 3
  BY <1>1
<1> HIDE DEF n
<1>8. \A q : ~Holds(h, z, 0, n + 1, q)
  BY <1>3, <1>5, <1>7
<1>9. \A q : Holds(h, z, 0, n + 3, q) <=> q = r /\ q # NULL
  BY <1>3, <1>5
<1>10. \A p, k, q : Holds(h, y, p, k, q) <=>
                      \/ Holds(h, z, p, k, q) /\ ~(p = 0 /\ k = n + 3)
                      \/ p = 0 /\ k = n + 1 /\ Holds(h, z, 0, n + 3, q)
  BY <1>3, <1>4, <1>5, <1>9
<1>11. Whole(h, y)
  BY <1>6, <1>8, <1>10, MovedWhole
<1> QED
  BY <1>11 DEF y

\* Splicing a list at the end of another moves it from a root to a next.
LEMMA SpliceWhole ==
  ASSUME NEW h \in Seq(Nodes), NEW x \in Seq(Nat), NEW last \in KeptIn(h),
         h[last].next = NULL, NEW tail \in Nat, Whole(h, Append(x, tail))
  PROVE  Whole(ast_list_splice(h, last, tail), x)
<1> DEFINE g == ast_list_splice(h, last, tail)
           n == Len(x)
           z == Append(x, tail)
<1>1. /\ Len(h) \in Nat /\ n \in Nat /\ last \in 1 .. Len(h) /\ last # 0
      /\ \A p \in 1 .. Len(h) : h[p] \in Nodes
  BY DEF KeptIn
<1>2. g = [h EXCEPT ![last] = [h[last] EXCEPT !.next = tail]]
  BY DEF ast_list_splice
<1>3. /\ [h[last] EXCEPT !.next = tail] \in Nodes
      /\ [h[last] EXCEPT !.next = tail].next = tail
      /\ [h[last] EXCEPT !.next = tail].tag = h[last].tag
      /\ [h[last] EXCEPT !.next = tail].kids = h[last].kids
  BY <1>1 DEF Nodes
<1>4. /\ Len(g) = Len(h) /\ g[last].next = tail
      /\ \A p \in 1 .. Len(h) : /\ g[p].tag = h[p].tag /\ g[p].kids = h[p].kids
                                /\ p # last => g[p].next = h[p].next
  <2>1. Len(g) = Len(h) /\ g[last] = [h[last] EXCEPT !.next = tail]
    BY <1>1, <1>2, <1>3
  <2>2. \A p \in 1 .. Len(h) : p # last => g[p] = h[p]
    BY <1>1, <1>2
  <2> HIDE DEF g
  <2> QED
    BY <1>3, <2>1, <2>2
<1> HIDE DEF g
<1>5. KeptIn(g) = KeptIn(h)
  BY <1>4 DEF KeptIn
<1>6. ASSUME NEW p, NEW k, NEW q
      PROVE  Holds(g, x, p, k, q) <=> \/ Holds(h, x, p, k, q)
                                      \/ p = last /\ k = 0 /\ q = tail /\ q # NULL
  <2>1. \A i \in KeptIn(h) : i \in 1 .. Len(h)
    BY DEF KeptIn
  <2>2. CASE p = last
    <3>1. p # 0 /\ p \in KeptIn(h) /\ g[p].next = tail /\ h[p].next = NULL /\ g[p].kids = h[p].kids
      BY <1>1, <1>4, <2>2
    <3> QED
      BY <1>5, <2>2, <3>1 DEF Holds
  <2>3. CASE p # last
    BY <1>4, <1>5, <2>1, <2>3 DEF Holds
  <2> QED
    BY <2>2, <2>3
<1>7. ASSUME NEW p, NEW k, NEW q
      PROVE  Holds(h, z, p, k, q) <=> \/ Holds(h, x, p, k, q)
                                      \/ p = 0 /\ k = n + 1 /\ q = tail /\ q # NULL
  BY RootsOnTop
<1>8. \A q : ~Holds(h, x, 0, n + 1, q)
  <2>1. 0 \notin KeptIn(h) /\ n + 1 \notin 1 .. Len(x)
    BY <1>1 DEF KeptIn
  <2> QED
    BY <2>1 DEF Holds
<1>9. \A q : ~Holds(h, x, last, 0, q)
  <2>1. 0 \notin 1 .. Len(h[last].kids)
    <3>1. Len(h[last].kids) \in Nat
      BY <1>1 DEF Nodes
    <3> QED
      BY <3>1
  <2> QED
    BY <1>1, <2>1 DEF Holds
<1>10. Whole(h, z)
  OBVIOUS
<1> HIDE DEF z, n
<1>11. \A q : ~Holds(h, z, last, 0, q)
  BY <1>1, <1>7, <1>9
<1>12. \A q : Holds(h, z, 0, n + 1, q) <=> q = tail /\ q # NULL
  BY <1>7, <1>8
<1>13. \A p, k, q : Holds(g, x, p, k, q) <=>
                      \/ Holds(h, z, p, k, q) /\ ~(p = 0 /\ k = n + 1)
                      \/ p = last /\ k = 0 /\ Holds(h, z, 0, n + 1, q)
  BY <1>6, <1>7, <1>8, <1>12
<1>14. Whole(g, x)
  BY ONLY <1>5, <1>10, <1>11, <1>13, MovedWhole
<1> QED
  BY <1>14 DEF g

\* Changing anything but tags and pointers.
LEMMA UpdateWhole ==
  ASSUME NEW h, NEW g, NEW x, Len(g) = Len(h),
         \A p \in 1 .. Len(h) : g[p].tag = h[p].tag /\ g[p].kids = h[p].kids /\ g[p].next = h[p].next,
         Whole(h, x)
  PROVE  Whole(g, x)
<1>1. KeptIn(g) = KeptIn(h)
  BY DEF KeptIn
<1>2. \A p \in KeptIn(h) : p \in 1 .. Len(h)
  BY DEF KeptIn
<1>3. \A p, k, q : Holds(g, x, p, k, q) <=> Holds(h, x, p, k, q)
  BY <1>1, <1>2 DEF Holds
<1> QED
  BY <1>1, <1>3, SameWhole

\* A node whose tag is not set holds nothing and is not held.
LEMMA PairWhole ==
  ASSUME NEW h \in Seq(Nodes), NEW x, NEW node, node.tag = "unset", Whole(h, x)
  PROVE  Whole(Append(h, node), x)
<1> DEFINE g == Append(h, node)
<1>1. /\ Len(h) \in Nat /\ Len(g) = Len(h) + 1 /\ g[Len(h) + 1] = node
      /\ \A p \in 1 .. Len(h) : g[p] = h[p]
  OBVIOUS
<1> HIDE DEF g
<1>2. KeptIn(g) = KeptIn(h)
  BY <1>1 DEF KeptIn
<1>3. \A p \in KeptIn(h) : g[p] = h[p]
  BY <1>1 DEF KeptIn
<1>4. \A p, k, q : Holds(g, x, p, k, q) <=> Holds(h, x, p, k, q)
  BY <1>2, <1>3 DEF Holds
<1>5. Whole(g, x)
  BY <1>2, <1>4, SameWhole
<1> QED
  BY <1>5 DEF g

\* A new node holds what the roots held that it takes, and is a root itself.
LEMMA NodeWhole ==
  ASSUME NEW h \in Seq(Nodes), NEW x \in Seq(Nat), NEW node,
         node.tag # "unset", node.next = NULL, node.kids \in Seq(Nat),
         Whole(h, x \o node.kids)
  PROVE  Whole(Append(h, node), Append(x, Len(h) + 1))
<1> DEFINE g == Append(h, node)
           n == Len(x)
           e == Len(h) + 1
           ks == node.kids
           a == Len(ks)
           z == x \o ks
           y == Append(x, e)
<1>1. /\ Len(h) \in Nat /\ Len(g) = e /\ g[e] = node /\ e \in Nat /\ e # NULL /\ e # 0
      /\ \A p \in 1 .. Len(h) : g[p] = h[p]
  BY DEF NULL
<1>2. n \in Nat /\ a \in Nat
  OBVIOUS
<1>3. Len(z) = n + a /\ \A i \in 1 .. n + a : z[i] = IF i <= n THEN x[i] ELSE ks[i - n]
  OBVIOUS
<1>4. Whole(h, z)
  OBVIOUS
<1>5. \A p, k, q : Holds(g, y, p, k, q) <=>
                     \/ Holds(g, x, p, k, q)
                     \/ p = 0 /\ k = n + 1 /\ q = e /\ q # NULL
  BY <1>1, RootsOnTop
<1> HIDE DEF g, z, y
<1>6. KeptIn(g) = KeptIn(h) \cup {e} /\ e \notin KeptIn(h) /\ 0 \notin KeptIn(g)
  <2>1. 1 .. Len(g) = (1 .. Len(h)) \cup {e} /\ e \notin 1 .. Len(h)
    BY <1>1
  <2> HIDE DEF e
  <2> QED
    BY <1>1, <2>1 DEF KeptIn
<1>7. \A p \in KeptIn(h) : g[p] = h[p] /\ p # e
  BY <1>1 DEF KeptIn
<1> HIDE DEF e
<1>8. \A p, k, q : Holds(g, x, p, k, q) <=>
                     \/ Holds(h, x, p, k, q)
                     \/ p = e /\ k \in 1 .. a /\ q = ks[k] /\ q # NULL
  BY <1>1, <1>6, <1>7 DEF Holds
<1>9. \A p, k, q : Holds(h, z, p, k, q) <=>
                     \/ Holds(h, x, p, k, q)
                     \/ p = 0 /\ k \in n + 1 .. n + a /\ q = ks[k - n] /\ q # NULL
  <2> TAKE p, k, q
  <2>1. k \in 1 .. n + a /\ q = z[k] <=> \/ k \in 1 .. n /\ q = x[k]
                                         \/ k \in n + 1 .. n + a /\ q = ks[k - n]
    BY <1>2, <1>3
  <2> HIDE DEF a
  <2> QED
    BY <1>3, <2>1 DEF Holds, n
<1>10. \A k, q : Holds(h, x, 0, k, q) => k \in 1 .. n
  BY <1>6 DEF Holds, n
<1>11. \A k, q : ~Holds(h, x, e, k, q)
  BY <1>1, <1>6 DEF Holds
<1>12. \A p, k, q : Holds(h, z, p, k, q) => q \in KeptIn(h)
  BY <1>4 DEF Whole
<1> HIDE DEF ks, n, a
<1>13. \A k \in 1 .. a : n + k \in n + 1 .. n + a /\ (n + k) - n = k /\ n + k \notin 1 .. n
  BY <1>2
<1>14. \A p, k, q : Holds(g, y, p, k, q) <=>
                      \/ Holds(h, x, p, k, q)
                      \/ p = e /\ k \in 1 .. a /\ Holds(h, z, 0, n + k, q)
                      \/ p = 0 /\ k = n + 1 /\ q = e
  <2>1. \A k \in 1 .. a : \A q : Holds(h, z, 0, n + k, q) <=> q = ks[k] /\ q # NULL
    BY <1>9, <1>10, <1>13
  <2> TAKE p, k, q
  <2>2. p = e /\ k \in 1 .. a => (q = ks[k] /\ q # NULL <=> Holds(h, z, 0, n + k, q))
    BY ONLY <2>1
  <2>3. e # NULL
    BY <1>1
  <2>4. Holds(g, y, p, k, q) <=>
          \/ Holds(h, x, p, k, q)
          \/ p = e /\ k \in 1 .. a /\ q = ks[k] /\ q # NULL
          \/ p = 0 /\ k = n + 1 /\ q = e /\ q # NULL
    BY ONLY <1>5, <1>8
  <2> QED
    BY ONLY <2>2, <2>3, <2>4
<1>15. \A p, k, q : Holds(g, y, p, k, q) => q \in KeptIn(g)
  <2>1. \A p, k, q : Holds(h, x, p, k, q) => q \in KeptIn(h)
    BY <1>9, <1>12
  <2> QED
    BY <1>6, <1>12, <1>14, <2>1
<1>16. \A q \in KeptIn(g) : \E p, k : Holds(g, y, p, k, q)
  <2> TAKE q \in KeptIn(g)
  <2>1. CASE q = e
    BY <1>14, <2>1
  <2>2. CASE q \in KeptIn(h)
    <3>1. PICK p, k : Holds(h, z, p, k, q)
      BY <1>4, <2>2 DEF Whole
    <3>2. CASE Holds(h, x, p, k, q)
      BY <1>14, <3>2
    <3>3. CASE p = 0 /\ k \in n + 1 .. n + a
      <4>1. k - n \in 1 .. a /\ n + (k - n) = k
        BY <1>2, <3>3
      <4>2. Holds(g, y, e, k - n, q)
        BY <1>14, <3>1, <3>3, <4>1
      <4> QED
        BY <4>2
    <3> QED
      BY <1>9, <3>1, <3>2, <3>3
  <2> QED
    BY <1>6, <2>1, <2>2
<1>17. ASSUME NEW p, NEW k, NEW m, NEW l, NEW q,
              Holds(g, y, p, k, q), Holds(g, y, m, l, q)
       PROVE  p = m /\ k = l
  <2>1. \A i, j, u, v : Holds(h, z, i, j, q) /\ Holds(h, z, u, v, q) => i = u /\ j = v
    BY <1>4 DEF Whole
  <2>2. CASE q = e
    <3>1. \A i, j : ~Holds(h, z, i, j, q)
      BY <1>6, <1>12, <2>2
    <3>2. \A i, j : ~Holds(h, x, i, j, q)
      BY <1>9, <3>1
    <3> QED
      BY <1>14, <1>17, <3>1, <3>2
  <2>3. CASE q # e
    <3>1. \A i, j : Holds(h, x, i, j, q) => Holds(h, z, i, j, q)
      BY <1>9
    <3>2. CASE Holds(h, x, p, k, q) /\ Holds(h, x, m, l, q)
      BY <2>1, <3>1, <3>2
    <3>3. ASSUME NEW i, NEW j, NEW f, Holds(h, x, i, j, q), f \in 1 .. a,
                 Holds(h, z, 0, n + f, q)
          PROVE  FALSE
      <4>1. i = 0 /\ j = n + f
        BY <2>1, <3>1, <3>3
      <4> QED
        BY <1>10, <1>13, <3>3, <4>1
    <3>4. CASE /\ p = e /\ k \in 1 .. a /\ Holds(h, z, 0, n + k, q)
               /\ m = e /\ l \in 1 .. a /\ Holds(h, z, 0, n + l, q)
      <4>1. n + k = n + l
        BY <2>1, <3>4
      <4> QED
        BY <1>2, <3>4, <4>1
    <3> QED
      BY <1>14, <1>17, <2>3, <3>2, <3>3, <3>4
  <2> QED
    BY <2>2, <2>3
<1>18. Whole(g, y)
  BY <1>15, <1>16, <1>17 DEF Whole
<1> QED
  BY <1>18 DEF g, y, e
-----------------------------------------------------------------------------
(* Where the pointers of a heap lead.                                      *)

\* The pointers of node p.
LinksOf(h, p) ==
  {h[p].next} \cup
    (IF h[p].tag \in DOMAIN SlotTags
     THEN {h[p].kids[k] : k \in DOMAIN SlotTags[h[p].tag]} ELSE {})

\* A pointer from node p leads to a node of lower rank, or is NULL.
Lower(h, r, p, q) == q = NULL \/ (q \in 1 .. Len(h) /\ r[q] < r[p])
Ranked(h, r) == \A p \in 1 .. Len(h) : \A q \in LinksOf(h, p) : Lower(h, r, p, q)

\* No way along the pointers of a heap comes back to where it was.
Acyclic(h) == \E b \in Nat : \E r \in [1 .. Len(h) -> 0 .. b] : Ranked(h, r)

\* Then no list leads out of the heap.
LEMMA AcyclicNext ==
  ASSUME NEW h, Acyclic(h), NEW p \in 1 .. Len(h)
  PROVE  h[p].next = NULL \/ h[p].next \in 1 .. Len(h)
<1>1. h[p].next \in LinksOf(h, p)
  BY DEF LinksOf
<1> QED
  BY <1>1 DEF Acyclic, Ranked, Lower

\* g numbers the trees of a heap: a pointer stays in its tree.
Linked(h, g) ==
  \A p \in 1 .. Len(h) : \A q \in LinksOf(h, p) : q = NULL \/ g[q] = g[p]

Forest(h, b, r, g) ==
  /\ b \in Nat /\ r \in [1 .. Len(h) -> 0 .. b] /\ g \in [1 .. Len(h) -> Nat]
  /\ Ranked(h, r) /\ Linked(h, g)

\* The trees after the n-th become one.
Joined(g, n) == [p \in DOMAIN g |-> IF g[p] > n THEN n + 1 ELSE g[p]]

LEMMA JoinForest ==
  ASSUME NEW h, NEW b, NEW r, NEW g, Forest(h, b, r, g), NEW n \in Nat
  PROVE  /\ Forest(h, b, r, Joined(g, n))
         /\ \A p \in 1 .. Len(h) : Joined(g, n)[p] = IF g[p] > n THEN n + 1 ELSE g[p]
<1> DEFINE d == Joined(g, n)
<1>1. g \in [1 .. Len(h) -> Nat] /\ \A p \in 1 .. Len(h) : g[p] \in Nat
  BY DEF Forest
<1>2. d \in [1 .. Len(h) -> Nat] /\ \A p \in 1 .. Len(h) : d[p] = IF g[p] > n THEN n + 1 ELSE g[p]
  BY <1>1 DEF Joined
<1> HIDE DEF d
<1>3. ASSUME NEW p \in 1 .. Len(h), NEW q \in LinksOf(h, p), q # NULL
      PROVE  d[q] = d[p]
  <2>1. q \in 1 .. Len(h) /\ g[q] = g[p]
    BY <1>3 DEF Forest, Ranked, Lower, Linked
  <2> QED
    BY <1>2, <2>1
<1>4. Linked(h, d)
  BY <1>3 DEF Linked
<1> QED
  BY <1>2, <1>4 DEF Forest, d

\* The nodes that a node's slots point to are in the trees after the n-th.
TakesAfter(h, g, n, node) ==
  node.tag \in DOMAIN SlotTags =>
    \A k \in DOMAIN SlotTags[node.tag] :
      \/ node.kids[k] = NULL
      \/ node.kids[k] \in 1 .. Len(h) /\ g[node.kids[k]] > n

\* With the node the heap is a forest in which those trees and the node are one.
Grown(h, g, n, node) ==
  \E c, s, d :
    /\ Forest(Append(h, node), c, s, d)
    /\ d[Len(h) + 1] = n + 1
    /\ \A p \in 1 .. Len(h) : d[p] = IF g[p] > n THEN n + 1 ELSE g[p]

\* A new node joins the trees it points to, which are the ones after the n-th.
LEMMA AllocForest ==
  ASSUME NEW h \in Seq(Nodes), NEW b, NEW r, NEW g, Forest(h, b, r, g), NEW n \in Nat,
         NEW node \in Nodes, node.next = NULL, TakesAfter(h, g, n, node)
  PROVE  Grown(h, g, n, node)
<1> DEFINE m == Append(h, node)
           e == Len(h) + 1
           s == [p \in 1 .. e |-> IF p = e THEN b + 1 ELSE r[p]]
           d == [p \in 1 .. e |-> IF p = e THEN n + 1 ELSE Joined(g, n)[p]]
<1>1. /\ Len(h) \in Nat /\ Len(m) = e /\ m[e] = node /\ e \in Nat
      /\ \A p \in 1 .. Len(h) : m[p] = h[p]
  OBVIOUS
<1>2. /\ b \in Nat /\ r \in [1 .. Len(h) -> 0 .. b] /\ Ranked(h, r)
      /\ Joined(g, n) \in [1 .. Len(h) -> Nat] /\ Linked(h, Joined(g, n))
      /\ \A p \in 1 .. Len(h) : Joined(g, n)[p] = IF g[p] > n THEN n + 1 ELSE g[p]
  <2> HIDE DEF m, e, s, d
  <2>1. b \in Nat /\ r \in [1 .. Len(h) -> 0 .. b] /\ Ranked(h, r)
    BY DEF Forest
  <2>2. /\ Joined(g, n) \in [1 .. Len(h) -> Nat] /\ Linked(h, Joined(g, n))
        /\ \A p \in 1 .. Len(h) : Joined(g, n)[p] = IF g[p] > n THEN n + 1 ELSE g[p]
    <3>1. /\ Forest(h, b, r, Joined(g, n))
          /\ \A p \in 1 .. Len(h) : Joined(g, n)[p] = IF g[p] > n THEN n + 1 ELSE g[p]
      BY JoinForest
    <3> QED
      BY <3>1 DEF Forest
  <2> QED
    BY <2>1, <2>2
<1>3. \A p \in 1 .. e : p \in 1 .. Len(h) \/ p = e
  BY <1>1
<1>4. e \notin 1 .. Len(h) /\ e \in 1 .. e /\ 1 .. Len(h) \subseteq 1 .. e
  BY <1>1
<1>5. /\ s[e] = b + 1 /\ \A p \in 1 .. Len(h) : s[p] = r[p] /\ r[p] \in 0 .. b
      /\ s \in [1 .. e -> 0 .. b + 1]
  <2>1. \A p \in 1 .. Len(h) : r[p] \in 0 .. b
    BY <1>2
  <2>2. \A p \in 1 .. e : s[p] = IF p = e THEN b + 1 ELSE r[p]
    OBVIOUS
  <2>3. \A p \in 1 .. e : (IF p = e THEN b + 1 ELSE r[p]) \in 0 .. b + 1
    BY <1>2, <1>3, <2>1
  <2> QED
    BY <1>4, <2>1, <2>2, <2>3
<1>6. /\ d[e] = n + 1 /\ d \in [1 .. e -> Nat]
      /\ \A p \in 1 .. Len(h) : d[p] = Joined(g, n)[p] /\ Joined(g, n)[p] \in Nat
  <2>1. \A p \in 1 .. Len(h) : Joined(g, n)[p] \in Nat
    BY <1>2
  <2>2. \A p \in 1 .. e : d[p] = IF p = e THEN n + 1 ELSE Joined(g, n)[p]
    OBVIOUS
  <2>3. \A p \in 1 .. e : (IF p = e THEN n + 1 ELSE Joined(g, n)[p]) \in Nat
    BY <1>3, <2>1
  <2> QED
    BY <1>4, <2>1, <2>2, <2>3
<1> HIDE DEF m, e, s, d
<1>7. ASSUME NEW p \in 1 .. e, NEW q \in LinksOf(m, p), q # NULL
      PROVE  q \in 1 .. e /\ s[q] < s[p] /\ d[q] = d[p]
  <2>1. CASE p \in 1 .. Len(h)
    <3>1. q \in LinksOf(h, p)
      BY <1>1, <2>1 DEF LinksOf
    <3>2. q \in 1 .. Len(h) /\ r[q] < r[p] /\ Joined(g, n)[q] = Joined(g, n)[p]
      BY <1>2, <1>7, <2>1, <3>1 DEF Ranked, Lower, Linked
    <3> QED
      BY <1>4, <1>5, <1>6, <2>1, <3>2
  <2>2. CASE p = e
    <3>1. /\ node.tag \in DOMAIN SlotTags
          /\ \E k \in DOMAIN SlotTags[node.tag] : q = node.kids[k]
      BY <1>1, <1>7, <2>2 DEF LinksOf
    <3>2. q \in 1 .. Len(h) /\ g[q] > n
      BY <1>7, <3>1 DEF TakesAfter
    <3>3. s[q] \in 0 .. b /\ d[q] = n + 1
      BY <1>2, <1>5, <1>6, <3>2
    <3> QED
      BY <1>2, <1>4, <1>5, <1>6, <2>2, <3>2, <3>3
  <2> QED
    BY <1>3, <2>1, <2>2
<1>8. Ranked(m, s) /\ Linked(m, d)
  BY <1>1, <1>7 DEF Ranked, Lower, Linked
<1>9. Forest(m, b + 1, s, d)
  BY <1>1, <1>2, <1>5, <1>6, <1>8 DEF Forest
<1>10. \A p \in 1 .. Len(h) : d[p] = IF g[p] > n THEN n + 1 ELSE g[p]
  BY <1>2, <1>6
<1> QED
  BY <1>6, <1>9, <1>10 DEF Grown, m, e

\* A splice leads from one tree to another, whose ranks may stay below.
LEMMA SpliceForest ==
  ASSUME NEW h, NEW b, NEW r, NEW g, Forest(h, b, r, g), NEW n \in Nat,
         NEW last \in 1 .. Len(h), NEW tail \in 1 .. Len(h),
         g[last] = n + 1, g[tail] > n + 1,
         NEW m, Len(m) = Len(h),
         \A p \in 1 .. Len(h) : LinksOf(m, p) \subseteq
           LinksOf(h, p) \cup (IF p = last THEN {tail} ELSE {})
  PROVE  \E c, s : Forest(m, c, s, Joined(g, n))
<1> DEFINE c == b + b + 1
           s == [p \in 1 .. Len(h) |-> IF g[p] = g[tail] THEN r[p] ELSE r[p] + b + 1]
           d == Joined(g, n)
<1>1. /\ b \in Nat /\ Ranked(h, r) /\ Linked(h, g)
      /\ d \in [1 .. Len(h) -> Nat] /\ Linked(h, d)
      /\ \A p \in 1 .. Len(h) : d[p] = IF g[p] > n THEN n + 1 ELSE g[p]
      /\ \A p \in 1 .. Len(h) : r[p] \in 0 .. b /\ g[p] \in Nat
  BY JoinForest DEF Forest
<1>2. \A p \in 1 .. Len(h) : s[p] = IF g[p] = g[tail] THEN r[p] ELSE r[p] + b + 1
  OBVIOUS
<1>3. s \in [1 .. Len(h) -> 0 .. c]
  BY <1>1
<1> HIDE DEF s, d
<1>4. ASSUME NEW p \in 1 .. Len(h), NEW q \in LinksOf(m, p), q # NULL
      PROVE  q \in 1 .. Len(h) /\ s[q] < s[p] /\ d[q] = d[p]
  <2>1. CASE q \in LinksOf(h, p)
    <3>1. q \in 1 .. Len(h) /\ r[q] < r[p] /\ g[q] = g[p] /\ d[q] = d[p]
      BY <1>1, <1>4, <2>1 DEF Ranked, Lower, Linked
    <3> QED
      BY <1>1, <1>2, <3>1
  <2>2. CASE p = last /\ q = tail
    <3>1. s[tail] = r[tail] /\ s[last] = r[last] + b + 1
      BY <1>1, <1>2
    <3>2. d[last] = n + 1 /\ d[tail] = n + 1
      BY <1>1
    <3> QED
      BY <1>1, <2>2, <3>1, <3>2
  <2>3. q \in LinksOf(h, p) \/ (p = last /\ q = tail)
    BY <1>4
  <2> QED
    BY <2>1, <2>2, <2>3
<1>5. Ranked(m, s) /\ Linked(m, d)
  BY <1>4 DEF Ranked, Lower, Linked
<1>6. Forest(m, c, s, d)
  BY <1>1, <1>3, <1>5 DEF Forest
<1> QED
  BY <1>6 DEF d
=============================================================================
