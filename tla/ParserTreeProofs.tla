-------------------------- MODULE ParserTreeProofs --------------------------
(***************************************************************************)
(* Proofs about the trees the parser builds, for every set of lexemes and  *)
(* every input.                                                            *)
(*                                                                         *)
(* Each instruction has a type: the kinds of pointers it takes from the top*)
(* of vals and those it leaves there.  A computation is well typed when the*)
(* types of its instructions fit together, from the pointers that are in   *)
(* vals now to the single program that parseyParse returns.                *)
(***************************************************************************)
EXTENDS ParserProofs, ASTProofs, SequenceTheorems, FiniteSetTheorems

Consts == {"const_decl_ast"}
Vars == {"var_decl_ast"}
Programs == {"program_ast"}
Pairs == {"unset"}

Roles == {"single", "node", "list", "last", "spent"}
Kinds == [role : Roles, tags : SUBSET AstTags]

Kind(role, tags) == [role |-> role, tags |-> tags]
Single(tags) == Kind("single", tags)   \* a node without successor
First(tags) == Kind("node", tags)      \* a node, the first of a list perhaps
List(tags) == Kind("list", tags)       \* a list that may be empty
Last(tags) == Kind("last", tags)       \* the last element of the list below it
Spent(tags) == Kind("spent", tags)     \* a last element that is not used again

Fits(h, p, k) ==
  \/ p = NULL /\ k.role \in {"list", "last", "spent"}
  \/ /\ p \in 1 .. Len(h)
     /\ h[p].tag \in k.tags
     /\ k.role \in {"single", "last"} => h[p].next = NULL

\* A pointer was allocated before those above it, unless it is the first
\* element of a list and the other the last.
Below(p, k, q, l) ==
  \/ p = NULL \/ q = NULL \/ p < q
  \/ p = q /\ k.role \in {"node", "list"} /\ l.role = "last"

-----------------------------------------------------------------------------
(* Stacks of kinds, and the pointers they stand for.                       *)

Stacks == Seq(Kinds)
Push(s, k) == Append(s, k)

StackOK(h, v, s) ==
  /\ Len(v) = Len(s)
  /\ \A i \in 1 .. Len(v) : Fits(h, v[i], s[i])
  /\ \A i, j \in 1 .. Len(v) : i < j => Below(v[i], s[i], v[j], s[j])
  /\ \A i \in 2 .. Len(v) : s[i].role = "last" => (v[i] = NULL <=> v[i - 1] = NULL)

\* What holds between a new pointer and all those in use.
Beneath(v, s, p, k) == \A i \in 1 .. Len(s) : Below(v[i], s[i], p, k)

LEMMA PushType ==
  ASSUME NEW s \in Stacks, NEW k \in Kinds
  PROVE  /\ Push(s, k) \in Stacks
         /\ Len(Push(s, k)) = Len(s) + 1
         /\ Push(s, k)[Len(s) + 1] = k
         /\ \A i \in 1 .. Len(s) : Push(s, k)[i] = s[i]
BY DEF Push, Stacks

LEMMA PushOK ==
  ASSUME NEW h, NEW v \in Seq(Nat), NEW s \in Stacks, NEW p \in Nat, NEW k \in Kinds,
         StackOK(h, v, s), Fits(h, p, k), Beneath(v, s, p, k),
         k.role = "last" => v # <<>> /\ (p = NULL <=> v[Len(v)] = NULL)
  PROVE  /\ Append(v, p) \in Seq(Nat)
         /\ StackOK(h, Append(v, p), Push(s, k))
<1> DEFINE w == Append(v, p)
           t == Push(s, k)
           n == Len(v)
<1>1. /\ n \in Nat /\ Len(w) = n + 1 /\ w[n + 1] = p
      /\ \A i \in 1 .. n : w[i] = v[i]
  OBVIOUS
<1>10. w \in Seq(Nat)
  OBVIOUS
<1>2. n = Len(s)
  BY DEF StackOK
<1>3. Len(t) = n + 1 /\ t[n + 1] = k /\ \A i \in 1 .. n : t[i] = s[i]
  BY <1>2, PushType
<1>4. v # <<>> => n >= 1
  OBVIOUS
<1>0. \A i \in 1 .. n : Below(v[i], s[i], p, k)
  BY <1>2 DEF Beneath
<1> HIDE DEF w, t, n
<1>5. \A i \in 1 .. Len(w) : Fits(h, w[i], t[i])
  BY <1>1, <1>2, <1>3 DEF StackOK, n
<1>6. \A i, j \in 1 .. Len(w) : i < j => Below(w[i], t[i], w[j], t[j])
  <2> SUFFICES ASSUME NEW i \in 1 .. n + 1, NEW j \in 1 .. n + 1, i < j
               PROVE  Below(w[i], t[i], w[j], t[j])
    BY <1>1
  <2>1. CASE j \in 1 .. n
    BY <1>1, <1>3, <2>1 DEF StackOK, n
  <2>2. CASE j = n + 1
    BY <1>0, <1>1, <1>3, <2>2
  <2> QED
    BY <1>1, <2>1, <2>2
<1>7. \A i \in 2 .. Len(w) : t[i].role = "last" => (w[i] = NULL <=> w[i - 1] = NULL)
  <2> SUFFICES ASSUME NEW i \in 2 .. n + 1, t[i].role = "last"
               PROVE  w[i] = NULL <=> w[i - 1] = NULL
    BY <1>1
  <2>1. CASE i \in 2 .. n
    BY <1>1, <1>3, <2>1 DEF StackOK, n
  <2>2. CASE i = n + 1
    BY <1>1, <1>3, <1>4, <2>2 DEF n
  <2> QED
    BY <1>1, <2>1, <2>2
<1>8. Len(w) = Len(t)
  BY <1>1, <1>3
<1>9. StackOK(h, w, t)
  BY <1>5, <1>6, <1>7, <1>8 DEF StackOK
<1> QED
  BY <1>9, <1>10 DEF w, t

\* Removing the latest pointers.
Prefix(v, n) == SubSeq(v, 1, n)

LEMMA PrefixElements ==
  ASSUME NEW v \in Seq(Nat), NEW n \in 0 .. Len(v)
  PROVE  /\ Prefix(v, n) \in Seq(Nat)
         /\ Len(Prefix(v, n)) = n
         /\ \A i \in 1 .. n : Prefix(v, n)[i] = v[i]
BY DEF Prefix

LEMMA PrefixOK ==
  ASSUME NEW h, NEW v \in Seq(Nat), NEW s \in Stacks, NEW r \in Stacks,
         StackOK(h, v, s), Len(r) <= Len(s), \A i \in 1 .. Len(r) : r[i] = s[i]
  PROVE  /\ Prefix(v, Len(r)) \in Seq(Nat)
         /\ StackOK(h, Prefix(v, Len(r)), r)
<1> DEFINE w == Prefix(v, Len(r))
<1>1. Len(r) \in 0 .. Len(v) /\ Len(s) \in Nat /\ Len(v) = Len(s)
  BY DEF StackOK, Stacks
<1>2. w \in Seq(Nat) /\ Len(w) = Len(r) /\ \A i \in 1 .. Len(r) : w[i] = v[i]
  BY <1>1, PrefixElements
<1> HIDE DEF w
<1>3. \A i \in 1 .. Len(w) : Fits(h, w[i], r[i])
  BY <1>1, <1>2 DEF StackOK
<1>4. \A i, j \in 1 .. Len(w) : i < j => Below(w[i], r[i], w[j], r[j])
  BY <1>1, <1>2 DEF StackOK
<1>5. ASSUME NEW i \in 2 .. Len(w), r[i].role = "last"
      PROVE  w[i] = NULL <=> w[i - 1] = NULL
  <2>1. i \in 1 .. Len(r) /\ i - 1 \in 1 .. Len(r) /\ i \in 2 .. Len(v)
    BY <1>1, <1>2
  <2>2. s[i].role = "last" /\ w[i] = v[i] /\ w[i - 1] = v[i - 1]
    BY <1>2, <1>5, <2>1
  <2> QED
    BY <2>1, <2>2 DEF StackOK
<1>6. StackOK(h, w, r)
  BY <1>2, <1>3, <1>4, <1>5 DEF StackOK
<1> QED
  BY <1>2, <1>6 DEF w

\* The pointers that a step consumes, and those below them.
LEMMA Pop1 ==
  ASSUME NEW h, NEW v \in Seq(Nat), NEW r \in Stacks, NEW a \in Kinds,
         StackOK(h, v, Push(r, a)), NEW n, n = Len(r)
  PROVE  /\ n \in Nat /\ Len(v) = n + 1
         /\ v[n + 1] \in Nat /\ Fits(h, v[n + 1], a)
         /\ Beneath(Prefix(v, n), r, v[n + 1], a)
         /\ a.role = "last" => v[n + 1] = NULL \/ n = 0 \/ v[n] # NULL
         /\ Prefix(v, n) \in Seq(Nat)
         /\ StackOK(h, Prefix(v, n), r)
<1> DEFINE s == Push(r, a)
<1>1. s \in Stacks /\ Len(s) = n + 1 /\ s[n + 1] = a /\ \A i \in 1 .. n : s[i] = r[i]
  BY PushType
<1>2. StackOK(h, v, s)
  OBVIOUS
<1> HIDE DEF s
<1>3. n \in Nat /\ Len(v) = n + 1
  BY <1>1, <1>2 DEF StackOK, Stacks
<1>4. v[n + 1] \in Nat /\ Fits(h, v[n + 1], a)
  BY <1>1, <1>2, <1>3 DEF StackOK
<1>5. Beneath(Prefix(v, n), r, v[n + 1], a)
  <2>1. \A i \in 1 .. n : Below(v[i], r[i], v[n + 1], a)
    BY <1>1, <1>2, <1>3 DEF StackOK
  <2>2. \A i \in 1 .. n : Prefix(v, n)[i] = v[i]
    <3>1. n \in 0 .. Len(v)
      BY <1>3
    <3> QED
      BY <3>1, PrefixElements
  <2> QED
    BY <2>1, <2>2 DEF Beneath
<1>6. ASSUME a.role = "last"
      PROVE  v[n + 1] = NULL \/ n = 0 \/ v[n] # NULL
  <2>1. CASE n > 0
    <3>1. n + 1 \in 2 .. Len(v) /\ n + 1 - 1 = n
      BY <1>3, <2>1
    <3> QED
      BY <1>1, <1>2, <1>6, <3>1 DEF StackOK
  <2> QED
    BY <1>3, <2>1
<1>7. Prefix(v, n) \in Seq(Nat) /\ StackOK(h, Prefix(v, n), r)
  <2>1. Len(r) <= Len(s) /\ \A i \in 1 .. Len(r) : r[i] = s[i]
    BY <1>1, <1>3
  <2> QED
    BY <1>1, <1>2, <2>1, PrefixOK
<1> QED
  BY <1>3, <1>4, <1>5, <1>6, <1>7

\* Prefix of a prefix, for the pointers that several pops leave.
LEMMA PrefixOfPrefix ==
  ASSUME NEW v \in Seq(Nat), NEW m \in 0 .. Len(v), NEW n \in 0 .. m
  PROVE  Prefix(Prefix(v, m), n) = Prefix(v, n)
BY DEF Prefix

LEMMA Pop2 ==
  ASSUME NEW h, NEW v \in Seq(Nat), NEW r \in Stacks, NEW a \in Kinds, NEW b \in Kinds,
         StackOK(h, v, Push(Push(r, a), b)), NEW n, n = Len(r)
  PROVE  /\ n \in Nat /\ Len(v) = n + 2
         /\ v[n + 1] \in Nat /\ v[n + 2] \in Nat
         /\ Fits(h, v[n + 1], a) /\ Fits(h, v[n + 2], b)
         /\ Below(v[n + 1], a, v[n + 2], b)
         /\ Beneath(Prefix(v, n), r, v[n + 1], a)
         /\ Beneath(Prefix(v, n), r, v[n + 2], b)
         /\ b.role = "last" => (v[n + 2] = NULL <=> v[n + 1] = NULL)
         /\ Prefix(v, n) \in Seq(Nat)
         /\ StackOK(h, Prefix(v, n), r)
<1> DEFINE q == Push(r, a)
           s == Push(q, b)
<1>1. n \in Nat
  BY DEF Stacks
<1>2. q \in Stacks /\ Len(q) = n + 1 /\ q[n + 1] = a /\ \A i \in 1 .. n : q[i] = r[i]
  BY PushType
<1> HIDE DEF q
<1>3. s \in Stacks /\ Len(s) = n + 2 /\ s[n + 2] = b /\ \A i \in 1 .. n + 1 : s[i] = q[i]
  <2>1. s \in Stacks /\ Len(s) = Len(q) + 1 /\ s[Len(q) + 1] = b /\ \A i \in 1 .. Len(q) : s[i] = q[i]
    BY <1>2, PushType
  <2>2. Len(q) + 1 = n + 2 /\ Len(q) = n + 1
    BY <1>1, <1>2
  <2> HIDE DEF s
  <2> QED
    BY <2>1, <2>2
<1>4. StackOK(h, v, s)
  BY DEF q
<1> HIDE DEF s
<1>5. s[n + 1] = a /\ \A i \in 1 .. n : s[i] = r[i]
  BY <1>1, <1>2, <1>3
<1>6. Len(v) = n + 2 /\ v[n + 1] \in Nat /\ v[n + 2] \in Nat
  BY <1>1, <1>3, <1>4 DEF StackOK
<1>7. Fits(h, v[n + 1], a) /\ Fits(h, v[n + 2], b) /\ Below(v[n + 1], a, v[n + 2], b)
  BY <1>1, <1>3, <1>4, <1>5, <1>6 DEF StackOK
<1>8. \A i \in 1 .. n : Prefix(v, n)[i] = v[i]
  <2>1. n \in 0 .. Len(v)
    BY <1>1, <1>6
  <2> QED
    BY <2>1, PrefixElements
<1>9. Beneath(Prefix(v, n), r, v[n + 1], a) /\ Beneath(Prefix(v, n), r, v[n + 2], b)
  <2>1. ASSUME NEW i \in 1 .. n
        PROVE  Below(v[i], r[i], v[n + 1], a) /\ Below(v[i], r[i], v[n + 2], b)
    BY <1>1, <1>3, <1>4, <1>5, <1>6 DEF StackOK
  <2> QED
    BY <1>8, <2>1 DEF Beneath
<1>10. b.role = "last" => (v[n + 2] = NULL <=> v[n + 1] = NULL)
  <2>1. n + 2 \in 2 .. Len(v) /\ n + 2 - 1 = n + 1
    BY <1>1, <1>6
  <2> QED
    BY <1>3, <1>4, <2>1 DEF StackOK
<1>11. Prefix(v, n) \in Seq(Nat) /\ StackOK(h, Prefix(v, n), r)
  <2>1. Len(r) <= Len(s) /\ \A i \in 1 .. Len(r) : r[i] = s[i]
    BY <1>1, <1>3, <1>5
  <2>2. s \in Stacks
    BY <1>3
  <2> QED
    BY <1>4, <2>1, <2>2, PrefixOK
<1> QED
  BY <1>1, <1>6, <1>7, <1>9, <1>10, <1>11

LEMMA Pop3 ==
  ASSUME NEW h, NEW v \in Seq(Nat), NEW r \in Stacks,
         NEW a \in Kinds, NEW b \in Kinds, NEW c \in Kinds,
         StackOK(h, v, Push(Push(Push(r, a), b), c)), NEW n, n = Len(r)
  PROVE  /\ n \in Nat /\ Len(v) = n + 3
         /\ v[n + 1] \in Nat /\ v[n + 2] \in Nat /\ v[n + 3] \in Nat
         /\ Fits(h, v[n + 1], a) /\ Fits(h, v[n + 2], b) /\ Fits(h, v[n + 3], c)
         /\ Below(v[n + 1], a, v[n + 2], b)
         /\ Below(v[n + 1], a, v[n + 3], c)
         /\ Below(v[n + 2], b, v[n + 3], c)
         /\ Beneath(Prefix(v, n), r, v[n + 1], a)
         /\ Beneath(Prefix(v, n), r, v[n + 2], b)
         /\ Beneath(Prefix(v, n), r, v[n + 3], c)
         /\ b.role = "last" => (v[n + 2] = NULL <=> v[n + 1] = NULL)
         /\ Prefix(v, n) \in Seq(Nat)
         /\ StackOK(h, Prefix(v, n), r)
<1> DEFINE q == Push(r, a)
           m == n + 1
           u == Prefix(v, n + 1)
<1>1. n \in Nat /\ m + 1 = n + 2 /\ m + 2 = n + 3
  BY DEF Stacks
<1>2. q \in Stacks /\ Len(q) = m /\ q[n + 1] = a /\ \A i \in 1 .. n : q[i] = r[i]
  BY PushType
<1>3. StackOK(h, v, Push(Push(q, b), c))
  OBVIOUS
<1> HIDE DEF q, m
<1>4. /\ Len(v) = m + 2
      /\ v[m + 1] \in Nat /\ v[m + 2] \in Nat
      /\ Fits(h, v[m + 1], b) /\ Fits(h, v[m + 2], c)
      /\ Below(v[m + 1], b, v[m + 2], c)
      /\ Beneath(Prefix(v, m), q, v[m + 1], b)
      /\ Beneath(Prefix(v, m), q, v[m + 2], c)
      /\ Prefix(v, m) \in Seq(Nat)
      /\ StackOK(h, Prefix(v, m), q)
  BY <1>2, <1>3, Pop2
<1>5. b.role = "last" => (v[m + 1] = NULL <=> v[m] = NULL)
  <2>1. Push(Push(q, b), c) \in Stacks
    BY <1>2, PushType
  <2>2. /\ Push(q, b) \in Stacks /\ Len(Push(q, b)) = m + 1 /\ Push(q, b)[m + 1] = b
    BY <1>2, PushType
  <2>3. Push(Push(q, b), c)[m + 1] = b
    <3>1. m + 1 \in 1 .. Len(Push(q, b))
      BY <1>1, <2>2 DEF m
    <3> QED
      BY <2>2, <3>1, PushType
  <2>4. m + 1 \in 2 .. Len(v)
    BY <1>1, <1>4 DEF m
  <2>5. m + 1 - 1 = m
    BY <1>1 DEF m
  <2> QED
    <3> DEFINE s == Push(Push(q, b), c)
    <3>1. StackOK(h, v, s) /\ s[m + 1] = b
      BY <1>3, <2>3
    <3> HIDE DEF s
    <3>2. \A i \in 2 .. Len(v) : s[i].role = "last" => (v[i] = NULL <=> v[i - 1] = NULL)
      BY <3>1 DEF StackOK
    <3>3. m + 1 = n + 2 /\ n + 2 \in 2 .. Len(v) /\ n + 2 - 1 = m
      BY <1>1, <2>4 DEF m
    <3>4. s[n + 2].role = "last" => (v[n + 2] = NULL <=> v[n + 2 - 1] = NULL)
      BY <3>2, <3>3
    <3> QED
      BY <3>1, <3>3, <3>4
<1>6. StackOK(h, u, Push(r, a)) /\ u \in Seq(Nat)
  BY <1>4 DEF q, m
<1>7. /\ u[n + 1] \in Nat /\ Fits(h, u[n + 1], a)
      /\ Beneath(Prefix(u, n), r, u[n + 1], a)
      /\ Prefix(u, n) \in Seq(Nat)
      /\ StackOK(h, Prefix(u, n), r)
  <2> HIDE DEF u
  <2> QED
    BY <1>6, Pop1
<1>8. Len(v) = n + 3 /\ n + 1 \in 0 .. Len(v) /\ n \in 0 .. n + 1 /\ n + 1 \in 1 .. n + 1
  BY <1>1, <1>4
<1>9. Prefix(u, n) = Prefix(v, n)
  BY <1>8, PrefixOfPrefix
<1>10. \A i \in 1 .. n + 1 : u[i] = v[i]
  BY <1>8, PrefixElements
<1>11. \A i \in 1 .. n : Prefix(v, n)[i] = v[i]
  <2>1. n \in 0 .. Len(v)
    BY <1>1, <1>8
  <2> QED
    BY <2>1, PrefixElements
<1>12. /\ \A i \in 1 .. n + 1 : Below(u[i], q[i], v[n + 2], b)
       /\ \A i \in 1 .. n + 1 : Below(u[i], q[i], v[n + 3], c)
  BY <1>1, <1>2, <1>4 DEF Beneath, m
<1>13. Below(v[n + 1], a, v[n + 2], b) /\ Below(v[n + 1], a, v[n + 3], c)
  BY <1>2, <1>8, <1>10, <1>12
<1>14. /\ Beneath(Prefix(v, n), r, v[n + 2], b)
       /\ Beneath(Prefix(v, n), r, v[n + 3], c)
  <2> SUFFICES ASSUME NEW i \in 1 .. n
               PROVE  Below(Prefix(v, n)[i], r[i], v[n + 2], b) /\ Below(Prefix(v, n)[i], r[i], v[n + 3], c)
    BY DEF Beneath
  <2>1. i \in 1 .. n + 1
    BY <1>1
  <2> QED
    BY <1>2, <1>10, <1>11, <1>12, <2>1
<1>15. u[n + 1] = v[n + 1]
  BY <1>8, <1>10
<1> QED
  BY <1>1, <1>4, <1>5, <1>7, <1>8, <1>9, <1>13, <1>14, <1>15 DEF m
-----------------------------------------------------------------------------
(* Heaps.                                                                  *)

\* The operand pair of ast_op_expr, whose tag is never set, and the operators.
PairFits(h, node) ==
  node.tag = "unset" =>
    /\ Len(node.kids) = 1
    /\ node.kids[1] \in 1 .. Len(h)
    /\ h[node.kids[1]].tag \in ExprTags

OpFits(node) ==
  /\ node.tag \in {"unset", "bin_expr_ast"} => node.op \in ArithOps
  /\ node.tag = "bin_cond_ast" => node.op \in RelOps \cup {GarbageOp}

HeapOK(h) ==
  /\ TreeOK(h)
  /\ Forward(h)
  /\ \A p \in 1 .. Len(h) : PairFits(h, h[p]) /\ OpFits(h[p])

\* A node that may be allocated.
SlotsFit(h, node) ==
  node.tag \in DOMAIN SlotTags =>
    \A k \in DOMAIN SlotTags[node.tag] : SlotFits(h, node, k)

\* A node has the kids that its slots name.
Filled(node) ==
  node.tag \in DOMAIN SlotTags => DOMAIN SlotTags[node.tag] \subseteq 1 .. Len(node.kids)

NodeOK(h, node) ==
  /\ node \in Nodes
  /\ node.next = NULL
  /\ Filled(node)
  /\ SlotsFit(h, node)
  /\ PairFits(h, node)
  /\ OpFits(node)

\* What a heap keeps while it changes.
LEMMA SlotsStay ==
  ASSUME NEW h, NEW g, NEW node, Len(h) \in Nat, Len(g) \in Nat, Len(h) <= Len(g),
         \A p \in 1 .. Len(h) : g[p].tag = h[p].tag,
         SlotsFit(h, node) /\ PairFits(h, node)
  PROVE  SlotsFit(g, node) /\ PairFits(g, node)
<1>1. 1 .. Len(h) \subseteq 1 .. Len(g)
  OBVIOUS
<1>2. PairFits(g, node)
  BY <1>1 DEF PairFits
<1>3. ASSUME NEW k, SlotFits(h, node, k)
      PROVE  SlotFits(g, node, k)
  BY <1>1, <1>3 DEF SlotFits
<1>4. SlotsFit(g, node)
  BY <1>3 DEF SlotsFit
<1> QED
  BY <1>2, <1>4

LEMMA HeapOKNodes ==
  ASSUME NEW h, HeapOK(h)
  PROVE  /\ h \in Seq(Nodes) /\ Len(h) \in Nat
         /\ \A p \in 1 .. Len(h) :
              /\ h[p] \in Nodes
              /\ h[p].tag # "unset" => SlotsFit(h, h[p]) /\ NextFits(h, h[p])
              /\ PairFits(h, h[p]) /\ OpFits(h[p])
              /\ h[p].next = NULL \/ h[p].next \in p + 1 .. Len(h)
<1>1. h \in Seq(Nodes) /\ WellFormed(h) /\ Forward(h)
  BY DEF HeapOK, TreeOK
<1>2. Len(h) \in Nat /\ \A p \in 1 .. Len(h) : h[p] \in Nodes
  BY <1>1
<1>3. \A p \in 1 .. Len(h) : h[p].tag # "unset" => SlotsFit(h, h[p]) /\ NextFits(h, h[p])
  BY <1>1 DEF WellFormed, SlotsFit
<1>4. \A p \in 1 .. Len(h) : PairFits(h, h[p]) /\ OpFits(h[p])
  BY DEF HeapOK
<1>5. \A p \in 1 .. Len(h) : h[p].next = NULL \/ h[p].next \in p + 1 .. Len(h)
  BY <1>1 DEF Forward
<1> QED
  BY <1>1, <1>2, <1>3, <1>4, <1>5

LEMMA HeapOKFrom ==
  ASSUME NEW h, h \in Seq(Nodes),
         \A p \in 1 .. Len(h) :
              /\ h[p].tag # "unset" => SlotsFit(h, h[p]) /\ NextFits(h, h[p])
              /\ PairFits(h, h[p]) /\ OpFits(h[p])
              /\ h[p].next = NULL \/ h[p].next \in p + 1 .. Len(h)
  PROVE  HeapOK(h)
<1>1. WellFormed(h)
  BY DEF WellFormed, SlotsFit
<1>2. Forward(h)
  BY DEF Forward
<1> QED
  BY <1>1, <1>2 DEF HeapOK, TreeOK

LEMMA AllocOK ==
  ASSUME NEW h, HeapOK(h), NEW node, NodeOK(h, node)
  PROVE  /\ HeapOK(Append(h, node))
         /\ Len(Append(h, node)) = Len(h) + 1
         /\ Append(h, node)[Len(h) + 1] = node
         /\ \A p \in 1 .. Len(h) : Append(h, node)[p] = h[p]
<1> DEFINE g == Append(h, node)
           n == Len(h)
<1>1. h \in Seq(Nodes) /\ n \in Nat
  BY HeapOKNodes
<1>2. node \in Nodes
  BY DEF NodeOK
<1>3. /\ g \in Seq(Nodes) /\ Len(g) = n + 1 /\ g[n + 1] = node
      /\ \A p \in 1 .. n : g[p] = h[p]
  BY <1>1, <1>2
<1> HIDE DEF g
<1>4. ASSUME NEW p \in 1 .. Len(g)
      PROVE  /\ g[p].tag # "unset" => SlotsFit(g, g[p]) /\ NextFits(g, g[p])
             /\ PairFits(g, g[p]) /\ OpFits(g[p])
             /\ g[p].next = NULL \/ g[p].next \in p + 1 .. Len(g)
  <2>1. \A q \in 1 .. n : g[q].tag = h[q].tag
    BY <1>3
  <2>2. CASE p \in 1 .. n
    <3>1. /\ h[p].tag # "unset" => SlotsFit(h, h[p]) /\ NextFits(h, h[p])
          /\ PairFits(h, h[p]) /\ OpFits(h[p])
          /\ h[p].next = NULL \/ h[p].next \in p + 1 .. n
      BY <2>2, HeapOKNodes
    <3>2. g[p] = h[p]
      BY <1>3, <2>2
    <3>3. PairFits(g, h[p])
      BY <1>1, <1>3, <2>1, <3>1 DEF PairFits
    <3>4. h[p].tag # "unset" => SlotsFit(g, h[p])
      BY <1>1, <1>3, <2>1, <3>1, SlotsStay
    <3>5. h[p].tag # "unset" => NextFits(g, h[p])
      BY <1>1, <1>3, <2>1, <3>1 DEF NextFits
    <3> QED
      BY <1>1, <1>3, <3>1, <3>2, <3>3, <3>4, <3>5
  <2>3. CASE p = n + 1
    <3>1. SlotsFit(h, node) /\ PairFits(h, node) /\ OpFits(node) /\ node.next = NULL
      BY DEF NodeOK
    <3>2. SlotsFit(g, node) /\ PairFits(g, node)
      BY <1>1, <1>3, <2>1, <3>1, SlotsStay
    <3> QED
      BY <1>3, <2>3, <3>1, <3>2 DEF NextFits
  <2> QED
    BY <1>1, <1>3, <2>2, <2>3
<1>5. HeapOK(g)
  BY <1>3, <1>4, HeapOKFrom
<1> QED
  BY <1>3, <1>5 DEF g

\* Nodes that keep all but their place and, at one end of a list, their next.
LEMMA UpdateOK ==
  ASSUME NEW h, HeapOK(h), NEW g \in Seq(Nodes), Len(g) = Len(h),
         \A p \in 1 .. Len(h) :
           /\ g[p].tag = h[p].tag /\ g[p].kids = h[p].kids /\ g[p].op = h[p].op
           /\ \/ g[p].next = h[p].next
              \/ g[p].next = NULL
              \/ /\ g[p].next \in p + 1 .. Len(h)
                 /\ \/ h[p].tag \in ListTags /\ h[g[p].next].tag = h[p].tag
                    \/ h[p].tag \in StmtTags /\ h[g[p].next].tag \in StmtTags
  PROVE  HeapOK(g)
<1>1. Len(h) \in Nat
  BY HeapOKNodes
<1>2. ASSUME NEW p \in 1 .. Len(g)
      PROVE  /\ g[p].tag # "unset" => SlotsFit(g, g[p]) /\ NextFits(g, g[p])
             /\ PairFits(g, g[p]) /\ OpFits(g[p])
             /\ g[p].next = NULL \/ g[p].next \in p + 1 .. Len(g)
  <2>1. /\ h[p].tag # "unset" => SlotsFit(h, h[p]) /\ NextFits(h, h[p])
        /\ PairFits(h, h[p]) /\ OpFits(h[p])
        /\ h[p].next = NULL \/ h[p].next \in p + 1 .. Len(h)
    BY HeapOKNodes
  <2>2. g[p].tag = h[p].tag /\ g[p].kids = h[p].kids /\ g[p].op = h[p].op
    OBVIOUS
  <2>3. PairFits(g, g[p]) /\ OpFits(g[p])
    BY <2>1, <2>2 DEF PairFits, OpFits
  <2>4. g[p].tag # "unset" => SlotsFit(g, g[p])
    BY <2>1, <2>2 DEF SlotsFit, SlotFits
  <2>5. g[p].next = NULL \/ g[p].next \in p + 1 .. Len(g)
    BY <2>1
  <2>6. g[p].tag # "unset" => NextFits(g, g[p])
    BY <1>1, <2>1, <2>2 DEF NextFits, NULL
  <2> QED
    BY <2>3, <2>4, <2>5, <2>6
<1> QED
  BY <1>2, HeapOKFrom

\* Nothing that the pointers in use rely on changes when a node is allocated.
LEMMA StackOnLargerHeap ==
  ASSUME NEW h, NEW g, NEW v, NEW s, Len(h) \in Nat, Len(g) \in Nat, Len(h) <= Len(g),
         \A p \in 1 .. Len(h) : g[p].tag = h[p].tag /\ g[p].next = h[p].next,
         StackOK(h, v, s)
  PROVE  StackOK(g, v, s)
<1>1. 1 .. Len(h) \subseteq 1 .. Len(g)
  OBVIOUS
<1>2. ASSUME NEW p, NEW k, Fits(h, p, k)
      PROVE  Fits(g, p, k)
  BY <1>1, <1>2 DEF Fits
<1> QED
  BY <1>2 DEF StackOK

ListClasses == {Consts, Vars, StmtTags}

\* ast_list_splice at the end of one list, with a list of younger nodes.
LEMMA SpliceOK ==
  ASSUME NEW h, HeapOK(h), NEW T \in ListClasses,
         NEW last \in 1 .. Len(h), h[last].tag \in T,
         NEW tail, tail = NULL \/ (tail \in last + 1 .. Len(h) /\ h[tail].tag \in T)
  PROVE  /\ HeapOK(ast_list_splice(h, last, tail))
         /\ Len(ast_list_splice(h, last, tail)) = Len(h)
         /\ \A p \in 1 .. Len(h) :
              /\ ast_list_splice(h, last, tail)[p].tag = h[p].tag
              /\ ast_list_splice(h, last, tail)[p].kids = h[p].kids
              /\ p # last => ast_list_splice(h, last, tail)[p].next = h[p].next
<1> DEFINE g == ast_list_splice(h, last, tail)
<1>1. h \in Seq(Nodes) /\ Len(h) \in Nat /\ \A p \in 1 .. Len(h) : h[p] \in Nodes
  BY HeapOKNodes
<1>2. g = [h EXCEPT ![last] = [h[last] EXCEPT !.next = tail]]
  BY DEF ast_list_splice
<1>3. tail \in Nat
  BY <1>1 DEF NULL
<1>4. [h[last] EXCEPT !.next = tail] \in Nodes
  BY <1>1, <1>3 DEF Nodes
<1>5. /\ g \in Seq(Nodes) /\ Len(g) = Len(h)
      /\ g[last] = [h[last] EXCEPT !.next = tail]
      /\ \A p \in 1 .. Len(h) : p # last => g[p] = h[p]
  BY <1>1, <1>2, <1>4
<1>6. /\ g[last].next = tail /\ g[last].tag = h[last].tag
      /\ g[last].kids = h[last].kids /\ g[last].op = h[last].op
  BY <1>1, <1>5 DEF Nodes
<1>7. tail # NULL => \/ h[last].tag \in ListTags /\ h[tail].tag = h[last].tag
                     \/ h[last].tag \in StmtTags /\ h[tail].tag \in StmtTags
  BY DEF ListClasses, Consts, Vars, ListTags
<1> HIDE DEF g
<1>8. HeapOK(g)
  <2> SUFFICES ASSUME NEW p \in 1 .. Len(h)
               PROVE  /\ g[p].tag = h[p].tag /\ g[p].kids = h[p].kids /\ g[p].op = h[p].op
                      /\ \/ g[p].next = h[p].next
                         \/ g[p].next = NULL
                         \/ /\ g[p].next \in p + 1 .. Len(h)
                            /\ \/ h[p].tag \in ListTags /\ h[g[p].next].tag = h[p].tag
                               \/ h[p].tag \in StmtTags /\ h[g[p].next].tag \in StmtTags
    BY <1>5, UpdateOK
  <2>1. CASE p = last
    BY <1>6, <1>7, <2>1
  <2>2. CASE p # last
    BY <1>5, <2>2
  <2> QED
    BY <2>1, <2>2
<1> QED
  BY <1>5, <1>6, <1>8 DEF g

\* The only pointer that a splice at last disturbs is last.
LEMMA StackAfterSplice ==
  ASSUME NEW h, NEW g, NEW v, NEW s, Len(h) \in Nat, Len(g) = Len(h), NEW last,
         \A p \in 1 .. Len(h) :
            /\ g[p].tag = h[p].tag
            /\ p # last => g[p].next = h[p].next,
         StackOK(h, v, s),
         \A i \in 1 .. Len(v) : v[i] = last => s[i].role \notin {"single", "last"}
  PROVE  StackOK(g, v, s)
<1>1. ASSUME NEW i \in 1 .. Len(v)
      PROVE  Fits(g, v[i], s[i])
  <2>1. Fits(h, v[i], s[i])
    BY DEF StackOK
  <2> QED
    BY <2>1 DEF Fits
<1> QED
  BY <1>1 DEF StackOK

\* The last element of a list is of its kind, and ends it.
LEMMA LastOfList ==
  ASSUME NEW h, HeapOK(h), NEW T \in ListClasses,
         NEW lst \in 1 .. Len(h), h[lst].tag \in T
  PROVE  /\ ast_list_last_elem(h, lst) \in lst .. Len(h)
         /\ h[ast_list_last_elem(h, lst)].tag \in T
         /\ h[ast_list_last_elem(h, lst)].next = NULL
<1> DEFINE S == {p \in 1 .. Len(h) : h[p].tag \in T}
<1>1. Len(h) \in Nat /\ Forward(h)
  BY HeapOKNodes DEF HeapOK
<1>2. ASSUME NEW p \in S \cap (1 .. Len(h))
      PROVE  h[p].next \in S \cup {NULL}
  <2>1. h[p].tag # "unset"
    BY DEF ListClasses, Consts, Vars, StmtTags
  <2>2. NextFits(h, h[p])
    BY <2>1, HeapOKNodes
  <2> QED
    BY <2>2 DEF NextFits, ListClasses, Consts, Vars, ListTags, StmtTags
<1>3. lst \in S
  OBVIOUS
<1>4. /\ ast_list_last_elem(h, lst) \in lst .. Len(h)
      /\ ast_list_last_elem(h, lst) \in S
      /\ h[ast_list_last_elem(h, lst)].next = NULL
  <2> HIDE DEF S
  <2> QED
    BY <1>1, <1>2, <1>3, LastElem
<1> QED
  BY <1>4

LEMMA LastOfEmpty ==
  ASSUME NEW h, Len(h) \in Nat, Forward(h)
  PROVE  ast_list_last_elem(h, NULL) = NULL
<1> DEFINE F == CHOOSE f : LastIn(h, 0 .. Len(h), f)
<1>1. LastIn(h, 0 .. Len(h), F)
  BY LastExists
<1>2. ast_list_last_elem(h, NULL) = F[NULL]
  BY DEF ast_list_last_elem, LastIn
<1> HIDE DEF F
<1>3. F[0] = 0
  BY <1>1 DEF LastIn, ast_list_is_empty, NULL
<1> QED
  BY <1>2, <1>3 DEF NULL

-----------------------------------------------------------------------------
(* What the pointers in use hold.                                          *)

\* The end of a list is held by the list, and an operand pair stands for its
\* operand.
Held(h, p, k) == IF p = NULL \/ k.role \in {"last", "spent"} THEN NULL
                 ELSE IF k.tags = Pairs THEN h[p].kids[1]
                 ELSE p

Holdings(h, v, s) == [i \in 1 .. Len(s) |-> Held(h, v[i], s[i])]

\* g labels the tree that each pointer holds with its place in vals, and so
\* the end of a list with the place of the list.
Labelled(h, v, s, g) ==
  \A i \in 1 .. Len(s) :
    /\ Held(h, v[i], s[i]) # NULL => g[Held(h, v[i], s[i])] = i
    /\ s[i].role = "last" /\ v[i] # NULL => g[v[i]] = i - 1

\* The pointers in use hold different trees, without cycles.
Grove(h, v, s) == \E b, c, g : Forest(h, b, c, g) /\ Labelled(h, v, s, g)

\* Every node hangs from one pointer: of another node, or in use.
Owned(h, v, s) == Whole(h, Holdings(h, v, s)) /\ Grove(h, v, s)

LEMMA HeldType ==
  ASSUME NEW h, HeapOK(h), NEW p, NEW k \in Kinds, Fits(h, p, k)
  PROVE  Held(h, p, k) \in Nat
<1>1. Len(h) \in Nat /\ NULL \in Nat
  BY HeapOKNodes DEF NULL
<1>2. CASE p # NULL /\ k.tags = Pairs
  <2>1. p \in 1 .. Len(h) /\ h[p].tag = "unset"
    BY <1>2 DEF Fits, Pairs
  <2>2. h[p].kids[1] \in 1 .. Len(h)
    BY <2>1, HeapOKNodes DEF PairFits
  <2>3. h[p].kids[1] \in Nat
    BY <1>1, <2>2
  <2> QED
    BY ONLY <1>1, <1>2, <2>3 DEF Held
<1>3. CASE ~(p # NULL /\ k.tags = Pairs)
  <2>1. p = NULL \/ p \in 1 .. Len(h)
    BY DEF Fits
  <2> QED
    BY <1>1, <1>3, <2>1 DEF Held
<1> QED
  BY <1>2, <1>3

LEMMA HoldingsType ==
  ASSUME NEW h, HeapOK(h), NEW v, NEW s \in Stacks, StackOK(h, v, s)
  PROVE  Holdings(h, v, s) \in Seq(Nat) /\ Len(Holdings(h, v, s)) = Len(s)
<1>1. Len(s) \in Nat /\ Len(v) = Len(s)
  BY DEF StackOK, Stacks
<1>2. ASSUME NEW i \in 1 .. Len(s)
      PROVE  Held(h, v[i], s[i]) \in Nat
  <2>1. Fits(h, v[i], s[i]) /\ s[i] \in Kinds
    BY <1>1 DEF StackOK, Stacks
  <2> QED
    BY <2>1, HeldType
<1> QED
  BY <1>1, <1>2 DEF Holdings

\* The stack s is r with the holdings x above it.
HeldAbove(h, v, s, r, x) ==
  /\ Len(r) <= Len(s) /\ Len(r) + Len(x) = Len(s)
  /\ \A i \in 1 .. Len(r) : r[i] = s[i]
  /\ \A j \in 1 .. Len(x) : x[j] = Held(h, v[Len(r) + j], s[Len(r) + j])

\* Pushing and popping.
LEMMA HoldingsSplit ==
  ASSUME NEW h, HeapOK(h), NEW v \in Seq(Nat), NEW s \in Stacks, NEW r \in Stacks,
         StackOK(h, v, s), NEW x \in Seq(Nat), HeldAbove(h, v, s, r, x)
  PROVE  /\ Holdings(h, Prefix(v, Len(r)), r) \in Seq(Nat)
         /\ Holdings(h, v, s) = Holdings(h, Prefix(v, Len(r)), r) \o x
<1> DEFINE w == Prefix(v, Len(r))
           y == Holdings(h, w, r)
           z == Holdings(h, v, s)
           n == Len(r)
<1>0. /\ Len(r) <= Len(s) /\ Len(r) + Len(x) = Len(s)
      /\ \A i \in 1 .. Len(r) : r[i] = s[i]
      /\ \A j \in 1 .. Len(x) : x[j] = Held(h, v[Len(r) + j], s[Len(r) + j])
  BY DEF HeldAbove
<1>1. /\ n \in Nat /\ Len(s) \in Nat /\ Len(v) = Len(s) /\ Len(x) \in Nat /\ n \in 0 .. Len(v)
      /\ n + Len(x) = Len(s)
  BY <1>0 DEF StackOK, Stacks
<1>2. \A i \in 1 .. n : w[i] = v[i]
  BY <1>1, PrefixElements
<1>3. StackOK(h, w, r)
  BY <1>0, PrefixOK
<1>4. y \in Seq(Nat) /\ Len(y) = n
  BY <1>3, HoldingsType
<1>5. z \in Seq(Nat) /\ Len(z) = Len(s)
  BY HoldingsType
<1>6. \A i \in 1 .. n : y[i] = z[i]
  <2> TAKE i \in 1 .. n
  <2>1. i \in 1 .. Len(s) /\ i \in 1 .. Len(r)
    BY <1>1
  <2> HIDE DEF n, w
  <2> QED
    BY <1>0, <1>2, <2>1 DEF Holdings
<1>7. \A j \in 1 .. Len(x) : x[j] = z[n + j]
  <2> TAKE j \in 1 .. Len(x)
  <2>1. n + j \in 1 .. Len(s)
    BY <1>1
  <2> QED
    BY <1>0, <2>1 DEF Holdings
<1> HIDE DEF y, z, n
<1>8. /\ y \o x \in Seq(Nat) /\ Len(y \o x) = Len(z) /\ Len(z) = n + Len(x)
      /\ \A i \in 1 .. n + Len(x) : (y \o x)[i] = IF i <= n THEN y[i] ELSE x[i - n]
  <2>1. /\ y \o x \in Seq(Nat) /\ Len(y \o x) = Len(y) + Len(x)
        /\ \A i \in 1 .. Len(y) + Len(x) :
             (y \o x)[i] = IF i <= Len(y) THEN y[i] ELSE x[i - Len(y)]
    BY ONLY <1>4, x \in Seq(Nat)
  <2> QED
    BY ONLY <2>1, <1>1, <1>4, <1>5
<1>9. \A i \in 1 .. Len(z) : (y \o x)[i] = z[i]
  <2> TAKE i \in 1 .. Len(z)
  <2>1. CASE i \in 1 .. n
    BY <1>1, <1>6, <1>8, <2>1
  <2>2. CASE i \in n + 1 .. Len(z)
    <3>1. i - n \in 1 .. Len(x) /\ n + (i - n) = i
      BY <1>1, <1>8, <2>2
    <3>2. (y \o x)[i] = x[i - n]
      BY <1>1, <1>8, <2>2
    <3> QED
      BY <1>7, <3>1, <3>2
  <2> QED
    BY <1>1, <1>8, <2>1, <2>2
<1>10. y \o x = z
  BY <1>5, <1>8, <1>9, SeqEqual
<1> QED
  BY <1>4, <1>10 DEF y, z

LEMMA HoldingsPush ==
  ASSUME NEW h, HeapOK(h), NEW v \in Seq(Nat), NEW s \in Stacks, StackOK(h, v, s),
         NEW p \in Nat, NEW k \in Kinds, Fits(h, p, k)
  PROVE  /\ Holdings(h, v, s) \in Seq(Nat) /\ Held(h, p, k) \in Nat
         /\ Holdings(h, Append(v, p), Push(s, k)) = Append(Holdings(h, v, s), Held(h, p, k))
<1> DEFINE y == Holdings(h, v, s)
           z == Holdings(h, Append(v, p), Push(s, k))
           n == Len(s)
           e == Held(h, p, k)
           t == Push(s, k)
           w == Append(v, p)
<1>1. /\ n \in Nat /\ Len(v) = n /\ Len(w) = n + 1 /\ w[n + 1] = p
      /\ \A i \in 1 .. n : w[i] = v[i]
  BY DEF StackOK, Stacks
<1>2. Len(t) = n + 1 /\ t[n + 1] = k /\ \A i \in 1 .. n : t[i] = s[i]
  BY PushType
<1>3. e \in Nat
  BY HeldType
<1>4. y \in Seq(Nat) /\ Len(y) = n
  BY HoldingsType
<1>5. z = [i \in 1 .. n + 1 |-> Held(h, w[i], t[i])]
  BY <1>2 DEF Holdings
<1>6. \A i \in 1 .. n : y[i] = Held(h, w[i], t[i])
  BY <1>1, <1>2 DEF Holdings
<1>7. e = Held(h, w[n + 1], t[n + 1])
  BY <1>1, <1>2
<1> HIDE DEF y, e, t, w, n
<1>8. z \in Seq(Nat) /\ Len(z) = n + 1 /\ z[n + 1] = e /\ \A i \in 1 .. n : z[i] = y[i]
  <2>1. \A i \in 1 .. n + 1 : i \in 1 .. n \/ i = n + 1
    BY <1>1
  <2>2. \A i \in 1 .. n : y[i] \in Nat
    BY <1>4
  <2>3. \A i \in 1 .. n + 1 : Held(h, w[i], t[i]) \in Nat
    BY <1>3, <1>6, <1>7, <2>1, <2>2
  <2> HIDE DEF z
  <2>4. z \in Seq(Nat) /\ Len(z) = n + 1
    BY <1>1, <1>5, <2>3
  <2>5. z[n + 1] = e /\ \A i \in 1 .. n : z[i] = y[i]
    BY <1>1, <1>5, <1>6, <1>7
  <2> QED
    BY <2>4, <2>5
<1> HIDE DEF z
<1>9. Append(y, e) \in Seq(Nat) /\ Len(Append(y, e)) = n + 1
      /\ \A i \in 1 .. n + 1 : Append(y, e)[i] = z[i]
  BY <1>1, <1>3, <1>4, <1>8
<1>10. z = Append(y, e)
  BY <1>8, <1>9, SeqEqual
<1> QED
  BY <1>3, <1>4, <1>10 DEF y, z, e, t, w

\* Nothing changes for those who hold when the heap grows or a list does.
LEMMA HoldingsStay ==
  ASSUME NEW h, NEW g, NEW v, NEW s \in Stacks, StackOK(h, v, s),
         \A p \in 1 .. Len(h) : g[p].kids = h[p].kids
  PROVE  Holdings(g, v, s) = Holdings(h, v, s)
<1>1. \A i \in 1 .. Len(s) : v[i] = NULL \/ v[i] \in 1 .. Len(h)
  BY DEF StackOK, Fits
<1>2. \A i \in 1 .. Len(s) : Held(g, v[i], s[i]) = Held(h, v[i], s[i])
  BY <1>1 DEF Held
<1> QED
  BY <1>2 DEF Holdings

\* The pointers that a step consumes, and those below them.
LEMMA WholePrefix ==
  ASSUME NEW v \in Seq(Nat)
  PROVE  Prefix(v, Len(v)) = v
BY DEF Prefix

LEMMA PrefixOfAppend ==
  ASSUME NEW v \in Seq(Nat), NEW p \in Nat
  PROVE  Prefix(Append(v, p), Len(v)) = v
<1> DEFINE u == Append(v, p)
           n == Len(v)
           x == Prefix(u, n)
<1>1. /\ n \in Nat /\ u \in Seq(Nat) /\ n \in 0 .. Len(u)
      /\ \A i \in 1 .. n : u[i] = v[i]
  OBVIOUS
<1>2. x \in Seq(Nat) /\ Len(x) = n /\ \A i \in 1 .. n : x[i] = u[i]
  BY <1>1, PrefixElements
<1> HIDE DEF u, x
<1>3. x = v
  <2>1. Len(x) = Len(v) /\ \A i \in 1 .. Len(x) : x[i] = v[i]
    BY <1>1, <1>2
  <2> QED
    BY <1>2, <2>1, SeqEqual
<1> QED
  BY <1>3 DEF x, u

LEMMA PrefixAppend ==
  ASSUME NEW v \in Seq(Nat), NEW n \in Nat, n + 1 <= Len(v)
  PROVE  Prefix(v, n + 1) = Append(Prefix(v, n), v[n + 1])
<1>1. n \in 0 .. Len(v) /\ n + 1 \in 0 .. Len(v) /\ v[n + 1] \in Nat
  OBVIOUS
<1>2. /\ Prefix(v, n) \in Seq(Nat) /\ Len(Prefix(v, n)) = n
      /\ \A i \in 1 .. n : Prefix(v, n)[i] = v[i]
  BY <1>1, PrefixElements
<1>3. /\ Prefix(v, n + 1) \in Seq(Nat) /\ Len(Prefix(v, n + 1)) = n + 1
      /\ \A i \in 1 .. n + 1 : Prefix(v, n + 1)[i] = v[i]
  BY <1>1, PrefixElements
<1> DEFINE x == Prefix(v, n)
           y == Prefix(v, n + 1)
           z == Append(x, v[n + 1])
           m == n + 1
<1> HIDE DEF x, y
<1>4. z \in Seq(Nat) /\ Len(z) = m /\ \A i \in 1 .. m : z[i] = v[i]
  BY <1>1, <1>2 DEF x
<1>5. y \in Seq(Nat) /\ Len(y) = m /\ \A i \in 1 .. m : y[i] = v[i]
  BY <1>3 DEF y
<1> HIDE DEF z, m
<1>6. y = z
  <2>1. y \in Seq(Nat) /\ z \in Seq(Nat) /\ Len(y) = Len(z) /\ \A i \in 1 .. Len(y) : y[i] = z[i]
    BY <1>4, <1>5
  <2> QED
    BY <2>1, SeqEqual
<1> QED
  BY <1>6 DEF x, y, z

LEMMA HoldingsPop ==
  ASSUME NEW h, HeapOK(h), NEW v \in Seq(Nat), NEW r \in Stacks, NEW a \in Kinds,
         StackOK(h, v, Push(r, a)), NEW n, n = Len(r)
  PROVE  /\ Holdings(h, Prefix(v, n), r) \in Seq(Nat)
         /\ Held(h, v[n + 1], a) \in Nat
         /\ Holdings(h, v, Push(r, a)) =
              Append(Holdings(h, Prefix(v, n), r), Held(h, v[n + 1], a))
<1>1. /\ n \in Nat /\ Len(v) = n + 1
      /\ v[n + 1] \in Nat /\ Fits(h, v[n + 1], a)
      /\ Prefix(v, n) \in Seq(Nat) /\ StackOK(h, Prefix(v, n), r)
  BY Pop1
<1>2. Append(Prefix(v, n), v[n + 1]) = v
  <2>1. n + 1 <= Len(v)
    BY <1>1
  <2> QED
    BY <1>1, <2>1, PrefixAppend, WholePrefix
<1> DEFINE w == Prefix(v, n)
           p == v[n + 1]
<1>3. w \in Seq(Nat) /\ StackOK(h, w, r) /\ p \in Nat /\ Fits(h, p, a) /\ Append(w, p) = v
  BY <1>1, <1>2
<1> HIDE DEF w, p
<1>4. /\ Holdings(h, w, r) \in Seq(Nat) /\ Held(h, p, a) \in Nat
      /\ Holdings(h, Append(w, p), Push(r, a)) = Append(Holdings(h, w, r), Held(h, p, a))
  BY <1>3, HoldingsPush
<1> QED
  BY <1>3, <1>4 DEF w, p

LEMMA HoldingsPush2 ==
  ASSUME NEW h, HeapOK(h), NEW w \in Seq(Nat), NEW r \in Stacks, Len(w) = Len(r),
         NEW p \in Nat, NEW e \in Nat, NEW a \in Kinds, NEW l \in Kinds,
         StackOK(h, Append(Append(w, p), e), Push(Push(r, a), l))
  PROVE  /\ Holdings(h, w, r) \in Seq(Nat)
         /\ Held(h, p, a) \in Nat /\ Held(h, e, l) \in Nat
         /\ Holdings(h, Append(Append(w, p), e), Push(Push(r, a), l)) =
              Append(Append(Holdings(h, w, r), Held(h, p, a)), Held(h, e, l))
<1> DEFINE q == Push(r, a)
           n == Len(r)
           m == n + 1
           u == Append(w, p)
           v == Append(u, e)
<1>1. n \in Nat /\ q \in Stacks /\ Len(q) = m /\ m \in Nat
  <2>1. n \in Nat
    BY DEF Stacks
  <2> QED
    BY <2>1, PushType
<1>2. u \in Seq(Nat) /\ Len(u) = m /\ u[m] = p /\ Prefix(u, n) = w
  <2>1. u \in Seq(Nat) /\ Len(u) = m /\ u[m] = p
    BY <1>1
  <2>2. Prefix(u, n) = w
    BY PrefixOfAppend
  <2> QED
    BY <2>1, <2>2
<1>3. StackOK(h, v, Push(q, l))
  OBVIOUS
<1> HIDE DEF q, u
<1>4. v \in Seq(Nat) /\ v[m + 1] = e /\ Prefix(v, m) = u
  <2>1. v \in Seq(Nat) /\ v[m + 1] = e
    BY <1>1, <1>2
  <2>2. Prefix(v, m) = u
    BY <1>2, PrefixOfAppend
  <2> QED
    BY <2>1, <2>2
<1> HIDE DEF v, m
<1>5. /\ Held(h, e, l) \in Nat
      /\ Holdings(h, v, Push(q, l)) = Append(Holdings(h, u, q), Held(h, e, l))
  BY <1>1, <1>3, <1>4, HoldingsPop
<1>6. StackOK(h, u, Push(r, a))
  <2>1. StackOK(h, Prefix(v, m), q)
    BY <1>1, <1>3, <1>4, Pop1
  <2> QED
    BY <1>4, <2>1 DEF q
<1> HIDE DEF n
<1>7. n = Len(r)
  BY DEF n
<1>8. /\ Holdings(h, w, r) \in Seq(Nat) /\ Held(h, p, a) \in Nat
      /\ Holdings(h, u, Push(r, a)) = Append(Holdings(h, w, r), Held(h, p, a))
  <2>1. /\ Holdings(h, Prefix(u, n), r) \in Seq(Nat) /\ Held(h, u[n + 1], a) \in Nat
        /\ Holdings(h, u, Push(r, a)) = Append(Holdings(h, Prefix(u, n), r), Held(h, u[n + 1], a))
    BY <1>2, <1>6, <1>7, HoldingsPop
  <2> QED
    BY <1>2, <2>1 DEF m
<1> QED
  BY <1>5, <1>8 DEF v, u, q

LEMMA HoldingsPop3 ==
  ASSUME NEW h, HeapOK(h), NEW v \in Seq(Nat), NEW r \in Stacks,
         NEW a \in Kinds, NEW b \in Kinds, NEW c \in Kinds,
         StackOK(h, v, Push(Push(Push(r, a), b), c)), NEW n, n = Len(r)
  PROVE  /\ Holdings(h, Prefix(v, n), r) \in Seq(Nat)
         /\ Held(h, v[n + 1], a) \in Nat /\ Held(h, v[n + 2], b) \in Nat
         /\ Held(h, v[n + 3], c) \in Nat
         /\ Holdings(h, v, Push(Push(Push(r, a), b), c)) =
              Append(Append(Append(Holdings(h, Prefix(v, n), r), Held(h, v[n + 1], a)),
                            Held(h, v[n + 2], b)),
                     Held(h, v[n + 3], c))
<1> DEFINE q == Push(r, a)
           s == Push(q, b)
           u == Prefix(v, n + 2)
           w == Prefix(v, n + 1)
           x == Prefix(v, n)
<1>1. n \in Nat /\ Len(v) = n + 3
  BY Pop3
<1>2. q \in Stacks /\ Len(q) = n + 1
  BY PushType
<1> HIDE DEF q
<1>3. s \in Stacks /\ Len(s) = n + 2
  BY <1>1, <1>2, PushType
<1>4. StackOK(h, v, Push(s, c))
  BY DEF q
<1> HIDE DEF s
<1>5. u \in Seq(Nat) /\ StackOK(h, u, s)
  BY <1>3, <1>4, Pop1
<1>6. /\ Held(h, v[n + 3], c) \in Nat
      /\ Holdings(h, v, Push(s, c)) = Append(Holdings(h, u, s), Held(h, v[n + 3], c))
  <2> DEFINE k == n + 2
  <2>1. k = Len(s) /\ k + 1 = n + 3
    BY <1>1, <1>3
  <2> HIDE DEF k
  <2>2. /\ Held(h, v[k + 1], c) \in Nat
        /\ Holdings(h, v, Push(s, c)) = Append(Holdings(h, Prefix(v, k), s), Held(h, v[k + 1], c))
    BY <1>3, <1>4, <2>1, HoldingsPop
  <2> QED
    BY <2>1, <2>2 DEF k
<1>7. /\ Len(u) = n + 2 /\ u[n + 2] = v[n + 2] /\ u[n + 1] = v[n + 1]
      /\ Prefix(u, n + 1) = w
  <2>1. n + 2 \in 0 .. Len(v) /\ n + 1 \in 0 .. n + 2 /\ n + 2 \in 1 .. n + 2 /\ n + 1 \in 1 .. n + 2
    BY <1>1
  <2> QED
    BY <2>1, PrefixElements, PrefixOfPrefix
<1>8. Prefix(u, n) = x /\ Prefix(w, n) = x /\ w[n + 1] = v[n + 1]
  <2>1. n + 2 \in 0 .. Len(v) /\ n + 1 \in 0 .. Len(v) /\ n \in 0 .. n + 2 /\ n \in 0 .. n + 1
        /\ n + 1 \in 1 .. n + 1
    BY <1>1
  <2> QED
    BY <2>1, PrefixElements, PrefixOfPrefix
<1> HIDE DEF u, w, x
<1>9. /\ Held(h, v[n + 2], b) \in Nat
      /\ Holdings(h, u, s) = Append(Holdings(h, w, q), Held(h, v[n + 2], b))
  <2> DEFINE k == n + 1
  <2>1. k = Len(q) /\ k + 1 = n + 2
    BY <1>1, <1>2
  <2>2. StackOK(h, u, Push(q, b))
    BY <1>5 DEF s
  <2> HIDE DEF k
  <2>3. /\ Held(h, u[k + 1], b) \in Nat
        /\ Holdings(h, u, Push(q, b)) = Append(Holdings(h, Prefix(u, k), q), Held(h, u[k + 1], b))
    BY <1>2, <1>5, <2>1, <2>2, HoldingsPop
  <2>4. u[k + 1] = v[n + 2] /\ Prefix(u, k) = w
    BY <1>7, <2>1 DEF k
  <2> QED
    BY <2>3, <2>4 DEF s
<1>10. w \in Seq(Nat) /\ StackOK(h, w, q)
  <2>1. StackOK(h, u, Push(q, b))
    BY <1>5 DEF s
  <2> DEFINE k == n + 1
  <2>2. k = Len(q) /\ Prefix(u, k) = w
    BY <1>2, <1>7
  <2> HIDE DEF k
  <2> QED
    BY <1>2, <1>5, <2>1, <2>2, Pop1
<1>11. /\ Holdings(h, x, r) \in Seq(Nat) /\ Held(h, v[n + 1], a) \in Nat
       /\ Holdings(h, w, q) = Append(Holdings(h, x, r), Held(h, v[n + 1], a))
  <2>1. StackOK(h, w, Push(r, a))
    BY <1>10 DEF q
  <2>2. /\ Holdings(h, Prefix(w, n), r) \in Seq(Nat) /\ Held(h, w[n + 1], a) \in Nat
        /\ Holdings(h, w, Push(r, a)) = Append(Holdings(h, Prefix(w, n), r), Held(h, w[n + 1], a))
    BY <1>10, <2>1, HoldingsPop
  <2> QED
    BY <1>8, <2>2 DEF q
<1> QED
  BY <1>6, <1>9, <1>11 DEF q, s, x

-----------------------------------------------------------------------------
(* The trees that the pointers in use hold.                                *)

\* What a pointer in use holds is in the heap.
LEMMA HeldRange ==
  ASSUME NEW h, HeapOK(h), NEW p, NEW k, Fits(h, p, k)
  PROVE  Held(h, p, k) = NULL \/ Held(h, p, k) \in 1 .. Len(h)
<1>1. p = NULL \/ (p \in 1 .. Len(h) /\ h[p].tag \in k.tags)
  BY DEF Fits
<1>2. ASSUME p \in 1 .. Len(h), h[p].tag \in k.tags, k.tags = Pairs
      PROVE  h[p].kids[1] \in 1 .. Len(h)
  BY <1>2, HeapOKNodes DEF PairFits, Pairs
<1> QED
  BY <1>1, <1>2 DEF Held

\* The labels of the pointers in use stay when those after them change.
LEMMA LabelsStay ==
  ASSUME NEW h, HeapOK(h), NEW v, NEW s \in Stacks, StackOK(h, v, s),
         NEW g, Labelled(h, v, s, g), NEW m, NEW d,
         \A p \in 1 .. Len(h) : m[p].kids = h[p].kids,
         \A p \in 1 .. Len(h) : g[p] \in Nat /\ (g[p] <= Len(s) => d[p] = g[p])
  PROVE  Labelled(m, v, s, d)
<1> SUFFICES ASSUME NEW i \in 1 .. Len(s)
             PROVE  /\ Held(m, v[i], s[i]) # NULL => d[Held(m, v[i], s[i])] = i
                    /\ s[i].role = "last" /\ v[i] # NULL => d[v[i]] = i - 1
  BY DEF Labelled
<1>1. Fits(h, v[i], s[i]) /\ i \in Nat /\ i <= Len(s) /\ i - 1 <= Len(s)
  BY DEF StackOK, Stacks
<1>2. /\ Held(h, v[i], s[i]) # NULL => g[Held(h, v[i], s[i])] = i
      /\ s[i].role = "last" /\ v[i] # NULL => g[v[i]] = i - 1
  BY DEF Labelled
<1>3. v[i] = NULL \/ v[i] \in 1 .. Len(h)
  BY <1>1 DEF Fits
<1>4. Held(m, v[i], s[i]) = Held(h, v[i], s[i])
  BY <1>3 DEF Held
<1>5. Held(h, v[i], s[i]) = NULL \/ Held(h, v[i], s[i]) \in 1 .. Len(h)
  BY <1>1, HeldRange
<1>6. Held(m, v[i], s[i]) # NULL => d[Held(m, v[i], s[i])] = i
  <2> DEFINE p == Held(h, v[i], s[i])
  <2> HIDE DEF p
  <2>1. p # NULL => p \in 1 .. Len(h) /\ g[p] = i
    BY <1>2, <1>5 DEF p
  <2>2. p # NULL => d[p] = i
    BY <1>1, <2>1
  <2> QED
    BY <1>4, <2>2 DEF p
<1>7. s[i].role = "last" /\ v[i] # NULL => d[v[i]] = i - 1
  BY <1>1, <1>2, <1>3
<1> QED
  BY <1>6, <1>7

\* Popping and pushing.
LEMMA LabelsPrefix ==
  ASSUME NEW h, NEW v \in Seq(Nat), NEW s \in Stacks, NEW r \in Stacks, StackOK(h, v, s),
         Len(r) <= Len(s), \A i \in 1 .. Len(r) : r[i] = s[i],
         NEW g, Labelled(h, v, s, g)
  PROVE  Labelled(h, Prefix(v, Len(r)), r, g)
<1> DEFINE w == Prefix(v, Len(r))
<1>1. Len(r) \in 0 .. Len(v) /\ Len(s) \in Nat /\ Len(v) = Len(s)
  BY DEF StackOK, Stacks
<1>2. \A i \in 1 .. Len(r) : w[i] = v[i]
  BY <1>1, PrefixElements
<1>3. 1 .. Len(r) \subseteq 1 .. Len(s)
  BY <1>1
<1> HIDE DEF w
<1>4. Labelled(h, w, r, g)
  BY <1>2, <1>3 DEF Labelled
<1> QED
  BY <1>4 DEF w

LEMMA LabelsPush ==
  ASSUME NEW h, NEW v \in Seq(Nat), NEW s \in Stacks, Len(v) = Len(s),
         NEW p \in Nat, NEW k \in Kinds, NEW g, Labelled(h, v, s, g),
         Held(h, p, k) # NULL => g[Held(h, p, k)] = Len(s) + 1,
         k.role = "last" /\ p # NULL => g[p] = Len(s)
  PROVE  Labelled(h, Append(v, p), Push(s, k), g)
<1> DEFINE w == Append(v, p)
           t == Push(s, k)
           n == Len(s)
<1>1. /\ n \in Nat /\ w[n + 1] = p /\ \A i \in 1 .. n : w[i] = v[i]
  BY DEF Stacks
<1>2. Len(t) = n + 1 /\ t[n + 1] = k /\ \A i \in 1 .. n : t[i] = s[i]
  BY PushType
<1> HIDE DEF w, t
<1>3. ASSUME NEW i \in 1 .. n + 1
      PROVE  /\ Held(h, w[i], t[i]) # NULL => g[Held(h, w[i], t[i])] = i
             /\ t[i].role = "last" /\ w[i] # NULL => g[w[i]] = i - 1
  <2>1. CASE i \in 1 .. n
    <3>1. w[i] = v[i] /\ t[i] = s[i]
      BY <1>1, <1>2, <2>1
    <3> QED
      BY <2>1, <3>1 DEF Labelled
  <2>2. CASE i = n + 1
    <3>1. w[i] = p /\ t[i] = k /\ i - 1 = n
      BY <1>1, <1>2, <2>2
    <3> QED
      BY <2>2, <3>1
  <2> QED
    BY <1>1, <2>1, <2>2
<1>4. Labelled(h, w, t, g)
  BY <1>2, <1>3 DEF Labelled
<1> QED
  BY <1>4 DEF w, t

\* Popping a pointer changes no tree.
LEMMA GrovePop ==
  ASSUME NEW h, NEW v \in Seq(Nat), NEW r \in Stacks, NEW k \in Kinds,
         StackOK(h, v, Push(r, k)), Grove(h, v, Push(r, k))
  PROVE  Grove(h, Prefix(v, Len(r)), r)
<1> DEFINE s == Push(r, k)
<1>1. /\ s \in Stacks /\ Len(s) = Len(r) + 1 /\ \A i \in 1 .. Len(r) : s[i] = r[i]
  BY PushType
<1>2. Len(r) <= Len(s)
  BY <1>1 DEF Stacks
<1>3. StackOK(h, v, s) /\ Grove(h, v, s)
  OBVIOUS
<1> HIDE DEF s
<1>4. PICK b, c, g : Forest(h, b, c, g) /\ Labelled(h, v, s, g)
  BY <1>3 DEF Grove
<1>5. Labelled(h, Prefix(v, Len(r)), r, g)
  BY <1>1, <1>2, <1>3, <1>4, LabelsPrefix
<1> QED
  BY <1>4, <1>5 DEF Grove

\* Nor does pushing one that holds nothing.
LEMMA GrovePush ==
  ASSUME NEW h, NEW v \in Seq(Nat), NEW s \in Stacks, Len(v) = Len(s),
         NEW k \in Kinds, Grove(h, v, s)
  PROVE  Grove(h, Append(v, NULL), Push(s, k))
<1>1. PICK b, c, g : Forest(h, b, c, g) /\ Labelled(h, v, s, g)
  BY DEF Grove
<1>2. NULL \in Nat /\ Held(h, NULL, k) = NULL
  BY DEF NULL, Held
<1>3. Labelled(h, Append(v, NULL), Push(s, k), g)
  BY <1>1, <1>2, LabelsPush
<1> QED
  BY <1>1, <1>3 DEF Grove

\* Nodes that point where they pointed.
LEMMA SameForest ==
  ASSUME NEW h, NEW b, NEW c, NEW g, Forest(h, b, c, g), NEW m, Len(m) = Len(h),
         \A p \in 1 .. Len(h) : LinksOf(m, p) = LinksOf(h, p)
  PROVE  Forest(m, b, c, g)
BY DEF Forest, Ranked, Linked, Lower

LEMMA ForestLabels ==
  ASSUME NEW h, NEW b, NEW c, NEW g, Forest(h, b, c, g)
  PROVE  \A p \in 1 .. Len(h) : g[p] \in Nat
BY DEF Forest

\* Two and three pushes.
LEMMA PushType2 ==
  ASSUME NEW r \in Stacks, NEW a \in Kinds, NEW b \in Kinds, NEW n \in Nat, n = Len(r)
  PROVE  /\ Push(Push(r, a), b) \in Stacks /\ Len(Push(Push(r, a), b)) = n + 2
         /\ Push(Push(r, a), b)[n + 1] = a /\ Push(Push(r, a), b)[n + 2] = b
         /\ \A i \in 1 .. n : Push(Push(r, a), b)[i] = r[i]
<1> DEFINE q == Push(r, a)
           s == Push(q, b)
<1>1. q \in Stacks /\ Len(q) = n + 1 /\ q[n + 1] = a /\ \A i \in 1 .. n : q[i] = r[i]
  BY PushType
<1> HIDE DEF q
<1>2. s \in Stacks /\ Len(s) = Len(q) + 1 /\ s[Len(q) + 1] = b /\ \A i \in 1 .. Len(q) : s[i] = q[i]
  BY <1>1, PushType
<1> HIDE DEF s
<1>3. Len(q) + 1 = n + 2 /\ n + 1 \in 1 .. Len(q) /\ \A i \in 1 .. n : i \in 1 .. Len(q)
  BY <1>1
<1>4. s[n + 1] = a /\ \A i \in 1 .. n : s[i] = r[i]
  BY <1>1, <1>2, <1>3
<1> QED
  BY <1>2, <1>3, <1>4 DEF s, q

LEMMA PushType3 ==
  ASSUME NEW r \in Stacks, NEW a \in Kinds, NEW b \in Kinds, NEW c \in Kinds,
         NEW n \in Nat, n = Len(r)
  PROVE  LET s == Push(Push(Push(r, a), b), c)
         IN  /\ s \in Stacks /\ Len(s) = n + 3
             /\ s[n + 1] = a /\ s[n + 2] = b /\ s[n + 3] = c
             /\ \A i \in 1 .. n : s[i] = r[i]
<1> DEFINE q == Push(Push(r, a), b)
           s == Push(q, c)
<1>1. /\ q \in Stacks /\ Len(q) = n + 2 /\ q[n + 1] = a /\ q[n + 2] = b
      /\ \A i \in 1 .. n : q[i] = r[i]
  BY PushType2
<1> HIDE DEF q
<1>2. s \in Stacks /\ Len(s) = Len(q) + 1 /\ s[Len(q) + 1] = c /\ \A i \in 1 .. Len(q) : s[i] = q[i]
  BY <1>1, PushType
<1> HIDE DEF s
<1>3. /\ Len(q) + 1 = n + 3 /\ n + 1 \in 1 .. Len(q) /\ n + 2 \in 1 .. Len(q)
      /\ \A i \in 1 .. n : i \in 1 .. Len(q)
  BY <1>1
<1>4. s[n + 1] = a /\ s[n + 2] = b /\ \A i \in 1 .. n : s[i] = r[i]
  BY <1>1, <1>2, <1>3
<1> QED
  BY <1>2, <1>3, <1>4 DEF s, q

\* Most pointers are held as they are.
LEMMA HeldItself ==
  ASSUME NEW h, NEW p, NEW T
  PROVE  /\ T # Pairs => Held(h, p, Single(T)) = p /\ Held(h, p, First(T)) = p
                         /\ Held(h, p, List(T)) = p
         /\ Held(h, p, Single(Pairs)) = IF p = NULL THEN NULL ELSE h[p].kids[1]
BY DEF Held, Single, First, List, Kind

LEMMA ClassesApart ==
  /\ Consts # Pairs /\ Vars # Pairs /\ StmtTags # Pairs /\ CondTags # Pairs /\ ExprTags # Pairs
<1>1. \A T \in {Consts, Vars, StmtTags, CondTags, ExprTags} : "unset" \notin T
  BY DEF Consts, Vars, StmtTags, CondTags, ExprTags
<1> QED
  BY <1>1 DEF Pairs

-----------------------------------------------------------------------------
(* The types of instructions.                                              *)

\* What a function that needs none of the pointers in use returns.
Returns(f, k) ==
  \/ f \in {"parseyParse", "parseBlock"} /\ k = Single(Programs)
  \/ f = "parseConstDecls" /\ k = List(Consts)
  \/ f = "parseConstDecl" /\ k = First(Consts)
  \/ f \in {"parseConstIdent", "nextConstIdent"} /\ k = Single(Consts)
  \/ f = "parseVarDecls" /\ k = List(Vars)
  \/ f = "parseVarDecl" /\ k = First(Vars)
  \/ f = "parseVarIdent" /\ k = Single(Vars)
  \/ /\ f \in {"parseStmts", "parseStmt", "parseAssignStmt", "parseBeginStmt",
               "parseIfStmt", "parseWhileStmt", "parseReadStmt", "readIdent",
               "parseWriteStmt", "parseSkipStmt"}
     /\ k = Single(StmtTags)
  \/ f = "parseStmtList" /\ k = List(StmtTags)
  \/ f = "parseCondition" /\ k = Single(CondTags)
  \/ /\ f \in {"parseExpr", "parseTerm", "parseFactor", "parseIdentExpr",
               "parseParenExpr", "parseOpExpr", "parseNumber", "signedValue"}
     /\ k = Single(ExprTags)
  \/ f \in {"parseMultDivFactor", "parseAddSubTerm"} /\ k = Single(Pairs)

\* The loops that extend the list ret, with its end last, and return ret.
LoopOver(f, k, T) ==
  \/ f = "constDeclsLoop" /\ k = List(Consts) /\ T = Consts
  \/ f = "constDeclLoop" /\ k = First(Consts) /\ T = Consts
  \/ f = "varDeclsLoop" /\ k = List(Vars) /\ T = Vars
  \/ f = "varDeclLoop" /\ k = First(Vars) /\ T = Vars
  \/ f = "stmtListLoop" /\ k = List(StmtTags) /\ T = StmtTags

\* The pointers that the constructor of a node takes, on top of r.
Takes(node, r, s) ==
  \/ /\ node.tag \in {"const_decl_ast", "var_decl_ast", "read_ast", "skip_ast",
                      "ident_ast", "number_ast"}
     /\ s = r
  \/ /\ node.tag \in {"assign_ast", "write_ast", "odd_cond_ast", "unset"}
     /\ s = Push(r, Single(ExprTags))
  \/ node.tag = "begin_ast" /\ s = Push(r, First(StmtTags))
  \/ node.tag = "while_ast" /\ s = Push(Push(r, Single(CondTags)), Single(StmtTags))
  \/ node.tag = "bin_cond_ast" /\ s = Push(Push(r, Single(ExprTags)), Single(ExprTags))
  \/ /\ node.tag = "if_ast"
     /\ s = Push(Push(Push(r, Single(CondTags)), Single(StmtTags)), Single(StmtTags))

Classes == {Programs, Consts, Vars, StmtTags, CondTags, ExprTags, Pairs}

Makes(node, s, t) ==
  /\ node.next = NULL
  /\ OpFits(node)
  /\ \E r \in Stacks, T \in Classes :
       Takes(node, r, s) /\ node.tag \in T /\ t = Push(r, Single(T))

Extends(s, t) ==
  \E r \in Stacks, T \in ListClasses :
    \/ \E a \in {First(T), List(T)}, b \in {First(T), Single(T)} :
         /\ s = Push(Push(Push(r, a), Last(T)), b)
         /\ t = Push(Push(r, a), Last(T))
    \/ /\ s = Push(Push(Push(r, First(T)), Last(T)), List(T))
       /\ t = Push(Push(r, First(T)), Spent(T))

Effect(i, s, t) ==
  \/ i.do \in TokenTypes /\ t = s
  \/ \E k \in Kinds : Returns(i.do, k) /\ t = Push(s, k)
  \/ /\ i.do = "constNumber" /\ t = Push(s, Single(Consts))
     /\ i.node.tag = "const_decl_ast" /\ i.node.next = NULL
  \/ \E r \in Stacks, T \in ListClasses, k \in Kinds :
       /\ LoopOver(i.do, k, T)
       /\ s = Push(Push(r, k), Last(T))
       /\ t = Push(r, k)
  \/ /\ i.do \in {"exprLoop", "termLoop", "relocate"} /\ t = s
     /\ \E r \in Stacks : s = Push(r, Single(ExprTags))
  \/ /\ i.do = "which_one"
     /\ \E r \in Stacks : s = Push(r, Single(ExprTags)) /\ t = Push(r, Single(CondTags))
  \/ /\ i.do = "binExpr"
     /\ \E r \in Stacks : /\ s = Push(Push(r, Single(ExprTags)), Single(Pairs))
                          /\ t = Push(r, Single(ExprTags))
  \/ /\ i.do = "makeProgram"
     /\ \E r \in Stacks :
          /\ s = Push(Push(Push(r, List(Consts)), List(Vars)), Single(StmtTags))
          /\ t = Push(r, Single(Programs))
  \/ /\ i.do = "startList"
     /\ \E r \in Stacks, T \in ListClasses :
          s = Push(r, Single(T)) /\ t = Push(Push(r, First(T)), Last(T))
  \/ i.do = "add_AST_to_end" /\ Extends(s, t)
  \/ /\ i.do = "dropLast"
     /\ \E r \in Stacks, T \in ListClasses :
          s = Push(Push(r, First(T)), Spent(T)) /\ t = Push(r, First(T))
  \/ i.do = "make" /\ Makes(i.node, s, t)

-----------------------------------------------------------------------------
(* The types of sequences of instructions.                                 *)

\* The sequence p takes the stack s to the stack t.
Flows(p, s, t) ==
  /\ \E S : p \in Seq(S)
  /\ \E ts \in Seq(Stacks) :
       /\ Len(ts) = Len(p) + 1 /\ ts[1] = s /\ ts[Len(p) + 1] = t
       /\ \A k \in 1 .. Len(p) : Effect(p[k], ts[k], ts[k + 1])

LEMMA FlowsHead ==
  ASSUME NEW p, NEW s, NEW t, Flows(p, s, t), p # <<>>
  PROVE  \E m \in Stacks : Effect(Head(p), s, m) /\ Flows(Tail(p), m, t)
<1>1. PICK S : p \in Seq(S)
  BY DEF Flows
<1>2. PICK ts \in Seq(Stacks) :
        /\ Len(ts) = Len(p) + 1 /\ ts[1] = s /\ ts[Len(p) + 1] = t
        /\ \A k \in 1 .. Len(p) : Effect(p[k], ts[k], ts[k + 1])
  BY DEF Flows
<1> DEFINE n == Len(p)
           q == Tail(p)
           us == Tail(ts)
<1>3. n \in Nat /\ n >= 1 /\ Head(p) = p[1]
  BY <1>1
<1>4. /\ q \in Seq(S) /\ Len(q) = n - 1
      /\ \A k \in 1 .. n - 1 : q[k] = p[k + 1]
  BY <1>1, <1>3
<1>5. /\ us \in Seq(Stacks) /\ Len(us) = n
      /\ \A k \in 1 .. n : us[k] = ts[k + 1]
      /\ us[1] \in Stacks
  BY <1>2, <1>3
<1> HIDE DEF n, q, us
<1>6. Effect(Head(p), s, us[1])
  BY <1>2, <1>3, <1>5 DEF n
<1>7. us[Len(q) + 1] = t
  BY <1>2, <1>3, <1>4, <1>5 DEF n
<1>8. \A k \in 1 .. Len(q) : Effect(q[k], us[k], us[k + 1])
  <2> TAKE k \in 1 .. Len(q)
  <2>1. k \in 1 .. n - 1 /\ k \in 1 .. n /\ k + 1 \in 1 .. n /\ k + 1 \in 1 .. Len(p)
    BY <1>3, <1>4 DEF n
  <2>2. Effect(p[k + 1], ts[k + 1], ts[k + 1 + 1])
    BY <1>2, <2>1
  <2>3. q[k] = p[k + 1] /\ us[k] = ts[k + 1] /\ us[k + 1] = ts[k + 1 + 1]
    BY <1>4, <1>5, <2>1
  <2> QED
    BY <2>2, <2>3
<1>9. Flows(q, us[1], t)
  <2>1. (\E V : q \in Seq(V)) /\ Len(us) = Len(q) + 1
    BY <1>3, <1>4, <1>5
  <2> QED
    BY <1>5, <1>7, <1>8, <2>1 DEF Flows
<1> QED
  BY <1>5, <1>6, <1>9 DEF q

LEMMA FlowsConcat ==
  ASSUME NEW p, NEW q, NEW s, NEW m, NEW t, Flows(p, s, m), Flows(q, m, t)
  PROVE  Flows(p \o q, s, t)
<1>1. PICK S : p \in Seq(S)
  BY DEF Flows
<1>2. PICK T : q \in Seq(T)
  BY DEF Flows
<1>3. PICK ts \in Seq(Stacks) :
        /\ Len(ts) = Len(p) + 1 /\ ts[1] = s /\ ts[Len(p) + 1] = m
        /\ \A k \in 1 .. Len(p) : Effect(p[k], ts[k], ts[k + 1])
  BY DEF Flows
<1>4. PICK us \in Seq(Stacks) :
        /\ Len(us) = Len(q) + 1 /\ us[1] = m /\ us[Len(q) + 1] = t
        /\ \A k \in 1 .. Len(q) : Effect(q[k], us[k], us[k + 1])
  BY DEF Flows
<1> DEFINE a == Len(p)
           b == Len(q)
           w == p \o q
           vs == [k \in 1 .. a + b + 1 |-> IF k <= a THEN ts[k] ELSE us[k - a]]
<1>5. a \in Nat /\ b \in Nat
  BY <1>1, <1>2
<1>6. p \in Seq(S \cup T) /\ q \in Seq(S \cup T)
  BY <1>1, <1>2
<1>7. /\ w \in Seq(S \cup T) /\ Len(w) = a + b
      /\ \A k \in 1 .. a + b : w[k] = IF k <= a THEN p[k] ELSE q[k - a]
  BY <1>5, <1>6
<1>8. /\ vs \in Seq(Stacks) /\ Len(vs) = a + b + 1
      /\ \A k \in 1 .. a + b + 1 : vs[k] = IF k <= a THEN ts[k] ELSE us[k - a]
  BY <1>3, <1>4, <1>5
<1> HIDE DEF a, b, w, vs
<1>9. vs[a + 1] = us[1] /\ us[1] = m /\ ts[a + 1] = m
  BY <1>3, <1>4, <1>5, <1>8 DEF a
<1>10. vs[1] = s
  <2>1. CASE a = 0
    BY <1>3, <1>5, <1>9, <2>1
  <2>2. CASE a # 0
    BY <1>3, <1>5, <1>8, <2>2
  <2> QED
    BY <2>1, <2>2
<1>11. vs[a + b + 1] = t
  <2>1. a + b + 1 - a = b + 1 /\ a + b + 1 \in 1 .. a + b + 1
    BY <1>5
  <2>2. vs[a + b + 1] = us[b + 1]
    BY <1>5, <1>8, <2>1
  <2> QED
    BY <1>4, <2>2 DEF b
<1>12. \A k \in 1 .. a + b : Effect(w[k], vs[k], vs[k + 1])
  <2> TAKE k \in 1 .. a + b
  <2>1. CASE k \in 1 .. a
    <3>1. Effect(p[k], ts[k], ts[k + 1])
      BY <1>3, <2>1 DEF a
    <3>2. w[k] = p[k] /\ vs[k] = ts[k]
      BY <1>5, <1>7, <1>8, <2>1
    <3>3. vs[k + 1] = ts[k + 1]
      <4>1. CASE k = a
        BY <1>9, <4>1
      <4>2. CASE k # a
        BY <1>5, <1>8, <2>1, <4>2
      <4> QED
        BY <4>1, <4>2
    <3> QED
      BY <3>1, <3>2, <3>3
  <2>2. CASE k \in a + 1 .. a + b
    <3>1. k - a \in 1 .. b
      BY <1>5, <2>2
    <3>2. Effect(q[k - a], us[k - a], us[k - a + 1])
      BY <1>4, <3>1 DEF b
    <3>3. w[k] = q[k - a]
      BY <1>5, <1>7, <2>2
    <3>4. vs[k] = us[k - a]
      BY <1>5, <1>8, <2>2
    <3>5. vs[k + 1] = us[k - a + 1]
      <4>1. k + 1 - a = k - a + 1 /\ k + 1 \in 1 .. a + b + 1 /\ ~(k + 1 <= a)
        BY <1>5, <2>2
      <4>2. \A j \in 1 .. a + b + 1 : ~(j <= a) => vs[j] = us[j - a]
        BY <1>8
      <4>3. vs[k + 1] = us[k + 1 - a]
        BY <1>5, <2>2, <4>1, <4>2
      <4> QED
        BY <4>1, <4>3
    <3> QED
      BY <3>2, <3>3, <3>4, <3>5
  <2> QED
    BY <1>5, <2>1, <2>2
<1>13. \E V : w \in Seq(V)
  BY <1>7
<1>14. Flows(w, s, t)
  BY <1>7, <1>8, <1>10, <1>11, <1>12, <1>13 DEF Flows
<1> QED
  BY <1>14 DEF w

\* A body written out.
LEMMA Flows0 == ASSUME NEW s \in Stacks PROVE Flows(<<>>, s, s)
<1> DEFINE ts == <<s>>
<1>1. ts \in Seq(Stacks) /\ Len(ts) = 1 /\ ts[1] = s
  OBVIOUS
<1>2. <<>> \in Seq({}) /\ Len(<<>>) = 0
  OBVIOUS
<1> HIDE DEF ts
<1> QED
  BY <1>1, <1>2 DEF Flows

LEMMA Flows1 ==
  ASSUME NEW a,
         NEW s \in Stacks, NEW t \in Stacks,
         Effect(a, s, t)
  PROVE  Flows(<<a>>, s, t)
<1> DEFINE p == <<a>>
           ts == <<s, t>>
<1>1. p \in Seq({a}) /\ Len(p) = 1 /\ p[1] = a
  OBVIOUS
<1>2. /\ ts \in Seq(Stacks) /\ Len(ts) = 2
      /\ ts[1] = s /\ ts[2] = t
  OBVIOUS
<1> HIDE DEF p, ts
<1>3. \A k \in 1 .. Len(p) : Effect(p[k], ts[k], ts[k + 1])
  BY <1>1, <1>2
<1>4. \E S : p \in Seq(S)
  BY <1>1
<1>5. Flows(p, s, t)
  BY <1>1, <1>2, <1>3, <1>4 DEF Flows
<1> QED
  BY <1>5 DEF p

LEMMA Flows2 ==
  ASSUME NEW a, NEW b,
         NEW s \in Stacks, NEW m1 \in Stacks, NEW t \in Stacks,
         Effect(a, s, m1), Effect(b, m1, t)
  PROVE  Flows(<<a, b>>, s, t)
<1> DEFINE p == <<a, b>>
           ts == <<s, m1, t>>
<1>1. p \in Seq({a, b}) /\ Len(p) = 2 /\ p[1] = a /\ p[2] = b
  OBVIOUS
<1>2. /\ ts \in Seq(Stacks) /\ Len(ts) = 3
      /\ ts[1] = s /\ ts[2] = m1 /\ ts[3] = t
  OBVIOUS
<1> HIDE DEF p, ts
<1>3. \A k \in 1 .. Len(p) : Effect(p[k], ts[k], ts[k + 1])
  BY <1>1, <1>2
<1>4. \E S : p \in Seq(S)
  BY <1>1
<1>5. Flows(p, s, t)
  BY <1>1, <1>2, <1>3, <1>4 DEF Flows
<1> QED
  BY <1>5 DEF p

LEMMA Flows3 ==
  ASSUME NEW a, NEW b, NEW c,
         NEW s \in Stacks, NEW m1 \in Stacks, NEW m2 \in Stacks, NEW t \in Stacks,
         Effect(a, s, m1), Effect(b, m1, m2), Effect(c, m2, t)
  PROVE  Flows(<<a, b, c>>, s, t)
<1> DEFINE p == <<a, b, c>>
           ts == <<s, m1, m2, t>>
<1>1. p \in Seq({a, b, c}) /\ Len(p) = 3 /\ p[1] = a /\ p[2] = b /\ p[3] = c
  OBVIOUS
<1>2. /\ ts \in Seq(Stacks) /\ Len(ts) = 4
      /\ ts[1] = s /\ ts[2] = m1 /\ ts[3] = m2 /\ ts[4] = t
  OBVIOUS
<1> HIDE DEF p, ts
<1>3. \A k \in 1 .. Len(p) : Effect(p[k], ts[k], ts[k + 1])
  BY <1>1, <1>2
<1>4. \E S : p \in Seq(S)
  BY <1>1
<1>5. Flows(p, s, t)
  BY <1>1, <1>2, <1>3, <1>4 DEF Flows
<1> QED
  BY <1>5 DEF p

LEMMA Flows4 ==
  ASSUME NEW a, NEW b, NEW c, NEW d,
         NEW s \in Stacks, NEW m1 \in Stacks, NEW m2 \in Stacks, NEW m3 \in Stacks, NEW t \in Stacks,
         Effect(a, s, m1), Effect(b, m1, m2), Effect(c, m2, m3), Effect(d, m3, t)
  PROVE  Flows(<<a, b, c, d>>, s, t)
<1> DEFINE p == <<a, b, c, d>>
           ts == <<s, m1, m2, m3, t>>
<1>1. p \in Seq({a, b, c, d}) /\ Len(p) = 4 /\ p[1] = a /\ p[2] = b /\ p[3] = c /\ p[4] = d
  OBVIOUS
<1>2. /\ ts \in Seq(Stacks) /\ Len(ts) = 5
      /\ ts[1] = s /\ ts[2] = m1 /\ ts[3] = m2 /\ ts[4] = m3 /\ ts[5] = t
  OBVIOUS
<1> HIDE DEF p, ts
<1>3. \A k \in 1 .. Len(p) : Effect(p[k], ts[k], ts[k + 1])
  BY <1>1, <1>2
<1>4. \E S : p \in Seq(S)
  BY <1>1
<1>5. Flows(p, s, t)
  BY <1>1, <1>2, <1>3, <1>4 DEF Flows
<1> QED
  BY <1>5 DEF p

LEMMA Flows5 ==
  ASSUME NEW a, NEW b, NEW c, NEW d, NEW e,
         NEW s \in Stacks, NEW m1 \in Stacks, NEW m2 \in Stacks, NEW m3 \in Stacks, NEW m4 \in Stacks, NEW t \in Stacks,
         Effect(a, s, m1), Effect(b, m1, m2), Effect(c, m2, m3), Effect(d, m3, m4), Effect(e, m4, t)
  PROVE  Flows(<<a, b, c, d, e>>, s, t)
<1> DEFINE p == <<a, b, c, d, e>>
           ts == <<s, m1, m2, m3, m4, t>>
<1>1. p \in Seq({a, b, c, d, e}) /\ Len(p) = 5 /\ p[1] = a /\ p[2] = b /\ p[3] = c /\ p[4] = d /\ p[5] = e
  OBVIOUS
<1>2. /\ ts \in Seq(Stacks) /\ Len(ts) = 6
      /\ ts[1] = s /\ ts[2] = m1 /\ ts[3] = m2 /\ ts[4] = m3 /\ ts[5] = m4 /\ ts[6] = t
  OBVIOUS
<1> HIDE DEF p, ts
<1>3. \A k \in 1 .. Len(p) : Effect(p[k], ts[k], ts[k + 1])
  BY <1>1, <1>2
<1>4. \E S : p \in Seq(S)
  BY <1>1
<1>5. Flows(p, s, t)
  BY <1>1, <1>2, <1>3, <1>4 DEF Flows
<1> QED
  BY <1>5 DEF p

LEMMA Flows7 ==
  ASSUME NEW a, NEW b, NEW c, NEW d, NEW e, NEW f, NEW g,
         NEW s \in Stacks, NEW m1 \in Stacks, NEW m2 \in Stacks, NEW m3 \in Stacks,
         NEW m4 \in Stacks, NEW m5 \in Stacks, NEW m6 \in Stacks, NEW t \in Stacks,
         Effect(a, s, m1), Effect(b, m1, m2), Effect(c, m2, m3),
         Effect(d, m3, m4), Effect(e, m4, m5), Effect(f, m5, m6),
         Effect(g, m6, t)
  PROVE  Flows(<<a, b, c, d, e, f, g>>, s, t)
<1> DEFINE p == <<a, b, c, d, e, f, g>>
           ts == <<s, m1, m2, m3, m4, m5, m6, t>>
<1>1. /\ p \in Seq({a, b, c, d, e, f, g}) /\ Len(p) = 7
      /\ p[1] = a /\ p[2] = b /\ p[3] = c /\ p[4] = d /\ p[5] = e /\ p[6] = f /\ p[7] = g
  OBVIOUS
<1>2. /\ ts \in Seq(Stacks) /\ Len(ts) = 8
      /\ ts[1] = s /\ ts[2] = m1 /\ ts[3] = m2 /\ ts[4] = m3 /\ ts[5] = m4
      /\ ts[6] = m5 /\ ts[7] = m6 /\ ts[8] = t
  OBVIOUS
<1> HIDE DEF p, ts
<1>3. \A k \in 1 .. Len(p) : Effect(p[k], ts[k], ts[k + 1])
  BY <1>1, <1>2
<1>4. \E S : p \in Seq(S)
  BY <1>1
<1>5. Flows(p, s, t)
  BY <1>1, <1>2, <1>3, <1>4 DEF Flows
<1> QED
  BY <1>5 DEF p

LEMMA Flows8 ==
  ASSUME NEW a, NEW b, NEW c, NEW d, NEW e, NEW f, NEW g, NEW h,
         NEW s \in Stacks, NEW m1 \in Stacks, NEW m2 \in Stacks, NEW m3 \in Stacks,
         NEW m4 \in Stacks, NEW m5 \in Stacks, NEW m6 \in Stacks, NEW m7 \in Stacks,
         NEW t \in Stacks,
         Effect(a, s, m1), Effect(b, m1, m2), Effect(c, m2, m3),
         Effect(d, m3, m4), Effect(e, m4, m5), Effect(f, m5, m6),
         Effect(g, m6, m7), Effect(h, m7, t)
  PROVE  Flows(<<a, b, c, d, e, f, g, h>>, s, t)
<1> DEFINE p == <<a, b, c, d, e, f, g, h>>
           ts == <<s, m1, m2, m3, m4, m5, m6, m7, t>>
<1>1. /\ p \in Seq({a, b, c, d, e, f, g, h}) /\ Len(p) = 8
      /\ p[1] = a /\ p[2] = b /\ p[3] = c /\ p[4] = d /\ p[5] = e /\ p[6] = f /\ p[7] = g /\ p[8] = h
  OBVIOUS
<1>2. /\ ts \in Seq(Stacks) /\ Len(ts) = 9
      /\ ts[1] = s /\ ts[2] = m1 /\ ts[3] = m2 /\ ts[4] = m3 /\ ts[5] = m4
      /\ ts[6] = m5 /\ ts[7] = m6 /\ ts[8] = m7 /\ ts[9] = t
  OBVIOUS
<1> HIDE DEF p, ts
<1>3. \A k \in 1 .. Len(p) : Effect(p[k], ts[k], ts[k + 1])
  BY <1>1, <1>2
<1>4. \E S : p \in Seq(S)
  BY <1>1
<1>5. Flows(p, s, t)
  BY <1>1, <1>2, <1>3, <1>4 DEF Flows
<1> QED
  BY <1>5 DEF p

-----------------------------------------------------------------------------
(* The type of each instruction, and what an instruction's type says.      *)

LEMMA KindTypes ==
  /\ \A T \in Classes : /\ Single(T) \in Kinds /\ First(T) \in Kinds /\ List(T) \in Kinds
                        /\ Last(T) \in Kinds /\ Spent(T) \in Kinds
  /\ ListClasses \subseteq Classes
  /\ {Programs, Consts, Vars, StmtTags, CondTags, ExprTags, Pairs} \subseteq Classes
  /\ {Consts, Vars, StmtTags} \subseteq ListClasses
<1>1. \A T \in Classes : T \in SUBSET AstTags
  BY DEF Classes, Programs, Consts, Vars, Pairs, AstTags, ListTags
<1>2. /\ \A T \in Classes : /\ Single(T) \in Kinds /\ First(T) \in Kinds /\ List(T) \in Kinds
                            /\ Last(T) \in Kinds /\ Spent(T) \in Kinds
  BY <1>1 DEF Kinds, Roles, Kind, Single, First, List, Last, Spent
<1> QED
  BY <1>2 DEF Classes, ListClasses

LEMMA EatEffect ==
  ASSUME NEW tt \in TokenTypes, NEW s
  PROVE  Effect(eat(tt), s, s)
BY DEF Effect, eat, Instr

LEMMA CallEffect ==
  ASSUME NEW f, NEW k \in Kinds, Returns(f, k), NEW tok, NEW s
  PROVE  Effect(Call(f), s, Push(s, k)) /\ Effect(CallWith(f, tok), s, Push(s, k))
BY DEF Effect, Call, CallWith, Instr

LEMMA ConstNumberEffect ==
  ASSUME NEW node, node.tag = "const_decl_ast", node.next = NULL, NEW s
  PROVE  Effect(Finish("constNumber", node), s, Push(s, Single(Consts)))
BY DEF Effect, Finish, Instr

LEMMA MakeEffect ==
  ASSUME NEW node, node.next = NULL, OpFits(node), NEW r \in Stacks, NEW s,
         NEW T \in Classes, Takes(node, r, s), node.tag \in T
  PROVE  Effect(Make(node), s, Push(r, Single(T)))
BY DEF Effect, Makes, Make, Instr

LEMMA LoopEffect ==
  ASSUME NEW f, NEW k \in Kinds, NEW T \in ListClasses, LoopOver(f, k, T),
         NEW tok, NEW r \in Stacks
  PROVE  /\ Effect(Call(f), Push(Push(r, k), Last(T)), Push(r, k))
         /\ Effect(CallWith(f, tok), Push(Push(r, k), Last(T)), Push(r, k))
BY DEF Effect, Call, CallWith, Instr

LEMMA AddEffect ==
  ASSUME NEW T \in ListClasses, NEW a \in {First(T), List(T)}, NEW r \in Stacks,
         NEW b \in {First(T), Single(T)}
  PROVE  Effect(Call("add_AST_to_end"),
                Push(Push(Push(r, a), Last(T)), b), Push(Push(r, a), Last(T)))
BY DEF Effect, Extends, Call, Instr

LEMMA AddRestEffect ==
  ASSUME NEW T \in ListClasses, NEW r \in Stacks
  PROVE  Effect(Call("add_AST_to_end"),
                Push(Push(Push(r, First(T)), Last(T)), List(T)),
                Push(Push(r, First(T)), Spent(T)))
BY DEF Effect, Extends, Call, Instr

LEMMA StartEffect ==
  ASSUME NEW T \in ListClasses, NEW r \in Stacks
  PROVE  Effect(Call("startList"), Push(r, Single(T)), Push(Push(r, First(T)), Last(T)))
BY DEF Effect, Call, Instr

LEMMA DropEffect ==
  ASSUME NEW T \in ListClasses, NEW r \in Stacks
  PROVE  Effect(Call("dropLast"), Push(Push(r, First(T)), Spent(T)), Push(r, First(T)))
BY DEF Effect, Call, Instr

\* What is known when an instruction is executed.
LEMMA EffectOfReturns ==
  ASSUME NEW i, NEW s, NEW t, Effect(i, s, t), NEW k, Returns(i.do, k)
  PROVE  t = Push(s, k)
<1>1. i.do \notin TokenTypes
  BY DEF Returns, TokenTypes
<1>2. \A l : Returns(i.do, l) => l = k
  BY DEF Returns
<1>3. \A m, T : ~LoopOver(i.do, m, T)
  BY DEF Returns, LoopOver
<1>4. i.do \notin {"constNumber", "exprLoop", "termLoop", "relocate", "which_one", "binExpr",
                   "makeProgram", "startList", "add_AST_to_end", "dropLast", "make"}
  BY DEF Returns
<1> QED
  BY <1>1, <1>2, <1>3, <1>4 DEF Effect

LEMMA EffectOfLoop ==
  ASSUME NEW i, NEW s, NEW t, Effect(i, s, t), NEW k, NEW T, LoopOver(i.do, k, T)
  PROVE  \E r \in Stacks : s = Push(Push(r, k), Last(T)) /\ t = Push(r, k)
<1>1. i.do \notin TokenTypes
  BY DEF LoopOver, TokenTypes
<1>2. \A l, U : LoopOver(i.do, l, U) => l = k /\ U = T
  BY DEF LoopOver
<1>3. \A m : ~Returns(i.do, m)
  BY DEF Returns, LoopOver
<1>4. i.do \notin {"constNumber", "exprLoop", "termLoop", "relocate", "which_one", "binExpr",
                   "makeProgram", "startList", "add_AST_to_end", "dropLast", "make"}
  BY DEF LoopOver
<1> QED
  BY <1>1, <1>2, <1>3, <1>4 DEF Effect

Others == {"constNumber", "exprLoop", "termLoop", "relocate", "which_one", "binExpr",
           "makeProgram", "startList", "add_AST_to_end", "dropLast", "make"}

LEMMA EffectOfOthers ==
  ASSUME NEW i, NEW s, NEW t, Effect(i, s, t), i.do \in Others
  PROVE  /\ i.do = "constNumber" =>
              t = Push(s, Single(Consts)) /\ i.node.tag = "const_decl_ast" /\ i.node.next = NULL
         /\ i.do \in {"exprLoop", "termLoop", "relocate"} =>
              t = s /\ \E r \in Stacks : s = Push(r, Single(ExprTags))
         /\ i.do = "which_one" =>
              \E r \in Stacks : s = Push(r, Single(ExprTags)) /\ t = Push(r, Single(CondTags))
         /\ i.do = "binExpr" =>
              \E r \in Stacks : /\ s = Push(Push(r, Single(ExprTags)), Single(Pairs))
                                /\ t = Push(r, Single(ExprTags))
         /\ i.do = "makeProgram" =>
              \E r \in Stacks :
                 /\ s = Push(Push(Push(r, List(Consts)), List(Vars)), Single(StmtTags))
                 /\ t = Push(r, Single(Programs))
         /\ i.do = "startList" =>
              \E r \in Stacks, T \in ListClasses :
                 s = Push(r, Single(T)) /\ t = Push(Push(r, First(T)), Last(T))
         /\ i.do = "add_AST_to_end" => Extends(s, t)
         /\ i.do = "dropLast" =>
              \E r \in Stacks, T \in ListClasses :
                 s = Push(Push(r, First(T)), Spent(T)) /\ t = Push(r, First(T))
         /\ i.do = "make" => Makes(i.node, s, t)
<1>1. i.do \notin TokenTypes
  BY DEF Others, TokenTypes
<1>2. \A m, T : ~LoopOver(i.do, m, T)
  BY DEF Others, LoopOver
<1>3. \A m : ~Returns(i.do, m)
  BY DEF Returns, Others
<1>4. CASE i.do = "constNumber"
  BY <1>1, <1>2, <1>3, <1>4 DEF Effect
<1>5. CASE i.do \in {"exprLoop", "termLoop", "relocate"}
  BY <1>1, <1>2, <1>3, <1>5 DEF Effect
<1>6. CASE i.do = "which_one"
  BY <1>1, <1>2, <1>3, <1>6 DEF Effect
<1>7. CASE i.do = "binExpr"
  BY <1>1, <1>2, <1>3, <1>7 DEF Effect
<1>8. CASE i.do = "makeProgram"
  BY <1>1, <1>2, <1>3, <1>8 DEF Effect
<1>9. CASE i.do = "startList"
  BY <1>1, <1>2, <1>3, <1>9 DEF Effect
<1>10. CASE i.do = "add_AST_to_end"
  BY <1>1, <1>2, <1>3, <1>10 DEF Effect
<1>11. CASE i.do = "dropLast"
  BY <1>1, <1>2, <1>3, <1>11 DEF Effect
<1>12. CASE i.do = "make"
  BY <1>1, <1>2, <1>3, <1>12 DEF Effect
<1> QED
  BY <1>4, <1>5, <1>6, <1>7, <1>8, <1>9, <1>10, <1>11, <1>12 DEF Others

LEMMA EffectOfEat ==
  ASSUME NEW i, NEW s, NEW t, Effect(i, s, t), i.do \in TokenTypes
  PROVE  t = s
<1>1. i.do \notin Others
  BY DEF Others, TokenTypes
<1>2. \A m, T : ~LoopOver(i.do, m, T)
  BY DEF LoopOver, TokenTypes
<1>3. \A m : ~Returns(i.do, m)
  BY DEF Returns, TokenTypes
<1> QED
  BY <1>1, <1>2, <1>3 DEF Effect, Others

-----------------------------------------------------------------------------
(* The invariant.                                                          *)

Final == Push(<<>>, Single(Programs))

Typed(h, v, p) ==
  \E s \in Stacks : Flows(p, s, Final) /\ StackOK(h, v, s) /\ Owned(h, v, s)

TreeInv ==
  /\ ControlOK
  /\ HeapOK(heap)
  /\ vals \in Seq(Nat)
  /\ Typed(heap, vals, todo)

\* A step that replaces the head of the computation by a body of its type.
LEMMA DoStep ==
  ASSUME TreeInv, ControlOK', todo # <<>>, NEW body, todo' = body \o Tail(todo),
         UNCHANGED <<heap, vals>>,
         \A s, t \in Stacks : Effect(Head(todo), s, t) => Flows(body, s, t)
  PROVE  TreeInv'
<1>1. PICK s \in Stacks : /\ Flows(todo, s, Final) /\ StackOK(heap, vals, s)
                          /\ Owned(heap, vals, s)
  BY DEF TreeInv, Typed
<1>2. PICK m \in Stacks : Effect(Head(todo), s, m) /\ Flows(Tail(todo), m, Final)
  BY <1>1, FlowsHead
<1>3. Flows(body, s, m)
  BY <1>2
<1>4. Flows(todo', s, Final)
  BY <1>2, <1>3, FlowsConcat
<1>5. Typed(heap, vals, todo')
  BY <1>1, <1>4 DEF Typed
<1> QED
  BY <1>5 DEF TreeInv

-----------------------------------------------------------------------------
(* Calls: the body of each function has the type of the function.          *)

LEMMA Pushed ==
  ASSUME NEW s \in Stacks, NEW T \in Classes
  PROVE  /\ Push(s, Single(T)) \in Stacks /\ Push(s, First(T)) \in Stacks
         /\ Push(s, List(T)) \in Stacks /\ Push(s, Last(T)) \in Stacks
         /\ Push(s, Spent(T)) \in Stacks
BY PushType, KindTypes

\* The templates of the constructors.
LEMMA Templates ==
  ASSUME NEW t
  PROVE  /\ \A text, n : /\ ast_const_def(t, text, n).tag = "const_decl_ast"
                         /\ ast_const_def(t, text, n).next = NULL
         /\ \A text : /\ ast_var_decl(t, text).tag = "var_decl_ast"
                      /\ ast_var_decl(t, text).next = NULL
                      /\ ast_assign_stmt(t, text).tag = "assign_ast"
                      /\ ast_assign_stmt(t, text).next = NULL
                      /\ ast_read_stmt(t, text).tag = "read_ast"
                      /\ ast_read_stmt(t, text).next = NULL
                      /\ ast_ident(t, text).tag = "ident_ast"
                      /\ ast_ident(t, text).next = NULL
         /\ ast_begin_stmt(t).tag = "begin_ast" /\ ast_begin_stmt(t).next = NULL
         /\ ast_if_stmt(t).tag = "if_ast" /\ ast_if_stmt(t).next = NULL
         /\ ast_while_stmt(t).tag = "while_ast" /\ ast_while_stmt(t).next = NULL
         /\ ast_write_stmt(t).tag = "write_ast" /\ ast_write_stmt(t).next = NULL
         /\ ast_skip_stmt(t).tag = "skip_ast" /\ ast_skip_stmt(t).next = NULL
         /\ ast_odd_cond(t).tag = "odd_cond_ast" /\ ast_odd_cond(t).next = NULL
         /\ \A n : ast_number(t, n).tag = "number_ast" /\ ast_number(t, n).next = NULL
         /\ \A op : /\ ast_bin_cond(t, op).tag = "bin_cond_ast"
                    /\ ast_bin_cond(t, op).next = NULL /\ ast_bin_cond(t, op).op = op
                    /\ ast_op_expr(t, op).tag = "unset"
                    /\ ast_op_expr(t, op).next = NULL /\ ast_op_expr(t, op).op = op
BY DEF ast_allocate, ast_const_def, ast_var_decl, ast_assign_stmt, ast_begin_stmt,
  ast_if_stmt, ast_while_stmt, ast_read_stmt, ast_write_stmt, ast_skip_stmt,
  ast_odd_cond, ast_bin_cond, ast_op_expr, ast_ident, ast_number

LEMMA MakeEffects ==
  ASSUME NEW t, NEW r \in Stacks
  PROVE  /\ \A text :
              /\ Effect(Make(ast_var_decl(t, text)), r, Push(r, Single(Vars)))
              /\ Effect(Make(ast_assign_stmt(t, text)),
                        Push(r, Single(ExprTags)), Push(r, Single(StmtTags)))
              /\ Effect(Make(ast_read_stmt(t, text)), r, Push(r, Single(StmtTags)))
              /\ Effect(Make(ast_ident(t, text)), r, Push(r, Single(ExprTags)))
         /\ Effect(Make(ast_begin_stmt(t)),
                   Push(r, First(StmtTags)), Push(r, Single(StmtTags)))
         /\ Effect(Make(ast_if_stmt(t)),
                   Push(Push(Push(r, Single(CondTags)), Single(StmtTags)), Single(StmtTags)),
                   Push(r, Single(StmtTags)))
         /\ Effect(Make(ast_while_stmt(t)),
                   Push(Push(r, Single(CondTags)), Single(StmtTags)), Push(r, Single(StmtTags)))
         /\ Effect(Make(ast_write_stmt(t)), Push(r, Single(ExprTags)), Push(r, Single(StmtTags)))
         /\ Effect(Make(ast_skip_stmt(t)), r, Push(r, Single(StmtTags)))
         /\ Effect(Make(ast_odd_cond(t)), Push(r, Single(ExprTags)), Push(r, Single(CondTags)))
         /\ \A n : Effect(Make(ast_number(t, n)), r, Push(r, Single(ExprTags)))
         /\ \A op \in RelOps \cup {GarbageOp} :
              Effect(Make(ast_bin_cond(t, op)),
                     Push(Push(r, Single(ExprTags)), Single(ExprTags)), Push(r, Single(CondTags)))
         /\ \A op \in ArithOps :
              Effect(Make(ast_op_expr(t, op)), Push(r, Single(ExprTags)), Push(r, Single(Pairs)))
<1>1. ASSUME NEW text
      PROVE  /\ Effect(Make(ast_var_decl(t, text)), r, Push(r, Single(Vars)))
             /\ Effect(Make(ast_assign_stmt(t, text)),
                       Push(r, Single(ExprTags)), Push(r, Single(StmtTags)))
             /\ Effect(Make(ast_read_stmt(t, text)), r, Push(r, Single(StmtTags)))
             /\ Effect(Make(ast_ident(t, text)), r, Push(r, Single(ExprTags)))
  <2>1. /\ ast_var_decl(t, text).tag = "var_decl_ast" /\ ast_var_decl(t, text).next = NULL
        /\ ast_assign_stmt(t, text).tag = "assign_ast" /\ ast_assign_stmt(t, text).next = NULL
        /\ ast_read_stmt(t, text).tag = "read_ast" /\ ast_read_stmt(t, text).next = NULL
        /\ ast_ident(t, text).tag = "ident_ast" /\ ast_ident(t, text).next = NULL
    BY Templates
  <2>2. Effect(Make(ast_var_decl(t, text)), r, Push(r, Single(Vars)))
    BY <2>1, MakeEffect, KindTypes DEF OpFits, Takes, Vars
  <2>3. Effect(Make(ast_assign_stmt(t, text)), Push(r, Single(ExprTags)), Push(r, Single(StmtTags)))
    BY <2>1, MakeEffect, KindTypes DEF OpFits, Takes, StmtTags
  <2>4. Effect(Make(ast_read_stmt(t, text)), r, Push(r, Single(StmtTags)))
    BY <2>1, MakeEffect, KindTypes DEF OpFits, Takes, StmtTags
  <2>5. Effect(Make(ast_ident(t, text)), r, Push(r, Single(ExprTags)))
    BY <2>1, MakeEffect, KindTypes DEF OpFits, Takes, ExprTags
  <2> QED
    BY <2>2, <2>3, <2>4, <2>5
<1>2. /\ Effect(Make(ast_begin_stmt(t)), Push(r, First(StmtTags)), Push(r, Single(StmtTags)))
      /\ Effect(Make(ast_if_stmt(t)),
                Push(Push(Push(r, Single(CondTags)), Single(StmtTags)), Single(StmtTags)),
                Push(r, Single(StmtTags)))
      /\ Effect(Make(ast_while_stmt(t)),
                Push(Push(r, Single(CondTags)), Single(StmtTags)), Push(r, Single(StmtTags)))
  BY Templates, MakeEffect, KindTypes DEF OpFits, Takes, StmtTags
<1>3. /\ Effect(Make(ast_write_stmt(t)), Push(r, Single(ExprTags)), Push(r, Single(StmtTags)))
      /\ Effect(Make(ast_skip_stmt(t)), r, Push(r, Single(StmtTags)))
      /\ Effect(Make(ast_odd_cond(t)), Push(r, Single(ExprTags)), Push(r, Single(CondTags)))
  BY Templates, MakeEffect, KindTypes DEF OpFits, Takes, StmtTags, CondTags
<1>4. ASSUME NEW n
      PROVE  Effect(Make(ast_number(t, n)), r, Push(r, Single(ExprTags)))
  <2>1. ast_number(t, n).tag = "number_ast" /\ ast_number(t, n).next = NULL
    BY Templates
  <2> QED
    BY <2>1, MakeEffect, KindTypes DEF OpFits, Takes, ExprTags
<1>5. ASSUME NEW op \in RelOps \cup {GarbageOp}
      PROVE  Effect(Make(ast_bin_cond(t, op)),
                    Push(Push(r, Single(ExprTags)), Single(ExprTags)), Push(r, Single(CondTags)))
  <2>1. /\ ast_bin_cond(t, op).tag = "bin_cond_ast" /\ ast_bin_cond(t, op).next = NULL
        /\ ast_bin_cond(t, op).op = op
    BY Templates
  <2>2. OpFits(ast_bin_cond(t, op))
    BY <2>1 DEF OpFits
  <2> QED
    BY <2>1, <2>2, MakeEffect, KindTypes DEF Takes, CondTags
<1>6. ASSUME NEW op \in ArithOps
      PROVE  Effect(Make(ast_op_expr(t, op)), Push(r, Single(ExprTags)), Push(r, Single(Pairs)))
  <2>1. /\ ast_op_expr(t, op).tag = "unset" /\ ast_op_expr(t, op).next = NULL
        /\ ast_op_expr(t, op).op = op
    BY Templates
  <2>2. OpFits(ast_op_expr(t, op))
    BY <2>1 DEF OpFits
  <2> QED
    BY <2>1, <2>2, MakeEffect, KindTypes DEF Takes, Pairs
<1> QED
  BY <1>1, <1>2, <1>3, <1>4, <1>5, <1>6

LEMMA ConstMade ==
  ASSUME NEW node \in Nodes, node.tag = "const_decl_ast", node.next = NULL, NEW n,
         NEW r \in Stacks
  PROVE  Effect(Make([node EXCEPT !.num = n]), r, Push(r, Single(Consts)))
<1>1. [node EXCEPT !.num = n].tag = "const_decl_ast" /\ [node EXCEPT !.num = n].next = NULL
  BY DEF Nodes
<1> QED
  BY <1>1, MakeEffect, KindTypes DEF OpFits, Takes, Consts

LEMMA MakeProgramEffect ==
  ASSUME NEW r \in Stacks
  PROVE  Effect(Call("makeProgram"),
                Push(Push(Push(r, List(Consts)), List(Vars)), Single(StmtTags)),
                Push(r, Single(Programs)))
BY DEF Effect, Call, Instr

LEMMA WhichOneEffect ==
  ASSUME NEW tok, NEW r \in Stacks
  PROVE  Effect(CallWith("which_one", tok), Push(r, Single(ExprTags)), Push(r, Single(CondTags)))
BY DEF Effect, CallWith, Instr

LEMMA ExprLoopEffect ==
  ASSUME NEW f \in {"exprLoop", "termLoop", "relocate"}, NEW tok, NEW r \in Stacks
  PROVE  Effect(CallWith(f, tok), Push(r, Single(ExprTags)), Push(r, Single(ExprTags)))
BY DEF Effect, CallWith, Instr

LEMMA BinExprEffect ==
  ASSUME NEW tok, NEW r \in Stacks
  PROVE  Effect(CallWith("binExpr", tok), Push(Push(r, Single(ExprTags)), Single(Pairs)),
                Push(r, Single(ExprTags)))
BY DEF Effect, CallWith, Instr

LEMMA RelOpTypes ==
  /\ DOMAIN RelOpOf \subseteq TokenTypes /\ \A tt \in DOMAIN RelOpOf : RelOpOf[tt] \in RelOps
  /\ DOMAIN MultDivOp \subseteq TokenTypes /\ \A tt \in DOMAIN MultDivOp : MultDivOp[tt] \in ArithOps
  /\ DOMAIN AddSubOp \subseteq TokenTypes /\ \A tt \in DOMAIN AddSubOp : AddSubOp[tt] \in ArithOps
  /\ SignSyms \subseteq TokenTypes
BY DEF RelOpOf, MultDivOp, AddSubOp, SignSyms, RelOps, ArithOps, TokenTypes

LEMMA QuietStep ==
  ASSUME TreeInv, ControlOK', UNCHANGED <<heap, vals, todo>>
  PROVE  TreeInv'
BY DEF TreeInv

\* last goes out of scope.
LEMMA EndListTyped ==
  ASSUME TreeInv, ControlOK', EndList, todo # <<>>,
         NEW k \in Kinds, NEW T \in ListClasses, LoopOver(Head(todo).do, k, T)
  PROVE  TreeInv'
<1>1. PICK s \in Stacks : /\ Flows(todo, s, Final) /\ StackOK(heap, vals, s)
                          /\ Owned(heap, vals, s)
  BY DEF TreeInv, Typed
<1>2. PICK m \in Stacks : Effect(Head(todo), s, m) /\ Flows(Tail(todo), m, Final)
  BY <1>1, FlowsHead
<1>3. PICK r \in Stacks : s = Push(Push(r, k), Last(T)) /\ m = Push(r, k)
  BY <1>2, EffectOfLoop
<1>4. vals \in Seq(Nat) /\ Last(T) \in Kinds
  BY KindTypes DEF TreeInv
<1> DEFINE n == Len(m)
<1>5. m \in Stacks /\ StackOK(heap, vals, Push(m, Last(T)))
  BY <1>1, <1>3
<1>6. /\ n \in Nat /\ Len(vals) = n + 1
      /\ Prefix(vals, n) \in Seq(Nat)
      /\ StackOK(heap, Prefix(vals, n), m)
  <2> HIDE DEF n
  <2>1. n = Len(m)
    BY DEF n
  <2> QED
    BY <1>4, <1>5, <2>1, Pop1
<1>7. vals' = Prefix(vals, n)
  <2>1. vals' = Prefix(vals, Len(vals) - 1) \o <<>>
    BY DEF EndList, Replace, Prefix
  <2>2. Len(vals) - 1 = n
    BY <1>6
  <2> QED
    BY <1>6, <2>1, <2>2
<1>8. HeapOK(heap') /\ heap' = heap /\ todo' = Tail(todo)
  BY DEF EndList, TreeInv
<1>10. Owned(heap, Prefix(vals, n), m)
  <2>1. n = Len(m)
    OBVIOUS
  <2> HIDE DEF n
  <2>2. /\ Holdings(heap, Prefix(vals, n), m) \in Seq(Nat)
        /\ Holdings(heap, vals, Push(m, Last(T))) =
             Append(Holdings(heap, Prefix(vals, n), m), Held(heap, vals[n + 1], Last(T)))
    BY <1>4, <1>5, <1>8, <2>1, HoldingsPop
  <2>3. Held(heap, vals[n + 1], Last(T)) = NULL
    BY DEF Held, Last, Kind
  <2>4. Grove(heap, Prefix(vals, n), m)
    BY <1>1, <1>3, <1>4, <1>5, <2>1, GrovePop DEF Owned
  <2> QED
    BY <1>1, <1>3, <2>2, <2>3, <2>4, NullRoot DEF Owned
<1>9. Typed(heap', vals', todo')
  BY <1>2, <1>6, <1>7, <1>8, <1>10 DEF Typed
<1> QED
  BY <1>6, <1>7, <1>8, <1>9 DEF TreeInv

LEMMA ParseyParseTyped == ASSUME TreeInv, ControlOK', ParseyParse PROVE TreeInv'
<1> DEFINE body == <<Call("parseBlock"), eat("periodsym")>>
<1>1. /\ todo # <<>> /\ Head(todo).do = "parseyParse"
      /\ todo' = body \o Tail(todo) /\ UNCHANGED <<heap, vals>>
  BY DEF ParseyParse, At, Do
<1>2. ASSUME NEW s \in Stacks, NEW t \in Stacks, Effect(Head(todo), s, t)
      PROVE  Flows(body, s, t)
  <2>1. t = Push(s, Single(Programs))
    BY <1>1, <1>2, EffectOfReturns DEF Returns
  <2>2. Flows(body, s, t)
    <3> DEFINE m1 == Push(s, Single(Programs))
    <3>1. m1 \in Stacks
      BY <2>1, Pushed, KindTypes
    <3>2. Effect(Call("parseBlock"), s, m1)
      BY <2>1, CallEffect, KindTypes DEF Returns
    <3>3. Effect(eat("periodsym"), m1, m1)
      BY <2>1, EatEffect DEF TokenTypes
    <3>4. s = s /\ t = m1
      BY <2>1
    <3> HIDE DEF m1
    <3> QED
      BY <3>1, <3>2, <3>3, <3>4, Flows2
  <2> QED
    BY <2>2
<1> HIDE DEF body
<1> QED
  BY <1>1, <1>2, DoStep

LEMMA ParseBlockTyped == ASSUME TreeInv, ControlOK', ParseBlock PROVE TreeInv'
<1> DEFINE body == <<Call("parseConstDecls"), Call("parseVarDecls"),
                    Call("parseStmts"), Call("makeProgram")>>
<1>1. /\ todo # <<>> /\ Head(todo).do = "parseBlock"
      /\ todo' = body \o Tail(todo) /\ UNCHANGED <<heap, vals>>
  BY DEF ParseBlock, At, Do
<1>2. ASSUME NEW s \in Stacks, NEW t \in Stacks, Effect(Head(todo), s, t)
      PROVE  Flows(body, s, t)
  <2>1. t = Push(s, Single(Programs))
    BY <1>1, <1>2, EffectOfReturns DEF Returns
  <2>2. Flows(body, s, t)
    <3> DEFINE m1 == Push(s, List(Consts))
               m2 == Push(m1, List(Vars))
               m3 == Push(m2, Single(StmtTags))
               m4 == Push(s, Single(Programs))
    <3>1. /\ m1 \in Stacks
          /\ m2 \in Stacks
          /\ m3 \in Stacks
          /\ m4 \in Stacks
      BY <2>1, Pushed, KindTypes
    <3>2. Effect(Call("parseConstDecls"), s, m1)
      BY <2>1, CallEffect, KindTypes DEF Returns
    <3>3. Effect(Call("parseVarDecls"), m1, m2)
      BY <2>1, CallEffect, KindTypes DEF Returns
    <3>4. Effect(Call("parseStmts"), m2, m3)
      BY <2>1, CallEffect, KindTypes DEF Returns
    <3>5. Effect(Call("makeProgram"), m3, m4)
      BY <2>1, MakeProgramEffect
    <3>6. s = s /\ t = m4
      BY <2>1
    <3> HIDE DEF m1, m2, m3, m4
    <3> QED
      BY <3>1, <3>2, <3>3, <3>4, <3>5, <3>6, Flows4
  <2> QED
    BY <2>2
<1> HIDE DEF body
<1> QED
  BY <1>1, <1>2, DoStep

LEMMA ConstDeclsLoopTyped == ASSUME TreeInv, ControlOK', ConstDeclsLoop PROVE TreeInv'
<1>1. CASE See("constsym")
  <2> DEFINE body == <<eat("constsym"),
                      CallWith("parseConstDecl", Head(todo).tok),
                      Call("add_AST_to_end"), eat("semisym"),
                      CallWith("constDeclsLoop", Head(todo).tok)>>
  <2>1. /\ todo # <<>> /\ Head(todo).do = "constDeclsLoop"
        /\ todo' = body \o Tail(todo) /\ UNCHANGED <<heap, vals>>
    BY <1>1 DEF ConstDeclsLoop, At, Do
  <2>2. ASSUME NEW s \in Stacks, NEW t \in Stacks, Effect(Head(todo), s, t)
        PROVE  Flows(body, s, t)
    <3>1. PICK r \in Stacks : s = Push(Push(r, List(Consts)), Last(Consts)) /\ t = Push(r, List(Consts))
      BY <2>1, <2>2, EffectOfLoop DEF LoopOver
    <3>2. Flows(body, s, t)
      <4> DEFINE m1 == Push(Push(r, List(Consts)), Last(Consts))
                 m2 == Push(m1, First(Consts))
                 m3 == Push(r, List(Consts))
      <4>1. /\ m1 \in Stacks
            /\ m2 \in Stacks
            /\ m3 \in Stacks
        BY <3>1, Pushed, KindTypes
      <4>2. Effect(eat("constsym"), m1, m1)
        BY <3>1, EatEffect DEF TokenTypes
      <4>3. Effect(CallWith("parseConstDecl", Head(todo).tok), m1, m2)
        BY <3>1, CallEffect, KindTypes DEF Returns
      <4>4. Effect(Call("add_AST_to_end"), m2, m1)
        BY <3>1, AddEffect, KindTypes
      <4>5. Effect(eat("semisym"), m1, m1)
        BY <3>1, EatEffect DEF TokenTypes
      <4>6. Effect(CallWith("constDeclsLoop", Head(todo).tok), m1, m3)
        BY <3>1, LoopEffect, KindTypes DEF LoopOver
      <4>7. s = m1 /\ t = m3
        BY <3>1
      <4> HIDE DEF m1, m2, m3
      <4> QED
        BY <4>1, <4>2, <4>3, <4>4, <4>5, <4>6, <4>7, Flows5
    <3> QED
      BY <3>2
  <2> HIDE DEF body
  <2> QED
    BY <2>1, <2>2, DoStep
<1>2. CASE ~See("constsym")
  <2>1. /\ todo # <<>> /\ Head(todo).do = "constDeclsLoop" /\ LoopOver("constDeclsLoop", List(Consts), Consts)
        /\ EndList
    BY <1>2 DEF ConstDeclsLoop, At, LoopOver
  <2> QED
    BY <2>1, EndListTyped, KindTypes
<1> QED
  BY <1>1, <1>2

LEMMA ParseConstDeclTyped == ASSUME TreeInv, ControlOK', ParseConstDecl PROVE TreeInv'
<1> DEFINE body == <<CallWith("parseConstIdent", Head(todo).tok),
                    Call("startList"), Call("constDeclLoop")>>
<1>1. /\ todo # <<>> /\ Head(todo).do = "parseConstDecl"
      /\ todo' = body \o Tail(todo) /\ UNCHANGED <<heap, vals>>
  BY DEF ParseConstDecl, At, Do
<1>2. ASSUME NEW s \in Stacks, NEW t \in Stacks, Effect(Head(todo), s, t)
      PROVE  Flows(body, s, t)
  <2>1. t = Push(s, First(Consts))
    BY <1>1, <1>2, EffectOfReturns DEF Returns
  <2>2. Flows(body, s, t)
    <3> DEFINE m1 == Push(s, Single(Consts))
               m2 == Push(Push(s, First(Consts)), Last(Consts))
               m3 == Push(s, First(Consts))
    <3>1. /\ m1 \in Stacks
          /\ m2 \in Stacks
          /\ m3 \in Stacks
      BY <2>1, Pushed, KindTypes
    <3>2. Effect(CallWith("parseConstIdent", Head(todo).tok), s, m1)
      BY <2>1, CallEffect, KindTypes DEF Returns
    <3>3. Effect(Call("startList"), m1, m2)
      BY <2>1, StartEffect, KindTypes
    <3>4. Effect(Call("constDeclLoop"), m2, m3)
      BY <2>1, LoopEffect, KindTypes DEF LoopOver
    <3>5. s = s /\ t = m3
      BY <2>1
    <3> HIDE DEF m1, m2, m3
    <3> QED
      BY <3>1, <3>2, <3>3, <3>4, <3>5, Flows3
  <2> QED
    BY <2>2
<1> HIDE DEF body
<1> QED
  BY <1>1, <1>2, DoStep

LEMMA ConstDeclLoopTyped == ASSUME TreeInv, ControlOK', ConstDeclLoop PROVE TreeInv'
<1>1. CASE See("commasym")
  <2> DEFINE body == <<eat("commasym"), Call("nextConstIdent"),
                      Call("add_AST_to_end"), Call("constDeclLoop")>>
  <2>1. /\ todo # <<>> /\ Head(todo).do = "constDeclLoop"
        /\ todo' = body \o Tail(todo) /\ UNCHANGED <<heap, vals>>
    BY <1>1 DEF ConstDeclLoop, At, Do
  <2>2. ASSUME NEW s \in Stacks, NEW t \in Stacks, Effect(Head(todo), s, t)
        PROVE  Flows(body, s, t)
    <3>1. PICK r \in Stacks : s = Push(Push(r, First(Consts)), Last(Consts)) /\ t = Push(r, First(Consts))
      BY <2>1, <2>2, EffectOfLoop DEF LoopOver
    <3>2. Flows(body, s, t)
      <4> DEFINE m1 == Push(Push(r, First(Consts)), Last(Consts))
                 m2 == Push(m1, Single(Consts))
                 m3 == Push(r, First(Consts))
      <4>1. /\ m1 \in Stacks
            /\ m2 \in Stacks
            /\ m3 \in Stacks
        BY <3>1, Pushed, KindTypes
      <4>2. Effect(eat("commasym"), m1, m1)
        BY <3>1, EatEffect DEF TokenTypes
      <4>3. Effect(Call("nextConstIdent"), m1, m2)
        BY <3>1, CallEffect, KindTypes DEF Returns
      <4>4. Effect(Call("add_AST_to_end"), m2, m1)
        BY <3>1, AddEffect, KindTypes
      <4>5. Effect(Call("constDeclLoop"), m1, m3)
        BY <3>1, LoopEffect, KindTypes DEF LoopOver
      <4>6. s = m1 /\ t = m3
        BY <3>1
      <4> HIDE DEF m1, m2, m3
      <4> QED
        BY <4>1, <4>2, <4>3, <4>4, <4>5, <4>6, Flows4
    <3> QED
      BY <3>2
  <2> HIDE DEF body
  <2> QED
    BY <2>1, <2>2, DoStep
<1>2. CASE ~See("commasym")
  <2>1. /\ todo # <<>> /\ Head(todo).do = "constDeclLoop" /\ LoopOver("constDeclLoop", First(Consts), Consts)
        /\ EndList
    BY <1>2 DEF ConstDeclLoop, At, LoopOver
  <2> QED
    BY <2>1, EndListTyped, KindTypes
<1> QED
  BY <1>1, <1>2

LEMMA ParseConstIdentTyped == ASSUME TreeInv, ControlOK', ParseConstIdent PROVE TreeInv'
<1>1. CASE At("parseConstIdent") /\ Do(<<eat("identsym"), eat("eqsym"),
         Finish("constNumber", ast_const_def(Head(todo).tok, currToken.text, 0))>>)
  <2> DEFINE body == <<eat("identsym"), eat("eqsym"),
                      Finish("constNumber", ast_const_def(Head(todo).tok, currToken.text, 0))>>
  <2>1. /\ todo # <<>> /\ Head(todo).do = "parseConstIdent"
        /\ todo' = body \o Tail(todo) /\ UNCHANGED <<heap, vals>>
    BY <1>1 DEF At, Do
  <2>2. ASSUME NEW s \in Stacks, NEW t \in Stacks, Effect(Head(todo), s, t)
        PROVE  Flows(body, s, t)
    <3>1. t = Push(s, Single(Consts))
      BY <2>1, <2>2, EffectOfReturns DEF Returns
    <3>2. Flows(body, s, t)
      <4> DEFINE m1 == Push(s, Single(Consts))
      <4>1. m1 \in Stacks
        BY <3>1, Pushed, KindTypes
      <4>2. Effect(eat("identsym"), s, s)
        BY <3>1, EatEffect DEF TokenTypes
      <4>3. Effect(eat("eqsym"), s, s)
        BY <3>1, EatEffect DEF TokenTypes
      <4>4. Effect(Finish("constNumber", ast_const_def(Head(todo).tok, currToken.text, 0)), s, m1)
        <5>1. /\ ast_const_def(Head(todo).tok, currToken.text, 0).tag = "const_decl_ast"
              /\ ast_const_def(Head(todo).tok, currToken.text, 0).next = NULL
          BY Templates
        <5> QED
          BY <5>1, ConstNumberEffect
      <4>5. s = s /\ t = m1
        BY <3>1
      <4> HIDE DEF m1
      <4> QED
        BY <4>1, <4>2, <4>3, <4>4, <4>5, Flows3
    <3> QED
      BY <3>2
  <2> HIDE DEF body
  <2> QED
    BY <2>1, <2>2, DoStep
<1>2. CASE At("nextConstIdent") /\ Do(<<eat("identsym"), eat("eqsym"),
         Finish("constNumber", ast_const_def(currToken, currToken.text, 0))>>)
  <2> DEFINE body == <<eat("identsym"), eat("eqsym"),
                      Finish("constNumber", ast_const_def(currToken, currToken.text, 0))>>
  <2>1. /\ todo # <<>> /\ Head(todo).do = "nextConstIdent"
        /\ todo' = body \o Tail(todo) /\ UNCHANGED <<heap, vals>>
    BY <1>2 DEF At, Do
  <2>2. ASSUME NEW s \in Stacks, NEW t \in Stacks, Effect(Head(todo), s, t)
        PROVE  Flows(body, s, t)
    <3>1. t = Push(s, Single(Consts))
      BY <2>1, <2>2, EffectOfReturns DEF Returns
    <3>2. Flows(body, s, t)
      <4> DEFINE m1 == Push(s, Single(Consts))
      <4>1. m1 \in Stacks
        BY <3>1, Pushed, KindTypes
      <4>2. Effect(eat("identsym"), s, s)
        BY <3>1, EatEffect DEF TokenTypes
      <4>3. Effect(eat("eqsym"), s, s)
        BY <3>1, EatEffect DEF TokenTypes
      <4>4. Effect(Finish("constNumber", ast_const_def(currToken, currToken.text, 0)), s, m1)
        <5>1. /\ ast_const_def(currToken, currToken.text, 0).tag = "const_decl_ast"
              /\ ast_const_def(currToken, currToken.text, 0).next = NULL
          BY DEF ast_const_def, ast_allocate
        <5> QED
          BY <5>1, ConstNumberEffect
      <4>5. s = s /\ t = m1
        BY <3>1
      <4> HIDE DEF m1
      <4> QED
        BY <4>1, <4>2, <4>3, <4>4, <4>5, Flows3
    <3> QED
      BY <3>2
  <2> HIDE DEF body
  <2> QED
    BY <2>1, <2>2, DoStep
<1> QED
  BY <1>1, <1>2 DEF ParseConstIdent

LEMMA ConstNumberTyped == ASSUME TreeInv, ControlOK', ConstNumber PROVE TreeInv'
<1> DEFINE body == <<eat("numbersym"),
                    Make([Head(todo).node EXCEPT !.num = currToken.value])>>
<1>1. /\ todo # <<>> /\ Head(todo).do = "constNumber"
      /\ todo' = body \o Tail(todo) /\ UNCHANGED <<heap, vals>>
  BY DEF ConstNumber, At, Do
<1>2. ASSUME NEW s \in Stacks, NEW t \in Stacks, Effect(Head(todo), s, t)
      PROVE  Flows(body, s, t)
  <2>1. t = Push(s, Single(Consts)) /\ Head(todo).node.tag = "const_decl_ast" /\ Head(todo).node.next = NULL
    BY <1>1, <1>2, EffectOfOthers DEF Others
  <2>2. Flows(body, s, t)
    <3> DEFINE m1 == Push(s, Single(Consts))
    <3>1. m1 \in Stacks
      BY <2>1, Pushed, KindTypes
    <3>2. Effect(eat("numbersym"), s, s)
      BY <2>1, EatEffect DEF TokenTypes
    <3>3. Effect(Make([Head(todo).node EXCEPT !.num = currToken.value]), s, m1)
      <4>1. Head(todo).node \in Nodes
        BY <1>1, HeadType DEF TreeInv
      <4> QED
        BY <2>1, <4>1, ConstMade
    <3>4. s = s /\ t = m1
      BY <2>1
    <3> HIDE DEF m1
    <3> QED
      BY <3>1, <3>2, <3>3, <3>4, Flows2
  <2> QED
    BY <2>2
<1> HIDE DEF body
<1> QED
  BY <1>1, <1>2, DoStep

LEMMA VarDeclsLoopTyped == ASSUME TreeInv, ControlOK', VarDeclsLoop PROVE TreeInv'
<1>1. CASE See("varsym")
  <2> DEFINE body == <<eat("varsym"), Call("parseVarDecl"),
                      Call("add_AST_to_end"), eat("semisym"),
                      Call("varDeclsLoop")>>
  <2>1. /\ todo # <<>> /\ Head(todo).do = "varDeclsLoop"
        /\ todo' = body \o Tail(todo) /\ UNCHANGED <<heap, vals>>
    BY <1>1 DEF VarDeclsLoop, At, Do
  <2>2. ASSUME NEW s \in Stacks, NEW t \in Stacks, Effect(Head(todo), s, t)
        PROVE  Flows(body, s, t)
    <3>1. PICK r \in Stacks : s = Push(Push(r, List(Vars)), Last(Vars)) /\ t = Push(r, List(Vars))
      BY <2>1, <2>2, EffectOfLoop DEF LoopOver
    <3>2. Flows(body, s, t)
      <4> DEFINE m1 == Push(Push(r, List(Vars)), Last(Vars))
                 m2 == Push(m1, First(Vars))
                 m3 == Push(r, List(Vars))
      <4>1. /\ m1 \in Stacks
            /\ m2 \in Stacks
            /\ m3 \in Stacks
        BY <3>1, Pushed, KindTypes
      <4>2. Effect(eat("varsym"), m1, m1)
        BY <3>1, EatEffect DEF TokenTypes
      <4>3. Effect(Call("parseVarDecl"), m1, m2)
        BY <3>1, CallEffect, KindTypes DEF Returns
      <4>4. Effect(Call("add_AST_to_end"), m2, m1)
        BY <3>1, AddEffect, KindTypes
      <4>5. Effect(eat("semisym"), m1, m1)
        BY <3>1, EatEffect DEF TokenTypes
      <4>6. Effect(Call("varDeclsLoop"), m1, m3)
        BY <3>1, LoopEffect, KindTypes DEF LoopOver
      <4>7. s = m1 /\ t = m3
        BY <3>1
      <4> HIDE DEF m1, m2, m3
      <4> QED
        BY <4>1, <4>2, <4>3, <4>4, <4>5, <4>6, <4>7, Flows5
    <3> QED
      BY <3>2
  <2> HIDE DEF body
  <2> QED
    BY <2>1, <2>2, DoStep
<1>2. CASE ~See("varsym")
  <2>1. /\ todo # <<>> /\ Head(todo).do = "varDeclsLoop" /\ LoopOver("varDeclsLoop", List(Vars), Vars)
        /\ EndList
    BY <1>2 DEF VarDeclsLoop, At, LoopOver
  <2> QED
    BY <2>1, EndListTyped, KindTypes
<1> QED
  BY <1>1, <1>2

LEMMA ParseVarDeclTyped == ASSUME TreeInv, ControlOK', ParseVarDecl PROVE TreeInv'
<1> DEFINE body == <<Call("parseVarIdent"), Call("startList"),
                    Call("varDeclLoop")>>
<1>1. /\ todo # <<>> /\ Head(todo).do = "parseVarDecl"
      /\ todo' = body \o Tail(todo) /\ UNCHANGED <<heap, vals>>
  BY DEF ParseVarDecl, At, Do
<1>2. ASSUME NEW s \in Stacks, NEW t \in Stacks, Effect(Head(todo), s, t)
      PROVE  Flows(body, s, t)
  <2>1. t = Push(s, First(Vars))
    BY <1>1, <1>2, EffectOfReturns DEF Returns
  <2>2. Flows(body, s, t)
    <3> DEFINE m1 == Push(s, Single(Vars))
               m2 == Push(Push(s, First(Vars)), Last(Vars))
               m3 == Push(s, First(Vars))
    <3>1. /\ m1 \in Stacks
          /\ m2 \in Stacks
          /\ m3 \in Stacks
      BY <2>1, Pushed, KindTypes
    <3>2. Effect(Call("parseVarIdent"), s, m1)
      BY <2>1, CallEffect, KindTypes DEF Returns
    <3>3. Effect(Call("startList"), m1, m2)
      BY <2>1, StartEffect, KindTypes
    <3>4. Effect(Call("varDeclLoop"), m2, m3)
      BY <2>1, LoopEffect, KindTypes DEF LoopOver
    <3>5. s = s /\ t = m3
      BY <2>1
    <3> HIDE DEF m1, m2, m3
    <3> QED
      BY <3>1, <3>2, <3>3, <3>4, <3>5, Flows3
  <2> QED
    BY <2>2
<1> HIDE DEF body
<1> QED
  BY <1>1, <1>2, DoStep

LEMMA VarDeclLoopTyped == ASSUME TreeInv, ControlOK', VarDeclLoop PROVE TreeInv'
<1>1. CASE See("commasym")
  <2> DEFINE body == <<eat("commasym"), Call("parseVarIdent"),
                      Call("add_AST_to_end"), Call("varDeclLoop")>>
  <2>1. /\ todo # <<>> /\ Head(todo).do = "varDeclLoop"
        /\ todo' = body \o Tail(todo) /\ UNCHANGED <<heap, vals>>
    BY <1>1 DEF VarDeclLoop, At, Do
  <2>2. ASSUME NEW s \in Stacks, NEW t \in Stacks, Effect(Head(todo), s, t)
        PROVE  Flows(body, s, t)
    <3>1. PICK r \in Stacks : s = Push(Push(r, First(Vars)), Last(Vars)) /\ t = Push(r, First(Vars))
      BY <2>1, <2>2, EffectOfLoop DEF LoopOver
    <3>2. Flows(body, s, t)
      <4> DEFINE m1 == Push(Push(r, First(Vars)), Last(Vars))
                 m2 == Push(m1, Single(Vars))
                 m3 == Push(r, First(Vars))
      <4>1. /\ m1 \in Stacks
            /\ m2 \in Stacks
            /\ m3 \in Stacks
        BY <3>1, Pushed, KindTypes
      <4>2. Effect(eat("commasym"), m1, m1)
        BY <3>1, EatEffect DEF TokenTypes
      <4>3. Effect(Call("parseVarIdent"), m1, m2)
        BY <3>1, CallEffect, KindTypes DEF Returns
      <4>4. Effect(Call("add_AST_to_end"), m2, m1)
        BY <3>1, AddEffect, KindTypes
      <4>5. Effect(Call("varDeclLoop"), m1, m3)
        BY <3>1, LoopEffect, KindTypes DEF LoopOver
      <4>6. s = m1 /\ t = m3
        BY <3>1
      <4> HIDE DEF m1, m2, m3
      <4> QED
        BY <4>1, <4>2, <4>3, <4>4, <4>5, <4>6, Flows4
    <3> QED
      BY <3>2
  <2> HIDE DEF body
  <2> QED
    BY <2>1, <2>2, DoStep
<1>2. CASE ~See("commasym")
  <2>1. /\ todo # <<>> /\ Head(todo).do = "varDeclLoop" /\ LoopOver("varDeclLoop", First(Vars), Vars)
        /\ EndList
    BY <1>2 DEF VarDeclLoop, At, LoopOver
  <2> QED
    BY <2>1, EndListTyped, KindTypes
<1> QED
  BY <1>1, <1>2

LEMMA ParseVarIdentTyped == ASSUME TreeInv, ControlOK', ParseVarIdent PROVE TreeInv'
<1> DEFINE body == <<eat("identsym"),
                    Make(ast_var_decl(currToken, currToken.text))>>
<1>1. /\ todo # <<>> /\ Head(todo).do = "parseVarIdent"
      /\ todo' = body \o Tail(todo) /\ UNCHANGED <<heap, vals>>
  BY DEF ParseVarIdent, At, Do
<1>2. ASSUME NEW s \in Stacks, NEW t \in Stacks, Effect(Head(todo), s, t)
      PROVE  Flows(body, s, t)
  <2>1. t = Push(s, Single(Vars))
    BY <1>1, <1>2, EffectOfReturns DEF Returns
  <2>2. Flows(body, s, t)
    <3> DEFINE m1 == Push(s, Single(Vars))
    <3>1. m1 \in Stacks
      BY <2>1, Pushed, KindTypes
    <3>2. Effect(eat("identsym"), s, s)
      BY <2>1, EatEffect DEF TokenTypes
    <3>3. Effect(Make(ast_var_decl(currToken, currToken.text)), s, m1)
      BY <2>1, MakeEffects, KindTypes
    <3>4. s = s /\ t = m1
      BY <2>1
    <3> HIDE DEF m1
    <3> QED
      BY <3>1, <3>2, <3>3, <3>4, Flows2
  <2> QED
    BY <2>2
<1> HIDE DEF body
<1> QED
  BY <1>1, <1>2, DoStep

LEMMA ParseStmtsTyped == ASSUME TreeInv, ControlOK', ParseStmts PROVE TreeInv'
<1> DEFINE body == <<Call("parseStmt")>>
<1>1. /\ todo # <<>> /\ Head(todo).do = "parseStmts"
      /\ todo' = body \o Tail(todo) /\ UNCHANGED <<heap, vals>>
  BY DEF ParseStmts, At, Do
<1>2. ASSUME NEW s \in Stacks, NEW t \in Stacks, Effect(Head(todo), s, t)
      PROVE  Flows(body, s, t)
  <2>1. t = Push(s, Single(StmtTags))
    BY <1>1, <1>2, EffectOfReturns DEF Returns
  <2>2. Flows(body, s, t)
    <3> DEFINE m1 == Push(s, Single(StmtTags))
    <3>1. m1 \in Stacks
      BY <2>1, Pushed, KindTypes
    <3>2. Effect(Call("parseStmt"), s, m1)
      BY <2>1, CallEffect, KindTypes DEF Returns
    <3>3. s = s /\ t = m1
      BY <2>1
    <3> HIDE DEF m1
    <3> QED
      BY <3>1, <3>2, <3>3, Flows1
  <2> QED
    BY <2>2
<1> HIDE DEF body
<1> QED
  BY <1>1, <1>2, DoStep

LEMMA ParseStmtTyped == ASSUME TreeInv, ControlOK', ParseStmt PROVE TreeInv'
<1>1. CASE currToken.typ \in DOMAIN StmtParser
  <2> DEFINE body == <<Call(StmtParser[currToken.typ])>>
  <2>1. /\ todo # <<>> /\ Head(todo).do = "parseStmt"
        /\ todo' = body \o Tail(todo) /\ UNCHANGED <<heap, vals>>
    BY <1>1 DEF ParseStmt, At, Do
  <2>2. ASSUME NEW s \in Stacks, NEW t \in Stacks, Effect(Head(todo), s, t)
        PROVE  Flows(body, s, t)
    <3>1. t = Push(s, Single(StmtTags))
      BY <2>1, <2>2, EffectOfReturns DEF Returns
    <3>2. Flows(body, s, t)
      <4> DEFINE m1 == Push(s, Single(StmtTags))
      <4>1. m1 \in Stacks
        BY <3>1, <1>1, Pushed, KindTypes
      <4>2. Effect(Call(StmtParser[currToken.typ]), s, m1)
        BY <1>1, CallEffect, KindTypes DEF Returns, StmtParser
      <4>3. s = s /\ t = m1
        BY <3>1, <1>1
      <4> HIDE DEF m1
      <4> QED
        BY <4>1, <4>2, <4>3, Flows1
    <3> QED
      BY <3>2
  <2> HIDE DEF body
  <2> QED
    BY <2>1, <2>2, DoStep
<1>2. CASE currToken.typ \notin DOMAIN StmtParser
  BY <1>2, QuietStep DEF ParseStmt, parse_error_unexpected
<1> QED
  BY <1>1, <1>2

LEMMA ParseAssignStmtTyped == ASSUME TreeInv, ControlOK', ParseAssignStmt PROVE TreeInv'
<1> DEFINE body == <<eat("identsym"), eat("becomessym"), Call("parseExpr"),
                    Make(ast_assign_stmt(currToken, currToken.text))>>
<1>1. /\ todo # <<>> /\ Head(todo).do = "parseAssignStmt"
      /\ todo' = body \o Tail(todo) /\ UNCHANGED <<heap, vals>>
  BY DEF ParseAssignStmt, At, Do
<1>2. ASSUME NEW s \in Stacks, NEW t \in Stacks, Effect(Head(todo), s, t)
      PROVE  Flows(body, s, t)
  <2>1. t = Push(s, Single(StmtTags))
    BY <1>1, <1>2, EffectOfReturns DEF Returns
  <2>2. Flows(body, s, t)
    <3> DEFINE m1 == Push(s, Single(ExprTags))
               m2 == Push(s, Single(StmtTags))
    <3>1. /\ m1 \in Stacks
          /\ m2 \in Stacks
      BY <2>1, Pushed, KindTypes
    <3>2. Effect(eat("identsym"), s, s)
      BY <2>1, EatEffect DEF TokenTypes
    <3>3. Effect(eat("becomessym"), s, s)
      BY <2>1, EatEffect DEF TokenTypes
    <3>4. Effect(Call("parseExpr"), s, m1)
      BY <2>1, CallEffect, KindTypes DEF Returns
    <3>5. Effect(Make(ast_assign_stmt(currToken, currToken.text)), m1, m2)
      BY <2>1, MakeEffects, KindTypes
    <3>6. s = s /\ t = m2
      BY <2>1
    <3> HIDE DEF m1, m2
    <3> QED
      BY <3>1, <3>2, <3>3, <3>4, <3>5, <3>6, Flows4
  <2> QED
    BY <2>2
<1> HIDE DEF body
<1> QED
  BY <1>1, <1>2, DoStep

LEMMA ParseBeginStmtTyped == ASSUME TreeInv, ControlOK', ParseBeginStmt PROVE TreeInv'
<1> DEFINE body == <<eat("beginsym"), Call("parseStmt"), Call("startList"),
                    Call("parseStmtList"), Call("add_AST_to_end"),
                    Call("dropLast"), eat("endsym"),
                    Make(ast_begin_stmt(currToken))>>
<1>1. /\ todo # <<>> /\ Head(todo).do = "parseBeginStmt"
      /\ todo' = body \o Tail(todo) /\ UNCHANGED <<heap, vals>>
  BY DEF ParseBeginStmt, At, Do
<1>2. ASSUME NEW s \in Stacks, NEW t \in Stacks, Effect(Head(todo), s, t)
      PROVE  Flows(body, s, t)
  <2>1. t = Push(s, Single(StmtTags))
    BY <1>1, <1>2, EffectOfReturns DEF Returns
  <2>2. Flows(body, s, t)
    <3> DEFINE m1 == Push(s, Single(StmtTags))
               m2 == Push(Push(s, First(StmtTags)), Last(StmtTags))
               m3 == Push(m2, List(StmtTags))
               m4 == Push(Push(s, First(StmtTags)), Spent(StmtTags))
               m5 == Push(s, First(StmtTags))
    <3>1. /\ m1 \in Stacks
          /\ m2 \in Stacks
          /\ m3 \in Stacks
          /\ m4 \in Stacks
          /\ m5 \in Stacks
      BY <2>1, Pushed, KindTypes
    <3>2. Effect(eat("beginsym"), s, s)
      BY <2>1, EatEffect DEF TokenTypes
    <3>3. Effect(Call("parseStmt"), s, m1)
      BY <2>1, CallEffect, KindTypes DEF Returns
    <3>4. Effect(Call("startList"), m1, m2)
      BY <2>1, StartEffect, KindTypes
    <3>5. Effect(Call("parseStmtList"), m2, m3)
      BY <2>1, CallEffect, KindTypes DEF Returns
    <3>6. Effect(Call("add_AST_to_end"), m3, m4)
      BY <2>1, AddRestEffect, KindTypes
    <3>7. Effect(Call("dropLast"), m4, m5)
      BY <2>1, DropEffect, KindTypes
    <3>8. Effect(eat("endsym"), m5, m5)
      BY <2>1, EatEffect DEF TokenTypes
    <3>9. Effect(Make(ast_begin_stmt(currToken)), m5, m1)
      BY <2>1, MakeEffects, KindTypes
    <3>10. s = s /\ t = m1
      BY <2>1
    <3> HIDE DEF m1, m2, m3, m4, m5
    <3> QED
      BY <3>1, <3>2, <3>3, <3>4, <3>5, <3>6, <3>7, <3>8, <3>9, <3>10, Flows8
  <2> QED
    BY <2>2
<1> HIDE DEF body
<1> QED
  BY <1>1, <1>2, DoStep

LEMMA StmtListLoopTyped == ASSUME TreeInv, ControlOK', StmtListLoop PROVE TreeInv'
<1>1. CASE See("semisym")
  <2> DEFINE body == <<eat("semisym"), Call("parseStmt"), Call("add_AST_to_end"),
                      Call("stmtListLoop")>>
  <2>1. /\ todo # <<>> /\ Head(todo).do = "stmtListLoop"
        /\ todo' = body \o Tail(todo) /\ UNCHANGED <<heap, vals>>
    BY <1>1 DEF StmtListLoop, At, Do
  <2>2. ASSUME NEW s \in Stacks, NEW t \in Stacks, Effect(Head(todo), s, t)
        PROVE  Flows(body, s, t)
    <3>1. PICK r \in Stacks : s = Push(Push(r, List(StmtTags)), Last(StmtTags)) /\ t = Push(r, List(StmtTags))
      BY <2>1, <2>2, EffectOfLoop DEF LoopOver
    <3>2. Flows(body, s, t)
      <4> DEFINE m1 == Push(Push(r, List(StmtTags)), Last(StmtTags))
                 m2 == Push(m1, Single(StmtTags))
                 m3 == Push(r, List(StmtTags))
      <4>1. /\ m1 \in Stacks
            /\ m2 \in Stacks
            /\ m3 \in Stacks
        BY <3>1, Pushed, KindTypes
      <4>2. Effect(eat("semisym"), m1, m1)
        BY <3>1, EatEffect DEF TokenTypes
      <4>3. Effect(Call("parseStmt"), m1, m2)
        BY <3>1, CallEffect, KindTypes DEF Returns
      <4>4. Effect(Call("add_AST_to_end"), m2, m1)
        BY <3>1, AddEffect, KindTypes
      <4>5. Effect(Call("stmtListLoop"), m1, m3)
        BY <3>1, LoopEffect, KindTypes DEF LoopOver
      <4>6. s = m1 /\ t = m3
        BY <3>1
      <4> HIDE DEF m1, m2, m3
      <4> QED
        BY <4>1, <4>2, <4>3, <4>4, <4>5, <4>6, Flows4
    <3> QED
      BY <3>2
  <2> HIDE DEF body
  <2> QED
    BY <2>1, <2>2, DoStep
<1>2. CASE ~See("semisym")
  <2>1. /\ todo # <<>> /\ Head(todo).do = "stmtListLoop" /\ LoopOver("stmtListLoop", List(StmtTags), StmtTags)
        /\ EndList
    BY <1>2 DEF StmtListLoop, At, LoopOver
  <2> QED
    BY <2>1, EndListTyped, KindTypes
<1> QED
  BY <1>1, <1>2

LEMMA ParseIfStmtTyped == ASSUME TreeInv, ControlOK', ParseIfStmt PROVE TreeInv'
<1> DEFINE body == <<eat("ifsym"), Call("parseCondition"), eat("thensym"),
                    Call("parseStmt"), eat("elsesym"), Call("parseStmt"),
                    Make(ast_if_stmt(currToken))>>
<1>1. /\ todo # <<>> /\ Head(todo).do = "parseIfStmt"
      /\ todo' = body \o Tail(todo) /\ UNCHANGED <<heap, vals>>
  BY DEF ParseIfStmt, At, Do
<1>2. ASSUME NEW s \in Stacks, NEW t \in Stacks, Effect(Head(todo), s, t)
      PROVE  Flows(body, s, t)
  <2>1. t = Push(s, Single(StmtTags))
    BY <1>1, <1>2, EffectOfReturns DEF Returns
  <2>2. Flows(body, s, t)
    <3> DEFINE m1 == Push(s, Single(CondTags))
               m2 == Push(m1, Single(StmtTags))
               m3 == Push(m2, Single(StmtTags))
               m4 == Push(s, Single(StmtTags))
    <3>1. /\ m1 \in Stacks
          /\ m2 \in Stacks
          /\ m3 \in Stacks
          /\ m4 \in Stacks
      BY <2>1, Pushed, KindTypes
    <3>2. Effect(eat("ifsym"), s, s)
      BY <2>1, EatEffect DEF TokenTypes
    <3>3. Effect(Call("parseCondition"), s, m1)
      BY <2>1, CallEffect, KindTypes DEF Returns
    <3>4. Effect(eat("thensym"), m1, m1)
      BY <2>1, EatEffect DEF TokenTypes
    <3>5. Effect(Call("parseStmt"), m1, m2)
      BY <2>1, CallEffect, KindTypes DEF Returns
    <3>6. Effect(eat("elsesym"), m2, m2)
      BY <2>1, EatEffect DEF TokenTypes
    <3>7. Effect(Call("parseStmt"), m2, m3)
      BY <2>1, CallEffect, KindTypes DEF Returns
    <3>8. Effect(Make(ast_if_stmt(currToken)), m3, m4)
      BY <2>1, MakeEffects, KindTypes
    <3>9. s = s /\ t = m4
      BY <2>1
    <3> HIDE DEF m1, m2, m3, m4
    <3> QED
      BY <3>1, <3>2, <3>3, <3>4, <3>5, <3>6, <3>7, <3>8, <3>9, Flows7
  <2> QED
    BY <2>2
<1> HIDE DEF body
<1> QED
  BY <1>1, <1>2, DoStep

LEMMA ParseWhileStmtTyped == ASSUME TreeInv, ControlOK', ParseWhileStmt PROVE TreeInv'
<1> DEFINE body == <<eat("whilesym"), Call("parseCondition"), eat("dosym"),
                    Call("parseStmt"), Make(ast_while_stmt(currToken))>>
<1>1. /\ todo # <<>> /\ Head(todo).do = "parseWhileStmt"
      /\ todo' = body \o Tail(todo) /\ UNCHANGED <<heap, vals>>
  BY DEF ParseWhileStmt, At, Do
<1>2. ASSUME NEW s \in Stacks, NEW t \in Stacks, Effect(Head(todo), s, t)
      PROVE  Flows(body, s, t)
  <2>1. t = Push(s, Single(StmtTags))
    BY <1>1, <1>2, EffectOfReturns DEF Returns
  <2>2. Flows(body, s, t)
    <3> DEFINE m1 == Push(s, Single(CondTags))
               m2 == Push(m1, Single(StmtTags))
               m3 == Push(s, Single(StmtTags))
    <3>1. /\ m1 \in Stacks
          /\ m2 \in Stacks
          /\ m3 \in Stacks
      BY <2>1, Pushed, KindTypes
    <3>2. Effect(eat("whilesym"), s, s)
      BY <2>1, EatEffect DEF TokenTypes
    <3>3. Effect(Call("parseCondition"), s, m1)
      BY <2>1, CallEffect, KindTypes DEF Returns
    <3>4. Effect(eat("dosym"), m1, m1)
      BY <2>1, EatEffect DEF TokenTypes
    <3>5. Effect(Call("parseStmt"), m1, m2)
      BY <2>1, CallEffect, KindTypes DEF Returns
    <3>6. Effect(Make(ast_while_stmt(currToken)), m2, m3)
      BY <2>1, MakeEffects, KindTypes
    <3>7. s = s /\ t = m3
      BY <2>1
    <3> HIDE DEF m1, m2, m3
    <3> QED
      BY <3>1, <3>2, <3>3, <3>4, <3>5, <3>6, <3>7, Flows5
  <2> QED
    BY <2>2
<1> HIDE DEF body
<1> QED
  BY <1>1, <1>2, DoStep

LEMMA ParseReadStmtTyped == ASSUME TreeInv, ControlOK', ParseReadStmt PROVE TreeInv'
<1> DEFINE body == <<eat("readsym"), CallWith("readIdent", currToken)>>
<1>1. /\ todo # <<>> /\ Head(todo).do = "parseReadStmt"
      /\ todo' = body \o Tail(todo) /\ UNCHANGED <<heap, vals>>
  BY DEF ParseReadStmt, At, Do
<1>2. ASSUME NEW s \in Stacks, NEW t \in Stacks, Effect(Head(todo), s, t)
      PROVE  Flows(body, s, t)
  <2>1. t = Push(s, Single(StmtTags))
    BY <1>1, <1>2, EffectOfReturns DEF Returns
  <2>2. Flows(body, s, t)
    <3> DEFINE m1 == Push(s, Single(StmtTags))
    <3>1. m1 \in Stacks
      BY <2>1, Pushed, KindTypes
    <3>2. Effect(eat("readsym"), s, s)
      BY <2>1, EatEffect DEF TokenTypes
    <3>3. Effect(CallWith("readIdent", currToken), s, m1)
      BY <2>1, CallEffect, KindTypes DEF Returns
    <3>4. s = s /\ t = m1
      BY <2>1
    <3> HIDE DEF m1
    <3> QED
      BY <3>1, <3>2, <3>3, <3>4, Flows2
  <2> QED
    BY <2>2
<1> HIDE DEF body
<1> QED
  BY <1>1, <1>2, DoStep

LEMMA ReadIdentTyped == ASSUME TreeInv, ControlOK', ReadIdent PROVE TreeInv'
<1> DEFINE body == <<eat("identsym"),
                    Make(ast_read_stmt(Head(todo).tok, currToken.text))>>
<1>1. /\ todo # <<>> /\ Head(todo).do = "readIdent"
      /\ todo' = body \o Tail(todo) /\ UNCHANGED <<heap, vals>>
  BY DEF ReadIdent, At, Do
<1>2. ASSUME NEW s \in Stacks, NEW t \in Stacks, Effect(Head(todo), s, t)
      PROVE  Flows(body, s, t)
  <2>1. t = Push(s, Single(StmtTags))
    BY <1>1, <1>2, EffectOfReturns DEF Returns
  <2>2. Flows(body, s, t)
    <3> DEFINE m1 == Push(s, Single(StmtTags))
    <3>1. m1 \in Stacks
      BY <2>1, Pushed, KindTypes
    <3>2. Effect(eat("identsym"), s, s)
      BY <2>1, EatEffect DEF TokenTypes
    <3>3. Effect(Make(ast_read_stmt(Head(todo).tok, currToken.text)), s, m1)
      BY <2>1, MakeEffects, KindTypes
    <3>4. s = s /\ t = m1
      BY <2>1
    <3> HIDE DEF m1
    <3> QED
      BY <3>1, <3>2, <3>3, <3>4, Flows2
  <2> QED
    BY <2>2
<1> HIDE DEF body
<1> QED
  BY <1>1, <1>2, DoStep

LEMMA ParseWriteStmtTyped == ASSUME TreeInv, ControlOK', ParseWriteStmt PROVE TreeInv'
<1> DEFINE body == <<eat("writesym"), Call("parseExpr"),
                    Make(ast_write_stmt(currToken))>>
<1>1. /\ todo # <<>> /\ Head(todo).do = "parseWriteStmt"
      /\ todo' = body \o Tail(todo) /\ UNCHANGED <<heap, vals>>
  BY DEF ParseWriteStmt, At, Do
<1>2. ASSUME NEW s \in Stacks, NEW t \in Stacks, Effect(Head(todo), s, t)
      PROVE  Flows(body, s, t)
  <2>1. t = Push(s, Single(StmtTags))
    BY <1>1, <1>2, EffectOfReturns DEF Returns
  <2>2. Flows(body, s, t)
    <3> DEFINE m1 == Push(s, Single(ExprTags))
               m2 == Push(s, Single(StmtTags))
    <3>1. /\ m1 \in Stacks
          /\ m2 \in Stacks
      BY <2>1, Pushed, KindTypes
    <3>2. Effect(eat("writesym"), s, s)
      BY <2>1, EatEffect DEF TokenTypes
    <3>3. Effect(Call("parseExpr"), s, m1)
      BY <2>1, CallEffect, KindTypes DEF Returns
    <3>4. Effect(Make(ast_write_stmt(currToken)), m1, m2)
      BY <2>1, MakeEffects, KindTypes
    <3>5. s = s /\ t = m2
      BY <2>1
    <3> HIDE DEF m1, m2
    <3> QED
      BY <3>1, <3>2, <3>3, <3>4, <3>5, Flows3
  <2> QED
    BY <2>2
<1> HIDE DEF body
<1> QED
  BY <1>1, <1>2, DoStep

LEMMA ParseSkipStmtTyped == ASSUME TreeInv, ControlOK', ParseSkipStmt PROVE TreeInv'
<1> DEFINE body == <<eat("skipsym"), Make(ast_skip_stmt(currToken))>>
<1>1. /\ todo # <<>> /\ Head(todo).do = "parseSkipStmt"
      /\ todo' = body \o Tail(todo) /\ UNCHANGED <<heap, vals>>
  BY DEF ParseSkipStmt, At, Do
<1>2. ASSUME NEW s \in Stacks, NEW t \in Stacks, Effect(Head(todo), s, t)
      PROVE  Flows(body, s, t)
  <2>1. t = Push(s, Single(StmtTags))
    BY <1>1, <1>2, EffectOfReturns DEF Returns
  <2>2. Flows(body, s, t)
    <3> DEFINE m1 == Push(s, Single(StmtTags))
    <3>1. m1 \in Stacks
      BY <2>1, Pushed, KindTypes
    <3>2. Effect(eat("skipsym"), s, s)
      BY <2>1, EatEffect DEF TokenTypes
    <3>3. Effect(Make(ast_skip_stmt(currToken)), s, m1)
      BY <2>1, MakeEffects, KindTypes
    <3>4. s = s /\ t = m1
      BY <2>1
    <3> HIDE DEF m1
    <3> QED
      BY <3>1, <3>2, <3>3, <3>4, Flows2
  <2> QED
    BY <2>2
<1> HIDE DEF body
<1> QED
  BY <1>1, <1>2, DoStep

LEMMA ParseConditionTyped == ASSUME TreeInv, ControlOK', ParseCondition PROVE TreeInv'
<1>1. CASE See("oddsym")
  <2> DEFINE body == <<eat("oddsym"), Call("parseExpr"),
                      Make(ast_odd_cond(currToken))>>
  <2>1. /\ todo # <<>> /\ Head(todo).do = "parseCondition"
        /\ todo' = body \o Tail(todo) /\ UNCHANGED <<heap, vals>>
    BY <1>1 DEF ParseCondition, At, Do
  <2>2. ASSUME NEW s \in Stacks, NEW t \in Stacks, Effect(Head(todo), s, t)
        PROVE  Flows(body, s, t)
    <3>1. t = Push(s, Single(CondTags))
      BY <2>1, <2>2, EffectOfReturns DEF Returns
    <3>2. Flows(body, s, t)
      <4> DEFINE m1 == Push(s, Single(ExprTags))
                 m2 == Push(s, Single(CondTags))
      <4>1. /\ m1 \in Stacks
            /\ m2 \in Stacks
        BY <3>1, Pushed, KindTypes
      <4>2. Effect(eat("oddsym"), s, s)
        BY <3>1, EatEffect DEF TokenTypes
      <4>3. Effect(Call("parseExpr"), s, m1)
        BY <3>1, CallEffect, KindTypes DEF Returns
      <4>4. Effect(Make(ast_odd_cond(currToken)), m1, m2)
        BY <3>1, MakeEffects, KindTypes
      <4>5. s = s /\ t = m2
        BY <3>1
      <4> HIDE DEF m1, m2
      <4> QED
        BY <4>1, <4>2, <4>3, <4>4, <4>5, Flows3
    <3> QED
      BY <3>2
  <2> HIDE DEF body
  <2> QED
    BY <2>1, <2>2, DoStep
<1>2. CASE ~See("oddsym")
  <2> DEFINE body == <<Call("parseExpr"), CallWith("which_one", currToken)>>
  <2>1. /\ todo # <<>> /\ Head(todo).do = "parseCondition"
        /\ todo' = body \o Tail(todo) /\ UNCHANGED <<heap, vals>>
    BY <1>2 DEF ParseCondition, At, Do
  <2>2. ASSUME NEW s \in Stacks, NEW t \in Stacks, Effect(Head(todo), s, t)
        PROVE  Flows(body, s, t)
    <3>1. t = Push(s, Single(CondTags))
      BY <2>1, <2>2, EffectOfReturns DEF Returns
    <3>2. Flows(body, s, t)
      <4> DEFINE m1 == Push(s, Single(ExprTags))
                 m2 == Push(s, Single(CondTags))
      <4>1. /\ m1 \in Stacks
            /\ m2 \in Stacks
        BY <3>1, Pushed, KindTypes
      <4>2. Effect(Call("parseExpr"), s, m1)
        BY <3>1, CallEffect, KindTypes DEF Returns
      <4>3. Effect(CallWith("which_one", currToken), m1, m2)
        BY <3>1, WhichOneEffect
      <4>4. s = s /\ t = m2
        BY <3>1
      <4> HIDE DEF m1, m2
      <4> QED
        BY <4>1, <4>2, <4>3, <4>4, Flows2
    <3> QED
      BY <3>2
  <2> HIDE DEF body
  <2> QED
    BY <2>1, <2>2, DoStep
<1> QED
  BY <1>1, <1>2

LEMMA WhichOneTyped == ASSUME TreeInv, ControlOK', WhichOne PROVE TreeInv'
<1>1. CASE currToken.typ \in DOMAIN RelOpOf
  <2> DEFINE body == <<eat(currToken.typ), Call("parseExpr"),
                      Make(ast_bin_cond(Head(todo).tok, RelOpOf[currToken.typ]))>>
  <2>1. /\ todo # <<>> /\ Head(todo).do = "which_one"
        /\ todo' = body \o Tail(todo) /\ UNCHANGED <<heap, vals>>
    BY <1>1 DEF WhichOne, At, Do
  <2>2. ASSUME NEW s \in Stacks, NEW t \in Stacks, Effect(Head(todo), s, t)
        PROVE  Flows(body, s, t)
    <3>1. PICK r \in Stacks : s = Push(r, Single(ExprTags)) /\ t = Push(r, Single(CondTags))
      BY <2>1, <2>2, EffectOfOthers DEF Others
    <3>2. Flows(body, s, t)
      <4> DEFINE m1 == Push(r, Single(ExprTags))
                 m2 == Push(m1, Single(ExprTags))
                 m3 == Push(r, Single(CondTags))
      <4>1. /\ m1 \in Stacks
            /\ m2 \in Stacks
            /\ m3 \in Stacks
        BY <3>1, <1>1, RelOpTypes, Pushed, KindTypes
      <4>2. Effect(eat(currToken.typ), m1, m1)
        BY <3>1, <1>1, RelOpTypes, EatEffect
      <4>3. Effect(Call("parseExpr"), m1, m2)
        BY <3>1, <1>1, RelOpTypes, CallEffect, KindTypes DEF Returns
      <4>4. Effect(Make(ast_bin_cond(Head(todo).tok, RelOpOf[currToken.typ])), m2, m3)
        BY <3>1, <1>1, RelOpTypes, MakeEffects, KindTypes
      <4>5. s = m1 /\ t = m3
        BY <3>1, <1>1, RelOpTypes
      <4> HIDE DEF m1, m2, m3
      <4> QED
        BY <4>1, <4>2, <4>3, <4>4, <4>5, Flows3
    <3> QED
      BY <3>2
  <2> HIDE DEF body
  <2> QED
    BY <2>1, <2>2, DoStep
<1>2. CASE \E op \in RelOps \cup {GarbageOp} :
              /\ At("which_one")
              /\ Do(<<Call("parseExpr"), Make(ast_bin_cond(Head(todo).tok, op))>>)
  <2>0. PICK op \in RelOps \cup {GarbageOp} :
          /\ At("which_one")
          /\ Do(<<Call("parseExpr"), Make(ast_bin_cond(Head(todo).tok, op))>>)
    BY <1>2
  <2> DEFINE body == <<Call("parseExpr"), Make(ast_bin_cond(Head(todo).tok, op))>>
  <2>1. /\ todo # <<>> /\ Head(todo).do = "which_one"
        /\ todo' = body \o Tail(todo) /\ UNCHANGED <<heap, vals>>
    BY <2>0 DEF At, Do
  <2>2. ASSUME NEW s \in Stacks, NEW t \in Stacks, Effect(Head(todo), s, t)
        PROVE  Flows(body, s, t)
    <3>1. PICK r \in Stacks : s = Push(r, Single(ExprTags)) /\ t = Push(r, Single(CondTags))
      BY <2>1, <2>2, EffectOfOthers DEF Others
    <3>2. Flows(body, s, t)
      <4> DEFINE m1 == Push(r, Single(ExprTags))
                 m2 == Push(m1, Single(ExprTags))
                 m3 == Push(r, Single(CondTags))
      <4>1. /\ m1 \in Stacks
            /\ m2 \in Stacks
            /\ m3 \in Stacks
        BY <3>1, Pushed, KindTypes
      <4>2. Effect(Call("parseExpr"), m1, m2)
        BY <3>1, CallEffect, KindTypes DEF Returns
      <4>3. Effect(Make(ast_bin_cond(Head(todo).tok, op)), m2, m3)
        BY <3>1, MakeEffects, KindTypes
      <4>4. s = m1 /\ t = m3
        BY <3>1
      <4> HIDE DEF m1, m2, m3
      <4> QED
        BY <4>1, <4>2, <4>3, <4>4, Flows2
    <3> QED
      BY <3>2
  <2> HIDE DEF body
  <2> QED
    BY <2>1, <2>2, DoStep
<1> QED
  BY <1>1, <1>2 DEF WhichOne

LEMMA ParseExprTyped == ASSUME TreeInv, ControlOK', ParseExpr PROVE TreeInv'
<1> DEFINE body == <<Call("parseTerm"), CallWith("exprLoop", currToken)>>
<1>1. /\ todo # <<>> /\ Head(todo).do = "parseExpr"
      /\ todo' = body \o Tail(todo) /\ UNCHANGED <<heap, vals>>
  BY DEF ParseExpr, At, Do
<1>2. ASSUME NEW s \in Stacks, NEW t \in Stacks, Effect(Head(todo), s, t)
      PROVE  Flows(body, s, t)
  <2>1. t = Push(s, Single(ExprTags))
    BY <1>1, <1>2, EffectOfReturns DEF Returns
  <2>2. Flows(body, s, t)
    <3> DEFINE m1 == Push(s, Single(ExprTags))
    <3>1. m1 \in Stacks
      BY <2>1, Pushed, KindTypes
    <3>2. Effect(Call("parseTerm"), s, m1)
      BY <2>1, CallEffect, KindTypes DEF Returns
    <3>3. Effect(CallWith("exprLoop", currToken), m1, m1)
      BY <2>1, ExprLoopEffect
    <3>4. s = s /\ t = m1
      BY <2>1
    <3> HIDE DEF m1
    <3> QED
      BY <3>1, <3>2, <3>3, <3>4, Flows2
  <2> QED
    BY <2>2
<1> HIDE DEF body
<1> QED
  BY <1>1, <1>2, DoStep

LEMMA ExprLoopTyped == ASSUME TreeInv, ControlOK', ExprLoop PROVE TreeInv'
<1>1. CASE currToken.typ \in SignSyms
  <2> DEFINE body == <<Call("parseAddSubTerm"),
                      CallWith("binExpr", Head(todo).tok), Head(todo)>>
  <2>1. /\ todo # <<>> /\ Head(todo).do = "exprLoop"
        /\ todo' = body \o Tail(todo) /\ UNCHANGED <<heap, vals>>
    BY <1>1 DEF ExprLoop, At, Do
  <2>2. ASSUME NEW s \in Stacks, NEW t \in Stacks, Effect(Head(todo), s, t)
        PROVE  Flows(body, s, t)
    <3>1. t = s /\ \E r \in Stacks : s = Push(r, Single(ExprTags))
      BY <2>1, <2>2, EffectOfOthers DEF Others
    <3>2. PICK r \in Stacks : s = Push(r, Single(ExprTags))
      BY <3>1
    <3>3. Flows(body, s, t)
      <4> DEFINE m1 == Push(r, Single(ExprTags))
                 m2 == Push(m1, Single(Pairs))
      <4>1. /\ m1 \in Stacks
            /\ m2 \in Stacks
        BY <3>1, <3>2, Pushed, KindTypes
      <4>2. Effect(Call("parseAddSubTerm"), m1, m2)
        BY <3>1, <3>2, CallEffect, KindTypes DEF Returns
      <4>3. Effect(CallWith("binExpr", Head(todo).tok), m2, m1)
        BY <3>1, <3>2, BinExprEffect
      <4>4. Effect(Head(todo), m1, m1)
        BY <3>1, <3>2, <2>2
      <4>5. s = m1 /\ t = m1
        BY <3>1, <3>2
      <4> HIDE DEF m1, m2
      <4> QED
        BY <4>1, <4>2, <4>3, <4>4, <4>5, Flows3
    <3> QED
      BY <3>3
  <2> HIDE DEF body
  <2> QED
    BY <2>1, <2>2, DoStep
<1>2. CASE ~(currToken.typ \in SignSyms)
  <2> DEFINE body == <<>>
  <2>1. /\ todo # <<>> /\ Head(todo).do = "exprLoop"
        /\ todo' = body \o Tail(todo) /\ UNCHANGED <<heap, vals>>
    BY <1>2 DEF ExprLoop, At, Do
  <2>2. ASSUME NEW s \in Stacks, NEW t \in Stacks, Effect(Head(todo), s, t)
        PROVE  Flows(body, s, t)
    <3>1. t = s /\ \E r \in Stacks : s = Push(r, Single(ExprTags))
      BY <2>1, <2>2, EffectOfOthers DEF Others
    <3>2. PICK r \in Stacks : s = Push(r, Single(ExprTags))
      BY <3>1
    <3>3. Flows(body, s, t)
      <4> DEFINE m1 == Push(r, Single(ExprTags))
      <4>1. m1 \in Stacks
        BY <3>1, <3>2, Pushed, KindTypes
      <4>2. s = m1 /\ t = m1
        BY <3>1, <3>2
      <4> HIDE DEF m1
      <4> QED
        BY <4>1, <4>2, Flows0
    <3> QED
      BY <3>3
  <2> HIDE DEF body
  <2> QED
    BY <2>1, <2>2, DoStep
<1> QED
  BY <1>1, <1>2

LEMMA ParseTermTyped == ASSUME TreeInv, ControlOK', ParseTerm PROVE TreeInv'
<1> DEFINE body == <<Call("parseFactor"), CallWith("termLoop", currToken)>>
<1>1. /\ todo # <<>> /\ Head(todo).do = "parseTerm"
      /\ todo' = body \o Tail(todo) /\ UNCHANGED <<heap, vals>>
  BY DEF ParseTerm, At, Do
<1>2. ASSUME NEW s \in Stacks, NEW t \in Stacks, Effect(Head(todo), s, t)
      PROVE  Flows(body, s, t)
  <2>1. t = Push(s, Single(ExprTags))
    BY <1>1, <1>2, EffectOfReturns DEF Returns
  <2>2. Flows(body, s, t)
    <3> DEFINE m1 == Push(s, Single(ExprTags))
    <3>1. m1 \in Stacks
      BY <2>1, Pushed, KindTypes
    <3>2. Effect(Call("parseFactor"), s, m1)
      BY <2>1, CallEffect, KindTypes DEF Returns
    <3>3. Effect(CallWith("termLoop", currToken), m1, m1)
      BY <2>1, ExprLoopEffect
    <3>4. s = s /\ t = m1
      BY <2>1
    <3> HIDE DEF m1
    <3> QED
      BY <3>1, <3>2, <3>3, <3>4, Flows2
  <2> QED
    BY <2>2
<1> HIDE DEF body
<1> QED
  BY <1>1, <1>2, DoStep

LEMMA TermLoopTyped == ASSUME TreeInv, ControlOK', TermLoop PROVE TreeInv'
<1>1. CASE currToken.typ \in DOMAIN MultDivOp
  <2> DEFINE body == <<Call("parseMultDivFactor"),
                      CallWith("binExpr", Head(todo).tok), Head(todo)>>
  <2>1. /\ todo # <<>> /\ Head(todo).do = "termLoop"
        /\ todo' = body \o Tail(todo) /\ UNCHANGED <<heap, vals>>
    BY <1>1 DEF TermLoop, At, Do
  <2>2. ASSUME NEW s \in Stacks, NEW t \in Stacks, Effect(Head(todo), s, t)
        PROVE  Flows(body, s, t)
    <3>1. t = s /\ \E r \in Stacks : s = Push(r, Single(ExprTags))
      BY <2>1, <2>2, EffectOfOthers DEF Others
    <3>2. PICK r \in Stacks : s = Push(r, Single(ExprTags))
      BY <3>1
    <3>3. Flows(body, s, t)
      <4> DEFINE m1 == Push(r, Single(ExprTags))
                 m2 == Push(m1, Single(Pairs))
      <4>1. /\ m1 \in Stacks
            /\ m2 \in Stacks
        BY <3>1, <3>2, Pushed, KindTypes
      <4>2. Effect(Call("parseMultDivFactor"), m1, m2)
        BY <3>1, <3>2, CallEffect, KindTypes DEF Returns
      <4>3. Effect(CallWith("binExpr", Head(todo).tok), m2, m1)
        BY <3>1, <3>2, BinExprEffect
      <4>4. Effect(Head(todo), m1, m1)
        BY <3>1, <3>2, <2>2
      <4>5. s = m1 /\ t = m1
        BY <3>1, <3>2
      <4> HIDE DEF m1, m2
      <4> QED
        BY <4>1, <4>2, <4>3, <4>4, <4>5, Flows3
    <3> QED
      BY <3>3
  <2> HIDE DEF body
  <2> QED
    BY <2>1, <2>2, DoStep
<1>2. CASE ~(currToken.typ \in DOMAIN MultDivOp)
  <2> DEFINE body == <<>>
  <2>1. /\ todo # <<>> /\ Head(todo).do = "termLoop"
        /\ todo' = body \o Tail(todo) /\ UNCHANGED <<heap, vals>>
    BY <1>2 DEF TermLoop, At, Do
  <2>2. ASSUME NEW s \in Stacks, NEW t \in Stacks, Effect(Head(todo), s, t)
        PROVE  Flows(body, s, t)
    <3>1. t = s /\ \E r \in Stacks : s = Push(r, Single(ExprTags))
      BY <2>1, <2>2, EffectOfOthers DEF Others
    <3>2. PICK r \in Stacks : s = Push(r, Single(ExprTags))
      BY <3>1
    <3>3. Flows(body, s, t)
      <4> DEFINE m1 == Push(r, Single(ExprTags))
      <4>1. m1 \in Stacks
        BY <3>1, <3>2, Pushed, KindTypes
      <4>2. s = m1 /\ t = m1
        BY <3>1, <3>2
      <4> HIDE DEF m1
      <4> QED
        BY <4>1, <4>2, Flows0
    <3> QED
      BY <3>3
  <2> HIDE DEF body
  <2> QED
    BY <2>1, <2>2, DoStep
<1> QED
  BY <1>1, <1>2

LEMMA ParseMultDivFactorTyped == ASSUME TreeInv, ControlOK', ParseMultDivFactor PROVE TreeInv'
<1>1. CASE currToken.typ \in DOMAIN MultDivOp
  <2> DEFINE body == <<eat(currToken.typ), Call("parseFactor"),
                      Make(ast_op_expr(currToken, MultDivOp[currToken.typ]))>>
  <2>1. /\ todo # <<>> /\ Head(todo).do = "parseMultDivFactor"
        /\ todo' = body \o Tail(todo) /\ UNCHANGED <<heap, vals>>
    BY <1>1 DEF ParseMultDivFactor, At, Do
  <2>2. ASSUME NEW s \in Stacks, NEW t \in Stacks, Effect(Head(todo), s, t)
        PROVE  Flows(body, s, t)
    <3>1. t = Push(s, Single(Pairs))
      BY <2>1, <2>2, EffectOfReturns DEF Returns
    <3>2. Flows(body, s, t)
      <4> DEFINE m1 == Push(s, Single(ExprTags))
                 m2 == Push(s, Single(Pairs))
      <4>1. /\ m1 \in Stacks
            /\ m2 \in Stacks
        BY <3>1, <1>1, RelOpTypes, Pushed, KindTypes
      <4>2. Effect(eat(currToken.typ), s, s)
        BY <3>1, <1>1, RelOpTypes, EatEffect
      <4>3. Effect(Call("parseFactor"), s, m1)
        BY <3>1, <1>1, RelOpTypes, CallEffect, KindTypes DEF Returns
      <4>4. Effect(Make(ast_op_expr(currToken, MultDivOp[currToken.typ])), m1, m2)
        BY <3>1, <1>1, RelOpTypes, MakeEffects, KindTypes
      <4>5. s = s /\ t = m2
        BY <3>1, <1>1, RelOpTypes
      <4> HIDE DEF m1, m2
      <4> QED
        BY <4>1, <4>2, <4>3, <4>4, <4>5, Flows3
    <3> QED
      BY <3>2
  <2> HIDE DEF body
  <2> QED
    BY <2>1, <2>2, DoStep
<1>2. CASE currToken.typ \notin DOMAIN MultDivOp
  BY <1>2, QuietStep DEF ParseMultDivFactor, parse_error_unexpected
<1> QED
  BY <1>1, <1>2

LEMMA ParseAddSubTermTyped == ASSUME TreeInv, ControlOK', ParseAddSubTerm PROVE TreeInv'
<1>1. CASE currToken.typ \in DOMAIN AddSubOp
  <2> DEFINE body == <<eat(currToken.typ), Call("parseTerm"),
                      Make(ast_op_expr(currToken, AddSubOp[currToken.typ]))>>
  <2>1. /\ todo # <<>> /\ Head(todo).do = "parseAddSubTerm"
        /\ todo' = body \o Tail(todo) /\ UNCHANGED <<heap, vals>>
    BY <1>1 DEF ParseAddSubTerm, At, Do
  <2>2. ASSUME NEW s \in Stacks, NEW t \in Stacks, Effect(Head(todo), s, t)
        PROVE  Flows(body, s, t)
    <3>1. t = Push(s, Single(Pairs))
      BY <2>1, <2>2, EffectOfReturns DEF Returns
    <3>2. Flows(body, s, t)
      <4> DEFINE m1 == Push(s, Single(ExprTags))
                 m2 == Push(s, Single(Pairs))
      <4>1. /\ m1 \in Stacks
            /\ m2 \in Stacks
        BY <3>1, <1>1, RelOpTypes, Pushed, KindTypes
      <4>2. Effect(eat(currToken.typ), s, s)
        BY <3>1, <1>1, RelOpTypes, EatEffect
      <4>3. Effect(Call("parseTerm"), s, m1)
        BY <3>1, <1>1, RelOpTypes, CallEffect, KindTypes DEF Returns
      <4>4. Effect(Make(ast_op_expr(currToken, AddSubOp[currToken.typ])), m1, m2)
        BY <3>1, <1>1, RelOpTypes, MakeEffects, KindTypes
      <4>5. s = s /\ t = m2
        BY <3>1, <1>1, RelOpTypes
      <4> HIDE DEF m1, m2
      <4> QED
        BY <4>1, <4>2, <4>3, <4>4, <4>5, Flows3
    <3> QED
      BY <3>2
  <2> HIDE DEF body
  <2> QED
    BY <2>1, <2>2, DoStep
<1>2. CASE currToken.typ \notin DOMAIN AddSubOp
  BY <1>2, QuietStep DEF ParseAddSubTerm, parse_error_unexpected
<1> QED
  BY <1>1, <1>2

LEMMA ParseFactorTyped == ASSUME TreeInv, ControlOK', ParseFactor PROVE TreeInv'
<1>1. CASE At("parseFactor") /\ Do(<<Call("parseIdentExpr")>>)
  <2> DEFINE body == <<Call("parseIdentExpr")>>
  <2>1. /\ todo # <<>> /\ Head(todo).do = "parseFactor"
        /\ todo' = body \o Tail(todo) /\ UNCHANGED <<heap, vals>>
    BY <1>1 DEF At, Do
  <2>2. ASSUME NEW s \in Stacks, NEW t \in Stacks, Effect(Head(todo), s, t)
        PROVE  Flows(body, s, t)
    <3>1. t = Push(s, Single(ExprTags))
      BY <2>1, <2>2, EffectOfReturns DEF Returns
    <3>2. Flows(body, s, t)
      <4> DEFINE m1 == Push(s, Single(ExprTags))
      <4>1. m1 \in Stacks
        BY <3>1, Pushed, KindTypes
      <4>2. Effect(Call("parseIdentExpr"), s, m1)
        BY <3>1, CallEffect, KindTypes DEF Returns
      <4>3. s = s /\ t = m1
        BY <3>1
      <4> HIDE DEF m1
      <4> QED
        BY <4>1, <4>2, <4>3, Flows1
    <3> QED
      BY <3>2
  <2> HIDE DEF body
  <2> QED
    BY <2>1, <2>2, DoStep
<1>2. CASE At("parseFactor") /\ Do(<<Call("parseParenExpr")>>)
  <2> DEFINE body == <<Call("parseParenExpr")>>
  <2>1. /\ todo # <<>> /\ Head(todo).do = "parseFactor"
        /\ todo' = body \o Tail(todo) /\ UNCHANGED <<heap, vals>>
    BY <1>2 DEF At, Do
  <2>2. ASSUME NEW s \in Stacks, NEW t \in Stacks, Effect(Head(todo), s, t)
        PROVE  Flows(body, s, t)
    <3>1. t = Push(s, Single(ExprTags))
      BY <2>1, <2>2, EffectOfReturns DEF Returns
    <3>2. Flows(body, s, t)
      <4> DEFINE m1 == Push(s, Single(ExprTags))
      <4>1. m1 \in Stacks
        BY <3>1, Pushed, KindTypes
      <4>2. Effect(Call("parseParenExpr"), s, m1)
        BY <3>1, CallEffect, KindTypes DEF Returns
      <4>3. s = s /\ t = m1
        BY <3>1
      <4> HIDE DEF m1
      <4> QED
        BY <4>1, <4>2, <4>3, Flows1
    <3> QED
      BY <3>2
  <2> HIDE DEF body
  <2> QED
    BY <2>1, <2>2, DoStep
<1>3. CASE At("parseFactor") /\ Do(<<CallWith("parseOpExpr", currToken)>>)
  <2> DEFINE body == <<CallWith("parseOpExpr", currToken)>>
  <2>1. /\ todo # <<>> /\ Head(todo).do = "parseFactor"
        /\ todo' = body \o Tail(todo) /\ UNCHANGED <<heap, vals>>
    BY <1>3 DEF At, Do
  <2>2. ASSUME NEW s \in Stacks, NEW t \in Stacks, Effect(Head(todo), s, t)
        PROVE  Flows(body, s, t)
    <3>1. t = Push(s, Single(ExprTags))
      BY <2>1, <2>2, EffectOfReturns DEF Returns
    <3>2. Flows(body, s, t)
      <4> DEFINE m1 == Push(s, Single(ExprTags))
      <4>1. m1 \in Stacks
        BY <3>1, Pushed, KindTypes
      <4>2. Effect(CallWith("parseOpExpr", currToken), s, m1)
        BY <3>1, CallEffect, KindTypes DEF Returns
      <4>3. s = s /\ t = m1
        BY <3>1
      <4> HIDE DEF m1
      <4> QED
        BY <4>1, <4>2, <4>3, Flows1
    <3> QED
      BY <3>2
  <2> HIDE DEF body
  <2> QED
    BY <2>1, <2>2, DoStep
<1>4. CASE At("parseFactor") /\ Do(<<Call("parseNumber")>>)
  <2> DEFINE body == <<Call("parseNumber")>>
  <2>1. /\ todo # <<>> /\ Head(todo).do = "parseFactor"
        /\ todo' = body \o Tail(todo) /\ UNCHANGED <<heap, vals>>
    BY <1>4 DEF At, Do
  <2>2. ASSUME NEW s \in Stacks, NEW t \in Stacks, Effect(Head(todo), s, t)
        PROVE  Flows(body, s, t)
    <3>1. t = Push(s, Single(ExprTags))
      BY <2>1, <2>2, EffectOfReturns DEF Returns
    <3>2. Flows(body, s, t)
      <4> DEFINE m1 == Push(s, Single(ExprTags))
      <4>1. m1 \in Stacks
        BY <3>1, Pushed, KindTypes
      <4>2. Effect(Call("parseNumber"), s, m1)
        BY <3>1, CallEffect, KindTypes DEF Returns
      <4>3. s = s /\ t = m1
        BY <3>1
      <4> HIDE DEF m1
      <4> QED
        BY <4>1, <4>2, <4>3, Flows1
    <3> QED
      BY <3>2
  <2> HIDE DEF body
  <2> QED
    BY <2>1, <2>2, DoStep
<1>5. CASE \E expected : parse_error_unexpected(expected)
  BY <1>5, QuietStep DEF parse_error_unexpected
<1> QED
  BY <1>1, <1>2, <1>3, <1>4, <1>5 DEF ParseFactor

LEMMA ParseOpExprTyped == ASSUME TreeInv, ControlOK', ParseOpExpr PROVE TreeInv'
<1>1. CASE Head(todo).tok.typ \in SignSyms
  <2> DEFINE body == <<Call("parseNumber")>>
  <2>1. /\ todo # <<>> /\ Head(todo).do = "parseOpExpr"
        /\ todo' = body \o Tail(todo) /\ UNCHANGED <<heap, vals>>
    BY <1>1 DEF ParseOpExpr, At, Do
  <2>2. ASSUME NEW s \in Stacks, NEW t \in Stacks, Effect(Head(todo), s, t)
        PROVE  Flows(body, s, t)
    <3>1. t = Push(s, Single(ExprTags))
      BY <2>1, <2>2, EffectOfReturns DEF Returns
    <3>2. Flows(body, s, t)
      <4> DEFINE m1 == Push(s, Single(ExprTags))
      <4>1. m1 \in Stacks
        BY <3>1, Pushed, KindTypes
      <4>2. Effect(Call("parseNumber"), s, m1)
        BY <3>1, CallEffect, KindTypes DEF Returns
      <4>3. s = s /\ t = m1
        BY <3>1
      <4> HIDE DEF m1
      <4> QED
        BY <4>1, <4>2, <4>3, Flows1
    <3> QED
      BY <3>2
  <2> HIDE DEF body
  <2> QED
    BY <2>1, <2>2, DoStep
<1>2. CASE Head(todo).tok.typ \notin SignSyms
  BY <1>2, QuietStep DEF ParseOpExpr, parse_error_unexpected
<1> QED
  BY <1>1, <1>2

LEMMA ParseParenExprTyped == ASSUME TreeInv, ControlOK', ParseParenExpr PROVE TreeInv'
<1> DEFINE body == <<eat("lparensym"), Call("parseExpr"), eat("rparensym"),
                    CallWith("relocate", currToken)>>
<1>1. /\ todo # <<>> /\ Head(todo).do = "parseParenExpr"
      /\ todo' = body \o Tail(todo) /\ UNCHANGED <<heap, vals>>
  BY DEF ParseParenExpr, At, Do
<1>2. ASSUME NEW s \in Stacks, NEW t \in Stacks, Effect(Head(todo), s, t)
      PROVE  Flows(body, s, t)
  <2>1. t = Push(s, Single(ExprTags))
    BY <1>1, <1>2, EffectOfReturns DEF Returns
  <2>2. Flows(body, s, t)
    <3> DEFINE m1 == Push(s, Single(ExprTags))
    <3>1. m1 \in Stacks
      BY <2>1, Pushed, KindTypes
    <3>2. Effect(eat("lparensym"), s, s)
      BY <2>1, EatEffect DEF TokenTypes
    <3>3. Effect(Call("parseExpr"), s, m1)
      BY <2>1, CallEffect, KindTypes DEF Returns
    <3>4. Effect(eat("rparensym"), m1, m1)
      BY <2>1, EatEffect DEF TokenTypes
    <3>5. Effect(CallWith("relocate", currToken), m1, m1)
      BY <2>1, ExprLoopEffect
    <3>6. s = s /\ t = m1
      BY <2>1
    <3> HIDE DEF m1
    <3> QED
      BY <3>1, <3>2, <3>3, <3>4, <3>5, <3>6, Flows4
  <2> QED
    BY <2>2
<1> HIDE DEF body
<1> QED
  BY <1>1, <1>2, DoStep

LEMMA ParseIdentExprTyped == ASSUME TreeInv, ControlOK', ParseIdentExpr PROVE TreeInv'
<1> DEFINE body == <<eat("identsym"), Make(ast_ident(currToken, currToken.text))>>
<1>1. /\ todo # <<>> /\ Head(todo).do = "parseIdentExpr"
      /\ todo' = body \o Tail(todo) /\ UNCHANGED <<heap, vals>>
  BY DEF ParseIdentExpr, At, Do
<1>2. ASSUME NEW s \in Stacks, NEW t \in Stacks, Effect(Head(todo), s, t)
      PROVE  Flows(body, s, t)
  <2>1. t = Push(s, Single(ExprTags))
    BY <1>1, <1>2, EffectOfReturns DEF Returns
  <2>2. Flows(body, s, t)
    <3> DEFINE m1 == Push(s, Single(ExprTags))
    <3>1. m1 \in Stacks
      BY <2>1, Pushed, KindTypes
    <3>2. Effect(eat("identsym"), s, s)
      BY <2>1, EatEffect DEF TokenTypes
    <3>3. Effect(Make(ast_ident(currToken, currToken.text)), s, m1)
      BY <2>1, MakeEffects, KindTypes
    <3>4. s = s /\ t = m1
      BY <2>1
    <3> HIDE DEF m1
    <3> QED
      BY <3>1, <3>2, <3>3, <3>4, Flows2
  <2> QED
    BY <2>2
<1> HIDE DEF body
<1> QED
  BY <1>1, <1>2, DoStep

LEMMA ParseNumberTyped == ASSUME TreeInv, ControlOK', ParseNumber PROVE TreeInv'
<1>1. CASE /\ currToken.typ \in SignSyms /\ At("parseNumber")
           /\ Do(<<eat(currToken.typ), CallWith("signedValue", currToken)>>)
  <2> DEFINE body == <<eat(currToken.typ), CallWith("signedValue", currToken)>>
  <2>1. /\ todo # <<>> /\ Head(todo).do = "parseNumber"
        /\ todo' = body \o Tail(todo) /\ UNCHANGED <<heap, vals>>
    BY <1>1 DEF At, Do
  <2>2. ASSUME NEW s \in Stacks, NEW t \in Stacks, Effect(Head(todo), s, t)
        PROVE  Flows(body, s, t)
    <3>1. t = Push(s, Single(ExprTags))
      BY <2>1, <2>2, EffectOfReturns DEF Returns
    <3>2. Flows(body, s, t)
      <4> DEFINE m1 == Push(s, Single(ExprTags))
      <4>1. m1 \in Stacks
        BY <3>1, <1>1, RelOpTypes, Pushed, KindTypes
      <4>2. Effect(eat(currToken.typ), s, s)
        BY <3>1, <1>1, RelOpTypes, EatEffect
      <4>3. Effect(CallWith("signedValue", currToken), s, m1)
        BY <3>1, <1>1, RelOpTypes, CallEffect, KindTypes DEF Returns
      <4>4. s = s /\ t = m1
        BY <3>1, <1>1, RelOpTypes
      <4> HIDE DEF m1
      <4> QED
        BY <4>1, <4>2, <4>3, <4>4, Flows2
    <3> QED
      BY <3>2
  <2> HIDE DEF body
  <2> QED
    BY <2>1, <2>2, DoStep
<1>2. CASE /\ At("parseNumber")
           /\ Do(<<eat("numbersym"), Make(ast_number(currToken, currToken.value))>>)
  <2> DEFINE body == <<eat("numbersym"),
                      Make(ast_number(currToken, currToken.value))>>
  <2>1. /\ todo # <<>> /\ Head(todo).do = "parseNumber"
        /\ todo' = body \o Tail(todo) /\ UNCHANGED <<heap, vals>>
    BY <1>2 DEF At, Do
  <2>2. ASSUME NEW s \in Stacks, NEW t \in Stacks, Effect(Head(todo), s, t)
        PROVE  Flows(body, s, t)
    <3>1. t = Push(s, Single(ExprTags))
      BY <2>1, <2>2, EffectOfReturns DEF Returns
    <3>2. Flows(body, s, t)
      <4> DEFINE m1 == Push(s, Single(ExprTags))
      <4>1. m1 \in Stacks
        BY <3>1, Pushed, KindTypes
      <4>2. Effect(eat("numbersym"), s, s)
        BY <3>1, EatEffect DEF TokenTypes
      <4>3. Effect(Make(ast_number(currToken, currToken.value)), s, m1)
        BY <3>1, MakeEffects, KindTypes
      <4>4. s = s /\ t = m1
        BY <3>1
      <4> HIDE DEF m1
      <4> QED
        BY <4>1, <4>2, <4>3, <4>4, Flows2
    <3> QED
      BY <3>2
  <2> HIDE DEF body
  <2> QED
    BY <2>1, <2>2, DoStep
<1>3. CASE \E expected : parse_error_unexpected(expected)
  BY <1>3, QuietStep DEF parse_error_unexpected
<1> QED
  BY <1>1, <1>2, <1>3 DEF ParseNumber

LEMMA SignedValueTyped == ASSUME TreeInv, ControlOK', SignedValue PROVE TreeInv'
<1> DEFINE value == IF Head(todo).tok.typ = "minussym" THEN currToken.value * (-1)
                    ELSE currToken.value
<1> DEFINE body == <<eat("numbersym"), Make(ast_number(Head(todo).tok, value))>>
<1>1. /\ todo # <<>> /\ Head(todo).do = "signedValue"
      /\ todo' = body \o Tail(todo) /\ UNCHANGED <<heap, vals>>
  BY DEF SignedValue, At, Do
<1>2. ASSUME NEW s \in Stacks, NEW t \in Stacks, Effect(Head(todo), s, t)
      PROVE  Flows(body, s, t)
  <2>1. t = Push(s, Single(ExprTags))
    BY <1>1, <1>2, EffectOfReturns DEF Returns
  <2>2. Flows(body, s, t)
    <3> DEFINE m1 == Push(s, Single(ExprTags))
    <3>1. m1 \in Stacks
      BY <2>1, Pushed, KindTypes
    <3>2. Effect(eat("numbersym"), s, s)
      BY <2>1, EatEffect DEF TokenTypes
    <3>3. Effect(Make(ast_number(Head(todo).tok, value)), s, m1)
      BY <2>1, MakeEffects, KindTypes
    <3>4. s = s /\ t = m1
      BY <2>1
    <3> HIDE DEF m1
    <3> QED
      BY <3>1, <3>2, <3>3, <3>4, Flows2
  <2> QED
    BY <2>2
<1> HIDE DEF body
<1> QED
  BY <1>1, <1>2, DoStep

-----------------------------------------------------------------------------
(* The steps that change the pointers in use, or the heap.                 *)

\* A step that replaces the head of the computation by a body, whatever it does.
LEMMA HeapStep ==
  ASSUME TreeInv, ControlOK', todo # <<>>, NEW body, todo' = body \o Tail(todo),
         \A s, t \in Stacks :
           Effect(Head(todo), s, t) /\ StackOK(heap, vals, s) =>
             /\ HeapOK(heap') /\ vals' \in Seq(Nat)
             /\ \E m \in Stacks : /\ Flows(body, m, t) /\ StackOK(heap', vals', m)
                                  /\ (Owned(heap, vals, s) => Owned(heap', vals', m))
  PROVE  TreeInv'
<1>1. PICK s \in Stacks : /\ Flows(todo, s, Final) /\ StackOK(heap, vals, s)
                          /\ Owned(heap, vals, s)
  BY DEF TreeInv, Typed
<1>2. PICK t \in Stacks : Effect(Head(todo), s, t) /\ Flows(Tail(todo), t, Final)
  BY <1>1, FlowsHead
<1>3. /\ HeapOK(heap') /\ vals' \in Seq(Nat)
      /\ \E m \in Stacks : /\ Flows(body, m, t) /\ StackOK(heap', vals', m)
                           /\ (Owned(heap, vals, s) => Owned(heap', vals', m))
  BY <1>1, <1>2
<1>4. PICK m \in Stacks : /\ Flows(body, m, t) /\ StackOK(heap', vals', m)
                          /\ (Owned(heap, vals, s) => Owned(heap', vals', m))
  BY ONLY <1>3
<1>5. Flows(todo', m, Final)
  BY <1>2, <1>4, FlowsConcat
<1>6. Typed(heap', vals', todo')
  BY <1>1, <1>4, <1>5 DEF Typed
<1> QED
  BY <1>3, <1>6 DEF TreeInv

LEMMA TailStep ==
  ASSUME TreeInv, ControlOK', todo # <<>>, todo' = Tail(todo),
         \A s, t \in Stacks :
           Effect(Head(todo), s, t) /\ StackOK(heap, vals, s) =>
             /\ HeapOK(heap') /\ vals' \in Seq(Nat)
             /\ StackOK(heap', vals', t)
             /\ (Owned(heap, vals, s) => Owned(heap', vals', t))
  PROVE  TreeInv'
<1>1. todo' = <<>> \o Tail(todo)
  BY DEF TreeInv, ControlOK
<1>2. ASSUME NEW s \in Stacks, NEW t \in Stacks,
             Effect(Head(todo), s, t), StackOK(heap, vals, s)
      PROVE  /\ HeapOK(heap') /\ vals' \in Seq(Nat)
             /\ \E m \in Stacks : /\ Flows(<<>>, m, t) /\ StackOK(heap', vals', m)
                                  /\ (Owned(heap, vals, s) => Owned(heap', vals', m))
  BY <1>2, Flows0
<1> QED
  BY <1>1, <1>2, HeapStep

\* Beginning a list.
LEMMA DoWithListTyped ==
  ASSUME TreeInv, ControlOK', todo # <<>>, NEW T \in ListClasses,
         Returns(Head(todo).do, List(T)), NEW i, DoWithList(<<i>>),
         \A r \in Stacks : Effect(i, Push(Push(r, List(T)), Last(T)), Push(r, List(T)))
  PROVE  TreeInv'
<1> DEFINE body == <<i>>
<1>1. todo' = body \o Tail(todo) /\ heap' = heap /\ vals' = vals \o <<NULL, NULL>>
  BY DEF DoWithList
<1>2. vals \in Seq(Nat) /\ HeapOK(heap)
  BY DEF TreeInv
<1>3. ASSUME NEW s \in Stacks, NEW t \in Stacks,
             Effect(Head(todo), s, t), StackOK(heap, vals, s)
      PROVE  /\ HeapOK(heap') /\ vals' \in Seq(Nat)
             /\ \E m \in Stacks : /\ Flows(body, m, t) /\ StackOK(heap', vals', m)
                                  /\ (Owned(heap, vals, s) => Owned(heap', vals', m))
  <2> DEFINE m == Push(t, Last(T))
             v1 == Append(vals, NULL)
             v2 == Append(v1, NULL)
  <2>1. t = Push(s, List(T))
    BY <1>3, EffectOfReturns
  <2>2. List(T) \in Kinds /\ Last(T) \in Kinds /\ m \in Stacks
    BY KindTypes, Pushed
  <2>3. NULL \in Nat /\ \A u, k : Beneath(vals, u, NULL, k) /\ Beneath(v1, u, NULL, k)
    BY DEF NULL, Beneath, Below
  <2>4. Fits(heap, NULL, List(T)) /\ Fits(heap, NULL, Last(T))
    BY DEF Fits, List, Last, Kind
  <2>5. List(T).role # "last"
    BY DEF List, Kind
  <2>6. v1 \in Seq(Nat) /\ StackOK(heap, v1, t)
    BY <1>2, <1>3, <2>1, <2>2, <2>3, <2>4, <2>5, PushOK
  <2>7. v1 # <<>> /\ v1[Len(v1)] = NULL
    BY <1>2, <2>3
  <2>11. /\ Holdings(heap, vals, s) \in Seq(Nat)
         /\ Holdings(heap, v1, t) = Append(Holdings(heap, vals, s), NULL)
    <3>1. Held(heap, NULL, List(T)) = NULL
      BY DEF Held
    <3> QED
      BY <1>2, <1>3, <2>1, <2>2, <2>3, <2>4, <3>1, HoldingsPush
  <2> HIDE DEF v1
  <2>12. /\ Holdings(heap, v1, t) \in Seq(Nat)
         /\ Holdings(heap, v2, m) = Append(Holdings(heap, v1, t), NULL)
    <3>1. Held(heap, NULL, Last(T)) = NULL
      BY DEF Held
    <3> QED
      BY <1>2, <2>2, <2>3, <2>4, <2>6, <3>1, HoldingsPush
  <2>13. Owned(heap, vals, s) => Owned(heap, v2, m)
    <3>1. Whole(heap, Holdings(heap, v1, t)) <=> Whole(heap, Holdings(heap, vals, s))
      BY <2>11, NullRoot
    <3>2. Whole(heap, Holdings(heap, v2, m)) <=> Whole(heap, Holdings(heap, v1, t))
      BY <2>12, NullRoot
    <3>3. Grove(heap, vals, s) => Grove(heap, v1, t)
      <4>1. Len(vals) = Len(s)
        BY <1>3 DEF StackOK
      <4> QED
        BY <1>2, <2>1, <2>2, <4>1, GrovePush DEF v1
    <3>4. Grove(heap, v1, t) => Grove(heap, v2, m)
      <4>1. Len(v1) = Len(t)
        BY <2>6 DEF StackOK
      <4> QED
        BY <2>2, <2>6, <4>1, GrovePush
    <3> QED
      BY <3>1, <3>2, <3>3, <3>4 DEF Owned
  <2>8. v2 \in Seq(Nat) /\ StackOK(heap, v2, m)
    BY <2>2, <2>3, <2>4, <2>6, <2>7, PushOK
  <2>9. vals' = v2
    BY <1>1, <1>2, <2>3 DEF v1
  <2>10. Flows(body, m, t)
    <3>1. Effect(i, m, t)
      BY <2>1
    <3> QED
      BY <2>2, <3>1, Flows1
  <2> QED
    BY <1>1, <1>2, <2>2, <2>8, <2>9, <2>10, <2>13
<1> HIDE DEF body
<1> QED
  BY <1>1, <1>3, HeapStep

LEMMA ParseConstDeclsTyped == ASSUME TreeInv, ControlOK', ParseConstDecls PROVE TreeInv'
<1>1. /\ todo # <<>> /\ Returns(Head(todo).do, List(Consts))
      /\ DoWithList(<<CallWith("constDeclsLoop", currToken)>>)
  BY DEF ParseConstDecls, At, Returns
<1>2. Consts \in ListClasses /\ List(Consts) \in Kinds /\ LoopOver("constDeclsLoop", List(Consts), Consts)
  BY KindTypes DEF LoopOver
<1>3. \A r \in Stacks : Effect(CallWith("constDeclsLoop", currToken),
                               Push(Push(r, List(Consts)), Last(Consts)), Push(r, List(Consts)))
  BY <1>2, LoopEffect
<1> QED
  BY <1>1, <1>2, <1>3, DoWithListTyped

LEMMA ParseVarDeclsTyped == ASSUME TreeInv, ControlOK', ParseVarDecls PROVE TreeInv'
<1>1. /\ todo # <<>> /\ Returns(Head(todo).do, List(Vars))
      /\ DoWithList(<<Call("varDeclsLoop")>>)
  BY DEF ParseVarDecls, At, Returns
<1>2. Vars \in ListClasses /\ List(Vars) \in Kinds /\ LoopOver("varDeclsLoop", List(Vars), Vars)
  BY KindTypes DEF LoopOver
<1>3. \A r \in Stacks : Effect(Call("varDeclsLoop"),
                               Push(Push(r, List(Vars)), Last(Vars)), Push(r, List(Vars)))
  BY <1>2, LoopEffect
<1> QED
  BY <1>1, <1>2, <1>3, DoWithListTyped

LEMMA ParseStmtListTyped == ASSUME TreeInv, ControlOK', ParseStmtList PROVE TreeInv'
<1>1. /\ todo # <<>> /\ Returns(Head(todo).do, List(StmtTags))
      /\ DoWithList(<<Call("stmtListLoop")>>)
  BY DEF ParseStmtList, At, Returns
<1>2. StmtTags \in ListClasses /\ List(StmtTags) \in Kinds /\ LoopOver("stmtListLoop", List(StmtTags), StmtTags)
  BY KindTypes DEF LoopOver
<1>3. \A r \in Stacks : Effect(Call("stmtListLoop"),
                               Push(Push(r, List(StmtTags)), Last(StmtTags)), Push(r, List(StmtTags)))
  BY <1>2, LoopEffect
<1> QED
  BY <1>1, <1>2, <1>3, DoWithListTyped

\* Allocating a node, which replaces the pointers above the stack r.
LEMMA BuildTyped ==
  ASSUME NEW h, HeapOK(h), NEW w \in Seq(Nat), NEW r \in Stacks, StackOK(h, w, r),
         NEW node, NodeOK(h, node), NEW T \in Classes, node.tag \in T
  PROVE  /\ HeapOK(Append(h, node))
         /\ Append(w, Len(h) + 1) \in Seq(Nat)
         /\ StackOK(Append(h, node), Append(w, Len(h) + 1), Push(r, Single(T)))
<1> DEFINE g == Append(h, node)
           n == Len(h) + 1
           k == Single(T)
<1>1. /\ HeapOK(g) /\ Len(g) = n /\ g[n] = node
      /\ \A p \in 1 .. Len(h) : g[p] = h[p]
  BY AllocOK
<1>2. Len(h) \in Nat /\ n \in Nat
  BY HeapOKNodes
<1>3. k \in Kinds /\ k.role = "single" /\ k.tags = T
  BY KindTypes DEF Single, Kind
<1> HIDE DEF g, n, k
<1>4. StackOK(g, w, r)
  <2>1. Len(g) \in Nat /\ Len(h) <= Len(g)
    BY <1>1, <1>2 DEF n
  <2> QED
    BY <1>1, <1>2, <2>1, StackOnLargerHeap
<1>5. Fits(g, n, k)
  <2>1. n \in 1 .. Len(g)
    BY <1>1, <1>2 DEF n
  <2>2. node.next = NULL
    BY DEF NodeOK
  <2> QED
    BY <1>1, <1>3, <2>1, <2>2 DEF Fits
<1>6. Beneath(w, r, n, k)
  <2> SUFFICES ASSUME NEW i \in 1 .. Len(r) PROVE Below(w[i], r[i], n, k)
    BY DEF Beneath
  <2>1. Fits(h, w[i], r[i])
    BY DEF StackOK
  <2>2. w[i] = NULL \/ w[i] < n
    BY <1>2, <2>1 DEF Fits, n
  <2> QED
    BY <2>2 DEF Below
<1>7. Append(w, n) \in Seq(Nat) /\ StackOK(g, Append(w, n), Push(r, k))
  BY <1>2, <1>3, <1>4, <1>5, <1>6, PushOK
<1> QED
  BY <1>1, <1>7 DEF g, n, k

\* The new node holds what it takes, or is an operand pair and does not count.
LEMMA ConcatOne ==
  ASSUME NEW x \in Seq(Nat), NEW y \in Seq(Nat), Len(y) = 1
  PROVE  x \o y = Append(x, y[1])
<1>1. y[1] \in Nat
  <2>1. \A i \in 1 .. Len(y) : y[i] \in Nat
    BY ONLY y \in Seq(Nat)
  <2>2. 1 \in 1 .. Len(y)
    OBVIOUS
  <2> QED
    BY ONLY <2>1, <2>2
<1> DEFINE e == y[1]
           z == Append(x, e)
           w == x \o y
<1>2. z \in Seq(Nat) /\ Len(z) = Len(x) + 1 /\ Len(x) \in Nat
      /\ z[Len(x) + 1] = e /\ \A i \in 1 .. Len(x) : z[i] = x[i]
  <2>1. e \in Nat
    BY <1>1
  <2> HIDE DEF e
  <2> QED
    BY ONLY <2>1, x \in Seq(Nat)
<1>3. w \in Seq(Nat) /\ Len(w) = Len(x) + Len(y)
      /\ \A i \in 1 .. Len(x) + Len(y) : w[i] = IF i <= Len(x) THEN x[i] ELSE y[i - Len(x)]
  BY ONLY x \in Seq(Nat), y \in Seq(Nat)
<1>4. (Len(x) + 1) - Len(x) = 1
  BY <1>2
<1>5. w[Len(x) + 1] = e /\ Len(w) = Len(x) + 1 /\ \A i \in 1 .. Len(x) : w[i] = x[i]
  <2> HIDE DEF w
  <2> QED
    BY <1>2, <1>3, <1>4
<1> HIDE DEF e, z, w
<1>6. \A i \in 1 .. Len(w) : w[i] = z[i]
  <2> TAKE i \in 1 .. Len(w)
  <2>1. i \in 1 .. Len(x) \/ i = Len(x) + 1
    BY <1>2, <1>5
  <2> QED
    BY <1>2, <1>5, <2>1
<1>7. w = z
  BY <1>2, <1>3, <1>5, <1>6, SeqEqual
<1> QED
  BY <1>7 DEF w, z, e

LEMMA BuildWhole ==
  ASSUME NEW h, HeapOK(h), NEW w \in Seq(Nat), NEW r \in Stacks, StackOK(h, w, r),
         NEW node, NodeOK(h, node), NEW T \in Classes, node.tag \in T,
         Holdings(h, w, r) \in Seq(Nat), Whole(h, Holdings(h, w, r) \o node.kids)
  PROVE  Whole(Append(h, node),
               Holdings(Append(h, node), Append(w, Len(h) + 1), Push(r, Single(T))))
<1> DEFINE g == Append(h, node)
           n == Len(h) + 1
           k == Single(T)
           x == Holdings(h, w, r)
           y == Holdings(g, Append(w, n), Push(r, k))
<1>1. /\ HeapOK(g) /\ Len(g) = n /\ g[n] = node
      /\ \A p \in 1 .. Len(h) : g[p] = h[p]
  BY AllocOK
<1>2. Len(h) \in Nat /\ n \in Nat /\ n # NULL /\ h \in Seq(Nodes)
  BY HeapOKNodes DEF NULL
<1>3. k \in Kinds /\ k.role = "single" /\ k.tags = T
  BY KindTypes DEF Single, Kind
<1>4. node \in Nodes /\ node.next = NULL /\ PairFits(h, node)
  BY DEF NodeOK
<1>5. x \in Seq(Nat) /\ Whole(h, x \o node.kids)
  OBVIOUS
<1> HIDE DEF g, n, k, x
<1>6. StackOK(g, w, r)
  <2>1. Len(g) \in Nat /\ Len(h) <= Len(g)
    BY <1>1, <1>2 DEF n
  <2> QED
    BY <1>1, <1>2, <2>1, StackOnLargerHeap
<1>7. Fits(g, n, k)
  <2>1. n \in 1 .. Len(g)
    BY <1>1, <1>2 DEF n
  <2> QED
    BY <1>1, <1>3, <1>4, <2>1 DEF Fits
<1>8. Holdings(g, w, r) = x
  BY <1>1, HoldingsStay DEF x
<1>9. y = Append(x, Held(g, n, k))
  BY <1>1, <1>2, <1>3, <1>6, <1>7, <1>8, HoldingsPush
<1> HIDE DEF y
<1>10. CASE T = Pairs
  <2>1. node.tag = "unset"
    BY <1>10 DEF Pairs
  <2>2. Held(g, n, k) = node.kids[1]
    BY <1>1, <1>2, <1>3, <1>10 DEF Held
  <2>3. node.kids \in Seq(Nat) /\ Len(node.kids) = 1
    BY <1>4, <2>1 DEF PairFits, Nodes
  <2>4. x \o node.kids = Append(x, node.kids[1])
    BY <1>5, <2>3, ConcatOne
  <2>5. Whole(g, y)
    BY <1>2, <1>5, <1>9, <2>1, <2>2, <2>4, PairWhole DEF g
  <2> QED
    BY <2>5 DEF y, g, n, k
<1>11. CASE T # Pairs
  <2>1. node.tag # "unset"
    BY <1>11 DEF Classes, Programs, Consts, Vars, StmtTags, CondTags, ExprTags, Pairs
  <2>2. Held(g, n, k) = n
    BY <1>2, <1>3, <1>11 DEF Held
  <2>3. node.kids \in Seq(Nat)
    BY <1>4 DEF Nodes
  <2>4. Whole(g, y)
    BY <1>2, <1>4, <1>5, <1>9, <2>1, <2>2, <2>3, NodeWhole DEF g, n
  <2> QED
    BY <2>4 DEF y, g, n, k
<1> QED
  BY <1>10, <1>11

\* Where the elements of a concatenation are.
LEMMA ConcatElements ==
  ASSUME NEW x \in Seq(Nat), NEW y \in Seq(Nat)
  PROVE  /\ Len(x \o y) = Len(x) + Len(y) /\ Len(y) \in Nat
         /\ \A j \in 1 .. Len(y) : (x \o y)[Len(x) + j] = y[j]
<1>1. /\ Len(x \o y) = Len(x) + Len(y) /\ Len(x) \in Nat /\ Len(y) \in Nat
      /\ \A i \in 1 .. Len(x) + Len(y) :
           (x \o y)[i] = IF i <= Len(x) THEN x[i] ELSE y[i - Len(x)]
  OBVIOUS
<1>2. ASSUME NEW j \in 1 .. Len(y)
      PROVE  (x \o y)[Len(x) + j] = y[j]
  <2>1. /\ Len(x) + j \in 1 .. Len(x) + Len(y) /\ ~(Len(x) + j <= Len(x))
        /\ (Len(x) + j) - Len(x) = j
    BY <1>1
  <2> DEFINE z == x \o y
  <2>2. \A i \in 1 .. Len(x) + Len(y) : z[i] = IF i <= Len(x) THEN x[i] ELSE y[i - Len(x)]
    BY <1>1
  <2> HIDE DEF z
  <2>3. z[Len(x) + j] = y[j]
    BY ONLY <2>1, <2>2
  <2> QED
    BY <2>3 DEF z
<1> QED
  BY <1>1, <1>2

\* The trees of the pointers that a new node takes become its tree.
LEMMA BuildGrove ==
  ASSUME NEW h, HeapOK(h), NEW v \in Seq(Nat), NEW s \in Stacks, StackOK(h, v, s),
         NEW r \in Stacks, \A i \in 1 .. Len(r) : r[i] = s[i], NEW a \in Nat,
         Len(v) = Len(r) + a,
         NEW node, NodeOK(h, node), NEW T \in Classes, node.tag \in T,
         Holdings(h, Prefix(v, Len(r)), r) \in Seq(Nat),
         Holdings(h, v, s) = Holdings(h, Prefix(v, Len(r)), r) \o node.kids,
         Grove(h, v, s)
  PROVE  Grove(Append(h, node), Append(Prefix(v, Len(r)), Len(h) + 1), Push(r, Single(T)))
<1> DEFINE m == Append(h, node)
           e == Len(h) + 1
           n == Len(r)
           w == Prefix(v, n)
           x == Holdings(h, w, r)
           z == Holdings(h, v, s)
           k == Single(T)
<1>1. PICK b, c, g : Forest(h, b, c, g) /\ Labelled(h, v, s, g)
  BY DEF Grove
<1>2. /\ n \in Nat /\ Len(s) = n + a /\ n <= Len(s) /\ n = Len(r)
      /\ Len(h) \in Nat /\ h \in Seq(Nodes) /\ e \in Nat /\ e # NULL
  BY HeapOKNodes DEF StackOK, Stacks, NULL
<1>3. /\ HeapOK(m) /\ Len(m) = e /\ m[e] = node
      /\ \A p \in 1 .. Len(h) : m[p] = h[p]
  BY AllocOK
<1>4. w \in Seq(Nat) /\ StackOK(h, w, r)
  BY <1>2, PrefixOK
<1>5. /\ node \in Nodes /\ node.next = NULL /\ PairFits(h, node) /\ Filled(node)
      /\ SlotsFit(h, node) /\ node.kids \in Seq(Nat)
  BY DEF NodeOK, Nodes
<1>6. /\ Len(x) = n /\ x \in Seq(Nat) /\ Len(z) = n + a /\ z = x \o node.kids
      /\ \A i \in 1 .. Len(s) : z[i] = Held(h, v[i], s[i])
  <2>1. \A i \in 1 .. Len(s) : z[i] = Held(h, v[i], s[i])
    BY DEF Holdings
  <2>2. x \in Seq(Nat) /\ Len(x) = n
    BY <1>4, HoldingsType
  <2>3. Len(z) = n + a
    BY <1>2, HoldingsType
  <2> QED
    BY <2>1, <2>2, <2>3
<1>7. k \in Kinds /\ k.role = "single" /\ k.tags = T
  BY KindTypes DEF Single, Kind
<1> HIDE DEF m, e, n, w, x, z, k
<1>8. /\ Len(node.kids) = a
      /\ \A j \in 1 .. a : z[n + j] = node.kids[j] /\ n + j \in 1 .. Len(s)
  <2> DEFINE y == node.kids
  <2>1. y \in Seq(Nat)
    BY <1>5
  <2> HIDE DEF y
  <2>2. /\ Len(x \o y) = Len(x) + Len(y) /\ Len(y) \in Nat
        /\ \A j \in 1 .. Len(y) : (x \o y)[Len(x) + j] = y[j]
    BY <1>6, <2>1, ConcatElements
  <2>3. z = x \o y
    BY <1>6 DEF y
  <2>4. Len(y) = a
    BY ONLY <1>2, <1>6, <2>2, <2>3, a \in Nat
  <2>5. \A j \in 1 .. a : z[n + j] = y[j]
    BY ONLY <1>6, <2>2, <2>3, <2>4
  <2>6. \A j \in 1 .. a : n + j \in 1 .. Len(s)
    BY ONLY <1>2, a \in Nat
  <2> QED
    BY <2>4, <2>5, <2>6 DEF y
<1>9. ASSUME NEW j \in 1 .. a, node.kids[j] # NULL
      PROVE  g[node.kids[j]] = n + j /\ n + j > n
  <2>1. n + j \in 1 .. Len(s) /\ z[n + j] = node.kids[j]
    BY <1>8
  <2>2. Held(h, v[n + j], s[n + j]) = node.kids[j]
    BY <1>6, <2>1
  <2>3. g[node.kids[j]] = n + j
    BY <1>1, <1>9, <2>1, <2>2 DEF Labelled
  <2>4. n + j > n
    BY ONLY <1>2, a \in Nat, j \in 1 .. a
  <2> QED
    BY <2>3, <2>4
<1>10. node.tag \in DOMAIN SlotTags =>
         \A j \in DOMAIN SlotTags[node.tag] :
           \/ node.kids[j] = NULL
           \/ node.kids[j] \in 1 .. Len(h) /\ g[node.kids[j]] > n
  <2> SUFFICES ASSUME node.tag \in DOMAIN SlotTags, NEW j \in DOMAIN SlotTags[node.tag],
                      node.kids[j] # NULL
               PROVE  node.kids[j] \in 1 .. Len(h) /\ g[node.kids[j]] > n
    OBVIOUS
  <2>1. j \in 1 .. a
    BY <1>5, <1>8 DEF Filled
  <2>2. node.kids[j] \in 1 .. Len(h)
    BY <1>5 DEF SlotsFit, SlotFits
  <2>3. g[node.kids[j]] = n + j /\ n + j > n
    BY <1>9, <2>1
  <2> QED
    BY <2>2, <2>3
<1>11. PICK f, q, d : /\ Forest(m, f, q, d) /\ d[e] = n + 1
                      /\ \A p \in 1 .. Len(h) : d[p] = IF g[p] > n THEN n + 1 ELSE g[p]
  <2>1. n \in Nat /\ h \in Seq(Nodes) /\ node \in Nodes /\ node.next = NULL
    BY <1>2, <1>5
  <2>2. Forest(h, b, c, g)
    BY <1>1
  <2>3. Grown(h, g, n, node)
    <3>1. TakesAfter(h, g, n, node)
      BY <1>10 DEF TakesAfter
    <3> QED
      BY ONLY <2>1, <2>2, <3>1, AllocForest
  <2>4. PICK i, j, k0 :
          /\ Forest(Append(h, node), i, j, k0)
          /\ k0[Len(h) + 1] = n + 1
          /\ \A p \in 1 .. Len(h) : k0[p] = IF g[p] > n THEN n + 1 ELSE g[p]
    BY <2>3 DEF Grown
  <2>5. /\ Forest(m, i, j, k0) /\ k0[e] = n + 1
        /\ \A p \in 1 .. Len(h) : k0[p] = IF g[p] > n THEN n + 1 ELSE g[p]
    BY <2>4 DEF m, e
  <2> QED
    BY <2>5
<1>12. Labelled(m, w, r, d)
  <2>1. Labelled(h, w, r, g)
    BY <1>1, <1>2, LabelsPrefix DEF w
  <2>2. \A p \in 1 .. Len(h) : g[p] \in Nat
    BY <1>1, ForestLabels
  <2>3. \A p \in 1 .. Len(h) : g[p] <= n => d[p] = g[p]
    BY <1>2, <1>11, <2>2
  <2>4. \A p \in 1 .. Len(h) : m[p].kids = h[p].kids
    BY <1>3
  <2> QED
    BY <1>2, <1>4, <2>1, <2>2, <2>3, <2>4, LabelsStay
<1>13. Held(m, e, k) # NULL => d[Held(m, e, k)] = n + 1
  <2>1. CASE T = Pairs
    <3>1. node.tag = "unset"
      BY <2>1 DEF Pairs
    <3>2. Len(node.kids) = 1 /\ node.kids[1] \in 1 .. Len(h)
      BY <1>5, <3>1 DEF PairFits
    <3>3. Held(m, e, k) = node.kids[1]
      BY <1>2, <1>3, <1>7, <2>1 DEF Held
    <3>4. 1 \in 1 .. a /\ node.kids[1] # NULL
      BY <1>8, <3>2 DEF NULL
    <3>5. g[node.kids[1]] = n + 1 /\ n + 1 > n
      BY <1>9, <3>4
    <3> QED
      BY <1>11, <3>2, <3>3, <3>5
  <2>2. CASE T # Pairs
    <3>1. Held(m, e, k) = e
      BY <1>2, <1>7, <2>2 DEF Held
    <3> QED
      BY <1>11, <3>1
  <2> QED
    BY <2>1, <2>2
<1>14. Len(w) = Len(r)
  BY <1>4 DEF StackOK
<1>15. Labelled(m, Append(w, e), Push(r, k), d)
  BY <1>2, <1>4, <1>7, <1>12, <1>13, <1>14, LabelsPush
<1> QED
  BY <1>11, <1>15 DEF Grove, m, e, n, w, k

\* The pointers that a constructor takes.
LatestOf(v, n) == SubSeq(v, Len(v) - n + 1, Len(v))

LEMMA LatestElements ==
  ASSUME NEW v \in Seq(Nat), NEW m \in Nat, NEW n \in Nat, Len(v) = m + n
  PROVE  /\ LatestOf(v, n) \in Seq(Nat)
         /\ Len(LatestOf(v, n)) = n
         /\ \A j \in 1 .. n : LatestOf(v, n)[j] = v[m + j]
         /\ n >= 1 => LatestOf(v, n)[1] = v[m + 1]
         /\ n >= 2 => LatestOf(v, n)[2] = v[m + 2]
         /\ n >= 3 => LatestOf(v, n)[3] = v[m + 3]
<1>0. LatestOf(v, n) = SubSeq(v, m + 1, m + n)
  <2>1. Len(v) - n + 1 = m + 1
    OBVIOUS
  <2> QED
    BY <2>1 DEF LatestOf
<1>1. \A j \in 1 .. n : LatestOf(v, n)[j] = v[m + j]
  BY <1>0
<1>2. LatestOf(v, n) \in Seq(Nat) /\ Len(LatestOf(v, n)) = n
  BY <1>0
<1> QED
  BY <1>1, <1>2

\* The stack s is r with pointers above it that are held as they are.
LatestAbove(h, v, s, r, m) ==
  /\ Len(s) = Len(r) + m
  /\ \A i \in 1 .. Len(r) : r[i] = s[i]
  /\ \A j \in 1 .. m : Held(h, v[Len(r) + j], s[Len(r) + j]) = v[Len(r) + j]

LEMMA HoldingsLatest ==
  ASSUME NEW h, HeapOK(h), NEW v \in Seq(Nat), NEW s \in Stacks, NEW r \in Stacks,
         StackOK(h, v, s), NEW m \in Nat, LatestAbove(h, v, s, r, m)
  PROVE  /\ Holdings(h, Prefix(v, Len(r)), r) \in Seq(Nat)
         /\ Holdings(h, v, s) = Holdings(h, Prefix(v, Len(r)), r) \o LatestOf(v, m)
<1> DEFINE x == LatestOf(v, m)
           n == Len(r)
<1>0. /\ Len(s) = n + m /\ \A i \in 1 .. n : r[i] = s[i]
      /\ \A j \in 1 .. m : Held(h, v[n + j], s[n + j]) = v[n + j]
  BY DEF LatestAbove
<1>1. n \in Nat /\ Len(v) = n + m
  BY <1>0 DEF StackOK, Stacks
<1> HIDE DEF n
<1>2. x \in Seq(Nat) /\ Len(x) = m /\ \A j \in 1 .. m : x[j] = v[n + j]
  BY <1>1, LatestElements
<1> HIDE DEF x
<1>3. /\ n <= Len(s) /\ n + Len(x) = Len(s)
      /\ \A j \in 1 .. Len(x) : x[j] = Held(h, v[n + j], s[n + j])
  <2>1. \A j \in 1 .. m : x[j] = Held(h, v[n + j], s[n + j])
    BY ONLY <1>0, <1>2
  <2>2. n <= Len(s) /\ n + Len(x) = Len(s)
    BY ONLY <1>0, <1>1, <1>2, m \in Nat
  <2> QED
    BY ONLY <1>2, <2>1, <2>2
<1>4. HeldAbove(h, v, s, r, x)
  BY <1>0, <1>3 DEF HeldAbove, n
<1> QED
  BY <1>2, <1>4, HoldingsSplit DEF x

LEMMA WithKids ==
  ASSUME NEW node \in Nodes, node.next = NULL, OpFits(node), NEW kids \in Seq(Nat)
  PROVE  LET made == [node EXCEPT !.kids = kids]
         IN  /\ made \in Nodes /\ made.next = NULL /\ OpFits(made)
             /\ made.tag = node.tag /\ made.kids = kids
<1> DEFINE made == [node EXCEPT !.kids = kids]
<1>1. /\ made \in Nodes /\ made.next = node.next /\ made.op = node.op
      /\ made.tag = node.tag /\ made.kids = kids
  BY DEF Nodes
<1> HIDE DEF made
<1>2. OpFits(made)
  BY <1>1 DEF OpFits
<1> QED
  BY <1>1, <1>2 DEF made

\* The constructs that take three pointers have three slots.
LEMMA ThreeSlots ==
  DOMAIN SlotTags["if_ast"] = 1 .. 3 /\ DOMAIN SlotTags["program_ast"] = 1 .. 3
BY DEF SlotTags

\* What a constructor takes fits the slots of the node.
LEMMA TakesFit ==
  ASSUME NEW h, HeapOK(h), NEW v \in Seq(Nat), NEW r \in Stacks, NEW s, StackOK(h, v, s),
         NEW node \in Nodes, node.next = NULL, OpFits(node), Takes(node, r, s)
  PROVE  /\ Arity(node) \in Nat /\ Len(v) = Len(r) + Arity(node)
         /\ Prefix(v, Len(r)) \in Seq(Nat) /\ StackOK(h, Prefix(v, Len(r)), r)
         /\ NodeOK(h, [node EXCEPT !.kids = LatestOf(v, Arity(node))])
         /\ [node EXCEPT !.kids = LatestOf(v, Arity(node))].kids = LatestOf(v, Arity(node))
         /\ Holdings(h, Prefix(v, Len(r)), r) \in Seq(Nat)
         /\ Holdings(h, v, s) = Holdings(h, Prefix(v, Len(r)), r) \o LatestOf(v, Arity(node))
         /\ \A i \in 1 .. Len(r) : r[i] = s[i]
<1> DEFINE n == Len(r)
           a == Arity(node)
           kids == LatestOf(v, a)
           made == [node EXCEPT !.kids = kids]
<1>1. n \in Nat /\ n = Len(r)
  BY DEF Stacks
<1>2. /\ StmtTags \in Classes /\ CondTags \in Classes /\ ExprTags \in Classes
      /\ Single(StmtTags) \in Kinds /\ Single(CondTags) \in Kinds
      /\ Single(ExprTags) \in Kinds /\ First(StmtTags) \in Kinds
  BY KindTypes
<1>3. \A p, T : Fits(h, p, Single(T)) \/ Fits(h, p, First(T)) => p \in 1 .. Len(h) /\ h[p].tag \in T
  BY DEF Fits, Single, First, Kind
<1>5. kids \in Seq(Nat) => made.tag = node.tag /\ made.kids = kids
  BY WithKids
<1> DEFINE P == /\ a \in Nat /\ Len(v) = n + a
                /\ kids \in Seq(Nat)
                /\ SlotsFit(h, made) /\ PairFits(h, made) /\ Filled(made)
                /\ Prefix(v, n) \in Seq(Nat) /\ StackOK(h, Prefix(v, n), r)
                /\ Holdings(h, Prefix(v, n), r) \in Seq(Nat)
                /\ Holdings(h, v, s) = Holdings(h, Prefix(v, n), r) \o kids
                /\ \A i \in 1 .. Len(r) : r[i] = s[i]
<1> HIDE DEF n, a, kids, made
<1>6. ASSUME node.tag \in {"const_decl_ast", "var_decl_ast", "read_ast", "skip_ast",
                           "ident_ast", "number_ast"}
      PROVE  P
  <2>1. s = r /\ a = 0
    BY <1>6 DEF Takes, Arity, a
  <2>2. Len(v) = n + a /\ n \in 0 .. Len(v)
    BY <1>1, <2>1 DEF StackOK
  <2>3. kids \in Seq(Nat)
    BY <1>1, <2>1, <2>2, LatestElements DEF kids
  <2>4. Prefix(v, n) \in Seq(Nat) /\ StackOK(h, Prefix(v, n), r)
    <3>1. Len(r) <= Len(r) /\ \A i \in 1 .. Len(r) : r[i] = r[i]
      BY <1>1
    <3> QED
      BY <1>1, <2>1, <3>1, PrefixOK
  <2>5. SlotsFit(h, made) /\ PairFits(h, made) /\ Filled(made)
    BY <1>5, <1>6, <2>3 DEF SlotsFit, PairFits, Filled, SlotTags
  <2>6. /\ Holdings(h, Prefix(v, n), r) \in Seq(Nat)
        /\ Holdings(h, v, s) = Holdings(h, Prefix(v, n), r) \o kids
    <3>1. s \in Stacks /\ a \in Nat /\ LatestAbove(h, v, s, r, a)
      BY <1>1, <2>1 DEF LatestAbove
    <3> QED
      BY <1>1, <3>1, HoldingsLatest DEF kids
  <2> QED
    BY <2>1, <2>2, <2>3, <2>4, <2>5, <2>6
<1>7. ASSUME node.tag \in {"assign_ast", "write_ast", "odd_cond_ast", "unset", "begin_ast"}
      PROVE  P
  <2> DEFINE T == IF node.tag = "begin_ast" THEN StmtTags ELSE ExprTags
  <2>1. a = 1
    BY <1>7 DEF Arity, a
  <2>2. PICK k \in Kinds : s = Push(r, k) /\ (k = Single(T) \/ k = First(T))
    BY <1>2, <1>7 DEF Takes
  <2>3. /\ Len(v) = n + 1 /\ Fits(h, v[n + 1], k)
        /\ Prefix(v, n) \in Seq(Nat) /\ StackOK(h, Prefix(v, n), r)
    BY <1>1, <2>2, Pop1
  <2>4. kids \in Seq(Nat) /\ Len(kids) = 1 /\ kids[1] = v[n + 1]
    <3>1. n \in Nat /\ 1 \in Nat /\ Len(v) = n + 1 /\ 1 >= 1
      BY <1>1, <2>3
    <3>2. kids = LatestOf(v, 1)
      BY <2>1 DEF kids
    <3> QED
      BY <3>1, <3>2, LatestElements
  <2>5. kids[1] \in 1 .. Len(h) /\ h[kids[1]].tag \in T
    BY <1>3, <2>2, <2>3, <2>4
  <2>6. made.tag = node.tag /\ Len(made.kids) = 1
        /\ made.kids[1] \in 1 .. Len(h) /\ h[made.kids[1]].tag \in T
    BY <1>5, <2>4, <2>5
  <2>7. SlotsFit(h, made)
    BY <1>7, <2>6 DEF SlotsFit, SlotFits, SlotTags
  <2>8. PairFits(h, made)
    BY <1>7, <2>6 DEF PairFits
  <2>9. Held(h, v[n + 1], k) = v[n + 1]
    <3>1. T # Pairs
      BY ClassesApart
    <3> HIDE DEF T
    <3> QED
      BY <2>2, <3>1, HeldItself
  <2>10. /\ Holdings(h, Prefix(v, n), r) \in Seq(Nat)
         /\ Holdings(h, v, s) = Holdings(h, Prefix(v, n), r) \o kids
    <3>1. s \in Stacks /\ Len(s) = n + 1 /\ s[n + 1] = k /\ \A i \in 1 .. n : s[i] = r[i]
      BY <1>1, <2>2, PushType
    <3>2. a \in Nat /\ \A j \in 1 .. a : Held(h, v[n + j], s[n + j]) = v[n + j]
      BY <1>1, <2>1, <2>9, <3>1
    <3>3. LatestAbove(h, v, s, r, a)
      BY <1>1, <2>1, <3>1, <3>2 DEF LatestAbove
    <3> QED
      BY <1>1, <3>1, <3>2, <3>3, HoldingsLatest DEF kids
  <2>11. Filled(made)
    BY <1>7, <2>6 DEF Filled, SlotTags
  <2>12. \A i \in 1 .. Len(r) : r[i] = s[i]
    BY <1>1, <1>2, <2>2, PushType
  <2> QED
    BY <2>1, <2>3, <2>4, <2>7, <2>8, <2>10, <2>11, <2>12
<1>8. ASSUME node.tag \in {"while_ast", "bin_cond_ast"}
      PROVE  P
  <2> DEFINE T == IF node.tag = "while_ast" THEN CondTags ELSE ExprTags
             U == IF node.tag = "while_ast" THEN StmtTags ELSE ExprTags
  <2>1. a = 2
    BY <1>8 DEF Arity, a
  <2>2. s = Push(Push(r, Single(T)), Single(U)) /\ Single(T) \in Kinds /\ Single(U) \in Kinds
    BY <1>2, <1>8 DEF Takes
  <2> HIDE DEF T, U
  <2>3. /\ Len(v) = n + 2 /\ Fits(h, v[n + 1], Single(T)) /\ Fits(h, v[n + 2], Single(U))
        /\ Prefix(v, n) \in Seq(Nat) /\ StackOK(h, Prefix(v, n), r)
    BY <1>1, <2>2, Pop2
  <2>4. kids \in Seq(Nat) /\ Len(kids) = 2 /\ kids[1] = v[n + 1] /\ kids[2] = v[n + 2]
    <3>1. n \in Nat /\ 2 \in Nat /\ Len(v) = n + 2 /\ 2 >= 1 /\ 2 >= 2
      BY <1>1, <2>3
    <3>2. kids = LatestOf(v, 2)
      BY <2>1 DEF kids
    <3> QED
      BY <3>1, <3>2, LatestElements
  <2>5. /\ kids[1] \in 1 .. Len(h) /\ h[kids[1]].tag \in T
        /\ kids[2] \in 1 .. Len(h) /\ h[kids[2]].tag \in U
    BY <1>3, <2>3, <2>4
  <2>6. made.tag = node.tag /\ made.kids = kids
    BY <1>5, <2>4
  <2>7. SlotsFit(h, made)
    <3>1. CASE node.tag = "while_ast"
      BY <2>5, <2>6, <3>1 DEF SlotsFit, SlotFits, SlotTags, T, U
    <3>2. CASE node.tag = "bin_cond_ast"
      BY <2>5, <2>6, <3>2 DEF SlotsFit, SlotFits, SlotTags, T, U
    <3> QED
      BY <1>8, <3>1, <3>2
  <2>8. PairFits(h, made)
    BY <1>8, <2>6 DEF PairFits
  <2>9. Held(h, v[n + 1], Single(T)) = v[n + 1] /\ Held(h, v[n + 2], Single(U)) = v[n + 2]
    <3>1. T # Pairs /\ U # Pairs
      BY ClassesApart DEF T, U
    <3> QED
      BY <3>1, HeldItself
  <2>10. /\ Holdings(h, Prefix(v, n), r) \in Seq(Nat)
         /\ Holdings(h, v, s) = Holdings(h, Prefix(v, n), r) \o kids
    <3>1. /\ s \in Stacks /\ Len(s) = n + 2 /\ s[n + 1] = Single(T) /\ s[n + 2] = Single(U)
          /\ \A i \in 1 .. n : s[i] = r[i]
      BY <1>1, <2>2, PushType2
    <3>2. a \in Nat /\ \A j \in 1 .. a : Held(h, v[n + j], s[n + j]) = v[n + j]
      BY <1>1, <2>1, <2>9, <3>1
    <3>3. LatestAbove(h, v, s, r, a)
      BY <1>1, <2>1, <3>1, <3>2 DEF LatestAbove
    <3> QED
      BY <1>1, <3>1, <3>2, <3>3, HoldingsLatest DEF kids
  <2>11. Filled(made)
    BY <1>8, <2>4, <2>6 DEF Filled, SlotTags
  <2>12. \A i \in 1 .. Len(r) : r[i] = s[i]
    <3>1. /\ s \in Stacks /\ Len(s) = n + 2 /\ s[n + 1] = Single(T) /\ s[n + 2] = Single(U)
          /\ \A i \in 1 .. n : s[i] = r[i]
      BY <1>1, <2>2, PushType2
    <3> QED
      BY <1>1, <3>1
  <2> QED
    BY <2>1, <2>3, <2>4, <2>7, <2>8, <2>10, <2>11, <2>12
<1>9. ASSUME node.tag = "if_ast"
      PROVE  P
  <2>1. a = 3
    BY <1>9 DEF Arity, a
  <2>2. s = Push(Push(Push(r, Single(CondTags)), Single(StmtTags)), Single(StmtTags))
    BY <1>9 DEF Takes
  <2>3. /\ Len(v) = n + 3 /\ Fits(h, v[n + 1], Single(CondTags))
        /\ Fits(h, v[n + 2], Single(StmtTags)) /\ Fits(h, v[n + 3], Single(StmtTags))
        /\ Prefix(v, n) \in Seq(Nat) /\ StackOK(h, Prefix(v, n), r)
    BY <1>1, <1>2, <2>2, Pop3
  <2>4. /\ kids \in Seq(Nat) /\ Len(kids) = 3
        /\ kids[1] = v[n + 1] /\ kids[2] = v[n + 2] /\ kids[3] = v[n + 3]
    <3>1. n \in Nat /\ 3 \in Nat /\ Len(v) = n + 3 /\ 3 >= 1 /\ 3 >= 2 /\ 3 >= 3
      BY <1>1, <2>3
    <3>2. kids = LatestOf(v, 3)
      BY <2>1 DEF kids
    <3> QED
      BY <3>1, <3>2, LatestElements
  <2>5. /\ kids[1] \in 1 .. Len(h) /\ h[kids[1]].tag \in CondTags
        /\ kids[2] \in 1 .. Len(h) /\ h[kids[2]].tag \in StmtTags
        /\ kids[3] \in 1 .. Len(h) /\ h[kids[3]].tag \in StmtTags
    BY <1>3, <2>3, <2>4
  <2>6. made.tag = node.tag /\ made.kids = kids
    BY <1>5, <2>4
  <2>7. SlotsFit(h, made)
    BY <1>9, <2>5, <2>6 DEF SlotsFit, SlotFits, SlotTags
  <2>8. PairFits(h, made)
    BY <1>9, <2>6 DEF PairFits
  <2>9. /\ Held(h, v[n + 1], Single(CondTags)) = v[n + 1]
        /\ Held(h, v[n + 2], Single(StmtTags)) = v[n + 2]
        /\ Held(h, v[n + 3], Single(StmtTags)) = v[n + 3]
    BY ClassesApart, HeldItself
  <2>10. /\ Holdings(h, Prefix(v, n), r) \in Seq(Nat)
         /\ Holdings(h, v, s) = Holdings(h, Prefix(v, n), r) \o kids
    <3>1. /\ s \in Stacks /\ Len(s) = n + 3 /\ s[n + 1] = Single(CondTags)
          /\ s[n + 2] = Single(StmtTags) /\ s[n + 3] = Single(StmtTags)
          /\ \A i \in 1 .. n : s[i] = r[i]
      BY <1>1, <1>2, <2>2, PushType3
    <3>2. a \in Nat /\ \A j \in 1 .. a : Held(h, v[n + j], s[n + j]) = v[n + j]
      BY <1>1, <2>1, <2>9, <3>1
    <3>3. LatestAbove(h, v, s, r, a)
      BY <1>1, <2>1, <3>1, <3>2 DEF LatestAbove
    <3> QED
      BY <1>1, <3>1, <3>2, <3>3, HoldingsLatest DEF kids
  <2>11. Filled(made)
    BY <1>9, <2>4, <2>6, ThreeSlots DEF Filled
  <2>12. \A i \in 1 .. Len(r) : r[i] = s[i]
    <3>1. /\ s \in Stacks /\ Len(s) = n + 3 /\ s[n + 1] = Single(CondTags)
          /\ s[n + 2] = Single(StmtTags) /\ s[n + 3] = Single(StmtTags)
          /\ \A i \in 1 .. n : s[i] = r[i]
      BY <1>1, <1>2, <2>2, PushType3
    <3> QED
      BY <1>1, <3>1
  <2> QED
    BY <2>1, <2>3, <2>4, <2>7, <2>8, <2>10, <2>11, <2>12
<1>10. P
  BY <1>6, <1>7, <1>8, <1>9 DEF Takes
<1>11. made \in Nodes /\ made.next = NULL /\ OpFits(made) /\ made.kids = kids
  BY <1>10, WithKids DEF made
<1>12. NodeOK(h, made)
  BY <1>10, <1>11 DEF NodeOK
<1> QED
  BY <1>10, <1>11, <1>12 DEF n, a, kids, made

\* Whatever the stack is, the node is legal and takes the a latest pointers.
MayBuild(node, a, kids) ==
  \A s, t \in Stacks :
    Effect(Head(todo), s, t) /\ StackOK(heap, vals, s) =>
      /\ NodeOK(heap, [node EXCEPT !.kids = kids])
      /\ \E r \in Stacks, T \in Classes :
           /\ [node EXCEPT !.kids = kids].tag \in T /\ t = Push(r, Single(T))
           /\ Len(vals) = Len(r) + a
           /\ Prefix(vals, Len(r)) \in Seq(Nat)
           /\ StackOK(heap, Prefix(vals, Len(r)), r)
           /\ Holdings(heap, Prefix(vals, Len(r)), r) \in Seq(Nat)
           /\ Holdings(heap, vals, s) = Holdings(heap, Prefix(vals, Len(r)), r) \o kids
           /\ \A i \in 1 .. Len(r) : r[i] = s[i]
           /\ [node EXCEPT !.kids = kids].kids = kids

\* Allocating a node replaces what it takes by the node.
LEMMA BuildStep ==
  ASSUME TreeInv, ControlOK', todo # <<>>, NEW node, NEW a \in Nat, NEW kids,
         Build(node, a, kids), MayBuild(node, a, kids)
  PROVE  TreeInv'
<1> DEFINE made == [node EXCEPT !.kids = kids]
<1>1. CASE bail_with_error
  BY <1>1, QuietStep DEF bail_with_error
<1>2. CASE /\ heap' = Append(heap, made)
           /\ Replace(a, <<Len(heap')>>)
           /\ todo' = Tail(todo)
  <2> SUFFICES ASSUME NEW s \in Stacks, NEW t \in Stacks,
                      Effect(Head(todo), s, t), StackOK(heap, vals, s)
               PROVE  /\ HeapOK(heap') /\ vals' \in Seq(Nat)
                      /\ StackOK(heap', vals', t)
                      /\ (Owned(heap, vals, s) => Owned(heap', vals', t))
    BY <1>2, TailStep
  <2>1. NodeOK(heap, made)
    BY DEF MayBuild
  <2>2. PICK r \in Stacks, T \in Classes :
           /\ made.tag \in T /\ t = Push(r, Single(T))
           /\ Len(vals) = Len(r) + a
           /\ Prefix(vals, Len(r)) \in Seq(Nat)
           /\ StackOK(heap, Prefix(vals, Len(r)), r)
           /\ Holdings(heap, Prefix(vals, Len(r)), r) \in Seq(Nat)
           /\ Holdings(heap, vals, s) = Holdings(heap, Prefix(vals, Len(r)), r) \o kids
           /\ \A i \in 1 .. Len(r) : r[i] = s[i]
           /\ made.kids = kids
    BY DEF MayBuild
  <2>3. HeapOK(heap) /\ vals \in Seq(Nat) /\ heap \in Seq(Nodes)
    BY HeapOKNodes DEF TreeInv
  <2> DEFINE w == Prefix(vals, Len(r))
  <2>4. Len(heap') = Len(heap) + 1 /\ Len(heap) + 1 \in Nat
    BY <1>2, <2>1, <2>3, AllocOK, HeapOKNodes
  <2>5. vals' = Append(w, Len(heap) + 1)
    <3>1. Len(vals) - a = Len(r)
      BY <2>2, <2>3
    <3>2. vals' = w \o <<Len(heap) + 1>>
      BY <1>2, <2>4, <3>1 DEF Replace, Prefix
    <3> QED
      BY <2>2, <2>4, <3>2
  <2> HIDE DEF w, made
  <2>6. /\ HeapOK(Append(heap, made))
        /\ Append(w, Len(heap) + 1) \in Seq(Nat)
        /\ StackOK(Append(heap, made), Append(w, Len(heap) + 1), Push(r, Single(T)))
    BY <2>1, <2>2, <2>3, BuildTyped DEF w
  <2>7. Whole(heap, Holdings(heap, vals, s)) =>
          Whole(Append(heap, made),
                Holdings(Append(heap, made), Append(w, Len(heap) + 1), t))
    BY <2>1, <2>2, <2>3, BuildWhole DEF w
  <2>8. Grove(heap, vals, s) => Grove(Append(heap, made), Append(w, Len(heap) + 1), t)
    BY <2>1, <2>2, <2>3, BuildGrove DEF w
  <2> QED
    BY <1>2, <2>2, <2>5, <2>6, <2>7, <2>8 DEF Owned
<1> QED
  BY <1>1, <1>2 DEF Build

LEMMA AllocateTyped == ASSUME TreeInv, ControlOK', Allocate PROVE TreeInv'
<1> DEFINE node == Head(todo).node
           a == Arity(node)
<1>1. todo # <<>> /\ Head(todo).do = "make" /\ Build(node, a, LatestOf(vals, a))
  BY DEF Allocate, At, Top, LatestOf
<1>2. HeapOK(heap) /\ vals \in Seq(Nat) /\ node \in Nodes
  BY <1>1, HeadType DEF TreeInv
<1> HIDE DEF node, a
<1>3. ASSUME NEW s \in Stacks, NEW t \in Stacks,
             Effect(Head(todo), s, t), StackOK(heap, vals, s)
      PROVE  /\ a \in Nat
             /\ NodeOK(heap, [node EXCEPT !.kids = LatestOf(vals, a)])
             /\ \E r \in Stacks, T \in Classes :
                  /\ [node EXCEPT !.kids = LatestOf(vals, a)].tag \in T /\ t = Push(r, Single(T))
                  /\ Len(vals) = Len(r) + a
                  /\ Prefix(vals, Len(r)) \in Seq(Nat)
                  /\ StackOK(heap, Prefix(vals, Len(r)), r)
                  /\ Holdings(heap, Prefix(vals, Len(r)), r) \in Seq(Nat)
                  /\ Holdings(heap, vals, s) =
                       Holdings(heap, Prefix(vals, Len(r)), r) \o LatestOf(vals, a)
                  /\ \A i \in 1 .. Len(r) : r[i] = s[i]
                  /\ [node EXCEPT !.kids = LatestOf(vals, a)].kids = LatestOf(vals, a)
  <2>1. Makes(node, s, t)
    BY <1>1, <1>3, EffectOfOthers DEF Others, node
  <2>2. PICK r \in Stacks, T \in Classes :
          Takes(node, r, s) /\ node.tag \in T /\ t = Push(r, Single(T))
    BY <2>1 DEF Makes
  <2>3. node.next = NULL /\ OpFits(node)
    BY <2>1 DEF Makes
  <2>4. /\ a \in Nat /\ Len(vals) = Len(r) + a
        /\ Prefix(vals, Len(r)) \in Seq(Nat) /\ StackOK(heap, Prefix(vals, Len(r)), r)
        /\ NodeOK(heap, [node EXCEPT !.kids = LatestOf(vals, a)])
        /\ Holdings(heap, Prefix(vals, Len(r)), r) \in Seq(Nat)
        /\ Holdings(heap, vals, s) =
             Holdings(heap, Prefix(vals, Len(r)), r) \o LatestOf(vals, a)
        /\ \A i \in 1 .. Len(r) : r[i] = s[i]
        /\ [node EXCEPT !.kids = LatestOf(vals, a)].kids = LatestOf(vals, a)
    BY <1>2, <1>3, <2>2, <2>3, TakesFit DEF a
  <2>5. [node EXCEPT !.kids = LatestOf(vals, a)].tag = node.tag
    BY <1>2 DEF Nodes
  <2> QED
    BY <2>2, <2>4, <2>5
<1>4. a \in Nat
  <2>1. PICK s \in Stacks : /\ Flows(todo, s, Final) /\ StackOK(heap, vals, s)
                            /\ Owned(heap, vals, s)
    BY DEF TreeInv, Typed
  <2>2. PICK t \in Stacks : Effect(Head(todo), s, t)
    BY <1>1, <2>1, FlowsHead
  <2> QED
    BY <1>3, <2>1, <2>2
<1>5. MayBuild(node, a, LatestOf(vals, a))
  BY <1>3 DEF MayBuild
<1> QED
  BY <1>1, <1>4, <1>5, BuildStep

\* The latest pointers, as the steps name them.
LEMMA Latest ==
  ASSUME NEW n \in Nat
  PROVE  /\ Len(vals) = n + 1 => Val(1) = vals[n + 1]
         /\ Len(vals) = n + 2 => Val(1) = vals[n + 2] /\ Val(2) = vals[n + 1]
         /\ Len(vals) = n + 3 =>
              Val(1) = vals[n + 3] /\ Val(2) = vals[n + 2] /\ Val(3) = vals[n + 1]
<1>1. ASSUME Len(vals) = n + 1
      PROVE  Val(1) = vals[n + 1]
  <2>1. Len(vals) - 1 + 1 = n + 1
    BY <1>1
  <2> QED
    BY <2>1 DEF Val
<1>2. ASSUME Len(vals) = n + 2
      PROVE  Val(1) = vals[n + 2] /\ Val(2) = vals[n + 1]
  <2>1. Len(vals) - 1 + 1 = n + 2 /\ Len(vals) - 2 + 1 = n + 1
    BY <1>2
  <2> QED
    BY <2>1 DEF Val
<1>3. ASSUME Len(vals) = n + 3
      PROVE  Val(1) = vals[n + 3] /\ Val(2) = vals[n + 2] /\ Val(3) = vals[n + 1]
  <2>1. Len(vals) - 1 + 1 = n + 3 /\ Len(vals) - 2 + 1 = n + 2 /\ Len(vals) - 3 + 1 = n + 1
    BY <1>3
  <2> QED
    BY <2>1 DEF Val
<1> QED
  BY <1>1, <1>2, <1>3

LEMMA SingleFits ==
  ASSUME NEW h, NEW p, NEW T, Fits(h, p, Single(T)) \/ Fits(h, p, First(T))
  PROVE  p \in 1 .. Len(h) /\ h[p].tag \in T
BY DEF Fits, Single, First, Kind

\* The operator and the right operand of a binary expression are in the pair.
LEMMA BinExprTyped == ASSUME TreeInv, ControlOK', BinExpr PROVE TreeInv'
<1> DEFINE rght == heap[Val(1)]
           node == ast_bin_expr(Head(todo).tok, rght.op)
           kids == <<Val(2), rght.kids[1]>>
           made == [node EXCEPT !.kids = kids]
<1>1. todo # <<>> /\ Head(todo).do = "binExpr" /\ Build(node, 2, kids)
  BY DEF BinExpr, At
<1>2. HeapOK(heap) /\ vals \in Seq(Nat) /\ Head(todo).tok.loc \in Nat
  BY <1>1, HeadType DEF TreeInv, TokenRecords
<1> HIDE DEF node, kids, made
<1>3. ASSUME NEW s \in Stacks, NEW t \in Stacks,
             Effect(Head(todo), s, t), StackOK(heap, vals, s)
      PROVE  /\ NodeOK(heap, made)
             /\ \E r \in Stacks, T \in Classes :
                  /\ made.tag \in T /\ t = Push(r, Single(T))
                  /\ Len(vals) = Len(r) + 2
                  /\ Prefix(vals, Len(r)) \in Seq(Nat)
                  /\ StackOK(heap, Prefix(vals, Len(r)), r)
                  /\ Holdings(heap, Prefix(vals, Len(r)), r) \in Seq(Nat)
                  /\ Holdings(heap, vals, s) = Holdings(heap, Prefix(vals, Len(r)), r) \o kids
                  /\ \A i \in 1 .. Len(r) : r[i] = s[i]
                  /\ made.kids = kids
  <2>1. PICK r \in Stacks : /\ s = Push(Push(r, Single(ExprTags)), Single(Pairs))
                            /\ t = Push(r, Single(ExprTags))
    BY <1>1, <1>3, EffectOfOthers DEF Others
  <2>2. Single(ExprTags) \in Kinds /\ Single(Pairs) \in Kinds /\ ExprTags \in Classes
    BY KindTypes
  <2> DEFINE n == Len(r)
  <2>3. n \in Nat /\ n = Len(r)
    BY DEF Stacks
  <2> HIDE DEF n
  <2>4. /\ Len(vals) = n + 2
        /\ Fits(heap, vals[n + 1], Single(ExprTags)) /\ Fits(heap, vals[n + 2], Single(Pairs))
        /\ Prefix(vals, n) \in Seq(Nat) /\ StackOK(heap, Prefix(vals, n), r)
    BY <1>2, <1>3, <2>1, <2>2, <2>3, Pop2
  <2>5. Val(1) = vals[n + 2] /\ Val(2) = vals[n + 1]
    BY <2>3, <2>4, Latest
  <2>6. /\ Val(2) \in 1 .. Len(heap) /\ heap[Val(2)].tag \in ExprTags
        /\ Val(1) \in 1 .. Len(heap) /\ rght.tag = "unset"
    BY <2>4, <2>5, SingleFits DEF Pairs
  <2>7. /\ PairFits(heap, rght) /\ OpFits(rght) /\ Len(heap) \in Nat
    BY <1>2, <2>6, HeapOKNodes
  <2>8. /\ rght.op \in ArithOps
        /\ rght.kids[1] \in 1 .. Len(heap) /\ heap[rght.kids[1]].tag \in ExprTags
    BY <2>6, <2>7 DEF PairFits, OpFits
  <2>9. /\ node \in Nodes /\ node.tag = "bin_expr_ast" /\ node.next = NULL
        /\ node.op \in ArithOps
    <3>1. ast_allocate(Head(todo).tok) \in Nodes
      BY <1>2, TemplateType
    <3>2. "bin_expr_ast" \in AstTags /\ rght.op \in Ops
      BY <2>8 DEF AstTags, ExprTags, Ops
    <3>3. ast_allocate(Head(todo).tok).next = NULL
      BY DEF ast_allocate
    <3> QED
      BY <2>8, <3>1, <3>2, <3>3 DEF node, ast_bin_expr, Nodes
  <2>10. kids \in Seq(Nat) /\ kids[1] = Val(2) /\ kids[2] = rght.kids[1]
    BY <2>6, <2>7, <2>8 DEF kids
  <2>11. OpFits(node)
    BY <2>9 DEF OpFits
  <2>12. /\ made \in Nodes /\ made.next = NULL /\ OpFits(made)
         /\ made.tag = node.tag /\ made.kids = kids
    BY <2>9, <2>10, <2>11, WithKids DEF made
  <2>13. SlotsFit(heap, made)
    BY <2>6, <2>8, <2>9, <2>10, <2>12 DEF SlotsFit, SlotFits, SlotTags
  <2>14. PairFits(heap, made)
    BY <2>9, <2>12 DEF PairFits
  <2>15. NodeOK(heap, made)
    <3>1. Len(kids) = 2
      BY DEF kids
    <3>2. Filled(made)
      BY <2>9, <2>12, <3>1 DEF Filled, SlotTags
    <3> QED
      BY <2>12, <2>13, <2>14, <3>2 DEF NodeOK
  <2>16. made.tag \in ExprTags
    BY <2>9, <2>12 DEF ExprTags
  <2>17. /\ Held(heap, vals[n + 1], Single(ExprTags)) = vals[n + 1]
         /\ Held(heap, vals[n + 2], Single(Pairs)) = rght.kids[1]
    <3>1. Val(1) # NULL
      BY <2>6, <2>7 DEF NULL
    <3> QED
      BY <2>5, <3>1, ClassesApart, HeldItself
  <2>18. /\ Holdings(heap, Prefix(vals, n), r) \in Seq(Nat)
         /\ Holdings(heap, vals, s) = Holdings(heap, Prefix(vals, n), r) \o kids
    <3>1. Len(kids) = 2 /\ kids[1] = Held(heap, vals[n + 1], Single(ExprTags))
          /\ kids[2] = Held(heap, vals[n + 2], Single(Pairs))
      BY <2>5, <2>10, <2>17 DEF kids
    <3> QED
      <4>1. /\ Len(s) = n + 2 /\ s[n + 1] = Single(ExprTags) /\ s[n + 2] = Single(Pairs)
            /\ \A i \in 1 .. n : s[i] = r[i]
        BY <2>1, <2>2, <2>3, PushType2
      <4>2. \A j \in 1 .. Len(kids) : kids[j] = Held(heap, vals[n + j], s[n + j])
        <5> TAKE j \in 1 .. Len(kids)
        <5>1. j = 1 \/ j = 2
          BY <3>1
        <5> QED
          BY <2>3, <3>1, <4>1, <5>1
      <4>3. HeldAbove(heap, vals, s, r, kids)
        BY <2>3, <3>1, <4>1, <4>2 DEF HeldAbove
      <4> QED
        BY <1>2, <1>3, <2>3, <2>10, <4>3, HoldingsSplit
  <2>19. \A i \in 1 .. Len(r) : r[i] = s[i]
    BY <2>1, <2>2, <2>3, PushType2
  <2> QED
    BY <2>1, <2>2, <2>3, <2>4, <2>12, <2>15, <2>16, <2>18, <2>19
<1>4. MayBuild(node, 2, kids)
  BY <1>3 DEF MayBuild, made
<1>5. 2 \in Nat
  OBVIOUS
<1> QED
  BY <1>1, <1>4, <1>5, BuildStep

\* The program: its type bail outs are not reachable.
LEMMA MakeProgramTyped == ASSUME TreeInv, ControlOK', MakeProgram PROVE TreeInv'
<1> DEFINE node(p) == ast_program([loc |-> heap[p].loc])
           kids == LatestOf(vals, 3)
           made(p) == [node(p) EXCEPT !.kids = kids]
           Made(p) == /\ NodeOK(heap, made(p)) /\ made(p).tag = "program_ast"
                      /\ made(p).kids = kids
<1>1. /\ todo # <<>> /\ Head(todo).do = "makeProgram"
      /\ \/ bail_with_error
         \/ ~ast_list_is_empty(Val(3)) /\ Build(node(Val(3)), 3, kids)
         \/ ~ast_list_is_empty(Val(2)) /\ Build(node(Val(2)), 3, kids)
         \/ Build(node(Val(1)), 3, kids)
  BY DEF MakeProgram, At, Top, LatestOf
<1>2. HeapOK(heap) /\ vals \in Seq(Nat)
  BY DEF TreeInv
<1> HIDE DEF node, kids, made, Made
<1>3. ASSUME NEW s \in Stacks, NEW t \in Stacks,
             Effect(Head(todo), s, t), StackOK(heap, vals, s)
      PROVE  /\ ~ast_list_is_empty(Val(3)) => Made(Val(3))
             /\ ~ast_list_is_empty(Val(2)) => Made(Val(2))
             /\ Made(Val(1))
             /\ \E r \in Stacks :
                  /\ t = Push(r, Single(Programs))
                  /\ Len(vals) = Len(r) + 3
                  /\ Prefix(vals, Len(r)) \in Seq(Nat)
                  /\ StackOK(heap, Prefix(vals, Len(r)), r)
                  /\ Holdings(heap, Prefix(vals, Len(r)), r) \in Seq(Nat)
                  /\ Holdings(heap, vals, s) = Holdings(heap, Prefix(vals, Len(r)), r) \o kids
                  /\ \A i \in 1 .. Len(r) : r[i] = s[i]
  <2>1. PICK r \in Stacks :
          /\ s = Push(Push(Push(r, List(Consts)), List(Vars)), Single(StmtTags))
          /\ t = Push(r, Single(Programs))
    BY <1>1, <1>3, EffectOfOthers DEF Others
  <2>2. List(Consts) \in Kinds /\ List(Vars) \in Kinds /\ Single(StmtTags) \in Kinds
    BY KindTypes
  <2> DEFINE n == Len(r)
  <2>3. n \in Nat /\ n = Len(r)
    BY DEF Stacks
  <2> HIDE DEF n
  <2>4. /\ Len(vals) = n + 3
        /\ Fits(heap, vals[n + 1], List(Consts)) /\ Fits(heap, vals[n + 2], List(Vars))
        /\ Fits(heap, vals[n + 3], Single(StmtTags))
        /\ Prefix(vals, n) \in Seq(Nat) /\ StackOK(heap, Prefix(vals, n), r)
    BY <1>2, <1>3, <2>1, <2>2, <2>3, Pop3
  <2>5. Val(1) = vals[n + 3] /\ Val(2) = vals[n + 2] /\ Val(3) = vals[n + 1]
    BY <2>3, <2>4, Latest
  <2>6. /\ Val(3) = NULL \/ (Val(3) \in 1 .. Len(heap) /\ heap[Val(3)].tag \in Consts)
        /\ Val(2) = NULL \/ (Val(2) \in 1 .. Len(heap) /\ heap[Val(2)].tag \in Vars)
    BY <2>4, <2>5 DEF Fits, List, Kind
  <2>7. Val(1) \in 1 .. Len(heap) /\ heap[Val(1)].tag \in StmtTags
    BY <2>4, <2>5, SingleFits
  <2>8. /\ kids \in Seq(Nat) /\ Len(kids) = 3
        /\ kids[1] = Val(3) /\ kids[2] = Val(2) /\ kids[3] = Val(1)
    <3>1. 3 \in Nat /\ 3 >= 1 /\ 3 >= 2 /\ 3 >= 3
      OBVIOUS
    <3> QED
      BY <1>2, <2>3, <2>4, <2>5, <3>1, LatestElements DEF kids
  <2>9. ASSUME NEW p \in 1 .. Len(heap)
        PROVE  Made(p)
    <3>1. heap[p].loc \in Nat
      BY <1>2, HeapOKNodes DEF Nodes
    <3>2. ast_allocate([loc |-> heap[p].loc]) \in Nodes
      BY <3>1, TemplateType
    <3>3. node(p) \in Nodes /\ node(p).tag = "program_ast" /\ node(p).next = NULL
      <4>1. "program_ast" \in AstTags
        BY DEF AstTags
      <4>2. ast_allocate([loc |-> heap[p].loc]).next = NULL
        BY DEF ast_allocate
      <4> QED
        BY <3>2, <4>1, <4>2 DEF node, ast_program, Nodes
    <3>4. OpFits(node(p))
      BY <3>3 DEF OpFits
    <3>5. /\ made(p) \in Nodes /\ made(p).next = NULL /\ OpFits(made(p))
          /\ made(p).tag = "program_ast" /\ made(p).kids = kids
      BY <2>8, <3>3, <3>4, WithKids DEF made
    <3>6. SlotsFit(heap, made(p))
      BY <2>6, <2>7, <2>8, <3>5 DEF SlotsFit, SlotFits, SlotTags, MayBeEmpty, Consts, Vars
    <3>7. PairFits(heap, made(p))
      BY <3>5 DEF PairFits
    <3>8. Filled(made(p))
      BY <2>8, <3>5, ThreeSlots DEF Filled
    <3> QED
      BY <3>5, <3>6, <3>7, <3>8 DEF NodeOK, Made
  <2>10. /\ Holdings(heap, Prefix(vals, n), r) \in Seq(Nat)
         /\ Holdings(heap, vals, s) = Holdings(heap, Prefix(vals, n), r) \o kids
    <3>1. /\ Len(s) = n + 3 /\ s[n + 1] = List(Consts) /\ s[n + 2] = List(Vars)
          /\ s[n + 3] = Single(StmtTags) /\ \A i \in 1 .. n : s[i] = r[i]
      BY <2>1, <2>2, <2>3, PushType3
    <3>2. \A j \in 1 .. 3 : Held(heap, vals[n + j], s[n + j]) = vals[n + j]
      <4> TAKE j \in 1 .. 3
      <4>1. j = 1 \/ j = 2 \/ j = 3
        OBVIOUS
      <4> QED
        BY <3>1, <4>1, ClassesApart, HeldItself
    <3>3. 3 \in Nat /\ LatestAbove(heap, vals, s, r, 3)
      BY <2>3, <3>1, <3>2 DEF LatestAbove
    <3> QED
      BY <1>2, <1>3, <2>3, <3>3, HoldingsLatest DEF kids
  <2>11. \A i \in 1 .. Len(r) : r[i] = s[i]
    BY <2>1, <2>2, <2>3, PushType3
  <2> QED
    BY <2>1, <2>3, <2>4, <2>6, <2>7, <2>9, <2>10, <2>11 DEF ast_list_is_empty
<1>4. Programs \in Classes /\ "program_ast" \in Programs
  BY KindTypes DEF Programs
<1>5. CASE bail_with_error
  BY <1>5, QuietStep DEF bail_with_error
<1>6. CASE ~ast_list_is_empty(Val(3)) /\ Build(node(Val(3)), 3, kids)
  <2>1. MayBuild(node(Val(3)), 3, kids)
    <3> SUFFICES ASSUME NEW s \in Stacks, NEW t \in Stacks,
                        Effect(Head(todo), s, t), StackOK(heap, vals, s)
                 PROVE  /\ NodeOK(heap, made(Val(3)))
                        /\ \E r \in Stacks, T \in Classes :
                             /\ made(Val(3)).tag \in T /\ t = Push(r, Single(T))
                             /\ Len(vals) = Len(r) + 3
                             /\ Prefix(vals, Len(r)) \in Seq(Nat)
                             /\ StackOK(heap, Prefix(vals, Len(r)), r)
                             /\ Holdings(heap, Prefix(vals, Len(r)), r) \in Seq(Nat)
                             /\ Holdings(heap, vals, s) =
                                  Holdings(heap, Prefix(vals, Len(r)), r) \o kids
                             /\ \A i \in 1 .. Len(r) : r[i] = s[i]
                             /\ made(Val(3)).kids = kids
      BY DEF MayBuild, made
    <3>1. Made(Val(3))
      BY <1>3, <1>6
    <3>2. PICK r \in Stacks :
            /\ t = Push(r, Single(Programs))
            /\ Len(vals) = Len(r) + 3
            /\ Prefix(vals, Len(r)) \in Seq(Nat)
            /\ StackOK(heap, Prefix(vals, Len(r)), r)
            /\ Holdings(heap, Prefix(vals, Len(r)), r) \in Seq(Nat)
            /\ Holdings(heap, vals, s) = Holdings(heap, Prefix(vals, Len(r)), r) \o kids
            /\ \A i \in 1 .. Len(r) : r[i] = s[i]
      BY <1>3
    <3>3. made(Val(3)).tag \in Programs /\ made(Val(3)).kids = kids /\ NodeOK(heap, made(Val(3)))
      BY <1>4, <3>1 DEF Made
    <3> QED
      BY ONLY <1>4, <3>2, <3>3
  <2>2. 3 \in Nat
    OBVIOUS
  <2> QED
    BY <1>1, <1>6, <2>1, <2>2, BuildStep
<1>7. CASE ~ast_list_is_empty(Val(2)) /\ Build(node(Val(2)), 3, kids)
  <2>1. MayBuild(node(Val(2)), 3, kids)
    <3> SUFFICES ASSUME NEW s \in Stacks, NEW t \in Stacks,
                        Effect(Head(todo), s, t), StackOK(heap, vals, s)
                 PROVE  /\ NodeOK(heap, made(Val(2)))
                        /\ \E r \in Stacks, T \in Classes :
                             /\ made(Val(2)).tag \in T /\ t = Push(r, Single(T))
                             /\ Len(vals) = Len(r) + 3
                             /\ Prefix(vals, Len(r)) \in Seq(Nat)
                             /\ StackOK(heap, Prefix(vals, Len(r)), r)
                             /\ Holdings(heap, Prefix(vals, Len(r)), r) \in Seq(Nat)
                             /\ Holdings(heap, vals, s) =
                                  Holdings(heap, Prefix(vals, Len(r)), r) \o kids
                             /\ \A i \in 1 .. Len(r) : r[i] = s[i]
                             /\ made(Val(2)).kids = kids
      BY DEF MayBuild, made
    <3>1. Made(Val(2))
      BY <1>3, <1>7
    <3>2. PICK r \in Stacks :
            /\ t = Push(r, Single(Programs))
            /\ Len(vals) = Len(r) + 3
            /\ Prefix(vals, Len(r)) \in Seq(Nat)
            /\ StackOK(heap, Prefix(vals, Len(r)), r)
            /\ Holdings(heap, Prefix(vals, Len(r)), r) \in Seq(Nat)
            /\ Holdings(heap, vals, s) = Holdings(heap, Prefix(vals, Len(r)), r) \o kids
            /\ \A i \in 1 .. Len(r) : r[i] = s[i]
      BY <1>3
    <3>3. made(Val(2)).tag \in Programs /\ made(Val(2)).kids = kids /\ NodeOK(heap, made(Val(2)))
      BY <1>4, <3>1 DEF Made
    <3> QED
      BY ONLY <1>4, <3>2, <3>3
  <2>2. 3 \in Nat
    OBVIOUS
  <2> QED
    BY <1>1, <1>7, <2>1, <2>2, BuildStep
<1>8. CASE Build(node(Val(1)), 3, kids)
  <2>1. MayBuild(node(Val(1)), 3, kids)
    <3> SUFFICES ASSUME NEW s \in Stacks, NEW t \in Stacks,
                        Effect(Head(todo), s, t), StackOK(heap, vals, s)
                 PROVE  /\ NodeOK(heap, made(Val(1)))
                        /\ \E r \in Stacks, T \in Classes :
                             /\ made(Val(1)).tag \in T /\ t = Push(r, Single(T))
                             /\ Len(vals) = Len(r) + 3
                             /\ Prefix(vals, Len(r)) \in Seq(Nat)
                             /\ StackOK(heap, Prefix(vals, Len(r)), r)
                             /\ Holdings(heap, Prefix(vals, Len(r)), r) \in Seq(Nat)
                             /\ Holdings(heap, vals, s) =
                                  Holdings(heap, Prefix(vals, Len(r)), r) \o kids
                             /\ \A i \in 1 .. Len(r) : r[i] = s[i]
                             /\ made(Val(1)).kids = kids
      BY DEF MayBuild, made
    <3>1. Made(Val(1))
      BY <1>3, <1>8
    <3>2. PICK r \in Stacks :
            /\ t = Push(r, Single(Programs))
            /\ Len(vals) = Len(r) + 3
            /\ Prefix(vals, Len(r)) \in Seq(Nat)
            /\ StackOK(heap, Prefix(vals, Len(r)), r)
            /\ Holdings(heap, Prefix(vals, Len(r)), r) \in Seq(Nat)
            /\ Holdings(heap, vals, s) = Holdings(heap, Prefix(vals, Len(r)), r) \o kids
            /\ \A i \in 1 .. Len(r) : r[i] = s[i]
      BY <1>3
    <3>3. made(Val(1)).tag \in Programs /\ made(Val(1)).kids = kids /\ NodeOK(heap, made(Val(1)))
      BY <1>4, <3>1 DEF Made
    <3> QED
      BY ONLY <1>4, <3>2, <3>3
  <2>2. 3 \in Nat
    OBVIOUS
  <2> QED
    BY <1>1, <1>8, <2>1, <2>2, BuildStep
<1> QED
  BY <1>1, <1>5, <1>6, <1>7, <1>8

\* A parenthesized expression only changes its place.
LEMMA RelocateTyped == ASSUME TreeInv, ControlOK', RelocateParenExpr PROVE TreeInv'
<1> DEFINE p == Val(1)
           loc == Head(todo).tok.loc
           g == [heap EXCEPT ![p].loc = loc]
<1>1. todo # <<>> /\ Head(todo).do = "relocate" /\ todo' = Tail(todo)
      /\ vals' = vals /\ heap' = g
  BY DEF RelocateParenExpr, At
<1>2. HeapOK(heap) /\ vals \in Seq(Nat) /\ loc \in Nat
  BY <1>1, HeadType DEF TreeInv, TokenRecords
<1> HIDE DEF p, loc
<1>3. ASSUME NEW s \in Stacks, NEW t \in Stacks,
             Effect(Head(todo), s, t), StackOK(heap, vals, s)
      PROVE  /\ HeapOK(heap') /\ vals' \in Seq(Nat) /\ StackOK(heap', vals', t)
             /\ (Owned(heap, vals, s) => Owned(heap', vals', t))
  <2>1. heap \in Seq(Nodes) /\ Len(heap) \in Nat /\ \A q \in 1 .. Len(heap) : heap[q] \in Nodes
    BY <1>2, HeapOKNodes
  <2>2. CASE p \in 1 .. Len(heap)
    <3>1. /\ [heap[p] EXCEPT !.loc = loc] \in Nodes
          /\ [heap[p] EXCEPT !.loc = loc].tag = heap[p].tag
          /\ [heap[p] EXCEPT !.loc = loc].kids = heap[p].kids
          /\ [heap[p] EXCEPT !.loc = loc].op = heap[p].op
          /\ [heap[p] EXCEPT !.loc = loc].next = heap[p].next
      BY <1>2, <2>1, <2>2 DEF Nodes
    <3>2. /\ g \in Seq(Nodes) /\ Len(g) = Len(heap)
          /\ g[p] = [heap[p] EXCEPT !.loc = loc]
          /\ \A q \in 1 .. Len(heap) : q # p => g[q] = heap[q]
      BY <2>1, <2>2, <3>1
    <3> HIDE DEF g
    <3>3. \A q \in 1 .. Len(heap) :
             /\ g[q].tag = heap[q].tag /\ g[q].kids = heap[q].kids /\ g[q].op = heap[q].op
             /\ g[q].next = heap[q].next
      BY <3>1, <3>2
    <3>4. HeapOK(g)
      BY <1>2, <3>2, <3>3, UpdateOK
    <3>5. StackOK(g, vals, s)
      BY <1>3, <2>1, <3>2, <3>3, StackOnLargerHeap
    <3>6. t = s
      BY <1>1, <1>3, EffectOfOthers DEF Others
    <3>7. Owned(heap, vals, s) => Owned(g, vals, s)
      <4>1. Holdings(g, vals, s) = Holdings(heap, vals, s)
        BY <1>3, <3>3, HoldingsStay
      <4>2. Whole(heap, Holdings(heap, vals, s)) => Whole(g, Holdings(g, vals, s))
        BY <3>2, <3>3, <4>1, UpdateWhole
      <4>3. ASSUME Grove(heap, vals, s)
            PROVE  Grove(g, vals, s)
        <5>1. PICK b, c, d : Forest(heap, b, c, d) /\ Labelled(heap, vals, s, d)
          BY <4>3 DEF Grove
        <5>2. \A q \in 1 .. Len(heap) : LinksOf(g, q) = LinksOf(heap, q)
          BY <3>3 DEF LinksOf
        <5>3. Forest(g, b, c, d)
          BY <3>2, <5>1, <5>2, SameForest
        <5>4. Labelled(g, vals, s, d)
          BY <1>2, <1>3, <3>3, <5>1, ForestLabels, LabelsStay
        <5> QED
          BY <5>3, <5>4 DEF Grove
      <4> QED
        BY <4>2, <4>3 DEF Owned
    <3> QED
      BY <1>1, <1>2, <3>4, <3>5, <3>6, <3>7
  <2>3. p \in 1 .. Len(heap)
    <3>1. PICK r \in Stacks : s = Push(r, Single(ExprTags))
      BY <1>1, <1>3, EffectOfOthers DEF Others
    <3> DEFINE n == Len(r)
    <3>2. n \in Nat /\ n = Len(r) /\ Single(ExprTags) \in Kinds
      BY KindTypes DEF Stacks
    <3> HIDE DEF n
    <3>3. Len(vals) = n + 1 /\ Fits(heap, vals[n + 1], Single(ExprTags))
      BY <1>2, <1>3, <3>1, <3>2, Pop1
    <3>4. p = vals[n + 1]
      BY <3>2, <3>3, Latest DEF p
    <3> QED
      BY <3>3, <3>4, SingleFits
  <2> QED
    BY <2>2, <2>3
<1> HIDE DEF g
<1> QED
  BY <1>1, <1>3, TailStep

LEMMA NotPairs == \A T \in ListClasses : T # Pairs
BY DEF ListClasses, Consts, Vars, StmtTags, Pairs

\* A list of one element begins and ends with it.
LEMMA StartListTyped == ASSUME TreeInv, ControlOK', StartList PROVE TreeInv'
<1>1. /\ todo # <<>> /\ Head(todo).do = "startList" /\ todo' = Tail(todo)
      /\ heap' = heap /\ Replace(1, <<Val(1), Val(1)>>)
  BY DEF StartList, At
<1>2. HeapOK(heap) /\ vals \in Seq(Nat)
  BY DEF TreeInv
<1>3. ASSUME NEW s \in Stacks, NEW t \in Stacks,
             Effect(Head(todo), s, t), StackOK(heap, vals, s)
      PROVE  /\ HeapOK(heap') /\ vals' \in Seq(Nat) /\ StackOK(heap', vals', t)
             /\ (Owned(heap, vals, s) => Owned(heap', vals', t))
  <2>1. PICK r \in Stacks, T \in ListClasses :
          s = Push(r, Single(T)) /\ t = Push(Push(r, First(T)), Last(T))
    BY <1>1, <1>3, EffectOfOthers DEF Others
  <2>2. Single(T) \in Kinds /\ First(T) \in Kinds /\ Last(T) \in Kinds
    BY KindTypes
  <2> DEFINE n == Len(r)
             p == vals[n + 1]
             w == Prefix(vals, n)
  <2>3. n \in Nat /\ n = Len(r)
    BY DEF Stacks
  <2> HIDE DEF n
  <2>4. /\ Len(vals) = n + 1 /\ p \in Nat /\ Fits(heap, p, Single(T))
        /\ Beneath(w, r, p, Single(T)) /\ w \in Seq(Nat) /\ StackOK(heap, w, r)
    BY <1>2, <1>3, <2>1, <2>2, <2>3, Pop1
  <2>5. Val(1) = p
    BY <2>3, <2>4, Latest
  <2> HIDE DEF p, w
  <2>6. Fits(heap, p, First(T)) /\ Fits(heap, p, Last(T))
    BY <2>4 DEF Fits, Single, First, Last, Kind
  <2> DEFINE u == Append(w, p)
  <2>7. Beneath(w, r, p, First(T))
    BY <2>4 DEF Beneath, Below, Single, First, Kind
  <2>8. u \in Seq(Nat) /\ StackOK(heap, u, Push(r, First(T)))
    <3>1. First(T).role # "last"
      BY DEF First, Kind
    <3> QED
      BY <2>2, <2>4, <2>6, <2>7, <3>1, PushOK
  <2>9. u # <<>> /\ u[Len(u)] = p /\ Len(u) = n + 1 /\ u[n + 1] = p
        /\ \A i \in 1 .. n : u[i] = w[i]
    <3>1. Len(w) = n
      BY <2>3, <2>4 DEF StackOK
    <3> QED
      BY <2>3, <2>4, <3>1
  <2>10. Beneath(u, Push(r, First(T)), p, Last(T))
    <3> SUFFICES ASSUME NEW i \in 1 .. n + 1
                 PROVE  Below(u[i], Push(r, First(T))[i], p, Last(T))
      <4>1. Len(Push(r, First(T))) = n + 1
        BY <2>2, <2>3, PushType
      <4> QED
        BY <4>1 DEF Beneath
    <3>1. CASE i \in 1 .. n
      <4>1. Push(r, First(T))[i] = r[i] /\ u[i] = w[i]
        BY <2>2, <2>3, <2>9, <3>1, PushType
      <4>2. Below(w[i], r[i], p, First(T))
        BY <2>3, <2>7, <3>1 DEF Beneath
      <4> QED
        BY <4>1, <4>2 DEF Below, First, Last, Kind
    <3>2. CASE i = n + 1
      <4>1. Push(r, First(T))[i] = First(T) /\ u[i] = p
        BY <2>2, <2>3, <2>9, <3>2, PushType
      <4> QED
        BY <4>1 DEF Below, First, Last, Kind
    <3>3. i \in 1 .. n \/ i = n + 1
      BY <2>3
    <3> QED
      BY <3>1, <3>2, <3>3
  <2> HIDE DEF u
  <2>11. Append(u, p) \in Seq(Nat) /\ StackOK(heap, Append(u, p), t)
    <3>1. Push(r, First(T)) \in Stacks
      BY <2>2, PushType
    <3> QED
      BY <2>1, <2>2, <2>4, <2>6, <2>8, <2>9, <2>10, <3>1, PushOK
  <2>13. /\ Holdings(heap, w, r) \in Seq(Nat)
         /\ Holdings(heap, vals, s) = Append(Holdings(heap, w, r), p)
    <3>1. Held(heap, p, Single(T)) = p
      BY NotPairs DEF Held, Single, Kind, NULL
    <3> QED
      BY <1>2, <1>3, <2>1, <2>2, <2>3, <3>1, HoldingsPop DEF p, w
  <2>14. Holdings(heap, u, Push(r, First(T))) = Append(Holdings(heap, w, r), p)
    <3>1. Held(heap, p, First(T)) = p
      BY NotPairs DEF Held, First, Kind, NULL
    <3> QED
      BY <1>2, <2>2, <2>4, <2>6, <3>1, HoldingsPush DEF u
  <2>15. /\ Holdings(heap, u, Push(r, First(T))) \in Seq(Nat)
         /\ Holdings(heap, Append(u, p), t) = Append(Holdings(heap, u, Push(r, First(T))), NULL)
    <3>1. Held(heap, p, Last(T)) = NULL
      BY DEF Held, Last, Kind
    <3>2. Push(r, First(T)) \in Stacks
      BY <2>2, PushType
    <3> QED
      BY <1>2, <2>1, <2>2, <2>4, <2>6, <2>8, <3>1, <3>2, HoldingsPush
  <2>16. Owned(heap, vals, s) => Owned(heap, Append(u, p), t)
    <3>1. Holdings(heap, u, Push(r, First(T))) = Holdings(heap, vals, s)
      BY <2>13, <2>14
    <3>2. Whole(heap, Holdings(heap, Append(u, p), t))
            <=> Whole(heap, Holdings(heap, u, Push(r, First(T))))
      BY <2>15, NullRoot
    <3>3. ASSUME Grove(heap, vals, s)
          PROVE  Grove(heap, Append(u, p), t)
      <4> DEFINE q == Push(r, First(T))
      <4>1. PICK b, c, g : Forest(heap, b, c, g) /\ Labelled(heap, vals, s, g)
        BY <3>3 DEF Grove
      <4>2. /\ s \in Stacks /\ Len(s) = n + 1 /\ s[n + 1] = Single(T)
            /\ \A i \in 1 .. n : r[i] = s[i]
        BY <2>1, <2>2, <2>3, PushType
      <4>3. Labelled(heap, w, r, g)
        <5>1. Len(r) <= Len(s) /\ \A i \in 1 .. Len(r) : r[i] = s[i]
          BY <2>3, <4>2
        <5> QED
          BY <1>2, <1>3, <2>3, <4>1, <4>2, <5>1, LabelsPrefix DEF w
      <4>4. p # NULL /\ g[p] = n + 1
        <5>1. p # NULL /\ Held(heap, vals[n + 1], s[n + 1]) = p
          BY <1>2, <2>4, <4>2, NotPairs, HeapOKNodes DEF Held, Fits, Single, Kind, NULL, p
        <5>2. n + 1 \in 1 .. Len(s)
          BY <2>3, <4>2
        <5> QED
          BY <4>1, <5>1, <5>2 DEF Labelled
      <4>5. Labelled(heap, u, q, g)
        <5>1. Held(heap, p, First(T)) = p /\ First(T).role # "last"
          BY NotPairs DEF Held, First, Kind
        <5>2. Len(w) = Len(r)
          BY <2>4 DEF StackOK
        <5> QED
          BY <2>2, <2>3, <2>4, <4>3, <4>4, <5>1, <5>2, LabelsPush DEF u
      <4>6. q \in Stacks /\ Len(q) = n + 1 /\ Len(u) = Len(q)
        BY <2>2, <2>3, <2>9, PushType
      <4>7. Held(heap, p, Last(T)) = NULL
        BY DEF Held, Last, Kind
      <4>8. t = Push(q, Last(T))
        BY <2>1
      <4> HIDE DEF q, u
      <4>9. Labelled(heap, Append(u, p), Push(q, Last(T)), g)
        BY <2>2, <2>4, <2>8, <4>4, <4>5, <4>6, <4>7, LabelsPush
      <4> QED
        BY <4>1, <4>8, <4>9 DEF Grove
    <3> QED
      BY <3>1, <3>2, <3>3 DEF Owned
  <2>12. vals' = Append(u, p)
    <3>1. Len(vals) - 1 = n
      BY <2>3, <2>4
    <3>2. vals' = w \o <<p, p>>
      BY <1>1, <2>5, <3>1 DEF Replace, Prefix, w
    <3> QED
      BY <2>4, <3>2 DEF u
  <2> QED
    BY <1>1, <1>2, <2>11, <2>12, <2>16
<1> QED
  BY <1>1, <1>3, TailStep

\* Below an old pointer that is not the end of a list, so below any later one.
LEMMA BelowLater ==
  ASSUME NEW w, NEW r, NEW p \in Nat, NEW q \in Nat, NEW k, NEW l,
         Beneath(w, r, p, k), k.role # "last", p # NULL, p <= q,
         \A i \in 1 .. Len(r) : w[i] \in Nat
  PROVE  Beneath(w, r, q, l)
BY DEF Beneath, Below

\* The list T that starts at ret and ends at last, which are both known to
\* the stack, and the list that is added to it.
LEMMA ExtendEmpty ==
  ASSUME NEW h, HeapOK(h), NEW r \in Stacks, NEW w \in Seq(Nat), StackOK(h, w, r),
         NEW T \in ListClasses, NEW a \in {First(T), List(T)}, NEW b \in Kinds,
         b.role # "last",
         NEW tail \in 1 .. Len(h), h[tail].tag \in T, Beneath(w, r, tail, b)
  PROVE  LET end == ast_list_last_elem(h, tail)
         IN  /\ Append(Append(w, tail), end) \in Seq(Nat)
             /\ StackOK(h, Append(Append(w, tail), end), Push(Push(r, a), Last(T)))
<1> DEFINE end == ast_list_last_elem(h, tail)
           u == Append(w, tail)
           n == Len(r)
<1>1. end \in tail .. Len(h) /\ h[end].tag \in T /\ h[end].next = NULL
  BY LastOfList
<1>2. Len(h) \in Nat /\ tail \in Nat /\ end \in Nat /\ tail <= end /\ tail # NULL /\ end # NULL
  BY <1>1, HeapOKNodes DEF NULL
<1>3. n \in Nat /\ Len(w) = n /\ \A i \in 1 .. n : w[i] \in Nat
  BY DEF StackOK, Stacks
<1>4. a \in Kinds /\ Last(T) \in Kinds /\ a.role \in {"node", "list"} /\ a.tags = T
  <2>1. First(T) \in Kinds /\ List(T) \in Kinds /\ Last(T) \in Kinds
    BY KindTypes
  <2>2. First(T).role = "node" /\ List(T).role = "list" /\ First(T).tags = T /\ List(T).tags = T
    BY DEF First, List, Kind
  <2> QED
    BY <2>1, <2>2
<1>5. Last(T).role = "last" /\ Last(T).tags = T
  BY DEF Last, Kind
<1> HIDE DEF end, n
<1>6. Fits(h, tail, a) /\ Fits(h, end, Last(T))
  BY <1>1, <1>2, <1>4, <1>5 DEF Fits
<1>7. Beneath(w, r, tail, a)
  BY <1>4 DEF Beneath, Below
<1>8. u \in Seq(Nat) /\ StackOK(h, u, Push(r, a))
  BY <1>2, <1>4, <1>6, <1>7, PushOK
<1>9. /\ u # <<>> /\ u[Len(u)] = tail /\ u[n + 1] = tail /\ Len(u) = n + 1
      /\ \A i \in 1 .. n : u[i] = w[i]
  <2>1. Len(u) = n + 1 /\ u[n + 1] = tail
    BY <1>2, <1>3
  <2>2. \A i \in 1 .. n : u[i] = w[i]
    BY <1>2, <1>3
  <2>3. u # <<>>
    OBVIOUS
  <2> QED
    BY <2>1, <2>2, <2>3
<1>10. /\ Push(r, a) \in Stacks /\ Len(Push(r, a)) = n + 1 /\ Push(r, a)[n + 1] = a
       /\ \A i \in 1 .. n : Push(r, a)[i] = r[i]
  BY <1>4, PushType DEF n
<1> HIDE DEF u
<1>11. Beneath(u, Push(r, a), end, Last(T))
  <2> SUFFICES ASSUME NEW i \in 1 .. n + 1
               PROVE  Below(u[i], Push(r, a)[i], end, Last(T))
    BY <1>10 DEF Beneath
  <2>1. CASE i \in 1 .. n
    <3>1. Beneath(w, r, end, Last(T))
      BY <1>2, <1>3, BelowLater DEF n
    <3> QED
      BY <1>9, <1>10, <2>1, <3>1 DEF Beneath, n
  <2>2. CASE i = n + 1
    BY <1>2, <1>4, <1>5, <1>9, <1>10, <2>2 DEF Below
  <2> QED
    BY <1>3, <2>1, <2>2
<1>12. Append(u, end) \in Seq(Nat) /\ StackOK(h, Append(u, end), Push(Push(r, a), Last(T)))
  BY <1>2, <1>4, <1>6, <1>8, <1>9, <1>10, <1>11, PushOK
<1> QED
  BY <1>12 DEF end, u

LEMMA ExtendNonEmpty ==
  ASSUME NEW h, HeapOK(h), NEW q \in Stacks, NEW w \in Seq(Nat), StackOK(h, w, q),
         w # <<>>, w[Len(w)] # NULL,
         NEW T \in ListClasses, NEW l \in Kinds, l.role \in {"last", "spent"}, l.tags = T,
         NEW last \in 1 .. Len(h), h[last].tag \in T, Beneath(w, q, last, Last(T)),
         NEW b, b.role # "last", NEW tail,
         \/ tail = NULL /\ l.role = "spent"
         \/ tail \in last + 1 .. Len(h) /\ h[tail].tag \in T /\ Beneath(w, q, tail, b)
  PROVE  LET g == ast_list_splice(h, last, tail)
             end == ast_list_last_elem(h, tail)
         IN  /\ HeapOK(g)
             /\ Append(w, end) \in Seq(Nat)
             /\ StackOK(g, Append(w, end), Push(q, l))
<1> DEFINE g == ast_list_splice(h, last, tail)
           end == ast_list_last_elem(h, tail)
<1>1. /\ HeapOK(g) /\ Len(g) = Len(h)
      /\ \A p \in 1 .. Len(h) : /\ g[p].tag = h[p].tag
                                /\ p # last => g[p].next = h[p].next
  BY SpliceOK
<1>2. Len(h) \in Nat /\ Forward(h)
  BY HeapOKNodes DEF HeapOK
<1>3. \A i \in 1 .. Len(w) : w[i] \in Nat
  OBVIOUS
<1>4. Len(w) = Len(q)
  BY DEF StackOK
<1> HIDE DEF g
<1>5. StackOK(g, w, q)
  <2>1. ASSUME NEW i \in 1 .. Len(w), w[i] = last
        PROVE  q[i].role \notin {"single", "last"}
    <3>1. Below(w[i], q[i], last, Last(T))
      BY <1>4 DEF Beneath
    <3>2. last # NULL /\ ~(last < last)
      BY <1>2 DEF NULL
    <3> QED
      BY <2>1, <3>1, <3>2 DEF Below
  <2> QED
    BY <1>1, <1>2, <2>1, StackAfterSplice
<1>6. CASE tail = NULL /\ l.role = "spent"
  <2>1. end = NULL
    BY <1>2, <1>6, LastOfEmpty
  <2> HIDE DEF end
  <2>2. Fits(g, end, l) /\ Beneath(w, q, end, l) /\ end \in Nat
    BY <1>6, <2>1 DEF Fits, Beneath, Below, NULL
  <2>3. l.role # "last"
    BY <1>6
  <2>4. Append(w, end) \in Seq(Nat) /\ StackOK(g, Append(w, end), Push(q, l))
    BY <1>5, <2>2, <2>3, PushOK
  <2> QED
    BY <1>1, <2>4 DEF g, end
<1>7. CASE tail \in last + 1 .. Len(h) /\ h[tail].tag \in T /\ Beneath(w, q, tail, b)
  <2>1. tail \in 1 .. Len(h)
    BY <1>2, <1>7
  <2>2. end \in tail .. Len(h) /\ h[end].tag \in T /\ h[end].next = NULL
    BY <1>7, <2>1, LastOfList
  <2>3. /\ tail \in Nat /\ end \in Nat /\ tail <= end /\ tail # NULL /\ end # NULL
        /\ end # last /\ end \in 1 .. Len(h)
    BY <1>2, <1>7, <2>1, <2>2 DEF NULL
  <2> HIDE DEF end
  <2>4. Fits(g, end, l)
    BY <1>1, <2>2, <2>3 DEF Fits
  <2>5. Beneath(w, q, end, l)
    BY <1>3, <1>4, <1>7, <2>3, BelowLater
  <2>6. Append(w, end) \in Seq(Nat) /\ StackOK(g, Append(w, end), Push(q, l))
    BY <1>5, <2>3, <2>4, <2>5, PushOK
  <2> QED
    BY <1>1, <2>6 DEF g, end
<1> QED
  BY <1>6, <1>7

\* What add_AST_to_end finds: the list ret with its end last, and a list of
\* nodes of the same kind, allocated later, that it does not share.
Extended(s, t, r, T, a, b, l) ==
  /\ s = Push(Push(Push(r, a), Last(T)), b)
  /\ t = Push(Push(r, a), l)
  /\ \/ a \in {First(T), List(T)} /\ b \in {First(T), Single(T)} /\ l = Last(T)
     \/ a = First(T) /\ b = List(T) /\ l = Spent(T)

LEMMA ExtendedTypes ==
  ASSUME NEW s, NEW t, NEW r \in Stacks, NEW T \in ListClasses, NEW a, NEW b, NEW l,
         Extended(s, t, r, T, a, b, l)
  PROVE  /\ a \in Kinds /\ b \in Kinds /\ l \in Kinds /\ Last(T) \in Kinds
         /\ a \in {First(T), List(T)} /\ b.role # "last" /\ b.tags = T
         /\ l.role \in {"last", "spent"} /\ l.tags = T
         /\ l = Last(T) \/ (a = First(T) /\ l.role = "spent")
         /\ l.role = "last" => b.role # "list"
         /\ a.role \notin {"last", "spent"} /\ b.role \notin {"last", "spent"} /\ a.tags = T
<1>1. /\ First(T) \in Kinds /\ List(T) \in Kinds /\ Last(T) \in Kinds
      /\ Single(T) \in Kinds /\ Spent(T) \in Kinds
  BY KindTypes
<1>2. /\ First(T) = [role |-> "node", tags |-> T] /\ List(T) = [role |-> "list", tags |-> T]
      /\ Last(T) = [role |-> "last", tags |-> T] /\ Single(T) = [role |-> "single", tags |-> T]
      /\ Spent(T) = [role |-> "spent", tags |-> T]
  BY DEF First, List, Last, Single, Spent, Kind
<1> QED
  BY <1>1, <1>2 DEF Extended

LEMMA ExtendsAs ==
  ASSUME NEW s, NEW t, Extends(s, t)
  PROVE  \E r \in Stacks, T \in ListClasses : \E a, b, l : Extended(s, t, r, T, a, b, l)
BY DEF Extends, Extended

\* What is known of the three latest pointers then, above the stack r.
Ends(T, r, b, l, n) ==
  /\ n \in Nat /\ Len(vals) = n + 3
  /\ Val(3) = vals[n + 1] /\ Val(2) = vals[n + 2] /\ Val(1) = vals[n + 3]
  /\ Val(3) = NULL <=> Val(2) = NULL
  /\ Val(2) # NULL => /\ Val(2) \in 1 .. Len(heap) /\ heap[Val(2)].tag \in T
                      /\ heap[Val(2)].next = NULL
  /\ Val(1) # NULL => Val(1) \in 1 .. Len(heap) /\ heap[Val(1)].tag \in T
  /\ Val(1) # NULL /\ Val(2) # NULL => Val(2) < Val(1)
  /\ b.role # "list" => Val(1) # NULL
  /\ l.role = "spent" => Val(3) # NULL
  /\ Beneath(Prefix(vals, n), r, Val(1), b)
  /\ Prefix(vals, n) \in Seq(Nat) /\ StackOK(heap, Prefix(vals, n), r)

LEMMA ExtendedPointers ==
  ASSUME NEW s, NEW t, NEW r \in Stacks, NEW T \in ListClasses, NEW a, NEW b, NEW l,
         Extended(s, t, r, T, a, b, l),
         HeapOK(heap), vals \in Seq(Nat), StackOK(heap, vals, s), NEW n, n = Len(r)
  PROVE  Ends(T, r, b, l, n)
<1>1. /\ a \in Kinds /\ b \in Kinds /\ l \in Kinds /\ Last(T) \in Kinds
      /\ a \in {First(T), List(T)} /\ b.role # "last" /\ b.tags = T
      /\ l = Last(T) \/ (a = First(T) /\ l.role = "spent")
  BY ExtendedTypes
<1>2. s = Push(Push(Push(r, a), Last(T)), b)
  BY DEF Extended
<1>3. Last(T).role = "last" /\ Last(T).tags = T /\ First(T).role = "node"
  BY DEF Last, First, Kind
<1>12. StackOK(heap, vals, Push(Push(Push(r, a), Last(T)), b))
  BY <1>2
<1> DEFINE e == Last(T)
<1>13. e \in Kinds /\ StackOK(heap, vals, Push(Push(Push(r, a), e), b)) /\ a \in Kinds /\ b \in Kinds
  BY <1>1, <1>12
<1> HIDE DEF e
<1>14. /\ n \in Nat /\ Len(vals) = n + 3
       /\ vals[n + 1] \in Nat /\ vals[n + 2] \in Nat /\ vals[n + 3] \in Nat
       /\ Fits(heap, vals[n + 1], a) /\ Fits(heap, vals[n + 2], e) /\ Fits(heap, vals[n + 3], b)
       /\ Below(vals[n + 2], e, vals[n + 3], b)
       /\ Beneath(Prefix(vals, n), r, vals[n + 3], b)
       /\ e.role = "last" => (vals[n + 2] = NULL <=> vals[n + 1] = NULL)
       /\ Prefix(vals, n) \in Seq(Nat)
       /\ StackOK(heap, Prefix(vals, n), r)
  BY <1>13, Pop3
<1>4. /\ n \in Nat /\ Len(vals) = n + 3
      /\ vals[n + 1] \in Nat /\ vals[n + 2] \in Nat /\ vals[n + 3] \in Nat
      /\ Fits(heap, vals[n + 1], a) /\ Fits(heap, vals[n + 2], Last(T)) /\ Fits(heap, vals[n + 3], b)
      /\ Below(vals[n + 2], Last(T), vals[n + 3], b)
      /\ Beneath(Prefix(vals, n), r, vals[n + 3], b)
      /\ Last(T).role = "last" => (vals[n + 2] = NULL <=> vals[n + 1] = NULL)
      /\ Prefix(vals, n) \in Seq(Nat)
      /\ StackOK(heap, Prefix(vals, n), r)
  BY <1>14 DEF e
<1>5. Val(3) = vals[n + 1] /\ Val(2) = vals[n + 2] /\ Val(1) = vals[n + 3]
  BY <1>4, Latest
<1>6. Val(3) = NULL <=> Val(2) = NULL
  BY <1>3, <1>4, <1>5
<1>7. Val(2) # NULL => /\ Val(2) \in 1 .. Len(heap) /\ heap[Val(2)].tag \in T
                       /\ heap[Val(2)].next = NULL
  BY <1>3, <1>4, <1>5 DEF Fits
<1>8. Val(1) # NULL => Val(1) \in 1 .. Len(heap) /\ heap[Val(1)].tag \in T
  BY <1>1, <1>4, <1>5 DEF Fits
<1>9. Val(1) # NULL /\ Val(2) # NULL => Val(2) < Val(1)
  BY <1>3, <1>4, <1>5 DEF Below
<1>10. b.role # "list" => Val(1) # NULL
  <2>1. b \in {First(T), Single(T), List(T)}
    BY DEF Extended
  <2>2. b.role # "list" => b.role \in {"node", "single"}
    BY <2>1 DEF First, Single, List, Kind
  <2>3. Len(heap) \in Nat
    BY HeapOKNodes
  <2>4. Fits(heap, Val(1), b)
    BY <1>4, <1>5
  <2> QED
    BY <2>2, <2>3, <2>4 DEF Fits, NULL
<1>11. l.role = "spent" => Val(3) # NULL
  <2>1. l.role = "spent" => a = First(T)
    BY <1>1, <1>3
  <2>2. Len(heap) \in Nat
    BY HeapOKNodes
  <2> QED
    BY <1>3, <1>4, <1>5, <2>1, <2>2 DEF Fits, NULL
<1> QED
  BY <1>4, <1>5, <1>6, <1>7, <1>8, <1>9, <1>10, <1>11 DEF Ends

\* Adding to the end of a list: the tree of what is added joins that of the list.
LEMMA ExtendGrove ==
  ASSUME HeapOK(heap), vals \in Seq(Nat),
         NEW s \in Stacks, NEW t, NEW r \in Stacks, NEW T \in ListClasses, NEW a, NEW b, NEW l,
         Extended(s, t, r, T, a, b, l), StackOK(heap, vals, s), NEW n, n = Len(r),
         Grove(heap, vals, s),
         NEW end \in Nat, end = ast_list_last_elem(heap, Val(1))
  PROVE  /\ Val(3) = NULL => Grove(heap, Append(Append(Prefix(vals, n), Val(1)), end), t)
         /\ Val(3) # NULL => Grove(ast_list_splice(heap, Val(2), Val(1)),
                                   Append(Append(Prefix(vals, n), Val(3)), end), t)
<1> DEFINE w == Prefix(vals, n)
<1>1. PICK f, c, g : Forest(heap, f, c, g) /\ Labelled(heap, vals, s, g)
  BY DEF Grove
<1> DEFINE d == Joined(g, n)
<1>2. /\ a \in Kinds /\ b \in Kinds /\ l \in Kinds /\ Last(T) \in Kinds
      /\ b.role # "last" /\ b.tags = T /\ l.role \in {"last", "spent"}
      /\ l.role = "last" => b.role # "list"
      /\ a.role \notin {"last", "spent"} /\ b.role \notin {"last", "spent"} /\ a.tags = T
      /\ T # Pairs
  BY ExtendedTypes, NotPairs
<1>3. /\ n \in Nat /\ Len(vals) = n + 3
      /\ Val(3) = vals[n + 1] /\ Val(2) = vals[n + 2] /\ Val(1) = vals[n + 3]
      /\ Val(3) = NULL <=> Val(2) = NULL
      /\ Val(2) # NULL => Val(2) \in 1 .. Len(heap) /\ heap[Val(2)].next = NULL
      /\ Val(1) # NULL => Val(1) \in 1 .. Len(heap)
      /\ b.role # "list" => Val(1) # NULL
      /\ l.role = "spent" => Val(3) # NULL
      /\ w \in Seq(Nat) /\ StackOK(heap, w, r) /\ Len(w) = n
  <2>1. Ends(T, r, b, l, n)
    BY ExtendedPointers
  <2>2. StackOK(heap, Prefix(vals, n), r)
    BY <2>1 DEF Ends
  <2>3. Len(Prefix(vals, n)) = n
    BY <2>2 DEF StackOK
  <2> QED
    BY <2>1, <2>3 DEF Ends
<1>4. /\ Len(s) = n + 3 /\ s[n + 1] = a /\ s[n + 2] = Last(T) /\ s[n + 3] = b
      /\ \A i \in 1 .. Len(r) : r[i] = s[i]
  <2>1. s = Push(Push(Push(r, a), Last(T)), b)
    BY DEF Extended
  <2>2. a \in Kinds /\ Last(T) \in Kinds /\ b \in Kinds /\ r \in Stacks
        /\ n \in Nat /\ n = Len(r)
    BY <1>2, <1>3
  <2> DEFINE q == Push(Push(Push(r, a), Last(T)), b)
  <2>3. /\ q \in Stacks /\ Len(q) = n + 3
        /\ q[n + 1] = a /\ q[n + 2] = Last(T) /\ q[n + 3] = b
        /\ \A i \in 1 .. n : q[i] = r[i]
    BY ONLY <2>2, PushType3
  <2> HIDE DEF q
  <2>4. s = q
    BY <2>1 DEF q
  <2> QED
    BY <2>2, <2>3, <2>4
<1>5. /\ heap \in Seq(Nodes) /\ Len(heap) \in Nat /\ Forward(heap)
      /\ \A p \in 1 .. Len(heap) : heap[p] \in Nodes
  BY HeapOKNodes DEF HeapOK
<1>6. /\ d \in [1 .. Len(heap) -> Nat] /\ Forest(heap, f, c, d)
      /\ \A p \in 1 .. Len(heap) : g[p] \in Nat /\ d[p] = IF g[p] > n THEN n + 1 ELSE g[p]
  <2>1. /\ Forest(heap, f, c, d)
        /\ \A p \in 1 .. Len(heap) : d[p] = IF g[p] > n THEN n + 1 ELSE g[p]
    <3>1. Forest(heap, f, c, g) /\ n \in Nat
      BY <1>1, <1>3
    <3> QED
      BY ONLY <3>1, JoinForest
  <2>2. \A p \in 1 .. Len(heap) : g[p] \in Nat
    BY <1>1, ForestLabels
  <2> HIDE DEF d
  <2> QED
    BY <2>1, <2>2 DEF Forest
<1> HIDE DEF w, d
<1>7. /\ Val(3) # NULL => g[Val(3)] = n + 1
      /\ Val(2) # NULL => g[Val(2)] = n + 1
      /\ Val(1) # NULL => g[Val(1)] = n + 3
  <2>1. {n + 1, n + 2, n + 3} \subseteq 1 .. Len(s) /\ (n + 2) - 1 = n + 1
    BY <1>3, <1>4
  <2>2. /\ Held(heap, vals[n + 1], a) = Val(3)
        /\ Held(heap, vals[n + 3], b) = Val(1)
    BY <1>2, <1>3 DEF Held
  <2>3. Last(T).role = "last"
    BY DEF Last, Kind
  <2>4. Val(3) # NULL => g[Val(3)] = n + 1
    BY <1>1, <1>4, <2>1, <2>2 DEF Labelled
  <2>5. Val(1) # NULL => g[Val(1)] = n + 3
    BY <1>1, <1>4, <2>1, <2>2 DEF Labelled
  <2>6. Val(2) # NULL => g[Val(2)] = (n + 2) - 1
    BY <1>1, <1>3, <1>4, <2>1, <2>3 DEF Labelled
  <2> QED
    BY <2>1, <2>4, <2>5, <2>6
<1>8. end # NULL => end \in 1 .. Len(heap) /\ g[end] = n + 3
  <2>1. CASE Val(1) = NULL
    BY <1>5, <2>1, LastOfEmpty
  <2>2. CASE Val(1) # NULL
    <3> DEFINE S == {p \in 1 .. Len(heap) : g[p] = n + 3}
    <3>1. Val(1) \in 1 .. Len(heap) /\ Val(1) \in S
      BY <1>3, <1>7, <2>2
    <3>2. ASSUME NEW p \in S \cap (1 .. Len(heap))
          PROVE  heap[p].next \in S \cup {NULL}
      <4>1. heap[p].next \in LinksOf(heap, p)
        BY DEF LinksOf
      <4> QED
        BY <1>1, <4>1 DEF Forest, Ranked, Lower, Linked
    <3> HIDE DEF S
    <3>3. end \in S
      BY <1>5, <3>1, <3>2, LastElem
    <3> QED
      BY <3>3 DEF S
  <2> QED
    BY <2>1, <2>2
<1>9. ASSUME NEW m, Len(m) = Len(heap), \A p \in 1 .. Len(heap) : m[p].kids = heap[p].kids,
             NEW y, NEW z, Forest(m, y, z, d),
             NEW p \in {Val(1), Val(3)}, p # NULL
      PROVE  Grove(m, Append(Append(w, p), end), t)
  <2> DEFINE u == Append(w, p)
             q == Push(r, a)
  <2>1. p \in Nat /\ p \in 1 .. Len(heap) /\ d[p] = n + 1
    <3>1. vals[n + 1] # NULL => vals[n + 1] \in 1 .. Len(heap)
      <4>1. n + 1 \in 1 .. Len(vals) /\ n + 1 \in 1 .. Len(s)
        BY <1>3, <1>4
      <4>2. Fits(heap, vals[n + 1], s[n + 1])
        BY <4>1 DEF StackOK
      <4> QED
        BY <4>2 DEF Fits
    <3>2. p \in 1 .. Len(heap) /\ g[p] > n
      <4>1. p \in 1 .. Len(heap)
        BY <1>3, <1>9, <3>1
      <4>2. g[p] = n + 1 \/ g[p] = n + 3
        BY <1>7, <1>9
      <4>3. n \in Nat
        BY <1>3
      <4>4. g[p] > n
        BY ONLY <4>2, <4>3
      <4> QED
        BY <4>1, <4>4
    <3> QED
      BY <1>5, <1>6, <3>2
  <2>2. Labelled(m, w, r, d)
    <3>1. Labelled(heap, w, r, g)
      <4>1. Len(r) <= Len(s) /\ \A i \in 1 .. Len(r) : r[i] = s[i]
        BY <1>3, <1>4
      <4>2. Labelled(heap, Prefix(vals, Len(r)), r, g)
        BY <1>1, <4>1, LabelsPrefix
      <4> QED
        BY <4>2 DEF w
    <3>2. \A i \in 1 .. Len(heap) : g[i] \in Nat /\ (g[i] <= Len(r) => d[i] = g[i])
      BY <1>3, <1>6
    <3>3. StackOK(heap, w, r)
      BY <1>3
    <3>4. \A i \in 1 .. Len(heap) : m[i].kids = heap[i].kids
      BY <1>9
    <3> HIDE DEF d
    <3> QED
      BY ONLY HeapOK(heap), r \in Stacks, <3>1, <3>2, <3>3, <3>4, LabelsStay
  <2>3. Labelled(m, u, q, d)
    <3>1. Held(m, p, a) = p
      BY <1>2 DEF Held
    <3> QED
      BY <1>2, <1>3, <2>1, <2>2, <3>1, LabelsPush
  <2>4. u \in Seq(Nat) /\ Len(u) = n + 1 /\ q \in Stacks /\ Len(q) = n + 1
    <3>1. u \in Seq(Nat) /\ Len(u) = n + 1
      <4>1. w \in Seq(Nat) /\ Len(w) = n /\ p \in Nat
        BY <1>3, <2>1
      <4> QED
        BY ONLY <4>1
    <3>2. q \in Stacks /\ Len(q) = n + 1
      BY <1>2, PushType
    <3> QED
      BY <3>1, <3>2
  <2>5. end # NULL => d[end] = n + 1
    BY <1>3, <1>6, <1>8
  <2>6. Held(m, end, l) = NULL
    BY <1>2 DEF Held
  <2>7. t = Push(q, l)
    BY DEF Extended
  <2> HIDE DEF u, q
  <2>8. Labelled(m, Append(u, end), Push(q, l), d)
    BY <1>2, <2>3, <2>4, <2>5, <2>6, LabelsPush
  <2> QED
    BY <1>9, <2>7, <2>8 DEF Grove, u
<1>10. ASSUME Val(3) = NULL
       PROVE  Grove(heap, Append(Append(w, Val(1)), end), t)
  <2>1. Val(1) # NULL
    BY <1>2, <1>3, <1>10
  <2> QED
    BY <1>6, <1>9, <2>1
<1>11. ASSUME Val(3) # NULL
       PROVE  Grove(ast_list_splice(heap, Val(2), Val(1)), Append(Append(w, Val(3)), end), t)
  <2> DEFINE m == ast_list_splice(heap, Val(2), Val(1))
  <2>1. Val(2) \in 1 .. Len(heap) /\ heap[Val(2)].next = NULL
    BY <1>3, <1>11
  <2>2. /\ Len(m) = Len(heap) /\ m[Val(2)].next = Val(1)
        /\ m[Val(2)].tag = heap[Val(2)].tag /\ m[Val(2)].kids = heap[Val(2)].kids
        /\ \A p \in 1 .. Len(heap) : p # Val(2) => m[p] = heap[p]
    BY <1>5, <2>1 DEF ast_list_splice, Nodes
  <2> HIDE DEF m
  <2>3. \A p \in 1 .. Len(heap) : m[p].kids = heap[p].kids
    BY <2>2
  <2>4. \E y, z : Forest(m, y, z, d)
    <3>1. CASE Val(1) = NULL
      <4>1. \A p \in 1 .. Len(heap) : LinksOf(m, p) = LinksOf(heap, p)
        BY <2>1, <2>2, <3>1 DEF LinksOf
      <4> QED
        BY <1>6, <2>2, <4>1, SameForest
    <3>2. CASE Val(1) # NULL
      <4>1. \A p \in 1 .. Len(heap) : LinksOf(m, p) \subseteq
              LinksOf(heap, p) \cup (IF p = Val(2) THEN {Val(1)} ELSE {})
        BY <2>2 DEF LinksOf
      <4>2. /\ Val(1) \in 1 .. Len(heap) /\ g[Val(2)] = n + 1
            /\ g[Val(1)] > n + 1
        BY <1>3, <1>7, <1>11, <3>2
      <4> QED
        BY <1>1, <1>3, <2>1, <2>2, <4>1, <4>2, SpliceForest DEF d
    <3> QED
      BY <3>1, <3>2
  <2>5. PICK y, z : Forest(m, y, z, d)
    BY <2>4
  <2>6. Grove(m, Append(Append(w, Val(3)), end), t)
    BY <1>9, <1>11, <2>2, <2>3, <2>5
  <2> QED
    BY <2>6 DEF m
<1> QED
  BY <1>10, <1>11 DEF w

\* Adding to the end of a list keeps its start and all its elements.
LEMMA AddAstToEndTyped == ASSUME TreeInv, ControlOK', AddAstToEnd PROVE TreeInv'
<1> DEFINE end == ast_list_last_elem(heap, Val(1))
<1>1. /\ todo # <<>> /\ Head(todo).do = "add_AST_to_end" /\ todo' = Tail(todo)
      /\ \/ Val(3) = NULL /\ Replace(3, <<Val(1), end>>) /\ heap' = heap
         \/ /\ Val(3) # NULL /\ Replace(3, <<Val(3), end>>)
            /\ heap' = ast_list_splice(heap, Val(2), Val(1))
  BY DEF AddAstToEnd, At, ast_list_is_empty
<1>2. HeapOK(heap) /\ vals \in Seq(Nat)
  BY DEF TreeInv
<1> HIDE DEF end
<1>3. ASSUME NEW s \in Stacks, NEW t \in Stacks,
             Effect(Head(todo), s, t), StackOK(heap, vals, s)
      PROVE  /\ HeapOK(heap') /\ vals' \in Seq(Nat) /\ StackOK(heap', vals', t)
             /\ (Owned(heap, vals, s) => Owned(heap', vals', t))
  <2>1. PICK r \in Stacks, T \in ListClasses : \E a, b, l : Extended(s, t, r, T, a, b, l)
    <3>1. Extends(s, t)
      BY <1>1, <1>3, EffectOfOthers DEF Others
    <3> QED
      BY <3>1, ExtendsAs
  <2>2. PICK a, b, l : Extended(s, t, r, T, a, b, l)
    BY <2>1
  <2>3. /\ a \in Kinds /\ b \in Kinds /\ l \in Kinds /\ Last(T) \in Kinds
        /\ a \in {First(T), List(T)} /\ b.role # "last" /\ b.tags = T
        /\ l.role \in {"last", "spent"} /\ l.tags = T
        /\ l = Last(T) \/ (a = First(T) /\ l.role = "spent")
        /\ l.role = "last" => b.role # "list"
        /\ a.role \notin {"last", "spent"} /\ b.role \notin {"last", "spent"} /\ a.tags = T
    BY <2>2, ExtendedTypes
  <2> DEFINE n == Len(r)
             w == Prefix(vals, n)
             q == Push(r, a)
             m == n + 1
  <2>4. n \in Nat /\ n = Len(r)
    BY DEF Stacks
  <2>5. s = Push(Push(q, Last(T)), b) /\ t = Push(q, l)
    BY <2>2 DEF Extended
  <2> HIDE DEF n
  <2>6. /\ Len(vals) = n + 3
        /\ Val(3) = vals[n + 1] /\ Val(2) = vals[n + 2] /\ Val(1) = vals[n + 3]
        /\ Val(3) = NULL <=> Val(2) = NULL
        /\ Val(2) # NULL => /\ Val(2) \in 1 .. Len(heap) /\ heap[Val(2)].tag \in T
                            /\ heap[Val(2)].next = NULL
        /\ Val(1) # NULL => Val(1) \in 1 .. Len(heap) /\ heap[Val(1)].tag \in T
        /\ Val(1) # NULL /\ Val(2) # NULL => Val(2) < Val(1)
        /\ b.role # "list" => Val(1) # NULL
        /\ l.role = "spent" => Val(3) # NULL
        /\ Beneath(w, r, Val(1), b)
        /\ w \in Seq(Nat) /\ StackOK(heap, w, r)
    <3>1. Ends(T, r, b, l, n)
      BY <1>2, <1>3, <2>2, <2>4, ExtendedPointers
    <3> QED
      BY <3>1 DEF Ends
  <2>7. Len(vals) - 3 = n /\ \A x, y : Replace(3, <<x, y>>) <=> vals' = w \o <<x, y>>
    <3>1. Len(vals) - 3 = n
      BY <2>4, <2>6
    <3> QED
      BY <3>1 DEF Replace, Prefix
  <2>8. Len(heap) \in Nat
    BY <1>2, HeapOKNodes
  <2> DEFINE x == Holdings(heap, w, r)
  <2>11. /\ x \in Seq(Nat)
         /\ Holdings(heap, vals, s) = Append(Append(Append(x, Val(3)), NULL), Val(1))
    <3> DEFINE e == Last(T)
    <3>1. e \in Kinds /\ StackOK(heap, vals, Push(Push(Push(r, a), e), b))
          /\ s = Push(Push(Push(r, a), e), b)
      BY <1>3, <2>3, <2>5
    <3>2. T # Pairs
      BY NotPairs
    <3>3. Held(heap, vals[n + 2], e) = NULL
      BY DEF Held, Last, Kind
    <3>4. Held(heap, Val(3), a) = Val(3) /\ Held(heap, Val(1), b) = Val(1)
      BY <2>3, <3>2 DEF Held
    <3> HIDE DEF e
    <3>5. /\ Holdings(heap, Prefix(vals, n), r) \in Seq(Nat)
          /\ Holdings(heap, vals, Push(Push(Push(r, a), e), b)) =
               Append(Append(Append(Holdings(heap, Prefix(vals, n), r),
                                    Held(heap, vals[n + 1], a)),
                             Held(heap, vals[n + 2], e)),
                      Held(heap, vals[n + 3], b))
      BY <1>2, <2>3, <2>4, <3>1, HoldingsPop3
    <3> QED
      BY <2>6, <3>1, <3>3, <3>4, <3>5
  <2>12. /\ Val(1) \in Nat /\ Val(2) \in Nat /\ Val(3) \in Nat /\ Len(w) = Len(r)
    <3>1. {n + 1, n + 2, n + 3} \subseteq 1 .. Len(vals)
      BY <2>4, <2>6
    <3>2. \A i \in 1 .. Len(vals) : vals[i] \in Nat
      BY <1>2
    <3> QED
      BY <2>6, <3>1, <3>2 DEF StackOK
  <2> HIDE DEF x, w, q, m
  <2>13. ASSUME NEW g, HeapOK(g), NEW p \in Nat, NEW e \in Nat, p = NULL \/ p = Val(1) \/ p = Val(3),
                StackOK(g, Append(Append(w, p), e), t),
                \A i \in 1 .. Len(heap) : g[i].kids = heap[i].kids
         PROVE  Holdings(g, Append(Append(w, p), e), t) = Append(Append(x, p), NULL)
    <3>1. Held(g, e, l) = NULL
      BY <2>3 DEF Held
    <3>2. Held(g, p, a) = p
      BY <2>3, NotPairs DEF Held
    <3>3. t = Push(Push(r, a), l)
      BY <2>5 DEF q
    <3>4. Holdings(g, Append(Append(w, p), e), t) = Append(Append(Holdings(g, w, r), p), NULL)
      BY <2>3, <2>6, <2>12, <2>13, <3>1, <3>2, <3>3, HoldingsPush2
    <3>5. Holdings(g, w, r) = x
      BY <2>6, <2>13, HoldingsStay DEF x
    <3> QED
      BY <3>4, <3>5
  <2>9. CASE Val(3) = NULL /\ Replace(3, <<Val(1), end>>) /\ heap' = heap
    <3>1. l = Last(T) /\ Val(1) # NULL
      <4>1. Last(T).role = "last"
        BY DEF Last, Kind
      <4> QED
        BY <2>3, <2>6, <2>9, <4>1
    <3>2. Val(1) \in 1 .. Len(heap) /\ heap[Val(1)].tag \in T
      BY <2>6, <3>1
    <3>3. /\ Append(Append(w, Val(1)), end) \in Seq(Nat)
          /\ StackOK(heap, Append(Append(w, Val(1)), end), t)
      BY <1>2, <2>3, <2>5, <2>6, <3>1, <3>2, ExtendEmpty DEF q, end
    <3>4. vals' = Append(Append(w, Val(1)), end)
      <4>1. vals' = w \o <<Val(1), end>>
        BY <2>7, <2>9
      <4>2. Val(1) \in Nat /\ end \in Nat
        <5>1. end \in Val(1) .. Len(heap)
          BY <1>2, <3>2, LastOfList DEF end
        <5> QED
          BY <2>8, <3>2, <5>1
      <4> QED
        BY <2>6, <4>1, <4>2
    <3>5. Owned(heap, vals, s) => Owned(heap, Append(Append(w, Val(1)), end), t)
      <4>1. Val(1) \in Nat /\ end \in Nat
        <5>1. end \in Val(1) .. Len(heap)
          BY <1>2, <3>2, LastOfList DEF end
        <5> QED
          BY <2>8, <3>2, <5>1
      <4>2. Holdings(heap, Append(Append(w, Val(1)), end), t) = Append(Append(x, Val(1)), NULL)
        BY <1>2, <2>13, <3>3, <4>1
      <4>3. Append(x, Val(1)) \in Seq(Nat)
        BY <2>11, <4>1
      <4>4. Whole(heap, Append(Append(x, Val(1)), NULL)) <=> Whole(heap, Append(x, Val(1)))
        BY <4>3, NullRoot
      <4>5. Whole(heap, Append(Append(Append(x, NULL), NULL), Val(1))) => Whole(heap, Append(x, Val(1)))
        BY <2>11, <4>1, RootMoves
      <4>6. Grove(heap, vals, s) => Grove(heap, Append(Append(w, Val(1)), end), t)
        BY <1>2, <1>3, <2>2, <2>4, <2>9, <4>1, ExtendGrove DEF end, w
      <4> QED
        BY <2>9, <2>11, <4>2, <4>4, <4>5, <4>6 DEF Owned
    <3> QED
      BY <1>2, <2>9, <3>3, <3>4, <3>5
  <2>10. CASE /\ Val(3) # NULL /\ Replace(3, <<Val(3), end>>)
              /\ heap' = ast_list_splice(heap, Val(2), Val(1))
    <3> DEFINE u == Prefix(vals, m)
    <3>1. q \in Stacks /\ m = Len(q) /\ m = n + 1
      BY <2>3, <2>4, PushType DEF q, m
    <3>2. /\ Beneath(u, q, vals[m + 1], Last(T)) /\ Beneath(u, q, vals[m + 2], b)
          /\ u \in Seq(Nat) /\ StackOK(heap, u, q)
      BY <1>2, <1>3, <2>3, <2>5, <3>1, Pop2
    <3>3. m + 1 = n + 2 /\ m + 2 = n + 3
      BY <2>4, <3>1
    <3>4. u = Append(w, Val(3)) /\ Val(3) \in Nat
      <4>1. n + 1 <= Len(vals) /\ n + 1 \in 1 .. Len(vals)
        BY <2>4, <2>6
      <4>2. Prefix(vals, n + 1) = Append(Prefix(vals, n), vals[n + 1])
        BY <1>2, <2>4, <4>1, PrefixAppend
      <4>3. vals[n + 1] \in Nat
        BY <1>2, <4>1
      <4> QED
        BY <2>6, <3>1, <4>2, <4>3 DEF w
    <3>5. u # <<>> /\ u[Len(u)] # NULL
      BY <2>6, <2>10, <3>4
    <3> HIDE DEF u
    <3>6. /\ Val(2) \in 1 .. Len(heap) /\ heap[Val(2)].tag \in T
          /\ Beneath(u, q, Val(2), Last(T)) /\ Beneath(u, q, Val(1), b)
      BY <2>6, <2>10, <3>2, <3>3
    <3>7. \/ Val(1) = NULL /\ l.role = "spent"
          \/ Val(1) \in Val(2) + 1 .. Len(heap) /\ heap[Val(1)].tag \in T /\ Beneath(u, q, Val(1), b)
      <4>1. CASE Val(1) = NULL
        BY <2>3, <2>6, <4>1
      <4>2. CASE Val(1) # NULL
        <5>1. Val(1) \in 1 .. Len(heap) /\ Val(2) < Val(1) /\ heap[Val(1)].tag \in T
          BY <2>6, <3>6, <4>2, <2>10
        <5> QED
          BY <2>8, <3>6, <5>1
      <4> QED
        BY <4>1, <4>2
    <3>8. /\ HeapOK(heap') /\ Append(u, end) \in Seq(Nat) /\ StackOK(heap', Append(u, end), t)
      BY <1>2, <2>3, <2>5, <2>10, <3>1, <3>2, <3>5, <3>6, <3>7, ExtendNonEmpty DEF end
    <3>11. end \in Nat
      <4>1. CASE Val(1) = NULL
        <5>1. Forward(heap)
          BY <1>2 DEF HeapOK
        <5>2. end = NULL
          BY <2>8, <4>1, <5>1, LastOfEmpty DEF end
        <5> QED
          BY <5>2 DEF NULL
      <4>2. CASE Val(1) # NULL
        <5>1. Val(1) \in 1 .. Len(heap) /\ heap[Val(1)].tag \in T
          BY <2>6, <4>2
        <5>2. end \in Val(1) .. Len(heap)
          BY <1>2, <5>1, LastOfList DEF end
        <5> QED
          BY <2>8, <5>1, <5>2
      <4> QED
        BY <4>1, <4>2
    <3>9. vals' = Append(u, end)
      <4>1. vals' = w \o <<Val(3), end>>
        BY <2>7, <2>10
      <4> QED
        BY <2>6, <3>4, <3>11, <4>1
    <3>10. Owned(heap, vals, s) => Owned(heap', Append(u, end), t)
      <4>1. end \in Nat /\ Append(u, end) = Append(Append(w, Val(3)), end)
        BY <3>4, <3>11
      <4>2. \A i \in 1 .. Len(heap) : heap'[i].kids = heap[i].kids
        <5>1. Val(1) = NULL \/ (Val(1) \in Val(2) + 1 .. Len(heap) /\ heap[Val(1)].tag \in T)
          BY <3>7
        <5> QED
          BY <1>2, <2>10, <3>6, <5>1, SpliceOK
      <4>3. Holdings(heap', Append(u, end), t) = Append(Append(x, Val(3)), NULL)
        BY <2>13, <3>4, <3>8, <4>1, <4>2
      <4> DEFINE y == Append(Append(x, Val(3)), NULL)
      <4>4. y \in Seq(Nat)
        BY <2>11, <3>4 DEF NULL
      <4> HIDE DEF y
      <4>5. Val(2) \in KeptIn(heap) /\ heap[Val(2)].next = NULL /\ heap \in Seq(Nodes)
        <5>1. heap[Val(2)].tag # "unset"
          BY <3>6 DEF ListClasses, Consts, Vars, StmtTags
        <5> QED
          BY <1>2, <2>6, <2>10, <3>6, <5>1, HeapOKNodes DEF KeptIn
      <4>6. Whole(heap, Append(y, Val(1))) => Whole(heap', y)
        BY <2>10, <2>12, <4>4, <4>5, SpliceWhole
      <4>7. Grove(heap, vals, s) => Grove(heap', Append(u, end), t)
        BY <1>2, <1>3, <2>2, <2>4, <2>10, <4>1, ExtendGrove DEF end, w
      <4> QED
        BY <2>11, <4>3, <4>6, <4>7 DEF Owned, y
    <3> QED
      BY <3>8, <3>9, <3>10
  <2> QED
    BY <1>1, <2>9, <2>10
<1> QED
  BY <1>1, <1>3, TailStep

\* last goes out of scope at the end of parseBeginStmt.
LEMMA DropLastTyped == ASSUME TreeInv, ControlOK', DropLast PROVE TreeInv'
<1>1. /\ todo # <<>> /\ Head(todo).do = "dropLast" /\ todo' = Tail(todo)
      /\ heap' = heap /\ Replace(1, <<>>)
  BY DEF DropLast, EndList, At
<1>2. HeapOK(heap) /\ vals \in Seq(Nat)
  BY DEF TreeInv
<1>3. ASSUME NEW s \in Stacks, NEW t \in Stacks,
             Effect(Head(todo), s, t), StackOK(heap, vals, s)
      PROVE  /\ HeapOK(heap') /\ vals' \in Seq(Nat) /\ StackOK(heap', vals', t)
             /\ (Owned(heap, vals, s) => Owned(heap', vals', t))
  <2>1. PICK r \in Stacks, T \in ListClasses :
          s = Push(Push(r, First(T)), Spent(T)) /\ t = Push(r, First(T))
    BY <1>1, <1>3, EffectOfOthers DEF Others
  <2> DEFINE n == Len(t)
             k == Spent(T)
  <2>2. n = Len(t) /\ k \in Kinds /\ StackOK(heap, vals, Push(t, k))
    BY <1>3, <2>1, KindTypes
  <2> HIDE DEF n, k
  <2>3. /\ n \in Nat /\ Len(vals) = n + 1
        /\ Prefix(vals, n) \in Seq(Nat)
        /\ StackOK(heap, Prefix(vals, n), t)
    BY <1>2, <2>2, Pop1
  <2>4. vals' = Prefix(vals, n)
    <3>1. vals' = Prefix(vals, Len(vals) - 1) \o <<>>
      BY <1>1 DEF Replace, Prefix
    <3>2. Len(vals) - 1 = n
      BY <2>3
    <3> QED
      BY <2>3, <3>1, <3>2
  <2>5. /\ Holdings(heap, Prefix(vals, n), t) \in Seq(Nat)
        /\ Holdings(heap, vals, Push(t, k)) =
             Append(Holdings(heap, Prefix(vals, n), t), Held(heap, vals[n + 1], k))
    BY <1>2, <2>2, HoldingsPop
  <2>6. Held(heap, vals[n + 1], k) = NULL
    BY DEF Held, k, Spent, Kind
  <2>7. Owned(heap, vals, s) => Owned(heap, Prefix(vals, n), t)
    <3>1. Grove(heap, vals, Push(t, k)) => Grove(heap, Prefix(vals, n), t)
      BY <1>2, <2>2, GrovePop
    <3> QED
      BY <2>1, <2>5, <2>6, <3>1, NullRoot DEF Owned, k
  <2> QED
    BY <1>1, <1>2, <2>3, <2>4, <2>7
<1> QED
  BY <1>1, <1>3, TailStep

\* Eating a token, or failing to, builds nothing.
LEMMA EatTyped == ASSUME TreeInv, ControlOK', Eat PROVE TreeInv'
<1>1. CASE See(Head(todo).do)
  <2>1. /\ todo # <<>> /\ Head(todo).do \in TokenTypes /\ todo' = Tail(todo)
        /\ UNCHANGED <<heap, vals>>
    BY <1>1 DEF Eat
  <2>2. ASSUME NEW s \in Stacks, NEW t \in Stacks,
               Effect(Head(todo), s, t), StackOK(heap, vals, s)
        PROVE  /\ HeapOK(heap') /\ vals' \in Seq(Nat) /\ StackOK(heap', vals', t)
               /\ (Owned(heap, vals, s) => Owned(heap', vals', t))
    <3>1. t = s
      BY <2>1, <2>2, EffectOfEat
    <3> QED
      BY <2>1, <2>2, <3>1 DEF TreeInv
  <2> QED
    BY <2>1, <2>2, TailStep
<1>2. CASE ~See(Head(todo).do)
  <2>1. UNCHANGED <<heap, vals, todo>>
    BY <1>2 DEF Eat, parse_error_unexpected
  <2> QED
    BY <2>1, QuietStep
<1> QED
  BY <1>1, <1>2

-----------------------------------------------------------------------------
(* The invariant of the whole parser.                                      *)

LEMMA InitTyped == Init => TreeInv
<1> SUFFICES ASSUME Init PROVE TreeInv
  OBVIOUS
<1>1. ControlOK
  BY InitRefines
<1>2. heap = <<>> /\ vals = <<>> /\ todo = <<Call("parseyParse")>>
  BY DEF Init
<1>3. HeapOK(heap) /\ vals \in Seq(Nat)
  <2>1. heap \in Seq(Nodes) /\ Len(heap) = 0
    BY <1>2
  <2>2. 1 .. Len(heap) = {}
    BY <2>1
  <2>3. HeapOK(heap)
    BY <2>1, <2>2, HeapOKFrom
  <2>4. <<>> \in Seq(Nat)
    OBVIOUS
  <2> QED
    BY <1>2, <2>3, <2>4
<1>4. StackOK(heap, vals, <<>>) /\ <<>> \in Stacks
  BY <1>2 DEF StackOK, Stacks
<1>6. Owned(heap, vals, <<>>)
  <2>1. Len(heap) = 0 /\ Holdings(heap, vals, <<>>) = <<>>
    BY <1>2 DEF Holdings
  <2>2. KeptIn(heap) = {} /\ 1 .. Len(<<>>) = {}
    BY <2>1 DEF KeptIn
  <2>3. Whole(heap, Holdings(heap, vals, <<>>))
    BY <2>1, <2>2 DEF Whole, Holds
  <2>4. Grove(heap, vals, <<>>)
    <3> DEFINE c == [p \in 1 .. Len(heap) |-> 0]
    <3>1. 1 .. Len(heap) = {} /\ 1 .. Len(<<>>) = {}
      BY <2>1
    <3>2. c \in [1 .. Len(heap) -> 0 .. 0] /\ c \in [1 .. Len(heap) -> Nat]
      OBVIOUS
    <3> HIDE DEF c
    <3>3. Forest(heap, 0, c, c)
      BY <3>1, <3>2 DEF Forest, Ranked, Linked
    <3>4. Labelled(heap, vals, <<>>, c)
      BY <3>1 DEF Labelled
    <3> QED
      BY <3>3, <3>4 DEF Grove
  <2> QED
    BY <2>3, <2>4 DEF Owned
<1>5. Flows(todo, <<>>, Final)
  <2> DEFINE s == <<>>
             t == Push(s, Single(Programs))
             i == Call("parseyParse")
  <2>1. Single(Programs) \in Kinds
    BY KindTypes
  <2>2. s \in Stacks
    BY <1>4
  <2>3. t \in Stacks
    BY <2>1, <2>2, PushType
  <2>4. Effect(i, s, t)
    BY <2>1, CallEffect DEF Returns
  <2>5. todo = <<i>> /\ Final = t
    BY <1>2 DEF Final
  <2> HIDE DEF s, t, i
  <2>6. Flows(todo, s, Final)
    BY <2>2, <2>3, <2>4, <2>5, Flows1
  <2> QED
    BY <2>6 DEF s
<1> QED
  BY <1>1, <1>3, <1>4, <1>5, <1>6 DEF TreeInv, Typed

LEMMA NextTyped == ASSUME TreeInv, [Next]_vars PROVE TreeInv'
<1>1. ControlOK'
  BY NextRefines DEF TreeInv
<1>2. CASE ParserOpen
  <2>1. UNCHANGED <<heap, vals, todo>>
    BY <1>2 DEF ParserOpen, bail_with_error
  <2> QED
    BY <1>1, <2>1, QuietStep
<1>3. CASE ParseyParse \/ ParseBlock
  BY <1>1, <1>3, ParseyParseTyped, ParseBlockTyped
<1>4. CASE ParseDecls
  BY <1>1, <1>4, ParseConstDeclsTyped, ConstDeclsLoopTyped, ParseConstDeclTyped,
     ConstDeclLoopTyped, ParseConstIdentTyped, ConstNumberTyped, ParseVarDeclsTyped,
     VarDeclsLoopTyped, ParseVarDeclTyped, VarDeclLoopTyped, ParseVarIdentTyped
     DEF ParseDecls
<1>5. CASE ParseStatements
  BY <1>1, <1>5, ParseStmtsTyped, ParseStmtTyped, ParseAssignStmtTyped,
     ParseBeginStmtTyped, ParseStmtListTyped, StmtListLoopTyped, ParseIfStmtTyped,
     ParseWhileStmtTyped, ParseReadStmtTyped, ReadIdentTyped, ParseWriteStmtTyped,
     ParseSkipStmtTyped, ParseConditionTyped, WhichOneTyped
     DEF ParseStatements
<1>6. CASE ParseExpressions
  BY <1>1, <1>6, ParseExprTyped, ExprLoopTyped, ParseTermTyped, TermLoopTyped,
     BinExprTyped, ParseMultDivFactorTyped, ParseAddSubTermTyped, ParseFactorTyped,
     ParseOpExprTyped, ParseParenExprTyped, RelocateTyped, ParseIdentExprTyped,
     ParseNumberTyped, SignedValueTyped
     DEF ParseExpressions
<1>7. CASE BuildTrees
  BY <1>1, <1>7, AllocateTyped, StartListTyped, AddAstToEndTyped, DropLastTyped,
     MakeProgramTyped DEF BuildTrees
<1>8. CASE Eat
  BY <1>1, <1>8, EatTyped
<1>9. CASE Return \/ Stay \/ UNCHANGED vars
  <2>1. UNCHANGED <<heap, vals, todo>>
    BY <1>9 DEF Return, Stay, vars
  <2> QED
    BY <1>1, <2>1, QuietStep
<1> QED
  BY <1>2, <1>3, <1>4, <1>5, <1>6, <1>7, <1>8, <1>9 DEF Next, Step

LEMMA TreeInvariance == Spec => []TreeInv
<1>1. TreeInv /\ [Next]_vars => TreeInv'
  BY NextTyped
<1> QED
  BY <1>1, InitTyped, PTL DEF Spec

LEMMA TreeInvImpliesTypeOK == TreeInv => TypeOK
<1> SUFFICES ASSUME TreeInv PROVE TypeOK
  OBVIOUS
<1>1. ControlOK /\ HeapOK(heap) /\ vals \in Seq(Nat)
  BY DEF TreeInv
<1>2. heap \in Seq(Nodes) /\ Len(heap) \in Nat
  BY <1>1, HeapOKNodes
<1>3. PICK s \in Stacks : StackOK(heap, vals, s)
  BY DEF TreeInv, Typed
<1>4. \A i \in 1 .. Len(vals) : vals[i] \in 0 .. Len(heap)
  BY <1>2, <1>3 DEF StackOK, Fits, NULL
<1>5. vals \in Seq(0 .. Len(heap))
  BY <1>1, <1>4
<1> QED
  BY <1>1, <1>2, <1>5 DEF TypeOK

\* Every pointer the functions of parser.c hold is NULL or a node, at every
\* point of every parse, and the heap holds nothing but nodes.
THEOREM TypeCorrect == Spec => []TypeOK
BY TreeInvImpliesTypeOK, TreeInvariance, PTL

\* The pointers of the nodes never lead back to where they started: at every
\* point of every parse, each walk along kids and next fields ends.
LEMMA TreeInvImpliesAcyclic == TreeInv => Acyclic(heap)
<1> SUFFICES ASSUME TreeInv PROVE Acyclic(heap)
  OBVIOUS
<1>1. PICK s \in Stacks : Owned(heap, vals, s)
  BY DEF TreeInv, Typed
<1>2. PICK b, c, g : Forest(heap, b, c, g)
  BY <1>1 DEF Owned, Grove
<1> QED
  BY <1>2 DEF Forest, Acyclic

THEOREM TreesHaveNoCycles == Spec => []Acyclic(heap)
BY TreeInvImpliesAcyclic, TreeInvariance, PTL

\* The program is returned when nothing is left to do.
Ending == outcome.kind = "parsed" => todo = <<>>

LEMMA NextEnding == ASSUME Ending, [Next]_vars PROVE Ending'
<1>0. Running.kind # "parsed"
  BY DEF Running
<1>2. CASE ParserOpen
  BY <1>0, <1>2 DEF ParserOpen, bail_with_error, lexer_next, Ending
<1>3. CASE ParseyParse \/ ParseBlock
  BY <1>0, <1>3 DEF ParseyParse, ParseBlock, At, Do, Ending
<1>4. CASE ParseDecls
  BY <1>0, <1>4 DEF ParseDecls, ParseConstDecls, ConstDeclsLoop, ParseConstDecl,
     ConstDeclLoop, ParseConstIdent, ConstNumber, ParseVarDecls, VarDeclsLoop,
     ParseVarDecl, VarDeclLoop, ParseVarIdent, At, Do, DoWithList, EndList, Ending
<1>5. CASE ParseStatements
  <2>1. CASE ParseStmts \/ ParseAssignStmt \/ ParseBeginStmt \/ ParseStmtList \/ ParseIfStmt
             \/ ParseWhileStmt \/ ParseReadStmt \/ ReadIdent \/ ParseWriteStmt \/ ParseSkipStmt
    BY <1>0, <2>1 DEF ParseStmts, ParseAssignStmt, ParseBeginStmt, ParseStmtList, ParseIfStmt,
       ParseWhileStmt, ParseReadStmt, ReadIdent, ParseWriteStmt, ParseSkipStmt,
       At, Do, DoWithList, Ending
  <2>2. CASE ParseStmt
    BY <1>0, <2>2 DEF ParseStmt, At, Do, parse_error_unexpected, Ending
  <2>3. CASE StmtListLoop
    BY <1>0, <2>3 DEF StmtListLoop, At, Do, EndList, Ending
  <2>4. CASE ParseCondition
    BY <1>0, <2>4 DEF ParseCondition, At, Do, Ending
  <2>5. CASE WhichOne
    <3>1. outcome = Running /\ outcome' = outcome
      BY <2>5 DEF WhichOne, At, Do
    <3> QED
      BY <1>0, <3>1 DEF Ending
  <2> QED
    BY <1>5, <2>1, <2>2, <2>3, <2>4, <2>5 DEF ParseStatements
<1>6. CASE ParseExpressions
  BY <1>0, <1>6 DEF ParseExpressions, ParseExpr, ExprLoop, ParseTerm, TermLoop, BinExpr,
     ParseMultDivFactor, ParseAddSubTerm, ParseFactor, ParseOpExpr, ParseParenExpr,
     RelocateParenExpr, ParseIdentExpr, ParseNumber, SignedValue,
     At, Do, Build, bail_with_error, parse_error_unexpected, Ending
<1>7. CASE BuildTrees
  BY <1>0, <1>7 DEF BuildTrees, Allocate, StartList, AddAstToEnd, DropLast, EndList,
     MakeProgram, At, Build, bail_with_error, Ending
<1>8. CASE Eat
  BY <1>0, <1>8 DEF Eat, advance, lexer_next, parse_error_unexpected, Ending
<1>9. CASE Return \/ Stay \/ UNCHANGED vars
  BY <1>9 DEF Return, Stay, vars, Ending
<1> QED
  BY <1>2, <1>3, <1>4, <1>5, <1>6, <1>7, <1>8, <1>9 DEF Next, Step

LEMMA EndingInvariance == Spec => []Ending
<1>1. Init => Ending
  BY DEF Init, Ending
<1>2. Ending /\ [Next]_vars => Ending'
  BY NextEnding
<1> QED
  BY <1>1, <1>2, PTL DEF Spec

\* When nothing is left to do, the one pointer left is the program.
LEMMA AtTheEnd ==
  ASSUME TreeInv, todo = <<>>
  PROVE  /\ StackOK(heap, vals, Final) /\ Len(vals) = 1
         /\ Fits(heap, vals[1], Single(Programs))
         /\ Owned(heap, vals, Final)
<1>1. PICK s \in Stacks : /\ Flows(todo, s, Final) /\ StackOK(heap, vals, s)
                          /\ Owned(heap, vals, s)
  BY DEF TreeInv, Typed
<1>2. s = Final
  <2>1. Len(todo) = 0
    OBVIOUS
  <2> QED
    BY <1>1, <2>1 DEF Flows
<1>3. Len(Final) = 1 /\ Final[1] = Single(Programs)
  BY DEF Final, Push
<1> QED
  BY <1>1, <1>2, <1>3 DEF StackOK

LEMMA RootIsProgram ==
  ASSUME TreeInv, todo = <<>>
  PROVE  vals[1] \in 1 .. Len(heap) /\ heap[vals[1]].tag = "program_ast"
BY AtTheEnd DEF Fits, Single, Kind, Programs

\* Whatever the program, each pointer of its finished tree points to what
\* unparser.c and scope_check.c expect there, and its root is a program.
THEOREM TreesAreWellFormed == Spec => []NodesFitTheirSlots
<1>1. ASSUME TreeInv, Ending PROVE NodesFitTheirSlots
  <2> SUFFICES ASSUME Parsed PROVE heap[Root].tag = "program_ast" /\ WellFormed(heap)
    BY DEF NodesFitTheirSlots
  <2>1. todo = <<>>
    BY <1>1 DEF Ending, Parsed
  <2>2. Fits(heap, vals[1], Single(Programs))
    BY <1>1, <2>1, AtTheEnd
  <2>3. WellFormed(heap)
    BY <1>1 DEF TreeInv, HeapOK, TreeOK
  <2> QED
    BY <2>2, <2>3 DEF Fits, Single, Kind, Programs, Root
<1> QED
  BY <1>1, TreeInvariance, EndingInvariance, PTL

\* The pointers that TreeIsComplete counts are those that hold a node.
LEMMA RefsHold ==
  ASSUME NEW x, NEW p \in Kept, NEW k
  PROVE  <<p, k>> \in Refs(p) <=> Holds(heap, x, p, k, Target(<<p, k>>))
<1>1. p # 0 /\ p \in KeptIn(heap)
  BY DEF Kept, KeptIn
<1>2. k = 0 => Target(<<p, k>>) = heap[p].next
  BY DEF Target
<1>3. k # 0 => Target(<<p, k>>) = heap[p].kids[k]
  BY DEF Target
<1>4. k \in 1 .. Len(heap[p].kids) => k # 0
  OBVIOUS
<1>5. <<p, k>> \in Refs(p) <=> \/ k \in Pointers(p)
                               \/ k = 0 /\ heap[p].next # NULL
  BY DEF Refs
<1>6. k \in Pointers(p) <=> k \in 1 .. Len(heap[p].kids) /\ heap[p].kids[k] # NULL
  BY DEF Pointers
<1> QED
  BY <1>1, <1>2, <1>3, <1>4, <1>5, <1>6 DEF Holds

\* Whatever the program, its finished tree is one tree that holds each node
\* that was parsed once, and none of the pairs of ast_op_expr.
THEOREM TreesAreComplete == Spec => []TreeIsComplete
<1>1. ASSUME TreeInv, Ending, Parsed
      PROVE  LET refs == UNION {Refs(p) : p \in Kept}
             IN  /\ Len(vals) = 1
                 /\ heap[Root].tag = "program_ast"
                 /\ {Target(r) : r \in refs} = Kept \ {Root}
                 /\ Cardinality(refs) = Cardinality(Kept) - 1
  <2> DEFINE refs == UNION {Refs(p) : p \in Kept}
             rest == Kept \ {Root}
             x == Holdings(heap, vals, Final)
             f == [r \in refs |-> Target(r)]
  <2>1. /\ Len(vals) = 1 /\ Fits(heap, vals[1], Single(Programs))
        /\ StackOK(heap, vals, Final) /\ Owned(heap, vals, Final)
    <3>1. todo = <<>>
      BY <1>1 DEF Ending, Parsed
    <3> QED
      BY <1>1, <3>1, AtTheEnd
  <2>2. Root \in 1 .. Len(heap) /\ heap[Root].tag = "program_ast"
    BY <2>1, SingleFits DEF Root, Programs
  <2>3. Root \in Kept /\ Root # NULL
    BY <2>2 DEF Kept, NULL
  <2>4. Len(x) = 1 /\ x[1] = Root
    <3>1. Len(Final) = 1 /\ Final[1] = Single(Programs)
      BY DEF Final, Push
    <3>2. Programs # Pairs
      <4>1. "unset" \notin Programs
        BY DEF Programs
      <4> QED
        BY <4>1 DEF Pairs
    <3>3. 1 \in 1 .. Len(Final)
      BY <3>1
    <3>4. Held(heap, vals[1], Single(Programs)) = Root
      BY <3>2, HeldItself DEF Root
    <3> QED
      BY <3>1, <3>3, <3>4 DEF Holdings
  <2>5. Whole(heap, x) /\ KeptIn(heap) = Kept
    BY <2>1 DEF Owned, Kept, KeptIn
  <2> HIDE DEF x
  <2>6. \A q : Holds(heap, x, 0, 1, q) <=> q = Root
    <3>1. 0 \notin KeptIn(heap) /\ 1 \in 1 .. Len(x)
      BY <2>4 DEF KeptIn
    <3> QED
      BY <2>3, <2>4, <3>1 DEF Holds
  <2>7. ASSUME NEW p, NEW k, NEW q, Holds(heap, x, p, k, q), q # Root
        PROVE  p \in Kept /\ <<p, k>> \in refs /\ Target(<<p, k>>) = q
    <3>1. p # 0
      <4>1. p = 0 => k = 1
        <5>1. 0 \notin KeptIn(heap)
          BY DEF KeptIn
        <5> QED
          BY <2>4, <2>7, <5>1 DEF Holds
      <4> QED
        BY <2>6, <2>7, <4>1
    <3>2. p \in Kept
      BY <2>5, <2>7, <3>1 DEF Holds
    <3>3. Target(<<p, k>>) = q
      BY <2>7, <3>1 DEF Holds, Target
    <3>4. <<p, k>> \in Refs(p)
      BY <2>7, <3>2, <3>3, RefsHold
    <3> QED
      BY <3>2, <3>3, <3>4
  <2>8. ASSUME NEW r \in refs
        PROVE  /\ \E p, k : r = <<p, k>> /\ Holds(heap, x, p, k, Target(r))
               /\ Target(r) \in rest
    <3>1. PICK p \in Kept : r \in Refs(p)
      OBVIOUS
    <3>2. PICK k : r = <<p, k>>
      BY <3>1 DEF Refs
    <3>3. Holds(heap, x, p, k, Target(r))
      BY <3>1, <3>2, RefsHold
    <3>4. p # 0
      BY DEF Kept
    <3>5. Target(r) # Root
      BY <2>5, <2>6, <3>3, <3>4 DEF Whole
    <3>6. Target(r) \in Kept
      BY <2>5, <3>3 DEF Whole
    <3> QED
      BY <3>2, <3>3, <3>5, <3>6
  <2>9. ASSUME NEW q \in rest
        PROVE  \E r \in refs : Target(r) = q
    <3>1. PICK p, k : Holds(heap, x, p, k, q)
      BY <2>5 DEF Whole
    <3>2. <<p, k>> \in refs /\ Target(<<p, k>>) = q
      BY <2>7, <3>1
    <3> HIDE DEF refs
    <3> QED
      BY <3>2
  <2>10. ASSUME NEW r \in refs, NEW u \in refs, Target(r) = Target(u)
         PROVE  r = u
    <3>1. PICK p, k : r = <<p, k>> /\ Holds(heap, x, p, k, Target(r))
      BY <2>8
    <3>2. PICK m, l : u = <<m, l>> /\ Holds(heap, x, m, l, Target(u))
      BY <2>8
    <3>3. p = m /\ k = l
      BY <2>5, <2>10, <3>1, <3>2 DEF Whole
    <3> QED
      BY <3>1, <3>2, <3>3
  <2> HIDE DEF refs, rest
  <2>11. {Target(r) : r \in refs} = rest
    BY <2>8, <2>9
  <2>12. f \in Injection(refs, rest) /\ f \in Surjection(refs, rest)
    <3>1. f \in [refs -> rest]
      BY <2>8
    <3>2. \A r, u \in refs : f[r] = f[u] => r = u
      BY <2>10
    <3>3. \A q \in rest : \E r \in refs : f[r] = q
      BY <2>9
    <3> QED
      BY <3>1, <3>2, <3>3 DEF Injection, Surjection, IsInjective
  <2>13. IsFiniteSet(rest) /\ Cardinality(rest) = Cardinality(Kept) - 1
    <3>1. Len(heap) \in Nat
      BY <1>1, HeapOKNodes DEF TreeInv
    <3>2. IsFiniteSet(1 .. Len(heap))
      BY <3>1, FS_Interval
    <3>3. Kept \in SUBSET (1 .. Len(heap))
      BY DEF Kept
    <3>4. IsFiniteSet(Kept)
      BY <3>2, <3>3, FS_Subset
    <3> QED
      BY <2>3, <3>4, FS_RemoveElement DEF rest
  <2>14. Cardinality(refs) = Cardinality(rest)
    BY <2>12, <2>13, FS_Injection
  <2> QED
    BY <2>1, <2>2, <2>11, <2>13, <2>14 DEF refs, rest
<1>2. ASSUME TreeInv, Ending PROVE TreeIsComplete
  BY <1>1, <1>2 DEF TreeIsComplete
<1> QED
  BY <1>2, TreeInvariance, EndingInvariance, PTL

-----------------------------------------------------------------------------
(* Lists.                                                                  *)

\* At a call of add_AST_to_end last is the end of ret, and both are NULL or
\* neither is.
LEMMA LastEndsRet ==
  ASSUME TreeInv, At("add_AST_to_end")
  PROVE  /\ Val(3) = NULL <=> Val(2) = NULL
         /\ Val(2) # NULL => Val(2) \in 1 .. Len(heap) /\ heap[Val(2)].next = NULL
<1>1. todo # <<>> /\ Head(todo).do = "add_AST_to_end"
  BY DEF At
<1>2. PICK s \in Stacks : /\ Flows(todo, s, Final) /\ StackOK(heap, vals, s)
                          /\ Owned(heap, vals, s)
  BY DEF TreeInv, Typed
<1>3. PICK t \in Stacks : Effect(Head(todo), s, t)
  BY <1>1, <1>2, FlowsHead
<1>4. Extends(s, t)
  BY <1>1, <1>3, EffectOfOthers DEF Others
<1>5. PICK r \in Stacks, T \in ListClasses : \E a, b, l : Extended(s, t, r, T, a, b, l)
  BY <1>4, ExtendsAs
<1>6. PICK a, b, l : Extended(s, t, r, T, a, b, l)
  BY <1>5
<1> DEFINE n == Len(r)
<1>7. n = Len(r) /\ HeapOK(heap) /\ vals \in Seq(Nat)
  BY DEF TreeInv
<1> HIDE DEF n
<1>8. Ends(T, r, b, l, n)
  BY <1>2, <1>6, <1>7, ExtendedPointers
<1> QED
  BY <1>8 DEF Ends

\* Whatever the program, add_AST_to_end keeps to what ast_list_splice requires.
THEOREM SplicesAtTheEnd == Spec => []SplicesAreLegal
<1>1. ASSUME TreeInv PROVE SplicesAreLegal
  BY <1>1, LastEndsRet DEF SplicesAreLegal, ast_list_is_empty, ast_list_rest
<1> QED
  BY <1>1, TreeInvariance, PTL

\* What a list never loses.
Keeps(h, g) ==
  \A p \in 1 .. Len(h) : /\ g[p].tag = h[p].tag
                         /\ h[p].next # NULL => g[p].next = h[p].next

LEMMA BuildKeeps ==
  ASSUME HeapOK(heap), NEW node, NEW n, NEW kids, Build(node, n, kids)
  PROVE  Keeps(heap, heap')
<1>1. heap \in Seq(Nodes)
  BY HeapOKNodes
<1>2. CASE heap' = heap
  BY <1>2 DEF Keeps
<1>3. CASE heap' = Append(heap, [node EXCEPT !.kids = kids])
  <2> DEFINE x == [node EXCEPT !.kids = kids]
  <2>1. heap' = Append(heap, x)
    BY <1>3
  <2> HIDE DEF x
  <2>2. \A p \in 1 .. Len(heap) : Append(heap, x)[p] = heap[p]
    BY <1>1
  <2> QED
    BY <2>1, <2>2 DEF Keeps
<1> QED
  BY <1>2, <1>3 DEF Build, bail_with_error

LEMMA NextKeeps == ASSUME TreeInv, [Next]_vars PROVE Keeps(heap, heap')
<1>0. HeapOK(heap) /\ heap \in Seq(Nodes)
  BY HeapOKNodes DEF TreeInv
<1>1. heap' = heap => Keeps(heap, heap')
  BY DEF Keeps
<1>2. CASE ParserOpen \/ ParseyParse \/ ParseBlock
  BY <1>1, <1>2 DEF ParserOpen, bail_with_error, ParseyParse, ParseBlock, Do
<1>3. CASE ParseDecls
  BY <1>1, <1>3 DEF ParseDecls, ParseConstDecls, ConstDeclsLoop, ParseConstDecl,
     ConstDeclLoop, ParseConstIdent, ConstNumber, ParseVarDecls, VarDeclsLoop,
     ParseVarDecl, VarDeclLoop, ParseVarIdent, Do, DoWithList, EndList
<1>4. CASE ParseStatements
  <2>1. CASE ParseStmts \/ ParseAssignStmt \/ ParseBeginStmt \/ ParseStmtList \/ ParseIfStmt
             \/ ParseWhileStmt \/ ParseReadStmt \/ ReadIdent \/ ParseWriteStmt \/ ParseSkipStmt
    BY <1>1, <2>1 DEF ParseStmts, ParseAssignStmt, ParseBeginStmt, ParseStmtList, ParseIfStmt,
       ParseWhileStmt, ParseReadStmt, ReadIdent, ParseWriteStmt, ParseSkipStmt, Do, DoWithList
  <2>2. CASE ParseStmt \/ StmtListLoop \/ ParseCondition
    BY <1>1, <2>2 DEF ParseStmt, StmtListLoop, ParseCondition, Do, EndList, parse_error_unexpected
  <2>3. CASE WhichOne
    <3>1. heap' = heap
      BY <2>3 DEF WhichOne, Do
    <3> QED
      BY <1>1, <3>1
  <2> QED
    BY <1>4, <2>1, <2>2, <2>3 DEF ParseStatements
<1>5. CASE ParseExpressions
  <2>1. CASE BinExpr
    BY <1>0, <2>1, BuildKeeps DEF BinExpr
  <2>2. CASE RelocateParenExpr
    <3>1. heap' = [heap EXCEPT ![Val(1)].loc = Head(todo).tok.loc]
      BY <2>2 DEF RelocateParenExpr
    <3>2. \A p \in 1 .. Len(heap) : heap[p] \in Nodes
      BY <1>0
    <3>3. \A p \in 1 .. Len(heap) : heap'[p].tag = heap[p].tag /\ heap'[p].next = heap[p].next
      BY <1>0, <3>1, <3>2 DEF Nodes
    <3> QED
      BY <3>3 DEF Keeps
  <2>3. CASE ParseExpr \/ ExprLoop \/ ParseTerm \/ TermLoop \/ ParseMultDivFactor
             \/ ParseAddSubTerm \/ ParseFactor \/ ParseOpExpr \/ ParseParenExpr
             \/ ParseIdentExpr \/ ParseNumber \/ SignedValue
    BY <1>1, <2>3 DEF ParseExpr, ExprLoop, ParseTerm, TermLoop, ParseMultDivFactor,
       ParseAddSubTerm, ParseFactor, ParseOpExpr, ParseParenExpr, ParseIdentExpr,
       ParseNumber, SignedValue, Do, parse_error_unexpected
  <2> QED
    BY <1>5, <2>1, <2>2, <2>3 DEF ParseExpressions
<1>6. CASE BuildTrees
  <2>1. CASE Allocate
    BY <1>0, <2>1, BuildKeeps DEF Allocate
  <2>2. CASE MakeProgram
    <3>1. \/ heap' = heap
          \/ \E p : Build(ast_program([loc |-> heap[p].loc]), 3, Top(3))
      BY <2>2 DEF MakeProgram, bail_with_error
    <3> QED
      BY <1>0, <1>1, <3>1, BuildKeeps
  <2>3. CASE StartList \/ DropLast
    BY <1>1, <2>3 DEF StartList, DropLast, EndList
  <2>4. CASE AddAstToEnd
    <3>1. \/ heap' = heap
          \/ Val(3) # NULL /\ heap' = ast_list_splice(heap, Val(2), Val(1))
      BY <2>4 DEF AddAstToEnd, ast_list_is_empty
    <3>2. CASE Val(3) # NULL /\ heap' = ast_list_splice(heap, Val(2), Val(1))
      <4>1. Val(2) \in 1 .. Len(heap) /\ heap[Val(2)].next = NULL
        BY <2>4, <3>2, LastEndsRet DEF AddAstToEnd
      <4>2. heap' = [heap EXCEPT ![Val(2)].next = Val(1)]
        BY <3>2 DEF ast_list_splice
      <4>3. \A p \in 1 .. Len(heap) : heap[p] \in Nodes
        BY <1>0
      <4>4. \A p \in 1 .. Len(heap) : /\ heap'[p].tag = heap[p].tag
                                      /\ p # Val(2) => heap'[p].next = heap[p].next
        BY <1>0, <4>2, <4>3 DEF Nodes
      <4> QED
        BY <4>1, <4>4 DEF Keeps
    <3> QED
      BY <1>1, <3>1, <3>2
  <2> QED
    BY <1>6, <2>1, <2>2, <2>3, <2>4 DEF BuildTrees
<1>7. CASE Eat \/ Return \/ Stay \/ UNCHANGED vars
  BY <1>1, <1>7 DEF Eat, Return, Stay, vars, parse_error_unexpected
<1> QED
  BY <1>2, <1>3, <1>4, <1>5, <1>6, <1>7 DEF Next, Step

\* Whatever the program, no step of the parser drops the rest of a list or
\* makes a node another kind of node.
THEOREM ListsKeepTheirRests == Spec => ListsOnlyGrow
<1>1. TreeInv /\ [Next]_vars =>
        [\A p \in 1 .. Len(heap) :
           /\ heap'[p].tag = heap[p].tag
           /\ heap[p].next # NULL => heap'[p].next = heap[p].next]_vars
  BY NextKeeps DEF Keeps
<1> QED
  BY <1>1, TreeInvariance, PTL DEF Spec, ListsOnlyGrow

-----------------------------------------------------------------------------
(* The names in the tree are identifiers of the file.  The token that names*)
(* a node is saved before it is known to be an identifier; the node is     *)
(* built only after it has been eaten as one.  A constant is declared with *)
(* a number that has no sign.                                              *)

IdentTexts == {x.text : x \in {y \in Lexemes : y.typ = "identsym"}}

NameFits(node) ==
  /\ IF node.tag \in NamedTags THEN node.name \in IdentTexts ELSE node.name = NoText
  /\ node.tag = "const_decl_ast" => node.num \in Nat

\* The instructions whose node is allocated later.
Building == {"make", "constNumber"}

\* Such an instruction has a node with a legal name, or one named after the
\* token tok that the instruction first is about to eat as an identifier.
NamesWell(i, first, tok) ==
  i.do \in Building =>
    \/ NameFits(i.node)
    \/ /\ first.do = "identsym" /\ i.node.tag \in NamedTags
       /\ i.node.name = tok.text /\ i.node.num \in Nat

NamesInv ==
  /\ ControlOK
  /\ currToken.typ = "identsym" => currToken.text \in IdentTexts
  /\ currToken.value \in Nat
  /\ \A p \in 1 .. Len(heap) : NameFits(heap[p])
  /\ \A k \in 1 .. Len(todo) : NamesWell(todo[k], todo[1], currToken)
  /\ outcome.kind = "not_open" => todo[1].do # "identsym"

\* What is left after an instruction that settles the name of the next one.
LEMMA NamesTail ==
  ASSUME NamesInv, todo # <<>>, NEW tok,
         Head(todo).do = "identsym" => currToken.text \in IdentTexts
  PROVE  \A k \in 1 .. Len(Tail(todo)) : \A first : NamesWell(Tail(todo)[k], first, tok)
<1> SUFFICES ASSUME NEW k \in 1 .. Len(Tail(todo)), NEW first
             PROVE  NamesWell(Tail(todo)[k], first, tok)
  OBVIOUS
<1>1. /\ k + 1 \in 1 .. Len(todo) /\ Tail(todo)[k] = todo[k + 1]
      /\ todo[1] = Head(todo)
  BY DEF NamesInv, ControlOK
<1>2. NamesWell(todo[k + 1], todo[1], currToken)
  BY <1>1 DEF NamesInv
<1> QED
  BY <1>1, <1>2 DEF NamesWell, NameFits

\* A step that replaces the first instruction by a body.
LEMMA NamesStep ==
  ASSUME NamesInv, ControlOK', todo # <<>>, Head(todo).do # "identsym", outcome = Running,
         NEW S, NEW body \in Seq(S),
         \A k \in 1 .. Len(body) : NamesWell(body[k], body[1], currToken),
         todo' = body \o Tail(todo), UNCHANGED <<currToken, heap, outcome>>
  PROVE  NamesInv'
<1>1. /\ todo \in Seq(Instructions) /\ Tail(todo) \in Seq(Instructions)
      /\ Len(todo) \in Nat /\ Len(Tail(todo)) = Len(todo) - 1
      /\ todo[1] = Head(todo)
      /\ \A k \in 1 .. Len(todo) - 1 : Tail(todo)[k] = todo[k + 1]
  BY DEF NamesInv, ControlOK
<1>2. body \in Seq(S \cup Instructions) /\ Tail(todo) \in Seq(S \cup Instructions)
  BY <1>1
<1>3. /\ Len(body) \in Nat
      /\ Len(todo') = Len(body) + Len(Tail(todo))
      /\ \A k \in 1 .. Len(todo') :
           todo'[k] = IF k <= Len(body) THEN body[k] ELSE Tail(todo)[k - Len(body)]
  BY <1>2
<1>4. \A k \in 1 .. Len(Tail(todo)) : \A first :
        NamesWell(Tail(todo)[k], first, currToken)
  BY NamesTail
<1>5. ASSUME NEW k \in 1 .. Len(todo')
      PROVE  NamesWell(todo'[k], todo'[1], currToken)
  <2>1. CASE k <= Len(body)
    <3>1. k \in 1 .. Len(body) /\ 1 <= Len(body) /\ 1 \in 1 .. Len(todo')
      BY <1>3, <2>1
    <3>2. todo'[k] = body[k] /\ todo'[1] = body[1]
      BY <1>3, <2>1, <3>1
    <3> QED
      BY <3>1, <3>2
  <2>2. CASE ~(k <= Len(body))
    <3>1. k - Len(body) \in 1 .. Len(Tail(todo)) /\ todo'[k] = Tail(todo)[k - Len(body)]
      BY <1>1, <1>3, <2>2
    <3> QED
      BY <1>4, <3>1
  <2> QED
    BY <2>1, <2>2
<1>6. outcome.kind = "running"
  BY DEF Running
<1>7. \A node : NameFits(node)' <=> NameFits(node)
  BY DEF NameFits, IdentTexts
<1>8. \A k \in 1 .. Len(todo') : NamesWell(todo'[k], todo'[1], currToken')
  BY <1>5
<1>9. /\ currToken'.typ = "identsym" => currToken'.text \in IdentTexts
      /\ \A p \in 1 .. Len(heap') : NameFits(heap'[p])
      /\ outcome'.kind # "not_open"
  BY <1>6 DEF NamesInv
<1> QED
  BY <1>8, <1>9 DEF NamesInv

\* The same for the bodies of the C functions.
LEMMA Names0 ==
  ASSUME NamesInv, ControlOK', todo # <<>>, Head(todo).do # "identsym", outcome = Running,
         todo' = Tail(todo) \/ todo' = <<>> \o Tail(todo),
         UNCHANGED <<currToken, heap, outcome>>
  PROVE  NamesInv'
<1>1. Tail(todo) \in Seq(Instructions)
  BY DEF NamesInv, ControlOK
<1>2. <<>> \in Seq(Instructions) /\ todo' = <<>> \o Tail(todo) /\ 1 .. Len(<<>>) = {}
  BY <1>1
<1> QED
  BY <1>2, NamesStep

LEMMA Names1 ==
  ASSUME NamesInv, ControlOK', todo # <<>>, Head(todo).do # "identsym", outcome = Running,
         NEW a,
         \A i \in {a} : NamesWell(i, a, currToken),
         todo' = <<a>> \o Tail(todo), UNCHANGED <<currToken, heap, outcome>>
  PROVE  NamesInv'
<1>1. <<a>> \in Seq({a}) /\ <<a>>[1] = a
  OBVIOUS
<1>2. \A k \in 1 .. Len(<<a>>) : <<a>>[k] \in {a}
  OBVIOUS
<1> QED
  BY <1>1, <1>2, NamesStep

LEMMA Names2 ==
  ASSUME NamesInv, ControlOK', todo # <<>>, Head(todo).do # "identsym", outcome = Running,
         NEW a, NEW b,
         \A i \in {a, b} : NamesWell(i, a, currToken),
         todo' = <<a, b>> \o Tail(todo), UNCHANGED <<currToken, heap, outcome>>
  PROVE  NamesInv'
<1>1. <<a, b>> \in Seq({a, b}) /\ <<a, b>>[1] = a
  OBVIOUS
<1>2. \A k \in 1 .. Len(<<a, b>>) : <<a, b>>[k] \in {a, b}
  OBVIOUS
<1> QED
  BY <1>1, <1>2, NamesStep

LEMMA Names3 ==
  ASSUME NamesInv, ControlOK', todo # <<>>, Head(todo).do # "identsym", outcome = Running,
         NEW a, NEW b, NEW c,
         \A i \in {a, b, c} : NamesWell(i, a, currToken),
         todo' = <<a, b, c>> \o Tail(todo), UNCHANGED <<currToken, heap, outcome>>
  PROVE  NamesInv'
<1>1. <<a, b, c>> \in Seq({a, b, c}) /\ <<a, b, c>>[1] = a
  OBVIOUS
<1>2. \A k \in 1 .. Len(<<a, b, c>>) : <<a, b, c>>[k] \in {a, b, c}
  OBVIOUS
<1> QED
  BY <1>1, <1>2, NamesStep

LEMMA Names4 ==
  ASSUME NamesInv, ControlOK', todo # <<>>, Head(todo).do # "identsym", outcome = Running,
         NEW a, NEW b, NEW c, NEW d,
         \A i \in {a, b, c, d} : NamesWell(i, a, currToken),
         todo' = <<a, b, c, d>> \o Tail(todo), UNCHANGED <<currToken, heap, outcome>>
  PROVE  NamesInv'
<1>1. <<a, b, c, d>> \in Seq({a, b, c, d}) /\ <<a, b, c, d>>[1] = a
  OBVIOUS
<1>2. \A k \in 1 .. Len(<<a, b, c, d>>) : <<a, b, c, d>>[k] \in {a, b, c, d}
  OBVIOUS
<1> QED
  BY <1>1, <1>2, NamesStep

LEMMA Names5 ==
  ASSUME NamesInv, ControlOK', todo # <<>>, Head(todo).do # "identsym", outcome = Running,
         NEW a, NEW b, NEW c, NEW d, NEW e,
         \A i \in {a, b, c, d, e} : NamesWell(i, a, currToken),
         todo' = <<a, b, c, d, e>> \o Tail(todo), UNCHANGED <<currToken, heap, outcome>>
  PROVE  NamesInv'
<1>1. <<a, b, c, d, e>> \in Seq({a, b, c, d, e}) /\ <<a, b, c, d, e>>[1] = a
  OBVIOUS
<1>2. \A k \in 1 .. Len(<<a, b, c, d, e>>) : <<a, b, c, d, e>>[k] \in {a, b, c, d, e}
  OBVIOUS
<1> QED
  BY <1>1, <1>2, NamesStep

LEMMA Names7 ==
  ASSUME NamesInv, ControlOK', todo # <<>>, Head(todo).do # "identsym", outcome = Running,
         NEW a, NEW b, NEW c, NEW d, NEW e, NEW f, NEW g,
         \A i \in {a, b, c, d, e, f, g} : NamesWell(i, a, currToken),
         todo' = <<a, b, c, d, e, f, g>> \o Tail(todo), UNCHANGED <<currToken, heap, outcome>>
  PROVE  NamesInv'
<1>1. <<a, b, c, d, e, f, g>> \in Seq({a, b, c, d, e, f, g}) /\ <<a, b, c, d, e, f, g>>[1] = a
  OBVIOUS
<1>2. \A k \in 1 .. Len(<<a, b, c, d, e, f, g>>) : <<a, b, c, d, e, f, g>>[k] \in {a, b, c, d, e, f, g}
  OBVIOUS
<1> QED
  BY <1>1, <1>2, NamesStep

LEMMA Names8 ==
  ASSUME NamesInv, ControlOK', todo # <<>>, Head(todo).do # "identsym", outcome = Running,
         NEW a, NEW b, NEW c, NEW d, NEW e, NEW f, NEW g, NEW h,
         \A i \in {a, b, c, d, e, f, g, h} : NamesWell(i, a, currToken),
         todo' = <<a, b, c, d, e, f, g, h>> \o Tail(todo), UNCHANGED <<currToken, heap, outcome>>
  PROVE  NamesInv'
<1>1. <<a, b, c, d, e, f, g, h>> \in Seq({a, b, c, d, e, f, g, h}) /\ <<a, b, c, d, e, f, g, h>>[1] = a
  OBVIOUS
<1>2. \A k \in 1 .. Len(<<a, b, c, d, e, f, g, h>>) : <<a, b, c, d, e, f, g, h>>[k] \in {a, b, c, d, e, f, g, h}
  OBVIOUS
<1> QED
  BY <1>1, <1>2, NamesStep

LEMMA PlainNames ==
  ASSUME NEW first, NEW tok
  PROVE  /\ \A t \in TokenTypes : NamesWell(eat(t), first, tok)
         /\ \A f : f \notin Building => NamesWell(Call(f), first, tok)
         /\ \A f, t : f \notin Building => NamesWell(CallWith(f, t), first, tok)
         /\ \A node : NameFits(node) => NamesWell(Make(node), first, tok)
BY DEF NamesWell, eat, Call, CallWith, Make, Instr, Building, TokenTypes

\* The nodes that are named after no token.
LEMMA NamelessNodes ==
  ASSUME NEW t
  PROVE  /\ NameFits(ast_begin_stmt(t)) /\ NameFits(ast_if_stmt(t))
         /\ NameFits(ast_while_stmt(t)) /\ NameFits(ast_write_stmt(t))
         /\ NameFits(ast_skip_stmt(t)) /\ NameFits(ast_odd_cond(t))
         /\ \A op : NameFits(ast_bin_cond(t, op)) /\ NameFits(ast_op_expr(t, op))
         /\ \A n : NameFits(ast_number(t, n))
BY DEF NameFits, NamedTags, ListTags, ast_begin_stmt, ast_if_stmt, ast_while_stmt,
   ast_write_stmt, ast_skip_stmt, ast_odd_cond, ast_bin_cond, ast_op_expr, ast_number,
   ast_allocate

\* The nodes that are, after a token about to be eaten as an identifier.
LEMMA PromisedNames ==
  ASSUME NEW t
  PROVE  LET first == eat("identsym")
         IN  /\ NamesWell(Make(ast_var_decl(t, currToken.text)), first, currToken)
             /\ NamesWell(Make(ast_assign_stmt(t, currToken.text)), first, currToken)
             /\ NamesWell(Make(ast_read_stmt(t, currToken.text)), first, currToken)
             /\ NamesWell(Make(ast_ident(t, currToken.text)), first, currToken)
             /\ NamesWell(Finish("constNumber", ast_const_def(t, currToken.text, 0)),
                          first, currToken)
BY DEF NamesWell, Finish, Make, eat, Instr, NamedTags, ListTags, ast_var_decl,
   ast_assign_stmt, ast_read_stmt, ast_ident, ast_const_def, ast_allocate

\* An error ends the parser as it stands.
LEMMA NamesError ==
  ASSUME NamesInv, ControlOK',
         bail_with_error \/ \E expected : parse_error_unexpected(expected)
  PROVE  NamesInv'
BY DEF NamesInv, bail_with_error, parse_error_unexpected, NamesWell, NameFits, IdentTexts

\* The node of the current instruction, if that is not about to eat its name.
LEMMA HeadNames ==
  ASSUME NamesInv, todo # <<>>, Head(todo).do # "identsym"
  PROVE  /\ Head(todo).do \in Building => NameFits(Head(todo).node)
         /\ Head(todo).do \notin Building => \A first : NamesWell(Head(todo), first, currToken)
<1>1. todo[1] = Head(todo) /\ 1 \in 1 .. Len(todo)
  BY DEF NamesInv, ControlOK
<1>2. NamesWell(todo[1], todo[1], currToken)
  BY <1>1 DEF NamesInv
<1> QED
  BY <1>1, <1>2 DEF NamesWell

LEMMA ConstNumberNames ==
  ASSUME NamesInv, At("constNumber"), NEW n \in Nat
  PROVE  NameFits([Head(todo).node EXCEPT !.num = n])
<1>1. NameFits(Head(todo).node) /\ Head(todo).node \in Nodes
  BY HeadNames, HeadType DEF At, Building, NamesInv
<1> QED
  BY <1>1 DEF NameFits, Nodes

LEMMA NodeNames ==
  ASSUME NEW t
  PROVE  /\ NameFits(ast_program(t)) /\ {"tag", "name", "num"} \subseteq DOMAIN ast_program(t)
         /\ \A op : /\ NameFits(ast_bin_expr(t, op))
                    /\ {"tag", "name", "num"} \subseteq DOMAIN ast_bin_expr(t, op)
BY DEF NameFits, NamedTags, ListTags, ast_program, ast_bin_expr, ast_allocate

\* A step that changes neither the number of nodes nor their names.
LEMMA NamesTree ==
  ASSUME NamesInv, ControlOK', todo # <<>>, Head(todo).do # "identsym", outcome = Running,
         todo' = Tail(todo), UNCHANGED <<currToken, outcome>>, Len(heap') = Len(heap),
         \A p \in 1 .. Len(heap) : /\ heap'[p].tag = heap[p].tag
                                   /\ heap'[p].name = heap[p].name
                                   /\ heap'[p].num = heap[p].num
  PROVE  NamesInv'
<1>1. \A p \in 1 .. Len(heap') : NameFits(heap'[p])
  BY DEF NamesInv, NameFits
<1>2. \A k \in 1 .. Len(todo') : NamesWell(todo'[k], todo'[1], currToken')
  BY NamesTail
<1>3. \A node : NameFits(node)' <=> NameFits(node)
  BY DEF NameFits, IdentTexts
<1> QED
  BY <1>1, <1>2, <1>3 DEF NamesInv, Running

\* Allocating a node with a legal name.
LEMMA NamesBuild ==
  ASSUME NamesInv, HeapOK(heap), ControlOK', todo # <<>>, Head(todo).do # "identsym",
         outcome = Running, NEW node, NameFits(node), NEW n, NEW kids, Build(node, n, kids),
         {"tag", "name", "num"} \subseteq DOMAIN node
  PROVE  NamesInv'
<1>1. CASE bail_with_error
  BY <1>1, NamesError
<1>2. CASE ~bail_with_error
  <2> DEFINE made == [node EXCEPT !.kids = kids]
  <2>1. heap' = Append(heap, made) /\ todo' = Tail(todo) /\ UNCHANGED <<currToken, outcome>>
    BY <1>2 DEF Build
  <2>2. NameFits(made)
    BY DEF NameFits
  <2> HIDE DEF made
  <2>3. heap \in Seq(Nodes)
    BY HeapOKNodes
  <2>4. /\ Len(heap') = Len(heap) + 1 /\ heap'[Len(heap) + 1] = made
        /\ \A p \in 1 .. Len(heap) : heap'[p] = heap[p]
    BY <2>1, <2>3
  <2>5. \A p \in 1 .. Len(heap') : NameFits(heap'[p])
    BY <2>2, <2>3, <2>4 DEF NamesInv
  <2>6. \A k \in 1 .. Len(todo') : NamesWell(todo'[k], todo'[1], currToken')
    BY <2>1, NamesTail
  <2>7. \A x : NameFits(x)' <=> NameFits(x)
    BY DEF NameFits, IdentTexts
  <2> QED
    BY <2>1, <2>5, <2>6, <2>7 DEF NamesInv, Running
<1> QED
  BY <1>1, <1>2

\* Declarations.
LEMMA DeclNames == ASSUME NamesInv, ControlOK', ParseDecls PROVE NamesInv'
<1>1. CASE ParseConstDecls
  <2>1. \A i \in {CallWith("constDeclsLoop", currToken)} :
         NamesWell(i, CallWith("constDeclsLoop", currToken), currToken)
    BY PlainNames DEF Building
  <2> QED
    BY <1>1, <2>1, Names1 DEF ParseConstDecls, DoWithList, At
<1>2. CASE ConstDeclsLoop
  <2>1. CASE See("constsym")
    <3>1. \A i \in {eat("constsym"), CallWith("parseConstDecl", Head(todo).tok),
                    Call("add_AST_to_end"), eat("semisym"),
                    CallWith("constDeclsLoop", Head(todo).tok)} :
           NamesWell(i, eat("constsym"), currToken)
      BY PlainNames DEF Building, TokenTypes
    <3> QED
      BY <1>2, <2>1, <3>1, Names5 DEF ConstDeclsLoop, Do, At
  <2>2. CASE ~See("constsym")
    BY <1>2, <2>2, Names0 DEF ConstDeclsLoop, EndList, At
  <2> QED
    BY <2>1, <2>2
<1>3. CASE ParseConstDecl
  <2>1. \A i \in {CallWith("parseConstIdent", Head(todo).tok),
                  Call("startList"), Call("constDeclLoop")} :
         NamesWell(i, CallWith("parseConstIdent", Head(todo).tok), currToken)
    BY PlainNames DEF Building
  <2> QED
    BY <1>3, <2>1, Names3 DEF ParseConstDecl, Do, At
<1>4. CASE ConstDeclLoop
  <2>1. CASE See("commasym")
    <3>1. \A i \in {eat("commasym"), Call("nextConstIdent"),
                    Call("add_AST_to_end"), Call("constDeclLoop")} :
           NamesWell(i, eat("commasym"), currToken)
      BY PlainNames DEF Building, TokenTypes
    <3> QED
      BY <1>4, <2>1, <3>1, Names4 DEF ConstDeclLoop, Do, At
  <2>2. CASE ~See("commasym")
    BY <1>4, <2>2, Names0 DEF ConstDeclLoop, EndList, At
  <2> QED
    BY <2>1, <2>2
<1>5. CASE ParseConstIdent
  <2>1. ASSUME NEW t, Do(<<eat("identsym"), eat("eqsym"),
                           Finish("constNumber", ast_const_def(t, currToken.text, 0))>>),
               todo # <<>>, Head(todo).do # "identsym", outcome = Running
        PROVE  NamesInv'
    <3>1. \A i \in {eat("identsym"), eat("eqsym"),
                    Finish("constNumber", ast_const_def(t, currToken.text, 0))} :
             NamesWell(i, eat("identsym"), currToken)
      BY PlainNames, PromisedNames DEF TokenTypes
    <3> QED
      BY <2>1, <3>1, Names3 DEF Do
  <2> QED
    BY <1>5, <2>1 DEF ParseConstIdent, At
<1>6. CASE ConstNumber
  <2> DEFINE node == [Head(todo).node EXCEPT !.num = currToken.value]
  <2>1. NameFits(node)
    BY <1>6, ConstNumberNames DEF ConstNumber, NamesInv
  <2> HIDE DEF node
  <2>2. \A i \in {eat("numbersym"), Make(node)} : NamesWell(i, eat("numbersym"), currToken)
    BY <2>1, PlainNames DEF TokenTypes
  <2> QED
    BY <1>6, <2>2, Names2 DEF ConstNumber, Do, At, node
<1>7. CASE ParseVarDecls
  <2>1. \A i \in {Call("varDeclsLoop")} :
         NamesWell(i, Call("varDeclsLoop"), currToken)
    BY PlainNames DEF Building
  <2> QED
    BY <1>7, <2>1, Names1 DEF ParseVarDecls, DoWithList, At
<1>8. CASE VarDeclsLoop
  <2>1. CASE See("varsym")
    <3>1. \A i \in {eat("varsym"), Call("parseVarDecl"), Call("add_AST_to_end"),
                    eat("semisym"), Call("varDeclsLoop")} :
           NamesWell(i, eat("varsym"), currToken)
      BY PlainNames DEF Building, TokenTypes
    <3> QED
      BY <1>8, <2>1, <3>1, Names5 DEF VarDeclsLoop, Do, At
  <2>2. CASE ~See("varsym")
    BY <1>8, <2>2, Names0 DEF VarDeclsLoop, EndList, At
  <2> QED
    BY <2>1, <2>2
<1>9. CASE ParseVarDecl
  <2>1. \A i \in {Call("parseVarIdent"), Call("startList"), Call("varDeclLoop")} :
         NamesWell(i, Call("parseVarIdent"), currToken)
    BY PlainNames DEF Building
  <2> QED
    BY <1>9, <2>1, Names3 DEF ParseVarDecl, Do, At
<1>10. CASE VarDeclLoop
  <2>1. CASE See("commasym")
    <3>1. \A i \in {eat("commasym"), Call("parseVarIdent"),
                    Call("add_AST_to_end"), Call("varDeclLoop")} :
           NamesWell(i, eat("commasym"), currToken)
      BY PlainNames DEF Building, TokenTypes
    <3> QED
      BY <1>10, <2>1, <3>1, Names4 DEF VarDeclLoop, Do, At
  <2>2. CASE ~See("commasym")
    BY <1>10, <2>2, Names0 DEF VarDeclLoop, EndList, At
  <2> QED
    BY <2>1, <2>2
<1>11. CASE ParseVarIdent
  <2>1. \A i \in {eat("identsym"), Make(ast_var_decl(currToken, currToken.text))} :
         NamesWell(i, eat("identsym"), currToken)
    BY PlainNames, PromisedNames DEF Building, TokenTypes
  <2> QED
    BY <1>11, <2>1, Names2 DEF ParseVarIdent, Do, At
<1> QED
  BY <1>1, <1>2, <1>3, <1>4, <1>5, <1>6, <1>7, <1>8, <1>9, <1>10, <1>11 DEF ParseDecls

\* Statements and conditions.
LEMMA StmtNames == ASSUME NamesInv, ControlOK', ParseStatements PROVE NamesInv'
<1>1. CASE ParseStmts
  <2>1. \A i \in {Call("parseStmt")} :
         NamesWell(i, Call("parseStmt"), currToken)
    BY PlainNames DEF Building
  <2> QED
    BY <1>1, <2>1, Names1 DEF ParseStmts, Do, At
<1>2. CASE ParseStmt
  <2>1. CASE currToken.typ \in DOMAIN StmtParser
    <3> DEFINE f == StmtParser[currToken.typ]
    <3>1. f \notin Building
      BY <2>1 DEF StmtParser, Building
    <3>2. todo # <<>> /\ Head(todo).do # "identsym" /\ outcome = Running /\ Do(<<Call(f)>>)
      BY <1>2, <2>1 DEF ParseStmt, At
    <3> HIDE DEF f
    <3>3. \A i \in {Call(f)} : NamesWell(i, Call(f), currToken)
      BY <3>1, PlainNames
    <3> QED
      BY <3>2, <3>3, Names1 DEF Do
  <2>2. CASE currToken.typ \notin DOMAIN StmtParser
    BY <1>2, <2>2, NamesError DEF ParseStmt
  <2> QED
    BY <2>1, <2>2
<1>3. CASE ParseAssignStmt
  <2>1. \A i \in {eat("identsym"), eat("becomessym"), Call("parseExpr"),
                  Make(ast_assign_stmt(currToken, currToken.text))} :
         NamesWell(i, eat("identsym"), currToken)
    BY PlainNames, PromisedNames DEF Building, TokenTypes
  <2> QED
    BY <1>3, <2>1, Names4 DEF ParseAssignStmt, Do, At
<1>4. CASE ParseBeginStmt
  <2>1. \A i \in {eat("beginsym"), Call("parseStmt"), Call("startList"),
                  Call("parseStmtList"), Call("add_AST_to_end"),
                  Call("dropLast"), eat("endsym"),
                  Make(ast_begin_stmt(currToken))} :
         NamesWell(i, eat("beginsym"), currToken)
    BY PlainNames, NamelessNodes DEF Building, TokenTypes
  <2> QED
    BY <1>4, <2>1, Names8 DEF ParseBeginStmt, Do, At
<1>5. CASE ParseStmtList
  <2>1. \A i \in {Call("stmtListLoop")} :
         NamesWell(i, Call("stmtListLoop"), currToken)
    BY PlainNames DEF Building
  <2> QED
    BY <1>5, <2>1, Names1 DEF ParseStmtList, DoWithList, At
<1>6. CASE StmtListLoop
  <2>1. CASE See("semisym")
    <3>1. \A i \in {eat("semisym"), Call("parseStmt"), Call("add_AST_to_end"),
                    Call("stmtListLoop")} :
           NamesWell(i, eat("semisym"), currToken)
      BY PlainNames DEF Building, TokenTypes
    <3> QED
      BY <1>6, <2>1, <3>1, Names4 DEF StmtListLoop, Do, At
  <2>2. CASE ~See("semisym")
    BY <1>6, <2>2, Names0 DEF StmtListLoop, EndList, At
  <2> QED
    BY <2>1, <2>2
<1>7. CASE ParseIfStmt
  <2>1. \A i \in {eat("ifsym"), Call("parseCondition"), eat("thensym"),
                  Call("parseStmt"), eat("elsesym"), Call("parseStmt"),
                  Make(ast_if_stmt(currToken))} :
         NamesWell(i, eat("ifsym"), currToken)
    BY PlainNames, NamelessNodes DEF Building, TokenTypes
  <2> QED
    BY <1>7, <2>1, Names7 DEF ParseIfStmt, Do, At
<1>8. CASE ParseWhileStmt
  <2>1. \A i \in {eat("whilesym"), Call("parseCondition"), eat("dosym"),
                  Call("parseStmt"), Make(ast_while_stmt(currToken))} :
         NamesWell(i, eat("whilesym"), currToken)
    BY PlainNames, NamelessNodes DEF Building, TokenTypes
  <2> QED
    BY <1>8, <2>1, Names5 DEF ParseWhileStmt, Do, At
<1>9. CASE ParseReadStmt
  <2>1. \A i \in {eat("readsym"), CallWith("readIdent", currToken)} :
         NamesWell(i, eat("readsym"), currToken)
    BY PlainNames DEF Building, TokenTypes
  <2> QED
    BY <1>9, <2>1, Names2 DEF ParseReadStmt, Do, At
<1>10. CASE ReadIdent
  <2>1. \A i \in {eat("identsym"),
                  Make(ast_read_stmt(Head(todo).tok, currToken.text))} :
         NamesWell(i, eat("identsym"), currToken)
    BY PlainNames, PromisedNames DEF Building, TokenTypes
  <2> QED
    BY <1>10, <2>1, Names2 DEF ReadIdent, Do, At
<1>11. CASE ParseWriteStmt
  <2>1. \A i \in {eat("writesym"), Call("parseExpr"), Make(ast_write_stmt(currToken))} :
         NamesWell(i, eat("writesym"), currToken)
    BY PlainNames, NamelessNodes DEF Building, TokenTypes
  <2> QED
    BY <1>11, <2>1, Names3 DEF ParseWriteStmt, Do, At
<1>12. CASE ParseSkipStmt
  <2>1. \A i \in {eat("skipsym"), Make(ast_skip_stmt(currToken))} :
         NamesWell(i, eat("skipsym"), currToken)
    BY PlainNames, NamelessNodes DEF Building, TokenTypes
  <2> QED
    BY <1>12, <2>1, Names2 DEF ParseSkipStmt, Do, At
<1>13. CASE ParseCondition
  <2>1. CASE See("oddsym")
    <3>1. \A i \in {eat("oddsym"), Call("parseExpr"), Make(ast_odd_cond(currToken))} :
           NamesWell(i, eat("oddsym"), currToken)
      BY PlainNames, NamelessNodes DEF Building, TokenTypes
    <3> QED
      BY <1>13, <2>1, <3>1, Names3 DEF ParseCondition, Do, At
  <2>2. CASE ~See("oddsym")
    <3>1. \A i \in {Call("parseExpr"), CallWith("which_one", currToken)} :
           NamesWell(i, Call("parseExpr"), currToken)
      BY PlainNames DEF Building
    <3> QED
      BY <1>13, <2>2, <3>1, Names2 DEF ParseCondition, Do, At
  <2> QED
    BY <2>1, <2>2
<1>14. CASE WhichOne
  <2>1. CASE currToken.typ \in DOMAIN RelOpOf
    <3> DEFINE node == ast_bin_cond(Head(todo).tok, RelOpOf[currToken.typ])
    <3>1. NameFits(node)
      BY NamelessNodes
    <3>2. currToken.typ \in TokenTypes
      BY CurrTokenType DEF NamesInv
    <3> HIDE DEF node
    <3>3. \A i \in {eat(currToken.typ), Call("parseExpr"), Make(node)} :
            NamesWell(i, eat(currToken.typ), currToken)
      BY <3>1, <3>2, PlainNames DEF Building
    <3> QED
      BY <1>14, <2>1, <3>3, Names3 DEF WhichOne, Do, At, node
  <2>2. CASE currToken.typ \notin DOMAIN RelOpOf
    <3>1. PICK op : Do(<<Call("parseExpr"), Make(ast_bin_cond(Head(todo).tok, op))>>)
      BY <1>14, <2>2 DEF WhichOne
    <3> DEFINE node == ast_bin_cond(Head(todo).tok, op)
    <3>2. NameFits(node)
      BY NamelessNodes
    <3> HIDE DEF node
    <3>3. \A i \in {Call("parseExpr"), Make(node)} : NamesWell(i, Call("parseExpr"), currToken)
      BY <3>2, PlainNames DEF Building
    <3> QED
      BY <1>14, <3>1, <3>3, Names2 DEF WhichOne, Do, At, node
  <2> QED
    BY <2>1, <2>2
<1> QED
  BY <1>1, <1>2, <1>3, <1>4, <1>5, <1>6, <1>7, <1>8, <1>9, <1>10, <1>11, <1>12, <1>13, <1>14 DEF ParseStatements

\* Expressions.
LEMMA ExprNames == ASSUME NamesInv, HeapOK(heap), ControlOK', ParseExpressions PROVE NamesInv'
<1>1. CASE ParseExpr
  <2>1. \A i \in {Call("parseTerm"), CallWith("exprLoop", currToken)} :
         NamesWell(i, Call("parseTerm"), currToken)
    BY PlainNames DEF Building
  <2> QED
    BY <1>1, <2>1, Names2 DEF ParseExpr, Do, At
<1>2. CASE ExprLoop
  <2>1. todo # <<>> /\ Head(todo).do \notin Building \cup {"identsym"} /\ outcome = Running
    BY <1>2 DEF ExprLoop, At, Building
  <2>2. CASE currToken.typ \in SignSyms
    <3> DEFINE i == Head(todo)
    <3>1. \A first : NamesWell(i, first, currToken)
      BY <2>1, HeadNames
    <3> HIDE DEF i
    <3>2. \A j \in {Call("parseAddSubTerm"), CallWith("binExpr", Head(todo).tok), i} :
            NamesWell(j, Call("parseAddSubTerm"), currToken)
      BY <3>1, PlainNames DEF Building
    <3> QED
      BY <1>2, <2>1, <2>2, <3>2, Names3 DEF ExprLoop, Do, i
  <2>3. CASE ~(currToken.typ \in SignSyms)
    BY <1>2, <2>1, <2>3, Names0 DEF ExprLoop, Do
  <2> QED
    BY <2>2, <2>3
<1>3. CASE ParseTerm
  <2>1. \A i \in {Call("parseFactor"), CallWith("termLoop", currToken)} :
         NamesWell(i, Call("parseFactor"), currToken)
    BY PlainNames DEF Building
  <2> QED
    BY <1>3, <2>1, Names2 DEF ParseTerm, Do, At
<1>4. CASE TermLoop
  <2>1. todo # <<>> /\ Head(todo).do \notin Building \cup {"identsym"} /\ outcome = Running
    BY <1>4 DEF TermLoop, At, Building
  <2>2. CASE currToken.typ \in DOMAIN MultDivOp
    <3> DEFINE i == Head(todo)
    <3>1. \A first : NamesWell(i, first, currToken)
      BY <2>1, HeadNames
    <3> HIDE DEF i
    <3>2. \A j \in {Call("parseMultDivFactor"), CallWith("binExpr", Head(todo).tok), i} :
            NamesWell(j, Call("parseMultDivFactor"), currToken)
      BY <3>1, PlainNames DEF Building
    <3> QED
      BY <1>4, <2>1, <2>2, <3>2, Names3 DEF TermLoop, Do, i
  <2>3. CASE ~(currToken.typ \in DOMAIN MultDivOp)
    BY <1>4, <2>1, <2>3, Names0 DEF TermLoop, Do
  <2> QED
    BY <2>2, <2>3
<1>5. CASE BinExpr
  <2>1. todo # <<>> /\ Head(todo).do # "identsym" /\ outcome = Running
    BY <1>5 DEF BinExpr, At
  <2>2. PICK op, kids : Build(ast_bin_expr(Head(todo).tok, op), 2, kids)
    BY <1>5 DEF BinExpr
  <2> DEFINE node == ast_bin_expr(Head(todo).tok, op)
  <2>3. NameFits(node) /\ {"tag", "name", "num"} \subseteq DOMAIN node
    BY NodeNames
  <2>4. Build(node, 2, kids)
    BY <2>2
  <2> HIDE DEF node
  <2> QED
    BY <2>1, <2>3, <2>4, NamesBuild
<1>6. CASE ParseMultDivFactor
  <2>1. CASE currToken.typ \in DOMAIN MultDivOp
    <3> DEFINE node == ast_op_expr(currToken, MultDivOp[currToken.typ])
    <3>1. NameFits(node)
      BY NamelessNodes
    <3>2. currToken.typ \in TokenTypes
      BY CurrTokenType DEF NamesInv
    <3> HIDE DEF node
    <3>3. \A i \in {eat(currToken.typ), Call("parseFactor"), Make(node)} :
            NamesWell(i, eat(currToken.typ), currToken)
      BY <3>1, <3>2, PlainNames DEF Building
    <3> QED
      BY <1>6, <2>1, <3>3, Names3 DEF ParseMultDivFactor, Do, At, node
  <2>2. CASE currToken.typ \notin DOMAIN MultDivOp
    BY <1>6, <2>2, NamesError DEF ParseMultDivFactor
  <2> QED
    BY <2>1, <2>2
<1>7. CASE ParseAddSubTerm
  <2>1. CASE currToken.typ \in DOMAIN AddSubOp
    <3> DEFINE node == ast_op_expr(currToken, AddSubOp[currToken.typ])
    <3>1. NameFits(node)
      BY NamelessNodes
    <3>2. currToken.typ \in TokenTypes
      BY CurrTokenType DEF NamesInv
    <3> HIDE DEF node
    <3>3. \A i \in {eat(currToken.typ), Call("parseTerm"), Make(node)} :
            NamesWell(i, eat(currToken.typ), currToken)
      BY <3>1, <3>2, PlainNames DEF Building
    <3> QED
      BY <1>7, <2>1, <3>3, Names3 DEF ParseAddSubTerm, Do, At, node
  <2>2. CASE currToken.typ \notin DOMAIN AddSubOp
    BY <1>7, <2>2, NamesError DEF ParseAddSubTerm
  <2> QED
    BY <2>1, <2>2
<1>8. CASE ParseFactor
  <2>1. \A f \in {"parseIdentExpr", "parseParenExpr", "parseNumber"} :
          NamesWell(Call(f), Call(f), currToken)
    BY PlainNames DEF Building
  <2>2. \A t, first : NamesWell(CallWith("parseOpExpr", t), first, currToken)
    BY PlainNames DEF Building
  <2>3. todo # <<>> /\ Head(todo).do # "identsym" /\ outcome = Running
    BY <1>8 DEF ParseFactor, At
  <2>4. \/ \E f \in {"parseIdentExpr", "parseParenExpr", "parseNumber"} : Do(<<Call(f)>>)
        \/ Do(<<CallWith("parseOpExpr", currToken)>>)
        \/ parse_error_unexpected({"identsym", "lparensym", "numbersym"})
    BY <1>8 DEF ParseFactor
  <2>5. ASSUME NEW i, NamesWell(i, i, currToken), Do(<<i>>)
        PROVE  NamesInv'
    <3>1. \A j \in {i} : NamesWell(j, i, currToken)
      BY <2>5
    <3> QED
      BY <2>3, <2>5, <3>1, Names1 DEF Do
  <2> QED
    BY <2>1, <2>2, <2>4, <2>5, NamesError
<1>9. CASE ParseOpExpr
  <2>1. CASE Head(todo).tok.typ \in SignSyms
    <3>1. \A i \in {Call("parseNumber")} :
           NamesWell(i, Call("parseNumber"), currToken)
      BY PlainNames DEF Building
    <3> QED
      BY <1>9, <2>1, <3>1, Names1 DEF ParseOpExpr, Do, At
  <2>2. CASE Head(todo).tok.typ \notin SignSyms
    BY <1>9, <2>2, NamesError DEF ParseOpExpr
  <2> QED
    BY <2>1, <2>2
<1>10. CASE ParseParenExpr
  <2>1. \A i \in {eat("lparensym"), Call("parseExpr"), eat("rparensym"),
                  CallWith("relocate", currToken)} :
         NamesWell(i, eat("lparensym"), currToken)
    BY PlainNames DEF Building, TokenTypes
  <2> QED
    BY <1>10, <2>1, Names4 DEF ParseParenExpr, Do, At
<1>11. CASE RelocateParenExpr
  <2>1. heap \in Seq(Nodes)
    BY HeapOKNodes
  <2>2. Len(heap') = Len(heap)
    BY <1>11, <2>1 DEF RelocateParenExpr
  <2>3. \A p \in 1 .. Len(heap) : /\ heap'[p].tag = heap[p].tag
                                  /\ heap'[p].name = heap[p].name
                                  /\ heap'[p].num = heap[p].num
    BY <1>11, <2>1 DEF RelocateParenExpr, Nodes
  <2> QED
    BY <1>11, <2>2, <2>3, NamesTree DEF RelocateParenExpr, At
<1>12. CASE ParseIdentExpr
  <2>1. \A i \in {eat("identsym"), Make(ast_ident(currToken, currToken.text))} :
         NamesWell(i, eat("identsym"), currToken)
    BY PlainNames, PromisedNames DEF Building, TokenTypes
  <2> QED
    BY <1>12, <2>1, Names2 DEF ParseIdentExpr, Do, At
<1>13. CASE ParseNumber
  <2>1. todo # <<>> /\ Head(todo).do # "identsym" /\ outcome = Running
    BY <1>13 DEF ParseNumber, At
  <2>2. CASE currToken.typ \in SignSyms
    <3>1. \A i \in {eat(currToken.typ), CallWith("signedValue", currToken)} :
            NamesWell(i, eat(currToken.typ), currToken)
      BY <2>2, PlainNames DEF Building, SignSyms, TokenTypes
    <3>2. Do(<<eat(currToken.typ), CallWith("signedValue", currToken)>>)
      BY <1>13, <2>2 DEF ParseNumber, See, SignSyms
    <3> QED
      BY <2>1, <3>1, <3>2, Names2 DEF Do
  <2>3. CASE currToken.typ \notin SignSyms /\ See("numbersym")
    <3>1. \A i \in {eat("numbersym"), Make(ast_number(currToken, currToken.value))} :
            NamesWell(i, eat("numbersym"), currToken)
      BY PlainNames, NamelessNodes DEF TokenTypes
    <3>2. Do(<<eat("numbersym"), Make(ast_number(currToken, currToken.value))>>)
      BY <1>13, <2>3 DEF ParseNumber
    <3> QED
      BY <2>1, <3>1, <3>2, Names2 DEF Do
  <2>4. CASE currToken.typ \notin SignSyms /\ ~See("numbersym")
    BY <1>13, <2>4, NamesError DEF ParseNumber
  <2> QED
    BY <2>2, <2>3, <2>4
<1>14. CASE SignedValue
  <2>1. PICK v : Do(<<eat("numbersym"), Make(ast_number(Head(todo).tok, v))>>)
    BY <1>14 DEF SignedValue
  <2>2. \A i \in {eat("numbersym"), Make(ast_number(Head(todo).tok, v))} :
          NamesWell(i, eat("numbersym"), currToken)
    BY PlainNames, NamelessNodes DEF TokenTypes
  <2> QED
    BY <1>14, <2>1, <2>2, Names2 DEF SignedValue, Do, At
<1> QED
  BY <1>1, <1>2, <1>3, <1>4, <1>5, <1>6, <1>7, <1>8, <1>9, <1>10, <1>11, <1>12, <1>13, <1>14 DEF ParseExpressions

\* The construction of trees.
LEMMA TreeNames == ASSUME NamesInv, HeapOK(heap), ControlOK', BuildTrees PROVE NamesInv'
<1>1. heap \in Seq(Nodes)
  BY HeapOKNodes
<1>2. CASE Allocate
  <2> DEFINE node == Head(todo).node
  <2>1. todo # <<>> /\ Head(todo).do # "identsym" /\ outcome = Running
    BY <1>2 DEF Allocate, At
  <2>2. NameFits(node)
    BY <1>2, HeadNames DEF Allocate, At, Building
  <2>3. {"tag", "name", "num"} \subseteq DOMAIN node
    BY <1>2, HeadType DEF Allocate, At, NamesInv, Nodes
  <2>4. PICK n, kids : Build(node, n, kids)
    BY <1>2 DEF Allocate
  <2> HIDE DEF node
  <2> QED
    BY <2>1, <2>2, <2>3, <2>4, NamesBuild
<1>3. CASE StartList
  BY <1>3, Names0 DEF StartList, At
<1>4. CASE AddAstToEnd
  <2>1. /\ todo # <<>> /\ Head(todo).do # "identsym" /\ outcome = Running
        /\ todo' = Tail(todo) /\ UNCHANGED <<currToken, outcome>>
    BY <1>4 DEF AddAstToEnd, At
  <2>2. heap' = heap \/ \E p, q : heap' = ast_list_splice(heap, p, q)
    BY <1>4 DEF AddAstToEnd
  <2> DEFINE Same == /\ Len(heap') = Len(heap)
                     /\ \A p \in 1 .. Len(heap) : /\ heap'[p].tag = heap[p].tag
                                                  /\ heap'[p].name = heap[p].name
                                                  /\ heap'[p].num = heap[p].num
  <2>3. Same
    <3>1. CASE heap' = heap
      BY <3>1
    <3>2. ASSUME NEW p, NEW q, heap' = ast_list_splice(heap, p, q)
          PROVE  Same
      BY <1>1, <3>2 DEF ast_list_splice, Nodes
    <3> QED
      BY <2>2, <3>1, <3>2
  <2> QED
    BY <2>1, <2>3, NamesTree
<1>5. CASE DropLast
  BY <1>5, Names0 DEF DropLast, EndList, At
<1>6. CASE MakeProgram
  <2>1. todo # <<>> /\ Head(todo).do # "identsym" /\ outcome = Running
    BY <1>6 DEF MakeProgram, At
  <2>2. bail_with_error \/ \E t, kids : Build(ast_program(t), 3, kids)
    BY <1>6 DEF MakeProgram
  <2>3. ASSUME NEW t, NEW kids, Build(ast_program(t), 3, kids)
        PROVE  NamesInv'
    <3> DEFINE node == ast_program(t)
    <3>1. NameFits(node) /\ {"tag", "name", "num"} \subseteq DOMAIN node
      BY NodeNames
    <3>2. Build(node, 3, kids)
      BY <2>3
    <3> HIDE DEF node
    <3> QED
      BY <2>1, <3>1, <3>2, NamesBuild
  <2> QED
    BY <2>2, <2>3, NamesError
<1> QED
  BY <1>2, <1>3, <1>4, <1>5, <1>6 DEF BuildTrees

\* Programs and blocks.
LEMMA BlockNames == ASSUME NamesInv, ControlOK', ParseyParse \/ ParseBlock PROVE NamesInv'
<1>1. CASE ParseyParse
  <2>1. \A i \in {Call("parseBlock"), eat("periodsym")} :
          NamesWell(i, Call("parseBlock"), currToken)
    BY PlainNames DEF Building, TokenTypes
  <2> QED
    BY <1>1, <2>1, Names2 DEF ParseyParse, Do, At
<1>2. CASE ParseBlock
  <2>1. \A i \in {Call("parseConstDecls"), Call("parseVarDecls"), Call("parseStmts"),
                  Call("makeProgram")} :
          NamesWell(i, Call("parseConstDecls"), currToken)
    BY PlainNames DEF Building
  <2> QED
    BY <1>2, <2>1, Names4 DEF ParseBlock, Do, At
<1> QED
  BY <1>1, <1>2

\* Reading a token.
LEMMA TokenNames ==
  ASSUME NEW n, lexer_next(n) \/ UNCHANGED <<currToken, outcome>>,
         currToken.typ = "identsym" => currToken.text \in IdentTexts,
         currToken.value \in Nat
  PROVE  /\ currToken'.typ = "identsym" => currToken'.text \in IdentTexts
         /\ currToken'.value \in Nat
<1>1. CASE \E x \in Lexemes : currToken' = Token(x, n)
  BY <1>1, LexemesAssumption DEF Token, IdentTexts
<1>2. CASE currToken' = EofToken(n)
  BY <1>2 DEF EofToken
<1>3. CASE currToken' = currToken
  BY <1>3
<1> QED
  BY <1>1, <1>2, <1>3 DEF lexer_next

LEMMA EatNames == ASSUME NamesInv, ControlOK', Eat PROVE NamesInv'
<1>1. CASE ~See(Head(todo).do)
  BY <1>1, NamesError DEF Eat
<1>2. CASE See(Head(todo).do)
  <2>1. /\ todo # <<>> /\ todo' = Tail(todo) /\ heap' = heap /\ advance
        /\ Head(todo).do = "identsym" => currToken.typ = "identsym"
        /\ outcome = Running
    BY <1>2 DEF Eat, See
  <2>2. Head(todo).do = "identsym" => currToken.text \in IdentTexts
    BY <2>1 DEF NamesInv
  <2>3. /\ currToken'.typ = "identsym" => currToken'.text \in IdentTexts
        /\ currToken'.value \in Nat
    BY <2>1, TokenNames DEF NamesInv, advance
  <2>4. \A k \in 1 .. Len(todo') : NamesWell(todo'[k], todo'[1], currToken')
    BY <2>1, <2>2, NamesTail
  <2>5. \A x : NameFits(x)' <=> NameFits(x)
    BY DEF NameFits, IdentTexts
  <2>6. outcome'.kind # "not_open"
    BY <2>1 DEF advance, lexer_next, Running
  <2> QED
    BY <2>1, <2>3, <2>4, <2>5, <2>6 DEF NamesInv, IdentTexts
<1> QED
  BY <1>1, <1>2

LEMMA OpenNames == ASSUME NamesInv, ControlOK', ParserOpen PROVE NamesInv'
<1>1. CASE bail_with_error
  BY <1>1, NamesError
<1>2. CASE lexer_next(1) /\ UNCHANGED <<eaten, heap, todo, vals>>
  <2>1. /\ currToken'.typ = "identsym" => currToken'.text \in IdentTexts
        /\ currToken'.value \in Nat
    BY <1>2, TokenNames DEF NamesInv
  <2>2. todo[1].do # "identsym"
    BY DEF NamesInv, ParserOpen
  <2>3. \A k \in 1 .. Len(todo) : NamesWell(todo[k], todo[1], currToken')
    BY <2>2 DEF NamesInv, NamesWell
  <2>4. \A x : NameFits(x)' <=> NameFits(x)
    BY DEF NameFits, IdentTexts
  <2> QED
    BY <1>2, <2>1, <2>2, <2>3, <2>4 DEF NamesInv, IdentTexts, NamesWell
<1> QED
  BY <1>1, <1>2 DEF ParserOpen

LEMMA InitNames == Init => NamesInv
<1> SUFFICES ASSUME Init PROVE NamesInv
  OBVIOUS
<1>1. ControlOK
  BY InitTyped DEF TreeInv
<1>2. currToken.typ # "identsym" /\ currToken.value \in Nat
  BY DEF Init, ZeroToken
<1>3. 1 .. Len(heap) = {}
  BY DEF Init
<1>4. todo[1] = Call("parseyParse") /\ \A k \in 1 .. Len(todo) : todo[k] = todo[1]
  BY DEF Init
<1>5. todo[1].do \notin Building \cup {"identsym"}
  BY <1>4 DEF Call, Instr, Building
<1> QED
  BY <1>1, <1>2, <1>3, <1>4, <1>5 DEF NamesInv, NamesWell

LEMMA NextNames == ASSUME TreeInv, NamesInv, [Next]_vars PROVE NamesInv'
<1>1. ControlOK' /\ HeapOK(heap)
  BY NextTyped DEF TreeInv
<1>2. CASE UNCHANGED vars
  BY <1>2 DEF NamesInv, vars, ControlOK, NamesWell, NameFits, IdentTexts
<1>3. CASE Return
  BY <1>1, <1>3 DEF NamesInv, Return, NamesWell, NameFits, IdentTexts
<1>4. CASE ParserOpen
  BY <1>1, <1>4, OpenNames
<1>5. CASE ParseyParse \/ ParseBlock
  BY <1>1, <1>5, BlockNames
<1>6. CASE ParseDecls
  BY <1>1, <1>6, DeclNames
<1>7. CASE ParseStatements
  BY <1>1, <1>7, StmtNames
<1>8. CASE ParseExpressions
  BY <1>1, <1>8, ExprNames
<1>9. CASE BuildTrees
  BY <1>1, <1>9, TreeNames
<1>10. CASE Eat
  BY <1>1, <1>10, EatNames
<1> QED
  BY <1>2, <1>3, <1>4, <1>5, <1>6, <1>7, <1>8, <1>9, <1>10 DEF Next, Step, Stay

\* A node is named after an identifier of the file, or has no name at all, and
\* the number of a constant has no sign.
THEOREM NamesAreIdentifiers == Spec => [](\A p \in 1 .. Len(heap) : NameFits(heap[p]))
<1>1. NamesInv => \A p \in 1 .. Len(heap) : NameFits(heap[p])
  BY DEF NamesInv
<1> QED
  BY <1>1, InitNames, InitTyped, NextTyped, NextNames, TreeInvariance, PTL DEF Spec
=============================================================================
