----------------------------- MODULE MCUnparser -----------------------------
(***************************************************************************)
(* Small programs for the unparser: every kind of statement and condition  *)
(* in every position of the others, and every operator.                    *)
(***************************************************************************)
EXTENDS UnparserProps, SmallTrees

CONSTANT Depth     \* how deep statements are nested

SmallExprs == {Num(-1), Bin("addop", Id("x"), Bin("multop", Num(-1), Num(2)))}
                \cup {Bin(op, Num(2), Id("x")) : op \in ArithOps}

SmallConds == {Odd(Num(1))} \cup {Rel(op, Num(-1), Id("x")) : op \in RelOps \cup {GarbageOp}}

\* Statements that hold no other.
Flat == {Skip, ReadS("x"), WriteS(Id("x"))}

\* Statements of the statements in S.
Nested(S) ==
  {Begin(<<s>>) : s \in S} \cup {Begin(<<s, u>>) : s \in S, u \in S}
    \cup {If(Odd(Num(1)), s, u) : s \in S, u \in S}
    \cup {While(Rel("ltop", Id("x"), Num(1)), s) : s \in S}

NestedTo ==
  LET nested[d \in 0 .. Depth] ==
        IF d = 0 THEN {Skip} ELSE nested[d - 1] \cup Nested(nested[d - 1])
  IN  nested[Depth]

SmallStmts == NestedTo \cup Flat \cup Nested(Flat)
                \cup {Assign("x", e) : e \in SmallExprs}
                \cup {While(c, Skip) : c \in SmallConds}

SmallPrograms ==
  {ProgramOf(<<>>, <<>>, s) : s \in SmallStmts}
    \cup {ProgramOf(c, v, Skip) : c \in {<<"x">>, <<"x", "y">>}, v \in {<<>>, <<"x">>, <<"x", "y">>}}
=============================================================================
