---------------------------- MODULE MCScopeCheck ----------------------------
(***************************************************************************)
(* Small programs for the declaration checker: up to MaxDecls declarations *)
(* of the names, followed by one of a few statements over them.            *)
(***************************************************************************)
EXTENDS ScopeCheckProps, SmallTrees

CONSTANTS MaxDecls, UsedNames

LowerNames == {"x", "y", "z"}

\* begin u := 1 + v; if odd u then read v else read w end
Branches(u, v, w) ==
  Begin(<<Assign(u, Bin("addop", Num(1), Id(v))), If(Odd(Id(u)), ReadS(v), ReadS(w))>>)

\* while u < 1 do begin begin write v; skip end; read w end
Loops(u, v, w) ==
  While(Rel("ltop", Id(u), Num(1)), Begin(<<Begin(<<WriteS(Id(v)), Skip>>), ReadS(w)>>))

Statements ==
  {Skip, Begin(<<Skip, Begin(<<Skip>>)>>)} \cup
  UNION {{Branches(u, v, w), Loops(u, v, w)} :
           u \in UsedNames, v \in UsedNames, w \in UsedNames}

NameLists == UNION {[1 .. n -> LowerNames] : n \in 0 .. MaxDecls}

SmallPrograms ==
  UNION {{ProgramOf(d[1], d[2], stmt) : stmt \in Statements} :
           d \in {c \in NameLists \X NameLists : Len(c[1]) + Len(c[2]) <= MaxDecls}}
=============================================================================
