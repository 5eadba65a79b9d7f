----------------------------- MODULE Derivation -----------------------------
(***************************************************************************)
(* What a parser for a grammar promises, as a machine that writes a        *)
(* leftmost derivation.                                                    *)
(*                                                                         *)
(* The sentential form is word \o form: word holds the terminals that are  *)
(* settled, and form what is still to be derived.  A step either settles   *)
(* the terminal at the head of form or rewrites the nonterminal there.     *)
(* word is derivable exactly when the machine can reach form = <<>>.       *)
(***************************************************************************)
EXTENDS Tokens, Sequences

CONSTANT
  Rules          \* the productions: pairs <<nonterminal, right-hand side>>

VARIABLES
  form,          \* the symbols still to be derived, leftmost first
  word           \* the terminals settled so far

vars == <<form, word>>

Init == /\ form = <<"program">>
        /\ word = <<>>

\* Settle the terminal at the head of the form.
Match == /\ form # <<>>
         /\ Head(form) \in TokenTypes
         /\ form' = Tail(form)
         /\ word' = Append(word, Head(form))

\* Rewrite the nonterminal at the head of the form.
Expand == /\ form # <<>>
          /\ \E rule \in Rules : /\ rule[1] = Head(form)
                                 /\ form' = rule[2] \o Tail(form)
          /\ UNCHANGED word

Next == Match \/ Expand

Spec == Init /\ [][Next]_vars
=============================================================================
