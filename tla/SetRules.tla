------------------------------ MODULE SetRules ------------------------------
(***************************************************************************)
(* The rules of the game as the web client applies them (isValidSet and    *)
(* hasValidSets of frontend/src/lib/game.ts); is_set and find_sets of      *)
(* app/game.py are the same for the server.                                *)
(***************************************************************************)
EXTENDS Integers, FiniteSets, Sequences

Features == 1 .. 4     \* shape, color, shading, number

\* The fourth feature of a card is counted from 1, the others from 0.
Values(i) == IF i = 4 THEN 1 .. 3 ELSE 0 .. 2
Card == {c \in [Features -> 0 .. 3] : \A i \in Features : c[i] \in Values(i)}

\* No feature has exactly two values.
IsValidSet(a, b, c) ==
  \A i \in Features : Cardinality({a[i], b[i], c[i]}) # 2

\* Some three cards of a board, at indices that are not cleared, make a set.
HasValidSets(board, cleared) ==
  \E i, j, k \in DOMAIN board \ cleared :
    i < j /\ j < k /\ IsValidSet(board[i], board[j], board[k])

\* The sets among some cards: those that HasValidSets looks for.
SetsAmong(cards) ==
  {{q[1], q[2], q[3]} : q \in
     {q \in cards \X cards \X cards :
        /\ Cardinality({q[1], q[2], q[3]}) = 3
        /\ IsValidSet(q[1], q[2], q[3])}}

\* The value of a feature that makes a set with two others.
ThirdValue(x, y, i) ==
  CHOOSE z \in Values(i) : Cardinality({x, y, z}) # 2

Third(a, b) == [i \in Features |-> ThirdValue(a[i], b[i], i)]
=============================================================================
