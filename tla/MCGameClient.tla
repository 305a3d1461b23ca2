---------------------------- MODULE MCGameClient ----------------------------
(***************************************************************************)
(* A small instance of GameClient: a board with two disjoint sets, and     *)
(* three cards that are left in the end.                                   *)
(***************************************************************************)
EXTENDS GameClient, SetRules

CONSTANTS p1, p2, s1, s2

\* Cards are named by their places in the deal.
Faces ==
  <<<<0,0,0,1>>, <<0,0,0,2>>, <<0,0,0,3>>, <<1,0,0,1>>, <<1,1,1,1>>,
    <<1,2,2,1>>, <<0,0,1,1>>, <<0,0,1,2>>, <<0,1,0,1>>>>
Nine == 1 .. 9
NineDeal == <<1, 2, 3, 4, 5, 6, 7, 8, 9>>
SetsOfNine == {{1, 2, 3}, {4, 5, 6}}

\* These are the sets of the rules, and a board without a set for hasValidSets
\* has none for the server.
ASSUME RulesAgree ==
  /\ SetsOfNine =
       {{i \in Nine : Faces[i] \in S} : S \in SetsAmong(ToSet(Faces))}
  /\ \A gone \in SUBSET Nine :
       HasValidSets(Faces, gone) <=> HasSet(Nine \ gone)

\* Cards are selected from the left.  These are the indices of the sets on the
\* full board, of which the first are also those of what is left when either set
\* is gone: on a board that lags behind they name other cards.
NinePicks == {{}, {1}, {1, 2}, {1, 2, 3}, {4}, {4, 5}, {4, 5, 6}}

Symmetry == Permutations(Slots)
=============================================================================
