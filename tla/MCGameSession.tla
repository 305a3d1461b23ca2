--------------------------- MODULE MCGameSession ---------------------------
(***************************************************************************)
(* Small instances of GameSession, with cards that agree in one of the     *)
(* four features of the game.                                              *)
(***************************************************************************)
EXTENDS GameSession, TLC

CONSTANTS t1, t2, p1, p2, u1, today

\* Three sets.  The first two are disjoint; the third crosses both.
Row    == {<<i, 0, 0>> : i \in 0 .. 2}
Column == {<<0, 1, i>> : i \in 0 .. 2}
Bridge == {<<0, i, 0>> : i \in 0 .. 2}

\* The card that makes a set with two others: in each feature, all three are
\* the same or all are different.
Third(a, b) == [i \in 1 .. 3 |-> (6 - a[i] - b[i]) % 3]

Seven == Row \cup Column \cup Bridge
SetsOfSeven == {{a, b, Third(a, b)} : <<a, b>> \in
                 {q \in Seven \X Seven : q[1] # q[2]}} \cap SUBSET Seven

\* Two sets to be found one after the other in either order; two of which one
\* can be found; and all three.
ApartDaily == [d \in Dates |-> Row \cup Column]
CrossDaily == [d \in Dates |-> Row \cup Bridge]
SevenDaily == [d \in Dates |-> Seven]

Symmetry == Permutations(Threads) \cup Permutations(Players)
=============================================================================
