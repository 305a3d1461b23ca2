----------------------------- MODULE AtomicPlay -----------------------------
(***************************************************************************)
(* The play of the daily puzzle as a player may understand it: a game is   *)
(* one player's play of one day, and each answer of the server stands for  *)
(* one step of it.  GameSession implements this where the requests of one  *)
(* player do not overlap.                                                  *)
(***************************************************************************)
EXTENDS Integers, FiniteSets

CONSTANTS
  Players,      \* players of the server
  Dates,        \* days a puzzle exists for
  Cards,        \* cards of the boards
  ValidSets,    \* the sets of three cards that game.is_set accepts
  Daily         \* Daily[d] is game.daily_board(d), as a set of cards

HasSet(board) == \E S \in ValidSets : S \subseteq board

\* What is dealt: sets are of cards, and every day's board has one at first.
Dealt ==
  /\ ValidSets \subseteq SUBSET Cards
  /\ {} \notin ValidSets
  /\ Daily \in [Dates -> SUBSET Cards]
  /\ \A d \in Dates : HasSet(Daily[d])

Games == Players \X Dates

Game ==
  [phase : {"none", "playing", "over", "done"},
     \* "over": no set is left; "done": a time is recorded as well
   round : Nat,               \* how many sessions there have been
   table : SUBSET Cards,      \* the cards that are left
   won : SUBSET ValidSets]    \* the sets found in the last session

VARIABLE game    \* game[g] is one player's play of one day

GameTypeOK == game \in [Games -> Game]

NoGame == [phase |-> "none", round |-> 0, table |-> {}, won |-> {}]
GameInit == game = [g \in Games |-> NoGame]

\* A new session is for a player without an unfinished one and without a time:
\* the first, or one after a finish whose time was lost.
Begin(g) ==
  /\ game[g].phase \in {"none", "over"}
  /\ game' = [game EXCEPT ![g] =
       [phase |-> "playing", round |-> @.round + 1, table |-> Daily[g[2]],
        won |-> {}]]

\* A game x in which S was found.  It is over when S was the last set.
Found(x, S) ==
  [phase |-> IF HasSet(x.table \ S) THEN x.phase ELSE "over",
   round |-> x.round, table |-> x.table \ S, won |-> x.won \cup {S}]

\* A set on the table is found.
Find(g, S) ==
  /\ game[g].phase = "playing"
  /\ S \subseteq game[g].table
  /\ game' = [game EXCEPT ![g] = Found(@, S)]

\* A time is recorded, for the end of a session or directly.
Settle(g) ==
  /\ game[g].phase # "done"
  /\ game' = [game EXCEPT ![g].phase = "done"]

\* A step moves one game.
GameNext ==
  \E g \in Games :
    /\ game'[g] # game[g]
    /\ Begin(g) \/ (\E S \in ValidSets : Find(g, S)) \/ Settle(g)

GameSpec == GameInit /\ [][GameNext]_game

-----------------------------------------------------------------------------
\* The sets found in a session are disjoint, and with the cards left they make
\* up the day's board; a session that can be played has a set left, and one
\* that is over has none.
Sound ==
  \A g \in Games :
    /\ game[g].phase = "playing" => HasSet(game[g].table)
    /\ game[g].phase = "over" => ~HasSet(game[g].table)
    /\ game[g].round > 0 =>
         /\ game[g].table = Daily[g[2]] \ UNION game[g].won
         /\ \A S, T \in game[g].won : S # T => S \cap T = {}
=============================================================================
