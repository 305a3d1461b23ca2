-------------------------- MODULE PlayRules_proofs --------------------------
(***************************************************************************)
(* Proofs about the play by its rules, for every set of players, days and  *)
(* cards: AtomicPlay is sound, and what the rules say of any cards, that   *)
(* two cards belong to one set, made with the third that every feature     *)
(* asks for.                                                               *)
(***************************************************************************)
EXTENDS AtomicPlay, SetRules, FiniteSetTheorems, TLAPS

-----------------------------------------------------------------------------
(* The abstract play *)

\* The three steps of a game.
LEMMA Steps ==
  ASSUME GameNext
  PROVE  \E g \in Games :
           Begin(g) \/ (\E S \in ValidSets : Find(g, S)) \/ Settle(g)
<1> QED BY DEF GameNext

\* Every game keeps its type.
LEMMA TypeStep ==
  ASSUME Dealt PROVE GameTypeOK /\ [GameNext]_game => GameTypeOK'
<1> SUFFICES ASSUME GameTypeOK, [GameNext]_game PROVE GameTypeOK'
  OBVIOUS
<1> USE DEF Dealt
<1>1. CASE UNCHANGED game
  BY <1>1 DEF GameTypeOK
<1>2. CASE GameNext
  <2>1. PICK g \in Games :
          Begin(g) \/ (\E S \in ValidSets : Find(g, S)) \/ Settle(g)
    BY <1>2, Steps
  <2>0. g[2] \in Dates /\ game[g] \in Game
    BY DEF GameTypeOK, Games
  <2>2. CASE Begin(g)
    <3>1. [phase |-> "playing", round |-> game[g].round + 1,
           table |-> Daily[g[2]], won |-> {}] \in Game
      BY <2>0 DEF Game
    <3> QED BY <2>2, <3>1 DEF Begin, GameTypeOK
  <2>3. ASSUME NEW S \in ValidSets, Find(g, S) PROVE GameTypeOK'
    <3>1. Found(game[g], S) \in Game
      BY <2>0 DEF Found, Game
    <3>2. game' = [game EXCEPT ![g] = Found(game[g], S)]
      BY <2>3 DEF Find
    <3> QED BY <3>1, <3>2 DEF GameTypeOK
  <2>4. CASE Settle(g)
    <3>1. [game[g] EXCEPT !.phase = "done"] \in Game
      BY <2>0 DEF Game
    <3>2. game' = [game EXCEPT ![g] = [game[g] EXCEPT !.phase = "done"]]
      BY <2>4 DEF Settle, GameTypeOK
    <3> QED BY <3>1, <3>2 DEF GameTypeOK
  <2> QED BY <2>1, <2>2, <2>3, <2>4
<1> QED BY <1>1, <1>2 DEF GameNext

\* Soundness of one game, by itself.
SoundAt(g, x) ==
  /\ x.phase = "playing" => HasSet(x.table)
  /\ x.phase = "over" => ~HasSet(x.table)
  /\ x.round > 0 =>
       /\ x.table = Daily[g[2]] \ UNION x.won
       /\ \A S, T \in x.won : S # T => S \cap T = {}

\* A set that lies in what the found sets left is disjoint from each of them.
LEMMA FoundApart ==
  ASSUME NEW D, NEW W, NEW S, S \subseteq D \ UNION W,
         \A A, B \in W : A # B => A \cap B = {}
  PROVE  /\ (D \ UNION W) \ S = D \ UNION (W \cup {S})
         /\ \A A, B \in W \cup {S} : A # B => A \cap B = {}
<1>1. (D \ UNION W) \ S = D \ UNION (W \cup {S})
  OBVIOUS
<1>2. ASSUME NEW A \in W PROVE A \cap S = {}
  BY <1>2
<1> QED BY <1>1, <1>2

\* A set found in a sound game leaves a sound game.
LEMMA FindSound ==
  ASSUME NEW g, NEW x \in Game, x.phase = "playing", x.round > 0,
         SoundAt(g, x), NEW S, S \subseteq x.table, NEW y,
         y.phase = (IF HasSet(x.table \ S) THEN x.phase ELSE "over"),
         y.round = x.round, y.table = x.table \ S, y.won = x.won \cup {S}
  PROVE  SoundAt(g, y)
<1>1. /\ x.table = Daily[g[2]] \ UNION x.won
      /\ \A A, B \in x.won : A # B => A \cap B = {}
  BY DEF SoundAt
<1>2. /\ y.table = Daily[g[2]] \ UNION y.won
      /\ \A A, B \in y.won : A # B => A \cap B = {}
  BY <1>1, FoundApart
<1>3. /\ y.phase = "playing" => HasSet(y.table)
      /\ y.phase = "over" => ~HasSet(y.table)
  OBVIOUS
<1> QED BY <1>2, <1>3 DEF SoundAt

\* A game that is played has begun.
Begun == \A g \in Games : game[g].phase = "playing" => game[g].round > 0

IInv == GameTypeOK /\ Begun /\ Sound

LEMMA InitInv == GameInit => IInv
BY DEF GameInit, NoGame, IInv, GameTypeOK, Begun, Sound, Game

LEMMA SoundIsSoundAt == Sound <=> \A g \in Games : SoundAt(g, game[g])
BY DEF Sound, SoundAt

LEMMA StepInv == ASSUME Dealt PROVE IInv /\ [GameNext]_game => IInv'
<1> SUFFICES ASSUME IInv, [GameNext]_game PROVE IInv'
  OBVIOUS
<1>0. GameTypeOK'
  BY TypeStep DEF IInv
<1>1. CASE UNCHANGED game
  BY <1>0, <1>1 DEF IInv, Begun, Sound
<1>2. CASE GameNext
  <2>1. PICK g \in Games :
          Begin(g) \/ (\E S \in ValidSets : Find(g, S)) \/ Settle(g)
    BY <1>2, Steps
  <2>2. /\ g[2] \in Dates /\ game[g] \in Game
        /\ game[g].round \in Nat
        /\ SoundAt(g, game[g])
        /\ game[g].phase = "playing" => game[g].round > 0
    BY SoundIsSoundAt DEF IInv, GameTypeOK, Games, Game, Begun
  <2>3. ASSUME \A h \in Games \ {g} : game'[h] = game[h],
               SoundAt(g, game'[g]),
               game'[g].phase = "playing" => game'[g].round > 0
        PROVE  IInv'
    <3>1. \A h \in Games : SoundAt(h, game'[h])
      BY <2>3, SoundIsSoundAt DEF IInv
    <3>2. Sound'
      BY <3>1 DEF Sound, SoundAt
    <3>3. Begun'
      BY <2>3 DEF IInv, Begun
    <3> QED BY <1>0, <3>2, <3>3 DEF IInv
  <2>4. CASE Begin(g)
    <3>1. /\ \A h \in Games \ {g} : game'[h] = game[h]
          /\ game'[g] = [phase |-> "playing", round |-> game[g].round + 1,
                         table |-> Daily[g[2]], won |-> {}]
      BY <2>4 DEF Begin, IInv, GameTypeOK
    <3>2. HasSet(Daily[g[2]])
      BY <2>2 DEF Dealt
    <3>3. SoundAt(g, game'[g])
      BY <3>1, <3>2 DEF SoundAt
    <3> QED BY <2>2, <2>3, <3>1, <3>3
  <2>5. ASSUME NEW S \in ValidSets, Find(g, S) PROVE IInv'
    <3>1. game' = [game EXCEPT ![g] = Found(game[g], S)]
      BY <2>5 DEF Find
    <3>2. /\ \A h \in Games \ {g} : game'[h] = game[h]
          /\ game'[g] = Found(game[g], S)
      BY <3>1 DEF IInv, GameTypeOK
    <3>3. game[g].phase = "playing" /\ S \subseteq game[g].table
      BY <2>5 DEF Find
    <3>4. /\ Found(game[g], S).phase =
               (IF HasSet(game[g].table \ S) THEN game[g].phase ELSE "over")
          /\ Found(game[g], S).round = game[g].round
          /\ Found(game[g], S).table = game[g].table \ S
          /\ Found(game[g], S).won = game[g].won \cup {S}
      BY DEF Found
    <3>5. SoundAt(g, Found(game[g], S))
      BY <2>2, <3>3, <3>4, FindSound
    <3> QED BY <2>2, <2>3, <3>2, <3>3, <3>4, <3>5
  <2>6. CASE Settle(g)
    <3>1. /\ \A h \in Games \ {g} : game'[h] = game[h]
          /\ game'[g] = [game[g] EXCEPT !.phase = "done"]
      BY <2>6 DEF Settle, IInv, GameTypeOK
    <3>2. /\ game'[g].phase = "done" /\ game'[g].round = game[g].round
          /\ game'[g].table = game[g].table /\ game'[g].won = game[g].won
      BY <2>2, <3>1 DEF Game
    <3>3. SoundAt(g, game'[g])
      BY <2>2, <3>2 DEF SoundAt
    <3> QED BY <2>3, <3>1, <3>2, <3>3
  <2> QED BY <2>1, <2>4, <2>5, <2>6
<1> QED BY <1>1, <1>2 DEF GameNext

\* Every game keeps its type, if every day's board has a set.
THEOREM TypeCorrect == ASSUME Dealt PROVE GameSpec => []GameTypeOK
<1>1. GameInit => GameTypeOK
  BY InitInv DEF IInv
<1>2. GameTypeOK /\ [GameNext]_game => GameTypeOK'
  BY TypeStep
<1> QED BY <1>1, <1>2, PTL DEF GameSpec

\* What players may count on, whoever they are and whatever the cards, if every
\* day's board has a set: the found sets are disjoint and with the rest make up the
\* day's board, a session that is played can be played on, and one that is over
\* cannot.
THEOREM PlayIsSound == ASSUME Dealt PROVE GameSpec => []Sound
<1>1. IInv => Sound
  BY DEF IInv
<1>2. IInv /\ [GameNext]_game => IInv'
  BY StepInv
<1> QED BY <1>1, <1>2, InitInv, PTL DEF GameSpec

-----------------------------------------------------------------------------
(* The rules *)

\* Not exactly two values: all of them the same, or all different.
LEMMA NotTwo ==
  ASSUME NEW x, NEW y, NEW z
  PROVE  /\ Cardinality({x, y, z}) \in Nat
         /\ Cardinality({x, y, z}) # 2 <=>
              (x = y /\ y = z) \/ (x # y /\ y # z /\ x # z)
<1>1. IsFiniteSet({x}) /\ Cardinality({x}) = 1
  BY FS_Singleton
<1>2. /\ IsFiniteSet({x} \cup {y})
      /\ Cardinality({x} \cup {y}) = IF y = x THEN 1 ELSE 2
  BY <1>1, FS_AddElement
<1>3. Cardinality(({x} \cup {y}) \cup {z}) =
        IF z \in {x} \cup {y} THEN Cardinality({x} \cup {y})
        ELSE Cardinality({x} \cup {y}) + 1
  BY <1>2, FS_AddElement
<1>4. {x, y, z} = ({x} \cup {y}) \cup {z}
  OBVIOUS
<1>5. CASE x = y
  <2>1. Cardinality({x, y, z}) = IF z = x THEN 1 ELSE 2
    BY <1>2, <1>3, <1>4, <1>5
  <2> QED BY <1>5, <2>1
<1>6. CASE x # y
  <2>1. Cardinality({x, y, z}) = IF z = x \/ z = y THEN 2 ELSE 3
    BY <1>2, <1>3, <1>4, <1>6
  <2> QED BY <1>6, <2>1
<1> QED BY <1>5, <1>6

\* Two values of a feature have one that completes them.
LEMMA OneThirdValue ==
  ASSUME NEW i \in Features, NEW x \in Values(i), NEW y \in Values(i)
  PROVE  /\ ThirdValue(x, y, i) \in Values(i)
         /\ \A z \in Values(i) :
              Cardinality({x, y, z}) # 2 <=> z = ThirdValue(x, y, i)
<1> DEFINE Completes(z) == (x = y /\ y = z) \/ (x # y /\ y # z /\ x # z)
<1>1. \A z : Cardinality({x, y, z}) # 2 <=> Completes(z)
  BY NotTwo
<1>2. \E z \in Values(i) : Completes(z)
  <2>1. CASE i = 4
    <3>1. x = y => Completes(x)
      OBVIOUS
    <3>2. x # y => 6 - x - y \in Values(i) /\ Completes(6 - x - y)
      BY <2>1 DEF Values
    <3> QED BY <3>1, <3>2
  <2>2. CASE i # 4
    <3>1. x = y => Completes(x)
      OBVIOUS
    <3>2. x # y => 3 - x - y \in Values(i) /\ Completes(3 - x - y)
      BY <2>2 DEF Values
    <3> QED BY <3>1, <3>2
  <2> QED BY <2>1, <2>2
<1>3. \A z, t \in Values(i) : Completes(z) /\ Completes(t) => z = t
  BY DEF Values
<1>4. /\ ThirdValue(x, y, i) \in Values(i)
      /\ Cardinality({x, y, ThirdValue(x, y, i)}) # 2
  <2> HIDE DEF Completes
  <2>1. \E z \in Values(i) : Cardinality({x, y, z}) # 2
    BY <1>1, <1>2
  <2> QED BY <2>1 DEF ThirdValue
<1> HIDE DEF Completes
<1> QED BY <1>1, <1>3, <1>4

\* What a card is.
LEMMA CardValues ==
  ASSUME NEW c \in Card, NEW i \in Features PROVE c[i] \in Values(i)
BY DEF Card

\* Two cards are completed to a set by exactly one card (isValidSet): the third
\* card of a set never has to be chosen.
THEOREM ThirdCompletes ==
  ASSUME NEW a \in Card, NEW b \in Card
  PROVE  /\ Third(a, b) \in Card
         /\ \A c \in Card : IsValidSet(a, b, c) <=> c = Third(a, b)
<1>1. \A i \in Features : Third(a, b)[i] = ThirdValue(a[i], b[i], i)
  BY DEF Third
<1>2. \A i \in Features :
        /\ ThirdValue(a[i], b[i], i) \in Values(i)
        /\ \A z \in Values(i) :
             Cardinality({a[i], b[i], z}) # 2 <=> z = ThirdValue(a[i], b[i], i)
  BY OneThirdValue, CardValues
<1>3. Third(a, b) \in Card
  <2>1. \A i \in Features : Values(i) \subseteq 0 .. 3
    BY DEF Values
  <2>2. Third(a, b) \in [Features -> 0 .. 3]
    BY <1>1, <1>2, <2>1 DEF Third
  <2> QED BY <1>1, <1>2, <2>2 DEF Card
<1>4. ASSUME NEW c \in Card
      PROVE  IsValidSet(a, b, c) <=> c = Third(a, b)
  <2>1. IsValidSet(a, b, c) <=> \A i \in Features : c[i] = Third(a, b)[i]
    <3>1. ASSUME NEW i \in Features
          PROVE  Cardinality({a[i], b[i], c[i]}) # 2 <=> c[i] = Third(a, b)[i]
      <4>1. c[i] \in Values(i)
        BY CardValues
      <4> QED BY <1>1, <1>2, <4>1
    <3> QED BY <3>1, Zenon DEF IsValidSet
  <2>2. c = [i \in Features |-> c[i]]
    BY DEF Card
  <2>3. Third(a, b) = [i \in Features |-> Third(a, b)[i]]
    BY DEF Third
  <2> QED BY <2>1, <2>2, <2>3
<1> QED BY <1>3, <1>4

\* A set is one in whatever order its cards are selected.
LEMMA AnyOrder ==
  ASSUME NEW a, NEW b, NEW c, IsValidSet(a, b, c)
  PROVE  IsValidSet(b, a, c) /\ IsValidSet(a, c, b) /\ IsValidSet(b, c, a)
<1>1. \A i \in Features :
        /\ {b[i], a[i], c[i]} = {a[i], b[i], c[i]}
        /\ {a[i], c[i], b[i]} = {a[i], b[i], c[i]}
        /\ {b[i], c[i], a[i]} = {a[i], b[i], c[i]}
  OBVIOUS
<1> QED BY <1>1 DEF IsValidSet

\* The set that contains two different cards is those two and the third.
LEMMA SetOfTwo ==
  ASSUME NEW cards, cards \subseteq Card, NEW S \in SetsAmong(cards),
         NEW a \in S, NEW b \in S, a # b
  PROVE  S = {a, b, Third(a, b)}
<1>1. PICK q \in cards \X cards \X cards :
        /\ Cardinality({q[1], q[2], q[3]}) = 3
        /\ IsValidSet(q[1], q[2], q[3])
        /\ S = {q[1], q[2], q[3]}
  BY DEF SetsAmong
<1> DEFINE x == q[1]
           y == q[2]
           z == q[3]
<1>2. x \in Card /\ y \in Card /\ z \in Card
  OBVIOUS
<1>3. S = {x, y, z} /\ IsValidSet(x, y, z)
  BY <1>1
<1> HIDE DEF x, y, z
<1>4. PICK c \in S : S = {a, b, c} /\ IsValidSet(a, b, c)
  BY <1>3, AnyOrder
<1>5. a \in Card /\ b \in Card /\ c \in Card
  BY <1>2, <1>3
<1>6. c = Third(a, b)
  BY <1>4, <1>5, ThirdCompletes
<1> QED BY <1>4, <1>6

\* Two sets on a board share one card at most: so a set that is found takes no
\* more than one card of another.
THEOREM SetsShareOneCard ==
  ASSUME NEW cards, cards \subseteq Card,
         NEW S \in SetsAmong(cards), NEW T \in SetsAmong(cards), S # T,
         NEW a \in S \cap T, NEW b \in S \cap T
  PROVE  a = b
BY SetOfTwo
=============================================================================
