-------------------------- MODULE GameClient_proofs --------------------------
(***************************************************************************)
(* Proofs about the page of the web client, for any number of players, of  *)
(* their sessions and of requests under way: the clock and the session,    *)
(* the sets the page counts, its selection, what a reload comes back to,   *)
(* its board against that of the server, and the gate of the leaderboard.  *)
(*                                                                         *)
(* The invariant joins CInv and BInv.  CInv has what the sessions of the   *)
(* server are (ServerFits), what the page and its snapshot hold (PageFits, *)
(* SavedFits), what each request and its answer may say (RequestFits,      *)
(* AnswerFits), which answers may be waited for together (Apart), and how  *)
(* many sets are counted (Counts).  BInv has what a handler holds between  *)
(* its read and its write.                                                 *)
(*                                                                         *)
(* AInv is about the boards, while there is no drift: what each request    *)
(* and its answer say of the board (AgreesWith), that one submission is    *)
(* under way at most, and that the boards are the same when none is due.   *)
(* The lemma it turns on is OrderedWithout: removing indices from the      *)
(* board of a table is the board of the table without those cards.         *)
(***************************************************************************)
EXTENDS GameClient, FiniteSetTheorems, TLAPS

-----------------------------------------------------------------------------
(* The invariant *)

\* What page, snapshot and requests are.  Boards and selections are left open
\* here.
PageOf(p) ==
  [loading : BOOLEAN, completedToday : BOOLEAN, asking : Players \cup {None},
   board : {p.board}, selected : {p.selected}, startAt : BOOLEAN,
   sessionId : Sessions \cup {None}, sessionToken : Sessions \cup {None},
   foundSets : Seq(ValidSets), left : Sessions \cup {None},
   switched : BOOLEAN]

SnapshotOf(p) ==
  [startAt : BOOLEAN, board : {p.board}, sessionId : Sessions \cup {None},
   sessionToken : Sessions \cup {None}, foundSets : Seq(ValidSets)]

ReplyOf(a) ==
  [ok : BOOLEAN, sid : Sessions \cup {None}, board : {a.board},
   cookie : Players \cup {None}]

RequestOf(r) ==
  [what : {"free", "session", "start", "daily", "submit"},
   heard : BOOLEAN, stage : {"asked", "begun", "served"},
   cookie : Players \cup {None}, user : Players \cup {None},
   sid : Sessions \cup {None}, at : {r.at}, cards : {r.cards},
   copy : {r.copy}, reply : ReplyOf(r.reply)]

\* What the sessions are at a moment of the server.
World == [sess |-> sess, done |-> done]
Counted(gm) == \A sid \in Sessions : gm.sess[sid].rows \in Nat

\* A session that was begun, and one that is played.
Begun(row) == row.state \in {"active", "finished"}
Held(sid, gm) == sid # None => Begun(gm.sess[sid])

Played(sid, gm) ==
  /\ sid # None
  /\ gm.sess[sid].state = "active" /\ sid[1] \notin gm.done
  /\ \A o \in Sessions : o[1] = sid[1] /\ Begun(gm.sess[o]) => o[2] <= sid[2]

\* The rows of a session, of a player that exists.
RowFits(row, sid, reg) ==
  /\ row \in Row
  /\ row.table \subseteq ToSet(Deal)
  /\ row.state = "active" => HasSet(row.table)
  /\ row.state # "absent" => sid[1] \in reg

ServerFits ==
  /\ sess = [sid \in Sessions |-> sess[sid]]
  /\ \A sid \in Sessions : RowFits(sess[sid], sid, registered)
  /\ done \subseteq Players /\ registered \subseteq Players
  /\ cookie \in Players \cup {None}
  /\ drift \in BOOLEAN

\* What page p has, and when: with the cookie ck, at the moment gm.
PageFits(p, ck, dr, reg, gm) ==
  /\ p \in PageOf(p)
  /\ p.startAt <=> p.sessionId # None
  /\ Held(p.sessionId, gm) /\ Held(p.sessionToken, gm) /\ Held(p.left, gm)
  /\ p.left # None => p.left[1] \in reg
  /\ ~p.startAt => p.selected = {} /\ p.board = <<>>
  /\ p.sessionId = None => Len(p.foundSets) = 0
  /\ ~p.switched => p.sessionToken \in {None, p.sessionId}
  /\ ~dr /\ p.loading => ~p.startAt
  /\ ~dr => p.selected \subseteq DOMAIN p.board
  /\ ~p.loading /\ Played(p.left, gm) /\ ck = p.left[1] =>
       p.startAt /\ (p.sessionId = p.left \/ p.switched)

\* What the snapshot keeps for it.
SavedFits(sv, p, gm) ==
  sv # None =>
    /\ sv \in SnapshotOf(sv)
    /\ Held(sv.sessionId, gm) /\ Held(sv.sessionToken, gm)
    /\ sv.startAt => sv.sessionId # None
    /\ sv.startAt /\ ~p.switched =>
         /\ sv.sessionId = p.sessionId
         /\ sv.sessionToken \in {None, sv.sessionId}
         /\ Len(sv.foundSets) <= Len(p.foundSets)

\* What a request says, and its answer, whoever waits for it.
RequestFits(r, gm) ==
  /\ r \in RequestOf(r)
  /\ Held(r.sid, gm) /\ (r.stage = "served" => Held(r.reply.sid, gm))
  /\ r.what = "start" => r.stage = "served" \/ r.user # None
  /\ r.what \in {"daily", "submit"} => r.sid # None
  /\ r.what = "submit" /\ r.heard => r.cards \in ValidSets
  /\ r.what \in {"session", "start"} /\ r.reply.ok => r.reply.sid # None
  /\ r.what # "start" => r.reply.cookie = None

\* What an answer the page waits for means to it.
AnswerFits(r, p, ck, dr, gm) ==
  /\ r.what \in {"daily", "submit"} =>
       /\ p.sessionId # None
       /\ ~p.switched => r.sid = p.sessionId
  /\ r.what = "session" =>
       /\ p.loading
       /\ p.left # None /\ ck = p.left[1] =>
            /\ r.stage = "asked" => r.cookie = ck
            /\ r.stage # "begun"
            /\ r.stage = "served" /\ Played(p.left, gm) =>
                 r.reply.ok /\ r.reply.sid = p.left
  /\ r.what = "start" /\ r.stage # "asked" /\ r.reply.cookie # None =>
       p.left = None \/ p.left[1] # r.reply.cookie
  /\ ~dr /\ r.what \in {"start", "daily"} => ~p.loading
  /\ ~dr /\ r.what = "start" => p.sessionId = None
  /\ ~dr /\ r.what = "daily" => p.selected = {} /\ p.board = <<>>

\* Two requests whose answers the page waits for at once.
Apart(r, q, dr) ==
  /\ ~(r.what = "session" /\ q.what = "session")
  /\ ~dr /\ r.what = "daily" => q.what \notin {"start", "daily", "submit"}
  /\ ~dr /\ r.what = "start" => q.what # "start"

NetFits(n, p, ck, dr, gm) ==
  /\ n = [s \in Slots |-> n[s]]
  /\ \A s \in Slots : RequestFits(n[s], gm)
  /\ \A s \in Slots : n[s].heard => AnswerFits(n[s], p, ck, dr, gm)
  /\ \A s, t \in Slots :
       s # t /\ n[s].heard /\ n[t].heard => Apart(n[s], n[t], dr)

\* The sets that were found for the page, and that it has yet to count.
Due(r) == r.what = "submit" /\ r.heard /\ r.stage = "served" /\ r.reply.ok

Pending(n) == {s \in Slots : Due(n[s])}

Counts(n, p, gm) ==
  /\ IsFiniteSet(Pending(n))
  /\ p.sessionId # None /\ ~p.switched =>
       Len(p.foundSets) + Cardinality(Pending(n)) <= gm.sess[p.sessionId].rows

\* What the page and the requests make of a moment of the server.
Fits(p, sv, n, ck, dr, reg, gm) ==
  /\ PageFits(p, ck, dr, reg, gm)
  /\ SavedFits(sv, p, gm)
  /\ NetFits(n, p, ck, dr, gm)
  /\ Counts(n, p, gm)

CInv ==
  ServerFits /\ Fits(page, saved, net, cookie, drift, registered, World)

\* A start that has drawn its session, and a submission that has its board.
Draws(r) == r.what = "start" /\ r.stage = "begun"
Copies(r) == r.what = "submit" /\ r.stage = "begun"

BInv ==
  /\ \A s \in Slots : Draws(net[s]) =>
       /\ net[s].reply.ok /\ net[s].reply.sid \in Sessions
       /\ sess[net[s].reply.sid].state = "drawn"
  /\ \A s, t \in Slots : Draws(net[s]) /\ Draws(net[t]) /\ s # t =>
       net[s].reply.sid # net[t].reply.sid
  /\ \A s \in Slots : Copies(net[s]) => net[s].copy \subseteq ToSet(Deal)

-----------------------------------------------------------------------------
(* The sessions of the server *)

LEMMA SessionParts ==
  ASSUME NEW sid \in Sessions
  PROVE  /\ sid[1] \in Players /\ sid[2] \in Nat /\ sid # None
         /\ sid = <<sid[1], sid[2]>>
BY NoneIsNothing, RoundsAssumption DEF Sessions

\* To be played is to be the current session.
LEMMA PlayedIsCurrent ==
  ASSUME NEW sid \in Sessions \cup {None}
  PROVE  /\ Played(sid, World) <=> Current(sid)
         /\ Played(sid, World)' <=> Current(sid)'
BY DEF Played, Current, World, Begun

\* Sessions go on: one that was begun stays so, one that is over too, and what
\* was found in it stays recorded.
RowGrows(row, new) ==
  Begun(row) =>
    /\ Begun(new) /\ (new.state = "active" => row.state = "active")
    /\ row.rows <= new.rows

Grows(gm, gn) ==
  /\ Counted(gm) /\ Counted(gn)
  /\ \A sid \in Sessions : RowGrows(gm.sess[sid], gn.sess[sid])
  /\ gm.done \subseteq gn.done

LEMMA WorldIs ==
  /\ World.sess = sess /\ World.done = done
  /\ World'.sess = sess' /\ World'.done = done'
BY DEF World

LEMMA Rows ==
  ASSUME ServerFits
  PROVE  /\ Counted(World) /\ Grows(World, World)
         /\ \A sid \in Sessions : sess[sid] \in Row /\ sess[sid].rows \in Nat
<1>1. \A sid \in Sessions : sess[sid] \in Row /\ sess[sid].rows \in Nat
  BY DEF ServerFits, RowFits, Row
<1>2. Counted(World)
  BY <1>1, WorldIs DEF Counted
<1>3. \A sid \in Sessions : RowGrows(World.sess[sid], World.sess[sid])
  BY <1>1, WorldIs DEF RowGrows
<1> QED BY <1>1, <1>2, <1>3 DEF Grows

\* One session goes on, or none.
LEMMA StepGrows ==
  ASSUME ServerFits, NEW sid \in Sessions, NEW row, RowFits(row, sid, registered'),
         sess' = [sess EXCEPT ![sid] = row], RowGrows(sess[sid], row),
         UNCHANGED <<done, cookie>>, drift' \in BOOLEAN,
         registered \subseteq registered', registered' \subseteq Players
  PROVE  ServerFits' /\ Grows(World, World')
<1>1. /\ sess' = [o \in Sessions |-> sess'[o]]
      /\ sess'[sid] = row /\ \A o \in Sessions \ {sid} : sess'[o] = sess[o]
  BY DEF ServerFits
<1>2. \A o \in Sessions : RowFits(sess'[o], o, registered')
  BY <1>1 DEF ServerFits, RowFits
<1>3. ServerFits'
  BY <1>1, <1>2 DEF ServerFits
<1>4. Counted(World) /\ Grows(World, World)
  BY Rows
<1>5. Counted(World')
  <2>1. \A o \in Sessions : sess'[o].rows \in Nat
    BY <1>2 DEF RowFits, Row
  <2> QED BY <2>1, WorldIs DEF Counted
<1>6. \A o \in Sessions : RowGrows(World.sess[o], World'.sess[o])
  BY <1>1, <1>4, WorldIs DEF Grows
<1>7. World.done \subseteq World'.done
  BY WorldIs
<1> QED BY <1>3, <1>4, <1>5, <1>6, <1>7 DEF Grows

-----------------------------------------------------------------------------
(* A later moment of the server, for the same page *)

\* Sessions that were begun stay begun, and none is played again.
LEMMA HeldLater ==
  ASSUME NEW gm, NEW gn, Grows(gm, gn), NEW sid \in Sessions \cup {None},
         Held(sid, gm)
  PROVE  Held(sid, gn) /\ (Played(sid, gn) => Played(sid, gm))
<1>1. CASE sid = None
  BY <1>1 DEF Held, Played
<1>2. CASE sid \in Sessions
  <2>1. \A o \in Sessions : Begun(gm.sess[o]) => Begun(gn.sess[o])
    BY DEF Grows, RowGrows
  <2>2. Begun(gm.sess[sid])
    BY <1>2, SessionParts DEF Held
  <2>3. gn.sess[sid].state = "active" => gm.sess[sid].state = "active"
    BY <1>2, <2>2 DEF Grows, RowGrows
  <2>4. Held(sid, gn)
    BY <1>2, <2>1, <2>2 DEF Held
  <2>5. Played(sid, gn) => Played(sid, gm)
    BY <2>1, <2>3 DEF Played, Grows
  <2> QED BY <2>4, <2>5
<1> QED BY <1>1, <1>2

\* The page still fits.
LEMMA PageLater ==
  ASSUME NEW gm, NEW gn, Grows(gm, gn), NEW reg, NEW reh, reg \subseteq reh,
         NEW dr, NEW ds, dr => ds,
         NEW p, NEW ck, PageFits(p, ck, dr, reg, gm)
  PROVE  PageFits(p, ck, ds, reh, gn)
<1>1. /\ p.sessionId \in Sessions \cup {None}
      /\ p.sessionToken \in Sessions \cup {None}
      /\ p.left \in Sessions \cup {None}
  BY DEF PageFits, PageOf
<1>2. /\ Held(p.sessionId, gn) /\ Held(p.sessionToken, gn)
      /\ Held(p.left, gn)
      /\ Played(p.left, gn) => Played(p.left, gm)
  BY <1>1, HeldLater DEF PageFits
<1> QED BY <1>2 DEF PageFits

LEMMA SavedLater ==
  ASSUME NEW gm, NEW gn, Grows(gm, gn), NEW sv, NEW p, SavedFits(sv, p, gm)
  PROVE  SavedFits(sv, p, gn)
<1>1. CASE sv = None
  BY <1>1 DEF SavedFits
<1>2. CASE sv # None
  <2>1. /\ sv.sessionId \in Sessions \cup {None} /\ Held(sv.sessionId, gm)
        /\ sv.sessionToken \in Sessions \cup {None}
        /\ Held(sv.sessionToken, gm)
    BY <1>2 DEF SavedFits, SnapshotOf
  <2>2. Held(sv.sessionId, gn) /\ Held(sv.sessionToken, gn)
    BY <2>1, HeldLater
  <2> QED BY <2>2 DEF SavedFits
<1> QED BY <1>1, <1>2

LEMMA RequestLater ==
  ASSUME NEW gm, NEW gn, Grows(gm, gn), NEW r, RequestFits(r, gm)
  PROVE  RequestFits(r, gn)
<1>1. /\ r.sid \in Sessions \cup {None}
      /\ r.reply.sid \in Sessions \cup {None}
  BY DEF RequestFits, RequestOf, ReplyOf
<1>2. Held(r.sid, gn) /\ (r.stage = "served" => Held(r.reply.sid, gn))
  BY <1>1, HeldLater DEF RequestFits
<1> QED BY <1>2 DEF RequestFits

LEMMA AnswerLater ==
  ASSUME NEW gm, NEW gn, Grows(gm, gn), NEW dr, NEW ds, dr => ds,
         NEW p, p.left \in Sessions \cup {None}, Held(p.left, gm),
         NEW ck, NEW r, AnswerFits(r, p, ck, dr, gm)
  PROVE  AnswerFits(r, p, ck, ds, gn)
<1>1. Played(p.left, gn) => Played(p.left, gm)
  BY HeldLater
<1> QED BY <1>1 DEF AnswerFits

\* What the page counts stays covered.
LEMMA CountsLater ==
  ASSUME NEW gm, NEW gn, Grows(gm, gn), NEW n, NEW p,
         p.sessionId \in Sessions \cup {None}, Held(p.sessionId, gm),
         p.foundSets \in Seq(ValidSets), Counts(n, p, gm)
  PROVE  Counts(n, p, gn)
<1> DEFINE sid == p.sessionId
           k == Len(p.foundSets) + Cardinality(Pending(n))
<1>1. SUFFICES ASSUME sid # None, ~p.switched
               PROVE  k <= gn.sess[sid].rows
  BY DEF Counts
<1>2. k \in Nat
  <2>1. Len(p.foundSets) \in Nat
    OBVIOUS
  <2>2. Cardinality(Pending(n)) \in Nat
    BY FS_CardinalityType DEF Counts
  <2> QED BY <2>1, <2>2
<1>3. /\ gm.sess[sid].rows \in Nat /\ gn.sess[sid].rows \in Nat
      /\ gm.sess[sid].rows <= gn.sess[sid].rows
  BY <1>1 DEF Held, Grows, RowGrows, Counted
<1>4. k <= gm.sess[sid].rows
  BY <1>1 DEF Counts
<1> HIDE DEF k
<1> QED BY <1>2, <1>3, <1>4

\* All of it, with the same requests.
LEMMA NetLater ==
  ASSUME NEW gm, NEW gn, Grows(gm, gn), NEW dr, NEW ds, dr => ds,
         NEW p, p.left \in Sessions \cup {None}, Held(p.left, gm),
         NEW ck, NEW n, NetFits(n, p, ck, dr, gm)
  PROVE  NetFits(n, p, ck, ds, gn)
<1>1. \A s \in Slots : RequestFits(n[s], gn)
  BY RequestLater DEF NetFits
<1>2. \A s \in Slots : n[s].heard => AnswerFits(n[s], p, ck, ds, gn)
  BY AnswerLater DEF NetFits
<1>3. ASSUME NEW r, NEW q, Apart(r, q, dr) PROVE Apart(r, q, ds)
  BY <1>3 DEF Apart
<1> QED BY <1>1, <1>2, <1>3 DEF NetFits

LEMMA FitsLater ==
  ASSUME NEW gm, NEW gn, Grows(gm, gn), NEW reg, NEW reh, reg \subseteq reh,
         NEW dr, NEW ds, dr => ds, NEW p, NEW sv, NEW n, NEW ck,
         Fits(p, sv, n, ck, dr, reg, gm)
  PROVE  Fits(p, sv, n, ck, ds, reh, gn)
<1>1. /\ p.sessionId \in Sessions \cup {None} /\ Held(p.sessionId, gm)
      /\ p.left \in Sessions \cup {None} /\ Held(p.left, gm)
      /\ p.foundSets \in Seq(ValidSets)
  BY DEF Fits, PageFits, PageOf
<1> QED BY <1>1, PageLater, SavedLater, NetLater, CountsLater DEF Fits

-----------------------------------------------------------------------------
(* The requests *)

\* A request that takes the place of another.
LEMMA NetChange ==
  ASSUME NEW n, NEW p, NEW ck, NEW dr, NEW gm, NetFits(n, p, ck, dr, gm),
         NEW s \in Slots, NEW r, RequestFits(r, gm),
         r.heard =>
           /\ AnswerFits(r, p, ck, dr, gm)
           /\ \A t \in Slots \ {s} :
                n[t].heard => Apart(n[t], r, dr) /\ Apart(r, n[t], dr)
  PROVE  NetFits([n EXCEPT ![s] = r], p, ck, dr, gm)
<1> DEFINE m == [n EXCEPT ![s] = r]
<1>1. m = [t \in Slots |-> m[t]]
  BY DEF NetFits
<1>2. m[s] = r /\ \A t \in Slots \ {s} : m[t] = n[t]
  BY DEF NetFits
<1> HIDE DEF m
<1>3. \A t \in Slots : RequestFits(m[t], gm)
  BY <1>2 DEF NetFits
<1>4. \A t \in Slots : m[t].heard => AnswerFits(m[t], p, ck, dr, gm)
  BY <1>2 DEF NetFits
<1>5. \A t, u \in Slots :
        t # u /\ m[t].heard /\ m[u].heard => Apart(m[t], m[u], dr)
  BY <1>2 DEF NetFits
<1>6. NetFits(m, p, ck, dr, gm)
  BY <1>1, <1>3, <1>4, <1>5 DEF NetFits
<1> QED BY <1>6 DEF m

\* A slot that is freed.
LEMMA FreeFits == ASSUME NEW gm PROVE RequestFits(Free, gm) /\ ~Free.heard
BY DEF RequestFits, RequestOf, ReplyOf, Free, NoReply, Held

\* What is due when a request takes the place of another.
LEMMA PendingChange ==
  ASSUME NEW n, n = [s \in Slots |-> n[s]], IsFiniteSet(Pending(n)),
         NEW s \in Slots, NEW r
  PROVE  LET m == [n EXCEPT ![s] = r]
         IN /\ IsFiniteSet(Pending(m))
            /\ Cardinality(Pending(n)) \in Nat
            /\ Cardinality(Pending(m)) \in Nat
            /\ Due(r) /\ ~Due(n[s]) =>
                 Cardinality(Pending(m)) = Cardinality(Pending(n)) + 1
            /\ ~Due(r) => Cardinality(Pending(m)) <= Cardinality(Pending(n))
            /\ ~Due(r) /\ Due(n[s]) =>
                 Cardinality(Pending(m)) = Cardinality(Pending(n)) - 1
<1> DEFINE m == [n EXCEPT ![s] = r]
           P == Pending(n)
           Q == Pending(m)
<1>1. m[s] = r /\ \A t \in Slots \ {s} : m[t] = n[t]
  OBVIOUS
<1> HIDE DEF m
<1>2. Due(r) => Q = P \cup {s}
  BY <1>1 DEF Pending
<1>3. ~Due(r) => Q = P \ {s}
  BY <1>1 DEF Pending
<1>4. s \in P <=> Due(n[s])
  BY DEF Pending
<1>5. /\ IsFiniteSet(P) /\ Cardinality(P) \in Nat
      /\ IsFiniteSet(P \cup {s})
      /\ Cardinality(P \cup {s}) = IF s \in P THEN Cardinality(P)
                                   ELSE Cardinality(P) + 1
      /\ IsFiniteSet(P \ {s})
      /\ Cardinality(P \ {s}) = IF s \in P THEN Cardinality(P) - 1
                                ELSE Cardinality(P)
      /\ Cardinality(P \cup {s}) \in Nat
      /\ Cardinality(P \ {s}) \in Nat
  <2>1. IsFiniteSet(P) /\ Cardinality(P) \in Nat
    BY FS_CardinalityType
  <2>2. /\ IsFiniteSet(P \cup {s})
        /\ Cardinality(P \cup {s}) = IF s \in P THEN Cardinality(P)
                                     ELSE Cardinality(P) + 1
    BY FS_AddElement
  <2>3. /\ IsFiniteSet(P \ {s})
        /\ Cardinality(P \ {s}) = IF s \in P THEN Cardinality(P) - 1
                                  ELSE Cardinality(P)
    BY FS_RemoveElement
  <2> HIDE DEF P
  <2> QED BY <2>1, <2>2, <2>3, FS_CardinalityType
<1> HIDE DEF P, Q
<1>6. /\ IsFiniteSet(Q) /\ Cardinality(Q) \in Nat
      /\ Due(r) /\ ~Due(n[s]) => Cardinality(Q) = Cardinality(P) + 1
      /\ ~Due(r) => Cardinality(Q) <= Cardinality(P)
      /\ ~Due(r) /\ Due(n[s]) => Cardinality(Q) = Cardinality(P) - 1
  <2>1. CASE Due(r)
    BY <1>2, <1>4, <1>5, <2>1
  <2>2. CASE ~Due(r) /\ Due(n[s])
    <3>1. s \in P /\ Q = P \ {s}
      BY <1>3, <1>4, <2>2
    <3> QED BY <1>5, <2>2, <3>1
  <2>3. CASE ~Due(r) /\ ~Due(n[s])
    <3>1. s \notin P /\ Q = P \ {s}
      BY <1>3, <1>4, <2>3
    <3> QED BY <1>5, <2>3, <3>1
  <2> QED BY <2>1, <2>2, <2>3
<1> QED BY <1>5, <1>6 DEF m, P, Q

\* What is counted still is, when the request that comes is not due.
LEMMA CountsChange ==
  ASSUME NEW n, n = [s \in Slots |-> n[s]], NEW p, NEW gm,
         p.foundSets \in Seq(ValidSets),
         p.sessionId \in Sessions \cup {None}, Counted(gm),
         Counts(n, p, gm), NEW s \in Slots, NEW r, ~Due(r)
  PROVE  Counts([n EXCEPT ![s] = r], p, gm)
<1> DEFINE m == [n EXCEPT ![s] = r]
           sid == p.sessionId
<1>1. /\ IsFiniteSet(Pending(m))
      /\ Cardinality(Pending(n)) \in Nat /\ Cardinality(Pending(m)) \in Nat
      /\ Cardinality(Pending(m)) <= Cardinality(Pending(n))
  BY PendingChange DEF Counts
<1>2. Len(p.foundSets) \in Nat
  OBVIOUS
<1> HIDE DEF m
<1>3. ASSUME sid # None, ~p.switched
      PROVE  Len(p.foundSets) + Cardinality(Pending(m)) <= gm.sess[sid].rows
  <2>1. gm.sess[sid].rows \in Nat
    BY <1>3 DEF Counted
  <2>2. Len(p.foundSets) + Cardinality(Pending(n)) <= gm.sess[sid].rows
    BY <1>3 DEF Counts
  <2> QED BY <1>1, <1>2, <2>1, <2>2
<1>4. Counts(m, p, gm)
  BY <1>1, <1>3 DEF Counts
<1> QED BY <1>4 DEF m

\* Where a request is placed.
LEMMA Placed ==
  ASSUME NEW n, NEW r, NEW m \in Place(n, r)
  PROVE  \E s \in Slots : n[s].what = "free" /\ m = [n EXCEPT ![s] = r]
BY DEF Place, FreeSlots

\* All of it, when a request that is not due takes the place of another.
LEMMA FitsChange ==
  ASSUME NEW p, NEW sv, NEW n, NEW ck, NEW dr, NEW reg, NEW gm,
         Fits(p, sv, n, ck, dr, reg, gm),
         Counted(gm),
         NEW s \in Slots, NEW r, RequestFits(r, gm), ~Due(r),
         r.heard =>
           /\ AnswerFits(r, p, ck, dr, gm)
           /\ \A t \in Slots \ {s} :
                n[t].heard => Apart(n[t], r, dr) /\ Apart(r, n[t], dr)
  PROVE  Fits(p, sv, [n EXCEPT ![s] = r], ck, dr, reg, gm)
<1>1. NetFits([n EXCEPT ![s] = r], p, ck, dr, gm)
  BY NetChange DEF Fits
<1>2. /\ n = [t \in Slots |-> n[t]]
      /\ p.foundSets \in Seq(ValidSets)
      /\ p.sessionId \in Sessions \cup {None}
  BY DEF Fits, NetFits, PageFits, PageOf
<1>3. Counts([n EXCEPT ![s] = r], p, gm)
  BY <1>2, CountsChange DEF Fits
<1> QED BY <1>1, <1>3 DEF Fits

LEMMA FitsFreed ==
  ASSUME NEW p, NEW sv, NEW n, NEW ck, NEW dr, NEW reg, NEW gm,
         Fits(p, sv, n, ck, dr, reg, gm),
         Counted(gm), NEW s \in Slots
  PROVE  Fits(p, sv, [n EXCEPT ![s] = Free], ck, dr, reg, gm)
<1>1. ~Due(Free)
  BY DEF Due, Free
<1> QED BY <1>1, FreeFits, FitsChange

-----------------------------------------------------------------------------
(* The effects of a render *)

\* A submission says what the page holds, and has a set.
LEMMA SubmissionFits ==
  ASSUME NEW p, NEW ck, NEW dr, NEW reg, NEW gm, PageFits(p, ck, dr, reg, gm),
         cookie \in Players \cup {None}, Submits(p)
  PROVE  /\ RequestFits(Submission(p), gm)
         /\ AnswerFits(Submission(p), p, ck, dr, gm)
         /\ ~Due(Submission(p)) /\ Submission(p).what = "submit"
         /\ p.selected # {} /\ p.sessionId # None
<1> DEFINE r == Submission(p)
<1>1. p.selected # {}
  BY FS_EmptySet DEF Submits
<1>2. p.sessionId # None /\ p.sessionId \in Sessions
  BY <1>1 DEF PageFits, PageOf
<1>3. /\ p.sessionToken \in Sessions \cup {None}
      /\ Held(p.sessionId, gm) /\ Held(p.sessionToken, gm)
      /\ ~p.switched => p.sessionToken \in {None, p.sessionId}
  BY DEF PageFits, PageOf
<1>4. /\ r.what = "submit" /\ r.heard = TRUE /\ r.stage = "asked"
      /\ r.sid = (IF p.sessionToken # None THEN p.sessionToken ELSE p.sessionId)
      /\ r.cards = CardsAt(p.board, p.selected) /\ r.reply = NoReply
  BY DEF Submission, Send, Free
<1>5. r \in RequestOf(r)
  BY <1>2, <1>3, <1>4
     DEF Submission, Send, Free, RequestOf, ReplyOf, NoReply
<1> HIDE DEF r
<1>6. Held(r.sid, gm) /\ r.sid # None /\ (~p.switched => r.sid = p.sessionId)
  BY <1>2, <1>3, <1>4
<1>7. r.cards \in ValidSets
  BY <1>4 DEF Submits
<1>8. Held(r.reply.sid, gm) /\ r.reply.cookie = None
  BY <1>4 DEF Held, NoReply
<1>9. RequestFits(r, gm)
  BY <1>4, <1>5, <1>6, <1>7, <1>8 DEF RequestFits
<1>10. AnswerFits(r, p, ck, dr, gm)
  BY <1>2, <1>4, <1>6 DEF AnswerFits
<1>11. ~Due(r)
  BY <1>4 DEF Due
<1> QED BY <1>1, <1>2, <1>4, <1>9, <1>10, <1>11 DEF r

\* What fits before the effect of App that submits fits after it.
LEMMA EffectFits ==
  ASSUME NEW p, NEW sv, NEW n, NEW ck, NEW reg, NEW rerun,
         Counted(World),
         cookie \in Players \cup {None},
         Fits(p, sv, n, ck, drift, reg, World), SubmitEffect(p, rerun, n)
  PROVE  /\ Fits(p, sv, net', ck, drift, reg, World)
         /\ (drift => drift') /\ (drift \in BOOLEAN => drift' \in BOOLEAN)
<1>1. CASE net' = n /\ UNCHANGED drift
  BY <1>1
<1>2. CASE /\ Submits(p) /\ net' \in Place(n, Submission(p))
           /\ drift' = (drift \/ Submissions(n) # {})
  <2>1. PICK s \in Slots :
          n[s].what = "free" /\ net' = [n EXCEPT ![s] = Submission(p)]
    BY <1>2, Placed
  <2>2. /\ RequestFits(Submission(p), World)
        /\ AnswerFits(Submission(p), p, ck, drift, World)
        /\ ~Due(Submission(p)) /\ Submission(p).what = "submit"
        /\ p.selected # {} /\ p.sessionId # None
    BY <1>2, SubmissionFits DEF Fits
  <2>3. ASSUME NEW t \in Slots, n[t].heard
        PROVE  Apart(n[t], Submission(p), drift)
               /\ Apart(Submission(p), n[t], drift)
    <3>1. AnswerFits(n[t], p, ck, drift, World)
      BY <2>3 DEF Fits, NetFits
    <3>2. ~drift => n[t].what # "daily"
      BY <2>2, <3>1 DEF AnswerFits
    <3> QED BY <2>2, <3>2 DEF Apart
  <2>4. Fits(p, sv, net', ck, drift, reg, World)
    BY <2>1, <2>2, <2>3, FitsChange
  <2> QED BY <1>2, <2>4
<1> QED BY <1>1, <1>2 DEF SubmitEffect

\* The snapshot that is kept of a page fits it.
LEMMA KeptFits ==
  ASSUME NEW p, NEW ck, NEW dr, NEW reg, NEW gm, PageFits(p, ck, dr, reg, gm)
  PROVE  SavedFits(Kept(p), p, gm) /\ SavedFits(None, p, gm)
<1>1. Len(p.foundSets) \in Nat
  BY DEF PageFits, PageOf
<1> QED BY <1>1 DEF SavedFits, Kept, SnapshotOf, PageFits, PageOf

\* A page after a change, with its effects: it is enough that page and requests
\* fit before them.
LEMMA BecomesFits ==
  ASSUME NEW p, NEW n, NEW ck, NEW reg, NEW rerun,
         Counted(World),
         cookie \in Players \cup {None},
         PageFits(p, ck, drift, reg, World),
         NetFits(n, p, ck, drift, World), Counts(n, p, World),
         Becomes(p, rerun, n)
  PROVE  /\ Fits(page', saved', net', ck, drift, reg, World)
         /\ (drift => drift') /\ (drift \in BOOLEAN => drift' \in BOOLEAN)
<1>1. page' = p /\ PersistEffect(p) /\ SubmitEffect(p, rerun, n)
  BY DEF Becomes
<1>2. SavedFits(saved', p, World)
  <2>1. saved' = None \/ saved' = Kept(p)
    BY <1>1 DEF PersistEffect
  <2> QED BY <2>1, KeptFits
<1>3. Fits(p, saved', n, ck, drift, reg, World)
  BY <1>2 DEF Fits
<1>4. /\ Fits(p, saved', net', ck, drift, reg, World)
      /\ (drift => drift') /\ (drift \in BOOLEAN => drift' \in BOOLEAN)
  BY <1>1, <1>3, EffectFits
<1> QED BY <1>1, <1>4

\* A page that takes over a session without one of its own before, or with the
\* same, counts no more than before.
LEMMA CountsMove ==
  ASSUME NEW p, NEW q, NEW sv, NEW n, NEW ck, NEW dr, NEW reg, NEW gm,
         Fits(p, sv, n, ck, dr, reg, gm), Counted(gm),
         q.sessionId \in Sessions, q.foundSets \in Seq(ValidSets),
         ~q.switched =>
           /\ ~p.switched
           /\ p.sessionId \in {None, q.sessionId}
           /\ Len(q.foundSets) <= Len(p.foundSets)
  PROVE  Counts(n, q, gm)
<1> DEFINE sid == q.sessionId
<1>1. IsFiniteSet(Pending(n)) /\ Cardinality(Pending(n)) \in Nat
  BY FS_CardinalityType DEF Fits, Counts
<1>2. Len(p.foundSets) \in Nat /\ Len(q.foundSets) \in Nat
  BY DEF Fits, PageFits, PageOf
<1>3. ASSUME ~q.switched
      PROVE  Len(q.foundSets) + Cardinality(Pending(n)) <= gm.sess[sid].rows
  <2>1. gm.sess[sid].rows \in Nat
    BY DEF Counted
  <2>2. CASE p.sessionId = None
    <3>1. Len(p.foundSets) = 0
      BY <2>2 DEF Fits, PageFits
    <3>2. \A s \in Slots : ~Due(n[s])
      BY <2>2 DEF Fits, NetFits, AnswerFits, Due
    <3>3. Pending(n) = {}
      BY <3>2 DEF Pending
    <3>4. Cardinality(Pending(n)) = 0
      BY <3>3, FS_EmptySet
    <3> QED BY <1>2, <1>3, <2>1, <3>1, <3>4
  <2>3. CASE p.sessionId = sid
    <3>1. Len(p.foundSets) + Cardinality(Pending(n)) <= gm.sess[sid].rows
      BY <1>3, <2>3, SessionParts DEF Fits, Counts
    <3> QED BY <1>1, <1>2, <1>3, <2>1, <3>1
  <2> QED BY <1>3, <2>2, <2>3
<1> QED BY <1>1, <1>3 DEF Counts

-----------------------------------------------------------------------------
(* The answers *)

\* The server does not move, the rest fits: the invariant holds.
LEMMA ServerStill ==
  ASSUME ServerFits, UNCHANGED <<sess, done, registered>>,
         cookie' \in Players \cup {None}, drift' \in BOOLEAN, drift => drift',
         Fits(page', saved', net', cookie', drift, registered, World)
  PROVE  CInv'
<1>1. Grows(World, World') /\ World' = World
  BY Rows DEF World
<1>2. registered \subseteq registered'
  OBVIOUS
<1>3. Fits(page', saved', net', cookie', drift', registered', World')
  BY <1>1, <1>2, FitsLater
<1>4. ServerFits'
  BY DEF ServerFits
<1> QED BY <1>3, <1>4 DEF CInv

\* The requests that are left when one is answered.
LEMMA Others ==
  ASSUME NEW n, NEW p, NEW ck, NEW dr, NEW gm, NetFits(n, p, ck, dr, gm),
         NEW s \in Slots, n[s].heard,
         NEW t \in Slots, [n EXCEPT ![s] = Free][t].heard
  PROVE  /\ t # s /\ [n EXCEPT ![s] = Free][t] = n[t] /\ n[t].heard
         /\ Apart(n[s], n[t], dr) /\ Apart(n[t], n[s], dr)
         /\ AnswerFits(n[t], p, ck, dr, gm)
<1>1. n = [u \in Slots |-> n[u]]
  BY DEF NetFits
<1>2. t # s
  BY <1>1, FreeFits
<1>3. [n EXCEPT ![s] = Free][t] = n[t]
  BY <1>1, <1>2
<1>4. n[t].heard
  BY <1>3
<1> QED BY <1>2, <1>3, <1>4 DEF NetFits

\* The requests fit a page and a cookie that are new when each answer does.
LEMMA NetMove ==
  ASSUME NEW n, NEW p, NEW q, NEW ck, NEW cl, NEW dr, NEW gm,
         NetFits(n, p, ck, dr, gm),
         \A t \in Slots : n[t].heard => AnswerFits(n[t], q, cl, dr, gm)
  PROVE  NetFits(n, q, cl, dr, gm)
BY DEF NetFits

\* The facts about the request that is answered.
LEMMA Answered ==
  ASSUME CInv, NEW s \in Slots, net[s].heard
  PROVE  /\ RequestFits(net[s], World)
         /\ AnswerFits(net[s], page, cookie, drift, World)
         /\ Fits(page, saved, [net EXCEPT ![s] = Free], cookie, drift,
                 registered, World)
         /\ NetFits(net, page, cookie, drift, World)
         /\ Counted(World)
         /\ cookie \in Players \cup {None} /\ drift \in BOOLEAN
<1>1. /\ Fits(page, saved, net, cookie, drift, registered, World)
      /\ Counted(World)
      /\ cookie \in Players \cup {None} /\ drift \in BOOLEAN
  BY Rows DEF CInv, ServerFits
<1>2. Fits(page, saved, [net EXCEPT ![s] = Free], cookie, drift,
           registered, World)
  BY <1>1, FitsFreed
<1> QED BY <1>1, <1>2 DEF Fits, NetFits

\* When the answer about the session is in, the others go on to a page that
\* keeps the session it knew, or says that it switched.
LEMMA AnswerAfterLoading ==
  ASSUME NEW r, NEW p, NEW q, NEW ck, NEW dr, NEW gm,
         AnswerFits(r, p, ck, dr, gm), r.what # "session", p.loading,
         q.left \in {p.left, None},
         p.sessionId # None => q.sessionId # None,
         ~q.switched => ~p.switched /\ p.sessionId \in {None, q.sessionId}
  PROVE  AnswerFits(r, q, ck, dr, gm)
BY DEF AnswerFits

\* /api/session has found the session.
LEMMA ResumeStep ==
  ASSUME CInv, NEW s \in Slots, net[s].heard, net[s].stage = "served",
         net[s].what = "session", net[s].reply.ok,
         Becomes(ResumeSession(net[s].reply), TRUE, [net EXCEPT ![s] = Free]),
         UNCHANGED <<sess, done, registered, cookie>>
  PROVE  CInv'
<1> DEFINE r == net[s]
           n == [net EXCEPT ![s] = Free]
           q == ResumeSession(r.reply)
<1>1. /\ RequestFits(r, World)
      /\ AnswerFits(r, page, cookie, drift, World)
      /\ Fits(page, saved, n, cookie, drift, registered, World)
      /\ NetFits(net, page, cookie, drift, World)
      /\ Counted(World)
      /\ cookie \in Players \cup {None} /\ drift \in BOOLEAN
  BY Answered
<1>2. page \in PageOf(page) /\ page.loading
  BY <1>1 DEF Fits, PageFits, AnswerFits
<1>3. /\ q.loading = FALSE /\ q.board = r.reply.board /\ q.startAt = TRUE
      /\ q.sessionId = r.reply.sid /\ q.selected = page.selected
      /\ q.sessionToken = page.sessionToken
      /\ q.foundSets = page.foundSets /\ q.left = page.left
      /\ q.switched = Switches(r.reply.sid)
  BY <1>2 DEF ResumeSession, PageOf
<1>4. r.reply.sid \in Sessions /\ Held(r.reply.sid, World)
  BY <1>1 DEF RequestFits, RequestOf, ReplyOf
<1>5. q \in PageOf(q)
  BY <1>2, <1>4 DEF ResumeSession, PageOf, Switches
<1>6. ~q.switched =>
        /\ ~page.switched
        /\ page.sessionId \in {None, q.sessionId}
  BY <1>3 DEF Switches
<1>7. PageFits(q, cookie, drift, registered, World)
  <2>1. q.sessionId # None
    BY <1>3, <1>4, SessionParts
  <2>2. ~q.switched => q.sessionToken \in {None, q.sessionId}
    BY <1>1, <1>3, <1>6 DEF Fits, PageFits
  <2>3. ~drift => q.selected \subseteq DOMAIN q.board
    BY <1>1, <1>2, <1>3 DEF Fits, PageFits
  <2>4. Played(q.left, World) /\ cookie = q.left[1] => q.sessionId = q.left
    BY <1>1, <1>3 DEF AnswerFits, Played
  <2> HIDE DEF q
  <2> QED BY <1>1, <1>3, <1>4, <1>5, <2>1, <2>2, <2>3, <2>4
          DEF Fits, PageFits
<1> HIDE DEF q
<1>8. NetFits(n, q, cookie, drift, World)
  <2>1. ASSUME NEW t \in Slots, n[t].heard
        PROVE  AnswerFits(n[t], q, cookie, drift, World)
    <3>1. /\ n[t] = net[t] /\ AnswerFits(net[t], page, cookie, drift, World)
          /\ Apart(r, net[t], drift)
      BY <1>1, <2>1, Others
    <3>2. net[t].what # "session"
      BY <3>1 DEF Apart
    <3>3. q.sessionId # None
      BY <1>3, <1>4, SessionParts
    <3> QED BY <1>2, <1>3, <1>6, <3>1, <3>2, <3>3, AnswerAfterLoading
  <2> QED BY <1>1, <2>1, NetMove DEF Fits
<1>9. Counts(n, q, World)
  <2>1. q.foundSets \in Seq(ValidSets) /\ Len(q.foundSets) <= Len(page.foundSets)
    BY <1>2, <1>3 DEF PageOf
  <2> QED BY <1>1, <1>3, <1>4, <1>6, <2>1, CountsMove
<1>10. /\ Fits(page', saved', net', cookie, drift, registered, World)
       /\ (drift => drift') /\ (drift \in BOOLEAN => drift' \in BOOLEAN)
  BY <1>1, <1>7, <1>8, <1>9, BecomesFits DEF q
<1> QED BY <1>1, <1>10, ServerStill DEF CInv

\* The page that takes over a snapshot is a page.
LEMMA RestoredPage ==
  ASSUME NEW p, p \in PageOf(p), NEW left \in Sessions \cup {None}, NEW board,
         NEW sid \in Sessions \cup {None}, NEW token \in Sessions \cup {None},
         NEW found \in Seq(ValidSets), NEW switched \in BOOLEAN
  PROVE  LET q == [p EXCEPT
                    !.loading = FALSE, !.left = left, !.board = board,
                    !.selected = {}, !.startAt = TRUE, !.sessionId = sid,
                    !.sessionToken = token, !.foundSets = found,
                    !.switched = switched]
         IN q \in PageOf(q)
<1> DEFINE q == [p EXCEPT
                  !.loading = FALSE, !.left = left, !.board = board,
                  !.selected = {}, !.startAt = TRUE, !.sessionId = sid,
                  !.sessionToken = token, !.foundSets = found,
                  !.switched = switched]
<1>1. q \in
        [loading : BOOLEAN, completedToday : BOOLEAN,
         asking : Players \cup {None}, board : {board}, selected : {{}},
         startAt : BOOLEAN, sessionId : Sessions \cup {None},
         sessionToken : Sessions \cup {None}, foundSets : Seq(ValidSets),
         left : Sessions \cup {None}, switched : BOOLEAN]
  BY DEF PageOf
<1> HIDE DEF q
<1>2. q \in PageOf(q)
  BY <1>1 DEF PageOf
<1> QED BY <1>2 DEF q

\* There is no session to go on with, or it cannot be asked for: the snapshot.
LEMMA RestoreStep ==
  ASSUME CInv, NEW s \in Slots, net[s].heard, net[s].what = "session",
         NEW left \in {page.left, None},
         ~(Played(left, World) /\ cookie = left[1]),
         Restore(left, [net EXCEPT ![s] = Free]),
         UNCHANGED <<sess, done, registered, cookie>>
  PROVE  CInv'
<1> DEFINE n == [net EXCEPT ![s] = Free]
           Back == saved # None /\ saved.startAt /\ saved.board # <<>>
           q == [page EXCEPT
                  !.loading = FALSE, !.left = left, !.board = saved.board,
                  !.selected = {}, !.startAt = TRUE,
                  !.sessionId = saved.sessionId,
                  !.sessionToken = saved.sessionToken,
                  !.foundSets = saved.foundSets,
                  !.switched = Switches(saved.sessionId)]
           w == [page EXCEPT !.loading = FALSE, !.left = left]
<1>1. /\ AnswerFits(net[s], page, cookie, drift, World)
      /\ Fits(page, saved, n, cookie, drift, registered, World)
      /\ NetFits(net, page, cookie, drift, World)
      /\ Counted(World)
      /\ cookie \in Players \cup {None} /\ drift \in BOOLEAN
  BY Answered
<1>2. page \in PageOf(page) /\ page.loading
  BY <1>1 DEF Fits, PageFits, AnswerFits
<1>3. /\ left \in Sessions \cup {None} /\ Held(left, World)
      /\ left # None => left[1] \in registered
  BY <1>1, <1>2 DEF Fits, PageFits, PageOf, Held
<1>4. ASSUME NEW t \in Slots, n[t].heard
      PROVE  /\ AnswerFits(n[t], page, cookie, drift, World)
             /\ n[t].what # "session"
  <2>1. /\ n[t] = net[t] /\ AnswerFits(net[t], page, cookie, drift, World)
        /\ Apart(net[s], net[t], drift)
    BY <1>1, <1>4, Others
  <2> QED BY <2>1 DEF Apart
<1> HIDE DEF n
<1>5. CASE Back
  <2>1. Becomes(q, TRUE, n)
    BY <1>5 DEF Restore, n
  <2>2. /\ q.loading = FALSE /\ q.board = saved.board /\ q.startAt = TRUE
        /\ q.sessionId = saved.sessionId /\ q.selected = {}
        /\ q.sessionToken = saved.sessionToken
        /\ q.foundSets = saved.foundSets /\ q.left = left
        /\ q.switched = Switches(saved.sessionId)
    BY <1>2 DEF PageOf
  <2>3. /\ saved \in SnapshotOf(saved)
        /\ Held(saved.sessionId, World) /\ Held(saved.sessionToken, World)
        /\ saved.sessionId # None
        /\ ~page.switched =>
             /\ saved.sessionId = page.sessionId
             /\ saved.sessionToken \in {None, saved.sessionId}
             /\ Len(saved.foundSets) <= Len(page.foundSets)
    BY <1>1, <1>5 DEF Fits, SavedFits
  <2>4. q \in PageOf(q)
    <3>1. /\ saved.sessionId \in Sessions \cup {None}
          /\ saved.sessionToken \in Sessions \cup {None}
          /\ saved.foundSets \in Seq(ValidSets)
      BY <2>3 DEF SnapshotOf
    <3>2. Switches(saved.sessionId) \in BOOLEAN
      BY <1>2 DEF Switches, PageOf
    <3> QED BY <1>2, <1>3, <2>2, <3>1, <3>2, RestoredPage DEF PageOf
  <2>5. ~q.switched => ~page.switched /\ page.sessionId \in {None, q.sessionId}
    BY <2>2 DEF Switches
  <2> HIDE DEF q
  <2>6. PageFits(q, cookie, drift, registered, World)
    BY <1>3, <2>2, <2>3, <2>4, <2>5 DEF PageFits
  <2>7. NetFits(n, q, cookie, drift, World)
    <3>1. \A t \in Slots :
            n[t].heard => AnswerFits(n[t], q, cookie, drift, World)
      BY <1>2, <1>4, <2>2, <2>3, <2>5, AnswerAfterLoading
    <3> QED BY <1>1, <3>1, NetMove DEF Fits
  <2>8. Counts(n, q, World)
    <3>1. q.foundSets \in Seq(ValidSets) /\ q.sessionId \in Sessions
      BY <2>2, <2>3 DEF SnapshotOf
    <3>2. ~q.switched => Len(q.foundSets) <= Len(page.foundSets)
      BY <2>2, <2>3, <2>5
    <3> QED BY <1>1, <2>5, <3>1, <3>2, CountsMove
  <2>9. /\ Fits(page', saved', net', cookie, drift, registered, World)
        /\ (drift => drift') /\ (drift \in BOOLEAN => drift' \in BOOLEAN)
    BY <1>1, <2>1, <2>6, <2>7, <2>8, BecomesFits
  <2> QED BY <1>1, <2>9, ServerStill DEF CInv
<1>6. CASE ~Back
  <2>1. /\ page' = w /\ net' = n /\ saved' = saved /\ drift' = drift
    BY <1>6 DEF Restore, n
  <2>2. /\ w.loading = FALSE /\ w.board = page.board
        /\ w.startAt = page.startAt
        /\ w.sessionId = page.sessionId /\ w.selected = page.selected
        /\ w.sessionToken = page.sessionToken
        /\ w.foundSets = page.foundSets /\ w.left = left
        /\ w.switched = page.switched
    BY <1>2 DEF PageOf
  <2>3. w \in PageOf(w)
    BY <1>2, <1>3 DEF PageOf
  <2> HIDE DEF w
  <2>4. PageFits(w, cookie, drift, registered, World)
    BY <1>1, <1>3, <2>2, <2>3 DEF Fits, PageFits
  <2>5. SavedFits(saved, w, World)
    BY <1>1, <2>2 DEF Fits, SavedFits
  <2>6. NetFits(n, w, cookie, drift, World)
    <3>1. \A t \in Slots :
            n[t].heard => AnswerFits(n[t], w, cookie, drift, World)
      BY <1>2, <1>4, <2>2, AnswerAfterLoading
    <3> QED BY <1>1, <3>1, NetMove DEF Fits
  <2>7. Counts(n, w, World)
    BY <1>1, <2>2 DEF Fits, Counts
  <2>8. Fits(page', saved', net', cookie, drift, registered, World)
    BY <2>1, <2>4, <2>5, <2>6, <2>7 DEF Fits
  <2> QED BY <1>1, <2>1, <2>8, ServerStill DEF CInv
<1> QED BY <1>5, <1>6

\* The headers of a start set a cookie, which is not that of the session left.
LEMMA HeadersStep ==
  ASSUME CInv, NEW s \in Slots, Headers(s)
  PROVE  CInv'
<1> DEFINE r == net[s]
           ck == r.reply.cookie
           q == [r EXCEPT !.reply.cookie = None]
<1>1. /\ r.heard /\ ck # None /\ r.stage = "served" /\ cookie' = ck
      /\ net' = [net EXCEPT ![s] = q]
      /\ UNCHANGED <<sess, done, registered, page, saved, drift>>
  BY DEF Headers, serverVars
<1>2. /\ RequestFits(r, World)
      /\ AnswerFits(r, page, cookie, drift, World)
      /\ Fits(page, saved, net, cookie, drift, registered, World)
      /\ NetFits(net, page, cookie, drift, World)
      /\ Counted(World) /\ drift \in BOOLEAN
  BY <1>1, Answered DEF CInv
<1>3. r.what = "start" /\ ck \in Players
  BY <1>1, <1>2 DEF RequestFits, RequestOf, ReplyOf
<1>4. page.left # None => page.left[1] # ck
  BY <1>1, <1>2, <1>3 DEF AnswerFits
<1>5. /\ q.what = "start" /\ q.heard = r.heard /\ q.stage = "served"
      /\ q.user = r.user /\ q.sid = r.sid /\ q.reply.sid = r.reply.sid
      /\ q.reply.ok = r.reply.ok /\ q.reply.cookie = None
  BY <1>1, <1>2, <1>3 DEF RequestFits, RequestOf, ReplyOf
<1>6. q \in RequestOf(q)
  BY <1>2 DEF RequestFits, RequestOf, ReplyOf
<1> HIDE DEF q
<1>7. RequestFits(q, World) /\ ~Due(q)
  BY <1>2, <1>5, <1>6, <1>1, <1>3 DEF RequestFits, Due
<1>8. PageFits(page, ck, drift, registered, World)
  BY <1>2, <1>4 DEF Fits, PageFits, Played
<1>9. NetFits(net, page, ck, drift, World)
  <2>1. ASSUME NEW t, AnswerFits(t, page, cookie, drift, World)
        PROVE  AnswerFits(t, page, ck, drift, World)
    BY <1>4, <2>1 DEF AnswerFits
  <2> QED BY <1>2, <2>1, NetMove DEF NetFits
<1>10. AnswerFits(q, page, ck, drift, World)
  BY <1>2, <1>3, <1>5 DEF AnswerFits
<1>11. ASSUME NEW t \in Slots \ {s}, net[t].heard
       PROVE  Apart(net[t], q, drift) /\ Apart(q, net[t], drift)
  <2>1. Apart(net[t], r, drift) /\ Apart(r, net[t], drift)
    BY <1>1, <1>2, <1>11 DEF NetFits
  <2> QED BY <1>3, <1>5, <2>1 DEF Apart
<1>12. Fits(page, saved, net, ck, drift, registered, World)
  BY <1>2, <1>8, <1>9 DEF Fits
<1> HIDE DEF ck, r
<1>13. Fits(page, saved, net', ck, drift, registered, World)
  BY <1>1, <1>2, <1>7, <1>10, <1>11, <1>12, FitsChange
<1>14. ServerFits
  BY DEF CInv
<1> QED BY <1>1, <1>2, <1>3, <1>13, <1>14, ServerStill

\* A start is answered: the page has a session, and asks for its board.
LEMMA StartStep ==
  ASSUME CInv, NEW s \in Slots, net[s].heard, net[s].stage = "served", DeliverStart(s),
         UNCHANGED <<sess, done, registered, cookie>>
  PROVE  CInv'
<1> DEFINE reply == net[s].reply
           n == [net EXCEPT ![s] = Free]
           daily == [Send("daily") EXCEPT !.sid = reply.sid, !.cookie = None]
           q == [page EXCEPT !.sessionId = reply.sid,
                             !.sessionToken = reply.sid, !.startAt = TRUE,
                             !.switched = Switches(reply.sid)]
           m == [net EXCEPT ![s] = daily]
<1>1. /\ net[s].what = "start"
      /\ RequestFits(net[s], World)
      /\ AnswerFits(net[s], page, cookie, drift, World)
      /\ NetFits(net, page, cookie, drift, World)
      /\ Counted(World)
      /\ cookie \in Players \cup {None} /\ drift \in BOOLEAN
  BY Answered DEF DeliverStart
<1>2. Fits(page, saved, n, cookie, drift, registered, World)
  BY Answered
<1>3. CASE ~reply.ok
  <2>1. /\ net' = n /\ page' = page /\ saved' = saved /\ drift' = drift
    BY <1>3 DEF DeliverStart
  <2>2. Fits(page', saved', net', cookie, drift, registered, World)
    BY <1>2, <2>1
  <2> QED BY <1>1, <1>2, <2>1, <2>2, ServerStill DEF CInv
<1>4. CASE reply.ok
  <2>1. Becomes(q, q # page, m)
    BY <1>4 DEF DeliverStart
  <2>2. page \in PageOf(page) /\ PageFits(page, cookie, drift, registered, World)
    BY <1>2 DEF Fits, PageFits
  <2>3. reply.sid \in Sessions /\ reply.sid # None /\ Held(reply.sid, World)
    BY <1>1, <1>4, SessionParts DEF RequestFits, RequestOf, ReplyOf
  <2>4. /\ q.loading = page.loading /\ q.board = page.board
        /\ q.startAt = TRUE /\ q.sessionId = reply.sid
        /\ q.selected = page.selected /\ q.sessionToken = reply.sid
        /\ q.foundSets = page.foundSets /\ q.left = page.left
        /\ q.switched = Switches(reply.sid)
    BY <2>2 DEF PageOf
  <2>5. q \in PageOf(q)
    BY <2>2, <2>3 DEF PageOf, Switches
  <2>6. ~q.switched => ~page.switched /\ page.sessionId \in {None, q.sessionId}
    BY <2>4 DEF Switches
  <2>7. /\ daily.what = "daily" /\ daily.sid = reply.sid
        /\ daily.reply = NoReply
    BY DEF Send, Free
  <2>8. RequestFits(daily, World) /\ ~Due(daily)
    <3>1. daily \in RequestOf(daily)
      BY <2>3 DEF Send, Free, RequestOf, ReplyOf, NoReply
    <3>2. Held(daily.reply.sid, World) /\ daily.reply.cookie = None
      BY <2>7 DEF Held, NoReply
    <3> HIDE DEF daily
    <3> QED BY <2>3, <2>7, <3>1, <3>2 DEF RequestFits, Due
  <2>9. ~drift => /\ page.sessionId = None /\ ~page.loading
                  /\ page.selected = {} /\ page.board = <<>>
    BY <1>1, <2>2 DEF AnswerFits, PageFits
  <2> HIDE DEF q, daily
  <2>10. PageFits(q, cookie, drift, registered, World)
    <3>1. ~q.loading /\ Played(q.left, World) /\ cookie = q.left[1] =>
            q.sessionId = q.left \/ q.switched
      BY <2>2, <2>4, <2>6 DEF PageFits, Played
    <3> QED BY <2>2, <2>3, <2>4, <2>5, <2>9, <3>1 DEF PageFits
  <2>11. ASSUME NEW t \in Slots, n[t].heard
         PROVE  /\ AnswerFits(n[t], q, cookie, drift, World)
                /\ Apart(n[t], daily, drift) /\ Apart(daily, n[t], drift)
    <3>1. /\ AnswerFits(n[t], page, cookie, drift, World)
          /\ Apart(net[s], n[t], drift)
      <4>1. n[t] = net[t] /\ Apart(net[s], net[t], drift)
        BY <1>1, <2>11, Others
      <4> HIDE DEF n
      <4>2. AnswerFits(n[t], page, cookie, drift, World)
        BY <1>2, <2>11 DEF Fits, NetFits
      <4> QED BY <4>1, <4>2
    <3>2. AnswerFits(n[t], q, cookie, drift, World)
      BY <1>1, <2>3, <2>4, <2>6, <2>9, <3>1 DEF AnswerFits, Apart
    <3>3. Apart(n[t], daily, drift) /\ Apart(daily, n[t], drift)
      BY <1>1, <2>7, <2>9, <3>1 DEF AnswerFits, Apart
    <3> QED BY <3>2, <3>3
  <2>12. AnswerFits(daily, q, cookie, drift, World)
    BY <2>3, <2>4, <2>7, <2>9 DEF AnswerFits
  <2>13. NetFits(n, q, cookie, drift, World)
    BY <1>2, <2>11, NetMove DEF Fits
  <2>14. Counts(n, q, World)
    <3>1. q.foundSets \in Seq(ValidSets) /\ Len(q.foundSets) <= Len(page.foundSets)
      BY <2>2, <2>4 DEF PageOf
    <3> QED BY <1>1, <1>2, <2>3, <2>4, <2>6, <3>1, CountsMove
  <2>15. m = [n EXCEPT ![s] = daily]
    BY <1>1 DEF NetFits
  <2> HIDE DEF m, n
  <2>16. NetFits(m, q, cookie, drift, World)
    BY <2>8, <2>11, <2>12, <2>13, <2>15, NetChange
  <2>17. Counts(m, q, World)
    <3>1. /\ n = [t \in Slots |-> n[t]] /\ q.foundSets \in Seq(ValidSets)
          /\ q.sessionId \in Sessions \cup {None}
      BY <2>5, <2>13 DEF NetFits, PageOf
    <3> QED BY <1>1, <2>8, <2>14, <2>15, <3>1, CountsChange
  <2>18. /\ Fits(page', saved', net', cookie, drift, registered, World)
         /\ (drift => drift') /\ (drift \in BOOLEAN => drift' \in BOOLEAN)
    BY <1>1, <2>1, <2>10, <2>16, <2>17, BecomesFits
  <2> QED BY <1>1, <1>2, <2>18, ServerStill DEF CInv
<1> QED BY <1>3, <1>4

\* The board of the session is there.
LEMMA DailyStep ==
  ASSUME CInv, NEW s \in Slots, net[s].heard, DeliverDaily(s),
         UNCHANGED <<sess, done, registered, cookie>>
  PROVE  CInv'
<1> DEFINE n == [net EXCEPT ![s] = Free]
           q == [page EXCEPT !.board = Deal]
<1>1. /\ net[s].what = "daily" /\ Becomes(q, TRUE, n)
      /\ AnswerFits(net[s], page, cookie, drift, World)
      /\ Fits(page, saved, n, cookie, drift, registered, World)
      /\ NetFits(net, page, cookie, drift, World)
      /\ Counted(World)
      /\ cookie \in Players \cup {None} /\ drift \in BOOLEAN
  BY Answered DEF DeliverDaily
<1>2. page \in PageOf(page)
  BY <1>1 DEF Fits, PageFits
<1>3. /\ q.loading = page.loading /\ q.board = Deal
      /\ q.startAt = page.startAt /\ q.sessionId = page.sessionId
      /\ q.selected = page.selected /\ q.sessionToken = page.sessionToken
      /\ q.foundSets = page.foundSets /\ q.left = page.left
      /\ q.switched = page.switched
  BY <1>2 DEF PageOf
<1>4. q \in PageOf(q)
  BY <1>2 DEF PageOf
<1> HIDE DEF q
<1>5. page.sessionId # None /\ (~drift => page.selected = {})
  BY <1>1 DEF AnswerFits
<1>6. PageFits(q, cookie, drift, registered, World)
  BY <1>1, <1>3, <1>4, <1>5 DEF Fits, PageFits
<1>7. NetFits(n, q, cookie, drift, World)
  <2>1. ASSUME NEW t \in Slots, n[t].heard
        PROVE  AnswerFits(n[t], q, cookie, drift, World)
    <3>1. /\ AnswerFits(n[t], page, cookie, drift, World)
          /\ Apart(net[s], n[t], drift)
      BY <1>1, <2>1, Others
    <3> QED BY <1>1, <1>3, <3>1 DEF AnswerFits, Apart
  <2> QED BY <1>1, <2>1, NetMove DEF Fits
<1>8. Counts(n, q, World)
  BY <1>1, <1>3 DEF Fits, Counts
<1>9. /\ Fits(page', saved', net', cookie, drift, registered, World)
      /\ (drift => drift') /\ (drift \in BOOLEAN => drift' \in BOOLEAN)
  BY <1>1, <1>6, <1>7, <1>8, BecomesFits
<1> QED BY <1>1, <1>9, ServerStill DEF CInv

\* A submission is accepted: what was due is counted.
LEMMA SubmitStep ==
  ASSUME CInv, NEW s \in Slots, net[s].heard, net[s].stage = "served", DeliverSubmit(s),
         UNCHANGED <<sess, done, registered, cookie>>
  PROVE  CInv'
<1> DEFINE r == net[s]
           n == [net EXCEPT ![s] = Free]
           q == Accept(r)
<1>1. /\ r.what = "submit" /\ RequestFits(r, World)
      /\ AnswerFits(r, page, cookie, drift, World)
      /\ Fits(page, saved, n, cookie, drift, registered, World)
      /\ NetFits(net, page, cookie, drift, World)
      /\ Counted(World)
      /\ cookie \in Players \cup {None} /\ drift \in BOOLEAN
  BY Answered DEF DeliverSubmit
<1>2. CASE ~r.reply.ok
  <2>1. /\ net' = n /\ page' = page /\ saved' = saved /\ drift' = drift
    BY <1>2 DEF DeliverSubmit
  <2> QED BY <1>1, <2>1, ServerStill DEF CInv
<1>3. CASE r.reply.ok
  <2>1. Becomes(q, TRUE, n)
    BY <1>3 DEF DeliverSubmit
  <2>2. page \in PageOf(page) /\ page.foundSets \in Seq(ValidSets)
    BY <1>1 DEF Fits, PageFits, PageOf
  <2>3. r.cards \in ValidSets
    BY <1>1 DEF RequestFits
  <2>4. /\ q.loading = page.loading /\ q.startAt = page.startAt
        /\ q.sessionId = page.sessionId /\ q.selected = {}
        /\ q.sessionToken = page.sessionToken
        /\ q.foundSets = Append(page.foundSets, r.cards)
        /\ q.left = page.left /\ q.switched = page.switched
    BY <2>2 DEF PageOf, Accept
  <2>5. /\ q.foundSets \in Seq(ValidSets)
        /\ Len(q.foundSets) = Len(page.foundSets) + 1
        /\ Len(page.foundSets) \in Nat
    BY <2>2, <2>3, <2>4
  <2>6. q \in PageOf(q)
    BY <2>2, <2>4, <2>5 DEF PageOf, Accept
  <2> HIDE DEF q
  <2>7. page.sessionId # None
    BY <1>1 DEF AnswerFits
  <2>8. PageFits(q, cookie, drift, registered, World)
    BY <1>1, <2>4, <2>6, <2>7 DEF Fits, PageFits
  <2>9. NetFits(n, q, cookie, drift, World)
    <3>1. ASSUME NEW t \in Slots, n[t].heard
          PROVE  AnswerFits(n[t], q, cookie, drift, World)
      <4>1. /\ AnswerFits(n[t], page, cookie, drift, World)
            /\ Apart(n[t], r, drift)
        BY <1>1, <3>1, Others
      <4> QED BY <1>1, <2>4, <4>1 DEF AnswerFits, Apart
    <3> QED BY <1>1, <3>1, NetMove DEF Fits
  <2>10. Counts(n, q, World)
    <3>1. /\ net = [t \in Slots |-> net[t]] /\ Counts(net, page, World)
          /\ IsFiniteSet(Pending(net))
      BY <1>1 DEF CInv, Fits, NetFits, Counts
    <3>2. Due(r) /\ ~Due(Free)
      BY <1>1, <1>3 DEF Due, Free
    <3>3. /\ IsFiniteSet(Pending(n)) /\ Cardinality(Pending(net)) \in Nat
          /\ Cardinality(Pending(n)) = Cardinality(Pending(net)) - 1
      BY <3>1, <3>2, PendingChange
    <3> DEFINE sid == page.sessionId
    <3>4. ASSUME ~page.switched
          PROVE  Len(q.foundSets) + Cardinality(Pending(n))
                   <= World.sess[sid].rows
      <4>1. Len(page.foundSets) + Cardinality(Pending(net))
              <= World.sess[sid].rows
        BY <2>7, <3>1, <3>4 DEF Counts
      <4>2. World.sess[sid].rows \in Nat
        BY <1>1, <2>2, <2>7 DEF PageOf, Counted
      <4> HIDE DEF n
      <4> QED BY <2>5, <3>3, <4>1, <4>2
    <3> HIDE DEF n
    <3> QED BY <2>4, <3>3, <3>4 DEF Counts
  <2>11. /\ Fits(page', saved', net', cookie, drift, registered, World)
         /\ (drift => drift') /\ (drift \in BOOLEAN => drift' \in BOOLEAN)
    BY <1>1, <2>1, <2>8, <2>9, <2>10, BecomesFits
  <2> QED BY <1>1, <2>11, ServerStill DEF CInv
<1> QED BY <1>2, <1>3

-----------------------------------------------------------------------------
(* Requests that fail *)

\* The board of a session cannot be had: the snapshot says so.
LEMMA DailyFails ==
  ASSUME CInv, NEW s \in Slots, net[s].heard, FailDaily(s),
         UNCHANGED <<sess, done, registered, cookie>>
  PROVE  CInv'
<1> DEFINE n == [net EXCEPT ![s] = Free]
           r == net[s]
<1>1. /\ r.what = "daily" /\ net' = n /\ page' = page /\ drift' = TRUE
      /\ saved' = [startAt |-> TRUE, board |-> <<>>, sessionId |-> r.sid,
                   sessionToken |-> r.sid, foundSets |-> <<>>]
      /\ RequestFits(r, World)
      /\ AnswerFits(r, page, cookie, drift, World)
      /\ Fits(page, saved, n, cookie, drift, registered, World)
      /\ cookie \in Players \cup {None}
  BY Answered DEF FailDaily
<1>2. r.sid \in Sessions /\ r.sid # None /\ Held(r.sid, World)
  BY <1>1, SessionParts DEF RequestFits, RequestOf
<1>3. Len(page.foundSets) \in Nat
  BY <1>1 DEF Fits, PageFits, PageOf
<1>4. SavedFits(saved', page, World)
  <2>1. /\ saved'.startAt = TRUE /\ saved'.sessionId = r.sid
        /\ saved'.sessionToken = r.sid /\ saved'.foundSets = <<>>
        /\ Len(saved'.foundSets) = 0
    BY <1>1
  <2>2. saved' \in SnapshotOf(saved')
    BY <1>1, <1>2 DEF SnapshotOf
  <2>3. ~page.switched => r.sid = page.sessionId
    BY <1>1 DEF AnswerFits
  <2> QED BY <1>2, <1>3, <2>1, <2>2, <2>3 DEF SavedFits
<1>5. Fits(page', saved', net', cookie', drift, registered, World)
  BY <1>1, <1>4 DEF Fits
<1>6. ServerFits /\ drift' \in BOOLEAN /\ (drift => drift')
  BY <1>1 DEF CInv
<1> QED BY <1>1, <1>5, <1>6, ServerStill

\* What is given up stays a request, to the server.
LEMMA AbandonedFits ==
  ASSUME NEW r, NEW gm, RequestFits(r, gm)
  PROVE  /\ RequestFits(Abandoned(r), gm) /\ ~Abandoned(r).heard
         /\ ~Due(Abandoned(r))
<1>1. CASE Abandoned(r) = Free
  BY <1>1, FreeFits DEF Due
<1>2. CASE Abandoned(r) = [r EXCEPT !.heard = FALSE]
  <2> DEFINE q == [r EXCEPT !.heard = FALSE]
  <2>1. /\ q.what = r.what /\ q.heard = FALSE /\ q.stage = r.stage
        /\ q.cookie = r.cookie /\ q.user = r.user /\ q.sid = r.sid
        /\ q.cards = r.cards /\ q.reply = r.reply /\ q.at = r.at
    BY DEF RequestFits, RequestOf
  <2>2. q \in RequestOf(q)
    BY DEF RequestFits, RequestOf
  <2> HIDE DEF q
  <2>3. RequestFits(q, gm) /\ ~q.heard /\ ~Due(q)
    BY <2>1, <2>2 DEF RequestFits, Due
  <2> QED BY <1>2, <2>3 DEF q
<1> QED BY <1>1, <1>2 DEF Abandoned

\* A command fails.
LEMMA CommandFails ==
  ASSUME CInv, NEW s \in Slots, net[s].heard, FailCommand(s),
         UNCHANGED <<sess, done, registered, cookie>>
  PROVE  CInv'
<1>1. /\ net' = [net EXCEPT ![s] = Abandoned(net[s])]
      /\ page' = page /\ saved' = saved
      /\ drift' \in BOOLEAN /\ (drift => drift')
  BY DEF FailCommand, CInv, ServerFits
<1>2. /\ RequestFits(net[s], World)
      /\ Fits(page, saved, net, cookie, drift, registered, World)
      /\ Counted(World)
      /\ cookie \in Players \cup {None}
  BY Rows DEF CInv, ServerFits, Fits, NetFits
<1>3. Fits(page, saved, net', cookie, drift, registered, World)
  <2>1. /\ RequestFits(Abandoned(net[s]), World) /\ ~Abandoned(net[s]).heard
        /\ ~Due(Abandoned(net[s]))
    BY <1>2, AbandonedFits
  <2> QED BY <1>1, <1>2, <2>1, FitsChange
<1> QED BY <1>1, <1>2, <1>3, ServerStill DEF CInv

-----------------------------------------------------------------------------
(* The player *)

\* A card is selected, or no longer.
LEMMA ToggleStep ==
  ASSUME CInv, NEW i, Toggle(i)
  PROVE  CInv'
<1> DEFINE sel == IF i \in page.selected THEN page.selected \ {i}
                  ELSE IF Cardinality(page.selected) >= 3 THEN page.selected
                  ELSE page.selected \cup {i}
           q == [page EXCEPT !.selected = sel]
<1>1. /\ BoardShown /\ i \in DOMAIN page.board /\ page' = q
      /\ SubmitEffect(q, q.selected # page.selected, net)
      /\ UNCHANGED <<sess, done, registered, cookie, saved>>
  BY DEF Toggle, serverVars
<1>2. /\ Fits(page, saved, net, cookie, drift, registered, World)
      /\ page \in PageOf(page)
      /\ Counted(World)
      /\ cookie \in Players \cup {None} /\ drift \in BOOLEAN
  BY Rows DEF CInv, ServerFits, Fits, PageFits
<1>3. /\ q.loading = page.loading /\ q.board = page.board
      /\ q.startAt = page.startAt /\ q.sessionId = page.sessionId
      /\ q.selected = sel /\ q.sessionToken = page.sessionToken
      /\ q.foundSets = page.foundSets /\ q.left = page.left
      /\ q.switched = page.switched
  BY <1>2 DEF PageOf
<1>4. q \in PageOf(q)
  BY <1>2 DEF PageOf
<1>5. page.selected \subseteq DOMAIN page.board => sel \subseteq DOMAIN page.board
  BY <1>1
<1>6. page.startAt /\ page.board # <<>> /\ ~page.loading
  BY <1>1 DEF BoardShown
<1> HIDE DEF q, sel
<1>7. PageFits(q, cookie, drift, registered, World)
  BY <1>2, <1>3, <1>4, <1>5, <1>6 DEF Fits, PageFits
<1>8. SavedFits(saved, q, World) /\ Counts(net, q, World)
  BY <1>2, <1>3 DEF Fits, SavedFits, Counts
<1>9. NetFits(net, q, cookie, drift, World)
  <2>1. ASSUME NEW t \in Slots, net[t].heard
        PROVE  AnswerFits(net[t], q, cookie, drift, World)
    <3>1. AnswerFits(net[t], page, cookie, drift, World)
      BY <1>2, <2>1 DEF Fits, NetFits
    <3> QED BY <1>3, <1>6, <3>1 DEF AnswerFits
  <2> QED BY <1>2, <2>1, NetMove DEF Fits
<1>10. /\ Fits(q, saved, net', cookie, drift, registered, World)
       /\ (drift => drift') /\ (drift \in BOOLEAN => drift' \in BOOLEAN)
  BY <1>1, <1>2, <1>7, <1>8, <1>9, EffectFits DEF Fits
<1> QED BY <1>1, <1>2, <1>10, ServerStill DEF CInv

\* The status of the player is learnt.
LEMMA StatusStep ==
  ASSUME CInv, LearnStatus
  PROVE  CInv'
<1>1. PICK yes \in {FALSE, page.asking \in done} :
        page' = [page EXCEPT !.asking = None, !.completedToday = yes]
  BY DEF LearnStatus
<1>2. /\ Fits(page, saved, net, cookie, drift, registered, World)
      /\ page \in PageOf(page)
      /\ cookie \in Players \cup {None} /\ drift \in BOOLEAN
      /\ UNCHANGED <<sess, done, registered, cookie, saved, net, drift>>
  BY DEF CInv, ServerFits, Fits, PageFits, LearnStatus, serverVars
<1> DEFINE q == [page EXCEPT !.asking = None, !.completedToday = yes]
<1>3. /\ q.loading = page.loading /\ q.board = page.board
      /\ q.startAt = page.startAt /\ q.sessionId = page.sessionId
      /\ q.selected = page.selected /\ q.sessionToken = page.sessionToken
      /\ q.foundSets = page.foundSets /\ q.left = page.left
      /\ q.switched = page.switched
  BY <1>2 DEF PageOf
<1>4. q \in PageOf(q)
  <2>1. yes \in BOOLEAN
    <3>1. CASE page.asking \in done
      <4>1. yes \in {FALSE, TRUE}
        BY <3>1
      <4> QED BY <4>1
    <3>2. CASE ~(page.asking \in done)
      <4>1. (page.asking \in done) = FALSE
        BY <3>2
      <4>2. yes = FALSE
        BY <4>1, Zenon
      <4> QED BY <4>2
    <3> QED BY <3>1, <3>2
  <2> QED BY <1>2, <2>1 DEF PageOf
<1> HIDE DEF q
<1>5. PageFits(q, cookie, drift, registered, World)
  BY <1>2, <1>3, <1>4 DEF Fits, PageFits
<1>6. SavedFits(saved, q, World) /\ Counts(net, q, World)
  BY <1>2, <1>3 DEF Fits, SavedFits, Counts
<1>7. NetFits(net, q, cookie, drift, World)
  <2>1. ASSUME NEW t \in Slots, net[t].heard
        PROVE  AnswerFits(net[t], q, cookie, drift, World)
    <3>1. AnswerFits(net[t], page, cookie, drift, World)
      BY <1>2, <2>1 DEF Fits, NetFits
    <3> QED BY <1>3, <3>1 DEF AnswerFits
  <2> QED BY <1>2, <2>1, NetMove DEF Fits
<1>8. Fits(page', saved', net', cookie', drift, registered, World)
  <2>1. page' = q
    BY <1>1 DEF q
  <2> QED BY <1>2, <1>5, <1>6, <1>7, <2>1 DEF Fits
<1> QED BY <1>2, <1>8, ServerStill DEF CInv

\* The sessions do not move.
LEMMA ServerSame ==
  ASSUME ServerFits, UNCHANGED <<sess, done>>, registered \subseteq registered',
         registered' \subseteq Players, UNCHANGED cookie, drift' \in BOOLEAN
  PROVE  ServerFits' /\ Grows(World, World')
<1>1. Grows(World, World') /\ World' = World
  BY Rows DEF World
<1>2. \A sid \in Sessions : RowFits(sess[sid], sid, registered')
  BY DEF ServerFits, RowFits
<1> QED BY <1>1, <1>2 DEF ServerFits

\* The start button is clicked.
LEMMA ClickStep ==
  ASSUME CInv, NEW u \in Players, ClickStart(u)
  PROVE  CInv'
<1> DEFINE r == [Send("start") EXCEPT !.user = u]
<1>1. /\ OverlayShown /\ net' \in Place(net, r)
      /\ drift' = (drift \/ page.loading \/ Waiting("start") # {})
      /\ UNCHANGED <<sess, done, registered, cookie, page, saved>>
  BY DEF ClickStart, serverVars
<1>2. /\ ServerFits /\ Fits(page, saved, net, cookie, drift, registered, World)
      /\ Counted(World)
      /\ cookie \in Players \cup {None} /\ drift \in BOOLEAN
      /\ registered \subseteq Players
  BY Rows DEF CInv, ServerFits
<1>3. page \in PageOf(page)
  BY <1>2 DEF Fits, PageFits
<1>4. drift' \in BOOLEAN /\ (drift => drift')
  BY <1>1, <1>2
<1>5. ServerFits' /\ Grows(World, World)
  BY <1>1, <1>2, <1>4, ServerSame, Rows
<1>6. Fits(page, saved, net, cookie, drift', registered, World)
  BY <1>2, <1>4, <1>5, FitsLater
<1>7. PICK s \in Slots : net[s].what = "free" /\ net' = [net EXCEPT ![s] = r]
  BY <1>1, Placed
<1>8. /\ r.what = "start" /\ r.heard = TRUE /\ r.stage = "asked"
      /\ r.user = u /\ r.sid = None /\ r.reply = NoReply
  BY DEF Send, Free
<1>9. RequestFits(r, World) /\ ~Due(r)
  <2>1. r \in RequestOf(r) /\ u # None
    BY <1>2, NoneIsNothing DEF Send, Free, RequestOf, ReplyOf, NoReply
  <2>2. Held(r.sid, World) /\ Held(r.reply.sid, World)
    BY <1>8 DEF Held, NoReply
  <2> HIDE DEF r
  <2>3. r.reply.cookie = None /\ ~r.reply.ok
    BY <1>8 DEF NoReply
  <2> QED BY <1>8, <2>1, <2>2, <2>3 DEF RequestFits, Due
<1> HIDE DEF r
<1>10. page.sessionId = None /\ (~drift' => ~page.loading)
  BY <1>1 DEF OverlayShown
<1>11. AnswerFits(r, page, cookie, drift', World)
  BY <1>8, <1>10 DEF AnswerFits
<1>12. ASSUME NEW t \in Slots, net[t].heard
       PROVE  Apart(net[t], r, drift') /\ Apart(r, net[t], drift')
  <2>1. ~drift' => net[t].what # "start"
    BY <1>1, <1>12 DEF Waiting
  <2>2. net[t].what \notin {"daily", "submit"}
    BY <1>2, <1>10, <1>12 DEF Fits, NetFits, AnswerFits
  <2> QED BY <1>8, <2>1, <2>2 DEF Apart
<1>13. Fits(page, saved, net', cookie, drift', registered, World)
  BY <1>2, <1>6, <1>7, <1>9, <1>11, <1>12, FitsChange
<1>14. World' = World
  BY <1>1 DEF World
<1> QED BY <1>1, <1>5, <1>13, <1>14 DEF CInv

\* What a reload comes back to was begun, by a player that exists.
LEMMA ToResumeFits ==
  ASSUME CInv
  PROVE  /\ ToResume \in Sessions \cup {None} /\ Held(ToResume, World)
         /\ ToResume # None => ToResume[1] \in registered
<1>1. CASE ToResume = None
  BY <1>1 DEF Held
<1>2. CASE ToResume # None
  <2>1. ToResume = page.sessionId /\ sess[page.sessionId].state = "active"
    BY <1>2 DEF ToResume, Current
  <2>2. page.sessionId \in Sessions /\ Held(page.sessionId, World)
    BY <1>2, <2>1 DEF CInv, Fits, PageFits, PageOf
  <2>3. page.sessionId[1] \in registered
    BY <2>1, <2>2 DEF CInv, ServerFits, RowFits
  <2> QED BY <2>1, <2>2, <2>3
<1> QED BY <1>1, <1>2

\* A page that is new, with one request: for the session of the cookie.
LEMMA MountFits ==
  ASSUME NEW left \in Sessions \cup {None}, Held(left, World),
         left # None => left[1] \in registered,
         cookie \in Players \cup {None}, NEW dr \in BOOLEAN,
         Counted(World),
         NEW n, n = [s \in Slots |-> n[s]],
         \A s \in Slots : RequestFits(n[s], World) /\ ~n[s].heard,
         NEW m \in Place(n, Send("session"))
  PROVE  LET q == EmptyPage(left)
         IN Fits(q, Kept(q), m, cookie, dr, registered, World)
<1> DEFINE q == EmptyPage(left)
           r == Send("session")
<1>1. /\ q.loading = TRUE /\ q.board = <<>> /\ q.selected = {}
      /\ q.startAt = FALSE /\ q.sessionId = None /\ q.sessionToken = None
      /\ q.foundSets = <<>> /\ q.left = left /\ q.switched = FALSE
      /\ Len(q.foundSets) = 0
  BY DEF EmptyPage
<1>2. q \in PageOf(q)
  BY DEF EmptyPage, PageOf
<1>3. /\ r.what = "session" /\ r.heard = TRUE /\ r.stage = "asked"
      /\ r.cookie = cookie /\ r.sid = None /\ r.reply = NoReply
  BY DEF Send, Free
<1>4. r \in RequestOf(r)
  BY DEF Send, Free, RequestOf, ReplyOf, NoReply
<1> HIDE DEF q, r
<1>5. PageFits(q, cookie, dr, registered, World)
  BY <1>1, <1>2 DEF PageFits, Held
<1>6. NetFits(n, q, cookie, dr, World)
  BY DEF NetFits
<1>7. Counts(n, q, World)
  <2>1. Pending(n) = {}
    BY DEF Pending, Due
  <2>2. IsFiniteSet(Pending(n))
    BY <2>1, FS_EmptySet
  <2> QED BY <1>1, <2>2 DEF Counts
<1>8. Fits(q, Kept(q), n, cookie, dr, registered, World)
  BY <1>5, <1>6, <1>7, KeptFits DEF Fits
<1>9. PICK s \in Slots : n[s].what = "free" /\ m = [n EXCEPT ![s] = r]
  BY Placed DEF r
<1>10. RequestFits(r, World) /\ ~Due(r)
  BY <1>3, <1>4 DEF RequestFits, Due, Held, NoReply
<1>11. AnswerFits(r, q, cookie, dr, World)
  BY <1>1, <1>3 DEF AnswerFits
<1>12. Fits(q, Kept(q), m, cookie, dr, registered, World)
  BY <1>8, <1>9, <1>10, <1>11, FitsChange
<1> QED BY <1>12 DEF q

\* The page is loaded again.
LEMMA ReloadStep ==
  ASSUME CInv, Reload
  PROVE  CInv'
<1> DEFINE n == [s \in Slots |-> Abandoned(net[s])]
           q == EmptyPage(ToResume)
<1>1. /\ page' = q /\ saved' = Kept(q) /\ net' \in Place(n, Send("session"))
      /\ drift' \in BOOLEAN /\ UNCHANGED <<sess, done, registered, cookie>>
  BY DEF Reload, Mount, serverVars
<1>2. /\ ServerFits /\ registered \subseteq Players
      /\ Counted(World)
      /\ cookie \in Players \cup {None}
      /\ \A s \in Slots : RequestFits(net[s], World)
  BY Rows DEF CInv, ServerFits, Fits, NetFits
<1>3. /\ n = [s \in Slots |-> n[s]]
      /\ \A s \in Slots : RequestFits(n[s], World) /\ ~n[s].heard
  BY <1>2, AbandonedFits
<1> HIDE DEF n
<1>4. Fits(q, Kept(q), net', cookie, drift', registered, World)
  BY <1>1, <1>2, <1>3, ToResumeFits, MountFits
<1>5. ServerFits'
  BY <1>1, <1>2, ServerSame
<1> HIDE DEF q
<1>6. World' = World
  BY <1>1 DEF World
<1> QED BY <1>1, <1>4, <1>5, <1>6 DEF CInv

-----------------------------------------------------------------------------
(* The server *)

\* The page waits for nothing here: the server moves, and the rest fits.
LEMMA ServerMoves ==
  ASSUME CInv, ServerFits', Grows(World, World'),
         registered \subseteq registered',
         drift => drift', UNCHANGED <<page, saved, cookie>>
  PROVE  /\ Fits(page, saved, net, cookie', drift', registered', World')
         /\ Counted(World')
<1>1. Fits(page, saved, net, cookie, drift', registered', World')
  BY FitsLater DEF CInv
<1> QED BY <1>1 DEF Grows

\* What an answer may say to a request.
ReplyTo(a, r, p, ck, gm) ==
  /\ a \in ReplyOf(a) /\ Held(a.sid, gm)
  /\ r.what \in {"session", "start"} /\ a.ok => a.sid # None
  /\ r.what # "start" => a.cookie = None
  /\ r.what = "session" /\ r.heard /\ Played(p.left, gm) /\ ck = p.left[1] =>
       a.ok /\ a.sid = p.left
  /\ r.what = "start" /\ r.heard /\ a.cookie # None =>
       p.left = None \/ p.left[1] # a.cookie

Replied(r, a) ==
  [r EXCEPT !.stage = "served", !.cookie = None, !.user = None,
            !.copy = {}, !.reply = a]

\* A request with such an answer fits.
LEMMA ReplyFits ==
  ASSUME NEW r, NEW p, NEW ck, NEW dr, NEW gm, RequestFits(r, gm),
         r.heard, AnswerFits(r, p, ck, dr, gm),
         NEW a, ReplyTo(a, r, p, ck, gm)
  PROVE  /\ RequestFits(Replied(r, a), gm)
         /\ Replied(r, a).what = r.what /\ Replied(r, a).heard
         /\ Replied(r, a).sid = r.sid
         /\ Replied(r, a).stage = "served" /\ Replied(r, a).reply = a
         /\ AnswerFits(Replied(r, a), p, ck, dr, gm)
<1> DEFINE q == Replied(r, a)
<1>1. /\ q.what = r.what /\ q.heard = r.heard /\ q.sid = r.sid
      /\ q.stage = "served" /\ q.reply = a /\ q.cards = r.cards
  BY DEF RequestFits, RequestOf, Replied
<1>2. q \in RequestOf(q)
  BY DEF RequestFits, RequestOf, ReplyTo, Replied
<1> HIDE DEF q
<1>3. RequestFits(q, gm)
  BY <1>1, <1>2 DEF RequestFits, ReplyTo
<1>4. AnswerFits(q, p, ck, dr, gm)
  BY <1>1 DEF AnswerFits, ReplyTo
<1> QED BY <1>1, <1>3, <1>4 DEF q

\* A request that is served: what comes of it at the page that waits.
LEMMA ServedFits ==
  ASSUME NEW p, NEW sv, NEW n, NEW ck, NEW dr, NEW reg, NEW gm,
         Fits(p, sv, n, ck, dr, reg, gm), NEW s \in Slots, n[s].heard,
         NEW q, RequestFits(q, gm), q.what = n[s].what,
         AnswerFits(q, p, ck, dr, gm)
  PROVE  NetFits([n EXCEPT ![s] = q], p, ck, dr, gm)
<1>1. ASSUME NEW t \in Slots \ {s}, n[t].heard
      PROVE  Apart(n[t], q, dr) /\ Apart(q, n[t], dr)
  <2>1. Apart(n[t], n[s], dr) /\ Apart(n[s], n[t], dr)
    BY <1>1 DEF Fits, NetFits
  <2> QED BY <2>1 DEF Apart
<1> QED BY <1>1, NetChange DEF Fits

\* A request is served with an answer that fits and counts nothing.
LEMMA AnswerStep ==
  ASSUME NEW s \in Slots, NEW a, NEW p, NEW sv, NEW ck, NEW dr, NEW reg, NEW gm,
         Fits(p, sv, net, ck, dr, reg, gm), Answer(s, a),
         Counted(gm),
         ReplyTo(a, net[s], p, ck, gm), net[s].what = "submit" => ~a.ok
  PROVE  Fits(p, sv, net', ck, dr, reg, gm)
<1> DEFINE r == net[s]
           q == Replied(r, a)
<1>1. CASE ~r.heard
  <2>1. net' = [net EXCEPT ![s] = Free]
    BY <1>1 DEF Answer
  <2> QED BY <2>1, FitsFreed
<1>2. CASE r.heard
  <2>1. net' = [net EXCEPT ![s] = q]
    BY <1>2 DEF Answer, Replied
  <2>2. RequestFits(r, gm) /\ AnswerFits(r, p, ck, dr, gm)
    BY <1>2 DEF Fits, NetFits
  <2>3. /\ RequestFits(q, gm) /\ q.what = r.what /\ q.reply = a
        /\ q.heard /\ AnswerFits(q, p, ck, dr, gm)
    <3>1. ReplyTo(a, r, p, ck, gm)
      OBVIOUS
    <3> HIDE DEF r
    <3>2. q.what = r.what /\ q.reply = a
      BY <2>2 DEF Replied, RequestFits, RequestOf
    <3>3. RequestFits(q, gm) /\ q.heard /\ AnswerFits(q, p, ck, dr, gm)
      BY <1>2, <2>2, <3>1, ReplyFits
    <3> QED BY <3>2, <3>3
  <2> HIDE DEF q
  <2>4. ~Due(q)
    BY <2>3 DEF Due
  <2>5. ASSUME NEW t \in Slots \ {s}, net[t].heard
        PROVE  Apart(net[t], q, dr) /\ Apart(q, net[t], dr)
    <3>1. Apart(net[t], r, dr) /\ Apart(r, net[t], dr)
      BY <1>2, <2>5 DEF Fits, NetFits
    <3> QED BY <2>3, <3>1 DEF Apart
  <2> QED BY <2>1, <2>3, <2>4, <2>5, FitsChange
<1> QED BY <1>1, <1>2

\* GET /api/session: it names the session to resume, if the cookie is that of
\* its player.
LEMMA SessionServed ==
  ASSUME CInv, NEW s \in Slots, net[s].stage # "served", ServeSession(s),
         UNCHANGED <<cookie, page, saved>>
  PROVE  CInv'
<1> DEFINE r == net[s]
           p == r.cookie
           left == page.left
<1>1. r.what = "session" /\ UNCHANGED <<sess, done, registered, drift>>
  BY DEF ServeSession, serverVars
<1>2. /\ Fits(page, saved, net, cookie, drift, registered, World)
      /\ ServerFits /\ registered \subseteq Players /\ drift \in BOOLEAN
      /\ cookie \in Players \cup {None}
  BY DEF CInv, ServerFits
<1>3. /\ RequestFits(r, World) /\ left \in Sessions \cup {None}
      /\ r.heard => AnswerFits(r, page, cookie, drift, World)
  BY <1>2 DEF Fits, NetFits, PageFits, PageOf
<1>4. ASSUME r.heard, Played(left, World), cookie = left[1]
      PROVE  /\ p = left[1] /\ left \in Sessions /\ Active(left) /\ p \notin done
             /\ \A o \in Sessions : o[1] = p /\ Active(o) => o[2] <= left[2]
  <2>1. left # None /\ left \in Sessions
    BY <1>3, <1>4 DEF Played
  <2>2. r.stage = "asked"
    BY <1>1, <1>3, <1>4, <2>1 DEF AnswerFits, RequestFits, RequestOf
  <2>3. p = left[1]
    BY <1>1, <1>3, <1>4, <2>1, <2>2 DEF AnswerFits
  <2> QED BY <1>4, <2>1, <2>3, WorldIs DEF Played, Active, Begun
<1>5. ASSUME NEW sid \in Latest(p)
      PROVE  ReplyTo([NoReply EXCEPT !.ok = TRUE, !.sid = sid,
                                     !.board = Ordered(sess[sid].table)],
                     r, page, cookie, World)
  <2> DEFINE a == [NoReply EXCEPT !.ok = TRUE, !.sid = sid,
                                  !.board = Ordered(sess[sid].table)]
  <2>1. /\ sid \in Sessions /\ sid[1] = p /\ Active(sid)
        /\ \A o \in Sessions : o[1] = p /\ Active(o) => o[2] <= sid[2]
    BY DEF Latest
  <2>2. a.ok = TRUE /\ a.sid = sid /\ a.cookie = None /\ a \in ReplyOf(a)
    BY <2>1 DEF NoReply, ReplyOf
  <2> HIDE DEF a
  <2>3. Held(sid, World) /\ sid # None
    BY <2>1, SessionParts, WorldIs DEF Held, Active, Begun
  <2>4. r.heard /\ Played(left, World) /\ cookie = left[1] => sid = left
    <3>1. SUFFICES ASSUME r.heard, Played(left, World), cookie = left[1]
                   PROVE  sid = left
      OBVIOUS
    <3>2. /\ left \in Sessions /\ left[1] = sid[1]
          /\ sid[2] <= left[2] /\ left[2] <= sid[2]
      BY <1>4, <2>1, <3>1
    <3>3. sid[2] = left[2]
      BY <2>1, <3>2, SessionParts
    <3> HIDE DEF left
    <3>4. sid = <<sid[1], sid[2]>> /\ left = <<left[1], left[2]>>
      BY <2>1, <3>2, SessionParts
    <3> QED BY <3>2, <3>3, <3>4
  <2>5. ReplyTo(a, r, page, cookie, World)
    BY <1>1, <2>2, <2>3, <2>4 DEF ReplyTo
  <2> QED BY <2>5 DEF a
<1>6. ASSUME p \in done \/ Latest(p) = {}
      PROVE  ReplyTo(NoReply, r, page, cookie, World)
  <2>1. ~(r.heard /\ Played(left, World) /\ cookie = left[1])
    <3>1. SUFFICES ASSUME r.heard, Played(left, World), cookie = left[1]
                   PROVE  FALSE
      OBVIOUS
    <3>2. left \in Latest(p) /\ p \notin done
      BY <1>4, <3>1 DEF Latest
    <3> QED BY <1>6, <3>2
  <2> QED BY <1>1, <2>1 DEF ReplyTo, NoReply, ReplyOf, Held
<1>7. \E a : Answer(s, a) /\ ReplyTo(a, r, page, cookie, World)
  <2>1. ASSUME NEW sid \in Latest(p),
               Answer(s, [NoReply EXCEPT !.ok = TRUE, !.sid = sid,
                            !.board = Ordered(sess[sid].table)])
        PROVE  \E a : Answer(s, a) /\ ReplyTo(a, r, page, cookie, World)
    BY <1>5, <2>1
  <2>2. CASE (p \in done \/ Latest(p) = {}) /\ Answer(s, NoReply)
    BY <1>6, <2>2
  <2> QED BY <2>1, <2>2 DEF ServeSession
<1>8. PICK a : Answer(s, a) /\ ReplyTo(a, r, page, cookie, World)
  BY <1>7
<1>9. Counted(World)
  BY <1>2, Rows
<1> HIDE DEF p, left
<1>10. Fits(page, saved, net', cookie, drift, registered, World)
  BY <1>1, <1>2, <1>8, <1>9, AnswerStep
<1> QED BY <1>1, <1>2, <1>10, ServerStill

\* POST /api/start_session: the session is that of the name, or of the cookie.
LEMMA StartServed ==
  ASSUME CInv, NEW s \in Slots, StartSession(s),
         UNCHANGED <<cookie, page, saved>>
  PROVE  CInv'
<1> DEFINE r == net[s]
           known == r.user \in registered
           p == IF known \/ r.cookie = None THEN r.user ELSE r.cookie
           Started(sid) ==
             [NoReply EXCEPT !.ok = TRUE, !.sid = sid,
                !.cookie = IF ~known /\ r.cookie = None THEN p ELSE None]
           Drawn(sid) == [sess[sid] EXCEPT !.state = "drawn"]
           Noted(sid) == [r EXCEPT !.stage = "begun", !.reply = Started(sid)]
<1>1. /\ r.what = "start" /\ r.stage = "asked" /\ UNCHANGED done
      /\ registered' = registered \cup {p}
  BY DEF StartSession
<1>2. /\ Fits(page, saved, net, cookie, drift, registered, World)
      /\ ServerFits /\ registered \subseteq Players
      /\ cookie \in Players \cup {None} /\ drift \in BOOLEAN
      /\ net = [t \in Slots |-> net[t]]
  BY DEF CInv, ServerFits, Fits, NetFits
<1>3. /\ RequestFits(r, World)
      /\ r.user \in Players
      /\ r.cookie \in Players \cup {None}
  BY <1>1, <1>2 DEF Fits, NetFits, RequestFits, RequestOf
<1>4. /\ p \in Players /\ p \in registered'
      /\ registered \subseteq registered' /\ registered' \subseteq Players
  <2>1. p \in Players
    BY <1>3
  <2> HIDE DEF p
  <2> QED BY <1>1, <1>2, <2>1
<1>5. /\ page.left # None => page.left[1] \in registered
      /\ ~known /\ r.cookie = None => p \notin registered
  BY <1>2 DEF Fits, PageFits
<1>6. ASSUME NEW sid \in Sessions
      PROVE  /\ Started(sid) \in ReplyOf(Started(sid))
             /\ Started(sid).ok = TRUE /\ Started(sid).sid = sid
             /\ Started(sid).cookie # None =>
                  page.left = None \/ page.left[1] # Started(sid).cookie
  <2> DEFINE a == Started(sid)
  <2>1. /\ a.ok = TRUE /\ a.sid = sid
        /\ a.cookie = (IF ~known /\ r.cookie = None THEN p ELSE None)
        /\ a \in [ok : BOOLEAN, sid : {sid}, board : {a.board},
                  cookie : {p, None}]
    BY DEF NoReply
  <2> HIDE DEF a, p
  <2>2. a \in ReplyOf(a)
    BY <1>4, <2>1 DEF ReplyOf
  <2>3. a.cookie # None => page.left = None \/ page.left[1] # a.cookie
    BY <1>5, <2>1
  <2>4. /\ a \in ReplyOf(a) /\ a.ok = TRUE /\ a.sid = sid
        /\ a.cookie # None => page.left = None \/ page.left[1] # a.cookie
    BY <2>1, <2>2, <2>3
  <2> QED BY <2>4 DEF a
<1>7. \/ Answer(s, NoReply) /\ UNCHANGED <<sess, drift>>
      \/ \E sid \in Latest(p) :
           /\ Answer(s, Started(sid)) /\ UNCHANGED sess
           /\ drift' = (drift \/ sess[sid].table # ToSet(Deal))
      \/ \E sid \in Fresh(p) :
           /\ sess' = [sess EXCEPT ![sid] = Drawn(sid)]
           /\ net' = [net EXCEPT ![s] = Noted(sid)]
           /\ UNCHANGED drift
  <2>1. ASSUME NEW sid,
               sess' = [sess EXCEPT ![sid].state = "drawn"],
               net' = [net EXCEPT ![s].stage = "begun", ![s].reply = Started(sid)]
        PROVE  /\ sess' = [sess EXCEPT ![sid] = Drawn(sid)]
               /\ net' = [net EXCEPT ![s] = Noted(sid)]
    <3>1. sess' = [sess EXCEPT ![sid] = Drawn(sid)]
      BY <2>1
    <3> HIDE DEF Started
    <3>2. net' = [net EXCEPT ![s] = Noted(sid)]
      BY <1>2, <2>1
    <3> QED BY <3>1, <3>2
  <2> QED BY <2>1 DEF StartSession
<1> HIDE DEF p, Started
<1>8. ASSUME Answer(s, NoReply), UNCHANGED <<sess, drift>>
      PROVE  CInv'
  <2>1. ServerFits' /\ Grows(World, World')
    BY <1>1, <1>2, <1>4, <1>8, ServerSame
  <2>2. /\ Fits(page, saved, net, cookie', drift', registered', World')
        /\ Counted(World')
    BY <1>4, <1>8, <2>1, ServerMoves
  <2>3. ReplyTo(NoReply, r, page, cookie', World')
    BY <1>1 DEF ReplyTo, NoReply, ReplyOf, Held
  <2>4. Fits(page, saved, net', cookie', drift', registered', World')
    BY <1>1, <1>8, <2>2, <2>3, AnswerStep
  <2> QED BY <2>1, <2>4 DEF CInv
<1>9. ASSUME NEW sid \in Latest(p), Answer(s, Started(sid)), UNCHANGED sess,
             drift' = (drift \/ sess[sid].table # ToSet(Deal))
      PROVE  CInv'
  <2>1. sid \in Sessions /\ sid # None /\ Begun(sess[sid])
    BY SessionParts DEF Latest, Active, Begun
  <2>2. drift' \in BOOLEAN /\ (drift => drift')
    BY <1>2, <1>9
  <2>3. ServerFits' /\ Grows(World, World')
    BY <1>1, <1>2, <1>4, <1>9, <2>2, ServerSame
  <2>4. /\ Fits(page, saved, net, cookie', drift', registered', World')
        /\ Counted(World')
    BY <1>4, <1>9, <2>2, <2>3, ServerMoves
  <2>5. Held(sid, World')
    BY <1>9, <2>1, WorldIs DEF Held
  <2>6. ReplyTo(Started(sid), r, page, cookie', World')
    BY <1>1, <1>6, <2>1, <2>5 DEF ReplyTo
  <2>7. Fits(page, saved, net', cookie', drift', registered', World')
    BY <1>1, <1>9, <2>4, <2>6, AnswerStep
  <2> QED BY <2>3, <2>7 DEF CInv
<1>10. ASSUME NEW sid \in Fresh(p), sess' = [sess EXCEPT ![sid] = Drawn(sid)],
              net' = [net EXCEPT ![s] = Noted(sid)], UNCHANGED drift
       PROVE  CInv'
  <2> DEFINE q == Noted(sid)
  <2>1. sid \in Sessions /\ sid[1] = p /\ sess[sid].state = "absent"
    BY SessionParts DEF Fresh
  <2>2. RowFits(Drawn(sid), sid, registered') /\ RowGrows(sess[sid], Drawn(sid))
    BY <1>2, <1>4, <2>1 DEF ServerFits, RowFits, Row, RowGrows, Begun
  <2>3. ServerFits' /\ Grows(World, World')
    <3> HIDE DEF Drawn, Noted
    <3> QED BY <1>1, <1>2, <1>4, <1>10, <2>1, <2>2, StepGrows
  <2>4. /\ Fits(page, saved, net, cookie', drift', registered', World')
        /\ Counted(World')
    BY <1>4, <1>10, <2>3, ServerMoves
  <2>5. /\ RequestFits(r, World')
        /\ r.heard => AnswerFits(r, page, cookie', drift', World')
    BY <2>4 DEF Fits, NetFits
  <2>6. /\ q.what = "start" /\ q.stage = "begun" /\ q.heard = r.heard
        /\ q.user = r.user /\ q.sid = r.sid /\ q.reply = Started(sid)
    BY <1>1, <2>5 DEF RequestFits, RequestOf
  <2>7. q \in RequestOf(q)
    BY <1>6, <2>1, <2>5 DEF RequestFits, RequestOf
  <2> HIDE DEF q, Noted
  <2>8. RequestFits(q, World') /\ ~Due(q)
    <3>1. q.user # None /\ q.reply.sid # None
      BY <1>3, <1>6, <2>1, <2>6, SessionParts, NoneIsNothing
    <3>2. Held(q.sid, World')
      BY <2>5, <2>6 DEF RequestFits
    <3> HIDE DEF r
    <3> QED BY <2>6, <2>7, <3>1, <3>2 DEF RequestFits, Due
  <2>9. q.heard => AnswerFits(q, page, cookie', drift', World')
    BY <1>1, <1>6, <2>1, <2>5, <2>6 DEF AnswerFits
  <2>10. ASSUME NEW t \in Slots \ {s}, q.heard, net[t].heard
         PROVE  Apart(net[t], q, drift') /\ Apart(q, net[t], drift')
    <3>1. Apart(net[t], r, drift') /\ Apart(r, net[t], drift')
      BY <2>4, <2>6, <2>10 DEF Fits, NetFits
    <3> QED BY <1>1, <2>6, <3>1 DEF Apart
  <2>11. net' = [net EXCEPT ![s] = q]
    BY <1>10 DEF q
  <2>12. Fits(page, saved, net', cookie', drift', registered', World')
    BY <2>4, <2>8, <2>9, <2>10, <2>11, FitsChange
  <2> QED BY <2>3, <2>12 DEF CInv
<1> QED BY <1>7, <1>8, <1>9, <1>10

\* create_session: the session that was drawn is there to play.
LEMMA CreateServed ==
  ASSUME CInv, BInv, NEW s \in Slots, CreateSession(s),
         UNCHANGED <<cookie, page, saved>>
  PROVE  CInv'
<1> DEFINE r == net[s]
           a == r.reply
           row == [state |-> "active", table |-> ToSet(Deal), rows |-> 0]
<1>1. /\ r.what = "start" /\ r.stage = "begun" /\ Answer(s, a)
      /\ sess' = [sess EXCEPT ![a.sid] = row]
      /\ UNCHANGED <<done, registered, drift>>
  BY DEF CreateSession
<1>2. /\ Fits(page, saved, net, cookie, drift, registered, World)
      /\ ServerFits /\ registered \subseteq Players /\ drift \in BOOLEAN
  BY DEF CInv, ServerFits
<1>3. a.ok /\ a.sid \in Sessions /\ sess[a.sid].state = "drawn"
  BY <1>1 DEF BInv, Draws
<1>4. RowFits(row, a.sid, registered') /\ RowGrows(sess[a.sid], row)
  <2>1. ToSet(Deal) \subseteq Cards /\ HasSet(ToSet(Deal))
    BY DealAssumption DEF ToSet
  <2>2. a.sid[1] \in registered'
    BY <1>1, <1>2, <1>3 DEF ServerFits, RowFits
  <2>3. row \in Row
    BY <2>1 DEF Row
  <2> QED BY <1>3, <2>1, <2>2, <2>3 DEF RowFits, RowGrows, Begun
<1>5. ServerFits' /\ Grows(World, World')
  <2> HIDE DEF row
  <2> QED BY <1>1, <1>2, <1>3, <1>4, StepGrows
<1>6. /\ Fits(page, saved, net, cookie', drift', registered', World')
      /\ Counted(World')
  BY <1>1, <1>5, ServerMoves
<1>7. /\ RequestFits(r, World')
      /\ r.heard => AnswerFits(r, page, cookie', drift', World')
  BY <1>6 DEF Fits, NetFits
<1>8. ReplyTo(a, r, page, cookie', World')
  <2>1. a \in ReplyOf(a)
    BY <1>7 DEF RequestFits, RequestOf
  <2>2. Held(a.sid, World')
    <3>1. sess'[a.sid] = row
      BY <1>1, <1>2, <1>3 DEF ServerFits
    <3> QED BY <3>1, WorldIs DEF Held, Begun
  <2>3. a.sid # None
    BY <1>3, SessionParts
  <2>4. r.heard /\ a.cookie # None => page.left = None \/ page.left[1] # a.cookie
    BY <1>1, <1>7 DEF AnswerFits
  <2> HIDE DEF a, row
  <2> QED BY <1>1, <2>1, <2>2, <2>3, <2>4 DEF ReplyTo
<1> HIDE DEF row
<1>9. Fits(page, saved, net', cookie', drift', registered', World')
  BY <1>1, <1>6, <1>8, AnswerStep
<1> QED BY <1>5, <1>9 DEF CInv

\* A set that is recorded for a request the page waits for is due, and covered.
LEMMA FoundIsDue ==
  ASSUME CInv, NEW s \in Slots, net[s].heard, net[s].what = "submit",
         net[s].stage # "served", net[s].sid \in Sessions,
         sess'[net[s].sid].rows = sess[net[s].sid].rows + 1,
         NEW q, Due(q)
  PROVE  Counts([net EXCEPT ![s] = q], page, World')
<1> DEFINE m == [net EXCEPT ![s] = q]
           sid == page.sessionId
<1>1. /\ Fits(page, saved, net, cookie, drift, registered, World)
      /\ ServerFits
  BY DEF CInv
<1>2. /\ net = [t \in Slots |-> net[t]] /\ page.foundSets \in Seq(ValidSets)
      /\ IsFiniteSet(Pending(net)) /\ Counts(net, page, World)
      /\ AnswerFits(net[s], page, cookie, drift, World)
  BY <1>1 DEF Fits, NetFits, PageFits, PageOf, Counts
<1>3. ~Due(net[s])
  BY DEF Due
<1>4. /\ IsFiniteSet(Pending(m))
      /\ Cardinality(Pending(net)) \in Nat
      /\ Cardinality(Pending(m)) = Cardinality(Pending(net)) + 1
  BY <1>2, <1>3, PendingChange
<1> HIDE DEF m
<1>5. Len(page.foundSets) \in Nat
  BY <1>2
<1>6. ASSUME sid # None, ~page.switched
      PROVE  Len(page.foundSets) + Cardinality(Pending(m)) <= sess'[sid].rows
  <2>1. sid = net[s].sid
    BY <1>2, <1>6 DEF AnswerFits
  <2>2. sess[sid].rows \in Nat /\ sess'[sid].rows = sess[sid].rows + 1
    BY <1>1, <2>1, Rows
  <2>3. Len(page.foundSets) + Cardinality(Pending(net)) <= sess[sid].rows
    BY <1>2, <1>6, WorldIs DEF Counts
  <2> HIDE DEF sid
  <2> QED BY <1>4, <1>5, <2>2, <2>3
<1>7. Counts(m, page, World')
  BY <1>4, <1>6, WorldIs DEF Counts
<1> QED BY <1>7 DEF m

\* POST /api/submit_set, as far as the cards: the board is loaded, or the answer
\* is no.
LEMMA LoadServed ==
  ASSUME CInv, NEW s \in Slots, LoadBoard(s), UNCHANGED <<cookie, page, saved>>
  PROVE  CInv'
<1> DEFINE r == net[s]
           q == [r EXCEPT !.stage = "begun", !.copy = sess[r.sid].table]
<1>1. /\ r.what = "submit" /\ r.stage = "asked"
      /\ UNCHANGED <<sess, done, registered, drift>>
  BY DEF LoadBoard, serverVars
<1>2. /\ Fits(page, saved, net, cookie, drift, registered, World)
      /\ ServerFits /\ registered \subseteq Players /\ Counted(World)
      /\ cookie \in Players \cup {None} /\ drift \in BOOLEAN
      /\ RequestFits(r, World) /\ net = [t \in Slots |-> net[t]]
      /\ r.heard => AnswerFits(r, page, cookie, drift, World)
  BY Rows DEF CInv, ServerFits, Fits, NetFits
<1>3. CASE Answer(s, NoReply)
  <2>1. ReplyTo(NoReply, r, page, cookie, World) /\ ~NoReply.ok
    BY <1>1 DEF ReplyTo, NoReply, ReplyOf, Held
  <2>2. Fits(page, saved, net', cookie, drift, registered, World)
    BY <1>2, <1>3, <2>1, AnswerStep
  <2> QED BY <1>1, <1>2, <2>2, ServerStill
<1>4. CASE net' = [net EXCEPT ![s].stage = "begun",
                              ![s].copy = sess[net[s].sid].table]
  <2>1. net' = [net EXCEPT ![s] = q]
    BY <1>2, <1>4
  <2>2. /\ q.what = "submit" /\ q.stage = "begun" /\ q.heard = r.heard
        /\ q.user = r.user /\ q.sid = r.sid /\ q.reply = r.reply
        /\ q.cards = r.cards
    BY <1>1, <1>2 DEF RequestFits, RequestOf
  <2>3. q \in RequestOf(q)
    BY <1>2 DEF RequestFits, RequestOf
  <2> HIDE DEF q
  <2>4. RequestFits(q, World) /\ ~Due(q)
    BY <1>1, <1>2, <2>2, <2>3 DEF RequestFits, Due
  <2>5. q.heard => AnswerFits(q, page, cookie, drift, World)
    BY <1>1, <1>2, <2>2 DEF AnswerFits
  <2>6. ASSUME NEW t \in Slots \ {s}, q.heard, net[t].heard
        PROVE  Apart(net[t], q, drift) /\ Apart(q, net[t], drift)
    <3>1. Apart(net[t], r, drift) /\ Apart(r, net[t], drift)
      BY <1>2, <2>2, <2>6 DEF Fits, NetFits
    <3> QED BY <1>1, <2>2, <3>1 DEF Apart
  <2>7. Fits(page, saved, net', cookie, drift, registered, World)
    BY <1>2, <2>1, <2>4, <2>5, <2>6, FitsChange
  <2> QED BY <1>1, <1>2, <2>7, ServerStill
<1> QED BY <1>3, <1>4 DEF LoadBoard

\* _apply_session_changes: the board of the handler is written back.
LEMMA SubmitServed ==
  ASSUME CInv, BInv, NEW s \in Slots, ApplySessionChanges(s),
         UNCHANGED <<cookie, page, saved>>
  PROVE  CInv'
<1> DEFINE r == net[s]
           rest == r.copy \ CardsAt(Ordered(r.copy), r.at)
           row == [state |-> IF HasSet(rest) THEN sess[r.sid].state
                             ELSE "finished",
                   table |-> rest, rows |-> sess[r.sid].rows + 1]
           ok == [NoReply EXCEPT !.ok = TRUE]
<1>1. /\ r.what = "submit" /\ r.stage = "begun" /\ Answer(s, ok)
      /\ UNCHANGED <<done, registered, drift>>
  BY DEF ApplySessionChanges
<1>2. /\ Fits(page, saved, net, cookie, drift, registered, World)
      /\ ServerFits /\ registered \subseteq Players
      /\ cookie \in Players \cup {None} /\ drift \in BOOLEAN
      /\ RequestFits(r, World)
  BY DEF CInv, ServerFits, Fits, NetFits
<1>3. r.sid \in Sessions /\ Begun(sess[r.sid])
  <2>1. r.sid \in Sessions /\ r.sid # None
    BY <1>1, <1>2 DEF RequestFits, RequestOf
  <2> QED BY <1>2, <2>1, WorldIs DEF RequestFits, Held
<1>4. sess' = [sess EXCEPT ![r.sid] = row] /\ sess'[r.sid] = row
  <2>1. sess' = [sess EXCEPT ![r.sid] = row]
    BY <1>3 DEF ApplySessionChanges
  <2> HIDE DEF row
  <2>2. sess'[r.sid] = row
    BY <1>2, <1>3, <2>1 DEF ServerFits
  <2> QED BY <2>1, <2>2
<1>5. RowFits(row, r.sid, registered') /\ RowGrows(sess[r.sid], row)
  <2>1. rest \subseteq ToSet(Deal) /\ ToSet(Deal) \subseteq Cards
    BY <1>1, DealAssumption DEF BInv, Copies, ToSet
  <2>2. /\ sess[r.sid].rows \in Nat /\ sess[r.sid] \in Row
        /\ r.sid[1] \in registered'
    BY <1>1, <1>2, <1>3, Rows DEF ServerFits, RowFits, Begun
  <2> HIDE DEF rest
  <2>3. row.state \in {sess[r.sid].state, "finished"} /\ row.table = rest
        /\ row.rows = sess[r.sid].rows + 1
    OBVIOUS
  <2>4. row.state = "active" => HasSet(rest) /\ sess[r.sid].state = "active"
    OBVIOUS
  <2>5. row \in Row
    BY <1>3, <2>1, <2>2 DEF Row, Begun
  <2> HIDE DEF row
  <2> QED BY <1>3, <2>1, <2>2, <2>3, <2>4, <2>5 DEF RowFits, RowGrows, Begun
<1>6. row.rows = sess[r.sid].rows + 1
  OBVIOUS
<1> HIDE DEF row
<1>7. ServerFits' /\ Grows(World, World')
  BY <1>1, <1>2, <1>3, <1>4, <1>5, StepGrows
<1>8. /\ Fits(page, saved, net, cookie', drift', registered', World')
      /\ Counted(World')
  BY <1>1, <1>7, ServerMoves
<1>9. CASE ~r.heard
  <2>1. net' = [net EXCEPT ![s] = Free]
    BY <1>1, <1>9 DEF Answer
  <2>2. Fits(page, saved, net', cookie', drift', registered', World')
    BY <1>8, <2>1, FitsFreed
  <2> QED BY <1>7, <2>2 DEF CInv
<1>10. CASE r.heard
  <2> DEFINE q == Replied(r, ok)
  <2>1. net' = [net EXCEPT ![s] = q]
    BY <1>1, <1>10 DEF Answer, Replied
  <2>2. RequestFits(r, World') /\ AnswerFits(r, page, cookie', drift', World')
    BY <1>8, <1>10 DEF Fits, NetFits
  <2>3. q.what = r.what /\ q.reply = ok /\ q.stage = "served"
    BY <1>2 DEF Replied, RequestFits, RequestOf
  <2>4. ReplyTo(ok, r, page, cookie', World') /\ ok.ok
    BY <1>1 DEF ReplyTo, NoReply, ReplyOf, Held
  <2> HIDE DEF ok
  <2>5. /\ RequestFits(q, World') /\ q.heard
        /\ AnswerFits(q, page, cookie', drift', World')
    <3> HIDE DEF r
    <3> QED BY <1>10, <2>2, <2>4, ReplyFits
  <2> HIDE DEF q
  <2>6. NetFits(net', page, cookie', drift', World')
    BY <1>8, <1>10, <2>1, <2>3, <2>5, ServedFits
  <2>7. Due(q)
    BY <1>1, <2>3, <2>4, <2>5 DEF Due
  <2>8. sess'[r.sid].rows = sess[r.sid].rows + 1 /\ r.stage # "served"
    BY <1>1, <1>4, <1>6
  <2>9. Counts(net', page, World')
    BY <1>1, <1>3, <1>10, <2>1, <2>7, <2>8, FoundIsDue
  <2>10. Fits(page, saved, net', cookie', drift', registered', World')
    BY <1>8, <2>6, <2>9 DEF Fits
  <2> QED BY <1>7, <2>10 DEF CInv
<1> QED BY <1>9, <1>10

\* A request that never reaches the server.
LEMMA DropStep ==
  ASSUME CInv, NEW s \in Slots, Drop(s)
  PROVE  CInv'
<1>1. /\ net' = [net EXCEPT ![s] = Free]
      /\ UNCHANGED <<sess, done, registered, cookie, page, saved, drift>>
  BY DEF Drop, serverVars
<1>2. /\ ServerFits /\ Fits(page, saved, net, cookie, drift, registered, World)
      /\ Counted(World)
      /\ cookie \in Players \cup {None} /\ drift \in BOOLEAN
  BY Rows DEF CInv, ServerFits
<1>3. Fits(page, saved, net', cookie, drift, registered, World)
  BY <1>1, <1>2, FitsFreed
<1> QED BY <1>1, <1>2, <1>3, ServerStill

\* Play in another browser.
LEMMA ElsewhereStep ==
  ASSUME CInv, NEW p \in Players, Elsewhere(p)
  PROVE  CInv'
<1>1. /\ ServerFits /\ Fits(page, saved, net, cookie, drift, registered, World)
      /\ Counted(World)
      /\ cookie \in Players \cup {None} /\ drift \in BOOLEAN
      /\ UNCHANGED <<sess, done, registered, page, saved, cookie>>
  BY Rows DEF CInv, ServerFits, Elsewhere, serverVars
<1>2. drift' \in BOOLEAN /\ (drift => drift')
  BY <1>1 DEF Elsewhere
<1>3. ASSUME NEW r, RequestFits(r, World), ~r.heard, net' \in Place(net, r)
      PROVE  Fits(page, saved, net', cookie, drift, registered, World)
  <2>1. PICK s \in Slots : net' = [net EXCEPT ![s] = r]
    BY <1>3, Placed
  <2>2. ~Due(r)
    BY <1>3 DEF Due
  <2> QED BY <1>1, <1>3, <2>1, <2>2, FitsChange
<1>4. RequestFits([Free EXCEPT !.what = "start", !.user = p], World)
  BY NoneIsNothing DEF RequestFits, RequestOf, ReplyOf, Free, NoReply, Held
<1>5. ASSUME NEW sid \in Sessions, NEW at, Active(sid)
      PROVE  RequestFits([Free EXCEPT !.what = "submit", !.sid = sid, !.at = at],
                         World)
  <2>1. Held(sid, World) /\ sid # None
    BY <1>5, SessionParts, WorldIs DEF Held, Active, Begun
  <2> QED BY <2>1 DEF RequestFits, RequestOf, ReplyOf, Free, NoReply
<1>6. Fits(page, saved, net', cookie, drift, registered, World)
  <2>1. CASE net' \in Place(net, [Free EXCEPT !.what = "start", !.user = p])
    <3>1. ~[Free EXCEPT !.what = "start", !.user = p].heard
      BY DEF Free
    <3> QED BY <1>3, <1>4, <2>1, <3>1
  <2>2. ASSUME NEW sid \in Sessions, NEW at, Active(sid),
               net' \in Place(net, [Free EXCEPT !.what = "submit", !.sid = sid,
                                                !.at = at])
        PROVE  Fits(page, saved, net', cookie, drift, registered, World)
    <3>1. ~[Free EXCEPT !.what = "submit", !.sid = sid, !.at = at].heard
      BY DEF Free
    <3> QED BY <1>3, <1>5, <2>2, <3>1
  <2> QED BY <2>1, <2>2 DEF Elsewhere
<1> QED BY <1>1, <1>2, <1>6, ServerStill

\* A time is recorded: its player plays no more.
LEMMA TimeStep ==
  ASSUME CInv, NEW p \in Players, RecordTime(p)
  PROVE  CInv'
<1>1. /\ ServerFits /\ p \in registered /\ registered \subseteq Players
      /\ drift \in BOOLEAN /\ done' = done \cup {p}
      /\ UNCHANGED <<sess, registered, page, saved, net, cookie, drift>>
  BY DEF CInv, ServerFits, RecordTime
<1>2. ServerFits'
  BY <1>1 DEF ServerFits
<1>3. Grows(World, World')
  <2>1. Grows(World, World)
    BY <1>1, Rows
  <2>2. World'.sess = World.sess /\ World.done \subseteq World'.done
    BY <1>1, WorldIs
  <2> QED BY <2>1, <2>2 DEF Grows, Counted
<1>4. Fits(page, saved, net, cookie', drift', registered', World')
  BY <1>1, <1>2, <1>3, ServerMoves
<1> QED BY <1>1, <1>2, <1>4 DEF CInv

-----------------------------------------------------------------------------
(* The specification *)

LEMMA InitFits == Init => CInv /\ BInv
<1> SUFFICES ASSUME Init PROVE CInv /\ BInv
  OBVIOUS
<1> DEFINE n == [s \in Slots |-> Free]
           row == [state |-> "absent", table |-> {}, rows |-> 0]
<1>1. /\ sess = [sid \in Sessions |-> row] /\ done = {}
      /\ registered \subseteq Players /\ cookie = None
      /\ page = EmptyPage(None) /\ saved = Kept(EmptyPage(None))
      /\ net \in Place(n, Send("session")) /\ drift = FALSE
  BY DEF Init
<1>2. row \in Row
  BY DEF Row
<1>3. \A sid \in Sessions : RowFits(row, sid, registered)
  BY <1>2 DEF RowFits
<1> HIDE DEF row
<1>4. ServerFits
  <2>1. drift \in BOOLEAN
    BY <1>1
  <2> QED BY <1>1, <1>3, <2>1 DEF ServerFits
<1>5. /\ n = [s \in Slots |-> n[s]]
      /\ \A s \in Slots : RequestFits(n[s], World) /\ ~n[s].heard
      /\ \A s \in Slots : n[s].stage = "asked"
  BY FreeFits DEF Free
<1>6. Held(None, World) /\ Counted(World)
  BY <1>4, Rows DEF Held
<1>7. BInv
  <2>1. PICK s \in Slots : net = [n EXCEPT ![s] = Send("session")]
    BY <1>1, Placed
  <2> HIDE DEF n
  <2>2. \A t \in Slots : net[t].stage = "asked"
    BY <1>5, <2>1 DEF Send, Free
  <2> QED BY <2>2 DEF BInv, Draws, Copies
<1> HIDE DEF n
<1>8. Fits(page, saved, net, cookie, drift, registered, World)
  BY <1>1, <1>5, <1>6, MountFits
<1> QED BY <1>4, <1>7, <1>8 DEF CInv

\* An answer is delivered.
LEMMA DeliverStep ==
  ASSUME CInv, NEW s \in Slots, Deliver(s)
  PROVE  CInv'
<1>1. /\ net[s].heard /\ (net[s].stage = "served" \/ net[s].what = "daily")
      /\ UNCHANGED <<sess, done, registered, cookie>>
  BY DEF Deliver, serverVars
<1>2. CASE DeliverSession(s)
  <2>1. net[s].what = "session" /\ net[s].stage = "served" /\ cookie' = cookie
    BY <1>1, <1>2 DEF DeliverSession
  <2>2. CASE net[s].reply.ok
    <3>1. Becomes(ResumeSession(net[s].reply), TRUE, [net EXCEPT ![s] = Free])
      BY <1>2, <2>2 DEF DeliverSession
    <3> QED BY <1>1, <2>1, <2>2, <3>1, ResumeStep
  <2>3. CASE ~net[s].reply.ok
    <3>1. Restore(page.left, [net EXCEPT ![s] = Free])
      BY <1>2, <2>3 DEF DeliverSession
    <3>2. ~(Played(page.left, World) /\ cookie = page.left[1])
      <4>1. AnswerFits(net[s], page, cookie, drift, World)
        BY <1>1, Answered
      <4> QED BY <2>1, <2>3, <4>1 DEF AnswerFits, Played
    <3> QED BY <1>1, <2>1, <3>1, <3>2, RestoreStep
  <2> QED BY <2>2, <2>3
<1>3. CASE DeliverStart(s)
  BY <1>1, <1>3, StartStep DEF DeliverStart
<1>4. CASE DeliverDaily(s)
  BY <1>1, <1>4, DailyStep
<1>5. CASE DeliverSubmit(s)
  BY <1>1, <1>5, SubmitStep DEF DeliverSubmit
<1> QED BY <1>2, <1>3, <1>4, <1>5 DEF Deliver

\* A request fails.
LEMMA FailStep ==
  ASSUME CInv, NEW s \in Slots, Fail(s)
  PROVE  CInv'
<1>1. net[s].heard /\ UNCHANGED <<sess, done, registered, cookie>>
  BY DEF Fail, serverVars
<1>2. CASE FailSession(s)
  <2>1. ~(Played(None, World) /\ cookie = None[1])
    BY DEF Played
  <2> QED BY <1>1, <1>2, <2>1, RestoreStep DEF FailSession
<1>3. CASE FailDaily(s)
  BY <1>1, <1>3, DailyFails
<1>4. CASE FailCommand(s)
  BY <1>1, <1>4, CommandFails
<1> QED BY <1>2, <1>3, <1>4 DEF Fail

\* The server serves.
LEMMA ServeStep ==
  ASSUME CInv, BInv, NEW s \in Slots, Serve(s)
  PROVE  CInv'
<1>1. net[s].stage # "served" /\ UNCHANGED <<cookie, page, saved>>
  BY DEF Serve
<1> QED BY <1>1, SessionServed, StartServed, CreateServed, LoadServed,
           SubmitServed DEF Serve

\* Every step keeps the invariant.
LEMMA StepFits == CInv /\ BInv /\ [Next]_vars => CInv'
<1> SUFFICES ASSUME CInv, BInv, [Next]_vars PROVE CInv'
  OBVIOUS
<1>1. CASE UNCHANGED vars
  <2>1. /\ ServerFits /\ drift \in BOOLEAN /\ cookie \in Players \cup {None}
        /\ Fits(page, saved, net, cookie, drift, registered, World)
    BY DEF CInv, ServerFits
  <2>2. /\ UNCHANGED <<sess, done, registered>> /\ cookie' = cookie
        /\ drift' = drift /\ page' = page /\ saved' = saved /\ net' = net
    BY <1>1 DEF vars
  <2> QED BY <2>1, <2>2, ServerStill
<1>2. ASSUME NEW u \in Players, ClickStart(u) PROVE CInv'
  BY <1>2, ClickStep
<1>3. ASSUME NEW i \in Indices, Toggle(i) PROVE CInv'
  BY <1>3, ToggleStep
<1>4. CASE Reload
  BY <1>4, ReloadStep
<1>5. CASE LearnStatus
  BY <1>5, StatusStep
<1>6. ASSUME NEW s \in Slots, Serve(s) PROVE CInv'
  BY <1>6, ServeStep
<1>7. ASSUME NEW s \in Slots, Drop(s) \/ Headers(s) PROVE CInv'
  BY <1>7, DropStep, HeadersStep
<1>8. ASSUME NEW s \in Slots, Deliver(s) PROVE CInv'
  BY <1>8, DeliverStep
<1>9. ASSUME NEW s \in Slots, Fail(s) PROVE CInv'
  BY <1>9, FailStep
<1>10. ASSUME NEW p \in Players, Elsewhere(p) \/ RecordTime(p) PROVE CInv'
  BY <1>10, ElsewhereStep, TimeStep
<1> QED BY <1>1, <1>2, <1>3, <1>4, <1>5, <1>6, <1>7, <1>8, <1>9, <1>10
        DEF Next

-----------------------------------------------------------------------------
(* Between a read and a write of the server *)

\* No request has begun that had not, or with something else.
Keeps(n) ==
  /\ n = [s \in Slots |-> n[s]]
  /\ \A s \in Slots : n[s].stage = "begun" =>
       /\ net[s].stage = "begun" /\ n[s].what = net[s].what
       /\ n[s].reply = net[s].reply /\ n[s].copy = net[s].copy

LEMMA KeptBegun ==
  ASSUME BInv, UNCHANGED sess, Keeps(net')
  PROVE  BInv'
<1>1. \A s \in Slots : Draws(net'[s]) =>
        Draws(net[s]) /\ net'[s].reply = net[s].reply
  BY DEF Keeps, Draws
<1>2. \A s \in Slots : Copies(net'[s]) =>
        Copies(net[s]) /\ net'[s].copy = net[s].copy
  BY DEF Keeps, Copies
<1> QED BY <1>1, <1>2 DEF BInv

LEMMA KeepsPut ==
  ASSUME NEW n, Keeps(n), NEW s \in Slots, NEW r, r.stage # "begun"
  PROVE  Keeps([n EXCEPT ![s] = r])
<1> DEFINE m == [n EXCEPT ![s] = r]
<1>1. /\ m = [t \in Slots |-> m[t]]
      /\ m[s] = r /\ \A t \in Slots \ {s} : m[t] = n[t]
  BY DEF Keeps
<1> HIDE DEF m
<1>2. Keeps(m)
  BY <1>1 DEF Keeps
<1> QED BY <1>2 DEF m

LEMMA KeepsPlace ==
  ASSUME NEW n, Keeps(n), NEW r, r.stage # "begun", NEW m \in Place(n, r)
  PROVE  Keeps(m)
<1>1. PICK s \in Slots : m = [n EXCEPT ![s] = r]
  BY Placed
<1> QED BY <1>1, KeepsPut

LEMMA KeepsEffect ==
  ASSUME NEW n, Keeps(n), NEW p, NEW rerun, SubmitEffect(p, rerun, n)
  PROVE  Keeps(net')
<1>1. Submission(p).stage # "begun"
  BY DEF Submission, Send, Free
<1> QED BY <1>1, KeepsPlace DEF SubmitEffect

LEMMA KeepsAnswer ==
  ASSUME NEW s \in Slots, NEW a, Answer(s, a), Keeps(net), net[s] \in RequestOf(net[s])
  PROVE  Keeps(net')
<1>1. CASE net' = [net EXCEPT ![s] = Free]
  <2>1. Free.stage # "begun"
    BY DEF Free
  <2> QED BY <1>1, <2>1, KeepsPut
<1>2. CASE net' = [net EXCEPT ![s] = Replied(net[s], a)]
  <2>1. Replied(net[s], a).stage # "begun"
    BY DEF Replied, RequestOf
  <2> QED BY <1>2, <2>1, KeepsPut
<1> QED BY <1>1, <1>2 DEF Answer, Replied

\* What the page, the network and another browser do begins nothing.
LEMMA DeliverKeeps ==
  ASSUME CInv, Keeps(net), NEW s \in Slots, Deliver(s) \/ Fail(s)
  PROVE  Keeps(net')
<1> DEFINE n == [net EXCEPT ![s] = Free]
<1>1. Keeps(n)
  BY KeepsPut DEF Free
<1> HIDE DEF n
<1>2. ASSUME NEW left, Restore(left, n) PROVE Keeps(net')
  BY <1>1, <1>2, KeepsEffect DEF Restore, Becomes
<1>3. ASSUME NEW new, NEW rerun, Becomes(new, rerun, n) PROVE Keeps(net')
  BY <1>1, <1>3, KeepsEffect DEF Becomes
<1>4. CASE DeliverSession(s)
  BY <1>2, <1>3, <1>4 DEF DeliverSession, n
<1>5. CASE DeliverStart(s)
  <2>1. ASSUME NEW m, NEW sid, NEW new, NEW rerun, Becomes(new, rerun, m),
               m = [net EXCEPT ![s] =
                      [Send("daily") EXCEPT !.sid = sid, !.cookie = None]]
        PROVE  Keeps(net')
    <3>1. [Send("daily") EXCEPT !.sid = sid, !.cookie = None].stage # "begun"
      BY DEF Send, Free
    <3>2. Keeps(m)
      BY <2>1, <3>1, KeepsPut
    <3> QED BY <2>1, <3>2, KeepsEffect DEF Becomes
  <2> QED BY <1>1, <1>5, <2>1 DEF DeliverStart, n
<1>6. CASE DeliverDaily(s)
  BY <1>3, <1>6 DEF DeliverDaily, n
<1>7. CASE DeliverSubmit(s)
  BY <1>1, <1>3, <1>7 DEF DeliverSubmit, n
<1>8. CASE FailSession(s)
  BY <1>2, <1>8 DEF FailSession, n
<1>9. CASE FailDaily(s)
  BY <1>1, <1>9 DEF FailDaily, n
<1>10. CASE FailCommand(s)
  <2>1. net' = n \/ net' = [net EXCEPT ![s] = [net[s] EXCEPT !.heard = FALSE]]
    BY <1>10 DEF FailCommand, Abandoned, n
  <2>2. ASSUME net' = [net EXCEPT ![s] = [net[s] EXCEPT !.heard = FALSE]]
        PROVE  Keeps(net')
    <3> DEFINE r == net[s]
               q == [r EXCEPT !.heard = FALSE]
    <3>1. r \in RequestOf(r)
      BY DEF CInv, Fits, NetFits, RequestFits
    <3>2. /\ q.stage = r.stage /\ q.what = r.what /\ q.reply = r.reply
          /\ q.copy = r.copy
      BY <3>1 DEF RequestOf
    <3> HIDE DEF q
    <3>3. net' = [net EXCEPT ![s] = q]
      BY <2>2 DEF q
    <3>4. /\ net' = [t \in Slots |-> net'[t]]
          /\ net'[s] = q /\ \A t \in Slots \ {s} : net'[t] = net[t]
      BY <3>3 DEF Keeps
    <3> QED BY <3>2, <3>4 DEF Keeps
  <2> QED BY <1>1, <2>1, <2>2
<1> QED BY <1>4, <1>5, <1>6, <1>7, <1>8, <1>9, <1>10 DEF Deliver, Fail

LEMMA ReloadKeeps ==
  ASSUME CInv, Reload
  PROVE  Keeps(net')
<1> DEFINE n == [s \in Slots |-> Abandoned(net[s])]
<1>1. Keeps(n)
  <2>1. ASSUME NEW s \in Slots, n[s].stage = "begun"
        PROVE  /\ net[s].stage = "begun" /\ n[s].what = net[s].what
               /\ n[s].reply = net[s].reply /\ n[s].copy = net[s].copy
    <3>1. net[s] \in RequestOf(net[s])
      BY DEF CInv, Fits, NetFits, RequestFits
    <3>2. n[s] = Abandoned(net[s])
      OBVIOUS
    <3> HIDE DEF n
    <3>3. n[s] = [net[s] EXCEPT !.heard = FALSE]
      BY <2>1, <3>2 DEF Abandoned, Free
    <3> QED BY <2>1, <3>1, <3>3 DEF RequestOf
  <2>2. n = [s \in Slots |-> n[s]]
    OBVIOUS
  <2> HIDE DEF n
  <2> QED BY <2>1, <2>2 DEF Keeps
<1>2. net' \in Place(n, Send("session")) /\ Send("session").stage # "begun"
  BY DEF Reload, Mount, Send, Free
<1> HIDE DEF n
<1> QED BY <1>1, <1>2, KeepsPlace

LEMMA ClientKeeps ==
  ASSUME CInv,
         \/ \E u \in Players : ClickStart(u)
         \/ \E i \in Indices : Toggle(i)
         \/ Reload \/ LearnStatus
         \/ \E s \in Slots : Drop(s) \/ Headers(s) \/ Deliver(s) \/ Fail(s)
         \/ \E p \in Players : Elsewhere(p) \/ RecordTime(p)
  PROVE  UNCHANGED sess /\ Keeps(net')
<1>1. Keeps(net)
  BY DEF CInv, Fits, NetFits, Keeps
<1>2. ASSUME NEW u \in Players, ClickStart(u)
      PROVE  UNCHANGED sess /\ Keeps(net')
  <2>1. [Send("start") EXCEPT !.user = u].stage # "begun"
    BY DEF Send, Free
  <2> QED BY <1>1, <1>2, <2>1, KeepsPlace DEF ClickStart, serverVars
<1>3. ASSUME NEW i \in Indices, Toggle(i)
      PROVE  UNCHANGED sess /\ Keeps(net')
  BY <1>1, <1>3, KeepsEffect DEF Toggle, serverVars
<1>4. CASE Reload
  BY <1>4, ReloadKeeps DEF Reload, serverVars
<1>5. CASE LearnStatus
  BY <1>1, <1>5 DEF LearnStatus, serverVars
<1>6. ASSUME NEW s \in Slots, Drop(s)
      PROVE  UNCHANGED sess /\ Keeps(net')
  BY <1>1, <1>6, KeepsPut DEF Drop, serverVars, Free
<1>7. ASSUME NEW s \in Slots, Headers(s)
      PROVE  UNCHANGED sess /\ Keeps(net')
  <2> DEFINE q == [net[s] EXCEPT !.reply.cookie = None]
  <2>1. q.stage # "begun" /\ net' = [net EXCEPT ![s] = q] /\ UNCHANGED sess
    <3>1. net[s] \in RequestOf(net[s])
      BY DEF CInv, Fits, NetFits, RequestFits
    <3> QED BY <1>7, <3>1 DEF Headers, serverVars, RequestOf
  <2> HIDE DEF q
  <2> QED BY <1>1, <2>1, KeepsPut
<1>8. ASSUME NEW s \in Slots, Deliver(s) \/ Fail(s)
      PROVE  UNCHANGED sess /\ Keeps(net')
  BY <1>1, <1>8, DeliverKeeps DEF Deliver, Fail, serverVars
<1>9. ASSUME NEW p \in Players, Elsewhere(p)
      PROVE  UNCHANGED sess /\ Keeps(net')
  <2>1. [Free EXCEPT !.what = "start", !.user = p].stage # "begun"
    BY DEF Free
  <2>2. \A sid, at :
          [Free EXCEPT !.what = "submit", !.sid = sid, !.at = at].stage # "begun"
    BY DEF Free
  <2> QED BY <1>1, <1>9, <2>1, <2>2, KeepsPlace DEF Elsewhere, serverVars
<1>10. ASSUME NEW p \in Players, RecordTime(p)
       PROVE  UNCHANGED sess /\ Keeps(net')
  BY <1>1, <1>10 DEF RecordTime
<1> QED BY <1>2, <1>3, <1>4, <1>5, <1>6, <1>7, <1>8, <1>9, <1>10

\* A start draws a session that no other has drawn.
LEMMA StartBegins ==
  ASSUME CInv, BInv, NEW s \in Slots, StartSession(s)
  PROVE  BInv'
<1> DEFINE r == net[s]
<1>1. Keeps(net) /\ r \in RequestOf(r) /\ ServerFits
  BY DEF CInv, Fits, NetFits, Keeps, RequestFits
<1>2. CASE UNCHANGED sess /\ \E a : Answer(s, a)
  BY <1>1, <1>2, KeepsAnswer, KeptBegun
<1>3. ASSUME NEW p, NEW sid \in Fresh(p), NEW a, a.sid = sid, a.ok,
             sess' = [sess EXCEPT ![sid].state = "drawn"],
             net' = [net EXCEPT ![s].stage = "begun", ![s].reply = a]
      PROVE  BInv'
  <2>1. sid \in Sessions /\ sess[sid].state = "absent"
    BY SessionParts DEF Fresh
  <2>2. /\ \A t \in Slots \ {s} : net'[t] = net[t]
        /\ net'[s].reply = a /\ net'[s].what = "start"
    BY <1>1, <1>3 DEF Keeps, RequestOf, StartSession
  <2>3. /\ sess'[sid].state = "drawn"
        /\ \A o \in Sessions \ {sid} : sess'[o] = sess[o]
    BY <1>1, <1>3, <2>1 DEF ServerFits, RowFits, Row
  <2>4. \A t \in Slots \ {s} : Draws(net'[t]) =>
          /\ net'[t].reply.ok /\ net'[t].reply.sid \in Sessions \ {sid}
          /\ sess'[net'[t].reply.sid].state = "drawn"
    BY <2>1, <2>2, <2>3 DEF BInv
  <2>5. \A t \in Slots : Copies(net'[t]) => net'[t].copy \subseteq ToSet(Deal)
    BY <2>2 DEF BInv, Copies
  <2>6. \A t, u \in Slots \ {s} : Draws(net'[t]) /\ Draws(net'[u]) /\ t # u =>
          net'[t].reply.sid # net'[u].reply.sid
    BY <2>2 DEF BInv
  <2>7. \A t \in Slots : Draws(net'[t]) =>
          /\ net'[t].reply.ok /\ net'[t].reply.sid \in Sessions
          /\ sess'[net'[t].reply.sid].state = "drawn"
    BY <1>3, <2>1, <2>2, <2>3, <2>4
  <2>8. ASSUME NEW t \in Slots, NEW u \in Slots, Draws(net'[t]), Draws(net'[u]),
               t # u
        PROVE  net'[t].reply.sid # net'[u].reply.sid
    <3>1. net'[s].reply.sid = sid
      BY <1>3, <2>2
    <3>2. t # s => net'[t].reply.sid # sid
      BY <2>4, <2>8
    <3>3. u # s => net'[u].reply.sid # sid
      BY <2>4, <2>8
    <3>4. CASE t = s
      BY <2>8, <3>1, <3>3, <3>4
    <3>5. CASE u = s
      BY <2>8, <3>1, <3>2, <3>5
    <3>6. CASE t # s /\ u # s
      BY <2>6, <2>8, <3>6
    <3> QED BY <3>4, <3>5, <3>6
  <2> QED BY <2>5, <2>7, <2>8 DEF BInv
<1>4. \/ UNCHANGED sess /\ \E a : Answer(s, a)
      \/ \E p : \E sid \in Fresh(p) : \E a :
           /\ a.sid = sid /\ a.ok
           /\ sess' = [sess EXCEPT ![sid].state = "drawn"]
           /\ net' = [net EXCEPT ![s].stage = "begun", ![s].reply = a]
  <2> DEFINE known == r.user \in registered
             p == IF known \/ r.cookie = None THEN r.user ELSE r.cookie
             Started(sid) ==
               [NoReply EXCEPT !.ok = TRUE, !.sid = sid,
                  !.cookie = IF ~known /\ r.cookie = None THEN p ELSE None]
  <2>1. \A sid : Started(sid).sid = sid /\ Started(sid).ok
    BY DEF NoReply
  <2>2. \/ UNCHANGED sess /\ \E a : Answer(s, a)
        \/ \E sid \in Fresh(p) :
             /\ sess' = [sess EXCEPT ![sid].state = "drawn"]
             /\ net' = [net EXCEPT ![s].stage = "begun", ![s].reply = Started(sid)]
    BY DEF StartSession
  <2> HIDE DEF Started, p
  <2> QED BY <2>1, <2>2
<1> QED BY <1>2, <1>3, <1>4

\* A session that is written to is none that is drawn.
LEMMA WriteBegins ==
  ASSUME CInv, BInv, NEW s \in Slots, CreateSession(s) \/ ApplySessionChanges(s)
  PROVE  BInv'
<1>1. Keeps(net) /\ ServerFits /\ net[s] \in RequestOf(net[s])
  BY DEF CInv, Fits, NetFits, Keeps, RequestFits
<1>2. PICK a : Answer(s, a)
  BY DEF CreateSession, ApplySessionChanges
<1>3. Keeps(net')
  BY <1>1, <1>2, KeepsAnswer
<1>4. net'[s].stage # "begun"
  <2>1. CASE net' = [net EXCEPT ![s] = Free]
    BY <1>1, <2>1 DEF Keeps, Free
  <2>2. CASE net' = [net EXCEPT ![s] = Replied(net[s], a)]
    <3>1. Replied(net[s], a).stage # "begun"
      BY <1>1 DEF Replied, RequestOf
    <3> QED BY <1>1, <2>2, <3>1 DEF Keeps
  <2> QED BY <1>2, <2>1, <2>2 DEF Answer, Replied
<1>5. \A t \in Slots : Draws(net'[t]) =>
        /\ t # s /\ Draws(net[t]) /\ net'[t].reply = net[t].reply
        /\ net[t].reply.ok /\ net[t].reply.sid \in Sessions
        /\ sess[net[t].reply.sid].state = "drawn"
  BY <1>3, <1>4 DEF Keeps, Draws, BInv
<1>6. \A t \in Slots : Draws(net'[t]) => sess'[net[t].reply.sid].state = "drawn"
  <2>1. CASE CreateSession(s)
    <3>1. /\ Draws(net[s])
          /\ \A o \in Sessions \ {net[s].reply.sid} : sess'[o] = sess[o]
      BY <1>1, <2>1 DEF CreateSession, Draws, ServerFits
    <3>2. \A t \in Slots : Draws(net'[t]) => net[t].reply.sid # net[s].reply.sid
      BY <1>5, <3>1 DEF BInv
    <3> QED BY <1>5, <3>1, <3>2
  <2>2. CASE ApplySessionChanges(s)
    <3>1. \A o \in Sessions \ {net[s].sid} : sess'[o] = sess[o]
      BY <1>1, <2>2 DEF ApplySessionChanges, ServerFits
    <3>2. net[s].sid \in Sessions /\ sess[net[s].sid].state # "drawn"
      <4>1. RequestFits(net[s], World) /\ net[s].what = "submit"
        BY <2>2 DEF ApplySessionChanges, CInv, Fits, NetFits
      <4> QED BY <4>1, WorldIs DEF RequestFits, RequestOf, Held, Begun
    <3> QED BY <1>5, <3>1, <3>2
  <2> QED BY <2>1, <2>2
<1>7. \A t \in Slots : Copies(net'[t]) => net'[t].copy \subseteq ToSet(Deal)
  BY <1>3 DEF Keeps, Copies, BInv
<1>8. \A t, u \in Slots : Draws(net'[t]) /\ Draws(net'[u]) /\ t # u =>
        net'[t].reply.sid # net'[u].reply.sid
  BY <1>5 DEF BInv
<1> QED BY <1>5, <1>6, <1>7, <1>8 DEF BInv

LEMMA StepBegun == CInv /\ BInv /\ [Next]_vars => BInv'
<1> SUFFICES ASSUME CInv, BInv, [Next]_vars PROVE BInv'
  OBVIOUS
<1>1. Keeps(net) /\ ServerFits /\ \A s \in Slots : net[s] \in RequestOf(net[s])
  BY DEF CInv, Fits, NetFits, Keeps, RequestFits
<1>2. CASE UNCHANGED vars
  <2>1. UNCHANGED sess /\ net' = net
    BY <1>2 DEF vars
  <2> QED BY <1>1, <2>1, KeptBegun
<1>3. ASSUME NEW s \in Slots, ServeSession(s) PROVE BInv'
  <2>1. UNCHANGED sess /\ \E a : Answer(s, a)
    BY <1>3 DEF ServeSession, serverVars
  <2> QED BY <1>1, <2>1, KeepsAnswer, KeptBegun
<1>4. ASSUME NEW s \in Slots, LoadBoard(s) PROVE BInv'
  <2> DEFINE r == net[s]
             q == [r EXCEPT !.stage = "begun", !.copy = sess[r.sid].table]
  <2>1. UNCHANGED sess /\ r.what = "submit"
    BY <1>4 DEF LoadBoard, serverVars
  <2>2. CASE Answer(s, NoReply)
    BY <1>1, <2>1, <2>2, KeepsAnswer, KeptBegun
  <2>3. CASE net' = [net EXCEPT ![s].stage = "begun",
                                ![s].copy = sess[net[s].sid].table]
    <3>1. net' = [net EXCEPT ![s] = q]
      BY <1>1, <2>3 DEF Keeps
    <3>2. q.what = "submit" /\ q.copy = sess[r.sid].table
      BY <1>1, <2>1 DEF RequestOf
    <3> HIDE DEF q
    <3>3. net'[s] = q /\ \A t \in Slots \ {s} : net'[t] = net[t]
      BY <1>1, <3>1 DEF Keeps
    <3>4. q.copy \subseteq ToSet(Deal)
      <4>1. RequestFits(r, World)
        BY DEF CInv, Fits, NetFits
      <4>2. r.sid \in Sessions
        BY <2>1, <4>1 DEF RequestFits, RequestOf
      <4> QED BY <1>1, <3>2, <4>2 DEF ServerFits, RowFits
    <3>5. \A t \in Slots : Draws(net'[t]) => Draws(net[t]) /\ net'[t] = net[t]
      BY <3>2, <3>3 DEF Draws
    <3>6. \A t \in Slots : Copies(net'[t]) => net'[t].copy \subseteq ToSet(Deal)
      BY <3>3, <3>4 DEF BInv, Copies
    <3> QED BY <2>1, <3>5, <3>6 DEF BInv
  <2> QED BY <2>2, <2>3, <1>4 DEF LoadBoard
<1>5. ASSUME NEW s \in Slots, Serve(s) PROVE BInv'
  BY <1>3, <1>4, <1>5, StartBegins, WriteBegins DEF Serve
<1>6. CASE Next
  <2>1. \/ \E s \in Slots : Serve(s)
        \/ \/ \E u \in Players : ClickStart(u)
           \/ \E i \in Indices : Toggle(i)
           \/ Reload \/ LearnStatus
           \/ \E s \in Slots : Drop(s) \/ Headers(s) \/ Deliver(s) \/ Fail(s)
           \/ \E p \in Players : Elsewhere(p) \/ RecordTime(p)
    BY <1>6 DEF Next
  <2> QED BY <1>5, <2>1, ClientKeeps, KeptBegun
<1> QED BY <1>2, <1>6

\* The invariant holds, for any number of players, of sessions and of requests
\* under way, which the server serves in steps that interleave.
THEOREM ClientInvariant == Spec => [](CInv /\ BInv)
<1> QED BY InitFits, StepFits, StepBegun, PTL DEF Spec

\* The clock runs exactly while a session is known (start, loadServerSession
\* and restoreFromStorage set both).
THEOREM ClockHasSession == Spec => []SessionWhileStarted
<1>1. CInv => SessionWhileStarted
  BY DEF CInv, Fits, PageFits, SessionWhileStarted
<1> QED BY <1>1, ClientInvariant, PTL

\* Whatever is lost, repeated or answered out of order, and however the handlers
\* of the submissions overlap, a page that stays with its session counts no set
\* that was not recorded for it: each counted set is one accepted submission, and
\* each accepted submission records one.
THEOREM CountsAreCovered == Spec => []NeverOverclaims
<1>1. CInv => NeverOverclaims
  <2> SUFFICES ASSUME CInv, page.sessionId # None, ~page.switched
               PROVE  Len(page.foundSets) <= sess[page.sessionId].rows
    BY DEF NeverOverclaims
  <2>1. /\ page.sessionId \in Sessions /\ page.foundSets \in Seq(ValidSets)
        /\ Counts(net, page, World) /\ ServerFits
    BY DEF CInv, Fits, PageFits, PageOf
  <2>2. Len(page.foundSets) + Cardinality(Pending(net))
          <= sess[page.sessionId].rows
    BY <2>1, WorldIs DEF Counts
  <2>3. /\ Cardinality(Pending(net)) \in Nat
        /\ sess[page.sessionId].rows \in Nat
        /\ Len(page.foundSets) \in Nat
    BY <2>1, FS_CardinalityType, Rows DEF Counts
  <2> QED BY <2>2, <2>3
<1> QED BY <1>1, ClientInvariant, PTL

\* The selection names cards that are on the board, as long as one thing is
\* asked at a time and no answer is lost.
THEOREM SelectionIsOnBoard == Spec => []SelectionOnBoard
<1>1. CInv => SelectionOnBoard
  BY DEF CInv, Fits, PageFits, SelectionOnBoard
<1> QED BY <1>1, ClientInvariant, PTL

\* With its player's cookie a page comes back, after a reload, to the session
\* it left, while that is the one to play.
THEOREM ReloadResumes == Spec => []ResumesByCookie
<1>1. CInv => ResumesByCookie
  <2> SUFFICES ASSUME CInv, ~page.loading, Current(page.left),
                      cookie = page.left[1]
               PROVE  /\ page.startAt
                      /\ page.sessionId = page.left \/ page.switched
    BY DEF ResumesByCookie
  <2>1. page.left \in Sessions \cup {None}
    BY DEF CInv, Fits, PageFits, PageOf
  <2>2. Played(page.left, World)
    BY <2>1, PlayedIsCurrent
  <2> QED BY <2>2 DEF CInv, Fits, PageFits
<1> QED BY <1>1, ClientInvariant, PTL

-----------------------------------------------------------------------------
(* Boards: the entries of a sequence at some of its indices *)

\* How many indices of A are not above i, and the n-th index of A.
Rank(A, i) == Cardinality({j \in A : j <= i})

Nth(A, n) == CHOOSE i \in A : Cardinality({j \in A : j <= i}) = n

\* Higher indices have higher ranks.
LEMMA RankUp ==
  ASSUME NEW A, A \subseteq Nat, IsFiniteSet(A), NEW i \in A
  PROVE  /\ Rank(A, i) \in 1 .. Cardinality(A)
         /\ \A j \in A : i < j => Rank(A, i) < Rank(A, j)
<1> DEFINE Upto(k) == {j \in A : j <= k}
<1>1. Cardinality(A) \in Nat
  BY FS_CardinalityType
<1>2. ASSUME NEW k \in A
      PROVE  /\ IsFiniteSet(Upto(k)) /\ Cardinality(Upto(k)) \in Nat
             /\ Cardinality(Upto(k)) <= Cardinality(A)
             /\ Cardinality(Upto(k)) # 0
  <2>1. Upto(k) \in SUBSET A
    OBVIOUS
  <2>2. k \in Upto(k)
    OBVIOUS
  <2> HIDE DEF Upto
  <2>3. IsFiniteSet(Upto(k)) /\ Cardinality(Upto(k)) <= Cardinality(A)
    BY <2>1, FS_Subset
  <2>4. Cardinality(Upto(k)) # 0
    BY <2>2, <2>3, FS_EmptySet
  <2> QED BY <2>3, <2>4, FS_CardinalityType
<1>3. ASSUME NEW j \in A, i < j PROVE Rank(A, i) < Rank(A, j)
  <2>1. Upto(i) \in SUBSET Upto(j) /\ j \in Upto(j) /\ j \notin Upto(i)
    <3>1. i \in Nat /\ j \in Nat
      OBVIOUS
    <3>2. ASSUME NEW x \in Upto(i) PROVE x \in Upto(j)
      <4>1. x \in A /\ x \in Nat /\ x <= i
        OBVIOUS
      <4> QED BY <1>3, <3>1, <4>1
    <3>3. j \in Upto(j) /\ j \notin Upto(i)
      BY <1>3, <3>1
    <3> HIDE DEF Upto
    <3> QED BY <3>2, <3>3
  <2>2. Rank(A, i) = Cardinality(Upto(i)) /\ Rank(A, j) = Cardinality(Upto(j))
    BY DEF Rank
  <2> HIDE DEF Upto
  <2>3. /\ Cardinality(Upto(i)) <= Cardinality(Upto(j))
        /\ Cardinality(Upto(j)) = Cardinality(Upto(i)) => Upto(j) = Upto(i)
    BY <1>2, <2>1, FS_Subset
  <2> QED BY <1>2, <2>1, <2>2, <2>3
<1>4. Rank(A, i) = Cardinality(Upto(i))
  BY DEF Rank
<1> HIDE DEF Upto
<1> QED BY <1>1, <1>2, <1>3, <1>4

\* Indices and ranks are one to one.
LEMMA NthRank ==
  ASSUME NEW A, A \subseteq Nat, IsFiniteSet(A)
  PROVE  /\ \A n \in 1 .. Cardinality(A) :
              Nth(A, n) \in A /\ Rank(A, Nth(A, n)) = n
         /\ \A i \in A : Nth(A, Rank(A, i)) = i
<1> DEFINE k == Cardinality(A)
           f == [i \in A |-> Rank(A, i)]
<1>1. k \in Nat
  BY FS_CardinalityType
<1>2. f \in [A -> 1 .. k] /\ \A i, j \in A : f[i] = f[j] => i = j
  <2>1. \A i, j \in A : i < j \/ j < i \/ i = j
    OBVIOUS
  <2>2. \A i \in A : Rank(A, i) \in 1 .. k
    BY RankUp
  <2>3. \A i, j \in A : i < j => Rank(A, i) < Rank(A, j)
    BY RankUp
  <2>4. ASSUME NEW i \in A, NEW j \in A, Rank(A, i) = Rank(A, j)
        PROVE  i = j
    <3>1. Rank(A, i) \in Int /\ Rank(A, j) \in Int
      BY <1>1, <2>2
    <3> QED BY <2>1, <2>3, <2>4, <3>1
  <2> HIDE DEF k
  <2> QED BY <2>2, <2>4
<1>3. f \in Injection(A, 1 .. k)
  BY <1>2 DEF Injection, IsInjective
<1>4. IsFiniteSet(1 .. k) /\ Cardinality(1 .. k) = k
  <2> HIDE DEF k
  <2> QED BY <1>1, FS_Interval
<1>5. f \in Surjection(A, 1 .. k)
  BY <1>3, <1>4, FS_Injection
<1>6. ASSUME NEW n \in 1 .. k
      PROVE  Nth(A, n) \in A /\ Rank(A, Nth(A, n)) = n
  <2>1. \E i \in A : f[i] = n
    BY <1>5 DEF Surjection
  <2>2. \E i \in A : Cardinality({j \in A : j <= i}) = n
    BY <2>1 DEF Rank
  <2> QED BY <2>2 DEF Nth, Rank
<1>7. ASSUME NEW i \in A PROVE Nth(A, Rank(A, i)) = i
  <2>1. Rank(A, i) \in 1 .. k
    BY <1>2
  <2>2. Nth(A, Rank(A, i)) \in A /\ Rank(A, Nth(A, Rank(A, i))) = Rank(A, i)
    BY <1>6, <2>1
  <2> QED BY <1>2, <2>2
<1> QED BY <1>6, <1>7

\* The n-th indices go up.
LEMMA NthUp ==
  ASSUME NEW A, A \subseteq Nat, IsFiniteSet(A),
         NEW m \in 1 .. Cardinality(A), NEW n \in 1 .. Cardinality(A), m < n
  PROVE  Nth(A, m) < Nth(A, n)
<1>1. /\ Nth(A, m) \in A /\ Rank(A, Nth(A, m)) = m
      /\ Nth(A, n) \in A /\ Rank(A, Nth(A, n)) = n
  BY NthRank
<1>2. Nth(A, n) < Nth(A, m) => n < m
  BY <1>1, RankUp
<1>3. Nth(A, n) # Nth(A, m)
  BY <1>1
<1>4. Nth(A, m) \in Nat /\ Nth(A, n) \in Nat /\ m \in Int /\ n \in Int
  <2>1. Cardinality(A) \in Nat
    BY FS_CardinalityType
  <2>2. Nth(A, m) \in Nat /\ Nth(A, n) \in Nat
    BY <1>1
  <2> QED BY <2>1, <2>2
<1> QED BY <1>2, <1>3, <1>4

\* What is counted once each from 1 to n.
LEMMA CountUp ==
  ASSUME NEW n \in Nat, NEW c, NEW B,
         \A m \in 1 .. n : c[m] \in B, \A i \in B : \E m \in 1 .. n : c[m] = i,
         \A l, m \in 1 .. n : c[l] = c[m] => l = m
  PROVE  IsFiniteSet(B) /\ Cardinality(B) = n
<1> DEFINE d == [m \in 1 .. n |-> c[m]]
<1>1. d \in Bijection(1 .. n, B)
  BY DEF Bijection, Injection, IsInjective, Surjection
<1>2. ExistsBijection(1 .. n, B)
  BY <1>1 DEF ExistsBijection
<1> QED BY <1>2, FS_CountingElements, FS_NatBijection

\* A sequence that goes up through all of A is that of the n-th indices.
LEMMA NthOnly ==
  ASSUME NEW A, A \subseteq Nat, NEW k \in Nat, NEW c \in [1 .. k -> A],
         \A m, n \in 1 .. k : m < n => c[m] < c[n],
         \A i \in A : \E n \in 1 .. k : c[n] = i
  PROVE  /\ IsFiniteSet(A) /\ Cardinality(A) = k
         /\ \A n \in 1 .. k : c[n] = Nth(A, n)
<1>1. \A m, n \in 1 .. k : /\ c[m] \in Nat
                           /\ c[m] <= c[n] <=> m <= n
                           /\ c[m] = c[n] => m = n
  <2> SUFFICES ASSUME NEW m \in 1 .. k, NEW n \in 1 .. k
               PROVE  /\ c[m] \in Nat
                      /\ c[m] <= c[n] <=> m <= n
                      /\ c[m] = c[n] => m = n
    OBVIOUS
  <2>1. c[m] \in Nat /\ c[n] \in Nat
    OBVIOUS
  <2>2. m < n \/ m = n \/ n < m
    OBVIOUS
  <2> QED BY <2>1, <2>2
<1>3. IsFiniteSet(A) /\ Cardinality(A) = k
  BY <1>1, CountUp
<1>4. ASSUME NEW n \in 1 .. k PROVE c[n] = Nth(A, n)
  <2>1. Rank(A, c[n]) = n
    <3> DEFINE B == {j \in A : j <= c[n]}
    <3>1. n \in Nat /\ \A m \in 1 .. n : m \in 1 .. k
      OBVIOUS
    <3>2. \A m \in 1 .. n : c[m] \in B
      BY <1>1, <3>1
    <3>3. ASSUME NEW i \in B PROVE \E m \in 1 .. n : c[m] = i
      <4>1. PICK m \in 1 .. k : c[m] = i
        OBVIOUS
      <4>2. m <= n
        BY <1>1, <4>1
      <4> QED BY <4>1, <4>2
    <3>4. \A l, m \in 1 .. n : c[l] = c[m] => l = m
      BY <1>1, <3>1
    <3> HIDE DEF B
    <3>5. Cardinality(B) = n
      BY <3>1, <3>2, <3>3, <3>4, CountUp
    <3> QED BY <3>5 DEF B, Rank
  <2>2. Nth(A, Rank(A, c[n])) = c[n]
    BY <1>3, NthRank
  <2> QED BY <2>1, <2>2
<1> QED BY <1>3, <1>4

\* What the entries of a sequence are.
LEMMA EntriesAre ==
  ASSUME NEW S, NEW q \in Seq(S), NEW A, A \subseteq DOMAIN q
  PROVE  /\ IsFiniteSet(A) /\ A \subseteq Nat /\ Cardinality(A) \in Nat
         /\ Entries(q, A) \in Seq(S)
         /\ DOMAIN Entries(q, A) = 1 .. Cardinality(A)
         /\ \A n \in 1 .. Cardinality(A) :
              Nth(A, n) \in A /\ Entries(q, A)[n] = q[Nth(A, n)]
<1>1. DOMAIN q = 1 .. Len(q) /\ Len(q) \in Nat
  OBVIOUS
<1>2. A \subseteq Nat /\ IsFiniteSet(A)
  <2>1. IsFiniteSet(1 .. Len(q))
    BY <1>1, FS_Interval
  <2>2. A \in SUBSET (1 .. Len(q))
    BY <1>1
  <2> QED BY <2>1, <2>2, FS_Subset
<1>3. Cardinality(A) \in Nat
  BY <1>2, FS_CardinalityType
<1>4. Entries(q, A) = [n \in 1 .. Cardinality(A) |-> q[Nth(A, n)]]
  BY DEF Entries, Nth
<1>5. \A n \in 1 .. Cardinality(A) : Nth(A, n) \in A
  BY <1>2, NthRank
<1>6. Entries(q, A) \in Seq(S)
  <2>1. \A n \in 1 .. Cardinality(A) : q[Nth(A, n)] \in S
    BY <1>5
  <2> QED BY <1>3, <1>4, <2>1
<1> QED BY <1>2, <1>3, <1>4, <1>5, <1>6

\* The k indices of c go up through all of A.
Lists(c, k, A) ==
  /\ k \in Nat /\ c \in [1 .. k -> A]
  /\ \A m, n \in 1 .. k : m < n => c[m] < c[n]
  /\ \A i \in A : \E n \in 1 .. k : c[n] = i

\* So they give the entries at A.
LEMMA EntriesEqual ==
  ASSUME NEW S, NEW q \in Seq(S), NEW A, A \subseteq DOMAIN q, NEW k, NEW c,
         Lists(c, k, A)
  PROVE  Entries(q, A) = [n \in 1 .. k |-> q[c[n]]]
<1>1. A \subseteq Nat
  BY EntriesAre
<1>2. Cardinality(A) = k /\ \A n \in 1 .. k : c[n] = Nth(A, n)
  BY <1>1, NthOnly DEF Lists
<1>3. Entries(q, A) = [n \in 1 .. Cardinality(A) |-> q[Nth(A, n)]]
  BY DEF Entries, Nth
<1> QED BY <1>2, <1>3

\* All entries are the sequence.
LEMMA EntriesAll ==
  ASSUME NEW S, NEW q \in Seq(S)
  PROVE  Entries(q, DOMAIN q) = q
<1> DEFINE k == Len(q)
           c == [n \in 1 .. k |-> n]
<1>1. k \in Nat /\ DOMAIN q = 1 .. k /\ q = [n \in 1 .. k |-> q[n]]
  OBVIOUS
<1>2. /\ c \in [1 .. k -> DOMAIN q] /\ \A n \in 1 .. k : c[n] = n
      /\ \A i \in DOMAIN q : \E n \in 1 .. k : c[n] = i
  BY <1>1
<1>3. \A m, n \in 1 .. k : m < n => c[m] < c[n]
  BY <1>2
<1> HIDE DEF k, c
<1>5. Lists(c, k, DOMAIN q)
  BY <1>1, <1>2, <1>3 DEF Lists
<1>4. Entries(q, DOMAIN q) = [n \in 1 .. k |-> q[c[n]]]
  <2> DEFINE A == DOMAIN q
  <2>1. A \subseteq DOMAIN q /\ Lists(c, k, A)
    BY <1>5
  <2> HIDE DEF A
  <2>2. Entries(q, A) = [n \in 1 .. k |-> q[c[n]]]
    BY <2>1, EntriesEqual
  <2> QED BY <2>2 DEF A
<1> QED BY <1>1, <1>2, <1>4

\* Entries of entries.
LEMMA EntriesTwice ==
  ASSUME NEW S, NEW q \in Seq(S), NEW A, A \subseteq DOMAIN q,
         NEW C, C \subseteq 1 .. Cardinality(A)
  PROVE  Entries(Entries(q, A), C) = Entries(q, {Nth(A, n) : n \in C})
<1> DEFINE B == {Nth(A, n) : n \in C}
           k == Cardinality(C)
           c == [m \in 1 .. k |-> Nth(A, Nth(C, m))]
<1>1. /\ IsFiniteSet(A) /\ A \subseteq Nat /\ Cardinality(A) \in Nat
      /\ Entries(q, A) \in Seq(S)
      /\ DOMAIN Entries(q, A) = 1 .. Cardinality(A)
      /\ \A n \in 1 .. Cardinality(A) :
           Nth(A, n) \in A /\ Entries(q, A)[n] = q[Nth(A, n)]
  BY EntriesAre
<1>2. /\ IsFiniteSet(C) /\ C \subseteq Nat /\ k \in Nat
      /\ DOMAIN Entries(Entries(q, A), C) = 1 .. k
      /\ \A m \in 1 .. k :
           /\ Nth(C, m) \in C
           /\ Entries(Entries(q, A), C)[m] = Entries(q, A)[Nth(C, m)]
  <2> DEFINE e == Entries(q, A)
  <2>1. e \in Seq(S) /\ C \subseteq DOMAIN e
    BY <1>1
  <2> HIDE DEF e
  <2>2. /\ IsFiniteSet(C) /\ C \subseteq Nat /\ Cardinality(C) \in Nat
        /\ DOMAIN Entries(e, C) = 1 .. Cardinality(C)
        /\ \A m \in 1 .. Cardinality(C) :
             Nth(C, m) \in C /\ Entries(e, C)[m] = e[Nth(C, m)]
    BY <2>1, EntriesAre
  <2> QED BY <2>2 DEF e
<1>3. /\ \A m \in 1 .. k : c[m] = Nth(A, Nth(C, m)) /\ c[m] \in B
      /\ c \in [1 .. k -> B]
  BY <1>2
<1>4. B \subseteq DOMAIN q
  BY <1>1
<1>5. ASSUME NEW i \in B PROVE \E n \in 1 .. k : c[n] = i
  <2>1. PICK n \in C : i = Nth(A, n)
    OBVIOUS
  <2>2. Rank(C, n) \in 1 .. k /\ Nth(C, Rank(C, n)) = n
    BY <1>2, RankUp, NthRank
  <2> QED BY <1>3, <2>1, <2>2
<1>6. ASSUME NEW m \in 1 .. k, NEW n \in 1 .. k, m < n PROVE c[m] < c[n]
  <2>1. Nth(C, m) < Nth(C, n) /\ Nth(C, m) \in C /\ Nth(C, n) \in C
    BY <1>2, <1>6, NthUp
  <2>2. Nth(A, Nth(C, m)) < Nth(A, Nth(C, n))
    BY <1>1, <2>1, NthUp
  <2> QED BY <1>3, <2>2
<1> HIDE DEF B, k, c
<1>7. Entries(q, B) = [n \in 1 .. k |-> q[c[n]]]
  <2>1. Lists(c, k, B)
    BY <1>2, <1>3, <1>5, <1>6 DEF Lists
  <2> QED BY <1>4, <2>1, EntriesEqual
<1>8. Entries(Entries(q, A), C) = [n \in 1 .. k |-> q[c[n]]]
  <2>1. Entries(Entries(q, A), C) = [m \in 1 .. k |-> Entries(q, A)[Nth(C, m)]]
    BY DEF Entries, Nth, k
  <2>2. \A n \in 1 .. k : Entries(q, A)[Nth(C, n)] = q[c[n]]
    BY <1>1, <1>2, <1>3
  <2> QED BY <2>1, <2>2
<1>9. Entries(Entries(q, A), C) = Entries(q, B)
  BY <1>7, <1>8
<1> QED BY <1>9 DEF B

-----------------------------------------------------------------------------
(* The board of a table *)

\* The indices of the cards of S in the deal.
Dealt(S) == {i \in DOMAIN Deal : Deal[i] \in S}

\* The full table is the deal.
LEMMA OrderedFull == Ordered(ToSet(Deal)) = Deal
<1>1. Dealt(ToSet(Deal)) = DOMAIN Deal
  BY DealAssumption DEF Dealt, ToSet
<1>2. Ordered(ToSet(Deal)) = Entries(Deal, Dealt(ToSet(Deal)))
  BY DEF Ordered, Dealt
<1>3. Deal \in Seq(Cards)
  BY DealAssumption
<1> QED BY <1>1, <1>2, <1>3, EntriesAll

\* The board has the cards of the table.
LEMMA OrderedAre ==
  ASSUME NEW S, S \subseteq ToSet(Deal)
  PROVE  Ordered(S) \in Seq(Cards) /\ ToSet(Ordered(S)) = S
<1> DEFINE A == Dealt(S)
           b == Ordered(S)
<1>1. A \subseteq DOMAIN Deal /\ Deal \in Seq(Cards) /\ b = Entries(Deal, A)
  BY DealAssumption DEF Dealt, Ordered
<1>2. /\ IsFiniteSet(A) /\ A \subseteq Nat /\ b \in Seq(Cards)
      /\ DOMAIN b = 1 .. Cardinality(A)
      /\ \A n \in 1 .. Cardinality(A) :
           Nth(A, n) \in A /\ b[n] = Deal[Nth(A, n)]
  BY <1>1, EntriesAre
<1>3. ASSUME NEW x \in S PROVE \E n \in DOMAIN b : b[n] = x
  <2>1. PICK i \in A : Deal[i] = x
    BY DealAssumption DEF Dealt, ToSet
  <2>2. Rank(A, i) \in 1 .. Cardinality(A) /\ Nth(A, Rank(A, i)) = i
    BY <1>2, RankUp, NthRank
  <2> QED BY <1>2, <2>1, <2>2
<1>4. \A n \in DOMAIN b : b[n] \in S
  BY <1>2 DEF Dealt
<1> HIDE DEF b
<1>5. ToSet(b) = S
  BY <1>3, <1>4 DEF ToSet
<1> QED BY <1>2, <1>5 DEF b

\* What is left of the board, when the cards at some indices are taken, is the
\* board of what is left of the table.
LEMMA OrderedWithout ==
  ASSUME NEW S, S \subseteq ToSet(Deal), NEW at, at \subseteq DOMAIN Ordered(S)
  PROVE  Splice(Ordered(S), at) = Ordered(S \ CardsAt(Ordered(S), at))
<1> DEFINE A == Dealt(S)
           b == Ordered(S)
           C == DOMAIN b \ at
           T == S \ CardsAt(b, at)
           B == {Nth(A, n) : n \in C}
<1>1. A \subseteq DOMAIN Deal /\ Deal \in Seq(Cards) /\ b = Entries(Deal, A)
  BY DealAssumption DEF Dealt, Ordered
<1>2. /\ IsFiniteSet(A) /\ A \subseteq Nat
      /\ DOMAIN b = 1 .. Cardinality(A)
      /\ \A n \in 1 .. Cardinality(A) :
           Nth(A, n) \in A /\ b[n] = Deal[Nth(A, n)]
  BY <1>1, EntriesAre
<1>3. /\ Splice(b, at) = Entries(Entries(Deal, A), C)
      /\ C \subseteq 1 .. Cardinality(A)
  BY <1>1, <1>2 DEF Splice, Without
<1>4. Entries(Entries(Deal, A), C) = Entries(Deal, B)
  BY <1>1, <1>3, EntriesTwice
<1>5. ASSUME NEW n \in 1 .. Cardinality(A)
      PROVE  b[n] \in T <=> n \in C
  <2>1. b[n] \in S
    BY <1>2 DEF Dealt
  <2>2. ASSUME NEW m \in at, b[m] = b[n] PROVE m = n
    <3>1. m \in 1 .. Cardinality(A)
      BY <1>2
    <3>2. Nth(A, m) = Nth(A, n)
      <4>1. Deal[Nth(A, m)] = Deal[Nth(A, n)]
        BY <1>2, <2>2, <3>1
      <4> QED BY <1>1, <1>2, <3>1, <4>1, DealAssumption
    <3>3. Rank(A, Nth(A, m)) = m /\ Rank(A, Nth(A, n)) = n
      BY <1>2, <3>1, NthRank
    <3> QED BY <3>2, <3>3
  <2>3. b[n] \in CardsAt(b, at) <=> n \in at
    <3>1. at \cap DOMAIN b = at
      OBVIOUS
    <3> HIDE DEF b
    <3> QED BY <2>2, <3>1 DEF CardsAt
  <2>4. n \in C <=> n \notin at
    BY <1>2
  <2> HIDE DEF b, C
  <2> QED BY <2>1, <2>3, <2>4
<1>6. Dealt(T) = B
  <2>1. ASSUME NEW i \in Dealt(T) PROVE i \in B
    <3>1. i \in A /\ Deal[i] \in T
      BY DEF Dealt
    <3>2. /\ Rank(A, i) \in 1 .. Cardinality(A)
          /\ Nth(A, Rank(A, i)) = i
      BY <1>2, <3>1, RankUp, NthRank
    <3>3. b[Rank(A, i)] = Deal[i]
      BY <1>2, <3>2
    <3>4. Rank(A, i) \in C
      BY <1>5, <3>1, <3>2, <3>3
    <3> QED BY <3>2, <3>4
  <2>2. ASSUME NEW n \in C PROVE Nth(A, n) \in Dealt(T)
    <3>1. n \in 1 .. Cardinality(A)
      BY <1>3
    <3>2. b[n] \in T /\ Nth(A, n) \in A /\ b[n] = Deal[Nth(A, n)]
      BY <1>2, <1>5, <2>2, <3>1
    <3> HIDE DEF T
    <3> QED BY <1>1, <3>2 DEF Dealt
  <2> HIDE DEF C, T, A
  <2> QED BY <2>1, <2>2
<1>7. Ordered(T) = Entries(Deal, B)
  BY <1>6 DEF Ordered, Dealt
<1> QED BY <1>3, <1>4, <1>7

-----------------------------------------------------------------------------
(* While the boards may not be apart: the page and its session *)

Table(sid, gm) == gm.sess[sid].table

\* What a request, or its answer, says of the board.
AgreesWith(r, p, gm) ==
  /\ r.what = "submit" =>
       /\ r.heard /\ r.at \subseteq DOMAIN p.board
       /\ r.cards = CardsAt(p.board, r.at)
  /\ r.heard /\ r.stage = "served" /\ Played(r.reply.sid, gm) =>
       /\ r.what = "session" => r.reply.board = Ordered(Table(r.reply.sid, gm))
       /\ r.what = "start" => Table(r.reply.sid, gm) = ToSet(Deal)
  /\ r.heard /\ r.what = "daily" /\ Played(p.sessionId, gm) =>
       Table(p.sessionId, gm) = ToSet(Deal)
  /\ Copies(r) /\ Played(r.sid, gm) => r.copy = Table(r.sid, gm)
  /\ Due(r) /\ Played(p.sessionId, gm) =>
       Splice(p.board, r.at) = Ordered(Table(p.sessionId, gm))

\* No board is on its way, and nothing that was found.
Quiet(r) == ~(r.heard /\ r.what = "daily") /\ ~Due(r)

Agree(p, n, gm) ==
  /\ ~p.switched
  /\ \A s \in Slots : AgreesWith(n[s], p, gm)
  /\ \A s, t \in Slots : n[s].what = "submit" /\ n[t].what = "submit" => s = t
  /\ (\A s \in Slots : Quiet(n[s])) /\ Played(p.sessionId, gm) =>
       p.board = Ordered(Table(p.sessionId, gm))

AInv == ~drift => Agree(page, net, World)

\* A request that asks nothing of the page, nor the page of it.
Still(r) == r.what # "submit" /\ (r.heard => r.what = "free")

Alone(n, s) == \A t \in Slots \ {s} : Still(n[t])

\* Of such a request the board may be anything.
LEMMA StillAgrees ==
  ASSUME NEW r, Still(r), NEW p, NEW gm
  PROVE  AgreesWith(r, p, gm) /\ Quiet(r)
BY DEF Still, AgreesWith, Quiet, Due, Copies

\* It is enough to look at a request that is alone.
LEMMA AloneAgrees ==
  ASSUME NEW n, NEW s \in Slots, Alone(n, s), NEW p, ~p.switched, NEW gm,
         AgreesWith(n[s], p, gm),
         Quiet(n[s]) /\ Played(p.sessionId, gm) =>
           p.board = Ordered(Table(p.sessionId, gm))
  PROVE  Agree(p, n, gm)
<1>1. \A t \in Slots \ {s} : AgreesWith(n[t], p, gm) /\ Quiet(n[t])
  BY StillAgrees DEF Alone
<1>2. \A t \in Slots \ {s} : n[t].what # "submit"
  BY DEF Alone, Still
<1> QED BY <1>1, <1>2 DEF Agree

\* The page waits for one thing at a time.
LEMMA OneAtATime ==
  ASSUME CInv, ~drift, Agree(page, net, World), NEW s \in Slots, net[s].heard,
         net[s].what # "free"
  PROVE  Alone(net, s)
<1>1. /\ PageFits(page, cookie, drift, registered, World)
      /\ NetFits(net, page, cookie, drift, World)
  BY DEF CInv, Fits
<1>2. \A t \in Slots :
        net[t].what \in {"free", "session", "start", "daily", "submit"}
  BY <1>1 DEF NetFits, RequestFits, RequestOf
<1>3. \A t \in Slots : net[t].what = "submit" => net[t].heard
  BY DEF Agree, AgreesWith
<1>4. ASSUME NEW t \in Slots \ {s}, net[t].heard, net[t].what # "free"
      PROVE  FALSE
  <2>1. /\ AnswerFits(net[t], page, cookie, drift, World)
        /\ AnswerFits(net[s], page, cookie, drift, World)
        /\ Apart(net[s], net[t], drift) /\ Apart(net[t], net[s], drift)
    BY <1>1, <1>4 DEF NetFits
  <2>2. page.loading => page.sessionId = None
    BY <1>1 DEF PageFits
  <2>3. ~(net[s].what = "submit" /\ net[t].what = "submit")
    BY <1>4 DEF Agree
  <2> QED BY <1>2, <1>4, <2>1, <2>2, <2>3 DEF AnswerFits, Apart
<1>5. \A t \in Slots \ {s} : Still(net[t])
  BY <1>3, <1>4 DEF Still
<1> QED BY <1>5 DEF Alone

\* One request takes the place of another, which leaves nothing to wait for.
LEMMA AgreeChange ==
  ASSUME NEW p, NEW n, NEW gm, n = [s \in Slots |-> n[s]], Agree(p, n, gm),
         NEW s \in Slots, NEW r, AgreesWith(r, p, gm),
         r.what = "submit" => \A t \in Slots \ {s} : n[t].what # "submit",
         Quiet(r) => Quiet(n[s])
  PROVE  Agree(p, [n EXCEPT ![s] = r], gm)
<1> DEFINE m == [n EXCEPT ![s] = r]
<1>1. m[s] = r /\ \A t \in Slots \ {s} : m[t] = n[t]
  OBVIOUS
<1> HIDE DEF m
<1>2. \A t \in Slots : AgreesWith(m[t], p, gm)
  BY <1>1 DEF Agree
<1>3. \A t, u \in Slots : m[t].what = "submit" /\ m[u].what = "submit" => t = u
  BY <1>1 DEF Agree
<1>4. (\A t \in Slots : Quiet(m[t])) => (\A t \in Slots : Quiet(n[t]))
  BY <1>1
<1>5. Agree(p, m, gm)
  BY <1>2, <1>3, <1>4 DEF Agree
<1> QED BY <1>5 DEF m

\* A request that is over, and left nothing to wait for.
LEMMA AgreeFreed ==
  ASSUME NEW p, NEW n, NEW gm, n = [s \in Slots |-> n[s]], Agree(p, n, gm),
         NEW s \in Slots, Quiet(n[s])
  PROVE  Agree(p, [n EXCEPT ![s] = Free], gm)
<1>1. AgreesWith(Free, p, gm) /\ Free.what # "submit"
  BY DEF AgreesWith, Free, Due, Copies
<1> QED BY <1>1, AgreeChange

\* A page that only differs in what agreement is not about.
LEMMA AgreeSame ==
  ASSUME NEW p, NEW q, NEW n, NEW gm, Agree(p, n, gm), q.board = p.board,
         q.sessionId = p.sessionId, q.switched = p.switched
  PROVE  Agree(q, n, gm)
BY DEF Agree, AgreesWith

\* The sessions that are still played have not moved.
Calm(gm, gn) ==
  \A sid \in Sessions :
    Begun(gm.sess[sid]) /\ gn.sess[sid].state = "active" =>
      gn.sess[sid].table = gm.sess[sid].table

\* A session that is still played has the table it had.
LEMMA TableLater ==
  ASSUME NEW gm, NEW gn, Grows(gm, gn), Calm(gm, gn),
         NEW sid \in Sessions \cup {None}, Held(sid, gm), Played(sid, gn)
  PROVE  Played(sid, gm) /\ Table(sid, gn) = Table(sid, gm)
<1>1. sid \in Sessions /\ Played(sid, gm)
  BY HeldLater DEF Played
<1> QED BY <1>1 DEF Played, Calm, Table, Begun

\* Agreement stays when the sessions that are played stay as they are.
LEMMA AgreeLater ==
  ASSUME NEW gm, NEW gn, Grows(gm, gn), Calm(gm, gn), NEW p, NEW n,
         p.sessionId \in Sessions \cup {None}, Held(p.sessionId, gm),
         \A s \in Slots : RequestFits(n[s], gm), Agree(p, n, gm)
  PROVE  Agree(p, n, gn)
<1>1. Played(p.sessionId, gn) =>
        /\ Played(p.sessionId, gm)
        /\ Table(p.sessionId, gn) = Table(p.sessionId, gm)
  BY TableLater
<1>2. ASSUME NEW s \in Slots PROVE AgreesWith(n[s], p, gn)
  <2>1. /\ n[s].reply.sid \in Sessions \cup {None}
        /\ n[s].sid \in Sessions \cup {None}
        /\ n[s].stage = "served" => Held(n[s].reply.sid, gm)
        /\ Held(n[s].sid, gm)
    BY DEF RequestFits, RequestOf, ReplyOf
  <2>4. Played(n[s].sid, gn) =>
          /\ Played(n[s].sid, gm)
          /\ Table(n[s].sid, gn) = Table(n[s].sid, gm)
    BY <2>1, TableLater
  <2>2. n[s].stage = "served" /\ Played(n[s].reply.sid, gn) =>
          /\ Played(n[s].reply.sid, gm)
          /\ Table(n[s].reply.sid, gn) = Table(n[s].reply.sid, gm)
    BY <2>1, TableLater
  <2>3. AgreesWith(n[s], p, gm)
    BY DEF Agree
  <2> QED BY <1>1, <2>2, <2>3, <2>4 DEF AgreesWith
<1> QED BY <1>1, <1>2 DEF Agree

\* The effect of App that submits, when nothing else is submitted.
LEMMA EffectAgrees ==
  ASSUME NEW p, NEW n, n = [s \in Slots |-> n[s]], NEW rerun,
         SubmitEffect(p, rerun, n), Agree(p, n, World),
         p.selected \subseteq DOMAIN p.board, ~drift'
  PROVE  Agree(p, net', World)
<1>1. CASE net' = n
  BY <1>1
<1>2. CASE /\ net' \in Place(n, Submission(p))
           /\ drift' = (drift \/ Submissions(n) # {})
  <2>1. PICK s \in Slots :
          n[s].what = "free" /\ net' = [n EXCEPT ![s] = Submission(p)]
    BY <1>2, Placed
  <2> DEFINE r == Submission(p)
  <2>2. /\ r.what = "submit" /\ r.heard = TRUE /\ r.stage = "asked"
        /\ r.at = p.selected /\ r.cards = CardsAt(p.board, p.selected)
    BY DEF Submission, Send, Free
  <2> HIDE DEF r
  <2>3. AgreesWith(r, p, World)
    BY <2>2 DEF AgreesWith, Due, Copies
  <2>4. \A t \in Slots : n[t].what # "submit"
    BY <1>2 DEF Submissions
  <2>5. Quiet(n[s])
    BY <2>1 DEF Quiet, Due
  <2>6. Agree(p, [n EXCEPT ![s] = r], World)
    BY <2>3, <2>4, <2>5, AgreeChange
  <2> QED BY <2>1, <2>6 DEF r
<1> QED BY <1>1, <1>2 DEF SubmitEffect

\* A page after a change, with its effects.
LEMMA BecomesAgrees ==
  ASSUME NEW p, NEW n, n = [s \in Slots |-> n[s]], NEW rerun,
         Becomes(p, rerun, n), Agree(p, n, World), CInv', ~drift'
  PROVE  Agree(page', net', World)
<1>1. page' = p /\ SubmitEffect(p, rerun, n)
  BY DEF Becomes
<1>2. p.selected \subseteq DOMAIN p.board
  <2>1. PageFits(page', cookie', drift', registered', World')
    BY DEF CInv, Fits
  <2> QED BY <1>1, <2>1 DEF PageFits
<1> QED BY <1>1, <1>2, EffectAgrees

-----------------------------------------------------------------------------
(* The steps of the page *)

\* The parts of the invariant that the steps below keep citing.
LEMMA Facts ==
  ASSUME CInv
  PROVE  /\ page \in PageOf(page) /\ page.sessionId \in Sessions \cup {None}
         /\ Held(page.sessionId, World)
         /\ net = [s \in Slots |-> net[s]]
         /\ \A s \in Slots : RequestFits(net[s], World)
         /\ \A s \in Slots : net[s] \in RequestOf(net[s])
         /\ \A s \in Slots :
              net[s].heard => AnswerFits(net[s], page, cookie, drift, World)
         /\ PageFits(page, cookie, drift, registered, World)
         /\ ServerFits /\ drift \in BOOLEAN
BY DEF CInv, ServerFits, Fits, PageFits, PageOf, NetFits, RequestFits

\* The start button is clicked.
LEMMA ClickAgrees ==
  ASSUME CInv, AInv, NEW u, ClickStart(u), ~drift'
  PROVE  Agree(page', net', World')
<1> DEFINE r == [Send("start") EXCEPT !.user = u]
<1>1. /\ net' \in Place(net, r) /\ ~drift /\ page' = page /\ World' = World
  BY DEF ClickStart, serverVars, World
<1>2. PICK s \in Slots : net[s].what = "free" /\ net' = [net EXCEPT ![s] = r]
  BY <1>1, Placed
<1>3. r.what = "start" /\ r.stage = "asked"
  BY DEF Send, Free
<1> HIDE DEF r
<1>4. AgreesWith(r, page, World) /\ Quiet(net[s])
  BY <1>2, <1>3 DEF AgreesWith, Quiet, Due, Copies
<1>5. Agree(page, [net EXCEPT ![s] = r], World)
  BY <1>1, <1>3, <1>4, Facts, AgreeChange DEF AInv
<1> QED BY <1>1, <1>2, <1>5

\* A card is selected, or not any more.
LEMMA ToggleAgrees ==
  ASSUME CInv, CInv', AInv, NEW i, Toggle(i), ~drift'
  PROVE  Agree(page', net', World')
<1>1. /\ \E S : page' = [page EXCEPT !.selected = S]
      /\ \E rerun : SubmitEffect(page', rerun, net)
      /\ World' = World
  BY DEF Toggle, serverVars, World
<1>2. ~drift
  BY <1>1 DEF SubmitEffect
<1>3. /\ page'.board = page.board /\ page'.sessionId = page.sessionId
      /\ page'.switched = page.switched
  BY <1>1, Facts DEF PageOf
<1>4. Agree(page', net, World)
  BY <1>2, <1>3, AgreeSame DEF AInv
<1>5. page'.selected \subseteq DOMAIN page'.board
  BY DEF CInv, Fits, PageFits
<1> QED BY <1>1, <1>4, <1>5, Facts, EffectAgrees

\* A new page agrees with whatever is left behind.
LEMMA MountAgrees ==
  ASSUME NEW left, NEW n, n = [s \in Slots |-> n[s]],
         \A s \in Slots : Still(n[s]), NEW m \in Place(n, Send("session")), NEW gm
  PROVE  Agree(EmptyPage(left), m, gm)
<1> DEFINE r == Send("session")
           q == EmptyPage(left)
<1>1. PICK s \in Slots : n[s].what = "free" /\ m = [n EXCEPT ![s] = r]
  BY Placed
<1>2. r.what = "session" /\ r.stage = "asked"
  BY DEF Send, Free
<1>3. q.sessionId = None /\ q.switched = FALSE
  BY DEF EmptyPage
<1> HIDE DEF r, q
<1>4. m[s] = r /\ Alone(m, s)
  BY <1>1 DEF Alone
<1>5. AgreesWith(r, q, gm) /\ ~Played(q.sessionId, gm)
  BY <1>2, <1>3 DEF AgreesWith, Due, Played, Copies
<1>6. Agree(q, m, gm)
  BY <1>3, <1>4, <1>5, AloneAgrees
<1> QED BY <1>6 DEF q

\* The page is loaded again.
LEMMA ReloadAgrees ==
  ASSUME CInv, Reload, ~drift'
  PROVE  Agree(page', net', World')
<1> DEFINE n == [s \in Slots |-> Abandoned(net[s])]
<1>1. /\ page' = EmptyPage(ToResume) /\ net' \in Place(n, Send("session"))
      /\ drift' = (Submissions(n) # {})
  BY DEF Reload, Mount
<1>2. ASSUME NEW s \in Slots PROVE Still(n[s])
  <2>1. n[s].what # "submit"
    BY <1>1 DEF Submissions
  <2>2. n[s] = Free \/ n[s] = [net[s] EXCEPT !.heard = FALSE]
    BY DEF Abandoned
  <2>3. n[s].heard = FALSE
    BY <2>2, Facts DEF RequestFits, RequestOf, Free
  <2> QED BY <2>1, <2>3 DEF Still
<1>3. n = [s \in Slots |-> n[s]]
  OBVIOUS
<1> HIDE DEF n
<1> QED BY <1>1, <1>2, <1>3, MountAgrees

\* The status of the player is learnt.
LEMMA StatusAgrees ==
  ASSUME CInv, AInv, LearnStatus, ~drift'
  PROVE  Agree(page', net', World')
<1>1. /\ \E yes : page' = [page EXCEPT !.asking = None, !.completedToday = yes]
      /\ World' = World /\ UNCHANGED <<net, drift>>
  BY DEF LearnStatus, serverVars, World
<1>2. /\ page'.board = page.board /\ page'.sessionId = page.sessionId
      /\ page'.switched = page.switched
  BY <1>1, Facts DEF PageOf
<1> QED BY <1>1, <1>2, AgreeSame DEF AInv

-----------------------------------------------------------------------------
(* The answers, and those that do not come *)

\* The page and the snapshot while the session is asked for.
LEMMA Loading ==
  ASSUME CInv, ~drift, Agree(page, net, World), NEW s \in Slots, net[s].heard,
         net[s].what = "session"
  PROVE  /\ page.sessionId = None /\ ~page.switched
         /\ ~(saved # None /\ saved.startAt)
<1>1. page.loading /\ page.sessionId = None /\ ~page.switched
  BY Facts DEF AnswerFits, PageFits, Agree
<1>2. SavedFits(saved, page, World)
  BY DEF CInv, Fits
<1> QED BY <1>1, <1>2 DEF SavedFits

\* The session is taken over with its board.
LEMMA ResumeAgrees ==
  ASSUME CInv, CInv', AInv, NEW s \in Slots, net[s].heard, net[s].stage = "served",
         net[s].what = "session", net[s].reply.ok,
         Becomes(ResumeSession(net[s].reply), TRUE, [net EXCEPT ![s] = Free]),
         World' = World, ~drift'
  PROVE  Agree(page', net', World')
<1> DEFINE r == net[s]
           n == [net EXCEPT ![s] = Free]
           q == ResumeSession(r.reply)
<1>1. ~drift
  BY DEF Becomes, SubmitEffect
<1>2. Agree(page, net, World) /\ Alone(net, s)
  BY <1>1, OneAtATime DEF AInv
<1>3. page.sessionId = None /\ ~page.switched
  BY <1>1, <1>2, Loading
<1>4. /\ q.board = r.reply.board /\ q.sessionId = r.reply.sid
      /\ q.switched = Switches(r.reply.sid)
  BY Facts DEF ResumeSession, PageOf
<1>5. ~q.switched
  BY <1>3, <1>4 DEF Switches
<1>6. AgreesWith(r, page, World)
  BY <1>2 DEF Agree
<1>7. n[s] = Free /\ Alone(n, s) /\ n = [t \in Slots |-> n[t]]
  BY <1>2, Facts DEF Alone
<1> HIDE DEF q, n
<1>8. AgreesWith(Free, q, World)
  BY DEF AgreesWith, Free, Due, Copies
<1>9. Played(q.sessionId, World) => q.board = Ordered(Table(q.sessionId, World))
  BY <1>4, <1>6 DEF AgreesWith
<1>10. Agree(q, n, World)
  BY <1>5, <1>7, <1>8, <1>9, AloneAgrees
<1> QED BY <1>7, <1>10, BecomesAgrees DEF q, n

\* There is no snapshot to go back to: it was overwritten at the mount.
LEMMA RestoreAgrees ==
  ASSUME CInv, AInv, NEW s \in Slots, net[s].heard, net[s].what = "session",
         NEW left, Restore(left, [net EXCEPT ![s] = Free]), World' = World,
         ~drift'
  PROVE  Agree(page', net', World')
<1>1. ~drift
  BY DEF Restore, Becomes, SubmitEffect
<1>2. Agree(page, net, World) /\ ~(saved # None /\ saved.startAt)
  BY <1>1, Loading DEF AInv
<1>3. /\ page' = [page EXCEPT !.loading = FALSE, !.left = left]
      /\ net' = [net EXCEPT ![s] = Free]
  BY <1>2 DEF Restore
<1>4. /\ page'.board = page.board /\ page'.sessionId = page.sessionId
      /\ page'.switched = page.switched
  BY <1>3, Facts DEF PageOf
<1>5. Agree(page, net', World)
  <2>1. Quiet(net[s])
    BY DEF Quiet, Due
  <2> QED BY <1>2, <1>3, <2>1, Facts, AgreeFreed
<1> QED BY <1>4, <1>5, AgreeSame

\* A start is answered: the session has its full board.
LEMMA StartAgrees ==
  ASSUME CInv, CInv', AInv, NEW s \in Slots, net[s].heard, net[s].stage = "served",
         DeliverStart(s), World' = World, ~drift'
  PROVE  Agree(page', net', World')
<1> DEFINE reply == net[s].reply
           daily == [Send("daily") EXCEPT !.sid = reply.sid, !.cookie = None]
           q == [page EXCEPT !.sessionId = reply.sid,
                             !.sessionToken = reply.sid, !.startAt = TRUE,
                             !.switched = Switches(reply.sid)]
           m == [net EXCEPT ![s] = daily]
<1>1. net[s].what = "start"
  BY DEF DeliverStart
<1>2. CASE ~reply.ok
  <2>1. /\ net' = [net EXCEPT ![s] = Free] /\ page' = page /\ ~drift
    BY <1>2 DEF DeliverStart
  <2>2. Quiet(net[s])
    BY <1>1 DEF Quiet, Due
  <2> QED BY <2>1, <2>2, Facts, AgreeFreed DEF AInv
<1>3. CASE reply.ok
  <2>1. Becomes(q, q # page, m)
    BY <1>3 DEF DeliverStart
  <2>2. ~drift
    BY <2>1 DEF Becomes, SubmitEffect
  <2>3. Agree(page, net, World) /\ Alone(net, s)
    BY <1>1, <2>2, OneAtATime DEF AInv
  <2>4. page.sessionId = None /\ ~page.switched
    BY <1>1, <2>2, <2>3, Facts DEF AnswerFits, Agree
  <2>5. q.sessionId = reply.sid /\ q.switched = Switches(reply.sid)
    BY Facts DEF PageOf
  <2>6. ~q.switched
    BY <2>4, <2>5 DEF Switches
  <2>7. AgreesWith(net[s], page, World)
    BY <2>3 DEF Agree
  <2>8. m[s] = daily /\ Alone(m, s) /\ m = [t \in Slots |-> m[t]]
    BY <2>3, Facts DEF Alone
  <2>9. daily.what = "daily" /\ daily.heard = TRUE
    BY DEF Send, Free
  <2> HIDE DEF q, m, daily
  <2>10. AgreesWith(daily, q, World) /\ ~Quiet(daily)
    BY <1>1, <2>5, <2>7, <2>9 DEF AgreesWith, Quiet, Due, Copies
  <2>11. Agree(q, m, World)
    BY <2>6, <2>8, <2>10, AloneAgrees
  <2> QED BY <2>1, <2>8, <2>11, BecomesAgrees
<1> QED BY <1>2, <1>3

\* The full board is there.
LEMMA DailyAgrees ==
  ASSUME CInv, CInv', AInv, NEW s \in Slots, net[s].heard, DeliverDaily(s),
         World' = World, ~drift'
  PROVE  Agree(page', net', World')
<1> DEFINE n == [net EXCEPT ![s] = Free]
           q == [page EXCEPT !.board = Deal]
<1>1. net[s].what = "daily" /\ Becomes(q, TRUE, n)
  BY DEF DeliverDaily
<1>2. ~drift
  BY <1>1 DEF Becomes, SubmitEffect
<1>3. Agree(page, net, World) /\ Alone(net, s)
  BY <1>1, <1>2, OneAtATime DEF AInv
<1>4. /\ q.board = Deal /\ q.sessionId = page.sessionId
      /\ q.switched = page.switched
  BY Facts DEF PageOf
<1>5. n[s] = Free /\ Alone(n, s) /\ n = [t \in Slots |-> n[t]]
  BY <1>3, Facts DEF Alone
<1> HIDE DEF q, n
<1>6. AgreesWith(Free, q, World)
  BY DEF AgreesWith, Free, Due, Copies
<1>7. Played(q.sessionId, World) => q.board = Ordered(Table(q.sessionId, World))
  <2>1. AgreesWith(net[s], page, World)
    BY <1>3 DEF Agree
  <2> QED BY <1>1, <1>4, <2>1, OrderedFull DEF AgreesWith
<1>8. ~q.switched
  BY <1>3, <1>4 DEF Agree
<1>9. Agree(q, n, World)
  BY <1>5, <1>6, <1>7, <1>8, AloneAgrees
<1> QED BY <1>1, <1>5, <1>9, BecomesAgrees

\* A submission is answered.
LEMMA SubmitAgrees ==
  ASSUME CInv, CInv', AInv, NEW s \in Slots, net[s].heard, net[s].stage = "served",
         DeliverSubmit(s), World' = World, ~drift'
  PROVE  Agree(page', net', World')
<1> DEFINE r == net[s]
           n == [net EXCEPT ![s] = Free]
           q == Accept(r)
<1>1. r.what = "submit"
  BY DEF DeliverSubmit
<1>2. CASE ~r.reply.ok
  <2>1. /\ net' = n /\ page' = page /\ ~drift
    BY <1>2 DEF DeliverSubmit
  <2>2. Quiet(r)
    BY <1>1, <1>2 DEF Quiet, Due
  <2> QED BY <2>1, <2>2, Facts, AgreeFreed DEF AInv
<1>3. CASE r.reply.ok
  <2>1. Becomes(q, TRUE, n)
    BY <1>3 DEF DeliverSubmit
  <2>2. ~drift
    BY <2>1 DEF Becomes, SubmitEffect
  <2>3. Agree(page, net, World) /\ Alone(net, s)
    BY <1>1, <2>2, OneAtATime DEF AInv
  <2>4. /\ q.board = Splice(page.board, r.at)
        /\ q.sessionId = page.sessionId /\ q.switched = page.switched
    BY Facts DEF Accept, PageOf
  <2>5. n[s] = Free /\ Alone(n, s) /\ n = [t \in Slots |-> n[t]]
    BY <2>3, Facts DEF Alone
  <2>6. Due(r) /\ AgreesWith(r, page, World)
    BY <1>1, <1>3, <2>3 DEF Due, Agree
  <2> HIDE DEF q, n
  <2>7. AgreesWith(Free, q, World)
    BY DEF AgreesWith, Free, Due, Copies
  <2>8. Played(q.sessionId, World) =>
          q.board = Ordered(Table(q.sessionId, World))
    BY <2>4, <2>6 DEF AgreesWith
  <2>9. ~q.switched
    BY <2>3, <2>4 DEF Agree
  <2>10. Agree(q, n, World)
    BY <2>5, <2>7, <2>8, <2>9, AloneAgrees
  <2> QED BY <2>1, <2>5, <2>10, BecomesAgrees
<1> QED BY <1>2, <1>3

\* A request that fails.
LEMMA FailAgrees ==
  ASSUME CInv, AInv, NEW s \in Slots, Fail(s), ~drift'
  PROVE  Agree(page', net', World')
<1>1. net[s].heard /\ World' = World
  BY DEF Fail, serverVars, World
<1>2. CASE FailSession(s)
  BY <1>1, <1>2, RestoreAgrees DEF FailSession
<1>3. CASE FailDaily(s)
  BY <1>3 DEF FailDaily
<1>4. CASE FailCommand(s)
  <2> DEFINE r == net[s]
             q == Abandoned(r)
  <2>1. /\ net' = [net EXCEPT ![s] = q] /\ page' = page /\ ~drift
        /\ r.what \in {"start", "submit"}
        /\ r.what = "submit" => r.stage = "served" /\ ~r.reply.ok
    BY <1>4, Facts DEF FailCommand
  <2>2. Still(q)
    <3>1. r.what = "start" => q = Free \/ q = [r EXCEPT !.heard = FALSE]
      BY DEF Abandoned
    <3>2. r.what = "submit" => q = Free
      BY <2>1 DEF Abandoned
    <3>3. r \in RequestOf(r)
      BY Facts DEF RequestFits
    <3>4. Free.what = "free" /\ Free.heard = FALSE
      BY DEF Free
    <3>5. q = [r EXCEPT !.heard = FALSE] => q.heard = FALSE /\ q.what = r.what
      BY <3>3 DEF RequestOf
    <3> QED BY <2>1, <3>1, <3>2, <3>4, <3>5 DEF Still
  <2>3. Quiet(r)
    BY <2>1 DEF Quiet, Due
  <2> HIDE DEF q
  <2>4. AgreesWith(q, page, World) /\ q.what # "submit"
    BY <2>2, StillAgrees DEF Still
  <2>5. Agree(page, [net EXCEPT ![s] = q], World)
    BY <2>1, <2>3, <2>4, Facts, AgreeChange DEF AInv
  <2> QED BY <1>1, <2>1, <2>5
<1> QED BY <1>2, <1>3, <1>4 DEF Fail

\* The headers of an answer say nothing of the board.
LEMMA HeadersAgree ==
  ASSUME CInv, AInv, NEW s \in Slots, Headers(s), ~drift'
  PROVE  Agree(page', net', World')
<1> DEFINE r == net[s]
           q == [r EXCEPT !.reply.cookie = None]
<1>1. /\ r.heard /\ r.stage = "served" /\ r.reply.cookie # None
      /\ net' = [net EXCEPT ![s] = q] /\ page' = page /\ ~drift
      /\ World' = World
  BY DEF Headers, serverVars, World
<1>2. r.what = "start" /\ r \in RequestOf(r)
  BY <1>1, Facts DEF RequestFits
<1>3. /\ q.what = "start" /\ q.heard = r.heard /\ q.stage = "served"
      /\ q.reply.sid = r.reply.sid
  BY <1>1, <1>2 DEF RequestOf, ReplyOf
<1> HIDE DEF q
<1>4. AgreesWith(r, page, World) /\ Quiet(r)
  BY <1>1, <1>2 DEF AInv, Agree, Quiet, Due
<1>5. AgreesWith(q, page, World)
  BY <1>1, <1>2, <1>3, <1>4 DEF AgreesWith, Due, Copies
<1>6. Agree(page, [net EXCEPT ![s] = q], World)
  BY <1>1, <1>3, <1>4, <1>5, Facts, AgreeChange DEF AInv
<1> QED BY <1>1, <1>6

-----------------------------------------------------------------------------
(* The steps of the server *)

\* Sessions that go on make a later moment of the server.
LEMMA Onward ==
  ASSUME ServerFits, ServerFits', done \subseteq done',
         \A sid \in Sessions : RowGrows(sess[sid], sess'[sid])
  PROVE  Grows(World, World')
<1>1. \A sid \in Sessions : sess'[sid].rows \in Nat
  BY DEF ServerFits, RowFits, Row
<1>2. Counted(World) /\ Counted(World')
  BY <1>1, Rows, WorldIs DEF Counted
<1>3. \A sid \in Sessions : RowGrows(World.sess[sid], World'.sess[sid])
  BY WorldIs
<1>4. World.done \subseteq World'.done
  BY WorldIs
<1> QED BY <1>2, <1>3, <1>4 DEF Grows

\* A page that waits sees its session as it was, when no session that was begun
\* has moved.
LEMMA CalmAgrees ==
  ASSUME CInv, CInv', Agree(page, net, World), done \subseteq done',
         \A sid \in Sessions : Begun(sess[sid]) => sess'[sid] = sess[sid]
  PROVE  Agree(page, net, World')
<1>1. ServerFits /\ ServerFits'
  BY DEF CInv
<1>2. \A sid \in Sessions : RowGrows(sess[sid], sess'[sid])
  BY <1>1, Rows DEF RowGrows
<1>3. Grows(World, World')
  BY <1>1, <1>2, Onward
<1>4. Calm(World, World')
  BY WorldIs DEF Calm
<1> QED BY <1>3, <1>4, Facts, AgreeLater

\* A request that is served, but accepts no submission.
LEMMA AnswerAgrees ==
  ASSUME NEW s \in Slots, NEW a, Answer(s, a), net[s].stage # "served", NEW gm,
         net = [t \in Slots |-> net[t]], net[s] \in RequestOf(net[s]),
         NEW p, Agree(p, net, gm), net[s].what \in {"session", "start", "submit"},
         net[s].what = "submit" => ~a.ok,
         Played(a.sid, gm) =>
           /\ net[s].what = "session" => a.board = Ordered(Table(a.sid, gm))
           /\ net[s].what = "start" => Table(a.sid, gm) = ToSet(Deal)
  PROVE  Agree(p, net', gm)
<1> DEFINE r == net[s]
           q == Replied(r, a)
<1>1. Quiet(r)
  BY DEF Quiet, Due
<1>2. CASE ~r.heard
  <2>1. net' = [net EXCEPT ![s] = Free]
    BY <1>2 DEF Answer
  <2> QED BY <1>1, <2>1, AgreeFreed
<1>3. CASE r.heard
  <2>1. net' = [net EXCEPT ![s] = q]
    BY <1>3 DEF Answer, Replied
  <2>2. /\ q.what = r.what /\ q.heard = r.heard /\ q.stage = "served"
        /\ q.at = r.at /\ q.cards = r.cards /\ q.reply = a
    BY DEF Replied, RequestOf
  <2>3. AgreesWith(r, p, gm) /\ (r.what = "submit" =>
          \A t \in Slots \ {s} : net[t].what # "submit")
    BY DEF Agree
  <2> HIDE DEF q
  <2>4. AgreesWith(q, p, gm)
    BY <2>2, <2>3 DEF AgreesWith, Due, Copies
  <2>5. Agree(p, [net EXCEPT ![s] = q], gm)
    BY <1>1, <2>2, <2>3, <2>4, AgreeChange
  <2> QED BY <2>1, <2>5
<1> QED BY <1>2, <1>3

\* /api/session.
LEMMA SessionServedAgrees ==
  ASSUME CInv, AInv, NEW s \in Slots, net[s].stage # "served", ServeSession(s),
         UNCHANGED page, ~drift'
  PROVE  Agree(page', net', World')
<1> DEFINE p == net[s].cookie
           Of(sid) == [NoReply EXCEPT !.ok = TRUE, !.sid = sid,
                                      !.board = Ordered(sess[sid].table)]
<1>1. net[s].what = "session" /\ ~drift /\ World' = World
  BY DEF ServeSession, serverVars, World
<1>2. ASSUME NEW sid
      PROVE  Of(sid).sid = sid /\ Of(sid).board = Ordered(Table(sid, World))
  BY WorldIs DEF NoReply, Table
<1>3. ~Played(NoReply.sid, World)
  BY DEF NoReply, Played
<1>4. \E a : /\ Answer(s, a)
             /\ Played(a.sid, World) => a.board = Ordered(Table(a.sid, World))
  <2>1. Answer(s, NoReply) \/ \E sid : Answer(s, Of(sid))
    BY DEF ServeSession
  <2> HIDE DEF Of
  <2> QED BY <1>2, <1>3, <2>1
<1> QED BY <1>1, <1>4, Facts, AnswerAgrees DEF AInv

\* /api/start_session, as far as create_session: the session is drawn, or nothing
\* was found in it yet.
LEMMA StartServedAgrees ==
  ASSUME CInv, CInv', AInv, NEW s \in Slots, net[s].stage # "served",
         StartSession(s), UNCHANGED page, ~drift'
  PROVE  Agree(page', net', World')
<1> DEFINE r == net[s]
           known == r.user \in registered
           p == IF known \/ r.cookie = None THEN r.user ELSE r.cookie
           Started(sid) ==
             [NoReply EXCEPT !.ok = TRUE, !.sid = sid,
                !.cookie = IF ~known /\ r.cookie = None THEN p ELSE None]
           Noted(sid) == [r EXCEPT !.stage = "begun", !.reply = Started(sid)]
<1>1. /\ r.what = "start" /\ r \in RequestOf(r) /\ UNCHANGED done
      /\ net = [t \in Slots |-> net[t]] /\ ServerFits
  BY Facts DEF StartSession
<1>2. ASSUME NEW sid PROVE Started(sid).sid = sid
  BY DEF NoReply
<1>3. CASE UNCHANGED sess /\ Answer(s, NoReply) /\ UNCHANGED drift
  <2>1. World' = World /\ ~Played(NoReply.sid, World)
    BY <1>1, <1>3 DEF World, NoReply, Played
  <2> QED BY <1>1, <1>3, <2>1, AnswerAgrees DEF AInv
<1>4. ASSUME NEW sid, Answer(s, Started(sid)), UNCHANGED sess,
             drift' = (drift \/ sess[sid].table # ToSet(Deal))
      PROVE  Agree(page', net', World')
  <2> DEFINE a == Started(sid)
  <2>1. ~drift /\ World' = World /\ Table(a.sid, World) = ToSet(Deal)
    BY <1>1, <1>2, <1>4, WorldIs DEF World, Table
  <2> HIDE DEF a, Started
  <2> QED BY <1>1, <1>4, <2>1, AnswerAgrees DEF AInv, a
<1>5. ASSUME NEW sid \in Fresh(p), UNCHANGED drift,
             sess' = [sess EXCEPT ![sid].state = "drawn"],
             net' = [net EXCEPT ![s].stage = "begun", ![s].reply = Started(sid)]
      PROVE  Agree(page', net', World')
  <2>1. sid \in Sessions /\ sess[sid].state = "absent"
    BY SessionParts DEF Fresh
  <2>2. \A o \in Sessions : Begun(sess[o]) => sess'[o] = sess[o]
    BY <1>1, <1>5, <2>1 DEF ServerFits, Begun
  <2>3. Agree(page, net, World')
    BY <1>1, <1>5, <2>2, CalmAgrees DEF AInv
  <2> DEFINE q == Noted(sid)
  <2>4. net' = [net EXCEPT ![s] = q] /\ q.what = "start" /\ q.stage = "begun"
    <3> HIDE DEF Started
    <3> QED BY <1>1, <1>5 DEF RequestOf
  <2> HIDE DEF q, Noted
  <2>5. AgreesWith(q, page, World') /\ Quiet(r)
    BY <1>1, <2>4 DEF AgreesWith, Quiet, Due, Copies
  <2>6. Agree(page, [net EXCEPT ![s] = q], World')
    BY <1>1, <2>3, <2>4, <2>5, AgreeChange
  <2> QED BY <2>4, <2>6
<1> HIDE DEF Started, Noted
<1>6. \/ UNCHANGED sess /\ Answer(s, NoReply) /\ UNCHANGED drift
      \/ \E sid : /\ Answer(s, Started(sid)) /\ UNCHANGED sess
                  /\ drift' = (drift \/ sess[sid].table # ToSet(Deal))
      \/ \E sid \in Fresh(p) :
           /\ sess' = [sess EXCEPT ![sid].state = "drawn"]
           /\ net' = [net EXCEPT ![s].stage = "begun", ![s].reply = Started(sid)]
           /\ UNCHANGED drift
  BY DEF StartSession, Started
<1> QED BY <1>3, <1>4, <1>5, <1>6

\* create_session: nothing was found in the session that is there now.
LEMMA CreateServedAgrees ==
  ASSUME CInv, CInv', BInv, AInv, NEW s \in Slots, CreateSession(s),
         UNCHANGED page, ~drift'
  PROVE  Agree(page', net', World')
<1> DEFINE r == net[s]
           a == r.reply
<1>1. /\ r.what = "start" /\ r.stage = "begun" /\ Answer(s, a)
      /\ sess' = [sess EXCEPT ![a.sid] =
           [state |-> "active", table |-> ToSet(Deal), rows |-> 0]]
      /\ UNCHANGED <<done, drift>>
  BY DEF CreateSession
<1>2. /\ a.sid \in Sessions /\ sess[a.sid].state = "drawn" /\ ServerFits
      /\ r \in RequestOf(r) /\ net = [t \in Slots |-> net[t]]
  BY <1>1, Facts DEF BInv, Draws
<1>3. \A o \in Sessions : Begun(sess[o]) => sess'[o] = sess[o]
  BY <1>1, <1>2 DEF ServerFits, Begun
<1>4. Agree(page, net, World')
  BY <1>1, <1>3, CalmAgrees DEF AInv
<1>5. Table(a.sid, World') = ToSet(Deal)
  <2>1. sess'[a.sid].table = ToSet(Deal)
    BY <1>1, <1>2 DEF ServerFits
  <2> QED BY <2>1, WorldIs DEF Table
<1> QED BY <1>1, <1>2, <1>4, <1>5, AnswerAgrees

\* A submission is alone, and from the page: its indices are those of the board
\* that the session has.
LEMMA OneSubmits ==
  ASSUME CInv, Agree(page, net, World), ~drift, NEW s \in Slots,
         net[s].what = "submit", net[s].stage # "served"
  PROVE  /\ net[s].heard /\ Alone(net, s) /\ AgreesWith(net[s], page, World)
         /\ net[s] \in RequestOf(net[s]) /\ net[s].sid = page.sessionId
         /\ net[s].sid \in Sessions
         /\ Played(page.sessionId, World) =>
              page.board = Ordered(Table(page.sessionId, World))
<1>1. AgreesWith(net[s], page, World) /\ net[s].heard
  BY DEF Agree, AgreesWith
<1>2. Alone(net, s)
  BY <1>1, OneAtATime
<1>3. /\ net[s] \in RequestOf(net[s]) /\ page.sessionId # None
      /\ net[s].sid = page.sessionId /\ net[s].sid \in Sessions
  BY <1>1, Facts DEF AnswerFits, Agree, RequestFits, RequestOf
<1>4. \A t \in Slots : Quiet(net[t])
  <2>1. \A t \in Slots \ {s} : Quiet(net[t])
    BY <1>2, StillAgrees DEF Alone
  <2>2. Quiet(net[s])
    BY DEF Quiet, Due
  <2> QED BY <2>1, <2>2
<1> QED BY <1>1, <1>2, <1>3, <1>4 DEF Agree

\* /api/submit_set, as far as the cards: the handler has the board of the session.
LEMMA LoadServedAgrees ==
  ASSUME CInv, AInv, NEW s \in Slots, LoadBoard(s), UNCHANGED page, ~drift'
  PROVE  Agree(page', net', World')
<1> DEFINE r == net[s]
           q == [r EXCEPT !.stage = "begun", !.copy = sess[r.sid].table]
<1>1. r.what = "submit" /\ r.stage = "asked" /\ ~drift /\ World' = World
  BY DEF LoadBoard, serverVars, World
<1>2. /\ Agree(page, net, World) /\ r \in RequestOf(r) /\ r.heard
      /\ AgreesWith(r, page, World) /\ net = [t \in Slots |-> net[t]]
  BY <1>1, OneSubmits, Facts DEF AInv
<1>3. CASE Answer(s, NoReply)
  <2>1. ~NoReply.ok /\ ~Played(NoReply.sid, World)
    BY DEF NoReply, Played
  <2> QED BY <1>1, <1>2, <1>3, <2>1, AnswerAgrees
<1>4. CASE net' = [net EXCEPT ![s].stage = "begun",
                              ![s].copy = sess[net[s].sid].table]
  <2>1. net' = [net EXCEPT ![s] = q]
    BY <1>2, <1>4
  <2>2. /\ q.what = "submit" /\ q.stage = "begun" /\ q.heard = r.heard
        /\ q.sid = r.sid /\ q.at = r.at /\ q.cards = r.cards
        /\ q.copy = Table(r.sid, World)
    BY <1>1, <1>2, WorldIs DEF RequestOf, Table
  <2> HIDE DEF q
  <2>3. AgreesWith(q, page, World)
    BY <1>1, <1>2, <2>2 DEF AgreesWith, Due
  <2>4. \A t \in Slots \ {s} : net[t].what # "submit"
    BY <1>1, <1>2 DEF Agree
  <2>5. Quiet(r)
    BY <1>1 DEF Quiet, Due
  <2>6. Agree(page, [net EXCEPT ![s] = q], World)
    BY <1>2, <2>3, <2>4, <2>5, AgreeChange
  <2> QED BY <1>1, <2>1, <2>6
<1> QED BY <1>3, <1>4 DEF LoadBoard

\* _apply_session_changes: what is left of the table is what will be left on the
\* page.
LEMMA SubmitServedAgrees ==
  ASSUME CInv, CInv', AInv, NEW s \in Slots, ApplySessionChanges(s),
         UNCHANGED page, ~drift'
  PROVE  Agree(page', net', World')
<1> DEFINE r == net[s]
           sid == page.sessionId
           rest == r.copy \ CardsAt(Ordered(r.copy), r.at)
           row == [state |-> IF HasSet(rest) THEN sess[r.sid].state
                             ELSE "finished",
                   table |-> rest, rows |-> sess[r.sid].rows + 1]
           ok == [NoReply EXCEPT !.ok = TRUE]
           q == Replied(r, ok)
<1>1. /\ r.what = "submit" /\ r.stage = "begun" /\ ~drift /\ Answer(s, ok)
      /\ UNCHANGED done
  BY DEF ApplySessionChanges
<1>2. /\ Agree(page, net, World) /\ r.heard /\ Alone(net, s)
      /\ AgreesWith(r, page, World) /\ r \in RequestOf(r)
      /\ r.sid = sid /\ sid \in Sessions
      /\ Played(sid, World) => page.board = Ordered(Table(sid, World))
  BY <1>1, OneSubmits DEF AInv
<1>3. ServerFits /\ ServerFits' /\ Held(sid, World) /\ sid # None
  BY <1>2, Facts, SessionParts DEF CInv
<1>4. /\ sess'[sid].table = rest /\ sess'[sid].rows = sess[sid].rows + 1
      /\ sess'[sid].state \in {sess[sid].state, "finished"}
      /\ \A o \in Sessions \ {sid} : sess'[o] = sess[o]
  <2>1. sess' = [sess EXCEPT ![sid] = row]
    BY <1>2 DEF ApplySessionChanges
  <2>2. /\ row.table = rest /\ row.rows = sess[sid].rows + 1
        /\ row.state \in {sess[sid].state, "finished"}
    BY <1>2
  <2> HIDE DEF row, rest
  <2> QED BY <1>2, <1>3, <2>1, <2>2 DEF ServerFits
<1> HIDE DEF rest
<1>5. Grows(World, World')
  <2>1. \A o \in Sessions : RowGrows(sess[o], sess'[o])
    BY <1>3, <1>4, Rows DEF RowGrows, Begun
  <2> QED BY <1>1, <1>3, <2>1, Onward
<1>6. Played(sid, World') =>
        Splice(page.board, r.at) = Ordered(Table(sid, World'))
  <2> SUFFICES ASSUME Played(sid, World')
               PROVE  Splice(page.board, r.at) = Ordered(Table(sid, World'))
    OBVIOUS
  <2>1. Played(sid, World)
    BY <1>2, <1>3, <1>5, HeldLater
  <2>2. /\ r.copy = Table(sid, World) /\ page.board = Ordered(r.copy)
        /\ r.at \subseteq DOMAIN page.board
    BY <1>1, <1>2, <2>1 DEF AgreesWith, Copies
  <2>3. r.copy \subseteq ToSet(Deal)
    BY <1>2, <1>3, <2>2, WorldIs DEF Table, ServerFits, RowFits
  <2>4. Splice(Ordered(r.copy), r.at) = Ordered(rest)
    BY <2>2, <2>3, OrderedWithout DEF rest
  <2>5. Table(sid, World') = rest
    BY <1>4, WorldIs DEF Table
  <2> QED BY <2>2, <2>4, <2>5
<1>7. net' = [net EXCEPT ![s] = q]
  BY <1>1, <1>2 DEF Answer, Replied
<1>8. /\ q.what = "submit" /\ q.heard /\ q.stage = "served"
      /\ q.at = r.at /\ q.cards = r.cards /\ q.reply.ok
  BY <1>1, <1>2 DEF Replied, RequestOf, NoReply
<1>9. r.at \subseteq DOMAIN page.board /\ r.cards = CardsAt(page.board, r.at)
  BY <1>1, <1>2 DEF AgreesWith
<1> HIDE DEF q, ok
<1>10. Due(q)
  BY <1>8 DEF Due
<1> HIDE DEF r
<1>11. AgreesWith(q, page, World')
  BY <1>6, <1>8, <1>9 DEF AgreesWith, Copies
<1>12. net'[s] = q /\ Alone(net', s)
  BY <1>2, <1>7, Facts DEF Alone
<1>13. ~page.switched /\ ~Quiet(q)
  BY <1>2, <1>10 DEF Agree, Quiet
<1>14. Agree(page, net', World')
  BY <1>11, <1>12, <1>13, AloneAgrees
<1> QED BY <1>14

\* A request that never reaches the server.
LEMMA DropAgrees ==
  ASSUME CInv, AInv, NEW s \in Slots, Drop(s), ~drift'
  PROVE  Agree(page', net', World')
<1>1. /\ net' = [net EXCEPT ![s] = Free] /\ ~net[s].heard
      /\ World' = World /\ UNCHANGED <<page, drift>>
  BY DEF Drop, serverVars, World
<1>2. Quiet(net[s])
  BY <1>1 DEF Quiet, Due
<1>3. Agree(page, net', World)
  BY <1>1, <1>2, Facts, AgreeFreed DEF AInv
<1> QED BY <1>1, <1>3

\* A start in another browser, and a time that is recorded.
LEMMA ElsewhereAgrees ==
  ASSUME CInv, CInv', AInv, NEW p \in Players, Elsewhere(p) \/ RecordTime(p),
         ~drift'
  PROVE  Agree(page', net', World')
<1>1. CASE Elsewhere(p)
  <2> DEFINE r == [Free EXCEPT !.what = "start", !.user = p]
  <2>1. /\ net' \in Place(net, r) /\ page' = page /\ ~drift
        /\ World' = World
    <3>1. /\ UNCHANGED <<sess, done, page>>
          /\ drift' = TRUE \/ (net' \in Place(net, r) /\ UNCHANGED drift)
      <4> HIDE DEF r
      <4>1. UNCHANGED <<sess, done, page>>
        BY <1>1 DEF Elsewhere, serverVars
      <4>2. drift' = TRUE \/ (net' \in Place(net, r) /\ UNCHANGED drift)
        BY <1>1, Zenon DEF Elsewhere, r
      <4> QED BY <4>1, <4>2
    <3>2. ~(drift' = TRUE)
      BY Zenon
    <3>3. net' \in Place(net, r) /\ UNCHANGED drift
      BY <3>1, <3>2, Zenon
    <3> HIDE DEF r
    <3> QED BY <3>1, <3>3 DEF World
  <2>2. PICK s \in Slots : net[s].what = "free" /\ net' = [net EXCEPT ![s] = r]
    BY <2>1, Placed
  <2>3. r.what = "start" /\ r.heard = FALSE
    BY DEF Free
  <2> HIDE DEF r
  <2>4. AgreesWith(r, page, World) /\ Quiet(net[s])
    BY <2>2, <2>3 DEF AgreesWith, Quiet, Due, Copies
  <2>5. Agree(page, [net EXCEPT ![s] = r], World)
    BY <2>1, <2>3, <2>4, Facts, AgreeChange DEF AInv
  <2> QED BY <2>1, <2>2, <2>5
<1>2. CASE RecordTime(p)
  <2>1. /\ done \subseteq done' /\ UNCHANGED <<sess, page, net, drift>>
    BY <1>2 DEF RecordTime
  <2> QED BY <2>1, CalmAgrees DEF AInv
<1> QED BY <1>1, <1>2

-----------------------------------------------------------------------------
(* The invariant of the boards *)

\* The page is empty, and asks for the session of the cookie.
LEMMA InitAgrees == Init => AInv
<1> SUFFICES ASSUME Init PROVE AInv
  OBVIOUS
<1> DEFINE n == [s \in Slots |-> Free]
<1>1. page = EmptyPage(None) /\ net \in Place(n, Send("session"))
  BY DEF Init
<1>2. \A s \in Slots : Still(n[s])
  BY DEF Still, Free
<1>3. n = [s \in Slots |-> n[s]]
  OBVIOUS
<1> HIDE DEF n
<1> QED BY <1>1, <1>2, <1>3, MountAgrees DEF AInv

\* Every step keeps the page and its session together, while there is no drift.
LEMMA StepAgrees == CInv /\ CInv' /\ BInv /\ AInv /\ [Next]_vars => AInv'
<1> SUFFICES ASSUME CInv, CInv', BInv, AInv, [Next]_vars, ~drift'
             PROVE  Agree(page', net', World')
  BY DEF AInv
<1>1. CASE UNCHANGED vars
  <2>1. page' = page /\ net' = net /\ World' = World /\ drift' = drift
    BY <1>1 DEF vars, World
  <2> QED BY <2>1 DEF AInv
<1>2. ASSUME NEW u \in Players, ClickStart(u) PROVE Agree(page', net', World')
  BY <1>2, ClickAgrees
<1>3. ASSUME NEW i \in Indices, Toggle(i) PROVE Agree(page', net', World')
  BY <1>3, ToggleAgrees
<1>4. CASE Reload
  BY <1>4, ReloadAgrees
<1>5. CASE LearnStatus
  BY <1>5, StatusAgrees
<1>6. ASSUME NEW s \in Slots, Serve(s) PROVE Agree(page', net', World')
  <2>1. net[s].stage # "served" /\ UNCHANGED page
    BY <1>6 DEF Serve
  <2> QED BY <1>6, <2>1, SessionServedAgrees, StartServedAgrees,
             CreateServedAgrees, LoadServedAgrees, SubmitServedAgrees DEF Serve
<1>7. ASSUME NEW s \in Slots, Drop(s) \/ Headers(s)
      PROVE  Agree(page', net', World')
  BY <1>7, DropAgrees, HeadersAgree
<1>8. ASSUME NEW s \in Slots, Deliver(s) PROVE Agree(page', net', World')
  <2>1. /\ net[s].heard /\ (net[s].stage = "served" \/ net[s].what = "daily")
        /\ World' = World
    BY <1>8 DEF Deliver, serverVars, World
  <2>2. CASE DeliverSession(s)
    <3>1. net[s].what = "session" /\ net[s].stage = "served"
      BY <2>1, <2>2 DEF DeliverSession
    <3> QED BY <2>1, <2>2, <3>1, ResumeAgrees, RestoreAgrees
            DEF DeliverSession
  <2>3. CASE DeliverStart(s)
    <3>1. net[s].what = "start" /\ net[s].stage = "served"
      BY <2>1, <2>3 DEF DeliverStart
    <3> QED BY <2>1, <2>3, <3>1, StartAgrees
  <2>4. CASE DeliverDaily(s)
    BY <2>1, <2>4, DailyAgrees
  <2>5. CASE DeliverSubmit(s)
    <3>1. net[s].what = "submit" /\ net[s].stage = "served"
      BY <2>1, <2>5 DEF DeliverSubmit
    <3> QED BY <2>1, <2>5, <3>1, SubmitAgrees
  <2> QED BY <1>8, <2>2, <2>3, <2>4, <2>5 DEF Deliver
<1>9. ASSUME NEW s \in Slots, Fail(s) PROVE Agree(page', net', World')
  BY <1>9, FailAgrees
<1>10. ASSUME NEW p \in Players, Elsewhere(p) \/ RecordTime(p)
       PROVE  Agree(page', net', World')
  BY <1>10, ElsewhereAgrees
<1> QED BY <1>1, <1>2, <1>3, <1>4, <1>5, <1>6, <1>7, <1>8, <1>9, <1>10
        DEF Next

\* As long as there is no drift, every request, and every answer under way,
\* says of the board what its session has (submitSelected, start and
\* loadServerSession): what is left when all have come is the board of the
\* server.
THEOREM AgreeInvariant == Spec => []AInv
<1> QED BY InitFits, StepFits, StepBegun, InitAgrees, StepAgrees, PTL DEF Spec

-----------------------------------------------------------------------------
(* The boards, and the gate *)

\* What is left of the board of a session that is played.
LEMMA PlayedTable ==
  ASSUME CInv, NEW sid \in Sessions \cup {None}, Played(sid, World)
  PROVE  Table(sid, World) \subseteq ToSet(Deal) /\ HasSet(Table(sid, World))
<1>1. sid \in Sessions /\ sess[sid].state = "active"
  BY WorldIs DEF Played
<1> QED BY <1>1, WorldIs DEF Table, CInv, ServerFits, RowFits

\* While one thing is asked at a time, no answer is lost and nobody plays the
\* game elsewhere, a page that waits for nothing shows the board its session
\* has at the server, card for card: the indices that applySetState splices
\* are those of the cards that _apply_session_changes takes away.
THEOREM BoardsAgreeUndrifted == Spec => []BoardsAgree
<1>1. CInv /\ AInv => BoardsAgree
  <2> SUFFICES ASSUME CInv, AInv, ~drift, Current(page.sessionId),
                      \A s \in Slots : ~net[s].heard
               PROVE  /\ page.board = Ordered(Table(page.sessionId, World))
                      /\ page.sessionToken \in {None, page.sessionId}
    BY WorldIs DEF BoardsAgree, Table
  <2>1. Played(page.sessionId, World)
    BY Facts, PlayedIsCurrent
  <2>2. \A s \in Slots : Quiet(net[s])
    BY DEF Quiet, Due
  <2>3. Agree(page, net, World) /\ PageFits(page, cookie, drift, registered, World)
    BY Facts DEF AInv
  <2> QED BY <2>1, <2>2, <2>3 DEF Agree, PageFits
<1> QED BY <1>1, ClientInvariant, AgreeInvariant, PTL

\* A board that is not played to its end is not shown as complete.
LEMMA CompleteIsOver ==
  ASSUME CInv, AInv, ~drift, Complete(page)
  PROVE  ~Current(page.sessionId)
<1> SUFFICES ASSUME Played(page.sessionId, World) PROVE FALSE
  BY Facts, PlayedIsCurrent
<1> DEFINE t == Table(page.sessionId, World)
<1>1. Len(page.board) >= 3 /\ ~HasSet(ToSet(page.board))
  BY DEF Complete
<1>2. t \subseteq ToSet(Deal) /\ HasSet(t) /\ ToSet(Ordered(t)) = t
  BY Facts, PlayedTable, OrderedAre
<1>3. Agree(page, net, World)
  BY DEF AInv
<1>4. ASSUME NEW s \in Slots, net[s].heard, net[s].what = "daily"
      PROVE  FALSE
  <2>1. page.board = <<>>
    BY <1>4, Facts DEF AnswerFits
  <2> QED BY <1>1, <2>1
<1>5. ASSUME NEW s \in Slots, Due(net[s])
      PROVE  FALSE
  <2>1. net[s].cards \in ValidSets
    BY <1>5, Facts DEF Due, RequestFits
  <2>2. net[s].cards = CardsAt(page.board, net[s].at)
    BY <1>3, <1>5 DEF Agree, AgreesWith, Due
  <2>3. CardsAt(page.board, net[s].at) \subseteq ToSet(page.board)
    BY DEF CardsAt, ToSet
  <2> QED BY <1>1, <2>1, <2>2, <2>3 DEF HasSet
<1>6. page.board = Ordered(t)
  BY <1>3, <1>4, <1>5 DEF Agree, Quiet
<1> QED BY <1>1, <1>2, <1>6

\* Who is told that the day is completed has a time in it.
EndInv == page.completedToday => done # {}

\* A recorded time stays.
LEMMA DoneStays ==
  ASSUME [Next]_vars
  PROVE  done \subseteq done'
<1>1. CASE UNCHANGED vars
  BY <1>1 DEF vars
<1>2. ASSUME NEW u \in Players, ClickStart(u) PROVE done' = done
  BY <1>2 DEF ClickStart, serverVars
<1>3. ASSUME NEW i \in Indices, Toggle(i) PROVE done' = done
  BY <1>3 DEF Toggle, serverVars
<1>4. CASE Reload \/ LearnStatus
  BY <1>4 DEF Reload, LearnStatus, serverVars
<1>5. ASSUME NEW s \in Slots, Serve(s) PROVE done' = done
  BY <1>5 DEF Serve, ServeSession, StartSession, CreateSession, LoadBoard,
             ApplySessionChanges, serverVars
<1>6. ASSUME NEW s \in Slots, Drop(s) \/ Headers(s) \/ Deliver(s) \/ Fail(s)
      PROVE  done' = done
  BY <1>6 DEF Drop, Headers, Deliver, Fail, serverVars
<1>7. ASSUME NEW p \in Players, Elsewhere(p) \/ RecordTime(p)
      PROVE  done \subseteq done'
  BY <1>7 DEF Elsewhere, RecordTime, serverVars
<1> QED BY <1>1, <1>2, <1>3, <1>4, <1>5, <1>6, <1>7 DEF Next

\* The page is told that the day is completed by its status alone.
LEMMA ToldByStatus ==
  ASSUME CInv, [Next]_vars, page'.completedToday
  PROVE  page.completedToday \/ done # {}
<1>1. page \in PageOf(page)
  BY Facts
<1>2. CASE UNCHANGED vars
  BY <1>2 DEF vars
<1>3. ASSUME NEW u \in Players, ClickStart(u) PROVE page.completedToday
  BY <1>3 DEF ClickStart
<1>4. ASSUME NEW i \in Indices, Toggle(i) PROVE page.completedToday
  BY <1>1, <1>4 DEF Toggle, PageOf
<1>5. ~Reload
  BY DEF Reload, Mount, EmptyPage
<1>6. CASE LearnStatus
  <2>1. PICK yes \in {FALSE, page.asking \in done} :
          page' = [page EXCEPT !.asking = None, !.completedToday = yes]
    BY <1>6 DEF LearnStatus
  <2>2. page'.completedToday = yes
    BY <1>1, <2>1 DEF PageOf
  <2>3. page.asking \in done
    BY <2>1, <2>2
  <2> QED BY <2>3
<1>7. ASSUME NEW s \in Slots, Serve(s) \/ Drop(s) \/ Headers(s)
      PROVE  page.completedToday
  BY <1>7 DEF Serve, Drop, Headers
<1>8. ASSUME NEW left, NEW n, Restore(left, n)
      PROVE  page'.completedToday = page.completedToday
  BY <1>1, <1>8 DEF Restore, Becomes, PageOf
<1>9. ASSUME NEW s \in Slots, Deliver(s) PROVE page.completedToday
  <2>1. CASE DeliverSession(s)
    BY <1>1, <1>8, <2>1 DEF DeliverSession, ResumeSession, Becomes, PageOf
  <2>2. CASE DeliverStart(s)
    BY <1>1, <2>2 DEF DeliverStart, Becomes, PageOf
  <2>3. CASE DeliverDaily(s)
    BY <1>1, <2>3 DEF DeliverDaily, Becomes, PageOf
  <2>4. CASE DeliverSubmit(s)
    BY <1>1, <2>4 DEF DeliverSubmit, Accept, Becomes, PageOf
  <2> QED BY <1>9, <2>1, <2>2, <2>3, <2>4 DEF Deliver
<1>10. ASSUME NEW s \in Slots, Fail(s) PROVE page.completedToday
  BY <1>8, <1>10 DEF Fail, FailSession, FailDaily, FailCommand
<1>11. ASSUME NEW p \in Players, Elsewhere(p) \/ RecordTime(p)
       PROVE  page.completedToday
  BY <1>11 DEF Elsewhere, RecordTime
<1> QED BY <1>2, <1>3, <1>4, <1>5, <1>6, <1>7, <1>9, <1>10, <1>11 DEF Next

\* The leaderboard opens to the page of a player only after a time of the day
\* was recorded, and, without drift, a board is not taken for completed while
\* its session can still be played.
THEOREM GateOpensAtTheEnd == Spec => []GateSound
<1>1. Init => EndInv
  BY DEF Init, EmptyPage, EndInv
<1>2. CInv /\ EndInv /\ [Next]_vars => EndInv'
  <2> SUFFICES ASSUME CInv, EndInv, [Next]_vars, page'.completedToday
               PROVE  done' # {}
    BY DEF EndInv
  <2>1. done # {}
    BY ToldByStatus DEF EndInv
  <2> QED BY <2>1, DoneStays
<1>3. CInv /\ AInv /\ EndInv => GateSound
  BY CompleteIsOver DEF EndInv, GateSound
<1> QED BY <1>1, <1>2, <1>3, ClientInvariant, AgreeInvariant, PTL DEF Spec

-----------------------------------------------------------------------------
(* Boards and selections *)

PageData(p) ==
  /\ p.board \in Seq(Cards)
  /\ p.selected \subseteq Indices /\ Cardinality(p.selected) <= 3

SavedData(sv) == sv # None => sv.board \in Seq(Cards)

RequestData(r) ==
  /\ r.at \subseteq Indices /\ r.cards \subseteq Cards /\ r.copy \subseteq Cards
  /\ r.reply.board \in Seq(Cards)

NetData(n) == n = [s \in Slots |-> n[s]] /\ \A s \in Slots : RequestData(n[s])

DataInv == PageData(page) /\ SavedData(saved) /\ NetData(net)

\* Nothing selected is a selection.
LEMMA NoneSelected ==
  ASSUME NEW S, S = {}
  PROVE  S \subseteq Indices /\ Cardinality(S) <= 3
<1>1. Cardinality(S) = 0
  BY FS_EmptySet, Zenon
<1> QED BY <1>1

\* What is empty at first.
LEMMA NoData ==
  /\ NetData([s \in Slots |-> Free]) /\ RequestData(Free)
  /\ NoReply.board \in Seq(Cards)
  /\ \A what : RequestData(Send(what))
  /\ \A sid : PageData(EmptyPage(sid)) /\ SavedData(Kept(EmptyPage(sid)))
<1>1. NoReply.board \in Seq(Cards)
  BY DEF NoReply
<1>2. /\ Free.at = {} /\ Free.cards = {} /\ Free.copy = {}
      /\ Free.reply = NoReply
  BY DEF Free
<1>3. ASSUME NEW what
      PROVE  /\ Send(what).at = {} /\ Send(what).cards = {}
             /\ Send(what).copy = {} /\ Send(what).reply = NoReply
  BY DEF Send, Free
<1>4. RequestData(Free) /\ \A what : RequestData(Send(what))
  BY <1>1, <1>2, <1>3 DEF RequestData
<1>5. ASSUME NEW sid
      PROVE  /\ EmptyPage(sid).board = <<>> /\ EmptyPage(sid).selected = {}
             /\ Kept(EmptyPage(sid)).board = <<>>
  BY DEF EmptyPage, Kept
<1>6. <<>> \in Seq(Cards)
  OBVIOUS
<1>7. ASSUME NEW sid
      PROVE  PageData(EmptyPage(sid)) /\ SavedData(Kept(EmptyPage(sid)))
  <2>1. SavedData(Kept(EmptyPage(sid)))
    BY <1>5, <1>6 DEF SavedData
  <2> QED BY <1>5, <1>6, <2>1, NoneSelected DEF PageData
<1> QED BY <1>1, <1>4, <1>7 DEF NetData

\* One request takes the place of another.
LEMMA NetDataChange ==
  ASSUME NEW n, NetData(n), NEW s \in Slots, NEW r, RequestData(r)
  PROVE  NetData([n EXCEPT ![s] = r])
<1> DEFINE m == [n EXCEPT ![s] = r]
<1>1. m = [t \in Slots |-> m[t]] /\ m[s] = r /\ \A t \in Slots \ {s} : m[t] = n[t]
  BY DEF NetData
<1> HIDE DEF m
<1>2. NetData(m)
  BY <1>1 DEF NetData
<1> QED BY <1>2 DEF m

\* A request is sent.
LEMMA NetDataPlaced ==
  ASSUME NEW n, NetData(n), NEW r, RequestData(r), NEW m \in Place(n, r)
  PROVE  NetData(m)
BY Placed, NetDataChange

\* The cards at some indices, and the board without them.
LEMMA CardsAtAre ==
  ASSUME NEW b \in Seq(Cards), NEW at
  PROVE  CardsAt(b, at) \subseteq Cards /\ Splice(b, at) \in Seq(Cards)
<1>1. Splice(b, at) \in Seq(Cards)
  <2>1. DOMAIN b \ at \subseteq DOMAIN b
    OBVIOUS
  <2> QED BY <2>1, EntriesAre DEF Splice, Without
<1>2. \A i \in DOMAIN b : b[i] \in Cards
  OBVIOUS
<1> QED BY <1>1, <1>2 DEF CardsAt

\* What the server sends of a table is a board.
LEMMA OrderedIsBoard == ASSUME NEW S PROVE Ordered(S) \in Seq(Cards)
<1>1. {i \in DOMAIN Deal : Deal[i] \in S} \subseteq DOMAIN Deal
  OBVIOUS
<1> QED BY <1>1, EntriesAre, DealAssumption DEF Ordered

\* A submission names indices of the day and their cards.
LEMMA SubmissionData ==
  ASSUME NEW p, PageData(p)
  PROVE  RequestData(Submission(p))
<1>1. /\ Submission(p).at = p.selected
      /\ Submission(p).cards = CardsAt(p.board, p.selected)
      /\ Submission(p).copy = {} /\ Submission(p).reply = NoReply
  BY DEF Submission, Send, Free
<1> QED BY <1>1, NoData, CardsAtAre DEF RequestData, PageData

\* The effect that submits.
LEMMA EffectData ==
  ASSUME NEW p, PageData(p), NEW n, NetData(n), NEW rerun,
         SubmitEffect(p, rerun, n)
  PROVE  NetData(net')
<1>1. net' = n \/ net' \in Place(n, Submission(p))
  BY DEF SubmitEffect
<1> QED BY <1>1, SubmissionData, NetDataPlaced

\* A page after a change, with its effects.
LEMMA BecomesData ==
  ASSUME NEW p, PageData(p), NEW n, NetData(n), NEW rerun,
         Becomes(p, rerun, n)
  PROVE  DataInv'
<1>1. page' = p /\ NetData(net')
  BY EffectData DEF Becomes
<1>2. Kept(p).board = p.board /\ (saved' = None \/ saved' = Kept(p))
  BY DEF Becomes, PersistEffect, Kept
<1>3. SavedData(saved')
  BY <1>2 DEF SavedData, PageData
<1> QED BY <1>1, <1>3 DEF DataInv

\* An answer of the server.
LEMMA AnswerData ==
  ASSUME CInv, NetData(net), NEW s \in Slots, NEW a, a.board \in Seq(Cards),
         Answer(s, a)
  PROVE  NetData(net')
<1> DEFINE r == net[s]
           q == Replied(r, a)
<1>1. net' = [net EXCEPT ![s] = IF r.heard THEN q ELSE Free]
  BY DEF Answer, Replied
<1>2. RequestData(r) /\ r \in RequestOf(r)
  BY Facts DEF NetData, RequestFits
<1>3. q.at = r.at /\ q.cards = r.cards /\ q.copy = {} /\ q.reply = a
  BY <1>2 DEF Replied, RequestOf
<1> HIDE DEF q
<1>4. RequestData(q)
  BY <1>2, <1>3 DEF RequestData
<1> QED BY <1>1, <1>4, NoData, NetDataChange

\* A page that is like another but for its board and selection.
LEMMA PageDataMoves ==
  ASSUME NEW p, NEW q, PageData(p),
         q.board = p.board \/ q.board \in Seq(Cards),
         q.selected = p.selected \/ q.selected = {}
  PROVE  PageData(q)
<1>1. CASE q.selected = {}
  BY <1>1, NoneSelected DEF PageData
<1>2. CASE q.selected = p.selected
  BY <1>2 DEF PageData
<1> QED BY <1>1, <1>2

\* A card is selected, or not any more: at most three are.
LEMMA ToggleData ==
  ASSUME CInv, DataInv, NEW i \in Indices, Toggle(i)
  PROVE  DataInv'
<1> DEFINE S == page.selected
           T == IF i \in S THEN S \ {i}
                ELSE IF Cardinality(S) >= 3 THEN S ELSE S \cup {i}
           new == [page EXCEPT !.selected = T]
<1>1. /\ page' = new /\ saved' = saved
      /\ \E rerun : SubmitEffect(new, rerun, net)
  BY DEF Toggle, serverVars
<1>2. S \subseteq Indices /\ Cardinality(S) <= 3 /\ IsFiniteSet(S)
  <2>1. IsFiniteSet(Indices)
    <3>1. Indices \subseteq DOMAIN Deal /\ Deal \in Seq(Cards)
      BY DealAssumption DEF Indices
    <3> QED BY <3>1, EntriesAre
  <2> QED BY <2>1, FS_Subset DEF DataInv, PageData
<1>3. T \subseteq Indices /\ Cardinality(T) <= 3
  <2>1. Cardinality(S) \in Nat
    BY <1>2, FS_CardinalityType
  <2>2. CASE i \in S
    <3>1. Cardinality(S \ {i}) = Cardinality(S) - 1
      BY <1>2, <2>2, FS_RemoveElement
    <3> QED BY <1>2, <2>1, <2>2, <3>1
  <2>3. CASE i \notin S
    <3>1. Cardinality(S \cup {i}) = Cardinality(S) + 1
      BY <1>2, <2>3, FS_AddElement
    <3> QED BY <1>2, <2>1, <2>3, <3>1
  <2> QED BY <2>2, <2>3
<1> HIDE DEF T
<1>4. new.board = page.board /\ new.selected = T
  BY Facts DEF PageOf
<1> HIDE DEF new, S
<1>5. PageData(new)
  BY <1>3, <1>4 DEF DataInv, PageData
<1> QED BY <1>1, <1>5, EffectData DEF DataInv

\* The page is reloaded.
LEMMA ReloadData ==
  ASSUME CInv, DataInv, Reload
  PROVE  DataInv'
<1> DEFINE n == [s \in Slots |-> Abandoned(net[s])]
<1>1. /\ page' = EmptyPage(ToResume) /\ saved' = Kept(EmptyPage(ToResume))
      /\ net' \in Place(n, Send("session"))
  BY DEF Reload, Mount
<1>2. ASSUME NEW s \in Slots PROVE RequestData(Abandoned(net[s]))
  <2>1. RequestData(net[s]) /\ net[s] \in RequestOf(net[s])
    BY Facts DEF DataInv, NetData, RequestFits
  <2>2. RequestData([net[s] EXCEPT !.heard = FALSE])
    BY <2>1 DEF RequestData, RequestOf
  <2> QED BY <2>2, NoData DEF Abandoned
<1>3. NetData(n)
  BY <1>2 DEF NetData
<1> HIDE DEF n
<1> QED BY <1>1, <1>3, NoData, NetDataPlaced DEF DataInv

\* The server reads and answers: what a handler loads is a table of cards.
LEMMA ServeData ==
  ASSUME CInv, BInv, DataInv, NEW s \in Slots, Serve(s)
  PROVE  DataInv'
<1> DEFINE r == net[s]
<1>1. /\ page' = page /\ saved' = saved /\ NetData(net) /\ RequestData(r)
      /\ r \in RequestOf(r) /\ net = [t \in Slots |-> net[t]]
  BY Facts DEF Serve, DataInv, NetData
<1>2. ASSUME NEW a, a.board \in Seq(Cards), Answer(s, a) PROVE DataInv'
  BY <1>1, <1>2, AnswerData DEF DataInv
<1>3. ASSUME NEW q, RequestData(q), net' = [net EXCEPT ![s] = q]
      PROVE  DataInv'
  BY <1>1, <1>3, NetDataChange DEF DataInv
<1>4. CASE ServeSession(s)
  <2> DEFINE Of(sid) == [NoReply EXCEPT !.ok = TRUE, !.sid = sid,
                                        !.board = Ordered(sess[sid].table)]
  <2>1. Answer(s, NoReply) \/ \E sid : Answer(s, Of(sid))
    BY <1>4 DEF ServeSession
  <2>2. \A sid : Of(sid).board \in Seq(Cards)
    BY OrderedIsBoard DEF NoReply
  <2> HIDE DEF Of
  <2> QED BY <1>2, <2>1, <2>2, NoData
<1>5. CASE StartSession(s)
  <2> DEFINE Of(sid, ck) ==
               [NoReply EXCEPT !.ok = TRUE, !.sid = sid, !.cookie = ck]
             Noted(sid, ck) == [r EXCEPT !.stage = "begun", !.reply = Of(sid, ck)]
  <2>1. \A sid, ck : Of(sid, ck).board \in Seq(Cards)
    BY DEF NoReply
  <2>2. \/ Answer(s, NoReply)
        \/ \E sid, ck : Answer(s, Of(sid, ck))
        \/ \E sid, ck : net' = [net EXCEPT ![s].stage = "begun",
                                           ![s].reply = Of(sid, ck)]
    BY <1>5 DEF StartSession
  <2> HIDE DEF Of
  <2>3. ASSUME NEW sid, NEW ck,
               net' = [net EXCEPT ![s].stage = "begun", ![s].reply = Of(sid, ck)]
        PROVE  DataInv'
    <3> DEFINE q == Noted(sid, ck)
    <3>1. net' = [net EXCEPT ![s] = q]
      BY <1>1, <2>3
    <3>2. /\ q.at = r.at /\ q.cards = r.cards /\ q.copy = r.copy
          /\ q.reply = Of(sid, ck)
      BY <1>1 DEF RequestOf
    <3> HIDE DEF q, Noted
    <3>3. RequestData(q)
      BY <1>1, <2>1, <3>2 DEF RequestData
    <3> QED BY <1>3, <3>1, <3>3
  <2> QED BY <1>2, <2>1, <2>2, <2>3, NoData
<1>6. CASE CreateSession(s)
  BY <1>1, <1>2, <1>6 DEF CreateSession, RequestData
<1>7. CASE LoadBoard(s)
  <2> DEFINE q == [r EXCEPT !.stage = "begun", !.copy = sess[r.sid].table]
  <2>1. CASE Answer(s, NoReply)
    BY <1>2, <2>1, NoData
  <2>2. CASE net' = [net EXCEPT ![s].stage = "begun",
                                ![s].copy = sess[net[s].sid].table]
    <3>1. net' = [net EXCEPT ![s] = q]
      BY <1>1, <2>2
    <3>2. /\ q.at = r.at /\ q.cards = r.cards /\ q.copy = sess[r.sid].table
          /\ q.reply = r.reply
      BY <1>1 DEF RequestOf
    <3>3. r.sid \in Sessions
      BY <1>1, <1>7, Facts DEF LoadBoard, RequestFits, RequestOf
    <3>4. sess[r.sid].table \subseteq Cards
      BY <3>3, Facts DEF ServerFits, RowFits, Row
    <3> HIDE DEF q
    <3>5. RequestData(q)
      BY <1>1, <3>2, <3>4 DEF RequestData
    <3> QED BY <1>3, <3>1, <3>5
  <2> QED BY <1>7, <2>1, <2>2 DEF LoadBoard
<1>8. CASE ApplySessionChanges(s)
  <2>1. [NoReply EXCEPT !.ok = TRUE].board \in Seq(Cards)
    BY DEF NoReply
  <2> QED BY <1>2, <1>8, <2>1 DEF ApplySessionChanges
<1> QED BY <1>4, <1>5, <1>6, <1>7, <1>8 DEF Serve

\* The snapshot is restored, or the page stays as it is.
LEMMA RestoreData ==
  ASSUME CInv, DataInv, NEW left, NEW n, NetData(n), Restore(left, n)
  PROVE  DataInv'
<1> DEFINE q == [page EXCEPT
         !.loading = FALSE, !.left = left, !.board = saved.board, !.selected = {},
         !.startAt = TRUE, !.sessionId = saved.sessionId,
         !.sessionToken = saved.sessionToken, !.foundSets = saved.foundSets,
         !.switched = Switches(saved.sessionId)]
           r == [page EXCEPT !.loading = FALSE, !.left = left]
<1>1. CASE saved # None /\ Becomes(q, TRUE, n)
  <2>1. q.board = saved.board /\ q.selected = {}
    BY Facts DEF PageOf
  <2> HIDE DEF q
  <2>2. PageData(q)
    BY <1>1, <2>1, PageDataMoves DEF DataInv, SavedData
  <2> QED BY <1>1, <2>2, BecomesData
<1>2. CASE page' = r /\ net' = n /\ saved' = saved
  <2>1. r.board = page.board /\ r.selected = page.selected
    BY Facts DEF PageOf
  <2> HIDE DEF r
  <2> QED BY <1>2, <2>1, PageDataMoves DEF DataInv
<1> QED BY <1>1, <1>2 DEF Restore

\* An answer is delivered.
LEMMA DeliverData ==
  ASSUME CInv, DataInv, NEW s \in Slots, Deliver(s)
  PROVE  DataInv'
<1> DEFINE r == net[s]
           n == [net EXCEPT ![s] = Free]
<1>1. /\ NetData(n) /\ RequestData(r) /\ PageData(page)
      /\ page \in PageOf(page)
  BY Facts, NoData, NetDataChange DEF DataInv, NetData
<1>2. CASE DeliverSession(s)
  <2> DEFINE q == ResumeSession(r.reply)
  <2>1. CASE r.reply.ok
    <3>1. Becomes(q, TRUE, n)
      BY <1>2, <2>1 DEF DeliverSession
    <3>2. q.board = r.reply.board /\ q.selected = page.selected
      BY <1>1 DEF ResumeSession, PageOf
    <3> HIDE DEF q
    <3>3. PageData(q)
      BY <1>1, <3>2, PageDataMoves DEF RequestData
    <3> QED BY <1>1, <3>1, <3>3, BecomesData
  <2>2. CASE ~r.reply.ok
    BY <1>1, <1>2, <2>2, RestoreData DEF DeliverSession
  <2> QED BY <2>1, <2>2
<1>3. CASE DeliverStart(s)
  <2> DEFINE sid == r.reply.sid
             q == [page EXCEPT !.sessionId = sid, !.sessionToken = sid,
                               !.startAt = TRUE, !.switched = Switches(sid)]
             daily == [Send("daily") EXCEPT !.sid = sid, !.cookie = None]
  <2>1. CASE r.reply.ok
    <3>1. \E rerun : Becomes(q, rerun, [net EXCEPT ![s] = daily])
      BY <1>3, <2>1 DEF DeliverStart
    <3>2. q.board = page.board /\ q.selected = page.selected
      BY <1>1 DEF PageOf
    <3>3. /\ daily.at = {} /\ daily.cards = {} /\ daily.copy = {}
          /\ daily.reply = NoReply
      BY DEF Send, Free
    <3> HIDE DEF q, daily
    <3>4. RequestData(daily)
      BY <3>3, NoData DEF RequestData
    <3>5. NetData([net EXCEPT ![s] = daily])
      BY <3>4, NetDataChange DEF DataInv
    <3>6. PageData(q)
      BY <1>1, <3>2, PageDataMoves
    <3> QED BY <3>1, <3>5, <3>6, BecomesData
  <2>2. CASE ~r.reply.ok
    BY <1>1, <1>3, <2>2 DEF DeliverStart, DataInv
  <2> QED BY <2>1, <2>2
<1>4. CASE DeliverDaily(s)
  <2> DEFINE q == [page EXCEPT !.board = Deal]
  <2>1. Becomes(q, TRUE, n)
    BY <1>4 DEF DeliverDaily
  <2>2. q.board = Deal /\ q.selected = page.selected
    BY <1>1 DEF PageOf
  <2> HIDE DEF q
  <2>3. PageData(q)
    BY <1>1, <2>2, DealAssumption, PageDataMoves
  <2> QED BY <1>1, <2>1, <2>3, BecomesData
<1>5. CASE DeliverSubmit(s)
  <2> DEFINE q == Accept(r)
  <2>1. CASE r.reply.ok
    <3>1. Becomes(q, TRUE, n)
      BY <1>5, <2>1 DEF DeliverSubmit
    <3>2. q.board = Splice(page.board, r.at) /\ q.selected = {}
      BY <1>1 DEF Accept, PageOf
    <3>3. Splice(page.board, r.at) \in Seq(Cards)
      BY <1>1, CardsAtAre DEF PageData
    <3> HIDE DEF q
    <3>4. PageData(q)
      BY <1>1, <3>2, <3>3, PageDataMoves
    <3> QED BY <1>1, <3>1, <3>4, BecomesData
  <2>2. CASE ~r.reply.ok
    BY <1>1, <1>5, <2>2 DEF DeliverSubmit, DataInv
  <2> QED BY <2>1, <2>2
<1> QED BY <1>2, <1>3, <1>4, <1>5 DEF Deliver

\* A request fails.
LEMMA FailData ==
  ASSUME CInv, DataInv, NEW s \in Slots, Fail(s)
  PROVE  DataInv'
<1>1. /\ NetData([net EXCEPT ![s] = Free]) /\ RequestData(net[s])
      /\ net[s] \in RequestOf(net[s])
  BY Facts, NoData, NetDataChange DEF DataInv, NetData, RequestFits
<1>2. CASE FailSession(s)
  BY <1>1, <1>2, RestoreData DEF FailSession
<1>3. CASE FailDaily(s)
  <2>1. saved'.board = <<>>
    BY <1>3 DEF FailDaily
  <2> QED BY <1>1, <1>3, <2>1 DEF FailDaily, DataInv, SavedData
<1>4. CASE FailCommand(s)
  <2>1. RequestData([net[s] EXCEPT !.heard = FALSE])
    BY <1>1 DEF RequestData, RequestOf
  <2>2. RequestData(Abandoned(net[s]))
    BY <2>1, NoData DEF Abandoned
  <2>3. NetData([net EXCEPT ![s] = Abandoned(net[s])])
    BY <2>2, NetDataChange DEF DataInv
  <2> QED BY <1>4, <2>3 DEF FailCommand, DataInv
<1> QED BY <1>2, <1>3, <1>4 DEF Fail

\* What another browser sends, and the headers of an answer.
LEMMA ElsewhereData ==
  ASSUME CInv, DataInv, NEW p \in Players, Elsewhere(p)
  PROVE  DataInv'
<1>1. ASSUME NEW r, net' \in Place(net, r), RequestData(r) PROVE DataInv'
  BY <1>1, NetDataPlaced DEF Elsewhere, DataInv
<1>2. RequestData([Free EXCEPT !.what = "start", !.user = p])
  BY NoData DEF RequestData, Free
<1>3. ASSUME NEW sid, NEW at \in Picks
      PROVE  RequestData([Free EXCEPT !.what = "submit", !.sid = sid, !.at = at])
  <2>1. at \subseteq Indices
    BY PicksAssumption
  <2> QED BY <2>1, NoData DEF RequestData, Free
<1> QED BY <1>1, <1>2, <1>3 DEF Elsewhere

LEMMA HeadersData ==
  ASSUME CInv, DataInv, NEW s \in Slots, Headers(s)
  PROVE  DataInv'
<1> DEFINE r == net[s]
           q == [r EXCEPT !.reply.cookie = None]
<1>1. RequestData(r) /\ r \in RequestOf(r)
  BY Facts DEF DataInv, NetData
<1>2. /\ q.at = r.at /\ q.cards = r.cards /\ q.copy = r.copy
      /\ q.reply.board = r.reply.board
  BY <1>1 DEF RequestOf, ReplyOf
<1>3. /\ net' = [net EXCEPT ![s] = q] /\ page' = page /\ saved' = saved
  BY DEF Headers
<1> HIDE DEF q
<1>4. RequestData(q)
  BY <1>1, <1>2 DEF RequestData
<1> QED BY <1>3, <1>4, NetDataChange DEF DataInv

\* Every step keeps boards and selections what they are.
LEMMA StepData == CInv /\ BInv /\ DataInv /\ [Next]_vars => DataInv'
<1> SUFFICES ASSUME CInv, BInv, DataInv, [Next]_vars PROVE DataInv'
  OBVIOUS
<1>1. CASE UNCHANGED vars
  BY <1>1 DEF vars, DataInv
<1>2. ASSUME NEW u \in Players, ClickStart(u) PROVE DataInv'
  <2> DEFINE r == [Send("start") EXCEPT !.user = u]
  <2>1. r.at = {} /\ r.cards = {} /\ r.copy = {} /\ r.reply = NoReply
    BY DEF Send, Free
  <2> HIDE DEF r
  <2>2. RequestData(r)
    BY <2>1, NoData DEF RequestData
  <2>3. net' \in Place(net, r) /\ page' = page /\ saved' = saved
    BY <1>2 DEF ClickStart, r
  <2> QED BY <2>2, <2>3, NetDataPlaced DEF DataInv
<1>3. ASSUME NEW i \in Indices, Toggle(i) PROVE DataInv'
  BY <1>3, ToggleData
<1>4. CASE Reload
  BY <1>4, ReloadData
<1>5. CASE LearnStatus
  <2>1. /\ page'.board = page.board /\ page'.selected = page.selected
        /\ saved' = saved /\ net' = net
    BY <1>5, Facts DEF LearnStatus, PageOf
  <2> QED BY <2>1 DEF DataInv, PageData
<1>6. ASSUME NEW s \in Slots, Serve(s) PROVE DataInv'
  BY <1>6, ServeData
<1>7. ASSUME NEW s \in Slots, Drop(s) \/ Headers(s) PROVE DataInv'
  BY <1>7, NoData, NetDataChange, HeadersData DEF Drop, DataInv
<1>8. ASSUME NEW s \in Slots, Deliver(s) PROVE DataInv'
  BY <1>8, DeliverData
<1>9. ASSUME NEW s \in Slots, Fail(s) PROVE DataInv'
  BY <1>9, FailData
<1>10. ASSUME NEW p \in Players, Elsewhere(p) \/ RecordTime(p) PROVE DataInv'
  BY <1>10, ElsewhereData DEF RecordTime, DataInv
<1> QED BY <1>1, <1>2, <1>3, <1>4, <1>5, <1>6, <1>7, <1>8, <1>9, <1>10
        DEF Next

\* Boards and selections are empty at first.
LEMMA InitData == Init => DataInv
BY NoData, NetDataPlaced DEF Init, DataInv

\* Page, snapshot, requests and answers keep to their types, whatever is lost,
\* repeated or late: a selection never has more than three cards, and they are
\* indices of the day's board.
THEOREM ClientTypes == Spec => []TypeOK
<1>1. CInv /\ DataInv => TypeOK
  <2> SUFFICES ASSUME CInv, DataInv PROVE TypeOK
    OBVIOUS
  <2>1. page \in Page
    BY Facts DEF PageOf, Page, DataInv, PageData
  <2>2. saved \in Snapshot \cup {None}
    BY DEF CInv, Fits, SavedFits, SnapshotOf, Snapshot, DataInv, SavedData
  <2>3. ASSUME NEW s \in Slots PROVE net[s] \in Request
    <3> DEFINE r == net[s]
    <3>1. r \in RequestOf(r) /\ RequestData(r)
      BY Facts DEF RequestFits, DataInv, NetData
    <3> HIDE DEF r
    <3>2. r.reply \in Reply
      BY <3>1 DEF RequestOf, ReplyOf, RequestData, Reply
    <3>3. r \in Request
      BY <3>1, <3>2 DEF RequestOf, RequestData, Request
    <3> QED BY <3>3 DEF r
  <2>4. net \in [Slots -> Request]
    BY <2>3, Facts
  <2>5. /\ sess \in [Sessions -> Row]
        /\ done \subseteq Players /\ registered \subseteq Players
        /\ cookie \in Players \cup {None} /\ drift \in BOOLEAN
    BY Facts DEF ServerFits, RowFits
  <2> QED BY <2>1, <2>2, <2>4, <2>5 DEF TypeOK
<1> QED BY <1>1, ClientInvariant, InitData, StepData, PTL DEF Spec
=============================================================================
