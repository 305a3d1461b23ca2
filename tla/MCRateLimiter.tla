--------------------------- MODULE MCRateLimiter ---------------------------
(***************************************************************************)
(* Small instances of RateLimiter: creating a player is limited over a     *)
(* long window, the leaderboard over a short one.                          *)
(***************************************************************************)
EXTENDS RateLimiter

CONSTANTS t1, t2, player, leaderboard

TwoLimits == [e \in Endpoints |-> IF e = player THEN 2 ELSE 3]
TwoWindows == [e \in Endpoints |-> IF e = player THEN 3 ELSE 1]
=============================================================================
