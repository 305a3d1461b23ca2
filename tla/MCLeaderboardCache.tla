------------------------ MODULE MCLeaderboardCache ------------------------
(* Small instances of LeaderboardCache. *)
EXTENDS LeaderboardCache, TLC

CONSTANTS t1, t2, t3, today, yesterday

Symmetry == Permutations(Threads) \cup Permutations(Dates)
=============================================================================
