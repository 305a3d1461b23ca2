-------------------------- MODULE MCLeaderboardView --------------------------
(***************************************************************************)
(* A small instance of LeaderboardView.                                    *)
(***************************************************************************)
EXTENDS LeaderboardView

CONSTANTS u1, u2, f1, f2, w1, w2
=============================================================================
