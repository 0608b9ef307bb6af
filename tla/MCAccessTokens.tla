--------------------------- MODULE MCAccessTokens ---------------------------
(* Instances of AccessTokens for TLC.                                       *)
EXTENDS AccessTokens

CONSTANTS c1, c2, w1, w2, p1, p2, other

\* Unlimited; limited; limited and about to expire.
ThreePolicies == {[expiry |-> "never", limit |-> None],
                  [expiry |-> "never", limit |-> 1],
                  [expiry |-> "soon", limit |-> 1]}
=============================================================================
