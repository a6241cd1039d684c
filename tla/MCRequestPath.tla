--------------------------- MODULE MCRequestPath ---------------------------
(* RequestPath with model values for the listeners and the requests, which *)
(* are alike.                                                              *)
EXTENDS RequestPath, TLC

CONSTANTS l1, r1, r2, a1

AlikeRequests == Permutations(Request)

=============================================================================
