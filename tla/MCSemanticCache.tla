-------------------------- MODULE MCSemanticCache --------------------------
(* An instance of SemanticCache for TLC: two questions that resemble each  *)
(* other, one that stands alone and one about realtime data, the requests  *)
(* alike.                                                                  *)
EXTENDS SemanticCache, TLC

CONSTANTS alike1, alike2, alone, quote

AllQueries == {alike1, alike2, alone, quote}

Cosines == [p \in AllQueries \X AllQueries |->
              IF p[1] = p[2] THEN 3
              ELSE IF {p[1], p[2]} = {alike1, alike2} THEN 2 ELSE 1]

Symmetric == Permutations(Requests)
=============================================================================
