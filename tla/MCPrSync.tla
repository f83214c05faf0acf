------------------------------ MODULE MCPrSync ------------------------------
(* A pull request of ann's, which cyd reviews twice, and one of cyd's;      *)
(* pages of one by GraphQL, of two by REST, and of one review.              *)
EXTENDS PrSync, TLC

CONSTANTS ann, cyd, r1, r2

MCPulls == {1, 2}
MCReviews == {r1, r2}
MCPullOf == r1 :> 1 @@ r2 :> 1
MCNumberOf == r1 :> 1 @@ r2 :> 2
MCKnown == {ann}
MCAuthorOf == 1 :> ann @@ 2 :> cyd @@ r1 :> cyd @@ r2 :> cyd
=============================================================================
