---------------------------- MODULE MCArticleRuns ----------------------------
(* Instances of ArticleRuns: goroutines, runs and articles are each           *)
(* interchangeable.                                                           *)
EXTENDS ArticleRuns, TLC

CONSTANTS w1, w2, r1, r2, a1, a2

Goroutines  == {w1, w2}
RunIds      == {r1, r2}
ArticleUids == {a1, a2}

Symmetry == Permutations(Goroutines) \cup Permutations(RunIds) \cup Permutations(ArticleUids)
================================================================================
