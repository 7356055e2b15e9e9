----------------------------- MODULE MCArticleList -----------------------------
(* Instances of ArticleList for TLC. *)
EXTENDS ArticleListProperties
=============================================================================
