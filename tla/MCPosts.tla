------------------------------ MODULE MCPosts ------------------------------
(* Instances of PostService for TLC.                                       *)
EXTENDS PostService, TLC

(* Ids, slugs, texts and slots are compared for equality only.             *)
Symmetry ==
  Permutations(Posts) \cup Permutations(Slugs) \cup Permutations(Texts)
    \cup Permutations(Editors)
=============================================================================
