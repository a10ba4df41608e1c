------------------------ MODULE MCKnowledgeVersions ------------------------
(* Instances of KnowledgeVersions for TLC.                                 *)
EXTENDS KnowledgeVersions, TLC

Symmetry == Permutations(Request) \cup Permutations(Document)
=============================================================================
