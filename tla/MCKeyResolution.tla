--------------------------- MODULE MCKeyResolution ---------------------------
(* Labels of KeyResolution for TLC: two spellings of one slug, a label that *)
(* is spelled like an explicit key, and one that slugs to nothing.          *)
EXTENDS KeyResolution

CONSTANTS build, build2, emoji, n1, n2

MCSlug == [l \in Labels |-> IF l = emoji THEN None ELSE n1]
=============================================================================
