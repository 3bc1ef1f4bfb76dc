---------------------------- MODULE MCReactions ----------------------------
(***************************************************************************)
(* Instances of Reactions for TLC: one story, its author and one other     *)
(* user, two kinds of reaction, three ids and two requests.                *)
(***************************************************************************)
EXTENDS Reactions, TLC

CONSTANTS author, viewer, story, like, love, i1, i2, i3, r1, r2

MCUsers == {author, viewer}
MCStories == {story}
MCAuthor == [s \in MCStories |-> author]
MCTypes == {like, love}
MCIds == {i1, i2, i3}
MCRequests == {r1, r2}

Symmetry == Permutations(MCTypes) \cup Permutations(MCIds) \cup Permutations(MCRequests)
=============================================================================
