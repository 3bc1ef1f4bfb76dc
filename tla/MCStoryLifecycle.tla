-------------------------- MODULE MCStoryLifecycle --------------------------
(***************************************************************************)
(* Instances of StoryLifecycle for TLC: up to two requests and two passes  *)
(* in flight, over one story that is edited or two that expire.            *)
(***************************************************************************)
EXTENDS StoryLifecycle, TLC

CONSTANTS s1, s2, r1, r2, p1, p2, hello, edited

MCOneStory == {s1}
MCTwoStories == {s1, s2}
MCNoRequests == {}
MCOneRequest == {r1}
MCTwoRequests == {r1, r2}
MCOnePass == {p1}
MCTwoPasses == {p1, p2}

MCOneText == {hello}
MCTexts == {hello, edited}
MCOneVisibility == {"public"}

MCHour == {1}

Symmetry ==
    Permutations(MCTwoRequests) \cup Permutations(MCTwoPasses) \cup Permutations(MCTexts)
=============================================================================
