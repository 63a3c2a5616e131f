---------------------------- MODULE MCMatchLife ----------------------------
(***************************************************************************)
(* What hangs on the feed of a match, in one run: the two machines, the    *)
(* supervisor with the workers, the history and comeback of a map.  They   *)
(* share no state, and MatchLife has its own, simpler picture of the feed: *)
(* `part` names the one that moves in a behaviour, and the others stay     *)
(* where they began, in one state each.                                    *)
(***************************************************************************)
EXTENDS MatchLife, Feeds, Story

VARIABLE part

MCInit ==
  /\ part \in {"match", "feeds", "story"}
  /\ Init /\ FeedsInit /\ StoryInit
  /\ part # "feeds" => opening = "none"

MCNext ==
  /\ UNCHANGED part
  /\ \/ part = "match" /\ Next /\ UNCHANGED <<feedsVars, storyVars>>
     \/ part = "feeds" /\ FeedsNext /\ UNCHANGED <<vars, storyVars>>
     \/ part = "story" /\ StoryNext /\ UNCHANGED <<vars, feedsVars>>

MCSpec == MCInit /\ [][MCNext]_<<part, vars, feedsVars, storyVars>>

MCTypeOK == TypeOK /\ FeedsTypeOK /\ StoryTypeOK
=============================================================================
