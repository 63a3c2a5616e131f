------------------------------ MODULE MCService ------------------------------
(***************************************************************************)
(* The score of a map in the formats of MCMapScore and five components     *)
(* more, in one run.  None of them touches what another keeps, so nothing  *)
(* is learned from mixing their steps: `part` names the one that moves in  *)
(* a behaviour, and the others stay where they began, in one state each    *)
(* (two for the subscribers, which differ in the names of the chats).      *)
(***************************************************************************)
EXTENDS MCMapScore, Watchdog, Highlights, Subscribers, Stall, Digests, TLC

\* Only the subscribers know chats, and they are alike.
ChatSymmetry == Permutations(Chats)

VARIABLE part

Parts ==
  {"score", "watchdog", "highlights", "subscribers", "stall", "digests"}

serviceVars ==
  <<part, vars, watchdogVars, highlightsVars, subscribersVars,
    stallVars, digestsVars>>

AtRest ==
  /\ part # "score" => format = <<12, 3>> /\ wants = {}
  /\ part # "watchdog" => subsystem = CHOOSE s \in Subsystems : TRUE
  /\ part # "subscribers" =>
       /\ env.only /\ env.listed = Chats
       /\ \A c \in Chats : FollowedBy(c) = {Canonical}
       /\ matchTeams = {}
  /\ part # "digests" =>
       zone = (CHOOSE z \in Zones : TRUE) /\ slots = {} /\ ~matchesOn

ServiceInit ==
  /\ part \in Parts
  /\ Init /\ WatchdogInit /\ HighlightsInit /\ SubscribersInit
  /\ StallInit /\ DigestsInit
  /\ AtRest

ServiceNext ==
  /\ UNCHANGED part
  /\ \/ /\ part = "score" /\ Next
        /\ UNCHANGED <<watchdogVars, highlightsVars, subscribersVars,
                       stallVars, digestsVars>>
     \/ /\ part = "watchdog" /\ WatchdogNext
        /\ UNCHANGED <<vars, highlightsVars, subscribersVars,
                       stallVars, digestsVars>>
     \/ /\ part = "highlights" /\ HighlightsNext
        /\ UNCHANGED <<vars, watchdogVars, subscribersVars,
                       stallVars, digestsVars>>
     \/ /\ part = "subscribers" /\ SubscribersNext
        /\ UNCHANGED <<vars, watchdogVars, highlightsVars,
                       stallVars, digestsVars>>
     \/ /\ part = "stall" /\ StallNext
        /\ UNCHANGED <<vars, watchdogVars, highlightsVars,
                       subscribersVars, digestsVars>>
     \/ /\ part = "digests" /\ DigestsNext
        /\ UNCHANGED <<vars, watchdogVars, highlightsVars,
                       subscribersVars, stallVars>>

ServiceSpec == ServiceInit /\ [][ServiceNext]_serviceVars

ServiceTypeOK ==
  /\ TypeOK /\ WatchdogTypeOK
  /\ HighlightsTypeOK /\ SubscribersTypeOK
  /\ StallTypeOK /\ DigestsTypeOK
=============================================================================
