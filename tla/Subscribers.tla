----------------------------- MODULE Subscribers -----------------------------
(***************************************************************************)
(* Who a message is for.                                                   *)
(*   bot.py, settings.py     what a chat changes with commands and buttons *)
(*   state/db.py             the rows those are kept in                    *)
(*   __main__.py             what a start does to them                     *)
(*   notify/audience.py, notify/outbox.py       who is written to          *)
(*   state/live_machine.py   the bars a highlight is born over, which are  *)
(*                           read once for each map                        *)
(***************************************************************************)
EXTENDS Integers, FiniteSets

CONSTANTS
  Chats, TeamIds,
  Canonical,        \* TEAM_ID: the team of the configuration
  TeamLimit,        \* MAX_TEAMS_PER_SUBSCRIBER; 0: none
  Types,            \* of events, those that are muted
  Multikills, Clutches,              \* what a chat sets its two bars to
  DefaultMultikill, DefaultClutch,
  MaxEdits,         \* bound: commands that change something
  MaxStarts         \* bound: restarts

ASSUME SubscribersAssumption ==
  /\ IsFiniteSet(Chats) /\ IsFiniteSet(TeamIds) /\ Canonical \in TeamIds
  /\ {TeamLimit, MaxEdits, MaxStarts, DefaultClutch} \subseteq Nat
  /\ DefaultMultikill \in Nat \ {1}
  /\ Multikills \subseteq Nat \ {1} /\ Clutches \subseteq Nat

Unset == -1
NoTracker == [multikill |-> Unset, clutch |-> Unset]
Knobs == {"multikill", "clutch"}
Default == [multikill |-> DefaultMultikill, clutch |-> DefaultClutch]
Bars == [multikill |-> Multikills, clutch |-> Clutches]
\* .env; a service that is given no chat at all writes to nobody.
Environments == {e \in [only : BOOLEAN, listed : SUBSET Chats, main : Chats] : e.main \in e.listed}
Plain(type) == [type |-> type, kills |-> 0, against |-> 0]

VARIABLES
  env,
  known, enabled, paused,   \* table subscribers
  following,                \* table teams: none, off or on for <<chat, team>>
  muted,                    \* teams.muted_events, as <<chat, team, type>>
  setting,                  \* table subscriber_settings
  matchTeams,               \* match_teams of the match that is played
  trackers,                 \* the bars of each team's RoundTracker on this map
  rows,                     \* table outbox: the chats for whom something waits in it
  \* History, for the properties only.
  leftover,                 \* for whom it waits since before the pause or the last start
  steady,                   \* who had his bars as they are when the tracker was made
  edits, starts

subscriberRows == <<known, enabled, paused, following, muted, setting>>
outboxRows == <<rows, leftover>>
subscribersVars ==
  <<env, subscriberRows, matchTeams, trackers, outboxRows, steady, edits, starts>>
----------------------------------------------------------------------------
\* The tables.

SettingOf(c, knob) == IF setting[c][knob] = Unset THEN Default[knob] ELSE setting[c][knob]
FollowedBy(c) == {t \in TeamIds : following[c, t] = "on"}
Active == enabled \ paused

Lowest(S) == CHOOSE n \in S : \A o \in S : n <= o

\* Mutant: who has switched it off pulls the bar down for everybody.
LowestOfAll(knob) == Lowest({SettingOf(c, knob) : c \in enabled} \union
                            (IF enabled = {} THEN {Default[knob]} ELSE {}))
\* threshold_in_use
InUse(knob) ==
  LET wanted == {SettingOf(c, knob) : c \in enabled} \ {0}
  IN IF wanted # {} THEN Lowest(wanted)
     ELSE IF enabled = {} THEN Default[knob] ELSE 0

\* audience._fallback
Fallback == IF enabled = {} THEN {env.main} ELSE {}

\* match_audience: the readers, and the teams of the match each of them follows.
TeamsOf(c, teams) == IF Active = {} THEN {} ELSE teams \intersect FollowedBy(c)
Audience(teams) ==
  IF Active = {} THEN Fallback
  ELSE {c \in Active : teams = {} \/ TeamsOf(c, teams) # {}}

\* _wants
Clears(c, e) == LET bar == SettingOf(c, "multikill") IN bar > 0 /\ e.kills >= bar
ClearsAlone(c, e) == LET bar == SettingOf(c, "clutch") IN bar > 0 /\ e.against >= bar
Wants(c, e) ==
  /\ e.type = "E9" => Clears(c, e)
  /\ e.type = "E15" => Clears(c, e) \/ ClearsAlone(c, e)

\* _recipients: of a match event, of a service alert and of what is meant for one chat.
Unmuted(c, type, teams) ==
  TeamsOf(c, teams) = {} \/ \E t \in TeamsOf(c, teams) : <<c, t, type>> \notin muted
Recipients(e, teams) == {c \in Audience(teams) : Wants(c, e) /\ Unmuted(c, e.type, teams)}
ServiceAudience == Audience({})
Only(chat) ==
  IF chat \notin Active THEN {}
  ELSE {c \in {chat} : c \in Audience(matchTeams) => Unmuted(c, "E10", matchTeams)}
----------------------------------------------------------------------------
\* A start of the service.

\* Mutant: the whitelist only closes the way in.
KeepRemoved(chats, e) == chats
\* _revoke_removed_subscribers
Revoke(chats, e) == IF e.only THEN chats \intersect e.listed ELSE chats

\* main: the chats of .env are enabled, others revoked; the first team comes from .env.
Start(e) ==
  /\ env' = e
  /\ known' = known \union e.listed
  /\ enabled' = Revoke(enabled \union e.listed, e)
  /\ following' = IF \A p \in Chats \X TeamIds : following[p] = "none"
                    THEN [following EXCEPT ![<<e.main, Canonical>>] = "on"] ELSE following
  /\ trackers' = [t \in TeamIds |-> NoTracker] /\ steady' = [t \in TeamIds |-> {}]
  /\ leftover' = rows
  /\ UNCHANGED <<paused, muted, setting, matchTeams, rows>>

\* The first one, with what its chats followed before the match.
SubscribersInit ==
  /\ env \in {e \in Environments : e.only}
  /\ known = env.listed /\ enabled = env.listed /\ paused = {}
  /\ \E team \in [Chats -> TeamIds] :
       following = [p \in Chats \X TeamIds |->
                      IF p[1] \in env.listed /\ p[2] = team[p[1]] THEN "on" ELSE "none"]
  /\ muted = {} /\ setting = [c \in Chats |-> [k \in Knobs |-> Unset]]
  /\ matchTeams \in {{}, {Canonical}}
  /\ trackers = [t \in TeamIds |-> NoTracker] /\ steady = [t \in TeamIds |-> {}]
  /\ rows = {} /\ leftover = {}
  /\ edits = 0 /\ starts = 0

NewStart ==
  /\ starts < MaxStarts /\ starts' = starts + 1
  /\ \E e \in Environments : Start(e)
  /\ UNCHANGED edits
----------------------------------------------------------------------------
\* Commands and buttons.

\* chat_allowed; a command that stores something makes a subscriber of who had no row.
Command(c) ==
  /\ edits < MaxEdits /\ edits' = edits + 1
  /\ env.only => c \in env.listed
  /\ known' = known \union {c}
  /\ enabled' = IF c \in known THEN enabled ELSE enabled \union {c}
  /\ UNCHANGED <<env, matchTeams, trackers, rows, starts>>

\* set_subscriber_paused; what is in the queue stays there.
Pause(c) ==
  /\ Command(c)
  /\ \/ paused' = paused \union {c} /\ leftover' = leftover \union (rows \intersect {c})
     \/ paused' = paused \ {c} /\ UNCHANGED leftover
  /\ UNCHANGED <<following, muted, setting, steady>>

\* _track: the limit, and a team page that may not open.
LimitReached(c, t) ==
  /\ TeamLimit > 0 /\ following[c, t] # "on"
  /\ Cardinality(FollowedBy(c)) >= TeamLimit
Follow(c, t) ==
  /\ Command(c)
  /\ following' \in IF LimitReached(c, t) THEN {following}
                    ELSE {following, [following EXCEPT ![<<c, t>>] = "on"]}
  /\ UNCHANGED <<paused, muted, setting, leftover, steady>>

\* _untrack, and the two buttons of a team, of which "on" asks for no limit.
Untrack(c, t) ==
  /\ Command(c)
  /\ following' \in IF following[c, t] = "none" THEN {following}
                    ELSE {[following EXCEPT ![<<c, t>>] = s] : s \in {"on", "off"}}
  /\ UNCHANGED <<paused, muted, setting, leftover, steady>>

\* _mute replaces the list, _unmute empties it; the button x turns over one type.
MutesOf(c, t) == {m \in muted : m[1] = c /\ m[2] = t}
Mute(c, t) ==
  /\ Command(c)
  /\ \/ following[c, t] = "none" /\ UNCHANGED muted
     \/ /\ following[c, t] # "none"
        /\ \E types \in SUBSET Types :
             muted' = (muted \ MutesOf(c, t)) \union {<<c, t, y>> : y \in types}
     \/ /\ following[c, t] # "none"
        /\ \E m \in {<<c, t, y>> : y \in Types} :
             muted' = IF m \in muted THEN muted \ {m} ELSE muted \union {m}
  /\ UNCHANGED <<paused, following, setting, leftover, steady>>

\* _settings: a value, or the row goes away; "on" for what is off by default changes nothing.
Settings(c, knob) ==
  /\ Command(c)
  /\ \E bar \in Bars[knob] \union {Unset} : setting' = [setting EXCEPT ![c][knob] = bar]
  /\ steady' = [t \in TeamIds |-> steady[t] \ {c}]
  /\ UNCHANGED <<paused, following, muted, leftover>>
----------------------------------------------------------------------------
\* The match.

\* A team page that is polled links the match to its team, whoever it is polled for.
Link(t) ==
  /\ t \notin matchTeams /\ \E c \in Chats : following[c, t] = "on"
  /\ matchTeams' = matchTeams \union {t}
  /\ UNCHANGED <<env, subscriberRows, trackers, outboxRows, steady, edits, starts>>

Tracked == IF matchTeams = {} THEN {Canonical} ELSE matchTeams
NobodyWaits == InUse("multikill") = 0 /\ InUse("clutch") = 0

\* _highlight_events: the first frame of a map makes the trackers, with the bars in use.
FirstFrame ==
  LET missing == {t \in Tracked : trackers[t] = NoTracker} IN
  /\ ~NobodyWaits /\ missing # {}
  /\ trackers' = [t \in TeamIds |->
       IF t \in missing THEN [k \in Knobs |-> InUse(k)] ELSE trackers[t]]
  /\ steady' = [t \in TeamIds |-> IF t \in missing THEN enabled ELSE steady[t]]
  /\ UNCHANGED <<env, subscriberRows, matchTeams, outboxRows, edits, starts>>

AnotherMap ==
  /\ trackers' = [t \in TeamIds |-> NoTracker] /\ steady' = [t \in TeamIds |-> {}]
  /\ trackers' # trackers
  /\ UNCHANGED <<env, subscriberRows, matchTeams, outboxRows, edits, starts>>

\* RoundTracker._worth_reporting
Worthy(bar, e) ==
  \/ bar.clutch > 0 /\ e.against >= bar.clutch
  \/ bar.multikill > 0 /\ e.kills >= bar.multikill

\* A round in which a player of team t did something; it is addressed to those who
\* follow that team.
Feats == {[type |-> IF n > 0 THEN "E15" ELSE "E9", kills |-> k, against |-> n] :
             k \in Multikills \union {0, DefaultMultikill}, n \in Clutches \union {0}}
RoundTo(e, t) == IF ~NobodyWaits /\ Worthy(trackers[t], e) THEN Recipients(e, {t}) ELSE {}
Observed == {t \in Tracked : trackers[t] # NoTracker}

\* enqueue: something happens in a round, in the match, to the service, or to a chat's
\* reminder or card, and is put aside for whoever it is addressed to at that moment.
Occasions ==
  {RoundTo(e, t) : e \in Feats, t \in Observed} \union {Only(c) : c \in Chats}
  \union {Recipients(Plain("E6"), matchTeams), ServiceAudience}
Addressed ==
  /\ \E who \in Occasions : rows' = rows \union who
  /\ UNCHANGED <<env, subscriberRows, matchTeams, trackers, leftover, steady, edits, starts>>

\* _deliver: the row goes to its chat, after however many retries and whatever the chat
\* or the whitelist has become meanwhile.
Delivered(c) ==
  /\ c \in rows
  /\ rows' = rows \ {c} /\ leftover' = leftover \ {c}
  /\ UNCHANGED <<env, subscriberRows, matchTeams, trackers, steady, edits, starts>>

SubscribersNext ==
  \/ NewStart \/ FirstFrame \/ AnotherMap \/ Addressed
  \/ \E t \in TeamIds : Link(t)
  \/ \E c \in Chats :
       \/ Pause(c) \/ Delivered(c)
       \/ \E t \in TeamIds : Follow(c, t) \/ Untrack(c, t) \/ Mute(c, t)
       \/ \E knob \in Knobs : Settings(c, knob)

SubscribersSpec == SubscribersInit /\ [][SubscribersNext]_subscribersVars
----------------------------------------------------------------------------
SubscribersTypeOK ==
  /\ env \in Environments
  /\ enabled \subseteq known /\ known \union paused \union rows \subseteq Chats
  /\ leftover \subseteq rows
  /\ following \in [Chats \X TeamIds -> {"none", "off", "on"}]
  /\ muted \subseteq Chats \X TeamIds \X Types
  /\ \A c \in Chats, k \in Knobs : setting[c][k] \in Bars[k] \union {Unset}
  /\ matchTeams \subseteq TeamIds /\ steady \in [TeamIds -> SUBSET Chats]
  /\ DOMAIN trackers = TeamIds
  /\ edits \in 0..MaxEdits /\ starts \in 0..MaxStarts

\* One bar serves everybody: whatever the others have set, muted or switched off, a
\* highlight of a team of his that a reader asked for, by bars he did not move on this
\* map, is born and reaches him; and a result reaches whoever follows one team in the
\* match that has not muted it.
NobodyIsLeftOut ==
  \A c \in Active :
    /\ \A t \in Observed \intersect FollowedBy(c) : \A e \in Feats :
         /\ c \in steady[t] /\ <<c, t, e.type>> \notin muted
         /\ Clears(c, e) \/ ClearsAlone(c, e)
         => c \in RoundTo(e, t)
    /\ (\E t \in matchTeams \intersect FollowedBy(c) : <<c, t, "E6">> \notin muted)
         => c \in Recipients(Plain("E6"), matchTeams)

\* Nothing new is put aside for a chat while it is paused, or once the whitelist of the
\* process that runs does not name it, in whatever order it subscribed, was removed and
\* came back: all it can still get is what lay in the queue before that.
OnlyLeftoversForTheSilent ==
  \A c \in rows : c \in paused \/ (env.only /\ c \notin env.listed) => c \in leftover
=============================================================================
