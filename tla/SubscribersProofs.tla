-------------------------- MODULE SubscribersProofs --------------------------
(***************************************************************************)
(* What Subscribers does for all chats, teams, bars and environments, any   *)
(* number of commands and of restarts.                                     *)
(***************************************************************************)
EXTENDS Subscribers, WellFoundedInduction, TLAPS

\* The main chat of the environment is always a subscriber, so that there is no need
\* of the fallback; and the whitelist in force names all of them.
MailingInv ==
  /\ env.main \in enabled
  /\ env.only => enabled \subseteq env.listed

LEMMA SubscribersInitInv == SubscribersInit => MailingInv
  BY DEF SubscribersInit, MailingInv, Environments

\* A command subscribes nobody but the one who sends it, and he is on the whitelist.
LEMMA CommandKeepsInv ==
  ASSUME MailingInv, NEW c \in Chats, Command(c)
  PROVE  MailingInv'
<1>1. /\ env' = env /\ enabled \subseteq enabled' /\ enabled' \subseteq enabled \union {c}
      /\ env.only => c \in env.listed
  BY DEF Command
<1> QED
  BY <1>1 DEF MailingInv

LEMMA SubscribersNextInv ==
  ASSUME MailingInv, [SubscribersNext]_subscribersVars
  PROVE  MailingInv'
<1>1. CASE NewStart
  <2>1. PICK e \in Environments : Start(e)
    BY <1>1 DEF NewStart
  <2>2. env' = e /\ enabled' = Revoke(enabled \union e.listed, e)
    BY <2>1 DEF Start
  <2>3. e.main \in e.listed
    BY DEF Environments
  <2> QED
    BY <2>2, <2>3 DEF MailingInv, Revoke
<1>2. ASSUME NEW c \in Chats, NEW t \in TeamIds, NEW knob \in Knobs,
             Pause(c) \/ Follow(c, t) \/ Untrack(c, t) \/ Mute(c, t) \/ Settings(c, knob)
      PROVE  MailingInv'
  <2>1. Command(c)
    BY <1>2 DEF Pause, Follow, Untrack, Mute, Settings
  <2> QED
    BY <2>1, CommandKeepsInv
<1>3. CASE FirstFrame \/ AnotherMap \/ Addressed \/ UNCHANGED subscribersVars
  BY <1>3 DEF FirstFrame, AnotherMap, Addressed, subscribersVars, subscriberRows, MailingInv
<1>4. ASSUME NEW t \in TeamIds, Link(t) PROVE MailingInv'
  BY <1>4 DEF Link, subscriberRows, MailingInv
<1>5. ASSUME NEW c \in Chats, Delivered(c) PROVE MailingInv'
  BY <1>5 DEF Delivered, subscriberRows, MailingInv
<1> QED
  BY <1>1, <1>2, <1>3, <1>4, <1>5, SubscribersAssumption DEF SubscribersNext, Knobs

\* Whoever a message is put aside for is a subscriber who is not paused.
LEMMA AudienceIsActive ==
  ASSUME MailingInv, NEW teams PROVE Audience(teams) \subseteq Active
  BY DEF MailingInv, Audience, Fallback

LEMMA OccasionsAreActive ==
  ASSUME MailingInv, NEW who \in Occasions PROVE who \subseteq Active
<1>1. ASSUME NEW e, NEW teams PROVE Recipients(e, teams) \subseteq Active
  BY AudienceIsActive DEF Recipients
<1>2. ASSUME NEW e, NEW t PROVE RoundTo(e, t) \subseteq Active
  BY <1>1 DEF RoundTo
<1>3. ServiceAudience \subseteq Active
  BY AudienceIsActive DEF ServiceAudience
<1>4. ASSUME NEW c PROVE Only(c) \subseteq Active
  BY DEF Only
<1> QED
  BY <1>1, <1>2, <1>3, <1>4 DEF Occasions

MailInv == MailingInv /\ OnlyLeftoversForTheSilent

LEMMA MailInitInv == SubscribersInit => MailInv
  BY SubscribersInitInv DEF SubscribersInit, MailInv, OnlyLeftoversForTheSilent

\* A chat falls silent by its own /pause or by a start of the service, and both mark
\* what the queue holds for it.
LEMMA MailNextInv ==
  ASSUME MailInv, [SubscribersNext]_subscribersVars
  PROVE  MailInv'
<1> USE DEF MailInv
<1>0. MailingInv'
  BY SubscribersNextInv
<1>1. CASE NewStart
  <2>1. PICK e \in Environments : Start(e)
    BY <1>1 DEF NewStart
  <2>2. rows' = rows /\ leftover' = rows
    BY <2>1 DEF Start
  <2> QED
    BY <1>0, <2>2 DEF OnlyLeftoversForTheSilent
<1>2. ASSUME NEW c \in Chats, Pause(c) PROVE MailInv'
  <2>1. UNCHANGED <<env, rows>>
    BY <1>2 DEF Pause, Command
  <2>2. \/ paused' = paused \union {c} /\ leftover' = leftover \union (rows \intersect {c})
        \/ paused' = paused \ {c} /\ leftover' = leftover
    BY <1>2 DEF Pause
  <2> QED
    BY <1>0, <2>1, <2>2 DEF OnlyLeftoversForTheSilent
<1>3. ASSUME NEW c \in Chats, NEW t \in TeamIds, NEW knob \in Knobs,
             Follow(c, t) \/ Untrack(c, t) \/ Mute(c, t) \/ Settings(c, knob)
      PROVE  MailInv'
  <2>1. UNCHANGED <<env, paused, rows, leftover>>
    BY <1>3 DEF Follow, Untrack, Mute, Settings, Command
  <2> QED
    BY <1>0, <2>1 DEF OnlyLeftoversForTheSilent
<1>4. ASSUME NEW t \in TeamIds, FirstFrame \/ AnotherMap \/ Link(t) \/ UNCHANGED subscribersVars
      PROVE  MailInv'
  <2>1. UNCHANGED <<env, paused, rows, leftover>>
    BY <1>4 DEF FirstFrame, AnotherMap, Link, subscribersVars, subscriberRows, outboxRows
  <2> QED
    BY <1>0, <2>1 DEF OnlyLeftoversForTheSilent
<1>5. CASE Addressed
  <2>1. PICK who \in Occasions : rows' = rows \union who
    BY <1>5 DEF Addressed
  <2>2. UNCHANGED <<env, enabled, paused, leftover>>
    BY <1>5 DEF Addressed, subscriberRows
  <2>3. \A c \in who : c \in enabled /\ c \notin paused
    BY OccasionsAreActive DEF Active
  <2>4. \A c \in who : ~(c \in paused \/ (env.only /\ c \notin env.listed))
    BY <2>3 DEF MailingInv
  <2> QED
    BY <1>0, <2>1, <2>2, <2>4 DEF OnlyLeftoversForTheSilent
<1>6. ASSUME NEW c \in Chats, Delivered(c) PROVE MailInv'
  <2>1. UNCHANGED <<env, paused>> /\ rows' = rows \ {c} /\ leftover' = leftover \ {c}
    BY <1>6 DEF Delivered, subscriberRows
  <2> QED
    BY <1>0, <2>1 DEF OnlyLeftoversForTheSilent
<1> QED
  BY <1>1, <1>2, <1>3, <1>4, <1>5, <1>6, SubscribersAssumption DEF SubscribersNext, Knobs

\* No sequence of commands, restarts and deliveries has the service put anything new
\* aside for a chat that is paused or that the whitelist of the running process does
\* not name; what was put aside before that is still delivered.
THEOREM LeftoversHold == SubscribersSpec => []OnlyLeftoversForTheSilent
<1>1. MailInv => OnlyLeftoversForTheSilent
  BY DEF MailInv
<1> QED
  BY <1>1, MailInitInv, MailNextInv, PTL DEF SubscribersSpec
----------------------------------------------------------------------------
\* Bars.

\* Who was there when a tracker was made, and has not moved his bars since, has none
\* above what he asks for: the bar is not off when his is not, and is not higher.
Cleared(c, bar) ==
  \A k \in Knobs : SettingOf(c, k) > 0 => /\ bar[k] \in Nat /\ bar[k] > 0
                                         /\ bar[k] <= SettingOf(c, k)
BarInv ==
  /\ setting \in [Chats -> [Knobs -> Int]]
  /\ \A c \in Chats, k \in Knobs : setting[c][k] \in Bars[k] \union {Unset}
  /\ enabled \subseteq Chats
  /\ \A t \in TeamIds : /\ steady[t] \subseteq Chats
                        /\ trackers[t] # NoTracker =>
                             \A c \in steady[t] : Cleared(c, trackers[t])

\* A set of naturals that is not empty has a least element, and Lowest is it.
LEMMA LowestIsLeast ==
  ASSUME NEW S, S \subseteq Nat, S # {}
  PROVE  Lowest(S) \in S /\ \A n \in S : Lowest(S) <= n
<1>1. \E x \in S : \A y \in S : ~(<<y, x>> \in OpToRel(<, Nat))
  BY NatLessThanWellFounded, WFMin
<1>2. PICK x \in S : \A y \in S : ~(<<y, x>> \in OpToRel(<, Nat))
  BY <1>1
<1>3. ASSUME NEW y \in S PROVE x <= y
  <2>1. ~(y < x)
    <3>1. <<y, x>> \in Nat \X Nat /\ <<y, x>>[1] = y /\ <<y, x>>[2] = x
      OBVIOUS
    <3> QED
      BY <1>2, <3>1 DEF OpToRel
  <2> QED
    BY <2>1
<1> QED
  BY <1>3 DEF Lowest

\* A bar of the menu is a number.
LEMMA BarsAreNumbers == \A k \in Knobs : Bars[k] \subseteq Nat
<1>1. Bars["multikill"] \subseteq Nat /\ Bars["clutch"] \subseteq Nat
  BY SubscribersAssumption DEF Bars
<1> QED
  BY <1>1 DEF Knobs

\* What a chat has set, or the default, is a number.
LEMMA SettingsAreNumbers ==
  ASSUME BarInv, NEW c \in Chats, NEW k \in Knobs
  PROVE  SettingOf(c, k) \in Nat
<1>1. setting[c][k] \in Bars[k] \union {Unset}
  BY DEF BarInv
<1>2. Bars[k] \subseteq Nat /\ Default[k] \in Nat
  <2>1. /\ Bars["multikill"] \subseteq Nat /\ Default["multikill"] \in Nat
        /\ Bars["clutch"] \subseteq Nat /\ Default["clutch"] \in Nat
    BY SubscribersAssumption DEF Bars, Default
  <2> QED
    BY <2>1 DEF Knobs
<1> QED
  BY <1>1, <1>2 DEF SettingOf

\* The bar in use is one that every chat that has not switched it off clears.
LEMMA BarInUse ==
  ASSUME BarInv, NEW c \in enabled, NEW k \in Knobs, SettingOf(c, k) > 0
  PROVE  InUse(k) \in Nat /\ InUse(k) > 0 /\ InUse(k) <= SettingOf(c, k)
<1> DEFINE wanted == {SettingOf(o, k) : o \in enabled} \ {0}
<1>1. wanted \subseteq Nat /\ SettingOf(c, k) \in wanted
  <2>1. \A o \in enabled : SettingOf(o, k) \in Nat
    BY SettingsAreNumbers DEF BarInv
  <2> QED
    BY <2>1
<1>2. InUse(k) = Lowest(wanted)
  BY <1>1 DEF InUse
<1>3. 0 \notin wanted
  OBVIOUS
<1> HIDE DEF wanted
<1>4. Lowest(wanted) \in wanted /\ \A n \in wanted : Lowest(wanted) <= n
  BY <1>1, LowestIsLeast
<1>5. Lowest(wanted) \in Nat /\ Lowest(wanted) # 0
  BY <1>1, <1>3, <1>4
<1>6. Lowest(wanted) <= SettingOf(c, k)
  BY <1>1, <1>4
<1> QED
  BY <1>2, <1>5, <1>6

LEMMA BarInitInv == SubscribersInit => BarInv
<1> SUFFICES ASSUME SubscribersInit PROVE BarInv
  OBVIOUS
<1>1. setting \in [Chats -> [Knobs -> Int]]
  BY DEF SubscribersInit, Unset
<1>2. \A c \in Chats, k \in Knobs : setting[c][k] = Unset
  BY DEF SubscribersInit
<1>3. enabled \subseteq Chats
  BY DEF SubscribersInit, Environments
<1>4. \A t \in TeamIds : steady[t] = {}
  BY DEF SubscribersInit
<1> QED
  BY <1>1, <1>2, <1>3, <1>4 DEF BarInv

LEMMA BarNextInv ==
  ASSUME BarInv, [SubscribersNext]_subscribersVars
  PROVE  BarInv'
<1>1. CASE NewStart
  <2>1. PICK e \in Environments : Start(e)
    BY <1>1 DEF NewStart
  <2>2. enabled' \subseteq Chats
    BY <2>1 DEF Start, Revoke, Environments, BarInv
  <2>3. setting' = setting /\ \A t \in TeamIds : steady'[t] = {}
    BY <2>1 DEF Start
  <2> QED
    BY <2>2, <2>3 DEF BarInv
<1>2. ASSUME NEW c \in Chats, NEW t \in TeamIds, Pause(c) \/ Follow(c, t) \/ Untrack(c, t) \/ Mute(c, t)
      PROVE  BarInv'
  <2>1. enabled' \subseteq enabled \union {c} /\ UNCHANGED <<setting, steady, trackers>>
    BY <1>2 DEF Pause, Follow, Untrack, Mute, Command
  <2> QED
    BY <2>1 DEF BarInv, Cleared, SettingOf
<1>3. ASSUME NEW c \in Chats, NEW knob \in Knobs, Settings(c, knob) PROVE BarInv'
  <2>1. enabled' \subseteq enabled \union {c} /\ trackers' = trackers
    BY <1>3 DEF Settings, Command
  <2>2. PICK bar \in Bars[knob] \union {Unset} : setting' = [setting EXCEPT ![c][knob] = bar]
    BY <1>3 DEF Settings
  <2>3. bar \in Int
    BY BarsAreNumbers DEF Unset
  <2>4. setting' \in [Chats -> [Knobs -> Int]]
    BY <2>2, <2>3 DEF BarInv
  <2>5. \A o \in Chats, k \in Knobs :
          setting'[o][k] = IF o = c /\ k = knob THEN bar ELSE setting[o][k]
    BY <2>2 DEF BarInv
  <2>6. \A t \in TeamIds : steady'[t] = steady[t] \ {c}
    BY <1>3 DEF Settings
  <2>7. \A o \in Chats, k \in Knobs : o # c => SettingOf(o, k)' = SettingOf(o, k)
    BY <2>5 DEF SettingOf
  <2>8. ASSUME NEW t \in TeamIds, trackers[t] # NoTracker, NEW o \in steady'[t]
        PROVE  Cleared(o, trackers[t])'
    <3>1. o # c /\ o \in Chats /\ Cleared(o, trackers[t])
      BY <2>6, <2>8 DEF BarInv
    <3> QED
      BY <2>1, <2>7, <3>1 DEF Cleared
  <2> QED
    BY <2>1, <2>4, <2>5, <2>6, <2>8 DEF BarInv
<1>4. ASSUME NEW t \in TeamIds, Link(t) PROVE BarInv'
  <2>1. UNCHANGED <<enabled, setting, steady, trackers>>
    BY <1>4 DEF Link, subscriberRows
  <2> QED
    BY <2>1 DEF BarInv, Cleared, SettingOf
<1>5. CASE FirstFrame
  <2> DEFINE missing == {t \in Tracked : trackers[t] = NoTracker}
  <2>1. /\ UNCHANGED <<setting, enabled>>
        /\ \A t \in TeamIds :
             /\ trackers'[t] = IF t \in missing THEN [k \in Knobs |-> InUse(k)] ELSE trackers[t]
             /\ steady'[t] = IF t \in missing THEN enabled ELSE steady[t]
    BY <1>5 DEF FirstFrame, subscriberRows
  <2> HIDE DEF missing
  <2>2. \A c \in Chats, k \in Knobs : SettingOf(c, k)' = SettingOf(c, k)
    BY <2>1 DEF SettingOf
  <2>3. ASSUME NEW t \in TeamIds, trackers'[t] # NoTracker, NEW c \in steady'[t]
        PROVE  Cleared(c, trackers[t])'
    <3>1. CASE t \in missing
      <4>1. c \in enabled /\ c \in Chats
        BY <2>1, <2>3, <3>1 DEF BarInv
      <4>2. \A k \in Knobs : trackers'[t][k] = InUse(k)
        BY <2>1, <3>1
      <4> QED
        BY <2>2, <4>1, <4>2, BarInUse DEF Cleared
    <3>2. CASE t \notin missing
      <4>1. trackers'[t] = trackers[t] /\ c \in Chats /\ Cleared(c, trackers[t])
        BY <2>1, <2>3, <3>2 DEF BarInv
      <4> QED
        BY <2>2, <4>1 DEF Cleared
    <3> QED
      BY <3>1, <3>2
  <2> QED
    BY <2>1, <2>3 DEF BarInv
<1>6. CASE AnotherMap
  <2>1. UNCHANGED <<setting, enabled>> /\ \A t \in TeamIds : steady'[t] = {}
    BY <1>6 DEF AnotherMap, subscriberRows
  <2> QED
    BY <2>1 DEF BarInv
<1>7. CASE UNCHANGED subscribersVars
  BY <1>7 DEF subscribersVars, subscriberRows, BarInv, Cleared, SettingOf
<1>8. TeamIds # {} /\ Knobs # {}
  BY SubscribersAssumption DEF Knobs
<1>9. CASE Addressed \/ \E c \in Chats : Delivered(c)
  <2>1. UNCHANGED <<enabled, setting, steady, trackers>>
    BY <1>9 DEF Addressed, Delivered, subscriberRows
  <2> QED
    BY <2>1 DEF BarInv, Cleared, SettingOf
<1> QED
  BY <1>1, <1>2, <1>3, <1>4, <1>5, <1>6, <1>7, <1>8, <1>9 DEF SubscribersNext

\* A reader who follows a team is written to of what happens to it, unless he muted it.
LEMMA ReaderIsReached ==
  ASSUME NEW c \in Active, NEW teams, NEW t \in teams \intersect FollowedBy(c), NEW e,
         <<c, t, e.type>> \notin muted, Wants(c, e)
  PROVE  c \in Recipients(e, teams)
<1>1. Active # {} /\ t \in TeamsOf(c, teams)
  BY DEF TeamsOf
<1> QED
  BY <1>1 DEF Recipients, Audience, Unmuted

LEMMA BarsLeaveNobodyOut == BarInv => NobodyIsLeftOut
<1> SUFFICES ASSUME BarInv, NEW c \in Active
             PROVE  /\ \A t \in Observed \intersect FollowedBy(c) : \A e \in Feats :
                         /\ c \in steady[t] /\ <<c, t, e.type>> \notin muted
                         /\ Clears(c, e) \/ ClearsAlone(c, e)
                         => c \in RoundTo(e, t)
                    /\ (\E t \in matchTeams \intersect FollowedBy(c) : <<c, t, "E6">> \notin muted)
                         => c \in Recipients(Plain("E6"), matchTeams)
  BY DEF NobodyIsLeftOut
<1>1. c \in enabled /\ c \in Chats
  BY DEF Active, BarInv
<1>2. SettingOf(c, "multikill") \in Nat /\ SettingOf(c, "clutch") \in Nat
  BY <1>1, SettingsAreNumbers DEF Knobs
<1>3. ASSUME NEW t \in Observed \intersect FollowedBy(c), NEW e \in Feats, c \in steady[t],
             <<c, t, e.type>> \notin muted, Clears(c, e) \/ ClearsAlone(c, e)
      PROVE  c \in RoundTo(e, t)
  <2>1. /\ e.kills \in Nat /\ e.against \in Nat /\ e.type \in {"E9", "E15"}
        /\ e.type = "E9" => e.against = 0
    BY SubscribersAssumption DEF Feats
  <2>2. Cleared(c, trackers[t])
    BY <1>3 DEF BarInv, Observed, FollowedBy
  <2>3. Wants(c, e)
    BY <1>2, <1>3, <2>1 DEF Wants, Clears, ClearsAlone
  <2>4. c \in Recipients(e, {t})
    BY <1>3, <2>3, ReaderIsReached
  <2>5. ~NobodyWaits
    <3>1. PICK k \in Knobs : SettingOf(c, k) > 0
      BY <1>3 DEF Clears, ClearsAlone, Knobs
    <3>2. InUse(k) # 0
      BY <1>1, <3>1, BarInUse
    <3> QED
      BY <3>2 DEF NobodyWaits, Knobs
  <2>6. Worthy(trackers[t], e)
    <3>1. CASE Clears(c, e)
      <4>1. /\ SettingOf(c, "multikill") > 0 /\ e.kills >= SettingOf(c, "multikill")
            /\ trackers[t]["multikill"] \in Nat /\ trackers[t]["multikill"] > 0
            /\ trackers[t]["multikill"] <= SettingOf(c, "multikill")
        BY <2>2, <3>1 DEF Clears, Cleared, Knobs
      <4> QED
        BY <1>2, <2>1, <4>1 DEF Worthy
    <3>2. CASE ClearsAlone(c, e)
      <4>1. /\ SettingOf(c, "clutch") > 0 /\ e.against >= SettingOf(c, "clutch")
            /\ trackers[t]["clutch"] \in Nat /\ trackers[t]["clutch"] > 0
            /\ trackers[t]["clutch"] <= SettingOf(c, "clutch")
        BY <2>2, <3>2 DEF ClearsAlone, Cleared, Knobs
      <4> QED
        BY <1>2, <2>1, <4>1 DEF Worthy
    <3> QED
      BY <1>3, <3>1, <3>2
  <2> QED
    BY <2>4, <2>5, <2>6 DEF RoundTo
<1>4. ASSUME NEW t \in matchTeams \intersect FollowedBy(c), <<c, t, "E6">> \notin muted
      PROVE  c \in Recipients(Plain("E6"), matchTeams)
  <2>1. Plain("E6").type = "E6" /\ Wants(c, Plain("E6"))
    BY DEF Plain, Wants
  <2> QED
    BY <1>4, <2>1, ReaderIsReached
<1> QED
  BY <1>3, <1>4

\* Whatever bars the chats set and however often they change them, the one bar that
\* serves a team's followers lets everything through that any of them asked for.
THEOREM EverybodyIsServed == SubscribersSpec => []NobodyIsLeftOut
  BY BarInitInv, BarNextInv, BarsLeaveNobodyOut, PTL DEF SubscribersSpec
----------------------------------------------------------------------------
\* Types.

SubscribersTyped == SubscribersTypeOK /\ setting \in [Chats -> [Knobs -> Int]]

\* A row that is written is one that the tables may hold.
LEMMA CommandTyped ==
  ASSUME SubscribersTyped, NEW c \in Chats, Command(c)
  PROVE  /\ env' \in Environments /\ enabled' \subseteq known' /\ known' \subseteq Chats
         /\ matchTeams' \subseteq TeamIds /\ DOMAIN trackers' = TeamIds
         /\ edits' \in 0..MaxEdits /\ starts' \in 0..MaxStarts /\ rows' = rows
<1>1. edits' \in 0..MaxEdits /\ starts' = starts
  BY SubscribersAssumption DEF Command, SubscribersTyped, SubscribersTypeOK
<1>2. enabled' \subseteq known' /\ known' \subseteq Chats
  BY DEF Command, SubscribersTyped, SubscribersTypeOK
<1> QED
  BY <1>1, <1>2 DEF Command, SubscribersTyped, SubscribersTypeOK

\* A message is put aside for chats.
LEMMA OccasionsAreChats ==
  ASSUME SubscribersTyped, NEW who \in Occasions PROVE who \subseteq Chats
<1>1. Active \subseteq Chats /\ Fallback \subseteq Chats
  BY DEF Active, Fallback, Environments, SubscribersTyped, SubscribersTypeOK
<1>2. ASSUME NEW teams PROVE Audience(teams) \subseteq Chats
  BY <1>1 DEF Audience
<1>3. ASSUME NEW e, NEW teams PROVE Recipients(e, teams) \subseteq Chats
  BY <1>2 DEF Recipients
<1>4. ASSUME NEW e, NEW t PROVE RoundTo(e, t) \subseteq Chats
  BY <1>3 DEF RoundTo
<1>5. ServiceAudience \subseteq Chats /\ \A c \in Chats : Only(c) \subseteq Chats
  BY <1>2 DEF ServiceAudience, Only
<1> QED
  BY <1>3, <1>4, <1>5 DEF Occasions

\* The variables have their types initially, and each step keeps them.
LEMMA SubscribersInitTyped == SubscribersInit => SubscribersTyped
<1> SUFFICES ASSUME SubscribersInit PROVE SubscribersTyped
  OBVIOUS
<1> USE SubscribersAssumption
<1>1. /\ env \in Environments /\ env.listed \subseteq Chats
      /\ known = env.listed /\ enabled = env.listed /\ paused = {} /\ muted = {}
      /\ edits = 0 /\ starts = 0 /\ rows = {} /\ leftover = {}
  BY DEF SubscribersInit, Environments
<1>2. following \in [Chats \X TeamIds -> {"none", "off", "on"}]
  <2>1. PICK team \in [Chats -> TeamIds] :
          following = [p \in Chats \X TeamIds |->
                         IF p[1] \in env.listed /\ p[2] = team[p[1]] THEN "on" ELSE "none"]
    BY DEF SubscribersInit
  <2> QED
    BY <2>1
<1>3. setting \in [Chats -> [Knobs -> Int]] /\ \A c \in Chats, k \in Knobs : setting[c][k] = Unset
  BY DEF SubscribersInit, Unset
<1>4. /\ matchTeams \subseteq TeamIds /\ steady \in [TeamIds -> SUBSET Chats]
      /\ DOMAIN trackers = TeamIds
  BY DEF SubscribersInit
<1> QED
  BY <1>1, <1>2, <1>3, <1>4 DEF SubscribersTyped, SubscribersTypeOK

LEMMA SubscribersNextTyped ==
  ASSUME SubscribersTyped, [SubscribersNext]_subscribersVars
  PROVE  SubscribersTyped'
<1> USE DEF SubscribersTyped, SubscribersTypeOK
<1>1. CASE NewStart
  <2>1. PICK e \in Environments : Start(e)
    BY <1>1 DEF NewStart
  <2>2. e.listed \subseteq Chats /\ e.main \in Chats /\ env' = e
    BY <2>1 DEF Environments, Start
  <2>3. enabled' \subseteq known' /\ known' \subseteq Chats
    BY <2>1, <2>2 DEF Start, Revoke
  <2>4. following' \in [Chats \X TeamIds -> {"none", "off", "on"}]
    BY <2>1, <2>2, SubscribersAssumption DEF Start
  <2>5. /\ DOMAIN trackers' = TeamIds /\ steady' \in [TeamIds -> SUBSET Chats]
        /\ UNCHANGED <<paused, muted, setting, matchTeams, rows>> /\ leftover' = rows
    BY <2>1 DEF Start
  <2>6. starts' \in 0..MaxStarts /\ edits' = edits
    BY <1>1, SubscribersAssumption DEF NewStart
  <2> QED
    BY <2>2, <2>3, <2>4, <2>5, <2>6
<1>2. ASSUME NEW c \in Chats, Pause(c) PROVE SubscribersTyped'
  <2>1. Command(c) /\ UNCHANGED <<following, muted, setting, steady>> /\ paused' \subseteq Chats
        /\ leftover' \subseteq rows
    BY <1>2 DEF Pause
  <2> QED
    BY <2>1, CommandTyped
<1>3. ASSUME NEW c \in Chats, NEW t \in TeamIds, Follow(c, t) \/ Untrack(c, t)
      PROVE  SubscribersTyped'
  <2>1. Command(c) /\ UNCHANGED <<paused, muted, setting, leftover, steady>>
    BY <1>3 DEF Follow, Untrack
  <2>2. \/ following' = following
        \/ following' = [following EXCEPT ![<<c, t>>] = "on"]
        \/ following' = [following EXCEPT ![<<c, t>>] = "off"]
    BY <1>3 DEF Follow, Untrack
  <2>3. following' \in [Chats \X TeamIds -> {"none", "off", "on"}]
    BY <2>2
  <2> QED
    BY <2>1, <2>3, CommandTyped
<1>4. ASSUME NEW c \in Chats, NEW t \in TeamIds, Mute(c, t) PROVE SubscribersTyped'
  <2>1. Command(c) /\ UNCHANGED <<paused, following, setting, leftover, steady>>
    BY <1>4 DEF Mute
  <2>2. muted' \subseteq Chats \X TeamIds \X Types
    <3>1. \A y \in Types : <<c, t, y>> \in Chats \X TeamIds \X Types
      OBVIOUS
    <3>2. CASE UNCHANGED muted
      BY <3>2
    <3>3. ASSUME NEW types \in SUBSET Types,
                 muted' = (muted \ MutesOf(c, t)) \union {<<c, t, y>> : y \in types}
          PROVE  muted' \subseteq Chats \X TeamIds \X Types
      BY <3>1, <3>3
    <3>4. ASSUME NEW m \in {<<c, t, y>> : y \in Types},
                 muted' = IF m \in muted THEN muted \ {m} ELSE muted \union {m}
          PROVE  muted' \subseteq Chats \X TeamIds \X Types
      BY <3>1, <3>4
    <3> QED
      BY <1>4, <3>2, <3>3, <3>4, Zenon DEF Mute
  <2> QED
    BY <2>1, <2>2, CommandTyped
<1>5. ASSUME NEW c \in Chats, NEW knob \in Knobs, Settings(c, knob) PROVE SubscribersTyped'
  <2>1. Command(c) /\ UNCHANGED <<paused, following, muted, leftover>>
    BY <1>5 DEF Settings
  <2>2. PICK bar \in Bars[knob] \union {Unset} : setting' = [setting EXCEPT ![c][knob] = bar]
    BY <1>5 DEF Settings
  <2>3. bar \in Int
    BY BarsAreNumbers DEF Unset
  <2>4. /\ setting' \in [Chats -> [Knobs -> Int]]
        /\ \A d \in Chats, k \in Knobs : setting'[d][k] \in Bars[k] \union {Unset}
    BY <2>2, <2>3
  <2>5. steady' \in [TeamIds -> SUBSET Chats]
    BY <1>5 DEF Settings
  <2> QED
    BY <2>1, <2>4, <2>5, CommandTyped
<1>6. ASSUME NEW t \in TeamIds, Link(t) PROVE SubscribersTyped'
  BY <1>6 DEF Link, subscriberRows, outboxRows
<1>7. CASE FirstFrame
  <2>1. /\ UNCHANGED <<env, subscriberRows, matchTeams, outboxRows, edits, starts>>
        /\ DOMAIN trackers' = TeamIds /\ steady' \in [TeamIds -> SUBSET Chats]
    BY <1>7 DEF FirstFrame
  <2> QED
    BY <2>1 DEF subscriberRows, outboxRows
<1>8. CASE AnotherMap
  <2>1. /\ UNCHANGED <<env, subscriberRows, matchTeams, outboxRows, edits, starts>>
        /\ DOMAIN trackers' = TeamIds /\ steady' \in [TeamIds -> SUBSET Chats]
    BY <1>8 DEF AnotherMap
  <2> QED
    BY <2>1 DEF subscriberRows, outboxRows
<1>9. CASE UNCHANGED subscribersVars
  BY <1>9 DEF subscribersVars, subscriberRows, outboxRows
<1>10. CASE Addressed
  <2>1. PICK who \in Occasions : rows' = rows \union who
    BY <1>10 DEF Addressed
  <2>2. UNCHANGED <<env, subscriberRows, matchTeams, trackers, leftover, steady, edits, starts>>
    BY <1>10 DEF Addressed
  <2>3. who \subseteq Chats
    BY OccasionsAreChats
  <2> QED
    BY <2>1, <2>2, <2>3 DEF subscriberRows
<1>11. ASSUME NEW c \in Chats, Delivered(c) PROVE SubscribersTyped'
  BY <1>11 DEF Delivered, subscriberRows
<1> QED
  BY <1>1, <1>2, <1>3, <1>4, <1>5, <1>6, <1>7, <1>8, <1>9, <1>10, <1>11
  DEF SubscribersNext

\* The tables and the trackers keep their types: a reader who is enabled has a row, no
\* bar is set but to a value of the menu.
THEOREM SubscribersTypeCorrect == SubscribersSpec => []SubscribersTypeOK
<1>1. SubscribersTyped => SubscribersTypeOK
  BY DEF SubscribersTyped
<1> QED
  BY <1>1, SubscribersInitTyped, SubscribersNextTyped, PTL DEF SubscribersSpec
=============================================================================
