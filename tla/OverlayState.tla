---------------------------- MODULE OverlayState ----------------------------
(***************************************************************************)
(* The host's reducer (src/host/model/overlay_state.cpp): RPC events are   *)
(* folded into the snapshot that is served to the overlays.  Participants  *)
(* are a vector with an index from user id to position; notifications are  *)
(* kept newest first and capped.  Every change is committed: on_change     *)
(* hands the snapshot to the state server.                                 *)
(*                                                                         *)
(* An event about an unknown user returns early: a stuttering step.        *)
(* Positions are 1-based.  Snapshot::revision, which is serialised and     *)
(* never read, is left out.                                                *)
(***************************************************************************)
EXTENDS Naturals, SequencesExt

CONSTANTS
    Channels,          \* channel ids
    Users,             \* user ids
    NoChannel,         \* the empty channel id
    Infos,             \* what else a voice state carries: nick, avatar, flags
    Configs,           \* appearance settings
    MaxNotifications,  \* kMaxNotifications
    MaxArrivals,       \* bound on the notifications of a behaviour
    MaxClock           \* bound on the wall clock

ASSUME StateAssumption ==
    /\ NoChannel \notin Channels
    /\ MaxNotifications \in Nat \ {0} /\ MaxArrivals \in Nat /\ MaxClock \in Nat

VARIABLES
    shown,          \* snap_.channel_name; NoChannel when not in_voice
    participants,   \* snap_.participants
    index,          \* index_: from the listed user ids to positions
    notifications,  \* snap_.notifications
    config,         \* snap_.config
    published,      \* the snapshot the state server has
    arrived,        \* notifications so far: the next one's id
    now             \* the wall clock, which may be set back

snapVars == <<shown, participants, index, notifications, config>>
vars == <<shown, participants, index, notifications, config, published, arrived, now>>

-----------------------------------------------------------------------------
ChannelIds   == Channels \cup {NoChannel}
Participant  == [user : Users, speaking : BOOLEAN, info : Infos]
Notification == [id : 0..MaxArrivals, created : 0..MaxClock]

Snapshot(c, ps, ns, cfg) ==
    [channel |-> c, participants |-> ps, notifications |-> ns, config |-> cfg]

Current == Snapshot(shown, participants, notifications, config)

Empty == [u \in {} |-> 0]

(* main sets the configuration, then seeds the server. *)
Init ==
    /\ shown = NoChannel /\ participants = <<>> /\ index = Empty
    /\ notifications = <<>>
    /\ config \in Configs
    /\ published = Current
    /\ arrived = 0 /\ now = 0

(* commit: on_change, i.e. set_snapshot and broadcast. *)
Commit == published' = Snapshot(shown', participants', notifications', config')

(* The index built by the loop after an erase: the last row of a user wins. *)
RebuildIndex(ps) ==
    [u \in {ps[n].user : n \in DOMAIN ps} |->
        CHOOSE n \in DOMAIN ps :
            ps[n].user = u /\ \A m \in DOMAIN ps : m > n => ps[m].user # u]

-----------------------------------------------------------------------------
(* apply, one action per kind of event *)

ChannelSelect(c) ==
    /\ shown' = c
    /\ participants' = <<>> /\ index' = Empty
    /\ UNCHANGED <<notifications, config, arrived, now>>
    /\ Commit

(* Fault: an update resets the speaking flag. *)
VoiceUpdate_Silences(u, i) ==
    /\ u \in DOMAIN index
    /\ participants' = [participants EXCEPT ![index[u]] =
                          [user |-> u, speaking |-> FALSE, info |-> i]]
    /\ UNCHANGED <<shown, index, notifications, config, arrived, now>>
    /\ Commit

(* VoiceCreate or VoiceUpdate of a user already listed, in place ... *)
VoiceUpdate(u, i) ==
    /\ u \in DOMAIN index
    /\ participants' = [participants EXCEPT ![index[u]].info = i]
    /\ UNCHANGED <<shown, index, notifications, config, arrived, now>>
    /\ Commit

(* ... or of a new one, at the end. *)
VoiceCreate(u, i) ==
    /\ u \notin DOMAIN index
    /\ participants' = Append(participants, [user |-> u, speaking |-> FALSE, info |-> i])
    /\ index' = [v \in DOMAIN index \cup {u} |->
                   IF v = u THEN Len(participants) + 1 ELSE index[v]]
    /\ UNCHANGED <<shown, notifications, config, arrived, now>>
    /\ Commit

(* Fault: the row is overwritten by the last one instead of closing up. *)
VoiceDelete_SwapsLast(u) ==
    /\ u \in DOMAIN index
    /\ participants' = [n \in 1..(Len(participants) - 1) |->
                          IF n = index[u] THEN participants[Len(participants)]
                                          ELSE participants[n]]
    /\ index' = RebuildIndex(participants')
    /\ UNCHANGED <<shown, notifications, config, arrived, now>>
    /\ Commit

(* Fault: the positions behind the erased row are not renewed. *)
VoiceDelete_StaleIndex(u) ==
    /\ u \in DOMAIN index
    /\ participants' = RemoveAt(participants, index[u])
    /\ index' = [v \in DOMAIN index \ {u} |-> index[v]]
    /\ UNCHANGED <<shown, notifications, config, arrived, now>>
    /\ Commit

VoiceDelete(u) ==
    /\ u \in DOMAIN index
    /\ participants' = RemoveAt(participants, index[u])
    /\ index' = RebuildIndex(participants')
    /\ UNCHANGED <<shown, notifications, config, arrived, now>>
    /\ Commit

(* SpeakingStart and SpeakingStop *)
Speaking(u, b) ==
    /\ u \in DOMAIN index
    /\ participants' = [participants EXCEPT ![index[u]].speaking = b]
    /\ UNCHANGED <<shown, index, notifications, config, arrived, now>>
    /\ Commit

(* Fault: the overflow is dropped at the front. *)
Capped_Newest(ns) ==
    IF Len(ns) > MaxNotifications THEN Tail(ns) ELSE ns

(* resize(kMaxNotifications): the oldest, at the end, are dropped. *)
Capped(ns) ==
    IF Len(ns) > MaxNotifications THEN SubSeq(ns, 1, MaxNotifications) ELSE ns

(* Notifications are not voice-scoped: they come in any channel or none. *)
Notify ==
    /\ arrived < MaxArrivals
    /\ arrived' = arrived + 1
    /\ notifications' = Capped(<<[id |-> arrived, created |-> now]>> \o notifications)
    /\ UNCHANGED <<shown, participants, index, config, now>>
    /\ Commit

(* set_config, from the settings window. *)
SetConfig(cfg) ==
    /\ config' = cfg
    /\ UNCHANGED <<shown, participants, index, notifications, arrived, now>>
    /\ Commit

(* The system clock: it passes, and may be set back. *)
ClockMoves(t) ==
    /\ t # now
    /\ now' = t
    /\ UNCHANGED <<snapVars, published, arrived>>

-----------------------------------------------------------------------------
Next ==
    \/ \E c \in ChannelIds : ChannelSelect(c)
    \/ \E u \in Users, i \in Infos : VoiceUpdate(u, i) \/ VoiceCreate(u, i)
    \/ \E u \in Users : VoiceDelete(u)
    \/ \E u \in Users, b \in BOOLEAN : Speaking(u, b)
    \/ Notify
    \/ \E cfg \in Configs : SetConfig(cfg)
    \/ \E t \in 0..MaxClock : ClockMoves(t)

Spec == Init /\ [][Next]_vars

-----------------------------------------------------------------------------
(* Properties *)

(* Every variable keeps its type, and the notifications their bound. *)
TypeOK ==
    /\ shown \in ChannelIds
    /\ participants \in Seq(Participant)
    /\ DOMAIN index \subseteq Users /\ index \in [DOMAIN index -> Nat]
    /\ notifications \in Seq(Notification) /\ Len(notifications) <= MaxNotifications
    /\ config \in Configs
    /\ arrived \in 0..MaxArrivals /\ now \in 0..MaxClock

(* The index and the vector name the same users at the same positions,      *)
(* whatever was erased in between: an index that is one off would show one  *)
(* person's speaking ring on another.                                       *)
IndexAgrees ==
    /\ DOMAIN index = {participants[n].user : n \in DOMAIN participants}
    /\ \A n \in DOMAIN participants : index[participants[n].user] = n

(* What is published of the notifications is exactly the most recent ones,  *)
(* newest first, however many have arrived and whatever else was committed  *)
(* in between (overlay_state.cpp, "newest-first", "drop oldest").           *)
KeepsTheNewest ==
    LET kept == published.notifications
    IN  /\ Len(kept) = Min({arrived, MaxNotifications})
        /\ \A n \in DOMAIN kept : kept[n].id = arrived - n

(* Rows never change places: of two users listed before and after a step,   *)
(* the one listed first stays first.                                        *)
OrderKept ==
    [][\A u, v \in DOMAIN index \cap DOMAIN index' :
          index[u] < index[v] => index'[u] < index'[v]]_vars

(* The vector and its index implement one entry per user: voice states keep *)
(* the speaking flag, speaking events touch nobody else, an unknown user is *)
(* ignored.                                                                 *)
Board == INSTANCE VoiceBoard WITH
    board <- [u \in DOMAIN index |-> [speaking |-> participants[index[u]].speaking,
                                      info     |-> participants[index[u]].info]]

ImplementsBoard == Board!Spec
=============================================================================
