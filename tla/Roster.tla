------------------------------ MODULE Roster ------------------------------
(***************************************************************************)
(* What the overlay state promises of voice events (src/host/model/        *)
(* overlay_state.hpp): the channel on show and who is listed in it, without*)
(* the order, flags, index and revision that OverlayState keeps.           *)
(***************************************************************************)
CONSTANTS Channels, Users, NoChannel

VARIABLES
    shown,    \* Snapshot::channel_name; NoChannel when not in_voice
    roster    \* the user ids of Snapshot::participants

Init == shown = NoChannel /\ roster = {}

(* Entering, switching or leaving a channel empties the list. *)
ChannelSelect(c) == shown' = c /\ roster' = {}

(* VoiceCreate and VoiceUpdate insert; VoiceDelete removes. *)
VoiceUpsert(u) == roster' = roster \cup {u} /\ UNCHANGED shown
VoiceDelete(u) == roster' = roster \ {u} /\ UNCHANGED shown

Next ==
    \/ \E c \in Channels \cup {NoChannel} : ChannelSelect(c)
    \/ \E u \in Users : VoiceUpsert(u) \/ VoiceDelete(u)

Spec == Init /\ [][Next]_<<shown, roster>>
=============================================================================
