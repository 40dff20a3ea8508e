----------------------------- MODULE VoiceBoard -----------------------------
(***************************************************************************)
(* What the overlay state promises of each participant (src/host/model/    *)
(* overlay_state.hpp): one entry per user, with the details of the last    *)
(* voice state and a speaking flag that only speaking events change.       *)
(* OverlayState implements it with a vector and an index into it.          *)
(***************************************************************************)
CONSTANTS Channels, Users, NoChannel, Infos

VARIABLES
    shown,    \* the channel on show, NoChannel when not in voice
    board     \* the listed users, each with [speaking, info]

(* The roster that RpcClient drives sees who is listed and nothing else. *)
Rst == INSTANCE Roster WITH roster <- DOMAIN board

Entry == [speaking : BOOLEAN, info : Infos]

Init == shown = NoChannel /\ board = [u \in {} |-> <<>>]

(* Another channel, or none: nobody is listed any more. *)
ChannelSelect(c) == shown' = c /\ board' = [u \in {} |-> <<>>]

(* A voice state: the details change, the speaking flag survives. *)
VoiceState(u, i) ==
    /\ UNCHANGED shown
    /\ board' = [v \in DOMAIN board \cup {u} |->
                   IF v # u THEN board[v]
                   ELSE [speaking |-> u \in DOMAIN board /\ board[u].speaking,
                         info |-> i]]

(* Somebody leaves. *)
VoiceDelete(u) ==
    /\ UNCHANGED shown
    /\ board' = [v \in DOMAIN board \ {u} |-> board[v]]

(* A listed user starts or stops speaking. *)
Speaking(u, b) ==
    /\ u \in DOMAIN board /\ UNCHANGED shown
    /\ board' = [board EXCEPT ![u].speaking = b]

Next ==
    \/ \E c \in Channels \cup {NoChannel} : ChannelSelect(c)
    \/ \E u \in Users, i \in Infos : VoiceState(u, i)
    \/ \E u \in Users : VoiceDelete(u)
    \/ \E u \in Users, b \in BOOLEAN : Speaking(u, b)

Spec == Init /\ [][Next]_<<shown, board>>
=============================================================================
