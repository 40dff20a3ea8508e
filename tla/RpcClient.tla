----------------------------- MODULE RpcClient -----------------------------
(***************************************************************************)
(* The host's connection to the Discord client: RpcClient's state machine  *)
(* (src/host/discord/rpc_client.cpp) over IpcTransport, wired to the       *)
(* overlay state as main.cpp does, against an external Discord.            *)
(*                                                                         *)
(* The host is one Qt thread.  Handlers are atomic except where they run a *)
(* nested event loop: the token exchange (mode "exchange") and an avatar   *)
(* fetch (mode "fetch").  There poll() is refused by in_poll_, but stop()  *)
(* and start() are not: the tray's reconnect calls one after the other.    *)
(* They are the class's own operations, and are two actions.               *)
(*                                                                         *)
(* poll() dispatches every complete message it has read before it returns; *)
(* here one message is dispatched per step straight from the socket.  The  *)
(* two agree: between two messages of one poll nothing else of the host    *)
(* runs, and closing the socket discards read and unread messages alike.   *)
(***************************************************************************)
EXTENDS Naturals, Sequences

CONSTANTS
    Channels,    \* voice channels
    Users,       \* other people who join and leave them
    NoChannel,   \* the empty channel id
    MaxCmds,     \* room in the socket towards Discord
    MaxMsgs      \* room in the socket towards the host

ASSUME RpcAssumption ==
    /\ NoChannel \notin Channels
    /\ MaxCmds \in Nat \ {0}    \* try_connect's HANDSHAKE always fits
    /\ MaxMsgs \in Nat

VARIABLES
    state,       \* RpcClient::state_
    subscribed,  \* RpcClient::subscribed_channel_
    stopped,     \* RpcClient::stopped_
    pending,     \* RpcClient::reconnect_pending_
    due,         \* reconnect_at_ms_ has passed
    mode,        \* boot, loop, seed (in a handler), exchange, fetch: see above
    seeds,       \* voice states of a GET_SELECTED reply still to be applied,
    seedOf,      \* and the channel they belong to (SelectedChannel)
    link,        \* the socket: none (fd_ < 0), up, hup (Discord has closed)
    toDiscord,   \* commands written and not yet handled
    toHost,      \* messages sent and not yet dispatched
    shown,       \* Snapshot::channel_name; NoChannel when not in_voice
    roster,      \* the user ids of Snapshot::participants
    discordUp,   \* a discord-ipc socket accepts connections
    authed,      \* this connection is authenticated
    topSub,      \* it has the top-level subscriptions
    subs,        \* the channels it has channel-scoped subscriptions for
    voice        \* the channel the user is in

clientVars  == <<state, subscribed>>
timerVars   == <<stopped, pending, due>>
nestVars    == <<mode, seeds, seedOf>>
wireVars    == <<link, toDiscord, toHost>>
overlayVars == <<shown, roster>>
sessionVars == <<authed, topSub, subs>>
worldVars   == <<discordUp, voice>>
vars == <<state, subscribed, stopped, pending, due, mode, seeds, seedOf, link,
          toDiscord, toHost, shown, roster, authed, topSub, subs, discordUp,
          voice>>

Overlay == INSTANCE Roster

-----------------------------------------------------------------------------
(* Messages *)

ChannelIds == Channels \cup {NoChannel}

Cmd(name, c) == [cmd |-> name, ch |-> c]
Handshake    == Cmd("HANDSHAKE", NoChannel)
Authorize    == Cmd("AUTHORIZE", NoChannel)
Authenticate == Cmd("AUTHENTICATE", NoChannel)
SubscribeTop == Cmd("SUBSCRIBE_TOP", NoChannel)
GetSelected  == Cmd("GET_SELECTED", NoChannel)
Pong         == Cmd("PONG", NoChannel)

(* One command stands for the five of kChannelEvents, sent back to back. *)
Subscribe(c)   == Cmd("SUBSCRIBE", c)
Unsubscribe(c) == Cmd("UNSUBSCRIBE", c)

Command == [cmd : {"HANDSHAKE", "AUTHORIZE", "AUTHENTICATE", "SUBSCRIBE_TOP",
                   "GET_SELECTED", "PONG", "SUBSCRIBE", "UNSUBSCRIBE"},
            ch : ChannelIds]

(* flag: a code is present, no ERROR, or the voice state is a create.      *)
Msg(kind, flag, c, us) == [type |-> kind, flag |-> flag, ch |-> c, users |-> us]
Message == [type : {"ready", "authorize", "authenticate", "selected", "select",
                    "voice", "notification", "ping"},
            flag : BOOLEAN, ch : ChannelIds, users : SUBSET Users]

Init ==
    /\ state = "Disconnected" /\ subscribed = NoChannel
    /\ stopped = FALSE /\ pending = FALSE /\ due = FALSE
    /\ mode = "boot" /\ seeds = {} /\ seedOf = NoChannel
    /\ link = "none" /\ toDiscord = <<>> /\ toHost = <<>>
    /\ shown = NoChannel /\ roster = {}
    /\ authed = FALSE /\ topSub = FALSE /\ subs = {}
    /\ discordUp \in BOOLEAN /\ voice \in ChannelIds

-----------------------------------------------------------------------------
(* IpcTransport and the reconnect timer *)

(* schedule_reconnect: nothing once stopped, else due after the delay. *)
ScheduleReconnect ==
    IF stopped THEN UNCHANGED <<pending, due>>
               ELSE pending' = TRUE /\ due' = FALSE

CloseSocket == link' = "none" /\ toDiscord' = <<>> /\ toHost' = <<>>

(* handle_closed and, through OnClosed, on_closed.  What it does to state_  *)
(* and subscribed_channel_ may be overwritten by the handler it interrupts. *)
HandleClosed ==
    /\ link # "none"
    /\ CloseSocket
    /\ ScheduleReconnect

OnClosed == state' = "Disconnected" /\ subscribed' = NoChannel

(* Every send of a handler succeeds ... *)
Sent(cmds, rest) ==
    /\ link = "up" /\ Len(toDiscord) + Len(cmds) <= MaxCmds
    /\ toDiscord' = toDiscord \o cmds
    /\ toHost' = rest
    /\ UNCHANGED <<link, pending, due>>

(* ... or one fails: the peer is gone, or has been wedged for 2 s. *)
SendFails == HandleClosed

(* Fault: the connection is given up without scheduling the next one. *)
GiveUp_NoRetry ==
    /\ CloseSocket
    /\ state' = "Disconnected"
    /\ UNCHANGED <<subscribed, pending, due>>

(* The handler gives the connection up: close, schedule, Disconnected.      *)
(* subscribed_channel_ is left alone: only try_connect clears it.           *)
GiveUp ==
    /\ CloseSocket
    /\ ScheduleReconnect
    /\ state' = "Disconnected"
    /\ UNCHANGED subscribed

(* try_connect *)
TryConnect ==
    /\ subscribed' = NoChannel
    /\ \/ /\ ~discordUp
          /\ pending' = TRUE /\ due' = FALSE
          /\ CloseSocket
          /\ UNCHANGED <<state, sessionVars, discordUp>>
       \/ /\ discordUp
          /\ state' = "Connecting"
          /\ link' = "up" /\ toDiscord' = <<Handshake>> /\ toHost' = <<>>
          /\ authed' = FALSE /\ topSub' = FALSE /\ subs' = {}
          /\ pending' = FALSE /\ due' = FALSE
          /\ UNCHANGED discordUp
       \/ /\ discordUp          \* it goes away between connect and HANDSHAKE
          /\ discordUp' = FALSE
          /\ state' = "Disconnected"
          /\ CloseSocket
          /\ pending' = TRUE /\ due' = FALSE
          /\ UNCHANGED sessionVars

-----------------------------------------------------------------------------
(* RpcClient's operations *)

(* main's rpc.start() at launch. *)
Launch ==
    /\ mode = "boot"
    /\ mode' = "loop"
    /\ TryConnect
    /\ UNCHANGED <<stopped, seeds, seedOf, overlayVars, voice>>

(* An event loop runs, the outer one or a nested one. *)
InEventLoop == mode \in {"loop", "exchange", "fetch"}

(* stop(): from the tray, so inside a nested event loop too. *)
Stop ==
    /\ InEventLoop /\ ~stopped
    /\ stopped' = TRUE
    /\ pending' = FALSE /\ due' = FALSE
    /\ CloseSocket
    /\ state' = "Disconnected" /\ subscribed' = NoChannel
    /\ UNCHANGED <<nestVars, overlayVars, sessionVars, worldVars>>

(* start(), the second half of the tray's reconnect. *)
Start ==
    /\ InEventLoop /\ stopped
    /\ stopped' = FALSE
    /\ TryConnect
    /\ UNCHANGED <<nestVars, overlayVars, voice>>

(* Fault: no re-entrancy guard. *)
CanPoll_Reentrant == mode \in {"loop", "exchange", "fetch"}

(* poll() proceeds: in_poll_ is clear. *)
CanPoll == mode = "loop"

DelayElapses ==
    /\ pending /\ ~due
    /\ due' = TRUE
    /\ UNCHANGED <<clientVars, stopped, pending, nestVars, wireVars, overlayVars,
                   sessionVars, worldVars>>

(* Fault: the delay starts again instead of ending. *)
PollReconnect_Reschedules ==
    /\ CanPoll
    /\ pending /\ ~stopped /\ due
    /\ ScheduleReconnect
    /\ UNCHANGED <<clientVars, stopped, nestVars, wireVars, overlayVars, sessionVars,
                   worldVars>>

(* poll() with a reconnect due.  Reading the fresh socket is the next poll. *)
PollReconnect ==
    /\ CanPoll
    /\ pending /\ ~stopped /\ due
    /\ TryConnect
    /\ UNCHANGED <<stopped, nestVars, overlayVars, voice>>

(* poll() reads EOF.  What arrived before it has been dispatched by an      *)
(* earlier poll, unless the read that got it filled its buffer exactly.     *)
PollEof ==
    /\ CanPoll
    /\ link = "hup"
    /\ HandleClosed /\ OnClosed
    /\ UNCHANGED <<stopped, nestVars, overlayVars, sessionVars, worldVars>>

Arrived(kind) == CanPoll /\ toHost # <<>> /\ Head(toHost).type = kind

Consumed == toHost' = Tail(toHost) /\ UNCHANGED <<pending, due, link, toDiscord>>

(* The message is dropped: not meaningful in this state. *)
Ignored == Consumed /\ UNCHANGED clientVars

OnPing ==
    /\ Arrived("ping")
    /\ \/ Sent(<<Pong>>, Tail(toHost)) /\ UNCHANGED clientVars
       \/ SendFails /\ OnClosed
    /\ UNCHANGED <<stopped, nestVars, overlayVars, sessionVars, worldVars>>

OnReady ==
    /\ Arrived("ready")
    /\ \/ Sent(<<Authorize>>, Tail(toHost)) /\ state' = "Authorizing" /\ UNCHANGED subscribed
       \/ SendFails /\ OnClosed
    /\ UNCHANGED <<stopped, nestVars, overlayVars, sessionVars, worldVars>>

(* Fault: a reply without a code is dropped and the connection kept. *)
OnAuthorizeReply_Waits ==
    /\ Arrived("authorize")
    /\ Ignored
    /\ mode' = IF state = "Authorizing" /\ Head(toHost).flag THEN "exchange" ELSE mode
    /\ UNCHANGED <<stopped, seeds, seedOf, overlayVars, sessionVars, worldVars>>

(* handle_authorize_response up to the token exchange's event loop. *)
OnAuthorizeReply ==
    /\ Arrived("authorize")
    /\ \/ /\ state # "Authorizing"
          /\ Ignored
          /\ UNCHANGED mode
       \/ /\ state = "Authorizing" /\ ~Head(toHost).flag
          /\ GiveUp
          /\ UNCHANGED mode
       \/ /\ state = "Authorizing" /\ Head(toHost).flag
          /\ Ignored
          /\ mode' = "exchange"
    /\ UNCHANGED <<stopped, seeds, seedOf, overlayVars, sessionVars, worldVars>>

(* exchange_code has returned.  Nothing is checked again: the connection it *)
(* belongs to may be gone or replaced.  A send without a socket does        *)
(* nothing.                                                                 *)
ExchangeDone(ok) ==
    /\ mode = "exchange"
    /\ mode' = "loop"
    /\ \/ ~ok /\ GiveUp
       \/ ok /\ Sent(<<Authenticate>>, toHost) /\ UNCHANGED clientVars
       \/ ok /\ SendFails /\ OnClosed
       \/ ok /\ link = "none" /\ UNCHANGED <<clientVars, pending, due, wireVars>>
    /\ UNCHANGED <<stopped, seeds, seedOf, overlayVars, sessionVars, worldVars>>

(* Fault: the query overtakes the subscription. *)
TopLevelCmds_QueryFirst == <<GetSelected, SubscribeTop>>

(* What a successful authentication sends, in order. *)
TopLevelCmds == <<SubscribeTop, GetSelected>>

(* Fault: an ERROR reply counts as success. *)
OnAuthenticateReply_NoError ==
    /\ Arrived("authenticate")
    /\ \/ state # "Authorizing" /\ Ignored
       \/ /\ state = "Authorizing"
          /\ \/ Sent(TopLevelCmds, Tail(toHost)) /\ state' = "Ready" /\ UNCHANGED subscribed
             \/ SendFails /\ OnClosed
    /\ UNCHANGED <<stopped, nestVars, overlayVars, sessionVars, worldVars>>

OnAuthenticateReply ==
    /\ Arrived("authenticate")
    /\ \/ state # "Authorizing" /\ Ignored
       \/ state = "Authorizing" /\ ~Head(toHost).flag /\ GiveUp
       \/ /\ state = "Authorizing" /\ Head(toHost).flag
          /\ \/ Sent(TopLevelCmds, Tail(toHost)) /\ state' = "Ready" /\ UNCHANGED subscribed
             \/ SendFails /\ OnClosed
    /\ UNCHANGED <<stopped, nestVars, overlayVars, sessionVars, worldVars>>

(* Fault: the previous channel is not unsubscribed. *)
ChannelCmds_NoUnsubscribe(c) ==
    IF c \notin {subscribed, NoChannel} THEN <<Subscribe(c)>> ELSE <<>>

(* What moving to channel c sends: nothing if it is subscribed already. *)
ChannelCmds(c) ==
    LET leave == IF subscribed # NoChannel THEN <<Unsubscribe(subscribed)>> ELSE <<>>
        enter == IF c # NoChannel THEN <<Subscribe(c)>> ELSE <<>>
    IN IF c = subscribed THEN <<>> ELSE leave \o enter

(* handle_channel_select.  A failed send has already run on_closed, but the *)
(* handler goes on to set subscribed_channel_ and state_.                   *)
HandleChannelSelect(c) ==
    /\ \/ ChannelCmds(c) = <<>> /\ Consumed
       \/ ChannelCmds(c) # <<>> /\ Sent(ChannelCmds(c), Tail(toHost))
       \/ ChannelCmds(c) # <<>> /\ SendFails
    /\ subscribed' = c
    /\ state' = IF c = NoChannel THEN "Ready" ELSE "InChannel"

(* A VOICE_CHANNEL_SELECT event: on_event_, then handle_channel_select. *)
OnChannelSelect ==
    /\ Arrived("select")
    /\ Overlay!ChannelSelect(Head(toHost).ch)
    /\ HandleChannelSelect(Head(toHost).ch)
    /\ UNCHANGED <<stopped, nestVars, sessionVars, worldVars>>

(* handle_selected_voice_channel up to the first voice state it applies. *)
OnSelectedReply ==
    /\ Arrived("selected")
    /\ LET sel == Head(toHost) IN
       \/ /\ state \notin {"Ready", "InChannel"} \/ sel.ch \in {NoChannel, subscribed}
          /\ Ignored
          /\ UNCHANGED <<nestVars, overlayVars>>
       \/ /\ state \in {"Ready", "InChannel"} /\ sel.ch \notin {NoChannel, subscribed}
          /\ Overlay!ChannelSelect(sel.ch)
          /\ HandleChannelSelect(sel.ch)
          /\ mode' = "seed"
          /\ seeds' = sel.users /\ seedOf' = sel.ch
    /\ UNCHANGED <<stopped, sessionVars, worldVars>>

(* A voice state or notification event; its avatars may have to be fetched. *)
OnVoiceEvent ==
    /\ Arrived("voice")
    /\ \E u \in Head(toHost).users :
          IF Head(toHost).flag THEN Overlay!VoiceUpsert(u) ELSE Overlay!VoiceDelete(u)
    /\ mode' \in (IF Head(toHost).flag THEN {"loop", "fetch"} ELSE {"loop"})
    /\ Ignored
    /\ UNCHANGED <<stopped, seeds, seedOf, sessionVars, worldVars>>

OnNotification ==
    /\ Arrived("notification")
    /\ mode' \in {"loop", "fetch"}
    /\ Ignored
    /\ UNCHANGED <<stopped, seeds, seedOf, overlayVars, sessionVars, worldVars>>

(* The handler's loop over the voice states of the reply: apply one, fetch  *)
(* its avatar if it has to be; after the last one the handler returns.      *)
SeedNext ==
    /\ mode = "seed"
    /\ \/ \E u \in seeds :
             /\ Overlay!VoiceUpsert(u)
             /\ seeds' = seeds \ {u}
             /\ mode' \in {"seed", "fetch"}
             /\ UNCHANGED seedOf
       \/ /\ seeds = {}
          /\ mode' = "loop" /\ seedOf' = NoChannel
          /\ UNCHANGED <<seeds, overlayVars>>
    /\ UNCHANGED <<clientVars, timerVars, wireVars, sessionVars, worldVars>>

(* The fetch's event loop ends, back into the handler that asked for it. *)
FetchDone ==
    /\ mode = "fetch"
    /\ mode' = "seed"
    /\ UNCHANGED <<clientVars, timerVars, seeds, seedOf, wireVars, overlayVars,
                   sessionVars, worldVars>>

-----------------------------------------------------------------------------
(* Discord, external: answers commands in order, dispatches what the        *)
(* connection subscribed to, and may close the connection or go away.       *)

Dispatched(msgs) ==
    /\ Len(toHost) + Len(msgs) <= MaxMsgs
    /\ toHost' = toHost \o msgs

Reply(msgs) ==
    /\ Dispatched(msgs)
    /\ toDiscord' = Tail(toDiscord)
    /\ UNCHANGED link

DiscordHandles ==
    /\ link = "up" /\ toDiscord # <<>>
    /\ LET c == Head(toDiscord) IN
       \/ /\ c.cmd = "HANDSHAKE"
          /\ Reply(<<Msg("ready", TRUE, NoChannel, {})>>)
          /\ UNCHANGED sessionVars
       \/ /\ c.cmd = "AUTHORIZE"
          /\ \E code \in BOOLEAN : Reply(<<Msg("authorize", code, NoChannel, {})>>)
          /\ UNCHANGED sessionVars
       \/ /\ c.cmd = "AUTHENTICATE"
          /\ \E ok \in BOOLEAN :
                /\ Reply(<<Msg("authenticate", ok, NoChannel, {})>>)
                /\ authed' = (authed \/ ok)
          /\ UNCHANGED <<topSub, subs>>
       \/ /\ c.cmd = "SUBSCRIBE_TOP"
          /\ Reply(<<>>)
          /\ topSub' = TRUE
          /\ UNCHANGED <<authed, subs>>
       \/ /\ c.cmd = "GET_SELECTED"
          /\ \E us \in IF voice = NoChannel THEN {{}} ELSE SUBSET Users :
                Reply(<<Msg("selected", TRUE, voice, us)>>)
          /\ UNCHANGED sessionVars
       \/ /\ c.cmd \in {"SUBSCRIBE", "UNSUBSCRIBE"}
          /\ Reply(<<>>)
          /\ subs' = IF c.cmd = "SUBSCRIBE" THEN subs \cup {c.ch} ELSE subs \ {c.ch}
          /\ UNCHANGED <<authed, topSub>>
       \/ /\ c.cmd = "PONG"
          /\ Reply(<<>>)
          /\ UNCHANGED sessionVars
    /\ UNCHANGED <<clientVars, timerVars, nestVars, overlayVars, worldVars>>

(* The user joins, switches or leaves. *)
UserMoves(c) ==
    /\ c # voice
    /\ voice' = c
    /\ Dispatched(IF link = "up" /\ topSub THEN <<Msg("select", TRUE, c, {})>> ELSE <<>>)
    /\ UNCHANGED <<clientVars, timerVars, nestVars, link, toDiscord, overlayVars,
                   sessionVars, discordUp>>

(* Somebody else joins or leaves a subscribed channel, or changes there. *)
MemberMoves(u, joins) ==
    /\ link = "up" /\ subs # {}
    /\ Dispatched(<<Msg("voice", joins, NoChannel, {u})>>)
    /\ UNCHANGED <<clientVars, timerVars, nestVars, link, toDiscord, overlayVars,
                   sessionVars, worldVars>>

(* A PING of the transport, or a NOTIFICATION_CREATE event. *)
DiscordSends(kind) ==
    /\ link = "up" /\ (kind = "notification" => topSub)
    /\ Dispatched(<<Msg(kind, TRUE, NoChannel, {})>>)
    /\ UNCHANGED <<clientVars, timerVars, nestVars, link, toDiscord, overlayVars,
                   sessionVars, worldVars>>

(* Discord closes this connection, or stops and closes it. *)
DiscordCloses ==
    /\ link = "up" \/ discordUp
    /\ link' = IF link = "up" THEN "hup" ELSE link
    /\ toDiscord' = <<>>
    /\ discordUp' \in {discordUp, FALSE}
    /\ UNCHANGED <<clientVars, timerVars, nestVars, toHost, overlayVars, sessionVars,
                   voice>>

DiscordStarts ==
    /\ ~discordUp
    /\ discordUp' = TRUE
    /\ UNCHANGED <<clientVars, timerVars, nestVars, wireVars, overlayVars, sessionVars,
                   voice>>

-----------------------------------------------------------------------------
HostStep ==
    \/ Launch \/ PollReconnect \/ PollEof
    \/ OnPing \/ OnReady \/ OnAuthorizeReply \/ OnAuthenticateReply
    \/ OnChannelSelect \/ OnSelectedReply \/ OnVoiceEvent \/ OnNotification
    \/ SeedNext \/ FetchDone \/ \E ok \in BOOLEAN : ExchangeDone(ok)

Next ==
    \/ HostStep \/ DelayElapses \/ Stop \/ Start
    \/ DiscordHandles \/ DiscordCloses \/ DiscordStarts
    \/ \E c \in ChannelIds : UserMoves(c)
    \/ \E u \in Users, joins \in BOOLEAN : MemberMoves(u, joins)
    \/ \E kind \in {"ping", "notification"} : DiscordSends(kind)

Spec == Init /\ [][Next]_vars

(* The 40 ms timer keeps polling, nested loops end within their timeout,    *)
(* time passes, and a Discord that is up answers.                           *)
Fairness == WF_vars(HostStep) /\ WF_vars(DelayElapses) /\ WF_vars(DiscordHandles)

FairSpec == Spec /\ Fairness

-----------------------------------------------------------------------------
(* Properties *)

(* Every variable keeps its type. *)
TypeOK ==
    /\ state \in {"Disconnected", "Connecting", "Authorizing", "Ready", "InChannel"}
    /\ subscribed \in ChannelIds
    /\ stopped \in BOOLEAN /\ pending \in BOOLEAN /\ due \in BOOLEAN
    /\ mode \in {"boot", "loop", "seed", "exchange", "fetch"}
    /\ seeds \in SUBSET Users /\ seedOf \in ChannelIds
    /\ link \in {"none", "up", "hup"}
    /\ toDiscord \in Seq(Command) /\ toHost \in Seq(Message)
    /\ shown \in ChannelIds /\ roster \in SUBSET Users
    /\ authed \in BOOLEAN /\ topSub \in BOOLEAN /\ subs \in SUBSET Channels
    /\ discordUp \in BOOLEAN /\ voice \in ChannelIds

(* A client without a connection has a reconnect scheduled, whichever step  *)
(* of whichever nested handler lost the connection, unless it was stopped:  *)
(* stop() is "graceful disconnect, no reconnect", and a handler that was    *)
(* inside a nested event loop when it was called neither reconnects nor     *)
(* reschedules (rpc_client.cpp:67-73, 107-114, 278-289).                    *)
NeverStranded ==
    /\ mode # "boot" /\ link = "none" /\ ~stopped => pending
    /\ stopped => link = "none" /\ ~pending

(* A client that calls itself Ready or InChannel on a live socket has been  *)
(* authenticated on that very connection.                                   *)
ReadyMeansAuthenticated ==
    state \in {"Ready", "InChannel"} /\ link = "up" => authed

(* The channel subscriptions Discord will have once it has handled what was *)
(* sent are exactly subscribed_channel_'s: none leaks on a channel switch.  *)
SubsAfter[n \in 0..MaxCmds] ==
    IF n = 0 THEN subs
    ELSE LET c == toDiscord[n] IN
         IF c.cmd = "SUBSCRIBE" THEN SubsAfter[n - 1] \cup {c.ch}
         ELSE IF c.cmd = "UNSUBSCRIBE" THEN SubsAfter[n - 1] \ {c.ch}
         ELSE SubsAfter[n - 1]

SubscriptionsAgree ==
    link = "up" => SubsAfter[Len(toDiscord)] = {subscribed} \ {NoChannel}

(* Once everything sent has been handled, the client follows the channel    *)
(* the user is in, and the overlay shows that channel.                      *)
Settled ==
    /\ mode = "loop" /\ link = "up" /\ toHost = <<>> /\ toDiscord = <<>>
    /\ state \in {"Ready", "InChannel"}

FollowsTheUser ==
    Settled => /\ subscribed = voice
               /\ state = "InChannel" <=> voice # NoChannel
               /\ voice # NoChannel => shown = voice

(* The participants a GET_SELECTED_VOICE_CHANNEL reply seeds are listed     *)
(* under that reply's channel, however many event loops run in between.     *)
SeedsGoToTheirChannel == seeds # {} => shown = seedOf

(* A lost connection is retried until Discord accepts it. *)
Reconnects ==
    (link = "none" /\ ~stopped /\ discordUp) ~> (link # "none" \/ stopped \/ ~discordUp)

(* A connection never stalls half-way through the handshake: it becomes     *)
(* Ready, or is given up.                                                   *)
SessionAdvances ==
    (link = "up" /\ state \in {"Connecting", "Authorizing"})
        ~> (link # "up" \/ state \in {"Ready", "InChannel"})
=============================================================================
