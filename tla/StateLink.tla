------------------------------ MODULE StateLink ------------------------------
(***************************************************************************)
(* How a snapshot gets from the host into the games: StateServer           *)
(* (src/host/server/state_server.cpp, on the host's Qt thread) and one     *)
(* StateClient thread per game (src/overlay/state_client.cpp), over a      *)
(* stream socket.  Hosts and games come, go and die at any time.           *)
(*                                                                         *)
(* A snapshot is known by the life of the host that made it and its number *)
(* in that life.  Frames arrive whole and in order; what was written       *)
(* before one side closed can still be read by the other.                  *)
(***************************************************************************)
EXTENDS Naturals, SequencesExt

CONSTANTS
    Games,       \* processes the overlay is loaded into
    Avatars,     \* avatar hashes
    None,        \* no snapshot (a null latest_)
    BackoffStart, BackoffMax,   \* kBackoffStartMs, kBackoffMaxMs
    MaxLives,    \* bound on the times the host is started
    MaxRev,      \* bound on the snapshots of one life
    MaxQueue     \* bound on what is written and not yet read

ASSUME LinkAssumption ==
    /\ BackoffStart \in Nat \ {0} /\ BackoffMax \in Nat /\ BackoffStart <= BackoffMax
    /\ MaxLives \in Nat /\ MaxRev \in Nat /\ MaxQueue \in Nat

VARIABLES
    life,        \* how often the host has been started
    hostUp,      \* the server listens
    current,     \* StateServer::current_, by number
    announced,   \* StateServer::avatars_
    denied,      \* the games the denylist matches
    class,       \* each game's entry in clients_: none, pending (not yet
                 \* accepted), new, active, inert
    ghosts,      \* games with an entry whose peer has gone
    link,        \* a game's socket: none, up, hup (the host has closed)
    toHost,      \* frames written by the client and not yet handled
    toGame,      \* frames written by the server and not yet handled
    pc,          \* the client thread: off, connect, backoff, hello, serve,
                 \* pause (before reconnecting), joined
    backoff,     \* run()'s backoff
    stop,        \* StateClient::stop_
    latest,      \* StateClient::latest_
    disabled,    \* StateClient::disabled_
    retained     \* StateClient::avatars_

hostVars   == <<life, hostUp, current, announced, denied>>
serverVars == <<class, ghosts>>
wireVars   == <<link, toHost, toGame>>
threadVars == <<pc, backoff, stop>>
gameVars   == <<latest, disabled, retained>>
vars == <<life, hostUp, current, announced, denied, class, ghosts, link, toHost,
          toGame, pc, backoff, stop, latest, disabled, retained>>

-----------------------------------------------------------------------------
SnapshotFrame(l, r) == [type |-> "Snapshot", life |-> l, rev |-> r]
AvatarReady(h)      == [type |-> "AvatarReady", hash |-> h]
Disabled            == [type |-> "Disabled"]

Snapshots == [life : 1..MaxLives, rev : 0..MaxRev]
Frame ==
    [type : {"Snapshot"}, life : 1..MaxLives, rev : 0..MaxRev]
        \cup [type : {"AvatarReady"}, hash : Avatars] \cup {Disabled}

Init ==
    /\ life = 0 /\ hostUp = FALSE /\ current = 0 /\ announced = {}
    /\ denied \in SUBSET Games
    /\ class = [g \in Games |-> "none"] /\ ghosts = {}
    /\ link = [g \in Games |-> "none"]
    /\ toHost = [g \in Games |-> <<>>] /\ toGame = [g \in Games |-> <<>>]
    /\ pc = [g \in Games |-> "off"]
    /\ backoff = [g \in Games |-> BackoffStart]
    /\ stop = [g \in Games |-> FALSE]
    /\ latest = [g \in Games |-> None]
    /\ disabled = [g \in Games |-> FALSE]
    /\ retained = [g \in Games |-> {}]

-----------------------------------------------------------------------------
(* The host *)

(* listen, set_snapshot: a fresh server with the initial snapshot. *)
HostStarts ==
    /\ ~hostUp /\ life < MaxLives
    /\ hostUp' = TRUE /\ life' = life + 1
    /\ current' = 0 /\ announced' = {}
    /\ UNCHANGED <<denied, serverVars, wireVars, threadVars, gameVars>>

(* The host quits, is killed or crashes: every socket is closed. *)
HostDies ==
    /\ hostUp
    /\ hostUp' = FALSE
    /\ class' = [g \in Games |-> "none"] /\ ghosts' = {}
    /\ link' = [g \in Games |-> IF link[g] = "up" THEN "hup" ELSE link[g]]
    /\ toHost' = [g \in Games |-> <<>>]
    /\ UNCHANGED <<life, current, announced, denied, toGame, threadVars, gameVars>>

(* config_changed: new connections are judged by the new denylist. *)
DenylistChanges(g) ==
    /\ hostUp
    /\ denied' = IF g \in denied THEN denied \ {g} ELSE denied \cup {g}
    /\ UNCHANGED <<life, hostUp, current, announced, serverVars, wireVars,
                   threadVars, gameVars>>

(* on_new_connection *)
OnNewConnection(g) ==
    /\ class[g] = "pending"
    /\ class' = [class EXCEPT ![g] = "new"]
    /\ UNCHANGED <<hostVars, ghosts, wireVars, threadVars, gameVars>>

(* on_disconnected of a peer that has gone. *)
OnDisconnected(g) ==
    /\ g \in ghosts
    /\ ghosts' = ghosts \ {g}
    /\ UNCHANGED <<hostVars, class, wireVars, threadVars, gameVars>>

(* Fault: a client that joins late gets no avatars. *)
Seed_SnapshotOnly == <<SnapshotFrame(life, current)>>

(* seed_client: the current snapshot, then every avatar announced so far. *)
Seed ==
    <<SnapshotFrame(life, current)>> \o SetToSeq({AvatarReady(h) : h \in announced})

(* Fault: a denied client is turned away, and not told. *)
HandleHello_Silent(g) ==
    /\ class[g] = "new" /\ toHost[g] # <<>>
    /\ toHost' = [toHost EXCEPT ![g] = Tail(@)]
    /\ class' = [class EXCEPT ![g] = IF g \in denied THEN "inert" ELSE "active"]
    /\ toGame' = [toGame EXCEPT ![g] = IF g \in denied THEN @ ELSE @ \o Seed]
    /\ UNCHANGED <<hostVars, ghosts, link, threadVars, gameVars>>

(* on_ready_read, drain_frames, handle_hello: classify the client once. *)
HandleHello(g) ==
    /\ class[g] = "new" /\ toHost[g] # <<>>
    /\ toHost' = [toHost EXCEPT ![g] = Tail(@)]
    /\ \/ /\ g \in denied
          /\ class' = [class EXCEPT ![g] = "inert"]
          /\ toGame' = [toGame EXCEPT ![g] = Append(@, Disabled)]
       \/ /\ g \notin denied
          /\ class' = [class EXCEPT ![g] = "active"]
          /\ toGame' = [toGame EXCEPT ![g] = @ \o Seed]
    /\ UNCHANGED <<hostVars, ghosts, link, threadVars, gameVars>>

(* The clients a broadcast goes to: classified and not denied. *)
Recipients == {g \in Games : class[g] = "active"}

SendAll(frame) ==
    /\ \A g \in Recipients : Len(toGame[g]) < MaxQueue
    /\ toGame' = [g \in Games |-> IF g \in Recipients THEN Append(toGame[g], frame)
                                                      ELSE toGame[g]]

(* set_snapshot and broadcast.  A peer found gone while the frame is        *)
(* flushed is erased from clients_ in the middle of the loop over it: then  *)
(* the host may also die (HostDies).                                        *)
Broadcast ==
    /\ hostUp /\ current < MaxRev
    /\ current' = current + 1
    /\ SendAll(SnapshotFrame(life, current + 1))
    /\ ghosts' \in {ghosts, {}}
    /\ UNCHANGED <<life, hostUp, announced, denied, class, link, toHost,
                   threadVars, gameVars>>

(* broadcast_avatar, also when the avatar has been announced before. *)
BroadcastAvatar(h) ==
    /\ hostUp
    /\ announced' = announced \cup {h}
    /\ SendAll(AvatarReady(h))
    /\ ghosts' \in {ghosts, {}}
    /\ UNCHANGED <<life, hostUp, current, denied, class, link, toHost, threadVars,
                   gameVars>>

-----------------------------------------------------------------------------
(* The client thread of game g *)

(* A process starts and constructs its StateClient. *)
GameStarts(g) ==
    /\ pc[g] = "off"
    /\ pc' = [pc EXCEPT ![g] = "connect"]
    /\ backoff' = [backoff EXCEPT ![g] = BackoffStart]
    /\ stop' = [stop EXCEPT ![g] = FALSE]
    /\ latest' = [latest EXCEPT ![g] = None]
    /\ disabled' = [disabled EXCEPT ![g] = FALSE]
    /\ retained' = [retained EXCEPT ![g] = {}]
    /\ UNCHANGED <<hostVars, serverVars, wireVars>>

(* connect_once succeeds. *)
Connect(g) ==
    /\ pc[g] = "connect" /\ ~stop[g]
    /\ hostUp
    /\ link' = [link EXCEPT ![g] = "up"]
    /\ class' = [class EXCEPT ![g] = "pending"]
    /\ backoff' = [backoff EXCEPT ![g] = BackoffStart]
    /\ pc' = [pc EXCEPT ![g] = "hello"]
    /\ UNCHANGED <<hostVars, ghosts, toHost, toGame, stop, gameVars>>

(* It fails: nobody listens. *)
ConnectFails(g) ==
    /\ pc[g] = "connect" /\ ~stop[g]
    /\ ~hostUp
    /\ pc' = [pc EXCEPT ![g] = "backoff"]
    /\ UNCHANGED <<hostVars, serverVars, wireVars, backoff, stop, gameVars>>

(* Fault: the delay doubles without limit. *)
NextBackoff_Uncapped(b) == b * 2

NextBackoff(b) == LET d == IF b < BackoffMax THEN b * 2 ELSE BackoffMax
                  IN  IF d > BackoffMax THEN BackoffMax ELSE d

(* backoff_sleep ends without a shutdown. *)
BackoffElapses(g) ==
    /\ pc[g] = "backoff" /\ ~stop[g]
    /\ backoff' = [backoff EXCEPT ![g] = NextBackoff(@)]
    /\ pc' = [pc EXCEPT ![g] = "connect"]
    /\ UNCHANGED <<hostVars, serverVars, wireVars, stop, gameVars>>

(* The client closes its end: the server's entry has lost its peer. *)
CloseLink(g) ==
    /\ link' = [link EXCEPT ![g] = "none"]
    /\ toHost' = [toHost EXCEPT ![g] = <<>>] /\ toGame' = [toGame EXCEPT ![g] = <<>>]
    /\ ghosts' = IF class[g] # "none" THEN ghosts \cup {g} ELSE ghosts
    /\ class' = [class EXCEPT ![g] = "none"]

(* serve's first write.  With the host already gone it fails: close, pause. *)
SendHello(g) ==
    /\ pc[g] = "hello"
    /\ \/ /\ link[g] = "up"
          /\ toHost' = [toHost EXCEPT ![g] = Append(@, "Hello")]
          /\ pc' = [pc EXCEPT ![g] = "serve"]
          /\ UNCHANGED <<link, toGame, serverVars>>
       \/ /\ link[g] = "hup"
          /\ CloseLink(g)
          /\ pc' = [pc EXCEPT ![g] = "pause"]
    /\ UNCHANGED <<hostVars, backoff, stop, gameVars>>

(* serve handles one frame, in the order of the stream. *)
Receive(g) ==
    /\ pc[g] = "serve" /\ toGame[g] # <<>>
    /\ LET f == Head(toGame[g]) IN
       \/ /\ f.type = "Snapshot"
          /\ latest' = [latest EXCEPT ![g] = [life |-> f.life, rev |-> f.rev]]
          /\ UNCHANGED <<disabled, retained>>
       \/ /\ f.type = "AvatarReady"
          /\ retained' = [retained EXCEPT ![g] = @ \cup {f.hash}]
          /\ UNCHANGED <<latest, disabled>>
       \/ /\ f.type = "Disabled"
          /\ disabled' = [disabled EXCEPT ![g] = TRUE]
          /\ UNCHANGED <<latest, retained>>
    /\ toGame' = [toGame EXCEPT ![g] = Tail(@)]
    /\ UNCHANGED <<hostVars, serverVars, link, toHost, threadVars>>

(* Fault: end of file ends the thread. *)
ReadEof_GivesUp(g) ==
    /\ pc[g] = "serve" /\ toGame[g] = <<>> /\ link[g] = "hup"
    /\ CloseLink(g)
    /\ pc' = [pc EXCEPT ![g] = "joined"]
    /\ UNCHANGED <<hostVars, backoff, stop, gameVars>>

(* feed reads end of file: serve returns and run pauses. *)
ReadEof(g) ==
    /\ pc[g] = "serve" /\ toGame[g] = <<>> /\ link[g] = "hup"
    /\ CloseLink(g)
    /\ pc' = [pc EXCEPT ![g] = "pause"]
    /\ UNCHANGED <<hostVars, backoff, stop, gameVars>>

PauseElapses(g) ==
    /\ pc[g] = "pause" /\ ~stop[g]
    /\ pc' = [pc EXCEPT ![g] = "connect"]
    /\ UNCHANGED <<hostVars, serverVars, wireVars, backoff, stop, gameVars>>

(* The process exits normally: ~StateClient sets stop_ and wakes the        *)
(* thread ...                                                               *)
Destroy(g) ==
    /\ pc[g] \notin {"off", "joined"} /\ ~stop[g]
    /\ stop' = [stop EXCEPT ![g] = TRUE]
    /\ UNCHANGED <<hostVars, serverVars, wireVars, pc, backoff, gameVars>>

(* Fault: a sleeping thread is not woken. *)
ThreadExits_AwakeOnly(g) ==
    /\ stop[g] /\ pc[g] \in {"connect", "serve"}
    /\ CloseLink(g)
    /\ pc' = [pc EXCEPT ![g] = "joined"]
    /\ UNCHANGED <<hostVars, backoff, stop, gameVars>>

(* ... which leaves run() from wherever it looks at stop_ or the wake pipe. *)
ThreadExits(g) ==
    /\ stop[g] /\ pc[g] \in {"connect", "backoff", "serve", "pause"}
    /\ CloseLink(g)
    /\ pc' = [pc EXCEPT ![g] = "joined"]
    /\ UNCHANGED <<hostVars, backoff, stop, gameVars>>

(* The process is gone: after the join, or killed at any point. *)
ProcessEnds(g) ==
    /\ pc[g] # "off"
    /\ CloseLink(g)
    /\ pc' = [pc EXCEPT ![g] = "off"]
    /\ UNCHANGED <<hostVars, backoff, stop, gameVars>>

-----------------------------------------------------------------------------
ServerStep(g) == OnNewConnection(g) \/ HandleHello(g) \/ OnDisconnected(g)

ThreadStep(g) ==
    \/ Connect(g) \/ ConnectFails(g) \/ BackoffElapses(g) \/ SendHello(g)
    \/ Receive(g) \/ ReadEof(g) \/ PauseElapses(g) \/ ThreadExits(g)

Next ==
    \/ HostStarts \/ HostDies \/ Broadcast
    \/ \E h \in Avatars : BroadcastAvatar(h)
    \/ \E g \in Games :
          \/ DenylistChanges(g) \/ ServerStep(g) \/ ThreadStep(g)
          \/ GameStarts(g) \/ Destroy(g) \/ ProcessEnds(g)

Spec == Init /\ [][Next]_vars

-----------------------------------------------------------------------------
(* Properties *)

(* Every variable keeps its type; the delay between two attempts to connect *)
(* stays between kBackoffStartMs and kBackoffMaxMs.                         *)
TypeOK ==
    /\ life \in 0..MaxLives /\ hostUp \in BOOLEAN /\ current \in 0..MaxRev
    /\ announced \subseteq Avatars /\ denied \subseteq Games /\ ghosts \subseteq Games
    /\ class \in [Games -> {"none", "pending", "new", "active", "inert"}]
    /\ link \in [Games -> {"none", "up", "hup"}]
    /\ toHost \in [Games -> Seq({"Hello"})] /\ toGame \in [Games -> Seq(Frame)]
    /\ pc \in [Games -> {"off", "connect", "backoff", "hello", "serve", "pause", "joined"}]
    /\ backoff \in [Games -> BackoffStart..BackoffMax]
    /\ stop \in [Games -> BOOLEAN]
    /\ latest \in [Games -> Snapshots \cup {None}]
    /\ disabled \in [Games -> BOOLEAN]
    /\ retained \in [Games -> SUBSET Avatars]

(* The places of the snapshots among the frames sent to g. *)
SnapshotsTo(g) == {n \in DOMAIN toGame[g] : toGame[g][n].type = "Snapshot"}

(* What g will show when it has read everything sent to it. *)
WillShow(g) ==
    IF SnapshotsTo(g) = {} THEN latest[g]
    ELSE LET f == toGame[g][Max(SnapshotsTo(g))] IN [life |-> f.life, rev |-> f.rev]

(* An active game is never left behind: having read what was sent to it, it *)
(* shows the host's current snapshot and knows every avatar announced in    *)
(* this life of the host, whenever it joined; avatars are not announced     *)
(* again later (state_server.cpp:150-161).                                  *)
ActiveIsCurrent ==
    \A g \in Games : class[g] = "active" =>
        /\ WillShow(g) = [life |-> life, rev |-> current]
        /\ announced \subseteq retained[g] \cup
               {f.hash : f \in {x \in ToSet(toGame[g]) : x.type = "AvatarReady"}}

(* A game denied by the list is sent no snapshot of this connection, and is *)
(* or will be told to switch its overlay off.                               *)
InertIsDisabled ==
    \A g \in Games : class[g] = "inert" =>
        SnapshotsTo(g) = {} /\ (disabled[g] \/ Disabled \in ToSet(toGame[g]))

(* While a host and a game both run, the game gets its answer from the host *)
(* however often either was restarted before.                               *)
GetsClassified ==
    \A g \in Games :
        <>[](hostUp /\ pc[g] # "off" /\ ~stop[g]) => <>[](class[g] \in {"active", "inert"})

(* ~StateClient returns: the thread it joins sees stop_ wherever it is. *)
JoinReturns == \A g \in Games : stop[g] ~> (pc[g] \in {"joined", "off"})
=============================================================================
