-------------------------- MODULE RpcClient_proofs --------------------------
(***************************************************************************)
(* Proofs about RpcClient, for any number of channels and users and any    *)
(* room in the two sockets: the client never strands, is authenticated     *)
(* when it says so, keeps exactly one channel subscribed, applies the      *)
(* voice states of a reply to that reply's channel and, once everything in *)
(* flight has been handled, follows the user.                              *)
(*                                                                         *)
(* What a queue of commands or messages comes to is described by the last  *)
(* entry that matters, without recursion; LastCommandWins shows that this  *)
(* is what RpcClient's recursive SubsAfter computes.                       *)
(***************************************************************************)
EXTENDS RpcClient, WellFoundedInduction, TLAPS

-----------------------------------------------------------------------------
(* What a queue comes to *)

Names(q, n, name, c) == q[n].cmd = name /\ q[n].ch = c

(* c is subscribed once the first n commands of q have been handled by a   *)
(* Discord that has the subscriptions S.                                   *)
HoldsTo(S, q, n, c) ==
    \/ /\ c \in S
       /\ \A m \in 1..n : ~Names(q, m, "UNSUBSCRIBE", c)
    \/ \E k \in 1..n : /\ Names(q, k, "SUBSCRIBE", c)
                       /\ \A m \in (k + 1)..n : ~Names(q, m, "UNSUBSCRIBE", c)

MoveKinds == {"select", "selected"}

Moves(q, n) == q[n].type \in MoveKinds

(* A client subscribed to s follows c once it has handled the first n      *)
(* messages of q.                                                          *)
EndsAt(s, q, n, c) ==
    \/ /\ c = s
       /\ \A m \in 1..n : ~Moves(q, m)
    \/ \E k \in 1..n : /\ Moves(q, k) /\ q[k].ch = c
                       /\ \A m \in (k + 1)..n : ~Moves(q, m)

-----------------------------------------------------------------------------
(* The inductive invariant, in parts *)

Typed ==
    /\ TypeOK
    /\ Len(toDiscord) <= MaxCmds
    /\ \A n \in 1..Len(toDiscord) :
          toDiscord[n].cmd = "SUBSCRIBE" => toDiscord[n].ch \in Channels

(* A client is stopped only once it has been launched. *)
Retrying == NeverStranded /\ (mode = "boot" => ~stopped)

(* There are voice states to apply only inside the handler of the reply. *)
Seeding == SeedsGoToTheirChannel /\ (seeds # {} => mode \in {"seed", "fetch"})

Privileged(m) == m.type = "select" \/ (m.type = "authenticate" /\ m.flag)

(* Everything on a connection that only an authenticated one has. *)
Authentic ==
    /\ state \in {"Ready", "InChannel"} => authed
    /\ topSub => authed
    /\ \A n \in 1..Len(toDiscord) : toDiscord[n].cmd = "SUBSCRIBE_TOP" => authed
    /\ \A n \in 1..Len(toHost) : Privileged(toHost[n]) => authed

(* Discord will have the subscriptions of subscribed_channel_. *)
Subscribing ==
    \A c \in Channels : HoldsTo(subs, toDiscord, Len(toDiscord), c) <=> c = subscribed

NoCmd(q, names) == \A n \in 1..Len(q) : q[n].cmd \notin names
NoMsg(q, kinds) == \A n \in 1..Len(q) : q[n].type \notin kinds

NoHello == NoCmd(toDiscord, {"HANDSHAKE"}) /\ NoMsg(toHost, {"ready"})

OnceCmd(q) == \A m, n \in 1..Len(q) : q[m].cmd = "HANDSHAKE" /\ q[n].cmd = "HANDSHAKE" => m = n
OnceMsg(q) == \A m, n \in 1..Len(q) : q[m].type = "ready" /\ q[n].type = "ready" => m = n

(* A connection gets one READY, for its one HANDSHAKE. *)
OneHello ==
    /\ OnceCmd(toDiscord) /\ OnceMsg(toHost)
    /\ NoCmd(toDiscord, {"HANDSHAKE"}) \/ NoMsg(toHost, {"ready"})

Opening == {"SUBSCRIBE_TOP", "GET_SELECTED"}

(* Before the authentication nothing follows the user. *)
Greeting ==
    /\ subscribed = NoChannel /\ ~topSub
    /\ NoMsg(toHost, MoveKinds) /\ NoCmd(toDiscord, Opening)
    /\ state = "Connecting" => OneHello
    /\ state = "Authorizing" => NoHello

(* After it the subscription and the query are handled, in this order: both *)
(* are still to come, ...                                                   *)
AskedIn(q) ==
    \E i \in 1..Len(q) :
        /\ i + 1 \in 1..Len(q)
        /\ q[i].cmd = "SUBSCRIBE_TOP" /\ q[i + 1].cmd = "GET_SELECTED"
        /\ \A n \in 1..Len(q) : q[n].cmd \in Opening => n = i \/ n = i + 1

Asking ==
    /\ ~topSub /\ subscribed = NoChannel
    /\ NoMsg(toHost, MoveKinds) /\ AskedIn(toDiscord)

(* ... only the query is, ... *)
QueriedIn(q) ==
    \E i \in 1..Len(q) :
        /\ q[i].cmd = "GET_SELECTED"
        /\ \A n \in 1..Len(q) : q[n].cmd \in Opening => n = i

Ends(s, q, c) == EndsAt(s, q, Len(q), c)

Querying ==
    /\ topSub /\ QueriedIn(toDiscord)
    /\ Ends(subscribed, toHost, voice) \/ Ends(subscribed, toHost, NoChannel)

(* ... or neither: what is in flight leads to the user's channel. *)
Following ==
    /\ topSub /\ NoCmd(toDiscord, Opening)
    /\ Ends(subscribed, toHost, voice)

(* A reply finds the client in the channel it names, or in none: only a     *)
(* reply that would change nothing may be ignored.                          *)
RepliesFit(s, q) ==
    \A n \in 1..Len(q) : q[n].type = "selected" =>
        EndsAt(s, q, n - 1, q[n].ch) \/ EndsAt(s, q, n - 1, NoChannel)

Running ==
    /\ NoHello
    /\ state = "InChannel" <=> subscribed # NoChannel
    /\ RepliesFit(subscribed, toHost)
    /\ Asking \/ Querying \/ Following

Session ==
    /\ state # "Disconnected"
    /\ state \in {"Connecting", "Authorizing"} => Greeting
    /\ state \in {"Ready", "InChannel"} => Running

Live == link = "up" => Authentic /\ Subscribing /\ Session

Showing == subscribed # NoChannel => shown = subscribed

RpcInv == Typed /\ Retrying /\ Seeding /\ Showing /\ Live

-----------------------------------------------------------------------------
(* Lemmas about queues *)

(* What is left of a queue when its first entry is taken. *)
LEMMA TailOf ==
    ASSUME NEW S, NEW q \in Seq(S), q # <<>>
    PROVE  /\ Tail(q) \in Seq(S) /\ Len(q) \in Nat \ {0} /\ Len(Tail(q)) = Len(q) - 1
           /\ Head(q) = q[1] /\ q[1] \in S
           /\ \A n \in 1..(Len(q) - 1) : Tail(q)[n] = q[n + 1]
    OBVIOUS

(* One more entry. *)
LEMMA AppendOf ==
    ASSUME NEW S, NEW q \in Seq(S), NEW x \in S
    PROVE  /\ q \o <<x>> = Append(q, x) /\ Append(q, x) \in Seq(S)
           /\ Len(q) \in Nat /\ Len(Append(q, x)) = Len(q) + 1
           /\ Append(q, x)[Len(q) + 1] = x
           /\ \A n \in 1..Len(q) : Append(q, x)[n] = q[n]
<1>1. <<x>> \in Seq(S) /\ Len(<<x>>) = 1 /\ <<x>>[1] = x
    OBVIOUS
<1>2. q \o <<x>> = Append(q, x)
    OBVIOUS
<1> QED
    BY <1>1, <1>2

(* A command is the last to say something of c, or it leaves what the ones *)
(* before it say.                                                          *)
LEMMA HoldsStep ==
    ASSUME NEW S, NEW q, NEW n \in Nat \ {0}, NEW c
    PROVE  HoldsTo(S, q, n, c)
             <=> \/ Names(q, n, "SUBSCRIBE", c)
                 \/ HoldsTo(S, q, n - 1, c) /\ ~Names(q, n, "UNSUBSCRIBE", c)
<1>1. ASSUME HoldsTo(S, q, n, c), ~Names(q, n, "SUBSCRIBE", c)
      PROVE  HoldsTo(S, q, n - 1, c) /\ ~Names(q, n, "UNSUBSCRIBE", c)
    <2>1. CASE c \in S /\ \A m \in 1..n : ~Names(q, m, "UNSUBSCRIBE", c)
        <3>1. n \in 1..n /\ \A m \in 1..(n - 1) : m \in 1..n
            OBVIOUS
        <3> QED
            BY <2>1, <3>1 DEF HoldsTo
    <2>2. CASE \E k \in 1..n : /\ Names(q, k, "SUBSCRIBE", c)
                               /\ \A m \in (k + 1)..n : ~Names(q, m, "UNSUBSCRIBE", c)
        <3>1. PICK k \in 1..n : /\ Names(q, k, "SUBSCRIBE", c)
                                /\ \A m \in (k + 1)..n : ~Names(q, m, "UNSUBSCRIBE", c)
            BY <2>2
        <3>2. k # n
            BY <1>1, <3>1
        <3>3. k \in 1..(n - 1) /\ n \in (k + 1)..n
              /\ \A m \in (k + 1)..(n - 1) : m \in (k + 1)..n
            BY <3>2
        <3> QED
            BY <3>1, <3>3 DEF HoldsTo
    <2> QED
        BY <1>1, <2>1, <2>2 DEF HoldsTo
<1>2. ASSUME Names(q, n, "SUBSCRIBE", c) PROVE HoldsTo(S, q, n, c)
    <2>1. n \in 1..n /\ \A m \in (n + 1)..n : FALSE
        OBVIOUS
    <2> QED
        BY <1>2, <2>1 DEF HoldsTo
<1>3. ASSUME HoldsTo(S, q, n - 1, c), ~Names(q, n, "UNSUBSCRIBE", c)
      PROVE  HoldsTo(S, q, n, c)
    <2>1. \A k \in 0..(n - 1) : \A m \in (k + 1)..n : m \in (k + 1)..(n - 1) \/ m = n
        OBVIOUS
    <2>2. CASE c \in S /\ \A m \in 1..(n - 1) : ~Names(q, m, "UNSUBSCRIBE", c)
        <3>1. \A m \in 1..n : m \in 1..(n - 1) \/ m = n
            OBVIOUS
        <3> QED
            BY <1>3, <2>2, <3>1 DEF HoldsTo
    <2>3. CASE \E k \in 1..(n - 1) :
                  /\ Names(q, k, "SUBSCRIBE", c)
                  /\ \A m \in (k + 1)..(n - 1) : ~Names(q, m, "UNSUBSCRIBE", c)
        <3>1. PICK k \in 1..(n - 1) :
                  /\ Names(q, k, "SUBSCRIBE", c)
                  /\ \A m \in (k + 1)..(n - 1) : ~Names(q, m, "UNSUBSCRIBE", c)
            BY <2>3
        <3>2. k \in 1..n /\ k \in 0..(n - 1)
            OBVIOUS
        <3>3. \A m \in (k + 1)..n : ~Names(q, m, "UNSUBSCRIBE", c)
            BY <1>3, <2>1, <3>1, <3>2
        <3> QED
            BY <3>1, <3>2, <3>3 DEF HoldsTo
    <2> QED
        BY <1>3, <2>2, <2>3 DEF HoldsTo
<1> QED
    BY <1>1, <1>2, <1>3

(* Only the entries counted matter. *)
LEMMA HoldsSame ==
    ASSUME NEW S, NEW q, NEW r, NEW n \in Nat, NEW c, \A m \in 1..n : r[m] = q[m]
    PROVE  HoldsTo(S, r, n, c) <=> HoldsTo(S, q, n, c)
<1>1. \A k \in 1..n : \A m \in (k + 1)..n : m \in 1..n
    OBVIOUS
<1>2. \A m \in 1..n : Names(r, m, "SUBSCRIBE", c) <=> Names(q, m, "SUBSCRIBE", c)
    BY DEF Names
<1>3. \A m \in 1..n : Names(r, m, "UNSUBSCRIBE", c) <=> Names(q, m, "UNSUBSCRIBE", c)
    BY DEF Names
<1> QED
    BY <1>1, <1>2, <1>3 DEF HoldsTo

(* A command that is neither leaves everything as it is when it is sent ... *)
LEMMA HoldsAppend ==
    ASSUME NEW S, NEW q \in Seq(Command), NEW x \in Command, NEW c
    PROVE  HoldsTo(S, Append(q, x), Len(q) + 1, c)
             <=> \/ x.cmd = "SUBSCRIBE" /\ x.ch = c
                 \/ HoldsTo(S, q, Len(q), c) /\ ~(x.cmd = "UNSUBSCRIBE" /\ x.ch = c)
<1> DEFINE r == Append(q, x)
<1>1. Len(q) \in Nat /\ r[Len(q) + 1] = x /\ \A m \in 1..Len(q) : r[m] = q[m]
    BY AppendOf
<1> HIDE DEF r
<1>2. HoldsTo(S, r, Len(q), c) <=> HoldsTo(S, q, Len(q), c)
    BY <1>1, HoldsSame
<1>3. Len(q) + 1 \in Nat \ {0} /\ (Len(q) + 1) - 1 = Len(q)
    BY <1>1
<1>4. HoldsTo(S, r, Len(q) + 1, c)
        <=> \/ Names(r, Len(q) + 1, "SUBSCRIBE", c)
            \/ HoldsTo(S, r, Len(q), c) /\ ~Names(r, Len(q) + 1, "UNSUBSCRIBE", c)
    BY <1>3, HoldsStep
<1> QED
    BY <1>1, <1>2, <1>4 DEF r, Names

(* ... and a command handled by Discord moves from the queue into its      *)
(* subscriptions.                                                          *)
LEMMA HoldsTail ==
    ASSUME NEW S, NEW T, NEW q \in Seq(Command), q # <<>>, NEW c,
           c \in T <=> \/ Names(q, 1, "SUBSCRIBE", c)
                       \/ c \in S /\ ~Names(q, 1, "UNSUBSCRIBE", c)
    PROVE  HoldsTo(T, Tail(q), Len(q) - 1, c) <=> HoldsTo(S, q, Len(q), c)
<1> DEFINE r == Tail(q)
           N == Len(q)
<1>1. N \in Nat \ {0} /\ \A n \in 1..(N - 1) : r[n] = q[n + 1]
    BY TailOf
<1> HIDE DEF r, N
<1>2. \A m \in 1..(N - 1) : Names(r, m, "SUBSCRIBE", c) <=> Names(q, m + 1, "SUBSCRIBE", c)
    BY <1>1 DEF Names
<1>3. \A m \in 1..(N - 1) : Names(r, m, "UNSUBSCRIBE", c) <=> Names(q, m + 1, "UNSUBSCRIBE", c)
    BY <1>1 DEF Names
<1>4. ASSUME HoldsTo(T, r, N - 1, c) PROVE HoldsTo(S, q, N, c)
    <2>1. CASE c \in T /\ \A m \in 1..(N - 1) : ~Names(r, m, "UNSUBSCRIBE", c)
        <3>1. \A m \in 2..N : ~Names(q, m, "UNSUBSCRIBE", c)
            <4> SUFFICES ASSUME NEW m \in 2..N PROVE ~Names(q, m, "UNSUBSCRIBE", c)
                OBVIOUS
            <4>1. m - 1 \in 1..(N - 1) /\ (m - 1) + 1 = m
                BY <1>1
            <4> QED
                BY <1>3, <2>1, <4>1
        <3>2. CASE Names(q, 1, "SUBSCRIBE", c)
            <4>1. 1 \in 1..N /\ 1 + 1 = 2
                BY <1>1
            <4>2. \A m \in (1 + 1)..N : ~Names(q, m, "UNSUBSCRIBE", c)
                BY <3>1, <4>1
            <4> QED
                BY <3>2, <4>1, <4>2 DEF HoldsTo
        <3>3. CASE c \in S /\ ~Names(q, 1, "UNSUBSCRIBE", c)
            <4>1. \A m \in 1..N : m = 1 \/ m \in 2..N
                BY <1>1
            <4> QED
                BY <3>1, <3>3, <4>1 DEF HoldsTo
        <3> QED
            BY <2>1, <3>2, <3>3
    <2>2. CASE \E k \in 1..(N - 1) :
                  /\ Names(r, k, "SUBSCRIBE", c)
                  /\ \A m \in (k + 1)..(N - 1) : ~Names(r, m, "UNSUBSCRIBE", c)
        <3>1. PICK k \in 1..(N - 1) :
                  /\ Names(r, k, "SUBSCRIBE", c)
                  /\ \A m \in (k + 1)..(N - 1) : ~Names(r, m, "UNSUBSCRIBE", c)
            BY <2>2
        <3>2. k + 1 \in 1..N /\ Names(q, k + 1, "SUBSCRIBE", c)
            BY <1>1, <1>2, <3>1
        <3>3. ASSUME NEW m \in ((k + 1) + 1)..N PROVE ~Names(q, m, "UNSUBSCRIBE", c)
            <4>1. m - 1 \in (k + 1)..(N - 1) /\ m - 1 \in 1..(N - 1) /\ (m - 1) + 1 = m
                BY <1>1
            <4> QED
                BY <1>3, <3>1, <4>1
        <3> QED
            BY <3>2, <3>3 DEF HoldsTo
    <2> QED
        BY <1>4, <2>1, <2>2 DEF HoldsTo
<1>5. ASSUME HoldsTo(S, q, N, c) PROVE HoldsTo(T, r, N - 1, c)
    <2>1. \A m \in 1..(N - 1) : m + 1 \in 1..N
        BY <1>1
    <2>2. CASE c \in S /\ \A m \in 1..N : ~Names(q, m, "UNSUBSCRIBE", c)
        <3>1. 1 \in 1..N
            BY <1>1
        <3> QED
            BY <1>3, <2>1, <2>2, <3>1 DEF HoldsTo
    <2>3. CASE \E k \in 1..N : /\ Names(q, k, "SUBSCRIBE", c)
                               /\ \A m \in (k + 1)..N : ~Names(q, m, "UNSUBSCRIBE", c)
        <3>1. PICK k \in 1..N : /\ Names(q, k, "SUBSCRIBE", c)
                                /\ \A m \in (k + 1)..N : ~Names(q, m, "UNSUBSCRIBE", c)
            BY <2>3
        <3>2. CASE k = 1
            <4>1. \A m \in 1..(N - 1) : m + 1 \in (k + 1)..N
                BY <1>1, <3>2
            <4>2. c \in T
                BY <3>1, <3>2
            <4> QED
                BY <1>3, <3>1, <4>1, <4>2 DEF HoldsTo
        <3>3. CASE k # 1
            <4>1. k - 1 \in 1..(N - 1) /\ (k - 1) + 1 = k
                BY <1>1, <3>3
            <4>2. Names(r, k - 1, "SUBSCRIBE", c)
                BY <1>2, <3>1, <4>1
            <4>3. ASSUME NEW m \in ((k - 1) + 1)..(N - 1) PROVE ~Names(r, m, "UNSUBSCRIBE", c)
                <5>1. m \in 1..(N - 1) /\ m + 1 \in (k + 1)..N
                    BY <1>1, <4>1
                <5> QED
                    BY <1>3, <3>1, <5>1
            <4> QED
                BY <4>1, <4>2, <4>3 DEF HoldsTo
        <3> QED
            BY <3>2, <3>3
    <2> QED
        BY <1>5, <2>2, <2>3 DEF HoldsTo
<1> QED
    BY <1>4, <1>5 DEF r, N

(* A message moves the client, or leaves it where the ones before it do. *)
LEMMA EndsStep ==
    ASSUME NEW s, NEW q, NEW n \in Nat \ {0}, NEW c,
           IF Moves(q, n) THEN q[n].ch = c ELSE EndsAt(s, q, n - 1, c)
    PROVE  EndsAt(s, q, n, c)
<1>1. CASE Moves(q, n)
    <2>1. n \in 1..n /\ \A m \in (n + 1)..n : FALSE
        OBVIOUS
    <2> QED
        BY <1>1, <2>1 DEF EndsAt
<1>2. CASE ~Moves(q, n) /\ c = s /\ \A m \in 1..(n - 1) : ~Moves(q, m)
    <2>1. \A m \in 1..n : m \in 1..(n - 1) \/ m = n
        OBVIOUS
    <2> QED
        BY <1>2, <2>1 DEF EndsAt
<1>3. CASE /\ ~Moves(q, n)
           /\ \E k \in 1..(n - 1) : /\ Moves(q, k) /\ q[k].ch = c
                                    /\ \A m \in (k + 1)..(n - 1) : ~Moves(q, m)
    <2>1. PICK k \in 1..(n - 1) : /\ Moves(q, k) /\ q[k].ch = c
                                  /\ \A m \in (k + 1)..(n - 1) : ~Moves(q, m)
        BY <1>3
    <2>2. k \in 1..n /\ \A m \in (k + 1)..n : m \in (k + 1)..(n - 1) \/ m = n
        OBVIOUS
    <2> QED
        BY <1>3, <2>1, <2>2 DEF EndsAt
<1> QED
    BY <1>1, <1>2, <1>3 DEF EndsAt

(* Only the entries counted matter. *)
LEMMA EndsSame ==
    ASSUME NEW s, NEW q, NEW r, NEW n \in Nat, NEW c, \A m \in 1..n : r[m] = q[m],
           EndsAt(s, q, n, c)
    PROVE  EndsAt(s, r, n, c)
<1>1. \A k \in 1..n : \A m \in (k + 1)..n : m \in 1..n
    OBVIOUS
<1>2. \A m \in 1..n : Moves(r, m) <=> Moves(q, m)
    BY DEF Moves
<1> QED
    BY <1>1, <1>2 DEF EndsAt

(* Without a message that moves it, a client stays where it is. *)
LEMMA EndsStays ==
    ASSUME NEW s, NEW q, NEW n \in Nat, \A m \in 1..n : ~Moves(q, m)
    PROVE  EndsAt(s, q, n, s)
    BY DEF EndsAt

(* Handling the first message does not change where the rest leads. *)
LEMMA EndsTail ==
    ASSUME NEW s, NEW t, NEW q \in Seq(Message), q # <<>>, NEW n \in 1..Len(q), NEW c,
           t = IF Moves(q, 1) THEN q[1].ch ELSE s,
           EndsAt(s, q, n, c)
    PROVE  EndsAt(t, Tail(q), n - 1, c)
<1> DEFINE r == Tail(q)
           N == Len(q)
<1>1. n \in 1..N /\ N \in Nat \ {0} /\ \A m \in 1..(N - 1) : r[m] = q[m + 1]
    BY TailOf
<1> HIDE DEF r, N
<1>2. \A m \in 1..(n - 1) : Moves(r, m) <=> Moves(q, m + 1)
    BY <1>1 DEF Moves
<1>3. \A m \in 1..(n - 1) : m + 1 \in 1..n
    BY <1>1
<1>4. CASE c = s /\ \A m \in 1..n : ~Moves(q, m)
    <2>1. 1 \in 1..n
        BY <1>1
    <2>2. c = t
        BY <1>4, <2>1
    <2> QED
        BY <1>2, <1>3, <1>4, <2>2 DEF EndsAt, r
<1>5. CASE \E k \in 1..n : /\ Moves(q, k) /\ q[k].ch = c
                           /\ \A m \in (k + 1)..n : ~Moves(q, m)
    <2>1. PICK k \in 1..n : /\ Moves(q, k) /\ q[k].ch = c
                            /\ \A m \in (k + 1)..n : ~Moves(q, m)
        BY <1>5
    <2>2. CASE k = 1
        <3>1. \A m \in 1..(n - 1) : m + 1 \in (k + 1)..n
            BY <1>1, <2>2
        <3>2. c = t
            BY <2>1, <2>2
        <3> QED
            BY <1>2, <2>1, <3>1, <3>2 DEF EndsAt, r
    <2>3. CASE k # 1
        <3>1. k - 1 \in 1..(n - 1) /\ (k - 1) + 1 = k /\ k - 1 \in 1..(N - 1)
            BY <1>1, <2>3
        <3>2. Moves(r, k - 1) /\ r[k - 1].ch = c
            BY <1>1, <1>2, <2>1, <3>1
        <3>3. ASSUME NEW m \in ((k - 1) + 1)..(n - 1) PROVE ~Moves(r, m)
            <4>1. m \in 1..(n - 1) /\ m + 1 \in (k + 1)..n
                BY <1>1, <3>1
            <4> QED
                BY <1>2, <2>1, <4>1
        <3> QED
            BY <3>1, <3>2, <3>3 DEF EndsAt, r
    <2> QED
        BY <2>2, <2>3
<1> QED
    BY <1>4, <1>5 DEF EndsAt

-----------------------------------------------------------------------------
(* What SubsAfter computes *)

(* Every set of numbers that is not empty has a least one.  The library's  *)
(* induction theorems cannot be used here, but the well-foundedness they   *)
(* rest on can.                                                            *)
LEMMA LeastNumber ==
    ASSUME NEW T \in SUBSET Nat, T # {}
    PROVE  \E x \in T : \A y \in T : x <= y
<1> DEFINE Less == {p \in Nat \X Nat : p[1] < p[2]}
<1>1. IsWellFoundedOn(Less, Nat)
    BY NatLessThanWellFounded, Zenon DEF OpToRel
<1>2. ASSUME NEW a \in Nat, NEW b \in Nat, a < b
      PROVE  <<a, b>> \in Less
    BY <1>2
<1> HIDE DEF Less
<1>3. PICK x \in T : \A y \in T : ~(<<y, x>> \in Less)
    BY <1>1, WFMin
<1>4. ASSUME NEW y \in T PROVE x <= y
    <2>1. x \in Nat /\ y \in Nat
        OBVIOUS
    <2>2. ~(<<y, x>> \in Less)
        BY <1>3
    <2>3. ~(y < x)
        BY <1>2, <2>1, <2>2
    <2> QED
        BY <2>1, <2>3
<1> QED
    BY <1>4

(* The recursion over the commands in flight ends with the channels whose  *)
(* last command is a subscription.                                         *)
LEMMA LastCommandWins ==
    ASSUME NEW n \in 0..MaxCmds, NEW c
    PROVE  c \in SubsAfter[n] <=> HoldsTo(subs, toDiscord, n, c)
<1> DEFINE All == subs \cup {toDiscord[m].ch : m \in 1..MaxCmds}
           Step(f, m) == IF toDiscord[m].cmd = "SUBSCRIBE" THEN f[m - 1] \cup {toDiscord[m].ch}
                         ELSE IF toDiscord[m].cmd = "UNSUBSCRIBE" THEN f[m - 1] \ {toDiscord[m].ch}
                         ELSE f[m - 1]
           Solves(f) == f = [m \in 0..MaxCmds |-> IF m = 0 THEN subs ELSE Step(f, m)]
           Held(m) == {d \in All : HoldsTo(subs, toDiscord, m, d)}
           closed == [m \in 0..MaxCmds |-> Held(m)]
<1>0. MaxCmds \in Nat
    BY RpcAssumption
<1>1. ASSUME NEW m \in 0..MaxCmds, NEW d, HoldsTo(subs, toDiscord, m, d) PROVE d \in All
    <2>1. \A k \in 1..m : k \in 1..MaxCmds
        BY <1>0
    <2> QED
        BY <1>1, <2>1 DEF HoldsTo, Names
<1>2. \A m \in 0..MaxCmds : \A d : d \in Held(m) <=> HoldsTo(subs, toDiscord, m, d)
    BY <1>1
<1>3. Held(0) = subs
    <2>1. \A m \in 1..0 : FALSE
        OBVIOUS
    <2>2. 0 \in 0..MaxCmds /\ \A d : HoldsTo(subs, toDiscord, 0, d) <=> d \in subs
        BY <1>0, <2>1 DEF HoldsTo
    <2>3. \A d : d \in Held(0) <=> d \in subs
        BY <1>2, <2>2
    <2> HIDE DEF Held
    <2> QED
        BY <2>3
<1>4. ASSUME NEW m \in 1..MaxCmds, NEW f, f[m - 1] = Held(m - 1) PROVE Step(f, m) = Held(m)
    <2>1. m \in Nat \ {0} /\ m \in 0..MaxCmds /\ m - 1 \in 0..MaxCmds
        BY <1>0
    <2>2. ASSUME NEW d PROVE d \in Step(f, m) <=> d \in Held(m)
        <3>1. d \in Held(m) <=> \/ Names(toDiscord, m, "SUBSCRIBE", d)
                                \/ d \in Held(m - 1) /\ ~Names(toDiscord, m, "UNSUBSCRIBE", d)
            <4> HIDE DEF Held
            <4> QED
                BY <1>2, <2>1, HoldsStep
        <3> HIDE DEF Held
        <3> QED
            BY <1>4, <3>1 DEF Names
    <2> HIDE DEF Held, Step
    <2> QED
        BY <2>2
<1>5. Solves(closed)
    <2> SUFFICES ASSUME NEW m \in 0..MaxCmds
                 PROVE  Held(m) = IF m = 0 THEN subs ELSE Step(closed, m)
        OBVIOUS
    <2>1. CASE m = 0
        BY <1>3, <2>1
    <2>2. CASE m # 0
        <3>1. m \in 1..MaxCmds /\ m - 1 \in 0..MaxCmds
            BY <1>0, <2>2
        <3>2. closed[m - 1] = Held(m - 1)
            BY <3>1
        <3> HIDE DEF closed, Held, Step
        <3> QED
            BY <1>4, <2>2, <3>1, <3>2
    <2> QED
        BY <2>1, <2>2
<1>6. Solves(SubsAfter)
    <2>1. SubsAfter = CHOOSE f : Solves(f)
        BY DEF SubsAfter
    <2> HIDE DEF Solves, closed
    <2> QED
        BY <1>5, <2>1
<1>7. \A m \in 0..MaxCmds : SubsAfter[m] = Held(m)
    <2> DEFINE Wrong == {m \in 0..MaxCmds : SubsAfter[m] # Held(m)}
    <2> SUFFICES ASSUME Wrong # {} PROVE FALSE
        OBVIOUS
    <2>1. PICK m \in Wrong : \A k \in Wrong : m <= k
        <3>1. Wrong \in SUBSET Nat
            BY <1>0
        <3> HIDE DEF Wrong
        <3> QED
            BY <3>1, LeastNumber
    <2>2. m \in 0..MaxCmds /\ SubsAfter[m] # Held(m)
        OBVIOUS
    <2>3. SubsAfter[m] = IF m = 0 THEN subs ELSE Step(SubsAfter, m)
        <3> HIDE DEF Step
        <3> QED
            BY <1>6, <2>2
    <2>4. m # 0
        BY <1>3, <2>2, <2>3
    <2>5. m \in 1..MaxCmds /\ m - 1 \in 0..MaxCmds /\ ~(m <= m - 1)
        BY <1>0, <2>2, <2>4
    <2>6. SubsAfter[m - 1] = Held(m - 1)
        <3> HIDE DEF Held
        <3> QED
            BY <2>1, <2>5
    <2> HIDE DEF Held, Step
    <2> QED
        BY <1>4, <2>2, <2>3, <2>4, <2>5, <2>6
<1> HIDE DEF Held
<1> QED
    BY <1>2, <1>7

-----------------------------------------------------------------------------
(* Types are kept *)

States == {"Disconnected", "Connecting", "Authorizing", "Ready", "InChannel"}

WireOK ==
    /\ link \in {"none", "up", "hup"} /\ pending \in BOOLEAN /\ due \in BOOLEAN
    /\ toHost \in Seq(Message)
    /\ toDiscord \in Seq(Command) /\ Len(toDiscord) <= MaxCmds
    /\ \A n \in 1..Len(toDiscord) :
          toDiscord[n].cmd = "SUBSCRIBE" => toDiscord[n].ch \in Channels

ClientOK == state \in States /\ subscribed \in ChannelIds

RestOK ==
    /\ stopped \in BOOLEAN /\ mode \in {"boot", "loop", "seed", "exchange", "fetch"}
    /\ seeds \in SUBSET Users /\ seedOf \in ChannelIds
    /\ shown \in ChannelIds /\ roster \in SUBSET Users
    /\ discordUp \in BOOLEAN /\ voice \in ChannelIds

SessionOK == authed \in BOOLEAN /\ topSub \in BOOLEAN /\ subs \in SUBSET Channels

LEMMA TypedParts == Typed <=> WireOK /\ ClientOK /\ RestOK /\ SessionOK
    BY DEF Typed, TypeOK, WireOK, ClientOK, RestOK, SessionOK, States

LEMMA TypedPartsNext == Typed' <=> WireOK' /\ ClientOK' /\ RestOK' /\ SessionOK'
    BY DEF Typed, TypeOK, WireOK, ClientOK, RestOK, SessionOK, States

LEMMA ConstantCommands ==
    /\ Handshake \in Command /\ Authorize \in Command /\ Authenticate \in Command
    /\ SubscribeTop \in Command /\ GetSelected \in Command /\ Pong \in Command
    /\ \A c \in ChannelIds : Subscribe(c) \in Command /\ Unsubscribe(c) \in Command
    BY DEF Handshake, Authorize, Authenticate, SubscribeTop, GetSelected, Pong, Subscribe,
           Unsubscribe, Cmd, Command, ChannelIds

LEMMA CloseTyped ==
    ASSUME WireOK, CloseSocket, pending' \in BOOLEAN, due' \in BOOLEAN
    PROVE  WireOK'
<1>1. toHost' \in Seq(Message) /\ toDiscord' \in Seq(Command) /\ Len(toDiscord') = 0
    BY DEF CloseSocket
<1>2. link' = "none"
    BY DEF CloseSocket
<1> QED
    BY <1>1, <1>2, RpcAssumption DEF WireOK

LEMMA ScheduleTyped ==
    ASSUME WireOK, ScheduleReconnect
    PROVE  pending' \in BOOLEAN /\ due' \in BOOLEAN
    BY DEF WireOK, ScheduleReconnect

(* One command is sent. *)
LEMMA SentOne ==
    ASSUME WireOK, NEW x \in Command, x.cmd = "SUBSCRIBE" => x.ch \in Channels,
           NEW rest \in Seq(Message), Sent(<<x>>, rest)
    PROVE  WireOK' /\ toDiscord' = Append(toDiscord, x) /\ link' = "up" /\ toHost' = rest
<1>1. /\ toDiscord' = Append(toDiscord, x) /\ Append(toDiscord, x) \in Seq(Command)
      /\ Len(toDiscord) \in Nat /\ Len(Append(toDiscord, x)) = Len(toDiscord) + 1
      /\ Append(toDiscord, x)[Len(toDiscord) + 1] = x
      /\ \A n \in 1..Len(toDiscord) : Append(toDiscord, x)[n] = toDiscord[n]
    BY AppendOf DEF Sent, WireOK
<1>2. Len(toDiscord) + 1 <= MaxCmds /\ link' = "up" /\ toHost' = rest
    <2>1. Len(<<x>>) = 1
        OBVIOUS
    <2> QED
        BY <2>1 DEF Sent
<1>3. pending' \in BOOLEAN /\ due' \in BOOLEAN
    BY DEF Sent, WireOK
<1>4. \A n \in 1..(Len(toDiscord) + 1) : n \in 1..Len(toDiscord) \/ n = Len(toDiscord) + 1
    BY <1>1
<1> QED
    BY <1>1, <1>2, <1>3, <1>4 DEF WireOK

(* Two commands are sent back to back. *)
LEMMA SentTwo ==
    ASSUME WireOK, NEW x \in Command, x.cmd = "SUBSCRIBE" => x.ch \in Channels,
           NEW y \in Command, y.cmd = "SUBSCRIBE" => y.ch \in Channels,
           NEW rest \in Seq(Message), Sent(<<x, y>>, rest)
    PROVE  /\ WireOK' /\ toDiscord' = Append(Append(toDiscord, x), y)
           /\ link' = "up" /\ toHost' = rest
<1> DEFINE q == Append(toDiscord, x)
           r == Append(q, y)
           N == Len(toDiscord)
<1>1. /\ q \in Seq(Command) /\ N \in Nat /\ Len(q) = N + 1 /\ q[N + 1] = x
      /\ \A n \in 1..N : q[n] = toDiscord[n]
    BY AppendOf DEF WireOK
<1>2. toDiscord' = r
    BY DEF Sent, WireOK
<1>3. Len(<<x, y>>) = 2
    OBVIOUS
<1>4. N + 2 <= MaxCmds /\ link' = "up" /\ toHost' = rest
    BY <1>3 DEF Sent
<1> HIDE DEF q, N
<1>5. /\ r \in Seq(Command) /\ Len(r) = N + 2 /\ r[N + 2] = y
      /\ \A n \in 1..(N + 1) : r[n] = q[n]
    BY <1>1, AppendOf
<1> HIDE DEF r
<1>6. pending' \in BOOLEAN /\ due' \in BOOLEAN
    BY DEF Sent, WireOK
<1>7. \A n \in 1..(N + 2) : n \in 1..N \/ n = N + 1 \/ n = N + 2
    BY <1>1
<1>8. \A n \in 1..N : n \in 1..(N + 1)
    BY <1>1
<1>9. N + 1 \in 1..(N + 1)
    BY <1>1
<1>10. \A n \in 1..(N + 2) : r[n].cmd = "SUBSCRIBE" => r[n].ch \in Channels
    BY <1>1, <1>5, <1>7, <1>8, <1>9 DEF WireOK, N
<1> QED
    BY <1>1, <1>2, <1>4, <1>5, <1>6, <1>10 DEF WireOK, q, r

(* A message is taken from the socket and nothing sent. *)
LEMMA ConsumedTyped ==
    ASSUME WireOK, toHost # <<>>, Consumed
    PROVE  WireOK' /\ link' = link /\ toDiscord' = toDiscord /\ toHost' = Tail(toHost)
    BY TailOf DEF WireOK, Consumed

(* What try_connect leaves: no socket, or a fresh one. *)
LEMMA TryConnectTyped ==
    ASSUME WireOK, ClientOK, SessionOK, discordUp \in BOOLEAN, TryConnect
    PROVE  WireOK' /\ ClientOK' /\ SessionOK' /\ discordUp' \in BOOLEAN
<1>1. CASE CloseSocket /\ pending' = TRUE /\ due' = FALSE
    <2>1. WireOK'
        BY <1>1, CloseTyped
    <2>2. state' \in {state, "Disconnected"} /\ UNCHANGED sessionVars /\ discordUp' \in BOOLEAN
        BY <1>1 DEF TryConnect, CloseSocket
    <2> QED
        BY <2>1, <2>2 DEF TryConnect, ClientOK, SessionOK, sessionVars, ChannelIds, States
<1>2. CASE /\ discordUp /\ state' = "Connecting"
           /\ link' = "up" /\ toDiscord' = <<Handshake>> /\ toHost' = <<>>
           /\ authed' = FALSE /\ topSub' = FALSE /\ subs' = {}
           /\ pending' = FALSE /\ due' = FALSE
           /\ UNCHANGED discordUp
    <2>1. /\ <<Handshake>> \in Seq(Command) /\ Len(<<Handshake>>) = 1
          /\ <<Handshake>>[1] = Handshake /\ Handshake.cmd # "SUBSCRIBE"
        BY ConstantCommands DEF Handshake, Cmd
    <2>2. toHost' \in Seq(Message)
        BY <1>2
    <2>3. WireOK'
        <3>1. /\ toDiscord' \in Seq(Command) /\ Len(toDiscord') = 1
              /\ \A n \in 1..1 : toDiscord'[n] = Handshake
            BY <1>2, <2>1
        <3>2. Len(toDiscord') <= MaxCmds
            BY <3>1, RpcAssumption
        <3>3. link' = "up" /\ pending' \in BOOLEAN /\ due' \in BOOLEAN
            BY <1>2
        <3> QED
            BY <2>1, <2>2, <3>1, <3>2, <3>3 DEF WireOK
    <2> QED
        BY <1>2, <2>3 DEF TryConnect, ClientOK, SessionOK, ChannelIds, States
<1> QED
    BY <1>1, <1>2 DEF TryConnect

(* What handle_channel_select sends. *)
LEMMA ChannelCmdsCases ==
    ASSUME ClientOK, NEW c \in ChannelIds
    PROVE  \/ c = subscribed /\ ChannelCmds(c) = <<>>
           \/ /\ c # subscribed /\ subscribed = NoChannel /\ c # NoChannel
              /\ ChannelCmds(c) = <<Subscribe(c)>>
           \/ /\ c # subscribed /\ subscribed # NoChannel /\ c = NoChannel
              /\ ChannelCmds(c) = <<Unsubscribe(subscribed)>>
           \/ /\ c # subscribed /\ subscribed # NoChannel /\ c # NoChannel
              /\ ChannelCmds(c) = <<Unsubscribe(subscribed), Subscribe(c)>>
<1>1. CASE c = subscribed
    BY <1>1 DEF ChannelCmds
<1>2. CASE c # subscribed
    <2> DEFINE x == Unsubscribe(subscribed)
               y == Subscribe(c)
    <2>1. x \in Command /\ y \in Command
        BY ConstantCommands DEF ClientOK
    <2> HIDE DEF x, y
    <2>2. <<>> \o <<y>> = <<y>> /\ <<x>> \o <<>> = <<x>>
        BY <2>1
    <2>3. <<x>> \o <<y>> = <<x, y>>
        <3>1. <<x>> \in Seq(Command) /\ <<y>> \in Seq(Command)
            BY <2>1
        <3>2. <<x>> \o <<y>> = Append(<<x>>, y)
            BY <2>1, <3>1, AppendOf
        <3>3. Append(<<x>>, y) = <<x, y>>
            <4> DEFINE a == Append(<<x>>, y)
                       b == <<x, y>>
            <4>1. a \in Seq(Command) /\ Len(a) = 2 /\ a[1] = x /\ a[2] = y
                BY <2>1, <3>1, AppendOf
            <4>2. b \in Seq(Command) /\ Len(b) = 2 /\ b[1] = x /\ b[2] = y
                BY <2>1
            <4> HIDE DEF a, b
            <4>3. \A n \in 1..2 : a[n] = b[n]
                BY <4>1, <4>2
            <4>4. a = [n \in 1..2 |-> a[n]] /\ b = [n \in 1..2 |-> b[n]]
                BY <4>1, <4>2
            <4> QED
                BY <4>3, <4>4 DEF a, b
        <3> QED
            BY <3>2, <3>3
    <2>4. CASE subscribed = NoChannel
        BY <1>2, <2>2, <2>4 DEF ChannelCmds, y
    <2>5. CASE subscribed # NoChannel /\ c = NoChannel
        BY <1>2, <2>2, <2>5 DEF ChannelCmds, x
    <2>6. CASE subscribed # NoChannel /\ c # NoChannel
        BY <1>2, <2>3, <2>6 DEF ChannelCmds, x, y
    <2> QED
        BY <2>4, <2>5, <2>6
<1> QED
    BY <1>1, <1>2

LEMMA HeadTyped ==
    ASSUME WireOK, toHost # <<>>
    PROVE  /\ Head(toHost) = toHost[1] /\ toHost[1] \in Message /\ Tail(toHost) \in Seq(Message)
           /\ Head(toHost).ch \in ChannelIds /\ Head(toHost).users \in SUBSET Users
           /\ Head(toHost).flag \in BOOLEAN
<1>1. Head(toHost) = toHost[1] /\ toHost[1] \in Message /\ Tail(toHost) \in Seq(Message)
    BY TailOf DEF WireOK
<1> QED
    BY <1>1 DEF Message

LEMMA ClosedTyped ==
    ASSUME WireOK, HandleClosed
    PROVE  WireOK' /\ link' = "none"
<1>1. pending' \in BOOLEAN /\ due' \in BOOLEAN
    BY ScheduleTyped DEF HandleClosed
<1> QED
    BY <1>1, CloseTyped DEF HandleClosed, CloseSocket

LEMMA GiveUpTyped ==
    ASSUME WireOK, ClientOK, GiveUp
    PROVE  WireOK' /\ ClientOK' /\ link' = "none"
<1>1. pending' \in BOOLEAN /\ due' \in BOOLEAN
    BY ScheduleTyped DEF GiveUp
<1> QED
    BY <1>1, CloseTyped DEF GiveUp, CloseSocket, ClientOK, States

LEMMA OnClosedTyped ==
    ASSUME OnClosed PROVE ClientOK'
    BY DEF OnClosed, ClientOK, States, ChannelIds

(* handle_channel_select fails, or it takes the message and sends what     *)
(* ChannelCmds says.                                                       *)
LEMMA SelectTyped ==
    ASSUME WireOK, ClientOK, toHost # <<>>, NEW c \in ChannelIds, HandleChannelSelect(c)
    PROVE  /\ WireOK' /\ ClientOK' /\ subscribed' = c
           /\ state' = IF c = NoChannel THEN "Ready" ELSE "InChannel"
           /\ \/ link' = "none"
              \/ /\ link' = link /\ toHost' = Tail(toHost)
                 /\ \/ c = subscribed /\ toDiscord' = toDiscord
                    \/ /\ c # subscribed /\ subscribed = NoChannel /\ c # NoChannel
                       /\ toDiscord' = Append(toDiscord, Subscribe(c))
                    \/ /\ c # subscribed /\ subscribed # NoChannel /\ c = NoChannel
                       /\ toDiscord' = Append(toDiscord, Unsubscribe(subscribed))
                    \/ /\ c # subscribed /\ subscribed # NoChannel /\ c # NoChannel
                       /\ toDiscord' = Append(Append(toDiscord, Unsubscribe(subscribed)),
                                              Subscribe(c))
<1>1. ClientOK' /\ subscribed' = c /\ state' = IF c = NoChannel THEN "Ready" ELSE "InChannel"
    BY DEF HandleChannelSelect, ClientOK, States
<1>2. CASE SendFails
    BY <1>1, <1>2, ClosedTyped DEF SendFails
<1>3. CASE ChannelCmds(c) = <<>> /\ Consumed
    <2>1. c = subscribed
        <3>1. \A x, y : <<x>> # <<>> /\ <<x, y>> # <<>>
            OBVIOUS
        <3> QED
            BY <1>3, <3>1, ChannelCmdsCases
    <2> QED
        BY <1>1, <1>3, <2>1, ConsumedTyped
<1>4. CASE ChannelCmds(c) # <<>> /\ Sent(ChannelCmds(c), Tail(toHost))
    <2> DEFINE x == Unsubscribe(subscribed)
               y == Subscribe(c)
    <2>1. x \in Command /\ y \in Command /\ x.cmd # "SUBSCRIBE" /\ y.ch = c
        BY ConstantCommands DEF ClientOK, Subscribe, Unsubscribe, Cmd
    <2>2. Tail(toHost) \in Seq(Message) /\ link = "up"
        BY <1>4, HeadTyped DEF Sent
    <2> HIDE DEF x, y
    <2>3. CASE c # subscribed /\ subscribed = NoChannel /\ c # NoChannel
               /\ ChannelCmds(c) = <<Subscribe(c)>>
        <3>1. WireOK' /\ toDiscord' = Append(toDiscord, y) /\ link' = "up" /\ toHost' = Tail(toHost)
            <4>1. y.cmd = "SUBSCRIBE" => y.ch \in Channels
                BY <2>1, <2>3 DEF ChannelIds
            <4>2. Sent(<<y>>, Tail(toHost))
                BY <1>4, <2>3 DEF y
            <4> QED
                BY <2>1, <2>2, <4>1, <4>2, SentOne
        <3> QED
            BY <1>1, <2>2, <2>3, <3>1 DEF y
    <2>4. CASE c # subscribed /\ subscribed # NoChannel /\ c = NoChannel
               /\ ChannelCmds(c) = <<Unsubscribe(subscribed)>>
        <3>1. WireOK' /\ toDiscord' = Append(toDiscord, x) /\ link' = "up" /\ toHost' = Tail(toHost)
            <4>1. Sent(<<x>>, Tail(toHost))
                BY <1>4, <2>4 DEF x
            <4> QED
                BY <2>1, <2>2, <4>1, SentOne
        <3> QED
            BY <1>1, <2>2, <2>4, <3>1 DEF x
    <2>5. CASE c # subscribed /\ subscribed # NoChannel /\ c # NoChannel
               /\ ChannelCmds(c) = <<Unsubscribe(subscribed), Subscribe(c)>>
        <3>1. /\ WireOK' /\ toDiscord' = Append(Append(toDiscord, x), y)
              /\ link' = "up" /\ toHost' = Tail(toHost)
            <4>1. y.cmd = "SUBSCRIBE" => y.ch \in Channels
                BY <2>1, <2>5 DEF ChannelIds
            <4>2. Sent(<<x, y>>, Tail(toHost))
                BY <1>4, <2>5 DEF x, y
            <4> QED
                BY <2>1, <2>2, <4>1, <4>2, SentTwo
        <3> QED
            BY <1>1, <2>2, <2>5, <3>1 DEF x, y
    <2> QED
        BY <1>4, <2>3, <2>4, <2>5, ChannelCmdsCases
<1> QED
    BY <1>2, <1>3, <1>4 DEF HandleChannelSelect

(* Discord writes one message, or none. *)
LEMMA DispatchedOne ==
    ASSUME WireOK, NEW m \in Message, Dispatched(<<m>>)
    PROVE  toHost' \in Seq(Message) /\ toHost' = Append(toHost, m)
    BY AppendOf DEF WireOK, Dispatched

LEMMA DispatchedNone ==
    ASSUME WireOK, Dispatched(<<>>)
    PROVE  toHost' = toHost
    BY DEF WireOK, Dispatched

(* The first command has been handled. *)
LEMMA CommandHandled ==
    ASSUME WireOK, toDiscord # <<>>, toDiscord' = Tail(toDiscord), toHost' \in Seq(Message),
           UNCHANGED <<link, pending, due>>
    PROVE  WireOK'
<1>1. /\ Tail(toDiscord) \in Seq(Command) /\ Len(toDiscord) \in Nat \ {0}
      /\ Len(Tail(toDiscord)) = Len(toDiscord) - 1
      /\ \A n \in 1..(Len(toDiscord) - 1) : Tail(toDiscord)[n] = toDiscord[n + 1]
    BY TailOf DEF WireOK
<1>2. \A n \in 1..(Len(toDiscord) - 1) : n + 1 \in 1..Len(toDiscord)
    BY <1>1
<1>3. Len(toDiscord) - 1 <= MaxCmds
    BY <1>1, RpcAssumption DEF WireOK
<1> QED
    BY <1>1, <1>2, <1>3 DEF WireOK

(* What Discord answers to one command: the message and the session. *)
LEMMA HandlesTyped ==
    ASSUME Typed, DiscordHandles
    PROVE  WireOK' /\ SessionOK'
<1> USE TypedParts
<1>1. toDiscord # <<>> /\ UNCHANGED <<link, pending, due>>
    BY DEF DiscordHandles, Reply, timerVars
<1>2. Head(toDiscord) = toDiscord[1] /\ toDiscord[1] \in Command /\ 1 \in 1..Len(toDiscord)
    BY <1>1, TailOf DEF WireOK
<1>3. toDiscord' = Tail(toDiscord)
    BY DEF DiscordHandles, Reply
<1>4. toHost' \in Seq(Message)
    <2>1. CASE Reply(<<>>)
        BY <2>1, DispatchedNone DEF Reply, WireOK
    <2>2. CASE \E m \in Message : Reply(<<m>>)
        BY <2>2, DispatchedOne DEF Reply
    <2>3. ASSUME NEW b \in BOOLEAN
          PROVE  /\ Msg("ready", b, NoChannel, {}) \in Message
                 /\ Msg("authorize", b, NoChannel, {}) \in Message
                 /\ Msg("authenticate", b, NoChannel, {}) \in Message
        BY DEF Msg, Message, ChannelIds
    <2>4. ASSUME NEW us \in SUBSET Users PROVE Msg("selected", TRUE, voice, us) \in Message
        BY DEF Msg, Message, RestOK
    <2>5. {} \in SUBSET Users
        OBVIOUS
    <2> QED
        BY <2>1, <2>2, <2>3, <2>4, <2>5 DEF DiscordHandles
<1>5. SessionOK'
    <2>1. CASE UNCHANGED sessionVars
        BY <2>1 DEF sessionVars, SessionOK
    <2>2. CASE /\ Head(toDiscord).cmd \in {"SUBSCRIBE", "UNSUBSCRIBE"} /\ UNCHANGED <<authed, topSub>>
               /\ subs' = IF Head(toDiscord).cmd = "SUBSCRIBE" THEN subs \cup {Head(toDiscord).ch}
                                                            ELSE subs \ {Head(toDiscord).ch}
        BY <1>2, <2>2 DEF SessionOK, WireOK
    <2>3. CASE topSub' = TRUE /\ UNCHANGED <<authed, subs>>
        BY <2>3 DEF SessionOK
    <2>4. CASE UNCHANGED <<topSub, subs>> /\ \E ok \in BOOLEAN : authed' = (authed \/ ok)
        BY <2>4 DEF SessionOK
    <2> QED
        BY <2>1, <2>2, <2>3, <2>4 DEF DiscordHandles
<1> QED
    BY <1>1, <1>3, <1>4, <1>5, CommandHandled

LEMMA TypedNext == Typed /\ [Next]_vars => Typed'
<1> SUFFICES ASSUME Typed, [Next]_vars PROVE Typed'
    OBVIOUS
<1> USE TypedParts, TypedPartsNext
<1>0. NoChannel \in ChannelIds /\ {} \in SUBSET Users
    BY DEF ChannelIds
<1>1. CASE Launch
    <2>1. WireOK' /\ ClientOK' /\ SessionOK' /\ discordUp' \in BOOLEAN
        BY <1>1, TryConnectTyped DEF Launch, RestOK
    <2> QED
        BY <1>1, <2>1 DEF Launch, RestOK, overlayVars
<1>2. CASE PollReconnect
    <2>1. WireOK' /\ ClientOK' /\ SessionOK' /\ discordUp' \in BOOLEAN
        BY <1>2, TryConnectTyped DEF PollReconnect, RestOK
    <2> QED
        BY <1>2, <2>1 DEF PollReconnect, RestOK, overlayVars, nestVars
<1>3. CASE Start
    <2>1. WireOK' /\ ClientOK' /\ SessionOK' /\ discordUp' \in BOOLEAN
        BY <1>3, TryConnectTyped DEF Start, RestOK
    <2> QED
        BY <1>3, <2>1 DEF Start, RestOK, overlayVars, nestVars
<1>4. CASE Stop
    <2>1. WireOK'
        BY <1>4, CloseTyped DEF Stop
    <2> QED
        BY <1>0, <1>4, <2>1
           DEF Stop, RestOK, ClientOK, SessionOK, States, nestVars, overlayVars, sessionVars, worldVars
<1>5. CASE PollEof
    BY <1>5, ClosedTyped, OnClosedTyped
       DEF PollEof, RestOK, SessionOK, nestVars, overlayVars, sessionVars, worldVars
<1>6. CASE OnPing \/ OnReady
    <2>1. RestOK' /\ SessionOK' /\ toHost # <<>>
        BY <1>6
           DEF OnPing, OnReady, Arrived, RestOK, SessionOK, nestVars, overlayVars,
               sessionVars,
                    worldVars
    <2>2. CASE SendFails /\ OnClosed
        BY <2>1, <2>2, ClosedTyped, OnClosedTyped DEF SendFails
    <2>3. ASSUME NEW x \in {Pong, Authorize}, Sent(<<x>>, Tail(toHost)) PROVE WireOK'
        <3>1. x \in Command /\ x.cmd # "SUBSCRIBE"
            BY ConstantCommands DEF Pong, Authorize, Cmd
        <3> QED
            BY <2>1, <2>3, <3>1, HeadTyped, SentOne
    <2>4. CASE OnPing
        BY <1>6, <2>1, <2>2, <2>3, <2>4 DEF OnPing, ClientOK, clientVars
    <2>5. CASE OnReady
        BY <1>6, <2>1, <2>2, <2>3, <2>5 DEF OnReady, ClientOK, States
    <2> QED
        BY <1>6, <2>4, <2>5
<1>7. CASE OnAuthorizeReply
    <2>1. RestOK' /\ SessionOK' /\ toHost # <<>>
        BY <1>7
           DEF OnAuthorizeReply, Arrived, RestOK, SessionOK, overlayVars, sessionVars,
               worldVars
    <2>2. CASE GiveUp
        BY <2>1, <2>2, GiveUpTyped
    <2>3. CASE Ignored
        BY <2>1, <2>3, ConsumedTyped DEF Ignored, clientVars, ClientOK
    <2> QED
        BY <1>7, <2>2, <2>3 DEF OnAuthorizeReply
<1>8. CASE OnAuthenticateReply
    <2>1. RestOK' /\ SessionOK' /\ toHost # <<>>
        BY <1>8
           DEF OnAuthenticateReply, Arrived, RestOK, SessionOK, nestVars, overlayVars,
                    sessionVars, worldVars
    <2>2. CASE GiveUp
        BY <2>1, <2>2, GiveUpTyped
    <2>3. CASE Ignored
        BY <2>1, <2>3, ConsumedTyped DEF Ignored, clientVars, ClientOK
    <2>4. CASE SendFails /\ OnClosed
        BY <2>1, <2>4, ClosedTyped, OnClosedTyped DEF SendFails
    <2>5. CASE Sent(TopLevelCmds, Tail(toHost)) /\ state' = "Ready" /\ UNCHANGED subscribed
        <3>1. /\ SubscribeTop \in Command /\ GetSelected \in Command
              /\ SubscribeTop.cmd # "SUBSCRIBE" /\ GetSelected.cmd # "SUBSCRIBE"
            BY ConstantCommands DEF SubscribeTop, GetSelected, Cmd
        <3>2. WireOK'
            BY <2>1, <2>5, <3>1, HeadTyped, SentTwo DEF TopLevelCmds
        <3> QED
            BY <2>1, <2>5, <3>2 DEF ClientOK, States
    <2> QED
        BY <1>8, <2>2, <2>3, <2>4, <2>5 DEF OnAuthenticateReply
<1>9. CASE OnChannelSelect
    <2>1. toHost # <<>> /\ SessionOK'
        BY <1>9 DEF OnChannelSelect, Arrived, SessionOK, sessionVars
    <2>2. WireOK' /\ ClientOK'
        BY <1>9, <2>1, HeadTyped, SelectTyped DEF OnChannelSelect
    <2>3. shown' \in ChannelIds /\ roster' = {}
        BY <1>9, <2>1, HeadTyped DEF OnChannelSelect, Overlay!ChannelSelect
    <2> QED
        BY <1>0, <1>9, <2>1, <2>2, <2>3 DEF OnChannelSelect, RestOK, nestVars, worldVars
<1>10. CASE OnSelectedReply
    <2>1. toHost # <<>> /\ SessionOK' /\ UNCHANGED <<stopped, worldVars>>
        BY <1>10 DEF OnSelectedReply, Arrived, SessionOK, sessionVars
    <2>2. CASE Ignored /\ UNCHANGED <<nestVars, overlayVars>>
        BY <2>1, <2>2, ConsumedTyped
           DEF Ignored, clientVars, ClientOK, RestOK, nestVars, overlayVars, worldVars
    <2>3. CASE /\ Overlay!ChannelSelect(Head(toHost).ch) /\ HandleChannelSelect(Head(toHost).ch)
               /\ mode' = "seed" /\ seeds' = Head(toHost).users /\ seedOf' = Head(toHost).ch
        <3>1. WireOK' /\ ClientOK'
            BY <2>1, <2>3, HeadTyped, SelectTyped
        <3>2. shown' \in ChannelIds /\ roster' = {} /\ seeds' \in SUBSET Users /\ seedOf' \in ChannelIds
            BY <2>1, <2>3, HeadTyped DEF Overlay!ChannelSelect
        <3> QED
            BY <1>0, <2>1, <2>3, <3>1, <3>2 DEF RestOK, worldVars
    <2> QED
        BY <1>10, <2>2, <2>3 DEF OnSelectedReply
<1>11. CASE OnVoiceEvent
    <2>1. toHost # <<>> /\ SessionOK' /\ Ignored
        BY <1>11 DEF OnVoiceEvent, Arrived, SessionOK, sessionVars
    <2>2. WireOK' /\ ClientOK'
        BY <2>1, ConsumedTyped DEF Ignored, clientVars, ClientOK
    <2>3. roster' \in SUBSET Users /\ shown' = shown
        BY <1>11, <2>1, HeadTyped
           DEF OnVoiceEvent, RestOK, Overlay!VoiceUpsert, Overlay!VoiceDelete
    <2> QED
        BY <1>11, <2>1, <2>2, <2>3 DEF OnVoiceEvent, RestOK, worldVars
<1>12. CASE OnNotification
    <2>1. toHost # <<>> /\ SessionOK' /\ Ignored
        BY <1>12 DEF OnNotification, Arrived, SessionOK, sessionVars
    <2>2. WireOK' /\ ClientOK'
        BY <2>1, ConsumedTyped DEF Ignored, clientVars, ClientOK
    <2> QED
        BY <1>12, <2>1, <2>2 DEF OnNotification, RestOK, overlayVars, worldVars
<1>13. CASE SeedNext \/ FetchDone \/ DelayElapses \/ DiscordStarts
    <2>1. UNCHANGED <<clientVars, sessionVars, wireVars, pending, stopped, voice>>
        BY <1>13
           DEF SeedNext, FetchDone, DelayElapses, DiscordStarts, timerVars, worldVars
    <2>2. due' \in BOOLEAN /\ discordUp' \in BOOLEAN
        BY <1>13
           DEF SeedNext, FetchDone, DelayElapses, DiscordStarts, timerVars, worldVars,
               WireOK,
                     RestOK
    <2>3. /\ mode' \in {"boot", "loop", "seed", "exchange", "fetch"}
          /\ seeds' \in SUBSET Users /\ seedOf' \in ChannelIds
          /\ shown' \in ChannelIds /\ roster' \in SUBSET Users
        BY <1>0, <1>13
           DEF SeedNext, FetchDone, DelayElapses, DiscordStarts, nestVars, overlayVars,
                           RestOK, Overlay!VoiceUpsert
    <2> QED
        BY <2>1, <2>2, <2>3
           DEF clientVars, sessionVars, wireVars, WireOK, ClientOK, RestOK, SessionOK
<1>14. ASSUME NEW ok \in BOOLEAN, ExchangeDone(ok) PROVE Typed'
    <2>1. RestOK' /\ SessionOK'
        BY <1>14 DEF ExchangeDone, RestOK, SessionOK, overlayVars, sessionVars, worldVars
    <2>2. CASE GiveUp
        BY <2>1, <2>2, GiveUpTyped
    <2>3. CASE Sent(<<Authenticate>>, toHost) /\ UNCHANGED clientVars
        <3>1. Authenticate \in Command /\ Authenticate.cmd # "SUBSCRIBE"
            BY ConstantCommands DEF Authenticate, Cmd
        <3>2. WireOK'
            BY <2>3, <3>1, SentOne DEF WireOK
        <3> QED
            BY <2>1, <2>3, <3>2 DEF ClientOK, clientVars
    <2>4. CASE SendFails /\ OnClosed
        BY <2>1, <2>4, ClosedTyped, OnClosedTyped DEF SendFails
    <2>5. CASE UNCHANGED <<clientVars, pending, due, wireVars>>
        BY <2>1, <2>5 DEF clientVars, wireVars, WireOK, ClientOK
    <2> QED
        BY <1>14, <2>2, <2>3, <2>4, <2>5 DEF ExchangeDone
<1>15. CASE DiscordHandles
    BY <1>15, HandlesTyped
       DEF DiscordHandles, clientVars, timerVars, nestVars, overlayVars, worldVars, ClientOK, RestOK
<1>16. CASE DiscordCloses
    <2>1. toDiscord' \in Seq(Command) /\ Len(toDiscord') = 0 /\ UNCHANGED <<toHost, timerVars>>
        BY <1>16 DEF DiscordCloses
    <2>2. link' \in {"none", "up", "hup"} /\ discordUp' \in BOOLEAN
        BY <1>16 DEF DiscordCloses, WireOK, RestOK
    <2>3. WireOK'
        BY <2>1, <2>2, RpcAssumption DEF WireOK, timerVars
    <2> QED
        BY <1>16, <2>2, <2>3
           DEF DiscordCloses, clientVars, timerVars, nestVars, overlayVars,
           sessionVars, ClientOK, RestOK, SessionOK
<1>17. ASSUME NEW c \in ChannelIds, UserMoves(c) PROVE Typed'
    <2>1. Msg("select", TRUE, c, {}) \in Message
        BY DEF Msg, Message
    <2>2. toHost' \in Seq(Message)
        BY <1>17, <2>1, DispatchedOne, DispatchedNone DEF UserMoves, WireOK
    <2>3. UNCHANGED <<link, toDiscord, pending, due>>
        BY <1>17 DEF UserMoves, timerVars
    <2>4. WireOK'
        BY <2>2, <2>3 DEF WireOK
    <2> QED
        BY <1>17, <2>4
           DEF UserMoves, clientVars, timerVars, nestVars, overlayVars, sessionVars,
                           ClientOK, RestOK, SessionOK
<1>18. ASSUME NEW m \in Message, Dispatched(<<m>>),
              UNCHANGED <<clientVars, timerVars, nestVars, link, toDiscord, overlayVars,
                          sessionVars, worldVars>>
       PROVE  Typed'
    <2>1. toHost' \in Seq(Message)
        BY <1>18, DispatchedOne
    <2> QED
        BY <1>18, <2>1
           DEF clientVars, timerVars, nestVars, overlayVars, sessionVars, worldVars,
                           WireOK, ClientOK, RestOK, SessionOK
<1>19. ASSUME NEW u \in Users, NEW joins \in BOOLEAN, MemberMoves(u, joins) PROVE Typed'
    <2>1. Msg("voice", joins, NoChannel, {u}) \in Message
        BY DEF Msg, Message, ChannelIds
    <2> QED
        BY <1>18, <1>19, <2>1 DEF MemberMoves
<1>20. ASSUME NEW kind \in {"ping", "notification"}, DiscordSends(kind) PROVE Typed'
    <2>1. Msg(kind, TRUE, NoChannel, {}) \in Message
        BY DEF Msg, Message, ChannelIds
    <2> QED
        BY <1>18, <1>20, <2>1 DEF DiscordSends
<1>21. CASE UNCHANGED vars
    BY <1>21 DEF vars, WireOK, ClientOK, RestOK, SessionOK
<1> QED
    BY <1>1, <1>2, <1>3, <1>4, <1>5, <1>6, <1>7, <1>8, <1>9, <1>10, <1>11, <1>12, <1>13,
       <1>14,
       <1>15, <1>16, <1>17, <1>19, <1>20, <1>21
       DEF Next, HostStep

-----------------------------------------------------------------------------
(* The parts about the host alone are kept *)

(* What try_connect leaves to the timer. *)
LEMMA TryConnectRetries ==
    ASSUME TryConnect
    PROVE  /\ \/ link' = "none" /\ pending' = TRUE
              \/ link' = "up" /\ pending' = FALSE
           /\ subscribed' = NoChannel
    BY DEF TryConnect, CloseSocket

(* How a handler leaves the socket: as it is, or closed and rescheduled. *)
Kept   == UNCHANGED <<link, pending>>
Closed == link' = "none" /\ ScheduleReconnect

LEMMA HandlerWires ==
    ASSUME \/ OnPing \/ OnReady \/ OnAuthorizeReply \/ OnAuthenticateReply
           \/ OnChannelSelect \/ OnSelectedReply \/ OnVoiceEvent \/ OnNotification
           \/ PollEof \/ \E ok \in BOOLEAN : ExchangeDone(ok)
    PROVE  /\ Kept \/ Closed
           /\ stopped' = stopped /\ mode \in {"loop", "exchange"} /\ mode' # "boot"
<1>1. stopped' = stopped /\ mode \in {"loop", "exchange"} /\ mode' # "boot"
    BY DEF OnPing, OnReady, OnAuthorizeReply, OnAuthenticateReply, OnChannelSelect,
           OnSelectedReply, OnVoiceEvent, OnNotification, PollEof, ExchangeDone, Arrived,
           CanPoll, nestVars
<1>2. CASE Consumed \/ GiveUp \/ HandleClosed
    BY <1>1, <1>2 DEF Consumed, GiveUp, HandleClosed, CloseSocket, Kept, Closed
<1>3. ASSUME NEW cmds, NEW rest, Sent(cmds, rest) PROVE Kept
    BY <1>3 DEF Sent, Kept
<1>4. CASE UNCHANGED <<pending, wireVars>>
    BY <1>1, <1>4 DEF wireVars, Kept
<1>5. CASE PollEof
    BY <1>2, <1>5 DEF PollEof
<1>6. CASE OnPing \/ OnReady
    BY <1>1, <1>2, <1>3, <1>6 DEF OnPing, OnReady, SendFails
<1>7. CASE OnAuthorizeReply \/ OnAuthenticateReply
    BY <1>1, <1>2, <1>3, <1>7
       DEF OnAuthorizeReply, OnAuthenticateReply, SendFails, Ignored
<1>8. CASE OnVoiceEvent \/ OnNotification
    BY <1>2, <1>8 DEF OnVoiceEvent, OnNotification, Ignored
<1>9. ASSUME NEW c, HandleChannelSelect(c) PROVE Kept \/ Closed
    BY <1>2, <1>3, <1>9 DEF HandleChannelSelect, SendFails
<1>10. CASE OnChannelSelect \/ OnSelectedReply
    BY <1>1, <1>2, <1>9, <1>10 DEF OnChannelSelect, OnSelectedReply, Ignored
<1>11. ASSUME NEW ok \in BOOLEAN, ExchangeDone(ok) PROVE Kept \/ Closed
    BY <1>2, <1>3, <1>4, <1>11 DEF ExchangeDone, SendFails
<1> QED
    BY <1>1, <1>5, <1>6, <1>7, <1>8, <1>10, <1>11

LEMMA RetryingNext == Typed /\ Retrying /\ [Next]_vars => Retrying'
<1> SUFFICES ASSUME Typed, Retrying, [Next]_vars PROVE Retrying'
    OBVIOUS
<1> USE DEF Retrying, NeverStranded
<1>1. CASE Launch \/ PollReconnect \/ Start
    <2>1. TryConnect /\ ~stopped' /\ mode' # "boot"
        BY <1>1 DEF Launch, PollReconnect, Start, CanPoll, InEventLoop, nestVars
    <2> QED
        BY <2>1, TryConnectRetries
<1>2. CASE Stop
    BY <1>2 DEF Stop, InEventLoop, CloseSocket, nestVars
<1>3. CASE \/ OnPing \/ OnReady \/ OnAuthorizeReply \/ OnAuthenticateReply
           \/ OnChannelSelect \/ OnSelectedReply \/ OnVoiceEvent \/ OnNotification
           \/ PollEof \/ \E ok \in BOOLEAN : ExchangeDone(ok)
    <2>1. (Kept \/ Closed) /\ stopped' = stopped /\ mode # "boot" /\ mode' # "boot"
        BY <1>3, HandlerWires
    <2>2. CASE Kept
        BY <2>1, <2>2 DEF Kept
    <2>3. CASE Closed /\ stopped
        BY <2>1, <2>3 DEF Closed, ScheduleReconnect
    <2>4. CASE Closed /\ ~stopped
        BY <2>1, <2>4 DEF Closed, ScheduleReconnect
    <2> QED
        BY <2>1, <2>2, <2>3, <2>4
<1>4. CASE SeedNext \/ FetchDone
    BY <1>4 DEF SeedNext, FetchDone, timerVars, wireVars
<1>5. CASE DelayElapses \/ DiscordStarts \/ DiscordHandles
    <2>1. CASE DelayElapses \/ DiscordStarts
        BY <2>1 DEF DelayElapses, DiscordStarts, timerVars, wireVars, nestVars
    <2>2. CASE DiscordHandles
        <3>1. UNCHANGED <<link, stopped, pending, mode>>
            BY <2>2 DEF DiscordHandles, Reply, timerVars, nestVars
        <3> QED
            BY <3>1
    <2> QED
        BY <1>5, <2>1, <2>2
<1>6. CASE DiscordCloses
    BY <1>6 DEF DiscordCloses, timerVars, nestVars
<1>7. CASE UNCHANGED <<mode, link, stopped, pending>>
    BY <1>7
<1> QED
    BY <1>1, <1>2, <1>3, <1>4, <1>5, <1>6, <1>7
       DEF Next, HostStep, UserMoves, MemberMoves, DiscordSends, timerVars, nestVars, vars

LEMMA SeedingNext == Seeding /\ [Next]_vars => Seeding'
<1> SUFFICES ASSUME Seeding, [Next]_vars PROVE Seeding'
    OBVIOUS
<1> USE DEF Seeding, SeedsGoToTheirChannel
<1>1. CASE OnSelectedReply
    BY <1>1 DEF OnSelectedReply, nestVars, overlayVars, Overlay!ChannelSelect
<1>2. CASE SeedNext
    BY <1>2 DEF SeedNext, Overlay!VoiceUpsert, overlayVars
<1>3. CASE FetchDone
    BY <1>3 DEF FetchDone, overlayVars
<1>4. CASE mode \notin {"seed", "fetch"} /\ UNCHANGED seeds
    BY <1>4
<1>5. CASE UNCHANGED <<nestVars, shown>>
    BY <1>5 DEF nestVars
<1> QED
    BY <1>1, <1>2, <1>3, <1>4, <1>5
       DEF Next, HostStep, vars, Launch, PollReconnect, PollEof, OnPing, OnReady, OnAuthorizeReply,
           OnAuthenticateReply, OnChannelSelect, OnVoiceEvent, OnNotification, ExchangeDone,
           DelayElapses, Stop, Start, DiscordHandles, DiscordCloses, DiscordStarts, UserMoves,
           MemberMoves, DiscordSends, Arrived, CanPoll, nestVars, overlayVars

LEMMA ShowingNext == Showing /\ [Next]_vars => Showing'
<1> SUFFICES ASSUME Showing, [Next]_vars PROVE Showing'
    OBVIOUS
<1> USE DEF Showing
<1>1. CASE subscribed' = NoChannel
    BY <1>1
<1>2. CASE UNCHANGED <<subscribed, shown>>
    BY <1>2
<1>3. CASE subscribed' = shown'
    BY <1>3
<1>4. ASSUME TryConnect PROVE subscribed' = NoChannel
    BY <1>4 DEF TryConnect
<1>5. CASE Launch \/ PollReconnect \/ Start
    BY <1>1, <1>4, <1>5 DEF Launch, PollReconnect, Start
<1>6. CASE Stop \/ PollEof
    BY <1>1, <1>6 DEF Stop, PollEof, OnClosed
<1>7. CASE OnPing \/ OnReady
    BY <1>1, <1>2, <1>7 DEF OnPing, OnReady, OnClosed, clientVars, overlayVars
<1>8. CASE OnAuthorizeReply \/ OnAuthenticateReply
    BY <1>1, <1>2, <1>8
       DEF OnAuthorizeReply, OnAuthenticateReply, OnClosed, GiveUp, Ignored, clientVars, overlayVars
<1>9. ASSUME NEW ok \in BOOLEAN, ExchangeDone(ok) PROVE Showing'
    BY <1>1, <1>2, <1>9 DEF ExchangeDone, OnClosed, GiveUp, clientVars, overlayVars
<1>10. CASE OnChannelSelect \/ OnSelectedReply
    BY <1>2, <1>3, <1>10
       DEF OnChannelSelect, OnSelectedReply, HandleChannelSelect, Overlay!ChannelSelect, Ignored,
           clientVars, overlayVars
<1>11. CASE OnVoiceEvent \/ OnNotification \/ SeedNext \/ FetchDone
    BY <1>2, <1>11
       DEF OnVoiceEvent, OnNotification, SeedNext, FetchDone, Overlay!VoiceUpsert,
           Overlay!VoiceDelete, Ignored, clientVars, overlayVars
<1> QED
    BY <1>2, <1>5, <1>6, <1>7, <1>8, <1>9, <1>10, <1>11
       DEF Next, HostStep, vars, DelayElapses, DiscordHandles, DiscordCloses, DiscordStarts,
           UserMoves, MemberMoves, DiscordSends, clientVars, overlayVars

-----------------------------------------------------------------------------
(* How the parts of the session's invariant follow the queues *)

LEMMA NoCmdTail ==
    ASSUME NEW q \in Seq(Command), q # <<>>, NEW names, NoCmd(q, names)
    PROVE  NoCmd(Tail(q), names)
<1>1. /\ Len(q) \in Nat \ {0} /\ Len(Tail(q)) = Len(q) - 1
      /\ \A n \in 1..(Len(q) - 1) : Tail(q)[n] = q[n + 1]
    BY TailOf
<1>2. \A n \in 1..(Len(q) - 1) : n + 1 \in 1..Len(q)
    BY <1>1
<1> QED
    BY <1>1, <1>2 DEF NoCmd

LEMMA NoMsgTail ==
    ASSUME NEW q \in Seq(Message), q # <<>>, NEW kinds, NoMsg(q, kinds)
    PROVE  NoMsg(Tail(q), kinds)
<1>1. /\ Len(q) \in Nat \ {0} /\ Len(Tail(q)) = Len(q) - 1
      /\ \A n \in 1..(Len(q) - 1) : Tail(q)[n] = q[n + 1]
    BY TailOf
<1>2. \A n \in 1..(Len(q) - 1) : n + 1 \in 1..Len(q)
    BY <1>1
<1> QED
    BY <1>1, <1>2 DEF NoMsg

LEMMA NoCmdAppend ==
    ASSUME NEW q \in Seq(Command), NEW x \in Command, NEW names, NoCmd(q, names),
           x.cmd \notin names
    PROVE  NoCmd(Append(q, x), names)
<1>1. /\ Len(q) \in Nat /\ Len(Append(q, x)) = Len(q) + 1 /\ Append(q, x)[Len(q) + 1] = x
      /\ \A n \in 1..Len(q) : Append(q, x)[n] = q[n]
    BY AppendOf
<1>2. \A n \in 1..(Len(q) + 1) : n \in 1..Len(q) \/ n = Len(q) + 1
    BY <1>1
<1> QED
    BY <1>1, <1>2 DEF NoCmd

LEMMA NoMsgAppend ==
    ASSUME NEW q \in Seq(Message), NEW x \in Message, NEW kinds, NoMsg(q, kinds),
           x.type \notin kinds
    PROVE  NoMsg(Append(q, x), kinds)
<1>1. /\ Len(q) \in Nat /\ Len(Append(q, x)) = Len(q) + 1 /\ Append(q, x)[Len(q) + 1] = x
      /\ \A n \in 1..Len(q) : Append(q, x)[n] = q[n]
    BY AppendOf
<1>2. \A n \in 1..(Len(q) + 1) : n \in 1..Len(q) \/ n = Len(q) + 1
    BY <1>1
<1> QED
    BY <1>1, <1>2 DEF NoMsg

(* Other commands sent behind the subscription and the query do not matter. *)
LEMMA OpeningAppend ==
    ASSUME NEW q \in Seq(Command), NEW x \in Command, x.cmd \notin Opening
    PROVE  /\ AskedIn(q) => AskedIn(Append(q, x))
           /\ QueriedIn(q) => QueriedIn(Append(q, x))
           /\ NoCmd(q, Opening) => NoCmd(Append(q, x), Opening)
<1> DEFINE r == Append(q, x)
<1>1. /\ Len(q) \in Nat /\ Len(r) = Len(q) + 1 /\ r[Len(q) + 1] = x
      /\ \A n \in 1..Len(q) : r[n] = q[n]
    BY AppendOf
<1>2. \A n \in 1..(Len(q) + 1) : n \in 1..Len(q) \/ n = Len(q) + 1
    BY <1>1
<1>3. \A n \in 1..Len(q) : n \in 1..(Len(q) + 1)
    BY <1>1
<1> HIDE DEF r
<1>4. ASSUME AskedIn(q) PROVE AskedIn(r)
    <2>1. PICK i \in 1..Len(q) :
              /\ i + 1 \in 1..Len(q)
              /\ q[i].cmd = "SUBSCRIBE_TOP" /\ q[i + 1].cmd = "GET_SELECTED"
              /\ \A n \in 1..Len(q) : q[n].cmd \in Opening => n = i \/ n = i + 1
        BY <1>4 DEF AskedIn
    <2>2. \A n \in 1..Len(r) : r[n].cmd \in Opening => n = i \/ n = i + 1
        BY <1>1, <1>2, <2>1
    <2>3. i \in 1..Len(r) /\ i + 1 \in 1..Len(r) /\ r[i] = q[i] /\ r[i + 1] = q[i + 1]
        BY <1>1, <1>3, <2>1
    <2> QED
        BY <2>1, <2>2, <2>3 DEF AskedIn
<1>5. ASSUME QueriedIn(q) PROVE QueriedIn(r)
    <2>1. PICK i \in 1..Len(q) : /\ q[i].cmd = "GET_SELECTED"
                                 /\ \A n \in 1..Len(q) : q[n].cmd \in Opening => n = i
        BY <1>5 DEF QueriedIn
    <2>2. \A n \in 1..Len(r) : r[n].cmd \in Opening => n = i
        BY <1>1, <1>2, <2>1
    <2>3. i \in 1..Len(r) /\ r[i] = q[i]
        BY <1>1, <1>3
    <2> QED
        BY <2>1, <2>2, <2>3 DEF QueriedIn
<1> QED
    BY <1>4, <1>5, NoCmdAppend DEF r

(* Discord handles them in turn. *)
LEMMA OpeningTail ==
    ASSUME NEW q \in Seq(Command), q # <<>>
    PROVE  /\ AskedIn(q) => \/ q[1].cmd = "SUBSCRIBE_TOP" /\ QueriedIn(Tail(q))
                            \/ q[1].cmd \notin Opening /\ AskedIn(Tail(q))
           /\ QueriedIn(q) => \/ q[1].cmd = "GET_SELECTED" /\ NoCmd(Tail(q), Opening)
                              \/ q[1].cmd \notin Opening /\ QueriedIn(Tail(q))
           /\ NoCmd(q, Opening) => q[1].cmd \notin Opening /\ NoCmd(Tail(q), Opening)
<1> DEFINE r == Tail(q)
           N == Len(q)
<1>1. N \in Nat \ {0} /\ Len(r) = N - 1 /\ \A n \in 1..(N - 1) : r[n] = q[n + 1]
    BY TailOf
<1>2. 1 \in 1..N /\ \A n \in 1..(N - 1) : n + 1 \in 1..N
    BY <1>1
<1> HIDE DEF r, N
<1>3. ASSUME AskedIn(q)
      PROVE  \/ q[1].cmd = "SUBSCRIBE_TOP" /\ QueriedIn(r)
             \/ q[1].cmd \notin Opening /\ AskedIn(r)
    <2>1. PICK i \in 1..N :
              /\ i + 1 \in 1..N
              /\ q[i].cmd = "SUBSCRIBE_TOP" /\ q[i + 1].cmd = "GET_SELECTED"
              /\ \A n \in 1..N : q[n].cmd \in Opening => n = i \/ n = i + 1
        BY <1>3 DEF AskedIn, N
    <2>2. CASE i = 1
        <3>1. 1 \in 1..(N - 1) /\ r[1] = q[2] /\ i + 1 = 2
            BY <1>1, <2>1, <2>2
        <3>2. ASSUME NEW n \in 1..(N - 1), r[n].cmd \in Opening PROVE n = 1
            <4>1. n + 1 = i \/ n + 1 = i + 1
                BY <1>1, <1>2, <2>1, <3>2
            <4> QED
                BY <1>1, <2>2, <4>1
        <3> QED
            BY <1>1, <2>1, <2>2, <3>1, <3>2 DEF QueriedIn
    <2>3. CASE i # 1
        <3>1. /\ i - 1 \in 1..(N - 1) /\ (i - 1) + 1 = i /\ (i - 1) + 1 \in 1..(N - 1)
              /\ i + 1 # 1
            BY <1>1, <2>1, <2>3
        <3>2. q[1].cmd \notin Opening
            BY <1>2, <2>1, <2>3, <3>1
        <3>3. r[i - 1] = q[i] /\ r[(i - 1) + 1] = q[i + 1]
            BY <1>1, <3>1
        <3>4. ASSUME NEW n \in 1..(N - 1), r[n].cmd \in Opening
              PROVE  n = i - 1 \/ n = (i - 1) + 1
            <4>1. n + 1 = i \/ n + 1 = i + 1
                BY <1>1, <1>2, <2>1, <3>4
            <4> QED
                BY <1>1, <3>1, <4>1
        <3> QED
            BY <1>1, <2>1, <3>1, <3>2, <3>3, <3>4 DEF AskedIn
    <2> QED
        BY <2>2, <2>3
<1>4. ASSUME QueriedIn(q)
      PROVE  \/ q[1].cmd = "GET_SELECTED" /\ NoCmd(r, Opening)
             \/ q[1].cmd \notin Opening /\ QueriedIn(r)
    <2>1. PICK i \in 1..N : /\ q[i].cmd = "GET_SELECTED"
                            /\ \A n \in 1..N : q[n].cmd \in Opening => n = i
        BY <1>4 DEF QueriedIn, N
    <2>2. CASE i = 1
        <3>1. ASSUME NEW n \in 1..(N - 1) PROVE r[n].cmd \notin Opening
            <4>1. n + 1 # 1 /\ n + 1 \in 1..N
                BY <1>1
            <4> QED
                BY <1>1, <2>1, <2>2, <4>1
        <3> QED
            BY <1>1, <2>1, <2>2, <3>1 DEF NoCmd
    <2>3. CASE i # 1
        <3>1. i - 1 \in 1..(N - 1) /\ (i - 1) + 1 = i
            BY <1>1, <2>3
        <3>2. q[1].cmd \notin Opening
            BY <1>2, <2>1, <2>3
        <3>3. r[i - 1] = q[i]
            BY <1>1, <3>1
        <3>4. ASSUME NEW n \in 1..(N - 1), r[n].cmd \in Opening PROVE n = i - 1
            <4>1. n + 1 = i
                BY <1>1, <1>2, <2>1, <3>4
            <4> QED
                BY <1>1, <3>1, <4>1
        <3> QED
            BY <1>1, <2>1, <3>1, <3>2, <3>3, <3>4 DEF QueriedIn
    <2> QED
        BY <2>2, <2>3
<1>5. ASSUME NoCmd(q, Opening) PROVE q[1].cmd \notin Opening /\ NoCmd(r, Opening)
    BY <1>2, <1>5, NoCmdTail DEF NoCmd, N, r
<1> QED
    BY <1>3, <1>4, <1>5 DEF r

(* A message that Discord sends is where the queue ends, or leaves that. *)
LEMMA EndsAppend ==
    ASSUME NEW s, NEW q \in Seq(Message), NEW x \in Message
    PROVE  /\ x.type \in MoveKinds => Ends(s, Append(q, x), x.ch)
           /\ \A c : x.type \notin MoveKinds /\ Ends(s, q, c) => Ends(s, Append(q, x), c)
<1> DEFINE r == Append(q, x)
<1>1. /\ Len(q) \in Nat /\ Len(r) = Len(q) + 1 /\ r[Len(q) + 1] = x
      /\ \A n \in 1..Len(q) : r[n] = q[n]
    BY AppendOf
<1> HIDE DEF r
<1>2. Len(q) + 1 \in Nat \ {0} /\ (Len(q) + 1) - 1 = Len(q)
    BY <1>1
<1>3. Moves(r, Len(q) + 1) <=> x.type \in MoveKinds
    BY <1>1 DEF Moves
<1>4. ASSUME x.type \in MoveKinds PROVE Ends(s, r, x.ch)
    BY <1>1, <1>2, <1>3, <1>4, EndsStep DEF Ends
<1>5. ASSUME NEW c, x.type \notin MoveKinds, Ends(s, q, c) PROVE Ends(s, r, c)
    <2>1. EndsAt(s, r, Len(q), c)
        BY <1>1, <1>5, EndsSame DEF Ends
    <2> QED
        BY <1>1, <1>2, <1>3, <1>5, <2>1, EndsStep DEF Ends
<1> QED
    BY <1>4, <1>5 DEF r

(* The client handles the first message. *)
LEMMA MovesTail ==
    ASSUME NEW s, NEW t, NEW q \in Seq(Message), q # <<>>,
           t = IF Moves(q, 1) THEN q[1].ch ELSE s
    PROVE  /\ \A c : Ends(s, q, c) => Ends(t, Tail(q), c)
           /\ RepliesFit(s, q) => RepliesFit(t, Tail(q))
<1> DEFINE r == Tail(q)
           N == Len(q)
<1>1. N \in Nat \ {0} /\ Len(r) = N - 1 /\ \A n \in 1..(N - 1) : r[n] = q[n + 1]
    BY TailOf
<1>2. ASSUME NEW n \in 1..N, NEW c, EndsAt(s, q, n, c) PROVE EndsAt(t, r, n - 1, c)
    BY <1>2, EndsTail
<1> HIDE DEF r, N
<1>3. N \in 1..N /\ \A n \in 1..(N - 1) : n + 1 \in 1..N /\ n \in 1..N /\ (n + 1) - 1 = n
    BY <1>1
<1>4. ASSUME NEW c, Ends(s, q, c) PROVE Ends(t, r, c)
    BY <1>1, <1>2, <1>3, <1>4 DEF Ends, N
<1>5. ASSUME RepliesFit(s, q), NEW n \in 1..(N - 1), r[n].type = "selected"
      PROVE  EndsAt(t, r, n - 1, r[n].ch) \/ EndsAt(t, r, n - 1, NoChannel)
    <2>1. r[n] = q[n + 1] /\ n + 1 \in 1..N /\ n \in 1..N /\ (n + 1) - 1 = n
        BY <1>1, <1>3
    <2>2. EndsAt(s, q, n, r[n].ch) \/ EndsAt(s, q, n, NoChannel)
        BY <1>5, <2>1 DEF RepliesFit, N
    <2> QED
        BY <1>2, <2>1, <2>2
<1>6. ASSUME RepliesFit(s, q) PROVE RepliesFit(t, r)
    BY <1>1, <1>5, <1>6 DEF RepliesFit
<1> QED
    BY <1>4, <1>6 DEF r

(* A reply that Discord sends fits behind what is in flight. *)
LEMMA FitsAppend ==
    ASSUME NEW s, NEW q \in Seq(Message), NEW x \in Message, RepliesFit(s, q),
           x.type = "selected" => Ends(s, q, x.ch) \/ Ends(s, q, NoChannel)
    PROVE  RepliesFit(s, Append(q, x))
<1> DEFINE r == Append(q, x)
<1>1. /\ Len(q) \in Nat /\ Len(r) = Len(q) + 1 /\ r[Len(q) + 1] = x
      /\ \A n \in 1..Len(q) : r[n] = q[n]
    BY AppendOf
<1> HIDE DEF r
<1>2. ASSUME NEW n \in 1..Len(r), r[n].type = "selected"
      PROVE  EndsAt(s, r, n - 1, r[n].ch) \/ EndsAt(s, r, n - 1, NoChannel)
    <2>1. n - 1 \in Nat /\ \A m \in 1..(n - 1) : r[m] = q[m]
        BY <1>1
    <2>2. EndsAt(s, q, n - 1, r[n].ch) \/ EndsAt(s, q, n - 1, NoChannel)
        <3>1. CASE n \in 1..Len(q)
            BY <1>1, <1>2, <3>1 DEF RepliesFit
        <3>2. CASE n = Len(q) + 1
            <4>1. n - 1 = Len(q)
                BY <1>1, <3>2
            <4> QED
                BY <1>1, <1>2, <3>2, <4>1 DEF Ends
        <3>3. n \in 1..Len(q) \/ n = Len(q) + 1
            BY <1>1
        <3> QED
            BY <3>1, <3>2, <3>3
    <2> QED
        BY <2>1, <2>2, EndsSame
<1> QED
    BY <1>2 DEF RepliesFit, r

LEMMA OnceTail ==
    /\ \A q \in Seq(Command) : q # <<>> /\ OnceCmd(q) =>
          /\ OnceCmd(Tail(q))
          /\ q[1].cmd = "HANDSHAKE" => NoCmd(Tail(q), {"HANDSHAKE"})
    /\ \A q \in Seq(Message) : q # <<>> /\ OnceMsg(q) =>
          /\ OnceMsg(Tail(q))
          /\ q[1].type = "ready" => NoMsg(Tail(q), {"ready"})
<1>1. ASSUME NEW S, NEW q \in Seq(S), q # <<>>
      PROVE  /\ Len(q) \in Nat \ {0} /\ Len(Tail(q)) = Len(q) - 1 /\ 1 \in 1..Len(q)
             /\ \A n \in 1..(Len(q) - 1) :
                   Tail(q)[n] = q[n + 1] /\ n + 1 \in 1..Len(q) /\ n + 1 # 1
             /\ \A m, n \in 1..(Len(q) - 1) : m + 1 = n + 1 => m = n
    <2>1. /\ Len(q) \in Nat \ {0} /\ Len(Tail(q)) = Len(q) - 1
          /\ \A n \in 1..(Len(q) - 1) : Tail(q)[n] = q[n + 1]
        BY <1>1, TailOf
    <2> QED
        BY <2>1
<1>2. ASSUME NEW q \in Seq(Command), q # <<>>, OnceCmd(q)
      PROVE  /\ OnceCmd(Tail(q))
             /\ q[1].cmd = "HANDSHAKE" => NoCmd(Tail(q), {"HANDSHAKE"})
    <2> DEFINE r == Tail(q)
    <2>1. /\ Len(q) \in Nat \ {0} /\ Len(r) = Len(q) - 1 /\ 1 \in 1..Len(q)
          /\ \A n \in 1..(Len(q) - 1) : r[n] = q[n + 1] /\ n + 1 \in 1..Len(q) /\ n + 1 # 1
          /\ \A m, n \in 1..(Len(q) - 1) : m + 1 = n + 1 => m = n
        BY <1>1, <1>2
    <2> HIDE DEF r
    <2>2. OnceCmd(r) /\ (q[1].cmd = "HANDSHAKE" => NoCmd(r, {"HANDSHAKE"}))
        BY <1>2, <2>1, ZenonT(60) DEF OnceCmd, NoCmd
    <2> QED
        BY <2>2 DEF r
<1>3. ASSUME NEW q \in Seq(Message), q # <<>>, OnceMsg(q)
      PROVE  /\ OnceMsg(Tail(q))
             /\ q[1].type = "ready" => NoMsg(Tail(q), {"ready"})
    <2> DEFINE r == Tail(q)
    <2>1. /\ Len(q) \in Nat \ {0} /\ Len(r) = Len(q) - 1 /\ 1 \in 1..Len(q)
          /\ \A n \in 1..(Len(q) - 1) : r[n] = q[n + 1] /\ n + 1 \in 1..Len(q) /\ n + 1 # 1
          /\ \A m, n \in 1..(Len(q) - 1) : m + 1 = n + 1 => m = n
        BY <1>1, <1>3
    <2> HIDE DEF r
    <2>2. OnceMsg(r) /\ (q[1].type = "ready" => NoMsg(r, {"ready"}))
        BY <1>3, <2>1, ZenonT(60) DEF OnceMsg, NoMsg
    <2> QED
        BY <2>2 DEF r
<1> QED
    BY <1>2, <1>3

LEMMA OnceAppend ==
    /\ \A q \in Seq(Command), x \in Command :
          OnceCmd(q) /\ x.cmd # "HANDSHAKE" => OnceCmd(Append(q, x))
    /\ \A q \in Seq(Message), x \in Message :
          /\ OnceMsg(q) /\ x.type # "ready" => OnceMsg(Append(q, x))
          /\ NoMsg(q, {"ready"}) => OnceMsg(Append(q, x))
<1>1. ASSUME NEW S, NEW q \in Seq(S), NEW x \in S
      PROVE  /\ Len(q) \in Nat /\ Len(Append(q, x)) = Len(q) + 1
             /\ Append(q, x)[Len(q) + 1] = x /\ \A n \in 1..Len(q) : Append(q, x)[n] = q[n]
             /\ \A n \in 1..(Len(q) + 1) : n \in 1..Len(q) \/ n = Len(q) + 1
    BY AppendOf
<1>2. ASSUME NEW q \in Seq(Command), NEW x \in Command, OnceCmd(q), x.cmd # "HANDSHAKE"
      PROVE  OnceCmd(Append(q, x))
    BY <1>1, <1>2 DEF OnceCmd
<1>3. ASSUME NEW q \in Seq(Message), NEW x \in Message
      PROVE  /\ OnceMsg(q) /\ x.type # "ready" => OnceMsg(Append(q, x))
             /\ NoMsg(q, {"ready"}) => OnceMsg(Append(q, x))
    BY <1>1, <1>3 DEF OnceMsg, NoMsg
<1> QED
    BY <1>2, <1>3

(* Every entry of a queue after a step was there before, or is new. *)
LEMMA EntriesOf ==
    ASSUME NEW S, NEW q \in Seq(S)
    PROVE  /\ q # <<>> => \A n \in 1..Len(Tail(q)) : \E m \in 1..Len(q) : Tail(q)[n] = q[m]
           /\ \A x \in S : \A n \in 1..Len(Append(q, x)) :
                 Append(q, x)[n] = x \/ \E m \in 1..Len(q) : Append(q, x)[n] = q[m]
<1>1. ASSUME q # <<>>, NEW n \in 1..Len(Tail(q))
      PROVE  \E m \in 1..Len(q) : Tail(q)[n] = q[m]
    <2>1. n + 1 \in 1..Len(q) /\ Tail(q)[n] = q[n + 1]
        BY <1>1, TailOf
    <2> QED
        BY <2>1
<1>2. ASSUME NEW x \in S, NEW n \in 1..Len(Append(q, x))
      PROVE  Append(q, x)[n] = x \/ \E m \in 1..Len(q) : Append(q, x)[n] = q[m]
    <2>1. n \in 1..Len(q) \/ n = Len(q) + 1
        BY AppendOf
    <2> QED
        BY <2>1, AppendOf
<1> QED
    BY <1>1, <1>2

(* What only an authenticated connection has is not made up. *)
LEMMA AuthenticStep ==
    ASSUME Authentic, authed => authed',
           state' \in {"Ready", "InChannel"} => authed' \/ state \in {"Ready", "InChannel"},
           topSub' => authed' \/ topSub,
           \A n \in 1..Len(toDiscord') :
              \/ toDiscord'[n].cmd = "SUBSCRIBE_TOP" => authed'
              \/ \E m \in 1..Len(toDiscord) : toDiscord'[n] = toDiscord[m],
           \A n \in 1..Len(toHost') :
              \/ Privileged(toHost'[n]) => authed'
              \/ \E m \in 1..Len(toHost) : toHost'[n] = toHost[m]
    PROVE  Authentic'
    BY DEF Authentic, Privileged

(* Nothing that matters to the session happens: a message that does not    *)
(* move the client may have been taken, a command that opens nothing sent. *)
LEMMA QuietHost ==
    ASSUME Typed, Live, link = "up", UNCHANGED <<state, subscribed, authed, topSub, subs, voice>>,
           \/ toHost' = toHost
           \/ toHost # <<>> /\ toHost[1].type \notin MoveKinds /\ toHost' = Tail(toHost),
           \/ toDiscord' = toDiscord
           \/ \E x \in {Pong, Authenticate} : toDiscord' = Append(toDiscord, x)
    PROVE  Live'
<1>0. toHost \in Seq(Message) /\ toDiscord \in Seq(Command)
    BY DEF Typed, TypeOK
<1>1. Authentic /\ Subscribing /\ Session
    BY DEF Live
<1>2. \A x \in {Pong, Authenticate} :
          /\ x \in Command /\ x.cmd \notin Opening
          /\ x.cmd \notin {"HANDSHAKE", "SUBSCRIBE", "UNSUBSCRIBE", "SUBSCRIBE_TOP"}
    BY ConstantCommands DEF Pong, Authenticate, Cmd, Opening
<1>3. Authentic'
    <2>1. \A n \in 1..Len(toDiscord') :
              \/ toDiscord'[n].cmd = "SUBSCRIBE_TOP" => authed'
              \/ \E m \in 1..Len(toDiscord) : toDiscord'[n] = toDiscord[m]
        <3>1. CASE toDiscord' = toDiscord
            BY <3>1
        <3>2. ASSUME NEW x \in {Pong, Authenticate}, toDiscord' = Append(toDiscord, x),
                     NEW n \in 1..Len(toDiscord')
              PROVE  \/ toDiscord'[n].cmd = "SUBSCRIBE_TOP" => authed'
                     \/ \E m \in 1..Len(toDiscord) : toDiscord'[n] = toDiscord[m]
            <4>1. x \in Command /\ x.cmd # "SUBSCRIBE_TOP"
                BY <1>2
            <4>2. toDiscord'[n] = x \/ \E m \in 1..Len(toDiscord) : toDiscord'[n] = toDiscord[m]
                BY <1>0, <3>2, <4>1, EntriesOf
            <4> QED
                BY <4>1, <4>2
        <3> QED
            BY <3>1, <3>2
    <2>2. \A n \in 1..Len(toHost') : \E m \in 1..Len(toHost) : toHost'[n] = toHost[m]
        BY <1>0, EntriesOf, SMTT(30)
    <2> QED
        BY <1>1, <2>1, <2>2, AuthenticStep
<1>4. Subscribing'
    <2>1. CASE toDiscord' = toDiscord
        BY <1>1, <2>1 DEF Subscribing
    <2>2. CASE \E x \in {Pong, Authenticate} : toDiscord' = Append(toDiscord, x)
        <3>1. PICK x \in {Pong, Authenticate} : toDiscord' = Append(toDiscord, x)
            BY <2>2
        <3>2. x \in Command /\ x.cmd \notin {"SUBSCRIBE", "UNSUBSCRIBE"}
            BY <1>2
        <3>3. Len(toDiscord') = Len(toDiscord) + 1
            BY <1>0, <3>1, <3>2, AppendOf
        <3>4. \A c \in Channels : HoldsTo(subs, Append(toDiscord, x), Len(toDiscord) + 1, c)
                                    <=> HoldsTo(subs, toDiscord, Len(toDiscord), c)
            BY <1>0, <3>2, HoldsAppend
        <3> QED
            BY <1>1, <3>1, <3>3, <3>4 DEF Subscribing
    <2> QED
        BY <2>1, <2>2
<1>5. /\ NoCmd(toDiscord, {"HANDSHAKE"}) => NoCmd(toDiscord', {"HANDSHAKE"})
      /\ NoCmd(toDiscord, Opening) => NoCmd(toDiscord', Opening)
      /\ OnceCmd(toDiscord) => OnceCmd(toDiscord')
      /\ AskedIn(toDiscord) => AskedIn(toDiscord')
      /\ QueriedIn(toDiscord) => QueriedIn(toDiscord')
    <2>1. CASE toDiscord' = toDiscord
        BY <2>1
    <2>2. ASSUME NEW x \in {Pong, Authenticate}, toDiscord' = Append(toDiscord, x)
          PROVE  /\ NoCmd(toDiscord, {"HANDSHAKE"}) => NoCmd(toDiscord', {"HANDSHAKE"})
                 /\ NoCmd(toDiscord, Opening) => NoCmd(toDiscord', Opening)
                 /\ OnceCmd(toDiscord) => OnceCmd(toDiscord')
                 /\ AskedIn(toDiscord) => AskedIn(toDiscord')
                 /\ QueriedIn(toDiscord) => QueriedIn(toDiscord')
        <3>1. x \in Command /\ x.cmd \notin Opening /\ x.cmd \notin {"HANDSHAKE"}
            BY <1>2
        <3> QED
            BY <1>0, <2>2, <3>1, OpeningAppend, OnceAppend, NoCmdAppend
    <2> QED
        BY <2>1, <2>2
<1>6. /\ NoMsg(toHost, {"ready"}) => NoMsg(toHost', {"ready"})
      /\ NoMsg(toHost, MoveKinds) => NoMsg(toHost', MoveKinds)
      /\ OnceMsg(toHost) => OnceMsg(toHost')
      /\ \A c : Ends(subscribed, toHost, c) => Ends(subscribed, toHost', c)
      /\ RepliesFit(subscribed, toHost) => RepliesFit(subscribed, toHost')
    <2>1. CASE toHost' = toHost
        BY <2>1
    <2>2. CASE toHost # <<>> /\ toHost[1].type \notin MoveKinds /\ toHost' = Tail(toHost)
        <3>1. subscribed = IF Moves(toHost, 1) THEN toHost[1].ch ELSE subscribed
            BY <2>2 DEF Moves
        <3>2. /\ \A c : Ends(subscribed, toHost, c) => Ends(subscribed, Tail(toHost), c)
              /\ RepliesFit(subscribed, toHost) => RepliesFit(subscribed, Tail(toHost))
            BY <1>0, <2>2, <3>1, MovesTail
        <3> QED
            BY <1>0, <2>2, <3>2, NoMsgTail, OnceTail
    <2> QED
        BY <2>1, <2>2
<1>7. Session'
    <2>1. Greeting => Greeting'
        BY <1>5, <1>6 DEF Greeting, OneHello, NoHello
    <2>2. Running => Running'
        BY <1>5, <1>6 DEF Running, NoHello, Asking, Querying, Following
    <2> QED
        BY <1>1, <2>1, <2>2 DEF Session
<1> QED
    BY <1>3, <1>4, <1>7 DEF Live

(* try_connect got a socket: nothing is left of the previous session. *)
LEMMA FreshConnection ==
    ASSUME TryConnect, link' = "up"
    PROVE  Live'
<1>1. /\ toDiscord' = <<Handshake>> /\ toHost' = <<>> /\ state' = "Connecting"
      /\ subscribed' = NoChannel /\ subs' = {} /\ topSub' = FALSE
    BY DEF TryConnect, CloseSocket
<1>2. /\ Len(toDiscord') = 1 /\ Len(toHost') = 0 /\ toDiscord'[1] = Handshake
      /\ Handshake.cmd = "HANDSHAKE" /\ Handshake.cmd \notin Opening
    BY <1>1 DEF Handshake, Cmd, Opening
<1>3. /\ \A n \in 1..1 : n = 1
      /\ \A n \in 1..0 : FALSE
    OBVIOUS
<1>4. Authentic'
    BY <1>1, <1>2, <1>3 DEF Authentic
<1>5. Subscribing'
    <2>1. ASSUME NEW c PROVE ~HoldsTo(subs', toDiscord', 1, c)
        BY <1>1, <1>2, <1>3 DEF HoldsTo, Names
    <2>2. \A c \in Channels : c # NoChannel
        BY RpcAssumption
    <2> QED
        BY <1>1, <1>2, <2>1, <2>2 DEF Subscribing
<1>6. OneHello' /\ NoMsg(toHost', MoveKinds) /\ NoCmd(toDiscord', Opening)
    BY <1>2, <1>3 DEF OneHello, OnceCmd, OnceMsg, NoMsg, NoCmd
<1>7. Session'
    BY <1>1, <1>6 DEF Session, Greeting
<1> QED
    BY <1>4, <1>5, <1>7 DEF Live

(* READY is answered with AUTHORIZE. *)
LEMMA ReadyAnswered ==
    ASSUME Typed, Live, link = "up", toHost # <<>>, toHost[1].type = "ready",
           UNCHANGED <<subscribed, authed, topSub, subs, voice>>, state' = "Authorizing",
           toHost' = Tail(toHost), toDiscord' = Append(toDiscord, Authorize)
    PROVE  Live'
<1>0. toHost \in Seq(Message) /\ toDiscord \in Seq(Command) /\ 1 \in 1..Len(toHost)
    BY TailOf DEF Typed, TypeOK
<1>1. Authentic /\ Subscribing /\ Session
    BY DEF Live
<1>2. /\ Authorize \in Command /\ Authorize.cmd \notin Opening
      /\ Authorize.cmd \notin {"HANDSHAKE", "SUBSCRIBE", "UNSUBSCRIBE", "SUBSCRIBE_TOP"}
    BY ConstantCommands DEF Authorize, Cmd, Opening
<1>3. ~NoMsg(toHost, {"ready"})
    BY <1>0 DEF NoMsg
<1>4. state = "Connecting" /\ Greeting /\ OneHello
    <2>1. state \in {"Connecting", "Authorizing", "Ready", "InChannel"}
        BY <1>1 DEF Session, Typed, TypeOK
    <2> QED
        BY <1>1, <1>3, <2>1 DEF Session, Greeting, Running, NoHello
<1>5. NoCmd(toDiscord, {"HANDSHAKE"}) /\ OnceMsg(toHost)
    BY <1>3, <1>4 DEF OneHello
<1>6. NoHello'
    BY <1>0, <1>2, <1>5, OnceTail, NoCmdAppend DEF NoHello
<1>7. NoMsg(toHost', MoveKinds) /\ NoCmd(toDiscord', Opening)
    BY <1>0, <1>2, <1>4, NoMsgTail, NoCmdAppend DEF Greeting
<1>8. Session'
    BY <1>4, <1>6, <1>7 DEF Session, Greeting
<1>9. Subscribing'
    <2>1. Len(toDiscord') = Len(toDiscord) + 1
        BY <1>0, <1>2, AppendOf
    <2>2. \A c \in Channels : HoldsTo(subs, Append(toDiscord, Authorize), Len(toDiscord) + 1, c)
                                <=> HoldsTo(subs, toDiscord, Len(toDiscord), c)
        BY <1>0, <1>2, HoldsAppend
    <2> QED
        BY <1>1, <2>1, <2>2 DEF Subscribing
<1>10. Authentic'
    <2>1. ASSUME NEW n \in 1..Len(toDiscord')
          PROVE  \/ toDiscord'[n].cmd = "SUBSCRIBE_TOP" => authed'
                 \/ \E m \in 1..Len(toDiscord) : toDiscord'[n] = toDiscord[m]
        <3>1. \/ toDiscord'[n] = Authorize
              \/ \E m \in 1..Len(toDiscord) : toDiscord'[n] = toDiscord[m]
            BY <1>0, <1>2, EntriesOf
        <3> QED
            BY <1>2, <3>1
    <2>2. \A n \in 1..Len(toHost') : \E m \in 1..Len(toHost) : toHost'[n] = toHost[m]
        BY <1>0, EntriesOf
    <2> QED
        BY <1>1, <2>1, <2>2, AuthenticStep
<1> QED
    BY <1>8, <1>9, <1>10 DEF Live

(* The authentication has succeeded: subscribe, then ask. *)
LEMMA Authenticated ==
    ASSUME Typed, Live, link = "up", toHost # <<>>, state = "Authorizing",
           toHost[1].type = "authenticate", toHost[1].flag,
           UNCHANGED <<subscribed, authed, topSub, subs, voice>>, state' = "Ready",
           toHost' = Tail(toHost),
           toDiscord' = Append(Append(toDiscord, SubscribeTop), GetSelected)
    PROVE  Live'
<1> DEFINE q == Append(toDiscord, SubscribeTop)
           r == Append(q, GetSelected)
           N == Len(toDiscord)
<1>0. toHost \in Seq(Message) /\ toDiscord \in Seq(Command) /\ 1 \in 1..Len(toHost)
    BY TailOf DEF Typed, TypeOK
<1>1. Authentic /\ Subscribing /\ Greeting
    BY DEF Live, Session
<1>2. /\ SubscribeTop \in Command /\ SubscribeTop.cmd = "SUBSCRIBE_TOP"
      /\ GetSelected \in Command /\ GetSelected.cmd = "GET_SELECTED"
    BY ConstantCommands DEF SubscribeTop, GetSelected, Cmd
<1>3. /\ q \in Seq(Command) /\ N \in Nat /\ Len(q) = N + 1 /\ q[N + 1] = SubscribeTop
      /\ \A n \in 1..N : q[n] = toDiscord[n]
    BY <1>0, <1>2, AppendOf
<1> HIDE DEF q, N
<1>4. /\ r \in Seq(Command) /\ Len(r) = (N + 1) + 1 /\ r[(N + 1) + 1] = GetSelected
      /\ \A n \in 1..(N + 1) : r[n] = q[n]
    BY <1>2, <1>3, AppendOf
<1> HIDE DEF r
<1>5. toDiscord' = r
    BY DEF q, r
<1>6. authed /\ authed'
    BY <1>0, <1>1 DEF Authentic, Privileged
<1>7. Authentic'
    BY <1>6 DEF Authentic
<1>8. Subscribing'
    <2>1. ASSUME NEW c \in Channels
          PROVE  HoldsTo(subs, r, (N + 1) + 1, c) <=> HoldsTo(subs, toDiscord, N, c)
        <3>1. HoldsTo(subs, q, N + 1, c) <=> HoldsTo(subs, toDiscord, N, c)
            BY <1>0, <1>2, HoldsAppend DEF q, N
        <3>2. HoldsTo(subs, r, (N + 1) + 1, c) <=> HoldsTo(subs, q, N + 1, c)
            <4>1. HoldsTo(subs, Append(q, GetSelected), Len(q) + 1, c)
                    <=> \/ GetSelected.cmd = "SUBSCRIBE" /\ GetSelected.ch = c
                        \/ /\ HoldsTo(subs, q, Len(q), c)
                           /\ ~(GetSelected.cmd = "UNSUBSCRIBE" /\ GetSelected.ch = c)
                BY <1>2, <1>3, HoldsAppend
            <4> QED
                BY <1>2, <1>3, <4>1 DEF r
        <3> QED
            BY <3>1, <3>2
    <2> QED
        BY <1>1, <1>4, <1>5, <2>1 DEF Subscribing, N
<1>9. AskedIn(r)
    <2>1. /\ N + 1 \in 1..Len(r) /\ (N + 1) + 1 \in 1..Len(r) /\ N + 1 \in 1..(N + 1)
          /\ \A n \in 1..Len(r) : n \in 1..N \/ n = N + 1 \/ n = (N + 1) + 1
          /\ \A n \in 1..N : n \in 1..(N + 1)
        BY <1>3, <1>4
    <2>2. r[N + 1].cmd = "SUBSCRIBE_TOP" /\ r[(N + 1) + 1].cmd = "GET_SELECTED"
        BY <1>2, <1>3, <1>4, <2>1
    <2>3. \A n \in 1..N : r[n].cmd \notin Opening
        BY <1>1, <1>3, <1>4, <2>1 DEF Greeting, NoCmd, N
    <2>4. \A n \in 1..Len(r) : r[n].cmd \in Opening => n = N + 1 \/ n = (N + 1) + 1
        BY <2>1, <2>3
    <2> QED
        BY <2>1, <2>2, <2>4 DEF AskedIn
<1>10. NoHello'
    <2>1. NoCmd(toDiscord, {"HANDSHAKE"}) /\ NoMsg(toHost, {"ready"})
        BY <1>1 DEF Greeting, NoHello
    <2>2. NoCmd(q, {"HANDSHAKE"})
        BY <1>0, <1>2, <2>1, NoCmdAppend DEF q
    <2>3. NoCmd(r, {"HANDSHAKE"})
        BY <1>2, <1>3, <2>2, NoCmdAppend DEF r
    <2> QED
        BY <1>0, <1>5, <2>1, <2>3, NoMsgTail DEF NoHello
<1>11. NoMsg(toHost', MoveKinds)
    BY <1>0, <1>1, NoMsgTail DEF Greeting
<1>12. RepliesFit(subscribed', toHost')
    BY <1>11 DEF NoMsg, RepliesFit, MoveKinds
<1>13. Running'
    BY <1>1, <1>5, <1>9, <1>10, <1>11, <1>12 DEF Running, Asking, Greeting
<1> QED
    BY <1>7, <1>8, <1>13 DEF Live, Session

(* The client is moved: by an event, or by a reply to its query. *)
LEMMA Moved ==
    ASSUME Typed, Live, link = "up", toHost # <<>>, toHost[1].type \in MoveKinds,
           UNCHANGED <<authed, topSub, subs, voice>>,
           subscribed' = toHost[1].ch, toHost' = Tail(toHost),
           state' = IF toHost[1].ch = NoChannel THEN "Ready" ELSE "InChannel",
           \/ toHost[1].ch = subscribed /\ toDiscord' = toDiscord
           \/ /\ toHost[1].ch # subscribed /\ subscribed = NoChannel /\ toHost[1].ch # NoChannel
              /\ toDiscord' = Append(toDiscord, Subscribe(toHost[1].ch))
           \/ /\ toHost[1].ch # subscribed /\ subscribed # NoChannel /\ toHost[1].ch = NoChannel
              /\ toDiscord' = Append(toDiscord, Unsubscribe(subscribed))
           \/ /\ toHost[1].ch # subscribed /\ subscribed # NoChannel /\ toHost[1].ch # NoChannel
              /\ toDiscord' = Append(Append(toDiscord, Unsubscribe(subscribed)),
                                     Subscribe(toHost[1].ch))
    PROVE  Live'
<1> DEFINE c == toHost[1].ch
           x == Unsubscribe(subscribed)
           y == Subscribe(c)
<1>0. /\ toHost \in Seq(Message) /\ toDiscord \in Seq(Command) /\ 1 \in 1..Len(toHost)
      /\ toHost[1] \in Message /\ subscribed \in ChannelIds
    BY TailOf DEF Typed, TypeOK
<1>1. Authentic /\ Subscribing /\ Session
    BY DEF Live
<1>2. /\ x \in Command /\ x.cmd = "UNSUBSCRIBE" /\ x.ch = subscribed
      /\ y \in Command /\ y.cmd = "SUBSCRIBE" /\ y.ch = c /\ c \in ChannelIds
    BY <1>0, ConstantCommands DEF Subscribe, Unsubscribe, Cmd, Message
<1> HIDE DEF c, x, y
<1>3. ~NoMsg(toHost, MoveKinds)
    BY <1>0 DEF NoMsg
<1>4. Running /\ state \in {"Ready", "InChannel"}
    <2>1. state \in {"Connecting", "Authorizing", "Ready", "InChannel"}
        BY <1>1 DEF Session, Typed, TypeOK
    <2> QED
        BY <1>1, <1>3, <2>1 DEF Session, Greeting
<1>5. \/ c = subscribed /\ toDiscord' = toDiscord
      \/ c # subscribed /\ subscribed = NoChannel /\ c # NoChannel /\ toDiscord' = Append(toDiscord, y)
      \/ c # subscribed /\ subscribed # NoChannel /\ c = NoChannel /\ toDiscord' = Append(toDiscord, x)
      \/ /\ c # subscribed /\ subscribed # NoChannel /\ c # NoChannel
         /\ toDiscord' = Append(Append(toDiscord, x), y)
    BY DEF c, x, y
<1>6. Authentic'
    BY <1>1, <1>4 DEF Authentic
<1>7. Append(toDiscord, x) \in Seq(Command) /\ Len(toDiscord) \in Nat
      /\ Len(Append(toDiscord, x)) = Len(toDiscord) + 1
    BY <1>0, <1>2, AppendOf
<1>8. Subscribing'
    <2> DEFINE N == Len(toDiscord)
               q == Append(toDiscord, x)
    <2>0. ASSUME NEW d \in Channels
          PROVE  d # NoChannel /\ (HoldsTo(subs, toDiscord, N, d) <=> d = subscribed)
        BY <1>1, RpcAssumption DEF Subscribing
    <2>1. CASE c = subscribed /\ toDiscord' = toDiscord
        BY <1>1, <2>1 DEF Subscribing, c
    <2>2. CASE c # subscribed /\ subscribed = NoChannel /\ c # NoChannel
               /\ toDiscord' = Append(toDiscord, y)
        <3>1. Len(toDiscord') = N + 1
            BY <1>0, <1>2, <2>2, AppendOf
        <3>2. ASSUME NEW d \in Channels PROVE HoldsTo(subs, toDiscord', N + 1, d) <=> d = c
            BY <1>0, <1>2, <2>0, <2>2, HoldsAppend
        <3> QED
            BY <3>1, <3>2 DEF Subscribing, c
    <2>3. CASE c # subscribed /\ subscribed # NoChannel /\ c = NoChannel
               /\ toDiscord' = Append(toDiscord, x)
        <3>1. Len(toDiscord') = N + 1
            BY <1>0, <1>2, <2>3, AppendOf
        <3>2. ASSUME NEW d \in Channels PROVE HoldsTo(subs, toDiscord', N + 1, d) <=> d = c
            BY <1>0, <1>2, <2>0, <2>3, HoldsAppend
        <3> QED
            BY <3>1, <3>2 DEF Subscribing, c
    <2>4. CASE c # subscribed /\ subscribed # NoChannel /\ c # NoChannel
               /\ toDiscord' = Append(Append(toDiscord, x), y)
        <3>1. q \in Seq(Command) /\ N \in Nat /\ Len(q) = N + 1
            BY <1>7
        <3>2. ASSUME NEW d \in Channels PROVE ~HoldsTo(subs, q, N + 1, d)
            BY <1>0, <1>2, <2>0, <2>4, HoldsAppend
        <3>3. toDiscord' = Append(q, y)
            BY <2>4
        <3> HIDE DEF q, N
        <3>4. Len(toDiscord') = (N + 1) + 1
            BY <1>2, <3>1, <3>3, AppendOf
        <3>5. ASSUME NEW d \in Channels
              PROVE  HoldsTo(subs, Append(q, y), Len(q) + 1, d)
                       <=> \/ y.cmd = "SUBSCRIBE" /\ y.ch = d
                           \/ HoldsTo(subs, q, Len(q), d) /\ ~(y.cmd = "UNSUBSCRIBE" /\ y.ch = d)
            BY <1>2, <3>1, HoldsAppend
        <3>6. ASSUME NEW d \in Channels PROVE HoldsTo(subs, toDiscord', (N + 1) + 1, d) <=> d = c
            BY <1>2, <3>1, <3>2, <3>3, <3>5
        <3> QED
            BY <3>4, <3>6 DEF Subscribing, c
    <2> QED
        BY <1>5, <2>1, <2>2, <2>3, <2>4
<1>9. ASSUME NEW names, "SUBSCRIBE" \notin names, "UNSUBSCRIBE" \notin names,
             NoCmd(toDiscord, names)
      PROVE  NoCmd(toDiscord', names)
    <2>1. NoCmd(Append(toDiscord, x), names) /\ NoCmd(Append(toDiscord, y), names)
        BY <1>0, <1>2, <1>9, NoCmdAppend
    <2>2. NoCmd(Append(Append(toDiscord, x), y), names)
        BY <1>2, <1>7, <1>9, <2>1, NoCmdAppend
    <2> QED
        BY <1>5, <1>9, <2>1, <2>2
<1>10. QueriedIn(toDiscord) => QueriedIn(toDiscord')
    <2>1. x.cmd \notin Opening /\ y.cmd \notin Opening
        BY <1>2 DEF Opening
    <2>2. QueriedIn(toDiscord) => QueriedIn(Append(toDiscord, x)) /\ QueriedIn(Append(toDiscord, y))
        BY <1>0, <1>2, <2>1, OpeningAppend
    <2>3. QueriedIn(Append(toDiscord, x)) => QueriedIn(Append(Append(toDiscord, x), y))
        BY <1>2, <1>7, <2>1, OpeningAppend
    <2> QED
        BY <1>5, <2>2, <2>3
<1>11. /\ \A d : Ends(subscribed, toHost, d) => Ends(subscribed', toHost', d)
       /\ RepliesFit(subscribed', toHost')
    <2>1. subscribed' = IF Moves(toHost, 1) THEN toHost[1].ch ELSE subscribed
        BY DEF Moves
    <2>2. /\ \A d : Ends(subscribed, toHost, d) => Ends(subscribed', Tail(toHost), d)
          /\ RepliesFit(subscribed, toHost) => RepliesFit(subscribed', Tail(toHost))
        BY <1>0, <2>1, MovesTail
    <2> QED
        BY <1>4, <2>2 DEF Running
<1>12. NoHello'
    <2>1. NoCmd(toDiscord', {"HANDSHAKE"})
        BY <1>4, <1>9 DEF Running, NoHello
    <2> QED
        BY <1>0, <1>4, <2>1, NoMsgTail DEF Running, NoHello
<1>13. Querying' \/ Following'
    <2>1. Querying \/ Following
        BY <1>3, <1>4 DEF Running, Asking
    <2>2. ASSUME Querying PROVE Querying'
        BY <1>10, <1>11, <2>2 DEF Querying
    <2>3. ASSUME Following PROVE Following'
        <3>1. NoCmd(toDiscord', Opening)
            BY <1>9, <2>3 DEF Following, Opening
        <3> QED
            BY <1>11, <2>3, <3>1 DEF Following
    <2> QED
        BY <2>1, <2>2, <2>3
<1>14. Running'
    BY <1>11, <1>12, <1>13 DEF Running
<1> QED
    BY <1>6, <1>8, <1>14 DEF Live, Session


-----------------------------------------------------------------------------
(* Discord's side of the session *)

(* Discord has handled the first command: what the queue leads to is kept. *)
LEMMA HandledSubscribing ==
    ASSUME Typed, Subscribing, toDiscord # <<>>, toDiscord' = Tail(toDiscord),
           UNCHANGED subscribed,
           subs' = IF toDiscord[1].cmd = "SUBSCRIBE" THEN subs \cup {toDiscord[1].ch}
                   ELSE IF toDiscord[1].cmd = "UNSUBSCRIBE" THEN subs \ {toDiscord[1].ch}
                   ELSE subs
    PROVE  Subscribing'
<1>1. toDiscord \in Seq(Command) /\ Len(toDiscord') = Len(toDiscord) - 1
    BY TailOf DEF Typed, TypeOK
<1>2. ASSUME NEW c
      PROVE  c \in subs' <=> \/ Names(toDiscord, 1, "SUBSCRIBE", c)
                             \/ c \in subs /\ ~Names(toDiscord, 1, "UNSUBSCRIBE", c)
    BY DEF Names
<1>3. ASSUME NEW c
      PROVE  HoldsTo(subs', Tail(toDiscord), Len(toDiscord) - 1, c)
               <=> HoldsTo(subs, toDiscord, Len(toDiscord), c)
    BY <1>1, <1>2, HoldsTail
<1> QED
    BY <1>1, <1>3 DEF Subscribing

(* What Discord dispatches it dispatches to whom it may. *)
LEMMA HandledAuthentic ==
    ASSUME Typed, Authentic, authed => authed', UNCHANGED state, topSub' => authed' \/ topSub,
           toDiscord' = toDiscord \/ (toDiscord # <<>> /\ toDiscord' = Tail(toDiscord)),
           \/ toHost' = toHost
           \/ \E x \in Message : toHost' = Append(toHost, x) /\ (Privileged(x) => authed')
    PROVE  Authentic'
<1>0. toHost \in Seq(Message) /\ toDiscord \in Seq(Command)
    BY DEF Typed, TypeOK
<1>1. \A n \in 1..Len(toDiscord') : \E m \in 1..Len(toDiscord) : toDiscord'[n] = toDiscord[m]
    <2>1. CASE toDiscord' = toDiscord
        BY <2>1
    <2>2. CASE toDiscord # <<>> /\ toDiscord' = Tail(toDiscord)
        BY <1>0, <2>2, EntriesOf
    <2> QED
        BY <2>1, <2>2
<1>2. \A n \in 1..Len(toHost') :
          \/ Privileged(toHost'[n]) => authed'
          \/ \E m \in 1..Len(toHost) : toHost'[n] = toHost[m]
    <2>1. CASE toHost' = toHost
        BY <2>1
    <2>2. ASSUME NEW x \in Message, toHost' = Append(toHost, x), Privileged(x) => authed',
                 NEW n \in 1..Len(toHost')
          PROVE  \/ Privileged(toHost'[n]) => authed'
                 \/ \E m \in 1..Len(toHost) : toHost'[n] = toHost[m]
        <3>1. toHost'[n] = x \/ \E m \in 1..Len(toHost) : toHost'[n] = toHost[m]
            BY <1>0, <2>2, EntriesOf
        <3> QED
            BY <2>2, <3>1
    <2> QED
        BY <2>1, <2>2
<1> QED
    BY <1>1, <1>2, AuthenticStep

(* Discord handles a command, or dispatches a message, that does not matter *)
(* to the session.                                                          *)
LEMMA QuietDiscord ==
    ASSUME Typed, Live, link = "up", UNCHANGED <<state, subscribed, topSub, voice>>,
           authed => authed',
           \/ toDiscord' = toDiscord /\ subs' = subs
           \/ /\ toDiscord # <<>> /\ toDiscord' = Tail(toDiscord)
              /\ toDiscord[1].cmd \notin Opening
              /\ subs' = IF toDiscord[1].cmd = "SUBSCRIBE" THEN subs \cup {toDiscord[1].ch}
                         ELSE IF toDiscord[1].cmd = "UNSUBSCRIBE" THEN subs \ {toDiscord[1].ch}
                         ELSE subs,
           \/ toHost' = toHost
           \/ \E x \in Message : /\ toHost' = Append(toHost, x)
                                 /\ x.type \notin MoveKinds \cup {"ready"}
                                 /\ Privileged(x) => authed'
    PROVE  Live'
<1>0. toHost \in Seq(Message) /\ toDiscord \in Seq(Command)
    BY DEF Typed, TypeOK
<1>1. Authentic /\ Subscribing /\ Session
    BY DEF Live
<1>2. Authentic'
    BY <1>1, HandledAuthentic
<1>3. Subscribing'
    <2>1. CASE toDiscord' = toDiscord /\ subs' = subs
        BY <1>1, <2>1 DEF Subscribing
    <2>2. CASE toDiscord # <<>> /\ toDiscord' = Tail(toDiscord)
        BY <1>1, <2>2, HandledSubscribing
    <2> QED
        BY <2>1, <2>2
<1>4. /\ NoCmd(toDiscord, {"HANDSHAKE"}) => NoCmd(toDiscord', {"HANDSHAKE"})
      /\ NoCmd(toDiscord, Opening) => NoCmd(toDiscord', Opening)
      /\ OnceCmd(toDiscord) => OnceCmd(toDiscord')
      /\ AskedIn(toDiscord) => AskedIn(toDiscord')
      /\ QueriedIn(toDiscord) => QueriedIn(toDiscord')
    <2>1. CASE toDiscord' = toDiscord
        BY <2>1
    <2>2. CASE toDiscord # <<>> /\ toDiscord' = Tail(toDiscord) /\ toDiscord[1].cmd \notin Opening
        <3>1. toDiscord[1].cmd # "SUBSCRIBE_TOP" /\ toDiscord[1].cmd # "GET_SELECTED"
            BY <2>2 DEF Opening
        <3>2. /\ AskedIn(toDiscord) => AskedIn(Tail(toDiscord))
              /\ QueriedIn(toDiscord) => QueriedIn(Tail(toDiscord))
            BY <1>0, <2>2, <3>1, OpeningTail
        <3> QED
            BY <1>0, <2>2, <3>2, OnceTail, NoCmdTail
    <2> QED
        BY <2>1, <2>2
<1>5. /\ NoMsg(toHost, {"ready"}) => NoMsg(toHost', {"ready"})
      /\ NoMsg(toHost, MoveKinds) => NoMsg(toHost', MoveKinds)
      /\ OnceMsg(toHost) => OnceMsg(toHost')
      /\ \A c : Ends(subscribed, toHost, c) => Ends(subscribed, toHost', c)
      /\ RepliesFit(subscribed, toHost) => RepliesFit(subscribed, toHost')
    <2>1. CASE toHost' = toHost
        BY <2>1
    <2>2. ASSUME NEW x \in Message, toHost' = Append(toHost, x),
                 x.type \notin MoveKinds \cup {"ready"}
          PROVE  /\ NoMsg(toHost, {"ready"}) => NoMsg(toHost', {"ready"})
                 /\ NoMsg(toHost, MoveKinds) => NoMsg(toHost', MoveKinds)
                 /\ OnceMsg(toHost) => OnceMsg(toHost')
                 /\ \A c : Ends(subscribed, toHost, c) => Ends(subscribed, toHost', c)
                 /\ RepliesFit(subscribed, toHost) => RepliesFit(subscribed, toHost')
        <3>1. x.type \notin MoveKinds /\ x.type # "ready" /\ x.type # "selected"
            BY <2>2 DEF MoveKinds
        <3>2. RepliesFit(subscribed, toHost) => RepliesFit(subscribed, Append(toHost, x))
            BY <1>0, <3>1, FitsAppend
        <3>3. \A c : Ends(subscribed, toHost, c) => Ends(subscribed, Append(toHost, x), c)
            BY <1>0, <3>1, EndsAppend
        <3> QED
            BY <1>0, <2>2, <3>1, <3>2, <3>3, NoMsgAppend, OnceAppend
    <2> QED
        BY <2>1, <2>2
<1>6. Session'
    <2>1. Greeting => Greeting'
        BY <1>4, <1>5 DEF Greeting, OneHello, NoHello
    <2>2. Running => Running'
        BY <1>4, <1>5 DEF Running, NoHello, Asking, Querying, Following
    <2> QED
        BY <1>1, <2>1, <2>2 DEF Session
<1> QED
    BY <1>2, <1>3, <1>6 DEF Live

(* HANDSHAKE is answered with READY. *)
LEMMA HelloAnswered ==
    ASSUME Typed, Live, link = "up", toDiscord # <<>>, toDiscord[1].cmd = "HANDSHAKE",
           UNCHANGED <<state, subscribed, authed, topSub, subs, voice>>,
           toDiscord' = Tail(toDiscord),
           NEW x \in Message, x.type = "ready", toHost' = Append(toHost, x)
    PROVE  Live'
<1>0. toHost \in Seq(Message) /\ toDiscord \in Seq(Command) /\ 1 \in 1..Len(toDiscord)
    BY TailOf DEF Typed, TypeOK
<1>1. Authentic /\ Subscribing /\ Session
    BY DEF Live
<1>2. ~NoCmd(toDiscord, {"HANDSHAKE"})
    BY <1>0 DEF NoCmd
<1>3. state = "Connecting" /\ Greeting /\ OneHello
    <2>1. state \in {"Connecting", "Authorizing", "Ready", "InChannel"}
        BY <1>1 DEF Session, Typed, TypeOK
    <2> QED
        BY <1>1, <1>2, <2>1 DEF Session, Greeting, Running, NoHello
<1>4. NoMsg(toHost, {"ready"}) /\ OnceCmd(toDiscord)
    BY <1>2, <1>3 DEF OneHello
<1>5. OneHello'
    BY <1>0, <1>4, OnceTail, OnceAppend DEF OneHello
<1>6. NoMsg(toHost', MoveKinds) /\ NoCmd(toDiscord', Opening)
    <2>1. x.type \notin MoveKinds
        BY DEF MoveKinds
    <2> QED
        BY <1>0, <1>3, <2>1, NoMsgAppend, NoCmdTail DEF Greeting
<1>7. Session'
    BY <1>3, <1>5, <1>6 DEF Session, Greeting
<1>8. Subscribing'
    BY <1>1, HandledSubscribing
<1>9. Authentic'
    BY <1>1, HandledAuthentic DEF Privileged
<1> QED
    BY <1>7, <1>8, <1>9 DEF Live

(* From here on the connection hears of every move of the user. *)
LEMMA TopSubscribed ==
    ASSUME Typed, Live, link = "up", toDiscord # <<>>, toDiscord[1].cmd = "SUBSCRIBE_TOP",
           UNCHANGED <<state, subscribed, authed, subs, voice, toHost>>, topSub' = TRUE,
           toDiscord' = Tail(toDiscord)
    PROVE  Live'
<1>0. /\ toHost \in Seq(Message) /\ toDiscord \in Seq(Command) /\ 1 \in 1..Len(toDiscord)
      /\ Len(toHost) \in Nat
    BY TailOf DEF Typed, TypeOK
<1>1. Authentic /\ Subscribing /\ Session
    BY DEF Live
<1>2. ~NoCmd(toDiscord, Opening) /\ ~QueriedIn(toDiscord)
    <2>1. toDiscord[1].cmd \in Opening /\ toDiscord[1].cmd # "GET_SELECTED"
        BY DEF Opening
    <2> QED
        BY <1>0, <2>1, OpeningTail
<1>3. Running /\ Asking
    <2>1. state \in {"Connecting", "Authorizing", "Ready", "InChannel"}
        BY <1>1 DEF Session, Typed, TypeOK
    <2> QED
        BY <1>1, <1>2, <2>1 DEF Session, Greeting, Running, Querying, Following
<1>4. QueriedIn(toDiscord')
    <2>1. toDiscord[1].cmd \in Opening
        BY DEF Opening
    <2> QED
        BY <1>0, <1>3, <2>1, OpeningTail DEF Asking
<1>5. Ends(subscribed', toHost', NoChannel)
    BY <1>0, <1>3, EndsStays DEF Asking, NoMsg, Moves, Ends
<1>6. NoHello'
    BY <1>0, <1>3, NoCmdTail DEF Running, NoHello
<1>7. Running'
    BY <1>3, <1>4, <1>5, <1>6 DEF Running, Querying
<1>8. Session'
    BY <1>1, <1>2, <1>7 DEF Session, Greeting
<1>9. Subscribing'
    BY <1>1, HandledSubscribing
<1>10. Authentic'
    <2>1. authed
        BY <1>0, <1>1 DEF Authentic
    <2> QED
        BY <1>1, <2>1, HandledAuthentic
<1> QED
    BY <1>8, <1>9, <1>10 DEF Live

(* The query is answered behind every event about an earlier move. *)
LEMMA QueryAnswered ==
    ASSUME Typed, Live, link = "up", toDiscord # <<>>, toDiscord[1].cmd = "GET_SELECTED",
           UNCHANGED <<state, subscribed, authed, topSub, subs, voice>>,
           toDiscord' = Tail(toDiscord),
           NEW x \in Message, x.type = "selected", x.ch = voice, toHost' = Append(toHost, x)
    PROVE  Live'
<1>0. toHost \in Seq(Message) /\ toDiscord \in Seq(Command)
    BY TailOf DEF Typed, TypeOK
<1>1. Authentic /\ Subscribing /\ Session
    BY DEF Live
<1>2. toDiscord[1].cmd \in Opening /\ toDiscord[1].cmd # "SUBSCRIBE_TOP"
    BY DEF Opening
<1>3. ~NoCmd(toDiscord, Opening) /\ ~AskedIn(toDiscord)
    BY <1>0, <1>2, OpeningTail
<1>4. Running /\ Querying
    <2>1. state \in {"Connecting", "Authorizing", "Ready", "InChannel"}
        BY <1>1 DEF Session, Typed, TypeOK
    <2> QED
        BY <1>1, <1>3, <2>1 DEF Session, Greeting, Running, Asking, Following
<1>5. NoCmd(toDiscord', Opening)
    BY <1>0, <1>2, <1>4, OpeningTail DEF Querying
<1>6. Ends(subscribed, toHost', voice)
    BY <1>0, EndsAppend DEF MoveKinds
<1>7. RepliesFit(subscribed, toHost')
    <2>1. RepliesFit(subscribed, toHost) /\ (Ends(subscribed, toHost, x.ch) \/ Ends(subscribed, toHost, NoChannel))
        BY <1>4 DEF Running, Querying
    <2> QED
        BY <1>0, <2>1, FitsAppend
<1>8. NoHello'
    <2>1. NoCmd(Tail(toDiscord), {"HANDSHAKE"})
        BY <1>0, <1>4, NoCmdTail DEF Running, NoHello
    <2>2. NoMsg(Append(toHost, x), {"ready"})
        BY <1>0, <1>4, NoMsgAppend DEF Running, NoHello
    <2> QED
        BY <2>1, <2>2 DEF NoHello
<1>9. Running'
    BY <1>4, <1>5, <1>6, <1>7, <1>8 DEF Running, Querying, Following
<1>10. Session'
    BY <1>1, <1>3, <1>9 DEF Session, Greeting
<1>11. Subscribing'
    BY <1>1, HandledSubscribing
<1>12. Authentic'
    BY <1>1, HandledAuthentic DEF Privileged
<1> QED
    BY <1>10, <1>11, <1>12 DEF Live

(* The user moves, and a subscribed connection hears of it. *)
LEMMA UserMoved ==
    ASSUME Typed, Live, link = "up", UNCHANGED <<state, subscribed, authed, topSub, subs, toDiscord>>,
           \/ ~topSub /\ toHost' = toHost
           \/ topSub /\ \E x \in Message : /\ x.type = "select" /\ x.ch = voice'
                                           /\ toHost' = Append(toHost, x)
    PROVE  Live'
<1>0. toHost \in Seq(Message)
    BY DEF Typed, TypeOK
<1>1. Authentic /\ Subscribing /\ Session
    BY DEF Live
<1>2. Subscribing'
    BY <1>1 DEF Subscribing
<1>3. CASE ~topSub /\ toHost' = toHost
    <2>1. Authentic'
        BY <1>1, <1>3 DEF Authentic, Privileged
    <2>2. Greeting => Greeting'
        BY <1>3 DEF Greeting, OneHello, NoHello
    <2>3. Running => Running'
        BY <1>3 DEF Running, NoHello, Asking, Querying, Following
    <2> QED
        BY <1>1, <1>2, <2>1, <2>2, <2>3 DEF Live, Session
<1>4. CASE topSub /\ \E x \in Message : /\ x.type = "select" /\ x.ch = voice'
                                        /\ toHost' = Append(toHost, x)
    <2>1. PICK x \in Message : x.type = "select" /\ x.ch = voice' /\ toHost' = Append(toHost, x)
        BY <1>4
    <2>2. authed /\ authed'
        BY <1>1, <1>4 DEF Authentic
    <2>3. Authentic'
        BY <2>2 DEF Authentic
    <2>4. Running /\ (Querying \/ Following) /\ state \in {"Ready", "InChannel"}
        <3>1. state \in {"Connecting", "Authorizing", "Ready", "InChannel"}
            BY <1>1 DEF Session, Typed, TypeOK
        <3> QED
            BY <1>1, <1>4, <3>1 DEF Session, Greeting, Running, Asking
    <2>5. Ends(subscribed, toHost', voice')
        BY <1>0, <2>1, EndsAppend DEF MoveKinds
    <2>6. RepliesFit(subscribed, toHost')
        BY <1>0, <2>1, <2>4, FitsAppend DEF Running
    <2>7. NoMsg(toHost', {"ready"})
        BY <1>0, <2>1, <2>4, NoMsgAppend DEF Running, NoHello
    <2>8. Querying' \/ Following'
        BY <1>4, <2>4, <2>5 DEF Querying, Following
    <2>9. Running'
        BY <2>4, <2>6, <2>7, <2>8 DEF Running, NoHello
    <2> QED
        BY <1>2, <2>3, <2>4, <2>9 DEF Live, Session
<1> QED
    BY <1>3, <1>4

-----------------------------------------------------------------------------
(* Every step keeps the session's invariant *)

(* A handler moves to channel c. *)
LEMMA SelectLive ==
    ASSUME Typed, Live, toHost # <<>>, toHost[1].type \in MoveKinds,
           HandleChannelSelect(toHost[1].ch), UNCHANGED <<authed, topSub, subs, voice>>
    PROVE  Live'
<1> DEFINE c == toHost[1].ch
<1>0. WireOK /\ ClientOK
    BY TypedParts
<1>1. c \in ChannelIds /\ Tail(toHost) \in Seq(Message)
    BY <1>0, HeadTyped
<1>2. subscribed' = c /\ state' = IF c = NoChannel THEN "Ready" ELSE "InChannel"
    BY DEF HandleChannelSelect
<1>3. \/ ChannelCmds(c) = <<>> /\ Consumed
      \/ ChannelCmds(c) # <<>> /\ Sent(ChannelCmds(c), Tail(toHost))
      \/ ChannelCmds(c) # <<>> /\ SendFails
    BY DEF HandleChannelSelect
<1> HIDE DEF c
<1>4. CASE ChannelCmds(c) # <<>> /\ SendFails
    BY <1>4 DEF SendFails, HandleClosed, CloseSocket, Live
<1>5. CASE link # "up" /\ ChannelCmds(c) = <<>> /\ Consumed
    BY <1>5 DEF Consumed, Live
<1>6. ASSUME link = "up", toHost' = Tail(toHost),
             \/ c = subscribed /\ toDiscord' = toDiscord
             \/ /\ c # subscribed /\ subscribed = NoChannel /\ c # NoChannel
                /\ toDiscord' = Append(toDiscord, Subscribe(c))
             \/ /\ c # subscribed /\ subscribed # NoChannel /\ c = NoChannel
                /\ toDiscord' = Append(toDiscord, Unsubscribe(subscribed))
             \/ /\ c # subscribed /\ subscribed # NoChannel /\ c # NoChannel
                /\ toDiscord' = Append(Append(toDiscord, Unsubscribe(subscribed)), Subscribe(c))
      PROVE  Live'
    BY <1>2, <1>6, Moved DEF c
<1>7. ASSUME link = "up", ChannelCmds(c) = <<>>, Consumed PROVE Live'
    <2>1. \A a, b : <<a>> # <<>> /\ <<a, b>> # <<>>
        OBVIOUS
    <2>2. c = subscribed
        BY <1>0, <1>1, <1>7, <2>1, ChannelCmdsCases
    <2> QED
        BY <1>6, <1>7, <2>2 DEF Consumed
<1>8. ASSUME ChannelCmds(c) # <<>>, Sent(ChannelCmds(c), Tail(toHost)) PROVE Live'
    <2>1. link = "up" /\ toHost' = Tail(toHost)
        BY <1>8 DEF Sent
    <2>2. subscribed \in ChannelIds
        BY <1>0 DEF ClientOK
    <2>3. /\ Unsubscribe(subscribed) \in Command /\ Unsubscribe(subscribed).cmd # "SUBSCRIBE"
          /\ Subscribe(c) \in Command /\ Subscribe(c).ch = c
        BY <1>1, <2>2, ConstantCommands DEF Unsubscribe, Subscribe, Cmd
    <2>4. CASE c # subscribed /\ subscribed = NoChannel /\ c # NoChannel
               /\ ChannelCmds(c) = <<Subscribe(c)>>
        <3>1. c \in Channels
            BY <1>1, <2>4 DEF ChannelIds
        <3>2. toDiscord' = Append(toDiscord, Subscribe(c))
            BY <1>0, <1>1, <1>8, <2>3, <2>4, <3>1, SentOne
        <3> QED
            BY <1>6, <2>1, <2>4, <3>2
    <2>5. CASE c # subscribed /\ subscribed # NoChannel /\ c = NoChannel
               /\ ChannelCmds(c) = <<Unsubscribe(subscribed)>>
        <3>1. toDiscord' = Append(toDiscord, Unsubscribe(subscribed))
            BY <1>0, <1>1, <1>8, <2>3, <2>5, SentOne
        <3> QED
            BY <1>6, <2>1, <2>5, <3>1
    <2>6. CASE c # subscribed /\ subscribed # NoChannel /\ c # NoChannel
               /\ ChannelCmds(c) = <<Unsubscribe(subscribed), Subscribe(c)>>
        <3>1. c \in Channels
            BY <1>1, <2>6 DEF ChannelIds
        <3>2. toDiscord' = Append(Append(toDiscord, Unsubscribe(subscribed)), Subscribe(c))
            BY <1>0, <1>1, <1>8, <2>3, <2>6, <3>1, SentTwo
        <3> QED
            BY <1>6, <2>1, <2>6, <3>2
    <2> QED
        BY <1>0, <1>1, <1>8, <2>4, <2>5, <2>6, ChannelCmdsCases
<1> QED
    BY <1>3, <1>4, <1>5, <1>7, <1>8

(* A reply that a client on a live connection ignores names the channel it *)
(* is in.                                                                  *)
LEMMA IgnoredReply ==
    ASSUME Typed, Live, link = "up", toHost # <<>>, toHost[1].type = "selected",
           \/ state \notin {"Ready", "InChannel"}
           \/ toHost[1].ch \in {NoChannel, subscribed}
    PROVE  /\ toHost[1].ch = subscribed
           /\ state = IF subscribed = NoChannel THEN "Ready" ELSE "InChannel"
<1>0. toHost \in Seq(Message) /\ 1 \in 1..Len(toHost)
    BY TailOf DEF Typed, TypeOK
<1>1. Session
    BY DEF Live
<1>2. ~NoMsg(toHost, MoveKinds)
    BY <1>0 DEF NoMsg, MoveKinds
<1>3. Running /\ state \in {"Ready", "InChannel"}
    <2>1. state \in {"Connecting", "Authorizing", "Ready", "InChannel"}
        BY <1>1 DEF Session, Typed, TypeOK
    <2> QED
        BY <1>1, <1>2, <2>1 DEF Session, Greeting
<1>4. EndsAt(subscribed, toHost, 0, toHost[1].ch) \/ EndsAt(subscribed, toHost, 0, NoChannel)
    <2>1. \A n \in 1..Len(toHost) : toHost[n].type = "selected" =>
              \/ EndsAt(subscribed, toHost, n - 1, toHost[n].ch)
              \/ EndsAt(subscribed, toHost, n - 1, NoChannel)
        BY <1>3 DEF Running, RepliesFit
    <2>2. 1 - 1 = 0
        OBVIOUS
    <2> QED
        BY <1>0, <2>1, <2>2
<1>5. \A d : EndsAt(subscribed, toHost, 0, d) => d = subscribed
    <2>1. \A n \in 1..0 : FALSE
        OBVIOUS
    <2> QED
        BY <2>1 DEF EndsAt
<1> QED
    BY <1>3, <1>4, <1>5 DEF Running

LEMMA HandlesLive ==
    ASSUME Typed, Live, DiscordHandles
    PROVE  Live'
<1>0. WireOK /\ toDiscord # <<>> /\ link = "up"
    BY TypedParts DEF DiscordHandles
<1>1. Head(toDiscord) = toDiscord[1] /\ toDiscord[1] \in Command
    BY <1>0, TailOf DEF WireOK
<1>2. /\ UNCHANGED <<state, subscribed, voice>> /\ toDiscord' = Tail(toDiscord)
      /\ link' = "up"
    BY <1>0 DEF DiscordHandles, Reply, clientVars, worldVars
<1>3. ASSUME NEW x \in Message, Reply(<<x>>) PROVE toHost' = Append(toHost, x)
    BY <1>0, <1>3, DispatchedOne DEF Reply
<1>4. Reply(<<>>) => toHost' = toHost
    BY <1>0, DispatchedNone DEF Reply
<1>5. CASE toDiscord[1].cmd = "HANDSHAKE" /\ UNCHANGED sessionVars
           /\ Reply(<<Msg("ready", TRUE, NoChannel, {})>>)
    <2>1. /\ Msg("ready", TRUE, NoChannel, {}) \in Message
          /\ Msg("ready", TRUE, NoChannel, {}).type = "ready"
        BY DEF Msg, Message, ChannelIds
    <2> QED
        BY <1>0, <1>2, <1>3, <1>5, <2>1, HelloAnswered DEF sessionVars
<1>6. ASSUME toDiscord[1].cmd = "AUTHORIZE", UNCHANGED sessionVars, NEW code \in BOOLEAN,
             Reply(<<Msg("authorize", code, NoChannel, {})>>)
      PROVE  Live'
    <2> DEFINE x == Msg("authorize", code, NoChannel, {})
    <2>1. /\ x \in Message /\ x.type \notin MoveKinds \cup {"ready"} /\ ~Privileged(x)
        BY DEF Msg, Message, ChannelIds, MoveKinds, Privileged
    <2>2. toHost' = Append(toHost, x)
        BY <1>3, <1>6, <2>1
    <2> HIDE DEF x
    <2>3. toDiscord[1].cmd \notin Opening \cup {"SUBSCRIBE", "UNSUBSCRIBE"}
        BY <1>6 DEF Opening
    <2> QED
        BY <1>0, <1>2, <1>6, <2>1, <2>2, <2>3, QuietDiscord DEF sessionVars
<1>7. ASSUME toDiscord[1].cmd = "AUTHENTICATE", UNCHANGED <<topSub, subs>>, NEW ok \in BOOLEAN,
             Reply(<<Msg("authenticate", ok, NoChannel, {})>>), authed' = (authed \/ ok)
      PROVE  Live'
    <2> DEFINE x == Msg("authenticate", ok, NoChannel, {})
    <2>1. /\ x \in Message /\ x.type \notin MoveKinds \cup {"ready"}
          /\ Privileged(x) => ok
        BY DEF Msg, Message, ChannelIds, MoveKinds, Privileged
    <2>2. toHost' = Append(toHost, x)
        BY <1>3, <1>7, <2>1
    <2> HIDE DEF x
    <2>3. toDiscord[1].cmd \notin Opening \cup {"SUBSCRIBE", "UNSUBSCRIBE"}
        BY <1>7 DEF Opening
    <2>4. (authed => authed') /\ (Privileged(x) => authed')
        BY <1>7, <2>1
    <2> QED
        BY <1>0, <1>2, <1>7, <2>1, <2>2, <2>3, <2>4, QuietDiscord
<1>8. CASE toDiscord[1].cmd = "SUBSCRIBE_TOP" /\ Reply(<<>>) /\ topSub' = TRUE
           /\ UNCHANGED <<authed, subs>>
    BY <1>0, <1>2, <1>4, <1>8, TopSubscribed
<1>9. ASSUME toDiscord[1].cmd = "GET_SELECTED", UNCHANGED sessionVars, NEW us \in SUBSET Users,
             Reply(<<Msg("selected", TRUE, voice, us)>>)
      PROVE  Live'
    <2> DEFINE x == Msg("selected", TRUE, voice, us)
    <2>1. x \in Message /\ x.type = "selected" /\ x.ch = voice
        BY DEF Msg, Message, Typed, TypeOK
    <2>2. toHost' = Append(toHost, x)
        BY <1>3, <1>9, <2>1
    <2> HIDE DEF x
    <2> QED
        BY <1>0, <1>2, <1>9, <2>1, <2>2, QueryAnswered DEF sessionVars
<1>10. CASE /\ toDiscord[1].cmd \in {"SUBSCRIBE", "UNSUBSCRIBE"} /\ Reply(<<>>)
            /\ subs' = IF toDiscord[1].cmd = "SUBSCRIBE" THEN subs \cup {toDiscord[1].ch}
                                                         ELSE subs \ {toDiscord[1].ch}
            /\ UNCHANGED <<authed, topSub>>
    <2>1. toDiscord[1].cmd \notin Opening
        BY <1>10 DEF Opening
    <2> QED
        BY <1>0, <1>2, <1>4, <1>10, <2>1, QuietDiscord
<1>11. CASE toDiscord[1].cmd = "PONG" /\ Reply(<<>>) /\ UNCHANGED sessionVars
    <2>1. toDiscord[1].cmd \notin Opening \cup {"SUBSCRIBE", "UNSUBSCRIBE"}
        BY <1>11 DEF Opening
    <2> QED
        BY <1>0, <1>2, <1>4, <1>11, <2>1, QuietDiscord DEF sessionVars
<1>12. \A us \in (IF voice = NoChannel THEN {{}} ELSE SUBSET Users) : us \in SUBSET Users
    OBVIOUS
<1> QED
    BY <1>1, <1>5, <1>6, <1>7, <1>8, <1>9, <1>10, <1>11, <1>12 DEF DiscordHandles

LEMMA LiveNext == Typed /\ Live /\ [Next]_vars => Live'
<1> SUFFICES ASSUME Typed, Live, [Next]_vars PROVE Live'
    OBVIOUS
<1>0. WireOK
    BY TypedParts
<1>1. ASSUME link' # "up" PROVE Live'
    BY <1>1 DEF Live
<1>2. CASE GiveUp \/ HandleClosed
    BY <1>1, <1>2 DEF GiveUp, HandleClosed, CloseSocket
<1>3. ASSUME TryConnect PROVE Live'
    BY <1>1, <1>3, FreshConnection
<1>4. CASE Launch \/ PollReconnect \/ Start
    BY <1>3, <1>4 DEF Launch, PollReconnect, Start
<1>5. CASE Stop
    BY <1>1, <1>5 DEF Stop, CloseSocket
<1>6. CASE PollEof
    BY <1>2, <1>6 DEF PollEof
<1>7. ASSUME Arrived("ping") \/ Arrived("ready") \/ Arrived("authorize") \/ Arrived("authenticate")
             \/ Arrived("select") \/ Arrived("selected") \/ Arrived("voice") \/ Arrived("notification")
      PROVE  toHost # <<>> /\ Head(toHost) = toHost[1] /\ Tail(toHost) \in Seq(Message)
    <2>1. toHost # <<>>
        BY <1>7 DEF Arrived
    <2> QED
        BY <1>0, <2>1, HeadTyped
<1>8. ASSUME toHost # <<>>, toHost[1].type \notin MoveKinds, Ignored,
             UNCHANGED <<sessionVars, worldVars>>
      PROVE  Live'
    <2>1. CASE link = "up"
        BY <1>8, <2>1, QuietHost DEF Ignored, Consumed, clientVars, sessionVars, worldVars
    <2>2. CASE link # "up"
        BY <1>1, <1>8, <2>2 DEF Ignored, Consumed
    <2> QED
        BY <2>1, <2>2
<1>9. CASE OnPing
    <2>1. /\ toHost # <<>> /\ toHost[1].type = "ping" /\ Tail(toHost) \in Seq(Message)
          /\ UNCHANGED <<sessionVars, worldVars>>
        BY <1>7, <1>9 DEF OnPing, Arrived
    <2>2. CASE Sent(<<Pong>>, Tail(toHost)) /\ UNCHANGED clientVars
        <3>1. Pong \in Command /\ Pong.cmd # "SUBSCRIBE"
            BY ConstantCommands DEF Pong, Cmd
        <3>2. toDiscord' = Append(toDiscord, Pong) /\ toHost' = Tail(toHost)
            BY <1>0, <2>1, <2>2, <3>1, SentOne
        <3>3. link = "up" /\ toHost[1].type \notin MoveKinds
            BY <2>1, <2>2 DEF Sent, MoveKinds
        <3> QED
            BY <2>1, <2>2, <3>2, <3>3, QuietHost DEF clientVars, sessionVars, worldVars
    <2> QED
        BY <1>2, <1>9, <2>2 DEF OnPing, SendFails
<1>10. CASE OnReady
    <2>1. /\ toHost # <<>> /\ toHost[1].type = "ready" /\ Tail(toHost) \in Seq(Message)
          /\ UNCHANGED <<sessionVars, worldVars>>
        BY <1>7, <1>10 DEF OnReady, Arrived
    <2>2. CASE Sent(<<Authorize>>, Tail(toHost)) /\ state' = "Authorizing" /\ UNCHANGED subscribed
        <3>1. Authorize \in Command /\ Authorize.cmd # "SUBSCRIBE"
            BY ConstantCommands DEF Authorize, Cmd
        <3>2. toDiscord' = Append(toDiscord, Authorize) /\ toHost' = Tail(toHost)
            BY <1>0, <2>1, <2>2, <3>1, SentOne
        <3>3. link = "up"
            BY <2>2 DEF Sent
        <3> QED
            BY <2>1, <2>2, <3>2, <3>3, ReadyAnswered DEF sessionVars, worldVars
    <2> QED
        BY <1>2, <1>10, <2>2 DEF OnReady, SendFails
<1>11. CASE OnAuthorizeReply
    <2>1. /\ toHost # <<>> /\ toHost[1].type = "authorize" /\ UNCHANGED <<sessionVars, worldVars>>
        BY <1>7, <1>11 DEF OnAuthorizeReply, Arrived
    <2>2. toHost[1].type \notin MoveKinds
        BY <2>1 DEF MoveKinds
    <2> QED
        BY <1>2, <1>8, <1>11, <2>1, <2>2 DEF OnAuthorizeReply
<1>12. CASE OnAuthenticateReply
    <2>1. /\ toHost # <<>> /\ toHost[1].type = "authenticate" /\ Tail(toHost) \in Seq(Message)
          /\ Head(toHost) = toHost[1] /\ UNCHANGED <<sessionVars, worldVars>>
        BY <1>7, <1>12 DEF OnAuthenticateReply, Arrived
    <2>2. toHost[1].type \notin MoveKinds
        BY <2>1 DEF MoveKinds
    <2>3. CASE /\ state = "Authorizing" /\ Head(toHost).flag
               /\ Sent(TopLevelCmds, Tail(toHost)) /\ state' = "Ready" /\ UNCHANGED subscribed
        <3>1. /\ SubscribeTop \in Command /\ SubscribeTop.cmd # "SUBSCRIBE"
              /\ GetSelected \in Command /\ GetSelected.cmd # "SUBSCRIBE"
            BY ConstantCommands DEF SubscribeTop, GetSelected, Cmd
        <3>2. /\ toDiscord' = Append(Append(toDiscord, SubscribeTop), GetSelected)
              /\ toHost' = Tail(toHost)
            BY <1>0, <2>1, <2>3, <3>1, SentTwo DEF TopLevelCmds
        <3>3. link = "up"
            BY <2>3 DEF Sent
        <3> QED
            BY <2>1, <2>3, <3>2, <3>3, Authenticated DEF sessionVars, worldVars
    <2> QED
        BY <1>2, <1>8, <1>12, <2>1, <2>2, <2>3 DEF OnAuthenticateReply, SendFails
<1>13. CASE OnChannelSelect
    <2>1. /\ toHost # <<>> /\ toHost[1].type \in MoveKinds /\ Head(toHost) = toHost[1]
          /\ UNCHANGED <<sessionVars, worldVars>>
        BY <1>7, <1>13 DEF OnChannelSelect, Arrived, MoveKinds
    <2> QED
        BY <1>13, <2>1, SelectLive DEF OnChannelSelect, sessionVars, worldVars
<1>14. CASE OnSelectedReply
    <2>1. /\ toHost # <<>> /\ toHost[1].type = "selected" /\ Head(toHost) = toHost[1]
          /\ UNCHANGED <<sessionVars, worldVars>>
        BY <1>7, <1>14 DEF OnSelectedReply, Arrived
    <2>2. toHost[1].type \in MoveKinds
        BY <2>1 DEF MoveKinds
    <2>3. CASE HandleChannelSelect(toHost[1].ch)
        BY <2>1, <2>2, <2>3, SelectLive DEF sessionVars, worldVars
    <2>4. CASE /\ state \notin {"Ready", "InChannel"} \/ toHost[1].ch \in {NoChannel, subscribed}
               /\ Ignored
        <3>1. CASE link # "up"
            BY <1>1, <2>4, <3>1 DEF Ignored, Consumed
        <3>2. CASE link = "up"
            <4>1. /\ toHost[1].ch = subscribed
                  /\ state = IF subscribed = NoChannel THEN "Ready" ELSE "InChannel"
                BY <2>1, <2>4, <3>2, IgnoredReply
            <4>2. toHost' = Tail(toHost) /\ toDiscord' = toDiscord /\ UNCHANGED <<state, subscribed>>
                BY <2>4 DEF Ignored, Consumed, clientVars
            <4> QED
                BY <2>1, <2>2, <3>2, <4>1, <4>2, Moved DEF sessionVars, worldVars
        <3> QED
            BY <3>1, <3>2
    <2> QED
        BY <1>14, <2>1, <2>3, <2>4 DEF OnSelectedReply
<1>15. CASE OnVoiceEvent \/ OnNotification
    <2>1. /\ toHost # <<>> /\ toHost[1].type \in {"voice", "notification"} /\ Ignored
          /\ UNCHANGED <<sessionVars, worldVars>>
        BY <1>7, <1>15 DEF OnVoiceEvent, OnNotification, Arrived
    <2>2. toHost[1].type \notin MoveKinds
        BY <2>1 DEF MoveKinds
    <2> QED
        BY <1>8, <2>1, <2>2
<1>16. ASSUME UNCHANGED <<clientVars, wireVars, sessionVars, voice>> PROVE Live'
    <2>1. CASE link # "up"
        BY <1>1, <1>16, <2>1 DEF wireVars
    <2>2. CASE link = "up"
        BY <1>16, <2>2, QuietHost DEF clientVars, wireVars, sessionVars
    <2> QED
        BY <2>1, <2>2
<1>17. CASE SeedNext \/ FetchDone \/ DelayElapses \/ DiscordStarts
    BY <1>16, <1>17 DEF SeedNext, FetchDone, DelayElapses, DiscordStarts, worldVars
<1>18. ASSUME NEW ok \in BOOLEAN, ExchangeDone(ok) PROVE Live'
    <2>1. UNCHANGED <<sessionVars, worldVars>>
        BY <1>18 DEF ExchangeDone
    <2>2. CASE Sent(<<Authenticate>>, toHost) /\ UNCHANGED clientVars
        <3>1. Authenticate \in Command /\ Authenticate.cmd # "SUBSCRIBE" /\ toHost \in Seq(Message)
            BY <1>0, ConstantCommands DEF Authenticate, Cmd, WireOK
        <3>2. toDiscord' = Append(toDiscord, Authenticate) /\ toHost' = toHost
            BY <1>0, <2>2, <3>1, SentOne
        <3>3. link = "up"
            BY <2>2 DEF Sent
        <3> QED
            BY <2>1, <2>2, <3>2, <3>3, QuietHost DEF clientVars, sessionVars, worldVars
    <2>3. CASE UNCHANGED <<clientVars, pending, due, wireVars>>
        BY <1>16, <2>1, <2>3 DEF worldVars
    <2> QED
        BY <1>2, <1>18, <2>2, <2>3 DEF ExchangeDone, SendFails
<1>19. CASE DiscordHandles
    BY <1>19, HandlesLive
<1>20. CASE DiscordCloses
    <2>1. link' # "up"
        BY <1>20 DEF DiscordCloses
    <2> QED
        BY <1>1, <2>1
<1>21. ASSUME NEW c \in ChannelIds, UserMoves(c) PROVE Live'
    <2> DEFINE x == Msg("select", TRUE, c, {})
    <2>1. /\ UNCHANGED <<state, subscribed, authed, topSub, subs, toDiscord, link>> /\ voice' = c
        BY <1>21 DEF UserMoves, clientVars, sessionVars
    <2>2. CASE link # "up"
        BY <1>1, <2>1, <2>2
    <2>3. CASE link = "up" /\ ~topSub
        <3>1. toHost' = toHost
            BY <1>0, <1>21, <2>3, DispatchedNone DEF UserMoves
        <3> QED
            BY <2>1, <2>3, <3>1, UserMoved
    <2>4. CASE link = "up" /\ topSub
        <3>1. x \in Message /\ x.type = "select" /\ x.ch = c
            BY DEF Msg, Message
        <3>2. toHost' = Append(toHost, x)
            BY <1>0, <1>21, <2>4, <3>1, DispatchedOne DEF UserMoves
        <3> HIDE DEF x
        <3> QED
            BY <2>1, <2>4, <3>1, <3>2, UserMoved
    <2> QED
        BY <2>2, <2>3, <2>4
<1>22. ASSUME NEW x \in Message, x.type \in {"voice", "ping", "notification"}, Dispatched(<<x>>),
              link = "up", UNCHANGED <<clientVars, link, toDiscord, sessionVars, worldVars>>
       PROVE  Live'
    <2>1. toHost' = Append(toHost, x)
        BY <1>0, <1>22, DispatchedOne
    <2>2. x.type \notin MoveKinds \cup {"ready"} /\ ~Privileged(x)
        BY <1>22 DEF MoveKinds, Privileged
    <2> QED
        BY <1>22, <2>1, <2>2, QuietDiscord DEF clientVars, sessionVars, worldVars
<1>23. ASSUME NEW u \in Users, NEW joins \in BOOLEAN, MemberMoves(u, joins) PROVE Live'
    <2>1. /\ Msg("voice", joins, NoChannel, {u}) \in Message
          /\ Msg("voice", joins, NoChannel, {u}).type = "voice"
        BY DEF Msg, Message, ChannelIds
    <2> QED
        BY <1>22, <1>23, <2>1 DEF MemberMoves
<1>24. ASSUME NEW kind \in {"ping", "notification"}, DiscordSends(kind) PROVE Live'
    <2>1. /\ Msg(kind, TRUE, NoChannel, {}) \in Message
          /\ Msg(kind, TRUE, NoChannel, {}).type = kind
        BY DEF Msg, Message, ChannelIds
    <2> QED
        BY <1>22, <1>24, <2>1 DEF DiscordSends
<1>25. CASE UNCHANGED vars
    BY <1>16, <1>25 DEF vars, clientVars, wireVars, sessionVars
<1> QED
    BY <1>4, <1>5, <1>6, <1>9, <1>10, <1>11, <1>12, <1>13, <1>14, <1>15, <1>17, <1>18,
       <1>19,
       <1>20, <1>21, <1>23, <1>24, <1>25
       DEF Next, HostStep

-----------------------------------------------------------------------------
(* The theorems *)

LEMMA RpcInvInit == Init => RpcInv
<1> SUFFICES ASSUME Init PROVE RpcInv
    OBVIOUS
<1>1. Typed
    <2>1. toDiscord \in Seq(Command) /\ toHost \in Seq(Message) /\ Len(toDiscord) = 0
        BY DEF Init
    <2>2. \A n \in 1..0 : FALSE
        OBVIOUS
    <2>3. TypeOK
        BY <2>1 DEF Init, TypeOK, ChannelIds
    <2> QED
        BY <2>1, <2>2, <2>3, RpcAssumption DEF Typed
<1>2. Retrying /\ Seeding /\ Showing /\ Live
    BY DEF Init, Retrying, NeverStranded, Seeding, SeedsGoToTheirChannel, Showing, Live
<1> QED
    BY <1>1, <1>2 DEF RpcInv

(* The inductive invariant of the client holds in every reachable state. *)
THEOREM RpcInvariant == Spec => []RpcInv
<1>1. RpcInv /\ [Next]_vars => RpcInv'
    BY TypedNext, RetryingNext, SeedingNext, ShowingNext, LiveNext DEF RpcInv
<1> QED
    BY <1>1, RpcInvInit, PTL DEF Spec

(* Every variable keeps its type, whatever steps of host and Discord meet. *)
THEOREM TypeCorrect == Spec => []TypeOK
<1>1. RpcInv => TypeOK
    BY DEF RpcInv, Typed
<1> QED
    BY <1>1, RpcInvariant, PTL

(* A client that lost its connection, in whichever handler, has a reconnect *)
(* scheduled; a stopped one has neither a connection nor a reconnect        *)
(* (rpc_client.cpp: schedule_reconnect, on_closed, stop).                   *)
THEOREM RetriesUnlessStopped == Spec => []NeverStranded
<1>1. RpcInv => NeverStranded
    BY DEF RpcInv, Retrying
<1> QED
    BY <1>1, RpcInvariant, PTL

(* Ready and InChannel on a live socket mean that this very connection was  *)
(* authenticated, although the token exchange may answer on another one     *)
(* than it was asked for (rpc_client.cpp: handle_authorize_response).       *)
THEOREM ReadyOnlyAuthenticated == Spec => []ReadyMeansAuthenticated
<1>1. RpcInv => ReadyMeansAuthenticated
    BY DEF RpcInv, Live, Authentic, ReadyMeansAuthenticated
<1> QED
    BY <1>1, RpcInvariant, PTL

(* Once Discord has handled what was sent it has exactly the subscriptions  *)
(* of subscribed_channel_ (rpc_client.cpp: handle_channel_select).          *)
THEOREM SubscriptionsFollow == Spec => []SubscriptionsAgree
<1>1. ASSUME RpcInv PROVE SubscriptionsAgree
    <2>1. SUFFICES ASSUME link = "up"
                   PROVE  SubsAfter[Len(toDiscord)] = {subscribed} \ {NoChannel}
        BY DEF SubscriptionsAgree
    <2>2. Typed /\ Subscribing
        BY <1>1, <2>1 DEF RpcInv, Live
    <2>3. Len(toDiscord) \in 0..MaxCmds
        <3>1. Len(toDiscord) \in Nat /\ Len(toDiscord) <= MaxCmds
            BY <2>2 DEF Typed, TypeOK
        <3> QED
            BY <3>1, RpcAssumption
    <2>4. ASSUME NEW c
          PROVE  c \in SubsAfter[Len(toDiscord)] <=> HoldsTo(subs, toDiscord, Len(toDiscord), c)
        BY <2>2, <2>3, LastCommandWins
    <2>5. ASSUME NEW c, HoldsTo(subs, toDiscord, Len(toDiscord), c) PROVE c \in Channels
        BY <2>2, <2>5 DEF HoldsTo, Names, Typed, TypeOK
    <2>6. ASSUME NEW c \in Channels
          PROVE  HoldsTo(subs, toDiscord, Len(toDiscord), c) <=> c = subscribed
        BY <2>2 DEF Subscribing
    <2>7. subscribed \in Channels \/ subscribed = NoChannel
        BY <2>2 DEF Typed, TypeOK, ChannelIds
    <2>8. ASSUME NEW c
          PROVE  c \in SubsAfter[Len(toDiscord)] <=> c \in {subscribed} \ {NoChannel}
        BY <2>4, <2>5, <2>6, <2>7, RpcAssumption
    <2>9. \A c : c \in SubsAfter[Len(toDiscord)] <=> c \in {subscribed} \ {NoChannel}
        BY <2>8
    <2> QED
        BY <2>9
<1> QED
    BY <1>1, RpcInvariant, PTL

(* When nothing is in flight and no handler runs, a Ready or InChannel      *)
(* client is subscribed to the channel the user is in, and the overlay      *)
(* shows it: the events and the reply to the query, in whatever order the   *)
(* user's moves put them, have led there.                                   *)
THEOREM FollowsUser == Spec => []FollowsTheUser
<1>1. ASSUME RpcInv PROVE FollowsTheUser
    <2>1. SUFFICES ASSUME Settled
                   PROVE  /\ subscribed = voice
                          /\ state = "InChannel" <=> voice # NoChannel
                          /\ voice # NoChannel => shown = voice
        BY DEF FollowsTheUser
    <2>2. /\ link = "up" /\ state \in {"Ready", "InChannel"}
          /\ Len(toHost) = 0 /\ Len(toDiscord) = 0
        BY <2>1 DEF Settled
    <2>3. \A n \in 1..0 : FALSE
        OBVIOUS
    <2>4. Running /\ Showing
        BY <1>1, <2>2 DEF RpcInv, Live, Session
    <2>5. ~AskedIn(toDiscord) /\ ~QueriedIn(toDiscord)
        BY <2>2, <2>3 DEF AskedIn, QueriedIn
    <2>6. Ends(subscribed, toHost, voice)
        BY <2>4, <2>5 DEF Running, Asking, Querying, Following
    <2>7. subscribed = voice
        BY <2>2, <2>3, <2>6 DEF Ends, EndsAt
    <2> QED
        BY <2>4, <2>7 DEF Running, Showing
<1> QED
    BY <1>1, RpcInvariant, PTL

(* The voice states that came with a GET_SELECTED_VOICE_CHANNEL reply are   *)
(* applied while the overlay shows that reply's channel, whatever runs in   *)
(* the event loops of the avatar fetches in between.                        *)
THEOREM SeedsStay == Spec => []SeedsGoToTheirChannel
<1>1. RpcInv => SeedsGoToTheirChannel
    BY DEF RpcInv, Seeding
<1> QED
    BY <1>1, RpcInvariant, PTL
=============================================================================
