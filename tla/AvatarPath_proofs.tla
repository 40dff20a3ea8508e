-------------------------- MODULE AvatarPath_proofs --------------------------
(***************************************************************************)
(* Proofs about StateLink and AvatarPath, for any number of games, avatars *)
(* and lives of the host: a game that joined is never left behind, a       *)
(* denied one is told, what is announced is a complete file and no upload  *)
(* leaks an object.                                                        *)
(*                                                                         *)
(* AvatarPath implements StateLink (PathImplementsLink), so what holds of  *)
(* the link alone is proved from StateLink's actions and then holds of the *)
(* composition.                                                            *)
(***************************************************************************)
EXTENDS AvatarPath, FiniteSetTheorems, TLAPS

-----------------------------------------------------------------------------
(* The inductive invariant of the link, in parts *)

Shows(f)     == f.type = "Snapshot"
Carried(f)   == [life |-> f.life, rev |-> f.rev]

(* A game that shows s will show c when it has read q. *)
LeadsTo(s, q, c) ==
    \/ c = s /\ \A n \in 1..Len(q) : ~Shows(q[n])
    \/ \E k \in 1..Len(q) : /\ Shows(q[k]) /\ c = Carried(q[k])
                            /\ \A n \in (k + 1)..Len(q) : ~Shows(q[n])

Holds(q, f) == \E n \in 1..Len(q) : q[n] = f

(* A snapshot has a life; only finitely many pictures have been announced. *)
Counting == (hostUp => life \in 1..MaxLives) /\ IsFiniteSet(announced)

(* An entry of the server belongs to this life of the host and to a client  *)
(* that is talking to it, and nothing is sent before the client's Hello.    *)
Linked(g) ==
    /\ class[g] # "none" => hostUp
    /\ pc[g] \notin {"hello", "serve"} => class[g] = "none" /\ toGame[g] = <<>>
    /\ class[g] \in {"pending", "new"} => toGame[g] = <<>>

Informed(g) ==
    class[g] = "active" =>
        /\ LeadsTo(latest[g], toGame[g], [life |-> life, rev |-> current])
        /\ \A h \in announced : h \in retained[g] \/ Holds(toGame[g], AvatarReady(h))

Told(g) ==
    class[g] = "inert" =>
        /\ \A n \in 1..Len(toGame[g]) : ~Shows(toGame[g][n])
        /\ disabled[g] \/ Holds(toGame[g], Disabled)

Served(g) == Linked(g) /\ Informed(g) /\ Told(g)

LinkInv == TypeOK /\ Counting /\ \A g \in Games : Served(g)

-----------------------------------------------------------------------------
(* ... and of the path *)

(* The pictures that can be loaded, but for what killed their writer. *)
Loadable == {h \in Avatars : file[h] = "whole" \/ h \in cut}

Announces(q, H) == \A n \in 1..Len(q) : q[n].type = "AvatarReady" => q[n].hash \in H

(* Whatever a game has been told of, or will be, is in H. *)
ToldOf(H) ==
    /\ announced \subseteq H
    /\ \A g \in Games : retained[g] \subseteq H /\ Announces(toGame[g], H)

SafeFiles == known \subseteq Loadable /\ ToldOf(Loadable)

(* A torn file is being written, or was cut; what is fetched had no file. *)
Writing ==
    /\ \A h \in Avatars : file[h] = "torn" => h \in cut \/ (step = "write" /\ key = h)
    /\ step = "fetch" => file[key] = "absent"
    /\ step = "write" => file[key] = "torn"

(* The host knows which picture it is working on. *)
Requesting ==
    /\ step \in {"idle", "fetch", "write"}
    /\ key \in Avatars \cup {None} /\ (step = "idle" <=> key = None)

ObjectKinds == VulkanTexture \cup {"texture"}

(* A renderer that is not there has no textures. *)
Drawing ==
    /\ objects \in [Games -> SUBSET (Avatars \X ObjectKinds)]
    /\ \A g \in Games : renderer[g] = "none" => textures[g] = {}

FileInv ==
    /\ file \in [Avatars -> {"absent", "torn", "whole"}]
    /\ cut \subseteq Avatars /\ known \subseteq Avatars /\ failures \in 0..MaxFailures
    /\ Requesting /\ Writing /\ SafeFiles

DrawInv ==
    /\ renderer \in [Games -> {"none", "vulkan", "gl"}]
    /\ textures \in [Games -> SUBSET Avatars]
    /\ Drawing /\ NothingLeaks

PathInv == LinkInv /\ FileInv /\ DrawInv

-----------------------------------------------------------------------------
(* Queues *)

LEMMA TailOf ==
    ASSUME NEW S, NEW q \in Seq(S), q # <<>>
    PROVE  /\ Len(q) \in Nat \ {0} /\ Tail(q) \in Seq(S) /\ Len(Tail(q)) = Len(q) - 1
           /\ \A n \in 1..(Len(q) - 1) : Tail(q)[n] = q[n + 1]
           /\ Head(q) = q[1] /\ q[1] \in S /\ 1 \in 1..Len(q)
    OBVIOUS

LEMMA AppendOf ==
    ASSUME NEW S, NEW q \in Seq(S), NEW x \in S
    PROVE  /\ Append(q, x) \in Seq(S) /\ Len(q) \in Nat /\ Len(Append(q, x)) = Len(q) + 1
           /\ \A n \in 1..Len(q) : Append(q, x)[n] = q[n]
           /\ Append(q, x)[Len(q) + 1] = x
           /\ \A n \in 1..(Len(q) + 1) : n \in 1..Len(q) \/ n = Len(q) + 1
    OBVIOUS

(* Every frame after a step was there before, or is new. *)
LEMMA EntriesOf ==
    ASSUME NEW S, NEW q \in Seq(S)
    PROVE  /\ q # <<>> => \A n \in 1..Len(Tail(q)) : \E m \in 1..Len(q) : Tail(q)[n] = q[m]
           /\ \A x \in S : \A n \in 1..Len(Append(q, x)) :
                 Append(q, x)[n] = x \/ \E m \in 1..Len(q) : Append(q, x)[n] = q[m]
           /\ \A r \in Seq(S) : \A n \in 1..Len(q \o r) :
                 \/ \E m \in 1..Len(q) : (q \o r)[n] = q[m]
                 \/ \E m \in 1..Len(r) : (q \o r)[n] = r[m]
<1>1. ASSUME q # <<>>, NEW n \in 1..Len(Tail(q))
      PROVE  \E m \in 1..Len(q) : Tail(q)[n] = q[m]
    <2>1. n + 1 \in 1..Len(q) /\ Tail(q)[n] = q[n + 1]
        BY <1>1, TailOf
    <2> QED
        BY <2>1
<1>2. ASSUME NEW x \in S, NEW n \in 1..Len(Append(q, x))
      PROVE  Append(q, x)[n] = x \/ \E m \in 1..Len(q) : Append(q, x)[n] = q[m]
    BY AppendOf
<1>3. ASSUME NEW r \in Seq(S), NEW n \in 1..Len(q \o r)
      PROVE  \/ \E m \in 1..Len(q) : (q \o r)[n] = q[m]
             \/ \E m \in 1..Len(r) : (q \o r)[n] = r[m]
    <2>1. Len(q) \in Nat /\ Len(r) \in Nat /\ Len(q \o r) = Len(q) + Len(r)
        OBVIOUS
    <2>2. CASE n \in 1..Len(q)
        <3>1. (q \o r)[n] = q[n]
            BY <2>1, <2>2
        <3> QED
            BY <2>2, <3>1
    <2>3. CASE n \notin 1..Len(q)
        <3>1. n - Len(q) \in 1..Len(r) /\ (q \o r)[n] = r[n - Len(q)]
            BY <2>1, <2>3
        <3> QED
            BY <3>1
    <2> QED
        BY <2>2, <2>3
<1> QED
    BY <1>1, <1>2, <1>3

(* Where a queue leads: to its last snapshot. *)
LEMMA LeadsAppend ==
    ASSUME NEW S, NEW q \in Seq(S), NEW f \in S, NEW s
    PROVE  /\ Shows(f) => LeadsTo(s, Append(q, f), Carried(f))
           /\ \A c : ~Shows(f) /\ LeadsTo(s, q, c) => LeadsTo(s, Append(q, f), c)
<1> DEFINE r == Append(q, f)
           N == Len(q)
<1>1. /\ N \in Nat /\ Len(r) = N + 1 /\ r[N + 1] = f /\ \A n \in 1..N : r[n] = q[n]
      /\ \A n \in 1..(N + 1) : n \in 1..N \/ n = N + 1
    BY AppendOf
<1> HIDE DEF r, N
<1>2. N + 1 \in 1..(N + 1) /\ \A n \in ((N + 1) + 1)..(N + 1) : FALSE
    BY <1>1
<1>3. ASSUME Shows(f) PROVE LeadsTo(s, r, Carried(f))
    BY <1>1, <1>2, <1>3 DEF LeadsTo
<1>4. ASSUME NEW c, ~Shows(f), LeadsTo(s, q, c) PROVE LeadsTo(s, r, c)
    <2>1. CASE c = s /\ \A n \in 1..N : ~Shows(q[n])
        BY <1>1, <1>4, <2>1 DEF LeadsTo
    <2>2. CASE \E k \in 1..N : /\ Shows(q[k]) /\ c = Carried(q[k])
                               /\ \A n \in (k + 1)..N : ~Shows(q[n])
        <3>1. PICK k \in 1..N : /\ Shows(q[k]) /\ c = Carried(q[k])
                                /\ \A n \in (k + 1)..N : ~Shows(q[n])
            BY <2>2
        <3>2. k \in 1..(N + 1) /\ r[k] = q[k]
            BY <1>1
        <3>3. ASSUME NEW n \in (k + 1)..(N + 1) PROVE ~Shows(r[n])
            <4>1. n = N + 1 \/ (n \in (k + 1)..N /\ n \in 1..N)
                BY <1>1
            <4> QED
                BY <1>1, <1>4, <3>1, <4>1
        <3> QED
            BY <1>1, <3>1, <3>2, <3>3 DEF LeadsTo
    <2> QED
        BY <1>4, <2>1, <2>2 DEF LeadsTo, N
<1> QED
    BY <1>3, <1>4 DEF r

(* The game reads the first frame. *)
LEMMA LeadsTail ==
    ASSUME NEW S, NEW q \in Seq(S), q # <<>>, NEW s, NEW t, NEW c, LeadsTo(s, q, c),
           t = IF Shows(q[1]) THEN Carried(q[1]) ELSE s
    PROVE  LeadsTo(t, Tail(q), c)
<1> DEFINE r == Tail(q)
           N == Len(q)
<1>1. N \in Nat \ {0} /\ Len(r) = N - 1 /\ \A n \in 1..(N - 1) : r[n] = q[n + 1]
    BY TailOf
<1> HIDE DEF r, N
<1>2. CASE c = s /\ \A n \in 1..N : ~Shows(q[n])
    <2>1. 1 \in 1..N /\ \A n \in 1..(N - 1) : n + 1 \in 1..N
        BY <1>1
    <2>2. \A n \in 1..(N - 1) : ~Shows(r[n])
        BY <1>1, <1>2, <2>1
    <2> QED
        BY <1>1, <1>2, <2>1, <2>2 DEF LeadsTo, r
<1>3. CASE \E k \in 1..N : /\ Shows(q[k]) /\ c = Carried(q[k])
                           /\ \A n \in (k + 1)..N : ~Shows(q[n])
    <2>1. PICK k \in 1..N : /\ Shows(q[k]) /\ c = Carried(q[k])
                            /\ \A n \in (k + 1)..N : ~Shows(q[n])
        BY <1>3
    <2>2. CASE k = 1
        <3>1. ASSUME NEW n \in 1..(N - 1) PROVE ~Shows(r[n])
            <4>1. n + 1 \in (k + 1)..N
                BY <1>1, <2>2
            <4> QED
                BY <1>1, <2>1, <4>1
        <3> QED
            BY <1>1, <2>1, <2>2, <3>1 DEF LeadsTo, r
    <2>3. CASE k # 1
        <3>1. k - 1 \in 1..(N - 1) /\ (k - 1) + 1 = k
            BY <1>1, <2>3
        <3>2. r[k - 1] = q[k]
            BY <1>1, <3>1
        <3>3. ASSUME NEW n \in ((k - 1) + 1)..(N - 1) PROVE ~Shows(r[n])
            <4>1. n \in 1..(N - 1) /\ n + 1 \in (k + 1)..N
                BY <1>1, <3>1
            <4> QED
                BY <1>1, <2>1, <4>1
        <3> QED
            BY <1>1, <2>1, <3>1, <3>2, <3>3 DEF LeadsTo, r
    <2> QED
        BY <2>2, <2>3
<1> QED
    BY <1>2, <1>3 DEF LeadsTo, N

(* Only the first of the frames that are added is a snapshot. *)
LEMMA LeadsConcat ==
    ASSUME NEW S, NEW q \in Seq(S), NEW r \in Seq(S), Len(r) # 0, Shows(r[1]),
           \A n \in 2..Len(r) : ~Shows(r[n]), NEW s
    PROVE  LeadsTo(s, q \o r, Carried(r[1]))
<1>1. Len(q) \in Nat /\ Len(r) \in Nat \ {0} /\ Len(q \o r) = Len(q) + Len(r)
    OBVIOUS
<1>2. Len(q) + 1 \in 1..Len(q \o r) /\ (q \o r)[Len(q) + 1] = r[1]
    BY <1>1
<1>3. ASSUME NEW n \in ((Len(q) + 1) + 1)..Len(q \o r) PROVE ~Shows((q \o r)[n])
    <2>1. n - Len(q) \in 2..Len(r) /\ (q \o r)[n] = r[n - Len(q)]
        BY <1>1
    <2> QED
        BY <2>1
<1> QED
    BY <1>2, <1>3 DEF LeadsTo

(* A frame in flight stays, until it is read. *)
LEMMA HoldsAppend ==
    ASSUME NEW S, NEW q \in Seq(S), NEW f \in S
    PROVE  /\ Holds(Append(q, f), f)
           /\ \A x : Holds(q, x) => Holds(Append(q, f), x)
<1>1. /\ Len(q) \in Nat /\ Len(Append(q, f)) = Len(q) + 1 /\ Append(q, f)[Len(q) + 1] = f
      /\ \A n \in 1..Len(q) : Append(q, f)[n] = q[n]
    BY AppendOf
<1>2. Len(q) + 1 \in 1..(Len(q) + 1) /\ \A n \in 1..Len(q) : n \in 1..(Len(q) + 1)
    BY <1>1
<1> QED
    BY <1>1, <1>2 DEF Holds

LEMMA HoldsTail ==
    ASSUME NEW S, NEW q \in Seq(S), q # <<>>, NEW x, Holds(q, x)
    PROVE  x = q[1] \/ Holds(Tail(q), x)
<1>1. Len(q) \in Nat \ {0} /\ Len(Tail(q)) = Len(q) - 1
      /\ \A n \in 1..(Len(q) - 1) : Tail(q)[n] = q[n + 1]
    BY TailOf
<1>2. PICK n \in 1..Len(q) : q[n] = x
    BY DEF Holds
<1>3. CASE n # 1
    <2>1. n - 1 \in 1..(Len(q) - 1) /\ (n - 1) + 1 = n
        BY <1>1, <1>3
    <2>2. Tail(q)[n - 1] = x
        BY <1>1, <1>2, <2>1
    <2> QED
        BY <1>1, <2>1, <2>2 DEF Holds
<1> QED
    BY <1>2, <1>3

(* A finite set, as a sequence. *)
LEMMA SetToSeqOf ==
    ASSUME NEW S, IsFiniteSet(S)
    PROVE  /\ SetToSeq(S) \in Seq(S)
           /\ \A x \in S : Holds(SetToSeq(S), x)
<1> DEFINE N == Cardinality(S)
<1>1. N \in Nat /\ ExistsBijection(1..N, S)
    BY FS_CardinalityType
<1>2. PICK f \in [1..N -> S] : IsInjective(f)
    BY <1>1 DEF ExistsBijection, Bijection, Injection
<1>3. SetToSeq(S) \in [1..N -> S] /\ IsInjective(SetToSeq(S))
    BY <1>2 DEF SetToSeq
<1>4. Cardinality(1..N) = N
    BY <1>1, FS_Interval
<1>5. SetToSeq(S) \in Surjection(1..N, S)
    BY <1>3, <1>4, FS_Injection DEF Injection
<1>6. SetToSeq(S) \in Seq(S) /\ Len(SetToSeq(S)) = N
    BY <1>1, <1>3
<1> QED
    BY <1>5, <1>6 DEF Surjection, Holds

LEMMA LargerSeq ==
    ASSUME NEW S, NEW T, S \subseteq T, NEW q \in Seq(S)
    PROVE  q \in Seq(T) /\ \A n \in 1..Len(q) : q[n] \in S
    OBVIOUS

LEMMA HoldsConcat ==
    ASSUME NEW S, NEW q \in Seq(S), NEW r \in Seq(S), NEW x, Holds(q, x) \/ Holds(r, x)
    PROVE  Holds(q \o r, x)
<1>1. Len(q) \in Nat /\ Len(r) \in Nat /\ Len(q \o r) = Len(q) + Len(r)
    OBVIOUS
<1>2. ASSUME NEW n \in 1..Len(q) PROVE n \in 1..Len(q \o r) /\ (q \o r)[n] = q[n]
    BY <1>1
<1>3. ASSUME NEW n \in 1..Len(r)
      PROVE  Len(q) + n \in 1..Len(q \o r) /\ (q \o r)[Len(q) + n] = r[n]
    BY <1>1
<1> QED
    BY <1>2, <1>3 DEF Holds

-----------------------------------------------------------------------------
(* Frames *)

LEMMA FrameOf ==
    /\ \A h \in Avatars : /\ AvatarReady(h) \in Frame /\ AvatarReady(h).type = "AvatarReady"
                          /\ AvatarReady(h).hash = h
    /\ Disabled \in Frame /\ Disabled.type = "Disabled"
    /\ \A l \in 1..MaxLives, r \in 0..MaxRev :
          /\ SnapshotFrame(l, r) \in Frame /\ SnapshotFrame(l, r).type = "Snapshot"
          /\ Carried(SnapshotFrame(l, r)) = [life |-> l, rev |-> r]
    BY DEF AvatarReady, Disabled, SnapshotFrame, Frame, Carried

LEMMA FrameParts ==
    ASSUME NEW f \in Frame
    PROVE  /\ f.type \in {"Snapshot", "AvatarReady", "Disabled"}
           /\ f.type = "Snapshot" => Carried(f) \in Snapshots
           /\ f.type = "AvatarReady" => f.hash \in Avatars /\ f = AvatarReady(f.hash)
<1>1. CASE f \in [type : {"Snapshot"}, life : 1..MaxLives, rev : 0..MaxRev]
    BY <1>1 DEF Carried, Snapshots
<1>2. CASE f \in [type : {"AvatarReady"}, hash : Avatars]
    BY <1>2 DEF AvatarReady
<1>3. CASE f = Disabled
    BY <1>3 DEF Disabled
<1> QED
    BY <1>1, <1>2, <1>3 DEF Frame

(* What a client that joins is sent: the snapshot, and every announcement. *)
LEMMA SeedOf ==
    ASSUME TypeOK, Counting, hostUp
    PROVE  /\ Seed \in Seq(Frame) /\ Len(Seed) # 0
           /\ Seed[1] = SnapshotFrame(life, current)
           /\ \A n \in 2..Len(Seed) : \E h \in announced : Seed[n] = AvatarReady(h)
           /\ \A h \in announced : Holds(Seed, AvatarReady(h))
<1> DEFINE A == {AvatarReady(h) : h \in announced}
           F == SnapshotFrame(life, current)
           s == SetToSeq(A)
<1>1. A \in SUBSET Frame /\ F \in Frame
    BY FrameOf DEF TypeOK, Counting
<1>2. IsFiniteSet(A)
    <2> DEFINE f == [h \in announced |-> AvatarReady(h)]
    <2>1. f \in Surjection(announced, A)
        BY DEF Surjection
    <2> QED
        BY <2>1, FS_Surjection DEF Counting
<1>3. s \in Seq(A) /\ \A x \in A : Holds(s, x)
    BY <1>2, SetToSeqOf
<1>4. s \in Seq(Frame) /\ \A n \in 1..Len(s) : s[n] \in A
    BY <1>1, <1>3, LargerSeq
<1>5. \A h \in announced : Holds(s, AvatarReady(h))
    BY <1>3
<1>6. \A n \in 1..Len(s) : \E h \in announced : s[n] = AvatarReady(h)
    BY <1>4
<1>7. Seed = <<F>> \o s
    BY DEF Seed
<1> HIDE DEF A, F, s
<1>8. <<F>> \in Seq(Frame) /\ Len(<<F>>) = 1 /\ <<F>>[1] = F
    BY <1>1
<1>9. Seed \in Seq(Frame) /\ Len(Seed) = 1 + Len(s) /\ Len(s) \in Nat /\ Seed[1] = F
    BY <1>4, <1>7, <1>8
<1>10. ASSUME NEW n \in 2..Len(Seed) PROVE \E h \in announced : Seed[n] = AvatarReady(h)
    <2>1. n - 1 \in 1..Len(s) /\ Seed[n] = s[n - 1]
        BY <1>4, <1>7, <1>8, <1>9
    <2> QED
        BY <1>6, <2>1
<1>11. ASSUME NEW h \in announced PROVE Holds(Seed, AvatarReady(h))
    BY <1>4, <1>5, <1>7, <1>8, HoldsConcat
<1> QED
    BY <1>9, <1>10, <1>11 DEF F

-----------------------------------------------------------------------------
(* Types of the link *)

HostOK ==
    /\ life \in 0..MaxLives /\ hostUp \in BOOLEAN /\ current \in 0..MaxRev
    /\ announced \subseteq Avatars /\ denied \subseteq Games
EntryOK ==
    /\ ghosts \subseteq Games
    /\ class \in [Games -> {"none", "pending", "new", "active", "inert"}]
WireOK ==
    /\ link \in [Games -> {"none", "up", "hup"}]
    /\ toHost \in [Games -> Seq({"Hello"})] /\ toGame \in [Games -> Seq(Frame)]
ThreadOK ==
    /\ pc \in [Games -> {"off", "connect", "backoff", "hello", "serve", "pause", "joined"}]
    /\ backoff \in [Games -> BackoffStart..BackoffMax]
    /\ stop \in [Games -> BOOLEAN]
GameOK ==
    /\ latest \in [Games -> Snapshots \cup {None}]
    /\ disabled \in [Games -> BOOLEAN]
    /\ retained \in [Games -> SUBSET Avatars]

LEMMA TypeParts == TypeOK <=> HostOK /\ EntryOK /\ WireOK /\ ThreadOK /\ GameOK
    BY DEF TypeOK, HostOK, EntryOK, WireOK, ThreadOK, GameOK

LEMMA TypePartsNext == TypeOK' <=> HostOK' /\ EntryOK' /\ WireOK' /\ ThreadOK' /\ GameOK'
    BY DEF TypeOK, HostOK, EntryOK, WireOK, ThreadOK, GameOK

(* The delay stays between its bounds, from either of them on. *)
LEMMA BackoffBounded ==
    ASSUME NEW b \in BackoffStart..BackoffMax
    PROVE  NextBackoff(b) \in BackoffStart..BackoffMax
    BY LinkAssumption DEF NextBackoff

LEMMA CloseLinkTyped ==
    ASSUME EntryOK, WireOK, NEW g \in Games, CloseLink(g)
    PROVE  EntryOK' /\ WireOK'
    BY DEF EntryOK, WireOK, CloseLink

LEMMA SendAllTyped ==
    ASSUME WireOK, NEW f \in Frame, SendAll(f), UNCHANGED <<link, toHost>>
    PROVE  /\ WireOK'
           /\ \A g \in Games : toGame'[g] = IF class[g] = "active" THEN Append(toGame[g], f)
                                                                  ELSE toGame[g]
<1>1. \A g \in Games : Append(toGame[g], f) \in Seq(Frame)
    BY DEF WireOK
<1> QED
    BY <1>1 DEF WireOK, SendAll, Recipients

-----------------------------------------------------------------------------
(* Every step of the link keeps its invariant *)

(* A game that nothing happens to. *)
LEMMA ServedStutter ==
    ASSUME NEW g \in Games, Served(g),
           UNCHANGED <<life, hostUp, current, announced>>,
           class'[g] = class[g], pc'[g] = pc[g], toGame'[g] = toGame[g],
           latest'[g] = latest[g], disabled'[g] = disabled[g], retained'[g] = retained[g]
    PROVE  Served(g)'
    BY DEF Served, Linked, Informed, Told

(* A game without a connection has nothing in flight. *)
LEMMA ServedClosed ==
    ASSUME NEW g \in Games, class'[g] = "none", toGame'[g] = <<>>
    PROVE  Served(g)'
    BY DEF Served, Linked, Informed, Told

(* The client closes its end, wherever its thread is then. *)
LEMMA CloseLinkServed ==
    ASSUME TypeOK, \A k \in Games : Served(k), NEW g \in Games, CloseLink(g),
           UNCHANGED <<life, hostUp, current, announced, gameVars>>,
           \A k \in Games \ {g} : pc'[k] = pc[k]
    PROVE  \A k \in Games : Served(k)'
<1>1. /\ class'[g] = "none" /\ toGame'[g] = <<>>
      /\ \A k \in Games \ {g} : class'[k] = class[k] /\ toGame'[k] = toGame[k]
    BY DEF CloseLink, TypeOK
<1>2. Served(g)'
    BY <1>1, ServedClosed
<1>3. ASSUME NEW k \in Games \ {g} PROVE Served(k)'
    BY <1>1, ServedStutter DEF gameVars
<1> QED
    BY <1>2, <1>3

LEMMA HostStartsKeeps ==
    ASSUME LinkInv, HostStarts
    PROVE  LinkInv'
<1> USE TypeParts, TypePartsNext
<1>1. TypeOK' /\ Counting'
    <2>1. life + 1 \in 1..MaxLives /\ 0 \in 0..MaxRev
        BY LinkAssumption DEF LinkInv, HostOK, HostStarts
    <2>2. HostOK' /\ Counting'
        BY <2>1, FS_EmptySet DEF LinkInv, HostStarts, HostOK, Counting
    <2> QED
        BY <2>2
           DEF LinkInv, HostStarts, EntryOK, WireOK, ThreadOK, GameOK, serverVars,
               wireVars,
                    threadVars, gameVars
<1>2. ASSUME NEW g \in Games PROVE Served(g)'
    <2>1. class[g] = "none" /\ Linked(g)
        BY DEF LinkInv, HostStarts, Served, Linked
    <2> QED
        BY <2>1
           DEF HostStarts, Served, Linked, Informed, Told, serverVars, wireVars,
               threadVars
<1> QED
    BY <1>1, <1>2 DEF LinkInv

LEMMA HostDiesKeeps ==
    ASSUME LinkInv, HostDies
    PROVE  LinkInv'
<1> USE TypeParts, TypePartsNext
<1>1. TypeOK' /\ Counting'
    <2>1. EntryOK' /\ WireOK'
        BY DEF LinkInv, HostDies, EntryOK, WireOK
    <2>2. HostOK' /\ Counting'
        BY DEF LinkInv, HostDies, HostOK, Counting
    <2> QED
        BY <2>1, <2>2 DEF LinkInv, HostDies, ThreadOK, GameOK, threadVars, gameVars
<1>2. ASSUME NEW g \in Games PROVE Served(g)'
    <2>1. class'[g] = "none" /\ pc'[g] = pc[g] /\ toGame'[g] = toGame[g] /\ Linked(g)
        BY DEF LinkInv, HostDies, Served, threadVars
    <2> QED
        BY <2>1 DEF Served, Linked, Informed, Told
<1> QED
    BY <1>1, <1>2 DEF LinkInv

LEMMA BroadcastKeeps ==
    ASSUME LinkInv, Broadcast
    PROVE  LinkInv'
<1> USE TypeParts, TypePartsNext
<1> DEFINE f == SnapshotFrame(life, current + 1)
<1>0. current + 1 \in 0..MaxRev /\ life \in 1..MaxLives
    BY LinkAssumption DEF LinkInv, HostOK, Broadcast, Counting
<1>1. f \in Frame /\ f.type = "Snapshot" /\ Carried(f) = [life |-> life, rev |-> current + 1]
    BY <1>0, FrameOf
<1>2. /\ SendAll(f) /\ UNCHANGED <<life, hostUp, announced, denied, class, link, toHost, threadVars,
                                   gameVars>>
      /\ current' = current + 1 /\ ghosts' \in {ghosts, {}}
    BY DEF Broadcast
<1> HIDE DEF f
<1>3. /\ WireOK'
      /\ \A g \in Games : toGame'[g] = IF class[g] = "active" THEN Append(toGame[g], f)
                                                             ELSE toGame[g]
    BY <1>1, <1>2, SendAllTyped DEF LinkInv
<1>4. TypeOK' /\ Counting'
    BY <1>0, <1>2, <1>3
       DEF LinkInv, HostOK, EntryOK, ThreadOK, GameOK, Counting, threadVars, gameVars
<1>5. ASSUME NEW g \in Games PROVE Served(g)'
    <2>1. /\ Served(g) /\ class'[g] = class[g] /\ pc'[g] = pc[g] /\ latest'[g] = latest[g]
          /\ disabled'[g] = disabled[g] /\ retained'[g] = retained[g]
          /\ toGame[g] \in Seq(Frame)
        BY <1>2 DEF LinkInv, WireOK, threadVars, gameVars
    <2>2. CASE class[g] = "active"
        <3>1. toGame'[g] = Append(toGame[g], f)
            BY <1>3, <2>2
        <3>2. LeadsTo(latest[g], toGame'[g], [life |-> life, rev |-> current + 1])
            BY <1>1, <2>1, <3>1, LeadsAppend DEF Shows
        <3>3. \A x : Holds(toGame[g], x) => Holds(toGame'[g], x)
            BY <1>1, <2>1, <3>1, HoldsAppend
        <3> QED
            BY <1>2, <2>1, <2>2, <3>2, <3>3 DEF Served, Linked, Informed, Told
    <2>3. CASE class[g] # "active"
        <3>1. toGame'[g] = toGame[g]
            BY <1>3, <2>3
        <3> QED
            BY <1>2, <2>1, <2>3, <3>1 DEF Served, Linked, Informed, Told
    <2> QED
        BY <2>2, <2>3
<1> QED
    BY <1>4, <1>5 DEF LinkInv

LEMMA BroadcastAvatarKeeps ==
    ASSUME LinkInv, NEW h \in Avatars, BroadcastAvatar(h)
    PROVE  LinkInv'
<1> USE TypeParts, TypePartsNext
<1> DEFINE f == AvatarReady(h)
<1>1. f \in Frame /\ f.type = "AvatarReady"
    BY FrameOf
<1>2. /\ SendAll(f) /\ UNCHANGED <<life, hostUp, current, denied, class, link, toHost, threadVars,
                                   gameVars>>
      /\ announced' = announced \cup {h} /\ ghosts' \in {ghosts, {}}
    BY DEF BroadcastAvatar
<1>3. /\ WireOK'
      /\ \A g \in Games : toGame'[g] = IF class[g] = "active" THEN Append(toGame[g], f)
                                                             ELSE toGame[g]
    BY <1>1, <1>2, SendAllTyped DEF LinkInv
<1>4. TypeOK' /\ Counting'
    <2>1. IsFiniteSet(announced')
        BY <1>2, FS_AddElement DEF LinkInv, Counting
    <2> QED
        BY <1>2, <1>3, <2>1
           DEF LinkInv, HostOK, EntryOK, ThreadOK, GameOK, Counting, threadVars,
                                gameVars
<1>5. ASSUME NEW g \in Games PROVE Served(g)'
    <2>1. /\ Served(g) /\ class'[g] = class[g] /\ pc'[g] = pc[g] /\ latest'[g] = latest[g]
          /\ disabled'[g] = disabled[g] /\ retained'[g] = retained[g]
          /\ toGame[g] \in Seq(Frame)
        BY <1>2 DEF LinkInv, WireOK, threadVars, gameVars
    <2>2. CASE class[g] = "active"
        <3>1. toGame'[g] = Append(toGame[g], f)
            BY <1>3, <2>2
        <3>2. LeadsTo(latest[g], toGame[g], [life |-> life, rev |-> current])
            BY <2>1, <2>2 DEF Served, Informed
        <3>3. LeadsTo(latest[g], toGame'[g], [life |-> life, rev |-> current])
            BY <1>1, <2>1, <3>1, <3>2, LeadsAppend DEF Shows
        <3>4. Holds(toGame'[g], f) /\ \A x : Holds(toGame[g], x) => Holds(toGame'[g], x)
            BY <1>1, <2>1, <3>1, HoldsAppend
        <3>5. \A a \in announced' : a \in retained'[g] \/ Holds(toGame'[g], AvatarReady(a))
            BY <1>2, <2>1, <2>2, <3>4 DEF Served, Informed
        <3> QED
            BY <1>2, <2>1, <2>2, <3>3, <3>5 DEF Served, Linked, Informed, Told
    <2>3. CASE class[g] # "active"
        <3>1. toGame'[g] = toGame[g]
            BY <1>3, <2>3
        <3> QED
            BY <1>2, <2>1, <2>3, <3>1 DEF Served, Linked, Informed, Told
    <2> QED
        BY <2>2, <2>3
<1> QED
    BY <1>4, <1>5 DEF LinkInv

(* handle_hello: a denied client is told, another one gets the seed. *)
LEMMA HandleHelloKeeps ==
    ASSUME LinkInv, NEW g \in Games, HandleHello(g)
    PROVE  LinkInv'
<1> USE TypeParts, TypePartsNext
<1>0. /\ class[g] = "new" /\ toGame[g] = <<>> /\ hostUp /\ pc[g] \in {"hello", "serve"}
      /\ toGame[g] \in Seq(Frame)
    BY DEF LinkInv, HandleHello, Served, Linked, WireOK
<1>1. UNCHANGED <<life, hostUp, current, announced, denied, ghosts, link, threadVars, gameVars>>
    BY DEF HandleHello, hostVars
<1>2. toHost' \in [Games -> Seq({"Hello"})]
    <2>1. Tail(toHost[g]) \in Seq({"Hello"})
        BY DEF LinkInv, HandleHello, WireOK
    <2> QED
        BY <2>1 DEF LinkInv, HandleHello, WireOK
<1>3. HostOK' /\ Counting' /\ ThreadOK' /\ GameOK'
    BY <1>1 DEF LinkInv, HostOK, Counting, ThreadOK, GameOK, threadVars, gameVars
<1>4. ASSUME \A k \in Games \ {g} : class'[k] = class[k] /\ toGame'[k] = toGame[k],
             NEW k \in Games \ {g}
      PROVE  Served(k)'
    BY <1>1, <1>4, ServedStutter DEF LinkInv, threadVars, gameVars
<1>5. CASE /\ class' = [class EXCEPT ![g] = "inert"]
           /\ toGame' = [toGame EXCEPT ![g] = Append(@, Disabled)]
    <2>1. /\ class'[g] = "inert" /\ toGame'[g] = Append(toGame[g], Disabled)
          /\ \A k \in Games \ {g} : class'[k] = class[k] /\ toGame'[k] = toGame[k]
        BY <1>5 DEF LinkInv, EntryOK, WireOK
    <2>2. Append(toGame[g], Disabled) \in Seq(Frame) /\ Holds(toGame'[g], Disabled)
        <3>1. Disabled \in Frame
            BY FrameOf
        <3>2. Append(toGame[g], Disabled) \in Seq(Frame)
            BY <1>0, <3>1, AppendOf
        <3>3. Holds(Append(toGame[g], Disabled), Disabled)
            BY <1>0, <3>1, HoldsAppend
        <3> QED
            BY <2>1, <3>2, <3>3
    <2>3. TypeOK'
        BY <1>1, <1>2, <1>3, <1>5, <2>2 DEF LinkInv, EntryOK, WireOK
    <2>4. ASSUME NEW n \in 1..Len(toGame'[g]) PROVE ~Shows(toGame'[g][n])
        <3>1. toGame'[g] = <<Disabled>> /\ Len(<<Disabled>>) = 1
            BY <1>0, <2>1
        <3>2. n = 1 /\ <<Disabled>>[1] = Disabled
            BY <3>1
        <3> QED
            BY <3>1, <3>2, FrameOf DEF Shows
    <2>5. Served(g)'
        BY <1>0, <1>1, <2>1, <2>2, <2>4 DEF Served, Linked, Informed, Told, threadVars
    <2> QED
        BY <1>3, <1>4, <2>1, <2>3, <2>5 DEF LinkInv
<1>6. CASE /\ class' = [class EXCEPT ![g] = "active"]
           /\ toGame' = [toGame EXCEPT ![g] = @ \o Seed]
    <2>1. /\ class'[g] = "active" /\ toGame'[g] = toGame[g] \o Seed
          /\ \A k \in Games \ {g} : class'[k] = class[k] /\ toGame'[k] = toGame[k]
        BY <1>6 DEF LinkInv, EntryOK, WireOK
    <2>2. /\ Seed \in Seq(Frame) /\ Len(Seed) # 0 /\ Seed[1] = SnapshotFrame(life, current)
          /\ \A n \in 2..Len(Seed) : \E h \in announced : Seed[n] = AvatarReady(h)
          /\ \A h \in announced : Holds(Seed, AvatarReady(h))
        BY <1>0, SeedOf DEF LinkInv
    <2>3. toGame[g] \o Seed \in Seq(Frame)
        BY <1>0, <2>2
    <2>4. TypeOK'
        BY <1>1, <1>2, <1>3, <1>6, <2>3 DEF LinkInv, EntryOK, WireOK
    <2>5. /\ Shows(Seed[1]) /\ Carried(Seed[1]) = [life |-> life, rev |-> current]
          /\ \A n \in 2..Len(Seed) : ~Shows(Seed[n])
        <3>1. life \in 1..MaxLives /\ current \in 0..MaxRev /\ announced \subseteq Avatars
            BY <1>0 DEF LinkInv, Counting, HostOK
        <3>2. \A h \in announced : ~Shows(AvatarReady(h))
            BY <3>1, FrameOf DEF Shows
        <3> QED
            BY <2>2, <3>1, <3>2, FrameOf DEF Shows
    <2>6. LeadsTo(latest[g], toGame'[g], [life |-> life, rev |-> current])
        <3>1. LeadsTo(latest[g], toGame[g] \o Seed, Carried(Seed[1]))
            BY <1>0, <2>2, <2>5, LeadsConcat
        <3> QED
            BY <2>1, <2>5, <3>1
    <2>7. \A h \in announced : Holds(toGame'[g], AvatarReady(h))
        BY <1>0, <2>1, <2>2, HoldsConcat
    <2>8. Served(g)'
        BY <1>0, <1>1, <2>1, <2>6, <2>7
           DEF Served, Linked, Informed, Told, threadVars, gameVars
    <2> QED
        BY <1>3, <1>4, <2>1, <2>4, <2>8 DEF LinkInv
<1> QED
    BY <1>5, <1>6 DEF HandleHello

(* serve handles one frame. *)
LEMMA ReceiveKeeps ==
    ASSUME LinkInv, NEW g \in Games, Receive(g)
    PROVE  LinkInv'
<1> USE TypeParts, TypePartsNext
<1> DEFINE f == toGame[g][1]
<1>0. /\ toGame[g] \in Seq(Frame) /\ toGame[g] # <<>> /\ Head(toGame[g]) = f /\ f \in Frame
      /\ Tail(toGame[g]) \in Seq(Frame) /\ pc[g] = "serve"
    BY TailOf DEF LinkInv, Receive, WireOK
<1>1. /\ UNCHANGED <<hostVars, serverVars, link, toHost, threadVars>>
      /\ toGame' = [toGame EXCEPT ![g] = Tail(@)]
    BY DEF Receive
<1>2. /\ toGame'[g] = Tail(toGame[g])
      /\ \A k \in Games \ {g} : toGame'[k] = toGame[k]
    BY <1>1 DEF LinkInv, WireOK
<1>3. \/ /\ f.type = "Snapshot" /\ UNCHANGED <<disabled, retained>>
         /\ latest' = [latest EXCEPT ![g] = Carried(f)]
      \/ /\ f.type = "AvatarReady" /\ UNCHANGED <<latest, disabled>>
         /\ retained' = [retained EXCEPT ![g] = @ \cup {f.hash}]
      \/ /\ f.type = "Disabled" /\ UNCHANGED <<latest, retained>>
         /\ disabled' = [disabled EXCEPT ![g] = TRUE]
    BY <1>0 DEF Receive, Carried
<1> HIDE DEF f
<1>4. GameOK'
    BY <1>0, <1>3, FrameParts, ZenonT(60) DEF LinkInv, GameOK
<1>5. TypeOK' /\ Counting'
    BY <1>0, <1>1, <1>4
       DEF LinkInv, HostOK, EntryOK, WireOK, ThreadOK, Counting, hostVars,
                            serverVars, threadVars
<1>6. /\ latest'[g] = IF f.type = "Snapshot" THEN Carried(f) ELSE latest[g]
      /\ retained'[g] = IF f.type = "AvatarReady" THEN retained[g] \cup {f.hash} ELSE retained[g]
      /\ disabled'[g] = (f.type = "Disabled" \/ disabled[g])
      /\ \A k \in Games \ {g} : /\ latest'[k] = latest[k] /\ retained'[k] = retained[k]
                                /\ disabled'[k] = disabled[k]
    <2>1. CASE f.type = "Snapshot" /\ latest' = [latest EXCEPT ![g] = Carried(f)]
               /\ UNCHANGED <<disabled, retained>>
        BY <2>1 DEF LinkInv, GameOK
    <2>2. CASE f.type = "AvatarReady" /\ retained' = [retained EXCEPT ![g] = @ \cup {f.hash}]
               /\ UNCHANGED <<latest, disabled>>
        BY <2>2 DEF LinkInv, GameOK
    <2>3. CASE f.type = "Disabled" /\ disabled' = [disabled EXCEPT ![g] = TRUE]
               /\ UNCHANGED <<latest, retained>>
        BY <2>3 DEF LinkInv, GameOK
    <2> QED
        BY <1>3, <2>1, <2>2, <2>3
<1>7. ASSUME NEW k \in Games \ {g} PROVE Served(k)'
    BY <1>1, <1>2, <1>6, ServedStutter DEF LinkInv, hostVars, serverVars, threadVars
<1>8. Served(g)'
    <2>1. Served(g) /\ class'[g] = class[g] /\ pc'[g] = pc[g]
          /\ UNCHANGED <<life, hostUp, current, announced>>
        BY <1>1 DEF LinkInv, hostVars, serverVars, threadVars
    <2>2. Linked(g)'
        BY <1>0, <2>1 DEF Served, Linked
    <2>3. ASSUME class[g] = "active" PROVE Informed(g)'
        <3>1. LeadsTo(latest[g], toGame[g], [life |-> life, rev |-> current])
            BY <2>1, <2>3 DEF Served, Informed
        <3>2. latest'[g] = IF Shows(toGame[g][1]) THEN Carried(toGame[g][1]) ELSE latest[g]
            BY <1>6 DEF Shows, f
        <3>3. LeadsTo(latest'[g], Tail(toGame[g]), [life |-> life, rev |-> current])
            BY <1>0, <3>1, <3>2, LeadsTail
        <3>4. ASSUME NEW h \in announced
              PROVE  h \in retained'[g] \/ Holds(toGame'[g], AvatarReady(h))
            <4>1. h \in retained[g] \/ Holds(toGame[g], AvatarReady(h))
                BY <2>1, <2>3 DEF Served, Informed
            <4>2. CASE h \in retained[g]
                BY <1>6, <4>2
            <4>3. CASE Holds(toGame[g], AvatarReady(h))
                <5>1. AvatarReady(h) = f \/ Holds(Tail(toGame[g]), AvatarReady(h))
                    BY <1>0, <4>3, HoldsTail DEF f
                <5>2. AvatarReady(h).type = "AvatarReady" /\ AvatarReady(h).hash = h
                    BY DEF AvatarReady
                <5> QED
                    BY <1>2, <1>6, <5>1, <5>2
            <4> QED
                BY <4>1, <4>2, <4>3
        <3> QED
            BY <1>2, <2>1, <3>3, <3>4 DEF Informed
    <2>4. ASSUME class[g] = "inert" PROVE Told(g)'
        <3>1. /\ \A n \in 1..Len(toGame[g]) : ~Shows(toGame[g][n])
              /\ disabled[g] \/ Holds(toGame[g], Disabled)
            BY <2>1, <2>4 DEF Served, Told
        <3>2. \A n \in 1..Len(Tail(toGame[g])) : ~Shows(Tail(toGame[g])[n])
            BY <1>0, <3>1, EntriesOf
        <3>3. disabled'[g] \/ Holds(Tail(toGame[g]), Disabled)
            <4>1. CASE disabled[g]
                BY <1>6, <4>1
            <4>2. CASE Holds(toGame[g], Disabled)
                <5>1. Disabled = f \/ Holds(Tail(toGame[g]), Disabled)
                    BY <1>0, <4>2, HoldsTail DEF f
                <5> QED
                    BY <1>6, <5>1, FrameOf
            <4> QED
                BY <3>1, <4>1, <4>2
        <3> QED
            BY <1>2, <2>1, <3>2, <3>3 DEF Told
    <2> QED
        BY <2>1, <2>2, <2>3, <2>4 DEF Served, Informed, Told
<1> QED
    BY <1>5, <1>7, <1>8 DEF LinkInv

LEMMA LinkNext == LinkInv /\ [Next]_vars => LinkInv'
<1> SUFFICES ASSUME LinkInv, [Next]_vars PROVE LinkInv'
    OBVIOUS
<1> USE TypeParts, TypePartsNext
<1>1. ASSUME NEW g \in Games, UNCHANGED <<life, hostUp, current, announced, denied, gameVars>>,
             CloseLink(g), UNCHANGED <<backoff, stop>>,
             NEW p \in {"pause", "joined", "off"}, pc' = [pc EXCEPT ![g] = p]
      PROVE  LinkInv'
    <2>1. EntryOK' /\ WireOK'
        BY <1>1, CloseLinkTyped DEF LinkInv
    <2>2. HostOK' /\ ThreadOK' /\ GameOK' /\ Counting'
        BY <1>1 DEF LinkInv, HostOK, ThreadOK, GameOK, Counting, gameVars
    <2>3. \A k \in Games \ {g} : pc'[k] = pc[k]
        BY <1>1 DEF LinkInv, ThreadOK
    <2>4. \A k \in Games : Served(k)'
        BY <1>1, <2>3, CloseLinkServed DEF LinkInv
    <2> QED
        BY <2>1, <2>2, <2>4 DEF LinkInv
<1>2. ASSUME UNCHANGED <<life, hostUp, current, announced, class, pc, toGame, gameVars>>,
             HostOK', EntryOK', WireOK', ThreadOK'
      PROVE  LinkInv'
    <2>1. \A k \in Games : Served(k)'
        BY <1>2, ServedStutter DEF LinkInv, gameVars
    <2> QED
        BY <1>2, <2>1 DEF LinkInv, Counting, GameOK, gameVars
<1>3. ASSUME NEW g \in Games, DenylistChanges(g) PROVE LinkInv'
    <2>1. HostOK'
        BY <1>3 DEF DenylistChanges, LinkInv, HostOK
    <2> QED
        BY <1>2, <1>3, <2>1
           DEF DenylistChanges, LinkInv, EntryOK, WireOK, ThreadOK, serverVars,
                                wireVars, threadVars
<1>4. ASSUME NEW g \in Games, OnDisconnected(g) PROVE LinkInv'
    BY <1>2, <1>4
       DEF OnDisconnected, LinkInv, HostOK, EntryOK, WireOK, ThreadOK, hostVars,
                      wireVars, threadVars
<1>5. ASSUME NEW g \in Games, OnNewConnection(g) PROVE LinkInv'
    <2>1. /\ class[g] = "pending" /\ class'[g] = "new" /\ \A k \in Games \ {g} : class'[k] = class[k]
          /\ EntryOK'
        BY <1>5 DEF OnNewConnection, LinkInv, EntryOK
    <2>2. UNCHANGED <<hostVars, wireVars, threadVars, gameVars>>
        BY <1>5 DEF OnNewConnection
    <2>3. TypeOK' /\ Counting'
        BY <2>1, <2>2
           DEF LinkInv, HostOK, WireOK, ThreadOK, GameOK, Counting, hostVars, wireVars,
                          threadVars, gameVars
    <2>4. Served(g)'
        BY <2>1, <2>2
           DEF LinkInv, Served, Linked, Informed, Told, hostVars, wireVars, threadVars
    <2>5. ASSUME NEW k \in Games \ {g} PROVE Served(k)'
        BY <2>1, <2>2, ServedStutter DEF LinkInv, hostVars, wireVars, threadVars, gameVars
    <2> QED
        BY <2>3, <2>4, <2>5 DEF LinkInv
<1>6. ASSUME NEW g \in Games, GameStarts(g) PROVE LinkInv'
    <2>1. /\ pc[g] = "off" /\ \A k \in Games \ {g} : pc'[k] = pc[k] /\ latest'[k] = latest[k]
                                                   /\ disabled'[k] = disabled[k]
                                                   /\ retained'[k] = retained[k]
          /\ pc'[g] = "connect" /\ UNCHANGED <<hostVars, serverVars, wireVars>>
        BY <1>6 DEF GameStarts, LinkInv, ThreadOK, GameOK
    <2>2. ThreadOK' /\ GameOK'
        <3>1. BackoffStart \in BackoffStart..BackoffMax
            BY LinkAssumption
        <3> QED
            BY <1>6, <3>1 DEF GameStarts, LinkInv, ThreadOK, GameOK
    <2>3. TypeOK' /\ Counting'
        BY <2>1, <2>2
           DEF LinkInv, HostOK, WireOK, EntryOK, Counting, hostVars, serverVars, wireVars
    <2>4. Served(g)'
        <3>1. class[g] = "none" /\ toGame[g] = <<>>
            BY <2>1 DEF LinkInv, Served, Linked
        <3> QED
            BY <2>1, <3>1, ServedClosed DEF serverVars, wireVars
    <2>5. ASSUME NEW k \in Games \ {g} PROVE Served(k)'
        BY <2>1, ServedStutter DEF LinkInv, hostVars, serverVars, wireVars
    <2> QED
        BY <2>3, <2>4, <2>5 DEF LinkInv
<1>7. ASSUME NEW g \in Games, Connect(g) PROVE LinkInv'
    <2>1. /\ pc[g] = "connect" /\ hostUp /\ UNCHANGED <<hostVars, ghosts, toHost, toGame, stop, gameVars>>
          /\ class'[g] = "pending" /\ pc'[g] = "hello"
          /\ \A k \in Games \ {g} : class'[k] = class[k] /\ pc'[k] = pc[k]
        BY <1>7 DEF Connect, LinkInv, EntryOK, ThreadOK
    <2>2. EntryOK' /\ WireOK' /\ ThreadOK'
        <3>1. BackoffStart \in BackoffStart..BackoffMax
            BY LinkAssumption
        <3> QED
            BY <1>7, <3>1 DEF Connect, LinkInv, EntryOK, WireOK, ThreadOK
    <2>3. TypeOK' /\ Counting'
        BY <2>1, <2>2 DEF LinkInv, HostOK, GameOK, Counting, hostVars, gameVars
    <2>4. Served(g)'
        <3>1. toGame[g] = <<>>
            BY <2>1 DEF LinkInv, Served, Linked
        <3> QED
            BY <2>1, <3>1 DEF Served, Linked, Informed, Told, hostVars
    <2>5. ASSUME NEW k \in Games \ {g} PROVE Served(k)'
        BY <2>1, ServedStutter DEF LinkInv, hostVars, gameVars
    <2> QED
        BY <2>3, <2>4, <2>5 DEF LinkInv
<1>8. ASSUME NEW g \in Games, UNCHANGED <<hostVars, serverVars, toGame, link, gameVars, stop>>,
             \/ pc[g] \in {"connect", "backoff", "pause"} /\ pc' = [pc EXCEPT ![g] = "connect"]
             \/ pc[g] = "connect" /\ pc' = [pc EXCEPT ![g] = "backoff"]
             \/ pc[g] = "hello" /\ pc' = [pc EXCEPT ![g] = "serve"],
             backoff' = backoff \/ backoff' = [backoff EXCEPT ![g] = NextBackoff(@)],
             toHost' = toHost \/ toHost' = [toHost EXCEPT ![g] = Append(@, "Hello")]
      PROVE  LinkInv'
    <2>1. backoff' \in [Games -> BackoffStart..BackoffMax]
        <3>1. NextBackoff(backoff[g]) \in BackoffStart..BackoffMax
            BY BackoffBounded DEF LinkInv, ThreadOK
        <3> QED
            BY <1>8, <3>1 DEF LinkInv, ThreadOK
    <2>2. toHost' \in [Games -> Seq({"Hello"})]
        <3>1. Append(toHost[g], "Hello") \in Seq({"Hello"})
            BY DEF LinkInv, WireOK
        <3> QED
            BY <1>8, <3>1 DEF LinkInv, WireOK
    <2>3. ThreadOK' /\ WireOK' /\ \A k \in Games \ {g} : pc'[k] = pc[k]
        BY <1>8, <2>1, <2>2 DEF LinkInv, ThreadOK, WireOK
    <2>4. TypeOK' /\ Counting'
        BY <1>8, <2>3
           DEF LinkInv, HostOK, EntryOK, GameOK, Counting, hostVars, serverVars, gameVars
    <2>5. pc'[g] \in {"hello", "serve"} \/ pc[g] \notin {"hello", "serve"}
        BY <1>8 DEF LinkInv, ThreadOK
    <2>6. Served(g)'
        BY <1>8, <2>5
           DEF LinkInv, Served, Linked, Informed, Told, hostVars, serverVars, gameVars
    <2>7. ASSUME NEW k \in Games \ {g} PROVE Served(k)'
        BY <1>8, <2>3, ServedStutter DEF LinkInv, hostVars, serverVars, gameVars
    <2> QED
        BY <2>4, <2>6, <2>7 DEF LinkInv
<1>9. ASSUME NEW g \in Games, ThreadStep(g) PROVE LinkInv'
    <2>1. CASE ConnectFails(g) \/ BackoffElapses(g) \/ PauseElapses(g)
        <3>1. /\ UNCHANGED <<hostVars, serverVars, toGame, link, gameVars, stop>>
              /\ toHost' = toHost
            BY <2>1 DEF ConnectFails, BackoffElapses, PauseElapses, wireVars
        <3>2. \/ pc[g] \in {"connect", "backoff", "pause"} /\ pc' = [pc EXCEPT ![g] = "connect"]
              \/ pc[g] = "connect" /\ pc' = [pc EXCEPT ![g] = "backoff"]
              \/ pc[g] = "hello" /\ pc' = [pc EXCEPT ![g] = "serve"]
            BY <2>1 DEF ConnectFails, BackoffElapses, PauseElapses
        <3>3. backoff' = backoff \/ backoff' = [backoff EXCEPT ![g] = NextBackoff(@)]
            BY <2>1 DEF ConnectFails, BackoffElapses, PauseElapses
        <3>4. toHost' = toHost \/ toHost' = [toHost EXCEPT ![g] = Append(@, "Hello")]
            BY <3>1
        <3> QED
            BY ONLY <1>8, <3>1, <3>2, <3>3, <3>4
    <2>2. CASE SendHello(g)
        <3>1. CASE /\ toHost' = [toHost EXCEPT ![g] = Append(@, "Hello")]
                   /\ pc' = [pc EXCEPT ![g] = "serve"]
                   /\ UNCHANGED <<link, toGame, serverVars>>
            BY <1>8, <2>2, <3>1 DEF SendHello
        <3>2. CASE CloseLink(g) /\ pc' = [pc EXCEPT ![g] = "pause"]
            BY <1>1, <2>2, <3>2 DEF SendHello, hostVars
        <3> QED
            BY <2>2, <3>1, <3>2 DEF SendHello
    <2>3. CASE ReadEof(g)
        BY <1>1, <2>3 DEF ReadEof, hostVars
    <2>4. CASE ThreadExits(g)
        BY <1>1, <2>4 DEF ThreadExits, hostVars
    <2> QED
        BY <1>7, <1>9, <2>1, <2>2, <2>3, <2>4, ReceiveKeeps DEF ThreadStep
<1>10. ASSUME NEW g \in Games, ProcessEnds(g) PROVE LinkInv'
    BY <1>1, <1>10 DEF ProcessEnds, hostVars
<1>11. ASSUME NEW g \in Games, Destroy(g) PROVE LinkInv'
    <2>1. ThreadOK' /\ UNCHANGED <<hostVars, serverVars, wireVars, pc, gameVars>>
        BY <1>11 DEF Destroy, LinkInv, ThreadOK
    <2> QED
        BY <1>2, <2>1 DEF LinkInv, HostOK, EntryOK, WireOK, hostVars, serverVars, wireVars
<1>12. CASE UNCHANGED vars
    BY <1>2, <1>12 DEF vars, LinkInv, HostOK, EntryOK, WireOK, ThreadOK, gameVars
<1> QED
    BY <1>3, <1>4, <1>5, <1>6, <1>9, <1>10, <1>11, <1>12, HostStartsKeeps, HostDiesKeeps,
       BroadcastKeeps, BroadcastAvatarKeeps, HandleHelloKeeps
       DEF Next, ServerStep

-----------------------------------------------------------------------------
(* The link keeps its promises *)

LEMMA LinkInit == Init => LinkInv
<1> SUFFICES ASSUME Init PROVE LinkInv
    OBVIOUS
<1>1. HostOK /\ EntryOK /\ GameOK
    <2>1. HostOK
        <3>1. 0 \in 0..MaxLives /\ 0 \in 0..MaxRev
            BY LinkAssumption
        <3>2. life = 0 /\ hostUp = FALSE /\ current = 0 /\ announced = {} /\ denied \in SUBSET Games
            BY DEF Init
        <3> QED
            BY <3>1, <3>2 DEF HostOK
    <2>2. EntryOK
        BY DEF Init, EntryOK
    <2>3. GameOK
        BY DEF Init, GameOK
    <2> QED
        BY <2>1, <2>2, <2>3
<1>2. WireOK
    BY DEF Init, WireOK
<1>3. ThreadOK
    BY LinkAssumption DEF Init, ThreadOK
<1>4. Counting
    <2>1. hostUp = FALSE /\ announced = {}
        BY DEF Init
    <2> QED
        BY <2>1, FS_EmptySet DEF Counting
<1>5. ASSUME NEW g \in Games PROVE Served(g)
    <2>1. class[g] = "none" /\ toGame[g] = <<>>
        BY DEF Init
    <2> QED
        BY <2>1 DEF Served, Linked, Informed, Told
<1> QED
    BY <1>1, <1>2, <1>3, <1>4, <1>5, TypeParts DEF LinkInv

LEMMA LinkInvariant == Spec => []LinkInv
    BY LinkInit, LinkNext, PTL DEF Spec

(* The last of the snapshots in flight is the one the game ends up with. *)
LEMMA WhereItLeads ==
    ASSUME NEW g \in Games, toGame[g] \in Seq(Frame), NEW c, LeadsTo(latest[g], toGame[g], c)
    PROVE  WillShow(g) = c
<1> DEFINE q == toGame[g]
           N == Len(q)
           S == SnapshotsTo(g)
<1>1. N \in Nat /\ DOMAIN q = 1..N
    OBVIOUS
<1>2. S = {n \in 1..N : Shows(q[n])}
    BY <1>1 DEF SnapshotsTo, Shows
<1>3. WillShow(g) = IF S = {} THEN latest[g] ELSE Carried(q[Max(S)])
    BY DEF WillShow, Carried
<1>4. (c = latest[g] /\ \A n \in 1..N : ~Shows(q[n]))
      \/ \E k \in 1..N : /\ Shows(q[k]) /\ c = Carried(q[k])
                         /\ \A n \in (k + 1)..N : ~Shows(q[n])
    BY DEF LeadsTo
<1> HIDE DEF q, N, S
<1>5. CASE c = latest[g] /\ \A n \in 1..N : ~Shows(q[n])
    BY <1>2, <1>3, <1>5
<1>6. ASSUME NEW k \in 1..N, Shows(q[k]), c = Carried(q[k]), \A n \in (k + 1)..N : ~Shows(q[n])
      PROVE  WillShow(g) = c
    <2>1. k \in S /\ \A y \in S : k >= y /\ y \in 1..N
        BY <1>1, <1>2, <1>6
    <2>2. \A x \in S : (\A y \in S : x >= y) => x = k
        BY <1>1, <2>1
    <2>3. Max(S) = k
        BY <2>1, <2>2 DEF Max
    <2> QED
        BY <1>3, <1>6, <2>1, <2>3
<1> QED
    BY <1>4, <1>5, <1>6

LEMMA CurrentAndTold == LinkInv => ActiveIsCurrent /\ InertIsDisabled
<1> SUFFICES ASSUME LinkInv PROVE ActiveIsCurrent /\ InertIsDisabled
    OBVIOUS
<1> USE TypeParts
<1>1. ASSUME NEW g \in Games
      PROVE  toGame[g] \in Seq(Frame) /\ DOMAIN toGame[g] = 1..Len(toGame[g])
    BY DEF LinkInv, WireOK
<1>2. ASSUME NEW g \in Games, NEW f, Holds(toGame[g], f) PROVE f \in ToSet(toGame[g])
    BY <1>1, <1>2 DEF Holds, ToSet
<1>3. ASSUME NEW g \in Games, class[g] = "active"
      PROVE  /\ WillShow(g) = [life |-> life, rev |-> current]
             /\ announced \subseteq retained[g] \cup
                    {f.hash : f \in {x \in ToSet(toGame[g]) : x.type = "AvatarReady"}}
    <2>1. /\ LeadsTo(latest[g], toGame[g], [life |-> life, rev |-> current])
          /\ \A h \in announced : h \in retained[g] \/ Holds(toGame[g], AvatarReady(h))
          /\ announced \subseteq Avatars
        BY <1>3 DEF LinkInv, Served, Informed, HostOK
    <2>2. WillShow(g) = [life |-> life, rev |-> current]
        BY <1>1, <2>1, WhereItLeads
    <2>3. ASSUME NEW h \in announced, h \notin retained[g]
          PROVE  h \in {f.hash : f \in {x \in ToSet(toGame[g]) : x.type = "AvatarReady"}}
        <3>1. AvatarReady(h) \in ToSet(toGame[g])
            BY <1>2, <2>1, <2>3
        <3>2. AvatarReady(h).type = "AvatarReady" /\ AvatarReady(h).hash = h
            BY <2>1, FrameOf
        <3> QED
            BY <3>1, <3>2
    <2> QED
        BY <2>2, <2>3
<1>4. ASSUME NEW g \in Games, class[g] = "inert"
      PROVE  SnapshotsTo(g) = {} /\ (disabled[g] \/ Disabled \in ToSet(toGame[g]))
    <2>1. /\ \A n \in 1..Len(toGame[g]) : ~Shows(toGame[g][n])
          /\ disabled[g] \/ Holds(toGame[g], Disabled)
        BY <1>4 DEF LinkInv, Served, Told
    <2>2. SnapshotsTo(g) = {}
        BY <1>1, <2>1 DEF SnapshotsTo, Shows
    <2> QED
        BY <1>2, <2>1, <2>2
<1> QED
    BY <1>3, <1>4 DEF ActiveIsCurrent, InertIsDisabled

-----------------------------------------------------------------------------
(* The path implements the link *)

LEMMA RequestingInit == PathInit => Requesting
    BY PathAssumption DEF PathInit, Requesting

LEMMA RequestingNext == Requesting /\ [PathNext]_allVars => Requesting'
<1> SUFFICES ASSUME Requesting, [PathNext]_allVars PROVE Requesting'
    OBVIOUS
<1>1. ASSUME UNCHANGED <<step, key>> PROVE Requesting'
    BY <1>1 DEF Requesting
<1>2. ASSUME Returned PROVE Requesting'
    BY <1>2 DEF Requesting, Returned
<1>3. CASE CacheStarts \/ HostBroadcasts
    BY <1>1, <1>3 DEF CacheStarts, HostBroadcasts, pathVars, cacheVars
<1>4. CASE CacheDies
    BY <1>2, <1>4 DEF CacheDies
<1>5. CASE FetchFails \/ WriteDone \/ WriteFails
    BY <1>2, <1>5 DEF FetchFails, WriteDone, WriteFails
<1>6. CASE WriteOpens
    BY <1>6 DEF WriteOpens, Requesting
<1>7. ASSUME NEW h \in Avatars, Request(h) PROVE Requesting'
    BY <1>1, <1>7, PathAssumption DEF Request, Requesting
<1>8. ASSUME NEW g \in Games, HostHandles(g) \/ GameHandles(g) \/ GameEnds(g) \/ Shutdown(g)
      PROVE  Requesting'
    BY <1>1, <1>8 DEF HostHandles, GameHandles, GameEnds, Shutdown, pathVars, cacheVars
<1>9. ASSUME NEW g \in Games, NEW api \in {"vulkan", "gl"}, RendererInit(g, api)
      PROVE  Requesting'
    BY <1>1, <1>9 DEF RendererInit, cacheVars
<1>10. ASSUME NEW g \in Games, NEW h \in Avatars,
              GetOrLoad(g, h) \/ GenTexturesFails(g, h)
                  \/ \E n \in DOMAIN UploadCalls : UploadFails(g, h, n)
       PROVE  Requesting'
    BY <1>1, <1>10 DEF GetOrLoad, GenTexturesFails, UploadFails, cacheVars
<1>11. CASE UNCHANGED allVars
    BY <1>1, <1>11 DEF allVars, pathVars, cacheVars
<1> QED
    BY <1>3, <1>4, <1>5, <1>6, <1>7, <1>8, <1>9, <1>10, <1>11 DEF PathNext, CacheStep

LEMMA PathStep == Requesting /\ [PathNext]_allVars => [Next]_vars
<1> SUFFICES ASSUME Requesting, [PathNext]_allVars PROVE Next \/ UNCHANGED vars
    OBVIOUS
<1>1. CASE CacheStarts \/ CacheDies \/ HostBroadcasts
    BY <1>1 DEF CacheStarts, CacheDies, HostBroadcasts, Next
<1>2. CASE CacheStep
    <2>1. CASE FetchFails \/ WriteOpens \/ WriteFails
        BY <2>1 DEF FetchFails, WriteOpens, WriteFails
    <2>2. CASE WriteDone
        <3>1. key \in Avatars /\ BroadcastAvatar(key)
            BY <2>2 DEF WriteDone, Ready, Requesting
        <3> QED
            BY <3>1 DEF Next
    <2> QED
        BY <1>2, <2>1, <2>2 DEF CacheStep
<1>3. ASSUME NEW h \in Avatars, Request(h) PROVE Next \/ UNCHANGED vars
    BY <1>3 DEF Request, Ready, Next
<1>4. ASSUME NEW g \in Games, HostHandles(g) \/ GameHandles(g) \/ GameEnds(g) PROVE Next
    BY <1>4 DEF HostHandles, GameHandles, GameEnds, Next
<1>5. ASSUME NEW g \in Games,
             \/ Shutdown(g) \/ \E api \in {"vulkan", "gl"} : RendererInit(g, api)
             \/ \E h \in Avatars : \/ GetOrLoad(g, h) \/ GenTexturesFails(g, h)
                                   \/ \E n \in DOMAIN UploadCalls : UploadFails(g, h, n)
      PROVE  UNCHANGED vars
    BY <1>5 DEF Shutdown, RendererInit, GetOrLoad, GenTexturesFails, UploadFails
<1>6. CASE UNCHANGED allVars
    BY <1>6 DEF allVars
<1> QED
    BY <1>1, <1>2, <1>3, <1>4, <1>5, <1>6 DEF PathNext

(* The avatar cache, its files and the textures leave the link's protocol   *)
(* alone: AvatarCache::ready is the only way a picture is announced, and    *)
(* every behaviour of the whole is one of the server and its clients.       *)
THEOREM PathImplementsLink == PathSpec => Spec
<1>1. PathInit => Init
    BY DEF PathInit
<1> QED
    BY <1>1, RequestingInit, RequestingNext, PathStep, PTL DEF PathSpec, Spec

(* A game that the server has classified as active is never left behind by  *)
(* set_snapshot, broadcast_avatar and seed_client, whenever it joined and   *)
(* however often the host or the game was restarted before.                 *)
THEOREM NeverLeftBehind == PathSpec => []ActiveIsCurrent
    BY PathImplementsLink, LinkInvariant, CurrentAndTold, PTL

(* A game that handle_hello found on the denylist gets no snapshot of that  *)
(* connection, and has been told to switch itself off or will read that it  *)
(* must.                                                                    *)
THEOREM DeniedAreTold == PathSpec => []InertIsDisabled
    BY PathImplementsLink, LinkInvariant, CurrentAndTold, PTL

-----------------------------------------------------------------------------
(* How announcements spread *)

LEMMA AnnouncesStep ==
    ASSUME NEW q \in Seq(Frame), NEW H, Announces(q, H)
    PROVE  /\ q # <<>> => Announces(Tail(q), H)
           /\ \A f \in Frame : (f.type = "AvatarReady" => f.hash \in H) => Announces(Append(q, f), H)
           /\ \A r \in Seq(Frame) : Announces(r, H) => Announces(q \o r, H)
<1>1. ASSUME q # <<>> PROVE Announces(Tail(q), H)
    BY <1>1, EntriesOf DEF Announces
<1>2. ASSUME NEW f \in Frame, f.type = "AvatarReady" => f.hash \in H
      PROVE  Announces(Append(q, f), H)
    BY <1>2, EntriesOf DEF Announces
<1>3. ASSUME NEW r \in Seq(Frame), Announces(r, H) PROVE Announces(q \o r, H)
    BY <1>3, EntriesOf DEF Announces
<1> QED
    BY <1>1, <1>2, <1>3

LEMMA AnnouncesNone ==
    ASSUME NEW H
    PROVE  Announces(<<>>, H)
    BY DEF Announces

(* What ToldOf becomes, for a set that does not change. *)
ToldOfNext(H) ==
    /\ announced' \subseteq H
    /\ \A g \in Games : retained'[g] \subseteq H /\ Announces(toGame'[g], H)

LEMMA SendAllSpreads ==
    ASSUME LinkInv, NEW H, ToldOf(H), NEW f \in Frame, f.type = "AvatarReady" => f.hash \in H,
           SendAll(f), announced' \subseteq H, UNCHANGED <<link, toHost, gameVars>>
    PROVE  ToldOfNext(H)
<1>1. \A g \in Games : /\ toGame[g] \in Seq(Frame) /\ Announces(toGame[g], H)
                       /\ retained[g] \subseteq H
    BY TypeParts DEF LinkInv, WireOK, ToldOf
<1>2. \A g \in Games : toGame'[g] = IF class[g] = "active" THEN Append(toGame[g], f) ELSE toGame[g]
    BY TypeParts, SendAllTyped DEF LinkInv
<1>3. ASSUME NEW g \in Games PROVE Announces(toGame'[g], H)
    <2>1. Announces(Append(toGame[g], f), H)
        BY <1>1, AnnouncesStep
    <2> QED
        BY <1>1, <1>2, <2>1
<1> QED
    BY <1>1, <1>3 DEF ToldOfNext, gameVars

(* ready announces a picture of H. *)
LEMMA AvatarSpreads ==
    ASSUME LinkInv, NEW H, ToldOf(H), NEW h \in Avatars, h \in H, BroadcastAvatar(h)
    PROVE  ToldOfNext(H)
<1>1. AvatarReady(h) \in Frame /\ AvatarReady(h).hash = h
    BY FrameOf
<1>2. announced' \subseteq H
    BY DEF BroadcastAvatar, ToldOf
<1>3. SendAll(AvatarReady(h)) /\ UNCHANGED <<link, toHost, gameVars>>
    BY DEF BroadcastAvatar
<1> QED
    BY <1>1, <1>2, <1>3, SendAllSpreads

(* The steps of the link that announce nothing new. *)
QuietNext ==
    \/ HostStarts \/ HostDies \/ Broadcast
    \/ \E g \in Games :
          \/ DenylistChanges(g) \/ ServerStep(g) \/ ThreadStep(g)
          \/ GameStarts(g) \/ Destroy(g) \/ ProcessEnds(g)

LEMMA QuietSpreads ==
    ASSUME LinkInv, NEW H, ToldOf(H), QuietNext
    PROVE  ToldOfNext(H)
<1>0. /\ \A g \in Games : /\ toGame[g] \in Seq(Frame) /\ Announces(toGame[g], H)
                          /\ retained[g] \subseteq H
      /\ announced \subseteq H /\ announced \subseteq Avatars
      /\ toGame \in [Games -> Seq(Frame)] /\ retained \in [Games -> SUBSET Avatars]
    BY TypeParts DEF LinkInv, HostOK, WireOK, GameOK, ToldOf
<1>1. ASSUME announced' \subseteq announced, UNCHANGED <<toGame, retained>> PROVE ToldOfNext(H)
    BY <1>0, <1>1 DEF ToldOfNext
<1>2. ASSUME NEW g \in Games, NEW q, Announces(q, H), toGame' = [toGame EXCEPT ![g] = q],
             UNCHANGED <<announced, retained>>
      PROVE  ToldOfNext(H)
    BY <1>0, <1>2 DEF ToldOfNext
<1>3. ASSUME NEW g \in Games, CloseLink(g), UNCHANGED <<hostVars, gameVars>> PROVE ToldOfNext(H)
    <2>1. toGame' = [toGame EXCEPT ![g] = <<>>] /\ UNCHANGED <<announced, retained>>
        BY <1>3 DEF CloseLink, hostVars, gameVars
    <2> QED
        BY <1>2, <2>1, AnnouncesNone
<1>4. CASE HostStarts \/ HostDies
    BY <1>1, <1>4 DEF HostStarts, HostDies, wireVars, gameVars
<1>5. CASE Broadcast
    <2>1. SnapshotFrame(life, current + 1) \in Frame
          /\ SnapshotFrame(life, current + 1).type = "Snapshot"
        <3>1. life \in 1..MaxLives /\ current + 1 \in 0..MaxRev
            BY <1>5, TypeParts, LinkAssumption DEF Broadcast, LinkInv, Counting, HostOK
        <3> QED
            BY <3>1, FrameOf
    <2>2. /\ SendAll(SnapshotFrame(life, current + 1)) /\ announced' \subseteq H
          /\ UNCHANGED <<link, toHost, gameVars>>
        BY <1>0, <1>5 DEF Broadcast
    <2> QED
        BY <2>1, <2>2, SendAllSpreads
<1>6. ASSUME NEW g \in Games, DenylistChanges(g) \/ OnNewConnection(g) \/ OnDisconnected(g) \/ Destroy(g)
      PROVE  ToldOfNext(H)
    BY <1>1, <1>6
       DEF DenylistChanges, OnNewConnection, OnDisconnected, Destroy, hostVars, wireVars,
                      gameVars
<1>7. ASSUME NEW g \in Games, HandleHello(g) PROVE ToldOfNext(H)
    <2>1. UNCHANGED <<announced, retained>>
        BY <1>7 DEF HandleHello, hostVars, gameVars
    <2>2. CASE toGame' = [toGame EXCEPT ![g] = Append(@, Disabled)]
        <3>1. Announces(Append(toGame[g], Disabled), H)
            BY <1>0, AnnouncesStep, FrameOf
        <3> QED
            BY <1>2, <2>1, <2>2, <3>1
    <2>3. CASE toGame' = [toGame EXCEPT ![g] = @ \o Seed]
        <3>1. hostUp
            BY <1>7 DEF LinkInv, HandleHello, Served, Linked
        <3>2. /\ Seed \in Seq(Frame) /\ Seed[1] = SnapshotFrame(life, current)
              /\ \A n \in 2..Len(Seed) : \E h \in announced : Seed[n] = AvatarReady(h)
            BY <3>1, SeedOf DEF LinkInv
        <3>3. Seed[1].type = "Snapshot"
            BY <3>1, <3>2, FrameOf, TypeParts DEF LinkInv, Counting, HostOK
        <3>4. \A n \in 2..Len(Seed) : Seed[n].hash \in H
            BY <1>0, <3>2, FrameOf
        <3>5. \A n \in 1..Len(Seed) : n = 1 \/ n \in 2..Len(Seed)
            BY <3>2
        <3>6. Announces(Seed, H)
            BY <3>3, <3>4, <3>5 DEF Announces
        <3>7. Announces(toGame[g] \o Seed, H)
            BY <1>0, <3>2, <3>6, AnnouncesStep
        <3> QED
            BY <1>2, <2>1, <2>3, <3>7
    <2> QED
        BY <1>7, <2>2, <2>3 DEF HandleHello
<1>8. ASSUME NEW g \in Games, Connect(g) \/ ConnectFails(g) \/ BackoffElapses(g) \/ PauseElapses(g)
      PROVE  ToldOfNext(H)
    BY <1>1, <1>8
       DEF Connect, ConnectFails, BackoffElapses, PauseElapses, hostVars, wireVars,
           gameVars
<1>9. ASSUME NEW g \in Games, SendHello(g) PROVE ToldOfNext(H)
    <2>1. CASE link[g] = "up"
        BY <1>1, <1>9, <2>1 DEF SendHello, hostVars, gameVars
    <2>2. CASE CloseLink(g)
        BY <1>3, <1>9, <2>2 DEF SendHello
    <2> QED
        BY <1>9, <2>1, <2>2 DEF SendHello
<1>10. ASSUME NEW g \in Games, ReadEof(g) \/ ThreadExits(g) \/ ProcessEnds(g) PROVE ToldOfNext(H)
    BY <1>3, <1>10 DEF ReadEof, ThreadExits, ProcessEnds
<1>11. ASSUME NEW g \in Games, Receive(g) PROVE ToldOfNext(H)
    <2>1. /\ toGame[g] # <<>> /\ toGame'[g] = Tail(toGame[g]) /\ announced' = announced
          /\ \A k \in Games \ {g} : toGame'[k] = toGame[k]
        BY <1>0, <1>11 DEF Receive, hostVars
    <2>2. Head(toGame[g]) = toGame[g][1] /\ 1 \in 1..Len(toGame[g])
        BY <1>0, <2>1, TailOf
    <2>3. Announces(toGame'[g], H)
        BY <1>0, <2>1, AnnouncesStep
    <2>4. \A k \in Games : retained'[k] \subseteq H
        <3>1. CASE retained' = retained
            BY <1>0, <3>1
        <3>2. CASE /\ Head(toGame[g]).type = "AvatarReady"
                   /\ retained' = [retained EXCEPT ![g] = @ \cup {Head(toGame[g]).hash}]
            <4>1. Head(toGame[g]).hash \in H
                BY <1>0, <2>2, <3>2 DEF Announces
            <4> QED
                BY <1>0, <3>2, <4>1
        <3> QED
            BY <1>11, <3>1, <3>2 DEF Receive
    <2> QED
        BY <1>0, <2>1, <2>3, <2>4 DEF ToldOfNext
<1>12. ASSUME NEW g \in Games, GameStarts(g) PROVE ToldOfNext(H)
    BY <1>0, <1>12 DEF GameStarts, ToldOfNext, hostVars, wireVars
<1> QED
    BY <1>4, <1>5, <1>6, <1>7, <1>8, <1>9, <1>10, <1>11, <1>12
       DEF QuietNext, ServerStep, ThreadStep

-----------------------------------------------------------------------------
(* Every error path of an upload undoes what was built *)

LEMMA CallNumbers ==
    /\ DOMAIN UploadCalls = 1..10
    /\ Call("image") = 1 /\ Call("stagingMemory") = 4 /\ Call("fence") = 6 /\ Call("submit") = 7
    /\ UploadCalls[1] = "image" /\ UploadCalls[2] = "memory" /\ UploadCalls[3] = "staging"
    /\ UploadCalls[4] = "stagingMemory" /\ UploadCalls[5] = "pool" /\ UploadCalls[6] = "fence"
    /\ UploadCalls[7] = "submit" /\ UploadCalls[8] = "view" /\ UploadCalls[9] = "sampler"
<1>1. DOMAIN UploadCalls = 1..10
    BY DEF UploadCalls
<1>2. /\ UploadCalls[1] = "image" /\ UploadCalls[2] = "memory" /\ UploadCalls[3] = "staging"
      /\ UploadCalls[4] = "stagingMemory" /\ UploadCalls[5] = "pool" /\ UploadCalls[6] = "fence"
      /\ UploadCalls[7] = "submit" /\ UploadCalls[8] = "view" /\ UploadCalls[9] = "sampler"
      /\ UploadCalls[10] = "descriptor"
    BY DEF UploadCalls
<1>3. \A n \in 1..10 : n = 1 \/ n = 2 \/ n = 3 \/ n = 4 \/ n = 5 \/ n = 6 \/ n = 7 \/ n = 8
                           \/ n = 9 \/ n = 10
    OBVIOUS
<1>4. /\ \A n \in 1..10 : UploadCalls[n] = "image" <=> n = 1
      /\ \A n \in 1..10 : UploadCalls[n] = "stagingMemory" <=> n = 4
      /\ \A n \in 1..10 : UploadCalls[n] = "fence" <=> n = 6
      /\ \A n \in 1..10 : UploadCalls[n] = "submit" <=> n = 7
    BY <1>2, <1>3
<1>5. 1 \in 1..10 /\ 4 \in 1..10 /\ 6 \in 1..10 /\ 7 \in 1..10
    OBVIOUS
<1>6. Call("image") = 1
    BY <1>1, <1>4, <1>5 DEF Call
<1>7. Call("stagingMemory") = 4
    BY <1>1, <1>4, <1>5 DEF Call
<1>8. Call("fence") = 6
    BY <1>1, <1>4, <1>5 DEF Call
<1>9. Call("submit") = 7
    BY <1>1, <1>4, <1>5 DEF Call
<1> QED
    BY <1>1, <1>2, <1>6, <1>7, <1>8, <1>9

(* The objects that exist when the n-th call fails, one kind at a time. *)
LEMMA UploadUndone ==
    ASSUME NEW n \in DOMAIN UploadCalls
    PROVE  Built(n) \ Undone(n) = {}
<1>0. n \in 1..10
    BY CallNumbers
<1>1. SUFFICES ASSUME NEW m \in 1..(n - 1), UploadCalls[m] \notin Released(n)
               PROVE  UploadCalls[m] \in Undone(n)
    BY DEF Built
<1>2. m \in 1..9 /\ m < n
    BY <1>0
<1>3. /\ m \in {1, 2, 8, 9} => UploadCalls[m] \in {"image", "memory", "view", "sampler"}
      /\ m = 3 => UploadCalls[m] = "staging"
      /\ m = 4 => UploadCalls[m] = "stagingMemory"
      /\ m = 5 => UploadCalls[m] = "pool"
      /\ m = 6 => UploadCalls[m] = "fence"
      /\ m = 7 => UploadCalls[m] = "submit"
    BY CallNumbers
<1>4. Released(n) = IF n > 7 THEN {"staging", "stagingMemory", "pool", "fence", "submit"} ELSE {}
    BY CallNumbers DEF Released, Staging
<1>5. /\ n > 1 => {"image", "memory", "view", "sampler"} \subseteq Undone(n)
      /\ n \in 6..7 => "pool" \in Undone(n)
      /\ n = 7 => "fence" \in Undone(n)
      /\ n \in 4..7 => "staging" \in Undone(n) /\ "stagingMemory" \in Undone(n)
    BY CallNumbers DEF Undone, TextureBefore, PoolBefore, FenceBefore, Texture, Staging
<1>6. CASE m \in {1, 2, 8, 9}
    BY <1>0, <1>2, <1>3, <1>5, <1>6
<1>7. CASE m \in 3..7
    <2>1. n <= 7
        BY <1>0, <1>1, <1>3, <1>4, <1>7
    <2> QED
        BY <1>0, <1>2, <1>3, <1>5, <1>7, <2>1
<1> QED
    BY <1>2, <1>6, <1>7

LEMMA KindsAreKinds == \A api : Kinds(api) \subseteq ObjectKinds
    BY DEF Kinds, ObjectKinds

-----------------------------------------------------------------------------
(* The path keeps its invariant *)

LEMMA DrawStutter ==
    ASSUME DrawInv, UNCHANGED drawVars
    PROVE  DrawInv'
    BY DEF DrawInv, Drawing, NothingLeaks, drawVars

LEMMA DrawChange ==
    ASSUME DrawInv, NEW g \in Games, NEW r \in {"none", "vulkan", "gl"}, NEW T \in SUBSET Avatars,
           r = "none" => T = {},
           renderer' = [renderer EXCEPT ![g] = r], textures' = [textures EXCEPT ![g] = T],
           objects' = [objects EXCEPT ![g] = T \X Kinds(r)]
    PROVE  DrawInv'
<1>1. T \X Kinds(r) \subseteq Avatars \X ObjectKinds
    BY KindsAreKinds
<1>2. Drawing' /\ renderer' \in [Games -> {"none", "vulkan", "gl"}]
      /\ textures' \in [Games -> SUBSET Avatars]
    BY <1>1 DEF DrawInv, Drawing
<1>3. NothingLeaks'
    BY DEF DrawInv, Drawing, NothingLeaks
<1> QED
    BY <1>2, <1>3 DEF DrawInv

LEMMA DrawNext == DrawInv /\ [PathNext]_allVars => DrawInv'
<1> SUFFICES ASSUME DrawInv, [PathNext]_allVars PROVE DrawInv'
    OBVIOUS
<1>0. /\ objects \in [Games -> SUBSET (Avatars \X ObjectKinds)]
      /\ renderer \in [Games -> {"none", "vulkan", "gl"}] /\ textures \in [Games -> SUBSET Avatars]
      /\ \A g \in Games : /\ objects[g] = textures[g] \X Kinds(renderer[g])
                          /\ renderer[g] = "none" => textures[g] = {}
    BY DEF DrawInv, Drawing, NothingLeaks
<1>1. CASE UNCHANGED drawVars
    BY <1>1, DrawStutter
<1>2. ASSUME NEW g \in Games, NEW h \in Avatars, GetOrLoad(g, h) PROVE DrawInv'
    <2>1. /\ textures' = [textures EXCEPT ![g] = textures[g] \cup {h}]
          /\ renderer' = [renderer EXCEPT ![g] = renderer[g]]
          /\ renderer[g] # "none" /\ renderer[g] \in {"none", "vulkan", "gl"}
        BY <1>0, <1>2 DEF GetOrLoad, Loads
    <2>2. objects[g] \cup ({h} \X Kinds(renderer[g])) = (textures[g] \cup {h}) \X Kinds(renderer[g])
        BY <1>0
    <2>3. objects' = [objects EXCEPT ![g] = (textures[g] \cup {h}) \X Kinds(renderer[g])]
        BY <1>2, <2>2 DEF GetOrLoad
    <2>4. textures[g] \cup {h} \in SUBSET Avatars
        BY <1>0
    <2> QED
        BY <2>1, <2>3, <2>4, DrawChange
<1>3. ASSUME NEW g \in Games, NEW h \in Avatars, NEW n \in DOMAIN UploadCalls, UploadFails(g, h, n)
      PROVE  DrawInv'
    <2>1. {h} \X (Built(n) \ Undone(n)) = {}
        BY UploadUndone
    <2>2. objects' = [objects EXCEPT ![g] = objects[g] \cup {}]
        BY <1>3, <2>1 DEF UploadFails
    <2>3. objects' = objects
        BY <1>0, <2>2
    <2> QED
        BY <1>1, <1>3, <2>3 DEF UploadFails, drawVars
<1>4. ASSUME NEW g \in Games, Shutdown(g) \/ GameEnds(g) PROVE DrawInv'
    <2>1. objects[g] \ (textures[g] \X Kinds(renderer[g])) = {} /\ {} \X Kinds("none") = {}
        BY <1>0
    <2>2. /\ renderer' = [renderer EXCEPT ![g] = "none"] /\ textures' = [textures EXCEPT ![g] = {}]
          /\ objects' = [objects EXCEPT ![g] = {} \X Kinds("none")]
        BY <1>4, <2>1 DEF Shutdown, GameEnds
    <2> QED
        BY <2>2, DrawChange
<1>5. ASSUME NEW g \in Games, NEW api \in {"vulkan", "gl"}, RendererInit(g, api) PROVE DrawInv'
    <2>1. textures[g] = {} /\ objects[g] = {} /\ {} \X Kinds(api) = {}
        BY <1>0, <1>5 DEF RendererInit
    <2>2. /\ renderer' = [renderer EXCEPT ![g] = api] /\ textures' = [textures EXCEPT ![g] = {}]
          /\ objects' = [objects EXCEPT ![g] = {} \X Kinds(api)]
        BY <1>0, <1>5, <2>1 DEF RendererInit
    <2> QED
        BY <2>2, DrawChange
<1>6. CASE CacheStarts \/ CacheDies \/ HostBroadcasts \/ CacheStep
    BY <1>1, <1>6
       DEF CacheStarts, CacheDies, HostBroadcasts, CacheStep, FetchFails, WriteOpens,
                      WriteDone, WriteFails, pathVars, drawVars
<1>7. ASSUME NEW h \in Avatars, Request(h) PROVE DrawInv'
    BY <1>1, <1>7 DEF Request
<1>8. ASSUME NEW g \in Games, HostHandles(g) \/ GameHandles(g) PROVE DrawInv'
    BY <1>1, <1>8 DEF HostHandles, GameHandles, pathVars
<1>9. ASSUME NEW g \in Games, NEW h \in Avatars, GenTexturesFails(g, h) PROVE DrawInv'
    BY <1>1, <1>9 DEF GenTexturesFails
<1>10. CASE UNCHANGED allVars
    BY <1>1, <1>10 DEF allVars, pathVars
<1> QED
    BY <1>2, <1>3, <1>4, <1>5, <1>6, <1>7, <1>8, <1>9, <1>10 DEF PathNext

LEMMA SafeFilesKept ==
    ASSUME NEW H, ToldOfNext(H), H \subseteq Loadable', known' \subseteq Loadable'
    PROVE  SafeFiles'
    BY DEF ToldOfNext, SafeFiles, ToldOf, Announces

LEMMA LargerToldOf ==
    ASSUME NEW H, NEW K, H \subseteq K, ToldOf(H)
    PROVE  ToldOf(K)
    BY DEF ToldOf, Announces

LEMMA FailureCounted ==
    ASSUME failures \in 0..MaxFailures, Failure
    PROVE  failures' \in 0..MaxFailures
    BY PathAssumption DEF Failure

LEMMA FileNext == PathInv /\ [PathNext]_allVars => FileInv'
<1> SUFFICES ASSUME PathInv, [PathNext]_allVars PROVE FileInv'
    OBVIOUS
<1>0. /\ file \in [Avatars -> {"absent", "torn", "whole"}]
      /\ cut \subseteq Avatars /\ known \subseteq Avatars /\ failures \in 0..MaxFailures
      /\ LinkInv /\ Requesting /\ Writing /\ known \subseteq Loadable /\ ToldOf(Loadable)
    BY DEF PathInv, FileInv, SafeFiles
<1>1. Requesting'
    BY <1>0, RequestingNext
<1>2. ASSUME UNCHANGED vars PROVE ToldOfNext(Loadable)
    BY <1>0, <1>2 DEF vars, ToldOf, ToldOfNext
<1>3. ASSUME ToldOfNext(Loadable), UNCHANGED cacheVars, failures' \in 0..MaxFailures PROVE FileInv'
    <2>1. Loadable' = Loadable /\ known' = known /\ Writing'
        BY <1>0, <1>3 DEF cacheVars, Loadable, Writing
    <2>2. SafeFiles'
        BY <1>0, <1>3, <2>1, SafeFilesKept
    <2> QED
        BY <1>0, <1>1, <1>3, <2>1, <2>2 DEF FileInv, cacheVars
<1>4. ASSUME QuietNext, UNCHANGED <<cacheVars, failures>> PROVE FileInv'
    <2>1. ToldOfNext(Loadable)
        BY <1>0, <1>4, QuietSpreads
    <2> QED
        BY <1>0, <1>3, <1>4, <2>1
<1>5. CASE CacheStarts \/ HostBroadcasts
    BY <1>4, <1>5 DEF CacheStarts, HostBroadcasts, QuietNext, pathVars
<1>6. ASSUME NEW g \in Games, HostHandles(g) \/ GameHandles(g) \/ GameEnds(g) PROVE FileInv'
    BY <1>4, <1>6 DEF HostHandles, GameHandles, GameEnds, QuietNext, pathVars
<1>7. ASSUME NEW g \in Games, Shutdown(g) \/ \E api \in {"vulkan", "gl"} : RendererInit(g, api)
      PROVE  FileInv'
    BY <1>0, <1>2, <1>3, <1>7 DEF Shutdown, RendererInit
<1>8. ASSUME NEW g \in Games, NEW h \in Avatars,
             GetOrLoad(g, h) \/ GenTexturesFails(g, h)
                 \/ \E n \in DOMAIN UploadCalls : UploadFails(g, h, n)
      PROVE  FileInv'
    <2>1. UNCHANGED <<vars, cacheVars>> /\ failures' \in 0..MaxFailures
        BY <1>0, <1>8, FailureCounted DEF GetOrLoad, GenTexturesFails, UploadFails
    <2> QED
        BY <1>2, <1>3, <2>1
<1>9. CASE UNCHANGED allVars
    <2>1. UNCHANGED <<vars, cacheVars, failures>>
        BY <1>9 DEF allVars, pathVars
    <2> QED
        BY <1>0, <1>2, <1>3, <2>1
<1>10. CASE CacheDies
    <2>1. /\ known' = {} /\ file' = file /\ failures' = failures /\ step' = "idle"
          /\ cut' = IF step = "write" THEN cut \cup {key} ELSE cut
        BY <1>10 DEF CacheDies, Returned
    <2>2. step = "write" => key \in Avatars
        BY <1>0 DEF Requesting
    <2>3. cut \subseteq cut' /\ cut' \subseteq Avatars /\ Loadable \subseteq Loadable'
        BY <1>0, <2>1, <2>2 DEF Loadable
    <2>4. Writing'
        BY <1>0, <2>1, <2>3 DEF Writing
    <2>5. ToldOfNext(Loadable)
        BY <1>0, <1>10, QuietSpreads DEF CacheDies, QuietNext
    <2>6. SafeFiles'
        BY <2>1, <2>3, <2>5, SafeFilesKept
    <2> QED
        BY <1>0, <1>1, <2>1, <2>3, <2>4, <2>6 DEF FileInv
<1>11. ASSUME NEW h \in Avatars, Request(h) PROVE FileInv'
    <2>1. step = "idle" /\ UNCHANGED <<file, cut, failures>> /\ Loadable' = Loadable
        BY <1>11 DEF Request, Loadable
    <2>2. CASE (h \in known \/ file[h] # "absent") /\ Ready(h) /\ UNCHANGED <<step, key>>
        <3>1. h \in Loadable
            BY <1>0, <2>1, <2>2 DEF Loadable, Writing
        <3>2. BroadcastAvatar(h) /\ known' = known \cup {h}
            BY <2>2 DEF Ready
        <3>3. ToldOfNext(Loadable)
            BY <1>0, <3>1, <3>2, AvatarSpreads
        <3>4. SafeFiles'
            BY <1>0, <2>1, <3>1, <3>2, <3>3, SafeFilesKept
        <3>5. Writing'
            BY <1>0, <2>1, <2>2 DEF Writing
        <3> QED
            BY <1>0, <1>1, <2>1, <3>2, <3>4, <3>5 DEF FileInv
    <2>3. CASE /\ file[h] = "absent" /\ step' = "fetch" /\ key' = h
               /\ UNCHANGED <<vars, known>>
        <3>1. SafeFiles'
            BY <1>0, <1>2, <2>1, <2>3, SafeFilesKept
        <3>2. Writing'
            BY <1>0, <2>1, <2>3 DEF Writing
        <3> QED
            BY <1>0, <1>1, <2>1, <2>3, <3>1, <3>2 DEF FileInv
    <2> QED
        BY <1>11, <2>2, <2>3 DEF Request
<1>12. CASE FetchFails
    <2>1. step = "fetch" /\ step' = "idle" /\ UNCHANGED <<vars, file, cut, known>> /\ Loadable' = Loadable
        BY <1>12 DEF FetchFails, Returned, Loadable
    <2>2. failures' \in 0..MaxFailures
        BY <1>0, <1>12, FailureCounted DEF FetchFails
    <2>3. SafeFiles'
        BY <1>0, <1>2, <2>1, SafeFilesKept
    <2>4. Writing'
        BY <1>0, <2>1 DEF Writing
    <2> QED
        BY <1>0, <1>1, <2>1, <2>2, <2>3, <2>4 DEF FileInv
<1>13. CASE WriteOpens
    <2>1. /\ step = "fetch" /\ step' = "write" /\ file' = [file EXCEPT ![key] = "torn"]
          /\ UNCHANGED <<vars, cut, known, key, failures>> /\ key \in Avatars /\ file[key] = "absent"
        BY <1>0, <1>13 DEF WriteOpens, Requesting, Writing
    <2>2. Loadable \subseteq Loadable'
        BY <1>0, <2>1 DEF Loadable
    <2>3. SafeFiles'
        BY <1>0, <1>2, <2>1, <2>2, SafeFilesKept
    <2>4. Writing'
        BY <1>0, <2>1 DEF Writing
    <2> QED
        BY <1>0, <1>1, <2>1, <2>3, <2>4 DEF FileInv
<1>14. CASE WriteDone
    <2>1. /\ step = "write" /\ step' = "idle" /\ file' = [file EXCEPT ![key] = "whole"]
          /\ UNCHANGED <<cut, failures>> /\ key \in Avatars
          /\ known' = known \cup {key} /\ BroadcastAvatar(key)
        BY <1>0, <1>14 DEF WriteDone, Ready, Returned, Requesting
    <2>2. Loadable \cup {key} \subseteq Loadable'
        BY <1>0, <2>1 DEF Loadable
    <2>3. ToldOf(Loadable \cup {key})
        BY <1>0, LargerToldOf
    <2>4. ToldOfNext(Loadable \cup {key})
        BY <1>0, <2>1, <2>3, AvatarSpreads
    <2>5. SafeFiles'
        BY <1>0, <2>1, <2>2, <2>4, SafeFilesKept
    <2>6. Writing'
        BY <1>0, <2>1 DEF Writing
    <2> QED
        BY <1>0, <1>1, <2>1, <2>5, <2>6 DEF FileInv
<1>15. CASE WriteFails
    <2>1. /\ step = "write" /\ step' = "idle" /\ UNCHANGED <<vars, known>>
          /\ key \in Avatars /\ file[key] = "torn"
        BY <1>0, <1>15 DEF WriteFails, Returned, Requesting, Writing
    <2>2. failures' \in 0..MaxFailures
        BY <1>0, <1>15, FailureCounted DEF WriteFails
    <2>3. \/ file' = [file EXCEPT ![key] = "absent"] /\ cut' = cut
          \/ file' = file /\ cut' = cut \cup {key}
        BY <1>15 DEF WriteFails
    <2>4. /\ file' \in [Avatars -> {"absent", "torn", "whole"}] /\ cut' \subseteq Avatars
          /\ Loadable \subseteq Loadable'
        BY <1>0, <2>1, <2>3 DEF Loadable
    <2>5. SafeFiles'
        BY <1>0, <1>2, <2>1, <2>4, SafeFilesKept
    <2>6. Writing'
        BY <1>0, <2>1, <2>3 DEF Writing
    <2> QED
        BY <1>0, <1>1, <2>1, <2>2, <2>4, <2>5, <2>6 DEF FileInv
<1> QED
    BY <1>5, <1>6, <1>7, <1>8, <1>9, <1>10, <1>11, <1>12, <1>13, <1>14, <1>15
       DEF PathNext, CacheStep

LEMMA PathInvInit == PathInit => PathInv
<1> SUFFICES ASSUME PathInit PROVE PathInv
    OBVIOUS
<1>1. Init /\ Requesting /\ LinkInv
    BY RequestingInit, LinkInit DEF PathInit
<1>2. DrawInv
    <2>1. \A g \in Games : renderer[g] = "none" /\ textures[g] = {} /\ objects[g] = {}
        BY DEF PathInit
    <2>2. {} \X Kinds("none") = {}
        OBVIOUS
    <2>3. NothingLeaks
        BY <2>1, <2>2 DEF NothingLeaks
    <2> QED
        BY <2>3 DEF PathInit, DrawInv, Drawing
<1>3. ToldOf(Loadable)
    <2>1. announced = {} /\ \A g \in Games : retained[g] = {} /\ toGame[g] = <<>>
        BY <1>1 DEF Init
    <2> QED
        BY <2>1, AnnouncesNone DEF ToldOf
<1>4. FileInv
    BY <1>1, <1>3, PathAssumption DEF PathInit, FileInv, Writing, SafeFiles
<1> QED
    BY <1>1, <1>2, <1>4 DEF PathInv

LEMMA PathInvariant == PathSpec => []PathInv
<1>1. PathInv /\ [PathNext]_allVars => PathInv'
    <2> SUFFICES ASSUME PathInv, [PathNext]_allVars PROVE PathInv'
        OBVIOUS
    <2>1. LinkInv'
        BY PathStep, LinkNext DEF PathInv, FileInv
    <2> QED
        BY <2>1, FileNext, DrawNext DEF PathInv
<1> QED
    BY <1>1, PathInvInit, PTL DEF PathSpec

-----------------------------------------------------------------------------
(* Every variable of the link, the cache, its files and the renderers keeps *)
(* its type, run()'s delay its bounds, and request_url is busy exactly when *)
(* it has a picture to fetch.                                               *)
THEOREM PathTypeCorrect == PathSpec => []PathTypeOK
<1>1. PathInv => PathTypeOK
    BY DEF PathInv, LinkInv, FileInv, DrawInv, Requesting, PathTypeOK
<1> QED
    BY <1>1, PathInvariant, PTL

(* request_url announces a picture only after write_avatar_rgba has         *)
(* finished its file, or when the file was there before: no game is told to *)
(* load a file that is being written, whatever failed before.               *)
THEOREM AnnouncedIsLoadable == PathSpec => []AnnouncedIsWhole
<1>1. PathInv => AnnouncedIsWhole
    <2> SUFFICES ASSUME PathInv PROVE AnnouncedIsWhole
        OBVIOUS
    <2>1. announced \subseteq Loadable /\ \A g \in Games : retained[g] \subseteq Loadable
        BY DEF PathInv, FileInv, SafeFiles, ToldOf
    <2> QED
        BY <2>1 DEF AnnouncedIsWhole, Loadable
<1> QED
    BY <1>1, PathInvariant, PTL

(* However many uploads fail, and at whichever call of create_texture or    *)
(* get_or_load, the renderer owns exactly the objects of the textures in    *)
(* its cache.                                                               *)
THEOREM NoLeak == PathSpec => []NothingLeaks
<1>1. PathInv => NothingLeaks
    BY DEF PathInv, DrawInv
<1> QED
    BY <1>1, PathInvariant, PTL
=============================================================================
