------------------------ MODULE OverlayState_proofs ------------------------
(***************************************************************************)
(* Proofs about OverlayState for any number of users, channels and         *)
(* notifications: the index and the vector agree, rows never change        *)
(* places, what is published is the newest notifications, and the vector   *)
(* with its index implements VoiceBoard's one entry per user; and about    *)
(* the frames that OverlayUi draws of it.                                  *)
(***************************************************************************)
EXTENDS OverlayUi, TLAPS

-----------------------------------------------------------------------------
(* The inductive invariant *)

(* What is kept of the notifications: the last ones to arrive, newest      *)
(* first, and the server has the same.                                     *)
NewestKept ==
    /\ Len(notifications) = IF arrived <= MaxNotifications THEN arrived ELSE MaxNotifications
    /\ \A n \in 1..Len(notifications) : notifications[n].id = arrived - n
    /\ published.notifications = notifications

StateInv == TypeOK /\ IndexAgrees /\ NewestKept

-----------------------------------------------------------------------------
(* Lemmas about the operators *)

(* vector::erase: the rows behind the erased one move up by one. *)
LEMMA RemoveAtShifts ==
    ASSUME NEW S, NEW s \in Seq(S), NEW i \in 1..Len(s)
    PROVE  /\ RemoveAt(s, i) \in Seq(S) /\ Len(RemoveAt(s, i)) = Len(s) - 1
           /\ \A n \in 1..(Len(s) - 1) :
                 RemoveAt(s, i)[n] = IF n < i THEN s[n] ELSE s[n + 1]
<1> DEFINE front == SubSeq(s, 1, i - 1)
           back  == SubSeq(s, i + 1, Len(s))
<1>1. Len(s) \in Nat /\ i \in Nat
    OBVIOUS
<1>2. front \in Seq(S) /\ Len(front) = i - 1 /\ \A n \in 1..(i - 1) : front[n] = s[n]
    BY <1>1
<1>3. /\ back \in Seq(S) /\ Len(back) = Len(s) - i
      /\ \A n \in 1..(Len(s) - i) : back[n] = s[i + n]
    BY <1>1
<1>4. RemoveAt(s, i) = front \o back
    BY DEF RemoveAt
<1> HIDE DEF front, back
<1>5. /\ front \o back \in Seq(S) /\ Len(front \o back) = Len(s) - 1
      /\ \A n \in 1..(Len(s) - 1) :
            (front \o back)[n] = IF n <= Len(front) THEN front[n] ELSE back[n - Len(front)]
    <2>1. Len(front) + Len(back) = Len(s) - 1
        BY <1>1, <1>2, <1>3
    <2>2. /\ front \o back \in Seq(S) /\ Len(front \o back) = Len(front) + Len(back)
          /\ \A n \in 1..(Len(front) + Len(back)) :
                (front \o back)[n] = IF n <= Len(front) THEN front[n] ELSE back[n - Len(front)]
        <3> SUFFICES ASSUME NEW a \in Seq(S), NEW b \in Seq(S)
                     PROVE  /\ a \o b \in Seq(S) /\ Len(a \o b) = Len(a) + Len(b)
                            /\ \A n \in 1..(Len(a) + Len(b)) :
                                  (a \o b)[n] = IF n <= Len(a) THEN a[n] ELSE b[n - Len(a)]
            BY <1>2, <1>3
        <3> QED
            OBVIOUS
    <2> QED
        BY <2>1, <2>2
<1>6. ASSUME NEW n \in 1..(Len(s) - 1)
      PROVE  (front \o back)[n] = IF n < i THEN s[n] ELSE s[n + 1]
    <2>1. CASE n < i
        BY <1>1, <1>2, <1>5, <2>1
    <2>2. CASE ~(n < i)
        <3>1. (front \o back)[n] = back[n - (i - 1)]
            BY <1>1, <1>2, <1>5, <2>2
        <3>2. n - (i - 1) \in 1..(Len(s) - i) /\ i + (n - (i - 1)) = n + 1
            BY <1>1, <2>2
        <3> QED
            BY <1>3, <2>2, <3>1, <3>2
    <2> QED
        BY <2>1, <2>2
<1> QED
    BY <1>4, <1>5, <1>6

(* The loop after an erase finds every row again: no user has two. *)
LEMMA RebuildIndexFinds ==
    ASSUME NEW ps \in Seq(Participant),
           \A m, n \in DOMAIN ps : ps[m].user = ps[n].user => m = n
    PROVE  /\ DOMAIN RebuildIndex(ps) = {ps[n].user : n \in DOMAIN ps}
           /\ \A n \in DOMAIN ps : RebuildIndex(ps)[ps[n].user] = n
<1>1. DOMAIN ps = 1..Len(ps) /\ Len(ps) \in Nat
    OBVIOUS
<1>2. ASSUME NEW n \in DOMAIN ps
      PROVE  RebuildIndex(ps)[ps[n].user] = n
    <2> DEFINE RowOf(k) == /\ ps[k].user = ps[n].user
                           /\ \A m \in DOMAIN ps : m > k => ps[m].user # ps[n].user
    <2>1. RowOf(n)
        BY <1>1
    <2>2. \A k \in DOMAIN ps : RowOf(k) => k = n
        OBVIOUS
    <2>3. (CHOOSE k \in DOMAIN ps : RowOf(k)) = n
        <3> HIDE DEF RowOf
        <3> QED
            BY <2>1, <2>2
    <2>4. RebuildIndex(ps)[ps[n].user] = CHOOSE k \in DOMAIN ps : RowOf(k)
        BY DEF RebuildIndex
    <2> QED
        BY <2>3, <2>4
<1> QED
    BY <1>2 DEF RebuildIndex

(* resize after an insert at the front: one more, or the oldest dropped. *)
LEMMA CappedKeepsNewest ==
    ASSUME NEW S, NEW ns \in Seq(S), NEW x \in S, Len(ns) <= MaxNotifications
    PROVE  LET kept == Capped(<<x>> \o ns)
           IN  /\ kept \in Seq(S)
               /\ Len(kept) = IF Len(ns) < MaxNotifications THEN Len(ns) + 1 ELSE Len(ns)
               /\ \A n \in 1..Len(kept) : kept[n] = IF n = 1 THEN x ELSE ns[n - 1]
<1> DEFINE all == <<x>> \o ns
<1>1. MaxNotifications \in Nat /\ MaxNotifications # 0 /\ Len(ns) \in Nat
    BY StateAssumption
<1>2. /\ all \in Seq(S) /\ Len(all) = Len(ns) + 1
      /\ \A n \in 1..(Len(ns) + 1) : all[n] = IF n = 1 THEN x ELSE ns[n - 1]
    <2>1. <<x>> \in Seq(S) /\ Len(<<x>>) = 1 /\ <<x>>[1] = x
        OBVIOUS
    <2> QED
        BY <1>1, <2>1
<1> HIDE DEF all
<1>3. CASE Len(all) > MaxNotifications
    <2>1. Len(ns) = MaxNotifications /\ Capped(all) = SubSeq(all, 1, MaxNotifications)
        BY <1>1, <1>2, <1>3 DEF Capped
    <2>2. /\ SubSeq(all, 1, MaxNotifications) \in Seq(S)
          /\ Len(SubSeq(all, 1, MaxNotifications)) = MaxNotifications
          /\ \A n \in 1..MaxNotifications : SubSeq(all, 1, MaxNotifications)[n] = all[n]
        BY <1>1, <1>2, <1>3
    <2> DEFINE kept == SubSeq(all, 1, MaxNotifications)
    <2>3. Capped(<<x>> \o ns) = kept
        BY <2>1 DEF all
    <2>4. ASSUME NEW n \in 1..MaxNotifications PROVE kept[n] = IF n = 1 THEN x ELSE ns[n - 1]
        BY <1>1, <1>2, <2>1, <2>2
    <2> HIDE DEF kept
    <2>5. kept \in Seq(S) /\ Len(kept) = MaxNotifications
        BY <2>2 DEF kept
    <2> QED
        BY <1>1, <2>1, <2>3, <2>4, <2>5
<1>4. CASE ~(Len(all) > MaxNotifications)
    BY <1>1, <1>2, <1>4 DEF Capped, all
<1> QED
    BY <1>3, <1>4

(* Where a listed user's row is (index_.find). *)
LEMMA RowOf ==
    ASSUME TypeOK, IndexAgrees, NEW u \in DOMAIN index
    PROVE  /\ index[u] \in 1..Len(participants) /\ DOMAIN participants = 1..Len(participants)
           /\ participants[index[u]].user = u /\ participants[index[u]] \in Participant
           /\ u \in Users
<1>1. DOMAIN participants = 1..Len(participants)
    BY DEF TypeOK
<1>2. PICK n \in DOMAIN participants : participants[n].user = u
    BY DEF IndexAgrees
<1>3. index[u] = n
    BY <1>2 DEF IndexAgrees
<1> QED
    BY <1>1, <1>2, <1>3 DEF TypeOK

(* No user has two rows. *)
LEMMA OneRowEach ==
    ASSUME IndexAgrees, NEW m \in DOMAIN participants, NEW n \in DOMAIN participants,
           participants[m].user = participants[n].user
    PROVE  m = n
    BY DEF IndexAgrees

(* A row written in place keeps its user, and all others. *)
LEMMA RowWritten ==
    ASSUME TypeOK, IndexAgrees, NEW u \in DOMAIN index, NEW r \in Participant, r.user = u,
           participants' = [participants EXCEPT ![index[u]] = r], index' = index
    PROVE  /\ participants' \in Seq(Participant) /\ DOMAIN participants' = DOMAIN participants
           /\ participants'[index[u]] = r
           /\ \A v \in DOMAIN index : v # u => participants'[index[v]] = participants[index[v]]
           /\ IndexAgrees'
<1>1. index[u] \in DOMAIN participants /\ participants[index[u]].user = u
    BY RowOf
<1>2. /\ participants' \in Seq(Participant) /\ DOMAIN participants' = DOMAIN participants
      /\ participants'[index[u]] = r
      /\ \A n \in DOMAIN participants : n # index[u] => participants'[n] = participants[n]
    BY <1>1 DEF TypeOK
<1>3. \A v \in DOMAIN index : v # u => participants'[index[v]] = participants[index[v]]
    <2> SUFFICES ASSUME NEW v \in DOMAIN index, v # u
                 PROVE  participants'[index[v]] = participants[index[v]]
        OBVIOUS
    <2>1. index[v] \in DOMAIN participants /\ participants[index[v]].user = v
        BY RowOf
    <2> QED
        BY <1>1, <1>2, <2>1
<1>4. \A n \in DOMAIN participants : participants'[n].user = participants[n].user
    BY <1>1, <1>2
<1>5. {participants'[n].user : n \in DOMAIN participants'}
        = {participants[n].user : n \in DOMAIN participants}
    BY <1>2, <1>4
<1>6. IndexAgrees'
    BY <1>2, <1>4, <1>5 DEF IndexAgrees
<1> QED
    BY <1>2, <1>3, <1>6

(* A row erased: the rows behind it move up, the index follows. *)
LEMMA RowErased ==
    ASSUME TypeOK, IndexAgrees, NEW u \in Users, VoiceDelete(u)
    PROVE  /\ participants' \in Seq(Participant)
           /\ DOMAIN index' = DOMAIN index \ {u}
           /\ \A v \in DOMAIN index' :
                 /\ index'[v] = IF index[v] < index[u] THEN index[v] ELSE index[v] - 1
                 /\ participants'[index'[v]] = participants[index[v]]
           /\ IndexAgrees'
<1> DEFINE i == index[u]
           N == Len(participants)
<1>1. u \in DOMAIN index /\ i \in 1..N /\ N \in Nat /\ participants[i].user = u
    BY RowOf DEF VoiceDelete, TypeOK
<1>2. DOMAIN participants = 1..N /\ participants \in Seq(Participant)
    BY DEF TypeOK
<1>3. /\ participants' \in Seq(Participant) /\ Len(participants') = N - 1
      /\ \A n \in 1..(N - 1) :
            participants'[n] = IF n < i THEN participants[n] ELSE participants[n + 1]
    BY <1>1, <1>2, RemoveAtShifts DEF VoiceDelete
<1>4. DOMAIN participants' = 1..(N - 1)
    BY <1>3
<1> HIDE DEF i, N
<1>5. ASSUME NEW m \in DOMAIN participants', NEW n \in DOMAIN participants',
             participants'[m].user = participants'[n].user
      PROVE  m = n
    <2> DEFINE old(k) == IF k < i THEN k ELSE k + 1
    <2>1. \A k \in DOMAIN participants' :
             participants'[k] = participants[old(k)] /\ old(k) \in DOMAIN participants
        BY <1>1, <1>2, <1>3, <1>4
    <2>2. old(m) = old(n)
        <3> HIDE DEF old
        <3> QED
            BY <1>5, <2>1, OneRowEach
    <2> QED
        BY <1>1, <1>4, <2>2
<1>6. /\ DOMAIN index' = {participants'[n].user : n \in DOMAIN participants'}
      /\ \A n \in DOMAIN participants' : index'[participants'[n].user] = n
    BY <1>3, <1>5, RebuildIndexFinds DEF VoiceDelete
<1>7. IndexAgrees'
    BY <1>6 DEF IndexAgrees
<1>8. ASSUME NEW v \in DOMAIN index, v # u
      PROVE  LET n == IF index[v] < i THEN index[v] ELSE index[v] - 1
             IN  /\ n \in DOMAIN participants' /\ participants'[n] = participants[index[v]]
                 /\ participants'[n].user = v
    <2>1. index[v] \in 1..N /\ participants[index[v]].user = v
        BY RowOf DEF N
    <2>2. index[v] # i
        BY <1>1, <1>8, <2>1
    <2> QED
        BY <1>1, <1>3, <1>4, <2>1, <2>2
<1>9. ASSUME NEW n \in DOMAIN participants'
      PROVE  participants'[n].user \in DOMAIN index \ {u}
    <2>1. CASE n < i
        <3>1. participants'[n] = participants[n] /\ n \in DOMAIN participants /\ n # i
            BY <1>1, <1>2, <1>3, <1>4, <2>1
        <3> QED
            BY <1>1, <1>2, <3>1, OneRowEach DEF IndexAgrees
    <2>2. CASE ~(n < i)
        <3>1. participants'[n] = participants[n + 1] /\ n + 1 \in DOMAIN participants /\ n + 1 # i
            BY <1>1, <1>2, <1>3, <1>4, <2>2
        <3> QED
            BY <1>1, <1>2, <3>1, OneRowEach DEF IndexAgrees
    <2> QED
        BY <2>1, <2>2
<1>10. DOMAIN index' = DOMAIN index \ {u}
    BY <1>6, <1>8, <1>9
<1>11. ASSUME NEW v \in DOMAIN index'
       PROVE  /\ index'[v] = IF index[v] < i THEN index[v] ELSE index[v] - 1
              /\ participants'[index'[v]] = participants[index[v]]
    <2> DEFINE n == IF index[v] < i THEN index[v] ELSE index[v] - 1
    <2>1. n \in DOMAIN participants' /\ participants'[n] = participants[index[v]]
          /\ participants'[n].user = v
        BY <1>8, <1>10
    <2> HIDE DEF n
    <2>2. index'[v] = n
        BY <1>6, <2>1
    <2> QED
        BY <2>1, <2>2 DEF n
<1> QED
    BY <1>3, <1>7, <1>10, <1>11 DEF i

(* A row appended: the old ones stay where they are. *)
LEMMA RowAppended ==
    ASSUME TypeOK, IndexAgrees, NEW u \in Users, NEW f \in Infos, VoiceCreate(u, f)
    PROVE  /\ participants' \in Seq(Participant)
           /\ DOMAIN index' = DOMAIN index \cup {u} /\ u \notin DOMAIN index
           /\ \A v \in DOMAIN index :
                 index'[v] = index[v] /\ participants'[index'[v]] = participants[index[v]]
           /\ index'[u] = Len(participants) + 1
           /\ participants'[index'[u]] = [user |-> u, speaking |-> FALSE, info |-> f]
           /\ IndexAgrees'
<1> DEFINE r == [user |-> u, speaking |-> FALSE, info |-> f]
           N == Len(participants)
<1>1. r \in Participant /\ r.user = u
    BY DEF Participant
<1>2. DOMAIN participants = 1..N /\ participants \in Seq(Participant) /\ N \in Nat
    BY DEF TypeOK
<1>3. participants' = Append(participants, r)
    BY DEF VoiceCreate
<1> HIDE DEF r
<1>4. /\ participants' \in Seq(Participant) /\ DOMAIN participants' = 1..(N + 1)
      /\ participants'[N + 1] = r /\ \A n \in 1..N : participants'[n] = participants[n]
    BY <1>1, <1>2, <1>3
<1> HIDE DEF N
<1>5. /\ u \notin DOMAIN index /\ DOMAIN index' = DOMAIN index \cup {u} /\ index'[u] = N + 1
      /\ \A v \in DOMAIN index : index'[v] = index[v]
    BY DEF VoiceCreate, N
<1>6. \A v \in DOMAIN index : index[v] \in 1..N
    BY RowOf DEF N
<1>7. IndexAgrees'
    <2>1. \A n \in 1..(N + 1) : n \in 1..N \/ n = N + 1
        BY <1>2
    <2>2. \A n \in DOMAIN participants' : index'[participants'[n].user] = n
        BY <1>1, <1>2, <1>4, <1>5, <2>1 DEF IndexAgrees
    <2>3. N + 1 \in 1..(N + 1) /\ \A n \in 1..N : n \in 1..(N + 1)
        BY <1>2
    <2>4. \A v : v \in DOMAIN index' <=> \E n \in DOMAIN participants' : participants'[n].user = v
        BY <1>1, <1>2, <1>4, <1>5, <2>1, <2>3 DEF IndexAgrees
    <2> QED
        BY <2>2, <2>4 DEF IndexAgrees
<1> QED
    BY <1>4, <1>5, <1>6, <1>7 DEF r, N

-----------------------------------------------------------------------------
(* The inductive invariant is kept *)

LEMMA StateInvInit == Init => StateInv
<1> SUFFICES ASSUME Init PROVE StateInv
    OBVIOUS
<1>1. DOMAIN index = {} /\ DOMAIN participants = {} /\ DOMAIN notifications = {}
    BY DEF Init, Empty
<1>2. participants \in Seq(Participant) /\ notifications \in Seq(Notification)
      /\ Len(notifications) = 0
    BY DEF Init
<1>3. TypeOK
    <2>1. arrived \in 0..MaxArrivals /\ now \in 0..MaxClock
        BY StateAssumption DEF Init
    <2>2. index \in [DOMAIN index -> Nat]
        BY DEF Init, Empty
    <2>3. shown \in ChannelIds /\ config \in Configs
        BY DEF Init, ChannelIds
    <2> QED
        BY <1>1, <1>2, <2>1, <2>2, <2>3, StateAssumption DEF TypeOK
<1>4. IndexAgrees
    BY <1>1 DEF IndexAgrees
<1>5. NewestKept
    <2>1. published.notifications = notifications /\ arrived = 0
        BY DEF Init, Current, Snapshot
    <2> QED
        BY <1>2, <2>1, StateAssumption DEF NewestKept
<1> QED
    BY <1>3, <1>4, <1>5 DEF StateInv

(* A step that leaves the notifications alone publishes them as they are. *)
LEMMA NewestStays ==
    ASSUME NewestKept, UNCHANGED <<notifications, arrived>>, Commit
    PROVE  NewestKept'
<1>1. published'.notifications = notifications'
    BY DEF Commit, Snapshot
<1> QED
    BY <1>1 DEF NewestKept

(* A notification arrives: it is the first, and the oldest may go. *)
LEMMA NewestArrives ==
    ASSUME StateInv, Notify
    PROVE  /\ NewestKept' /\ notifications' \in Seq(Notification)
           /\ Len(notifications') <= MaxNotifications
<1> DEFINE x == [id |-> arrived, created |-> now]
<1>1. /\ x \in Notification /\ x.id = arrived /\ arrived \in Nat /\ MaxNotifications \in Nat
      /\ notifications \in Seq(Notification) /\ Len(notifications) <= MaxNotifications
      /\ Len(notifications) \in Nat
    BY StateAssumption DEF StateInv, TypeOK, Notification
<1>2. notifications' = Capped(<<x>> \o notifications) /\ arrived' = arrived + 1
    BY DEF Notify
<1> HIDE DEF x
<1>3. /\ notifications' \in Seq(Notification)
      /\ Len(notifications') =
            IF Len(notifications) < MaxNotifications THEN Len(notifications) + 1
                                                     ELSE Len(notifications)
      /\ \A n \in 1..Len(notifications') :
            notifications'[n] = IF n = 1 THEN x ELSE notifications[n - 1]
    BY <1>1, <1>2, CappedKeepsNewest
<1>4. Len(notifications') = IF arrived' <= MaxNotifications THEN arrived' ELSE MaxNotifications
    BY <1>1, <1>2, <1>3 DEF StateInv, NewestKept
<1>5. ASSUME NEW n \in 1..Len(notifications') PROVE notifications'[n].id = arrived' - n
    <2>1. CASE n = 1
        BY <1>1, <1>2, <1>3, <2>1
    <2>2. CASE n # 1
        <3>1. n - 1 \in 1..Len(notifications) /\ n \in Nat
            BY <1>1, <1>3, <2>2
        <3>2. notifications'[n].id = arrived - (n - 1)
            BY <1>3, <2>2, <3>1 DEF StateInv, NewestKept
        <3> QED
            BY <1>1, <1>2, <3>1, <3>2
    <2> QED
        BY <2>1, <2>2
<1>6. published'.notifications = notifications'
    BY DEF Notify, Commit, Snapshot
<1> QED
    BY <1>1, <1>3, <1>4, <1>5, <1>6 DEF NewestKept

LEMMA StateInvNext == StateInv /\ [Next]_vars => StateInv'
<1> SUFFICES ASSUME StateInv, [Next]_vars PROVE StateInv'
    OBVIOUS
<1> USE DEF StateInv
<1>0. /\ notifications \in Seq(Notification) /\ Len(notifications) <= MaxNotifications
      /\ DOMAIN participants = 1..Len(participants)
    BY DEF TypeOK
<1>1. ASSUME NEW c \in ChannelIds, ChannelSelect(c) PROVE StateInv'
    <2>1. DOMAIN index' = {} /\ DOMAIN participants' = {} /\ index' \in [DOMAIN index' -> Nat]
        BY <1>1 DEF ChannelSelect, Empty
    <2>2. participants' \in Seq(Participant)
        BY <1>1 DEF ChannelSelect
    <2>3. UNCHANGED <<notifications, config, arrived, now>> /\ shown' \in ChannelIds /\ Commit
        BY <1>1 DEF ChannelSelect
    <2>4. TypeOK'
        BY <2>1, <2>2, <2>3 DEF TypeOK
    <2>5. IndexAgrees'
        BY <2>1 DEF IndexAgrees
    <2> QED
        BY <2>3, <2>4, <2>5, NewestStays
<1>2. ASSUME NEW u \in Users, NEW f \in Infos, VoiceUpdate(u, f) PROVE StateInv'
    <2> DEFINE r == [participants[index[u]] EXCEPT !.info = f]
    <2>1. /\ u \in DOMAIN index /\ index' = index /\ Commit
          /\ UNCHANGED <<shown, notifications, config, arrived, now>>
        BY <1>2 DEF VoiceUpdate
    <2>2. /\ index[u] \in 1..Len(participants) /\ participants[index[u]] \in Participant
          /\ participants[index[u]].user = u
        BY <2>1, RowOf
    <2>3. r \in Participant /\ r.user = u
        BY <2>2 DEF Participant
    <2>4. participants' = [participants EXCEPT ![index[u]] = r]
        BY <1>2, <2>2 DEF VoiceUpdate, TypeOK
    <2>5. participants' \in Seq(Participant) /\ IndexAgrees'
        BY <2>1, <2>3, <2>4, RowWritten
    <2>6. TypeOK'
        BY <2>1, <2>5 DEF TypeOK
    <2> QED
        BY <2>1, <2>5, <2>6, NewestStays
<1>3. ASSUME NEW u \in Users, NEW f \in Infos, VoiceCreate(u, f) PROVE StateInv'
    <2>1. UNCHANGED <<shown, notifications, config, arrived, now>> /\ Commit
        BY <1>3 DEF VoiceCreate
    <2>2. index' \in [DOMAIN index' -> Nat]
        BY <1>3 DEF VoiceCreate, TypeOK
    <2>3. TypeOK'
        BY <1>3, <2>1, <2>2, RowAppended DEF TypeOK
    <2> QED
        BY <1>3, <2>1, <2>3, NewestStays, RowAppended
<1>4. ASSUME NEW u \in Users, VoiceDelete(u) PROVE StateInv'
    <2>1. UNCHANGED <<shown, notifications, config, arrived, now>> /\ Commit
        BY <1>4 DEF VoiceDelete
    <2>2. participants' \in Seq(Participant) /\ DOMAIN index' \subseteq DOMAIN index /\ IndexAgrees'
        BY <1>4, RowErased
    <2>3. index' \in [DOMAIN index' -> Nat]
        <3>1. index' = [v \in DOMAIN index' |-> index'[v]]
            BY <1>4 DEF VoiceDelete, RebuildIndex
        <3>2. DOMAIN participants' \subseteq Nat
            BY <2>2
        <3>3. \A v \in DOMAIN index' : index'[v] \in Nat
            BY <2>2, <3>2 DEF IndexAgrees
        <3> QED
            BY <3>1, <3>3
    <2>4. TypeOK'
        BY <2>1, <2>2, <2>3 DEF TypeOK
    <2> QED
        BY <2>1, <2>2, <2>4, NewestStays
<1>5. ASSUME NEW u \in Users, NEW b \in BOOLEAN, Speaking(u, b) PROVE StateInv'
    <2> DEFINE r == [participants[index[u]] EXCEPT !.speaking = b]
    <2>1. /\ u \in DOMAIN index /\ index' = index /\ Commit
          /\ UNCHANGED <<shown, notifications, config, arrived, now>>
        BY <1>5 DEF Speaking
    <2>2. /\ index[u] \in 1..Len(participants) /\ participants[index[u]] \in Participant
          /\ participants[index[u]].user = u
        BY <2>1, RowOf
    <2>3. r \in Participant /\ r.user = u
        BY <2>2 DEF Participant
    <2>4. participants' = [participants EXCEPT ![index[u]] = r]
        BY <1>5, <2>2 DEF Speaking, TypeOK
    <2>5. participants' \in Seq(Participant) /\ IndexAgrees'
        BY <2>1, <2>3, <2>4, RowWritten
    <2>6. TypeOK'
        BY <2>1, <2>5 DEF TypeOK
    <2> QED
        BY <2>1, <2>5, <2>6, NewestStays
<1>6. CASE Notify
    <2>1. UNCHANGED <<shown, participants, index, config, now>> /\ arrived' \in 0..MaxArrivals
        BY <1>6, StateAssumption DEF Notify, TypeOK
    <2>2. IndexAgrees'
        BY <2>1 DEF IndexAgrees
    <2>3. TypeOK'
        BY <1>6, <2>1, NewestArrives DEF TypeOK
    <2> QED
        BY <1>6, <2>2, <2>3, NewestArrives
<1>7. ASSUME NEW cfg \in Configs, SetConfig(cfg) PROVE StateInv'
    <2>1. TypeOK' /\ Commit /\ UNCHANGED <<notifications, arrived>>
        BY <1>7 DEF SetConfig, TypeOK
    <2>2. IndexAgrees'
        BY <1>7 DEF SetConfig, IndexAgrees
    <2> QED
        BY <2>1, <2>2, NewestStays
<1>8. ASSUME NEW t \in 0..MaxClock, ClockMoves(t) PROVE StateInv'
    BY <1>8 DEF ClockMoves, snapVars, TypeOK, IndexAgrees, NewestKept
<1>9. CASE UNCHANGED vars
    BY <1>9 DEF vars, TypeOK, IndexAgrees, NewestKept
<1> QED
    BY <1>1, <1>2, <1>3, <1>4, <1>5, <1>6, <1>7, <1>8, <1>9 DEF Next

LEMMA StateInvariant == Spec => []StateInv
    BY StateInvInit, StateInvNext, PTL DEF Spec

-----------------------------------------------------------------------------
(* The theorems *)

(* Every variable keeps its type, and the notifications their bound. *)
THEOREM TypeCorrect == Spec => []TypeOK
<1>1. StateInv => TypeOK
    BY DEF StateInv
<1> QED
    BY <1>1, StateInvariant, PTL

(* index_ and the vector of participants name the same users at the same   *)
(* positions, after any sequence of creations and erasures.                *)
THEOREM IndexFollowsRows == Spec => []IndexAgrees
<1>1. StateInv => IndexAgrees
    BY DEF StateInv
<1> QED
    BY <1>1, StateInvariant, PTL

(* The published notifications are exactly the most recent ones, newest    *)
(* first, for every cap and however many have arrived.                     *)
THEOREM NewestArePublished == Spec => []KeepsTheNewest
<1>1. StateInv => KeepsTheNewest
    <2> SUFFICES ASSUME StateInv PROVE KeepsTheNewest
        OBVIOUS
    <2>1. arrived \in Nat /\ MaxNotifications \in Nat /\ notifications \in Seq(Notification)
        BY StateAssumption DEF StateInv, TypeOK
    <2>2. Min({arrived, MaxNotifications})
            = IF arrived <= MaxNotifications THEN arrived ELSE MaxNotifications
        <3> DEFINE S == {arrived, MaxNotifications}
                   m == IF arrived <= MaxNotifications THEN arrived ELSE MaxNotifications
                   Least(x) == \A y \in S : x =< y
        <3>1. m \in S /\ Least(m)
            BY <2>1
        <3>2. \A x \in S : Least(x) => x = m
            BY <2>1
        <3>3. (CHOOSE x \in S : Least(x)) = m
            <4> HIDE DEF S, m, Least
            <4> QED
                BY <3>1, <3>2
        <3> QED
            BY <3>3 DEF Min
    <2>3. DOMAIN notifications = 1..Len(notifications)
        BY <2>1
    <2> QED
        BY <2>2, <2>3 DEF StateInv, NewestKept, KeepsTheNewest
<1> QED
    BY <1>1, StateInvariant, PTL

(* Of two users listed before and after a step, the one listed first stays *)
(* first: rows are appended, erased and written in place, never moved past *)
(* one another.                                                            *)
THEOREM RowsKeepTheirOrder == Spec => OrderKept
<1> DEFINE Kept == \A u, v \in DOMAIN index \cap DOMAIN index' :
                      index[u] < index[v] => index'[u] < index'[v]
<1>1. StateInv /\ [Next]_vars => [Kept]_vars
    <2> SUFFICES ASSUME StateInv, Next PROVE Kept
        OBVIOUS
    <2> USE DEF StateInv
    <2>0. \A w \in DOMAIN index : index[w] \in Nat
        BY DEF TypeOK
    <2>1. ASSUME NEW c \in ChannelIds, ChannelSelect(c) PROVE Kept
        BY <2>1 DEF ChannelSelect, Empty
    <2>2. ASSUME NEW u \in Users, NEW f \in Infos, VoiceCreate(u, f) PROVE Kept
        BY <2>2, RowAppended
    <2>3. ASSUME NEW u \in Users, VoiceDelete(u) PROVE Kept
        <3>1. /\ u \in DOMAIN index /\ u \notin DOMAIN index'
              /\ \A v \in DOMAIN index' :
                    index'[v] = IF index[v] < index[u] THEN index[v] ELSE index[v] - 1
            BY <2>3, RowErased DEF VoiceDelete
        <3>2. \A v \in DOMAIN index' : v \in DOMAIN index => index[v] # index[u]
            <4> SUFFICES ASSUME NEW v \in DOMAIN index', v \in DOMAIN index,
                                index[v] = index[u]
                         PROVE  FALSE
                OBVIOUS
            <4> QED
                BY <3>1, RowOf
        <3> QED
            BY <2>0, <3>1, <3>2
    <2>4. CASE index' = index
        BY <2>4
    <2> QED
        BY <2>1, <2>2, <2>3, <2>4
           DEF Next, VoiceUpdate, Speaking, Notify, SetConfig, ClockMoves, snapVars
<1> QED
    BY <1>1, StateInvariant, PTL DEF Spec, OrderKept

-----------------------------------------------------------------------------
(* Refinement *)

(* What the vector and its index know of a listed user. *)
Row(u) == [speaking |-> participants[index[u]].speaking, info |-> participants[index[u]].info]
BoardRows == [u \in DOMAIN index |-> Row(u)]

(* The vector of participants and the index into it implement one entry    *)
(* per user (VoiceBoard): an update in place keeps the speaking flag, a    *)
(* new row starts silent, an erasure loses nobody else's row, and the      *)
(* other events of the reducer change nothing of it.                       *)
THEOREM RowsImplementBoard == Spec => ImplementsBoard
<1> USE DEF Row, BoardRows
<1>1. Init => Board!Init
    BY DEF Init, Empty, Board!Init
<1>2. StateInv /\ [Next]_vars => [Board!Next]_<<shown, BoardRows>>
    <2> SUFFICES ASSUME StateInv, [Next]_vars PROVE [Board!Next]_<<shown, BoardRows>>
        OBVIOUS
    <2> USE DEF StateInv
    <2>1. ASSUME NEW c \in ChannelIds, ChannelSelect(c) PROVE Board!Next
        <3>1. shown' = c /\ BoardRows' = [u \in {} |-> <<>>]
            BY <2>1 DEF ChannelSelect, Empty
        <3> QED
            BY <3>1 DEF Board!Next, Board!ChannelSelect, ChannelIds
    <2>2. ASSUME NEW u \in Users, NEW f \in Infos, VoiceUpdate(u, f) PROVE Board!Next
        <3> DEFINE r == [participants[index[u]] EXCEPT !.info = f]
        <3>1. u \in DOMAIN index /\ index' = index /\ shown' = shown
            BY <2>2 DEF VoiceUpdate
        <3>2. /\ index[u] \in 1..Len(participants) /\ participants[index[u]] \in Participant
              /\ participants[index[u]].user = u
            BY <3>1, RowOf
        <3>3. /\ r \in Participant /\ r.user = u /\ r.info = f
              /\ r.speaking = participants[index[u]].speaking
            BY <3>2 DEF Participant
        <3>4. participants' = [participants EXCEPT ![index[u]] = r]
            BY <2>2, <3>2 DEF VoiceUpdate, TypeOK
        <3> HIDE DEF r
        <3>5. /\ participants'[index[u]] = r
              /\ \A v \in DOMAIN index : v # u => participants'[index[v]] = participants[index[v]]
            BY <3>1, <3>3, <3>4, RowWritten
        <3>6. BoardRows' = [v \in DOMAIN index \cup {u} |->
                         IF v # u THEN BoardRows[v]
                         ELSE [speaking |-> u \in DOMAIN index /\ BoardRows[u].speaking, info |-> f]]
            <4>1. participants[index[u]].speaking \in BOOLEAN
                BY <3>2 DEF Participant
            <4>2. Row(u)' = [speaking |-> u \in DOMAIN index /\ BoardRows[u].speaking, info |-> f]
                BY <3>1, <3>3, <3>5, <4>1
            <4>3. \A v \in DOMAIN index : v # u => Row(v)' = BoardRows[v]
                BY <3>1, <3>5
            <4>4. DOMAIN index \cup {u} = DOMAIN index
                BY <3>1
            <4> HIDE DEF Row
            <4> QED
                BY <3>1, <4>2, <4>3, <4>4
        <3>7. DOMAIN BoardRows = DOMAIN index
            OBVIOUS
        <3> HIDE DEF Row, BoardRows
        <3>8. Board!VoiceState(u, f)
            BY <3>1, <3>6, <3>7 DEF Board!VoiceState, BoardRows, Row
        <3> QED
            BY <3>8 DEF Board!Next
    <2>3. ASSUME NEW u \in Users, NEW f \in Infos, VoiceCreate(u, f) PROVE Board!Next
        <3>1. /\ DOMAIN index' = DOMAIN index \cup {u} /\ u \notin DOMAIN index
              /\ \A v \in DOMAIN index : participants'[index'[v]] = participants[index[v]]
              /\ participants'[index'[u]] = [user |-> u, speaking |-> FALSE, info |-> f]
            BY <2>3, RowAppended
        <3>2. shown' = shown
            BY <2>3 DEF VoiceCreate
        <3>3. BoardRows' = [v \in DOMAIN index \cup {u} |->
                         IF v # u THEN BoardRows[v]
                         ELSE [speaking |-> u \in DOMAIN index /\ BoardRows[u].speaking, info |-> f]]
            <4>1. Row(u)' = [speaking |-> u \in DOMAIN index /\ BoardRows[u].speaking, info |-> f]
                <5>1. Row(u)' = [speaking |-> FALSE, info |-> f]
                    BY <3>1
                <5>2. (u \in DOMAIN index /\ BoardRows[u].speaking) = FALSE
                    BY <3>1
                <5> QED
                    BY <5>1, <5>2
            <4>2. \A v \in DOMAIN index : Row(v)' = BoardRows[v]
                BY <3>1
            <4> HIDE DEF Row
            <4> QED
                BY <3>1, <4>1, <4>2
        <3>4. DOMAIN BoardRows = DOMAIN index
            OBVIOUS
        <3> HIDE DEF Row, BoardRows
        <3>5. Board!VoiceState(u, f)
            BY <3>2, <3>3, <3>4 DEF Board!VoiceState, BoardRows, Row
        <3> QED
            BY <3>5 DEF Board!Next
    <2>4. ASSUME NEW u \in Users, VoiceDelete(u) PROVE Board!Next
        <3>1. /\ DOMAIN index' = DOMAIN index \ {u}
              /\ \A v \in DOMAIN index' : participants'[index'[v]] = participants[index[v]]
            BY <2>4, RowErased
        <3>2. shown' = shown
            BY <2>4 DEF VoiceDelete
        <3>3. BoardRows' = [v \in DOMAIN index \ {u} |-> BoardRows[v]]
            <4>1. \A v \in DOMAIN index' : Row(v)' = BoardRows[v]
                BY <3>1
            <4> HIDE DEF Row
            <4> QED
                BY <3>1, <4>1
        <3>4. DOMAIN BoardRows = DOMAIN index
            OBVIOUS
        <3> HIDE DEF Row, BoardRows
        <3>5. Board!VoiceDelete(u)
            BY <3>2, <3>3, <3>4 DEF Board!VoiceDelete, BoardRows, Row
        <3> QED
            BY <3>5 DEF Board!Next
    <2>5. ASSUME NEW u \in Users, NEW b \in BOOLEAN, Speaking(u, b) PROVE Board!Next
        <3> DEFINE r == [participants[index[u]] EXCEPT !.speaking = b]
        <3>1. u \in DOMAIN index /\ index' = index /\ shown' = shown
            BY <2>5 DEF Speaking
        <3>2. /\ index[u] \in 1..Len(participants) /\ participants[index[u]] \in Participant
              /\ participants[index[u]].user = u
            BY <3>1, RowOf
        <3>3. /\ r \in Participant /\ r.user = u /\ r.speaking = b
              /\ r.info = participants[index[u]].info
            BY <3>2 DEF Participant
        <3>4. participants' = [participants EXCEPT ![index[u]] = r]
            BY <2>5, <3>2 DEF Speaking, TypeOK
        <3> HIDE DEF r
        <3>5. /\ participants'[index[u]] = r
              /\ \A v \in DOMAIN index : v # u => participants'[index[v]] = participants[index[v]]
            BY <3>1, <3>3, <3>4, RowWritten
        <3>6. BoardRows' = [BoardRows EXCEPT ![u].speaking = b]
            <4>1. Row(u)' = [BoardRows[u] EXCEPT !.speaking = b]
                BY <3>1, <3>3, <3>5
            <4>2. \A v \in DOMAIN index : v # u => Row(v)' = BoardRows[v]
                BY <3>1, <3>5
            <4> HIDE DEF Row
            <4> QED
                BY <3>1, <4>1, <4>2
        <3>7. u \in DOMAIN BoardRows
            BY <3>1
        <3> HIDE DEF Row, BoardRows
        <3>8. Board!Speaking(u, b)
            BY <3>1, <3>6, <3>7 DEF Board!Speaking, BoardRows, Row
        <3> QED
            BY <3>8 DEF Board!Next
    <2>6. CASE UNCHANGED <<shown, participants, index>>
        BY <2>6
    <2> QED
        BY <2>1, <2>2, <2>3, <2>4, <2>5, <2>6
           DEF Next, Notify, SetConfig, ClockMoves, snapVars, vars
<1> QED
    BY <1>1, <1>2, StateInvariant, PTL DEF Spec, ImplementsBoard, Board!Spec

(* The board implements the roster that RpcClient drives: forgetting what   *)
(* is known of each user leaves who is listed.  A speaking event changes    *)
(* nothing of it.                                                           *)
THEOREM BoardImplementsRoster == Board!Spec => Board!Rst!Spec
<1>1. Board!Init => Board!Rst!Init
    BY DEF Board!Init, Board!Rst!Init
<1>2. [Board!Next]_<<shown, BoardRows>> => [Board!Rst!Next]_<<shown, DOMAIN BoardRows>>
    <2> SUFFICES ASSUME [Board!Next]_<<shown, BoardRows>>
                 PROVE  [Board!Rst!Next]_<<shown, DOMAIN BoardRows>>
        OBVIOUS
    <2>1. ASSUME NEW c \in Channels \cup {NoChannel}, Board!ChannelSelect(c)
          PROVE  Board!Rst!Next
        BY <2>1 DEF Board!ChannelSelect, Board!Rst!Next, Board!Rst!ChannelSelect
    <2>2. ASSUME NEW u \in Users, NEW f \in Infos, Board!VoiceState(u, f)
          PROVE  Board!Rst!Next
        BY <2>2 DEF Board!VoiceState, Board!Rst!Next, Board!Rst!VoiceUpsert
    <2>3. ASSUME NEW u \in Users, Board!VoiceDelete(u)
          PROVE  Board!Rst!Next
        BY <2>3 DEF Board!VoiceDelete, Board!Rst!Next, Board!Rst!VoiceDelete
    <2>4. ASSUME NEW u \in Users, NEW b \in BOOLEAN, Board!Speaking(u, b)
          PROVE  UNCHANGED <<shown, DOMAIN BoardRows>>
        <3>1. shown' = shown /\ BoardRows' = [BoardRows EXCEPT ![u].speaking = b]
            BY <2>4 DEF Board!Speaking, BoardRows, Row
        <3> QED
            BY <3>1
    <2>5. ASSUME UNCHANGED <<shown, BoardRows>>
          PROVE  UNCHANGED <<shown, DOMAIN BoardRows>>
        BY <2>5
    <2> QED
        BY <2>1, <2>2, <2>3, <2>4, <2>5 DEF Board!Next
<1> QED
    BY <1>1, <1>2, PTL DEF Board!Spec, Board!Rst!Spec, BoardRows, Row

(* Who is listed follows the roster that RpcClient drives: the vector and   *)
(* its index implement it.                                                  *)
THEOREM RowsImplementRoster == Spec => Board!Rst!Spec
    BY RowsImplementBoard, BoardImplementsRoster, PTL DEF ImplementsBoard

-----------------------------------------------------------------------------
(* What a game draws *)

(* What a frame that drew rows left in g_anim is the brightness of these    *)
(* rows: the others are pruned.                                             *)
Pruned == drawn # {} => DOMAIN anim = drawn

(* Only a frame with rows touches g_anim. *)
LEMMA UiStep ==
    ASSUME [UiNext]_uiVars
    PROVE  \/ UNCHANGED <<anim, drawn>>
           \/ drawn' = {} /\ anim' = anim
           \/ /\ \A p \in Rows(published) : anim'[p.user] \in Eased(p)
              /\ drawn' = DOMAIN anim'
<1>1. CASE DrawPanel
  <2>1. PICK a \in [{p.user : p \in Rows(published)} -> 0..Levels] :
           (\A p \in Rows(published) : a[p.user] \in Eased(p)) /\ anim' = a
    BY <1>1 DEF DrawPanel
  <2>2. drawn' = {p.user : p \in Rows(published)}
    BY <1>1 DEF DrawPanel
  <2> QED BY <2>1, <2>2
<1>2. CASE DrawNoPanel
  BY <1>2 DEF DrawNoPanel
<1>3. CASE UNCHANGED <<anim, drawn>>
  BY <1>3
<1> QED BY <1>1, <1>2, <1>3 DEF UiNext, uiVars

(* A frame draws what it has and changes nothing of the host. *)
THEOREM FramesLeaveTheState == UiSpec => Spec
<1>1. UiInit => Init
  BY DEF UiInit
<1>2. [UiNext]_uiVars => [Next]_vars
  BY DEF UiNext, uiVars, vars, DrawPanel, DrawNoPanel
<1> QED BY <1>1, <1>2, PTL DEF UiSpec, Spec

(* "first sight: no fade-in on appear" (overlay_ui.cpp:372-383): between    *)
(* two frames that show somebody, a row that was not there appears at its   *)
(* own brightness.                                                          *)
THEOREM RowsAppearAtTarget == UiSpec => FirstSightAtTarget
<1>1. UiInit => Pruned
  BY DEF UiInit, Pruned
<1>2. Pruned /\ [UiNext]_uiVars => Pruned'
  BY UiStep DEF Pruned
<1>3. Pruned /\ [UiNext]_uiVars =>
         [\A p \in Rows(published) :
             (drawn # {} /\ drawn' # {} /\ p.user \in drawn' \ drawn)
                 => anim'[p.user] = Target(p)]_uiVars
  <2> SUFFICES ASSUME Pruned, [UiNext]_uiVars, NEW p \in Rows(published),
                      drawn # {}, drawn' # {}, p.user \in drawn' \ drawn
               PROVE  anim'[p.user] = Target(p)
    OBVIOUS
  <2>1. anim'[p.user] \in Eased(p)
    BY UiStep
  <2>2. p.user \notin DOMAIN anim
    BY DEF Pruned
  <2> QED BY <2>1, <2>2 DEF Eased
<1> QED BY <1>1, <1>2, <1>3, PTL DEF UiSpec, FirstSightAtTarget
=============================================================================
