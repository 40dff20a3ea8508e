---------------------------- MODULE Framing_proofs ----------------------------
(***************************************************************************)
(* What a reader hands on is what was sent, and it turns a connection away *)
(* only for a reason, for every width of a byte, every cap, every size of  *)
(* a read and of the socket.  The proofs keep an account of the stream:    *)
(* what the reader holds, what is in the socket and what the writer has    *)
(* left are, one after the other, the frames that have not come out yet.   *)
(***************************************************************************)
EXTENDS Framing, SequenceTheorems, NaturalsInduction, WellFoundedInduction, TLAPS

-----------------------------------------------------------------------------
(* Digits *)

LEMMA DivisionIs ==
    ASSUME NEW n \in Nat, NEW d \in Nat \ {0}, NEW q \in Nat, NEW r \in 0..d-1,
           n = (d * q) + r
    PROVE  n \div d = q /\ n % d = r
OBVIOUS

LEMMA Division ==
    ASSUME NEW n \in Nat, NEW d \in Nat \ {0}
    PROVE  n \div d \in Nat /\ n % d \in 0..d-1 /\ n = (d * (n \div d)) + (n % d)
OBVIOUS

LEMMA DivideTwice ==
    ASSUME NEW n \in Nat, NEW a \in Nat \ {0}, NEW b \in Nat \ {0}
    PROVE  n \div (a * b) = (n \div a) \div b
<1> DEFINE q == n \div a
           r == n % a
           s == q \div b
           t == q % b
           d == a * b
           e == (a * t) + r
<1>1. q \in Nat /\ r \in 0..a-1 /\ n = (a * q) + r
    BY Division
<1>2. s \in Nat /\ t \in 0..b-1 /\ q = (b * s) + t
    BY <1>1, Division
<1> HIDE DEF q, r, s, t
<1>3. a * q = (d * s) + (a * t)
    BY <1>2
<1>4. a * t \in Nat /\ a * t <= d - a /\ d \in Nat \ {0}
    <2>1. a * t <= a * (b - 1) /\ a * (b - 1) = (a * b) - a
        BY <1>2
    <2> QED
        BY <1>2, <2>1
<1>5. n = (d * s) + e /\ e \in 0..d-1
    BY <1>1, <1>2, <1>3, <1>4
<1> HIDE DEF d, e
<1>6. n \div d = s
    BY <1>2, <1>4, <1>5, DivisionIs
<1> QED
    BY <1>6 DEF d, s, q

LEMMA BaseIsPositive ==
    /\ Base \in Nat \ {0} /\ Base > 1
    /\ Base * Base \in Nat \ {0}
    /\ Base * Base * Base \in Nat \ {0}
    /\ Word \in Nat \ {0} /\ Word >= 16
    /\ Word = Base * (Base * (Base * Base))
    /\ Cap \in Nat \ {0} /\ Cap + 1 < Word \div 2 /\ Cap + 1 < Word
<1>1. Base \in Nat \ {0} /\ Base > 1
    BY FramingAssumption
<1>2. Base * Base \in Nat /\ Base * Base >= 4
    BY <1>1
<1>3. Base * Base * Base = Base * (Base * Base) /\ Base * Base * Base \in Nat /\ Base * Base * Base >= 8
    BY <1>1, <1>2
<1>4. Word = Base * (Base * (Base * Base)) /\ Word \in Nat /\ Word >= 16
    BY <1>1, <1>2, <1>3 DEF Word
<1>5. Cap \in Nat \ {0} /\ Cap + 1 < Word \div 2
    BY FramingAssumption DEF Word
<1>6. Word \div 2 <= Word
    BY <1>4
<1> QED
    BY <1>1, <1>2, <1>3, <1>4, <1>5, <1>6

LEMMA DigitsAreBytes ==
    ASSUME NEW n \in Nat
    PROVE  /\ Le32(n) \in Seq(Bytes) /\ Len(Le32(n)) = 4
           /\ Le32(n)[1] = n % Base
           /\ Le32(n)[2] = (n \div Base) % Base
           /\ Le32(n)[3] = (n \div (Base * Base)) % Base
           /\ Le32(n)[4] = (n \div (Base * Base * Base)) % Base
<1>1. n % Base \in Bytes
    BY BaseIsPositive, Division DEF Bytes
<1>2. (n \div Base) % Base \in Bytes
    BY BaseIsPositive, Division DEF Bytes
<1>3. (n \div (Base * Base)) % Base \in Bytes
    <2> DEFINE d == Base * Base
    <2>1. d \in Nat \ {0}
        BY BaseIsPositive
    <2> HIDE DEF d
    <2>2. (n \div d) % Base \in Bytes
        BY <2>1, BaseIsPositive, Division DEF Bytes
    <2> QED
        BY <2>2 DEF d
<1>4. (n \div (Base * Base * Base)) % Base \in Bytes
    <2> DEFINE d == Base * Base * Base
    <2>1. d \in Nat \ {0}
        BY BaseIsPositive
    <2> HIDE DEF d
    <2>2. (n \div d) % Base \in Bytes
        BY <2>1, BaseIsPositive, Division DEF Bytes
    <2> QED
        BY <2>2 DEF d
<1> QED
    BY <1>1, <1>2, <1>3, <1>4 DEF Le32

(* What the four digits of a number are read as. *)
LEMMA DigitsReadBack ==
    ASSUME NEW n \in Nat, n < Word, NEW b,
           \A k \in 1..4 : b[k] = Le32(n)[k]
    PROVE  ReadLe32(b) = n
<1> DEFINE q1 == n \div Base
           q2 == q1 \div Base
           q3 == q2 \div Base
           r0 == n % Base
           r1 == q1 % Base
           r2 == q2 % Base
<1>0. Base \in Nat \ {0}
    BY FramingAssumption
<1>1. q1 \in Nat /\ r0 \in 0..Base-1 /\ n = (Base * q1) + r0
    BY <1>0, Division
<1>2. q2 \in Nat /\ r1 \in 0..Base-1 /\ q1 = (Base * q2) + r1
    BY <1>0, <1>1, Division
<1>3. q3 \in Nat /\ r2 \in 0..Base-1 /\ q2 = (Base * q3) + r2
    BY <1>0, <1>2, Division
<1>4. n \div (Base * Base) = q2
    BY BaseIsPositive, DivideTwice
<1>5. n \div (Base * Base * Base) = q3
    <2> DEFINE d == Base * Base
    <2>1. d \in Nat \ {0} /\ n \div d = q2
        BY <1>4, BaseIsPositive
    <2> HIDE DEF d, q2
    <2>2. n \div (d * Base) = (n \div d) \div Base
        BY <2>1, BaseIsPositive, DivideTwice
    <2> QED
        BY <2>1, <2>2 DEF d
<1>6. b[1] = r0 /\ b[2] = r1 /\ b[3] = r2 /\ b[4] = q3 % Base
    <2>1. Le32(n)[1] = r0 /\ Le32(n)[2] = r1 /\ Le32(n)[3] = q2 % Base /\ Le32(n)[4] = q3 % Base
        BY <1>4, <1>5, DigitsAreBytes
    <2> HIDE DEF r0, r1, q2, q3
    <2> QED
        BY <2>1 DEF r2
<1> HIDE DEF q1, q2, q3, r0, r1, r2
<1>7. n = (Base * (Base * (Base * q3))) + (Base * (Base * r2)) + (Base * r1) + r0
    <2>1. Base * q2 = (Base * (Base * q3)) + (Base * r2)
        BY <1>3, BaseIsPositive
    <2>2. Base * q1 = (Base * (Base * q2)) + (Base * r1)
        BY <1>2, BaseIsPositive
    <2>3. Base * (Base * q2) = (Base * (Base * (Base * q3))) + (Base * (Base * r2))
        BY <1>3, <2>1, BaseIsPositive
    <2> QED
        BY <1>1, <1>2, <1>3, <2>2, <2>3, BaseIsPositive
<1>8. q3 \in 0..Base-1
    <2> SUFFICES ASSUME q3 >= Base PROVE FALSE
        BY <1>3, BaseIsPositive
    <2>1. Base * q3 >= Base * Base
        BY <1>3, BaseIsPositive
    <2>2. Base * (Base * q3) >= Base * (Base * Base)
        BY <1>3, <2>1, BaseIsPositive
    <2>3. Base * (Base * (Base * q3)) >= Word
        BY <1>3, <2>2, BaseIsPositive
    <2>4. Base * (Base * r2) \in Nat /\ Base * r1 \in Nat
        BY <1>2, <1>3, BaseIsPositive
    <2> QED
        BY <1>1, <1>3, <1>7, <2>3, <2>4, BaseIsPositive
<1>9. q3 % Base = q3
    BY <1>8, BaseIsPositive
<1>10. /\ r1 * Base = Base * r1
       /\ r2 * (Base * Base) = Base * (Base * r2)
       /\ q3 * (Base * Base * Base) = Base * (Base * (Base * q3))
    BY <1>2, <1>3, BaseIsPositive
<1>11. ReadLe32(b) = r0 + (Base * r1) + (Base * (Base * r2)) + (Base * (Base * (Base * q3)))
    BY <1>6, <1>9, <1>10 DEF ReadLe32
<1> QED
    <2>1. Base * r1 \in Nat /\ Base * (Base * r2) \in Nat /\ Base * (Base * (Base * q3)) \in Nat
        BY <1>2, <1>3, BaseIsPositive
    <2> QED
        BY <1>1, <1>7, <1>11, <2>1

-----------------------------------------------------------------------------
(* Frames *)

LEMMA MessageIs ==
    ASSUME NEW m \in Messages
    PROVE  /\ m = [type |-> m.type, payload |-> m.payload]
           /\ m.type \in {0, 1} /\ m.type \in Bytes
           /\ m.payload \in Seq(Bytes)
           /\ Len(m.payload) \in Nat /\ Len(m.payload) <= Cap
<1>1. PICK t \in {0, 1}, n \in Lens :
         m = [type |-> t, payload |-> [i \in 1..n |-> (t + i) % Base]]
    BY DEF Messages
<1>2. n \in Nat /\ n <= Cap
    BY FramingAssumption
<1>3. t \in Bytes
    BY FramingAssumption DEF Bytes
<1>4. \A i \in 1..n : (t + i) % Base \in Bytes
    <2> SUFFICES ASSUME NEW i \in 1..n PROVE (t + i) % Base \in Bytes
        OBVIOUS
    <2>1. t + i \in Nat /\ Base \in Nat \ {0}
        BY <1>2, FramingAssumption
    <2> QED
        BY <2>1, Division DEF Bytes
<1>5. m.payload = [i \in 1..n |-> (t + i) % Base] /\ m.type = t
    BY <1>1
<1>6. m.payload \in Seq(Bytes) /\ Len(m.payload) = n
    BY <1>2, <1>4, <1>5
<1> QED
    BY <1>1, <1>2, <1>3, <1>5, <1>6

LEMMA Joined ==
    ASSUME NEW a \in Seq(Bytes), NEW b \in Seq(Bytes), NEW c \in Seq(Bytes)
    PROVE  /\ (a \o b) \o c \in Seq(Bytes)
           /\ Len((a \o b) \o c) = Len(a) + Len(b) + Len(c)
           /\ \A k \in 1..Len(a) : ((a \o b) \o c)[k] = a[k]
           /\ \A k \in 1..Len(b) : ((a \o b) \o c)[Len(a) + k] = b[k]
           /\ \A k \in 1..Len(c) : ((a \o b) \o c)[Len(a) + Len(b) + k] = c[k]
<1> DEFINE ab == a \o b
           abc == ab \o c
<1>1. Len(a) \in Nat /\ Len(b) \in Nat /\ Len(c) \in Nat
    OBVIOUS
<1>2. /\ ab \in Seq(Bytes) /\ Len(ab) = Len(a) + Len(b)
      /\ \A k \in 1..Len(a) + Len(b) : ab[k] = IF k <= Len(a) THEN a[k] ELSE b[k - Len(a)]
    BY ConcatProperties, Zenon
<1>3. /\ abc \in Seq(Bytes) /\ Len(abc) = Len(ab) + Len(c)
      /\ \A k \in 1..Len(ab) + Len(c) : abc[k] = IF k <= Len(ab) THEN ab[k] ELSE c[k - Len(ab)]
    <2>1. ab \in Seq(Bytes)
        BY <1>2
    <2> HIDE DEF ab
    <2> QED
        BY <2>1, ConcatProperties
<1> HIDE DEF ab, abc
<1>4. ASSUME NEW k \in 1..Len(a) PROVE abc[k] = a[k]
    <2>1. k \in 1..Len(ab) + Len(c) /\ k <= Len(ab) /\ k \in 1..Len(a) + Len(b) /\ k <= Len(a)
        BY <1>1, <1>2
    <2> QED
        BY <1>2, <1>3, <2>1
<1>5. ASSUME NEW k \in 1..Len(b) PROVE abc[Len(a) + k] = b[k]
    <2> DEFINE l == Len(a) + k
    <2>1. l \in 1..Len(ab) + Len(c) /\ l <= Len(ab) /\ l \in 1..Len(a) + Len(b)
          /\ ~(l <= Len(a)) /\ l - Len(a) = k
        BY <1>1, <1>2
    <2> HIDE DEF l
    <2>2. abc[l] = b[k]
        BY <1>2, <1>3, <2>1
    <2> QED
        BY <2>2 DEF l
<1>6. ASSUME NEW k \in 1..Len(c) PROVE abc[Len(a) + Len(b) + k] = c[k]
    <2> DEFINE l == Len(a) + Len(b) + k
    <2>1. l \in 1..Len(ab) + Len(c) /\ ~(l <= Len(ab)) /\ l - Len(ab) = k
        BY <1>1, <1>2
    <2> HIDE DEF l
    <2>2. abc[l] = c[k]
        BY <1>3, <2>1
    <2> QED
        BY <2>2 DEF l
<1> QED
    BY <1>2, <1>3, <1>4, <1>5, <1>6 DEF abc, ab

(* The length before the payload is a number four digits hold. *)
LEMMA FrameIs ==
    ASSUME NEW m \in Messages
    PROVE  /\ EncodeFrame(m) \in Seq(Bytes)
           /\ Len(EncodeFrame(m)) = 5 + Len(m.payload)
           /\ \A k \in 1..4 : EncodeFrame(m)[k] = Le32(1 + Len(m.payload))[k]
           /\ EncodeFrame(m)[5] = m.type
           /\ \A k \in 1..Len(m.payload) : EncodeFrame(m)[5 + k] = m.payload[k]
<1> DEFINE p == m.payload
           d == Le32(1 + Len(p))
           t == <<m.type>>
           f == (d \o t) \o p
<1>1. p \in Seq(Bytes) /\ t \in Seq(Bytes) /\ Len(t) = 1 /\ t[1] = m.type /\ Len(p) \in Nat
    BY MessageIs
<1>2. d \in Seq(Bytes) /\ Len(d) = 4
    BY <1>1, DigitsAreBytes
<1>3. EncodeFrame(m) = f
    BY DEF EncodeFrame
<1> HIDE DEF p, d, t
<1>4. /\ f \in Seq(Bytes) /\ Len(f) = Len(d) + Len(t) + Len(p)
      /\ \A k \in 1..Len(d) : f[k] = d[k]
      /\ \A k \in 1..Len(t) : f[Len(d) + k] = t[k]
      /\ \A k \in 1..Len(p) : f[Len(d) + Len(t) + k] = p[k]
    BY <1>1, <1>2, Joined, ZenonT(60)
<1> HIDE DEF f
<1>5. 1 \in 1..1 /\ 4 + 1 = 5
    OBVIOUS
<1>6. /\ f \in Seq(Bytes) /\ Len(f) = 5 + Len(p)
      /\ \A k \in 1..4 : f[k] = d[k]
      /\ f[5] = m.type
      /\ \A k \in 1..Len(p) : f[5 + k] = p[k]
    BY <1>1, <1>2, <1>4, <1>5
<1> QED
    BY <1>3, <1>6 DEF d, p

LEMMA RawIs ==
    ASSUME NEW m \in Messages
    PROVE  /\ EncodeRaw(m) \in Seq(Bytes)
           /\ Len(EncodeRaw(m)) = 8 + Len(m.payload)
           /\ \A k \in 1..4 : EncodeRaw(m)[k] = Le32(m.type)[k]
           /\ \A k \in 1..4 : EncodeRaw(m)[4 + k] = Le32(Len(m.payload))[k]
           /\ \A k \in 1..Len(m.payload) : EncodeRaw(m)[8 + k] = m.payload[k]
<1> DEFINE p == m.payload
           d == Le32(Len(p))
           t == Le32(m.type)
           f == (t \o d) \o p
<1>1. p \in Seq(Bytes) /\ Len(p) \in Nat /\ m.type \in Nat
    BY MessageIs
<1>2. d \in Seq(Bytes) /\ Len(d) = 4 /\ t \in Seq(Bytes) /\ Len(t) = 4
    BY <1>1, DigitsAreBytes
<1>3. EncodeRaw(m) = f
    BY DEF EncodeRaw
<1> HIDE DEF p, d, t
<1>4. /\ f \in Seq(Bytes) /\ Len(f) = Len(t) + Len(d) + Len(p)
      /\ \A k \in 1..Len(t) : f[k] = t[k]
      /\ \A k \in 1..Len(d) : f[Len(t) + k] = d[k]
      /\ \A k \in 1..Len(p) : f[Len(t) + Len(d) + k] = p[k]
    BY <1>1, <1>2, Joined, ZenonT(60)
<1> HIDE DEF f
<1>5. /\ f \in Seq(Bytes) /\ Len(f) = 8 + Len(p)
      /\ \A k \in 1..4 : f[k] = t[k]
      /\ \A k \in 1..4 : f[4 + k] = d[k]
      /\ \A k \in 1..Len(p) : f[8 + k] = p[k]
    BY <1>1, <1>2, <1>4
<1> QED
    BY <1>3, <1>5 DEF t, d, p

LEMMA EncodeIs ==
    ASSUME NEW m \in Messages
    PROVE  /\ Encode(m) \in Seq(Bytes)
           /\ Len(Encode(m)) = (IF reader = "discord" THEN 8 ELSE 5) + Len(m.payload)
           /\ Len(Encode(m)) \in Nat \ {0}
<1>1. Len(m.payload) \in Nat
    BY MessageIs
<1>2. CASE reader = "discord"
    BY <1>1, <1>2, RawIs DEF Encode
<1>3. CASE reader # "discord"
    BY <1>1, <1>3, FrameIs DEF Encode
<1> QED
    BY <1>2, <1>3

(* A payload cut out of a buffer that holds it. *)
LEMMA PayloadCutOut ==
    ASSUME NEW p \in Seq(Bytes), NEW b \in Seq(Bytes), NEW h \in Nat, h + Len(p) <= Len(b),
           \A k \in 1..Len(p) : b[h + k] = p[k]
    PROVE  SubSeq(b, h + 1, h + Len(p)) = p
<1> DEFINE s == SubSeq(b, h + 1, h + Len(p))
<1>1. Len(p) \in Nat /\ Len(b) \in Nat
    OBVIOUS
<1>2. \A i \in h + 1 .. h + Len(p) : b[i] \in Bytes
    BY <1>1
<1>3. /\ s \in Seq(Bytes) /\ Len(s) = Len(p)
      /\ \A i \in 1..Len(p) : s[i] = b[h + 1 + i - 1]
    BY <1>1, <1>2, SubSeqProperties
<1>4. \A i \in 1..Len(p) : s[i] = p[i]
    BY <1>1, <1>3
<1> HIDE DEF s
<1>5. s = p
    BY <1>3, <1>4, SeqEqual
<1> QED
    BY <1>5 DEF s

(* try_decode_frame on the front of a frame, or on more. *)
LEMMA TryDecodeReadsFrame ==
    ASSUME NEW m \in Messages, NEW b \in Seq(Bytes),
           \A k \in 1..Len(EncodeFrame(m)) : k <= Len(b) => b[k] = EncodeFrame(m)[k]
    PROVE  \/ TryDecodeFrame(b) = More /\ Len(b) < Len(EncodeFrame(m))
           \/ TryDecodeFrame(b) = Illegal /\ 1 + Len(m.payload) > Cap
           \/ /\ TryDecodeFrame(b) = Peeled(m.type, m.payload, Len(EncodeFrame(m)))
              /\ Len(b) >= Len(EncodeFrame(m))
<1> DEFINE n == Len(m.payload)
<1>1. n \in Nat /\ n <= Cap /\ m.payload \in Seq(Bytes) /\ Len(b) \in Nat
    BY MessageIs
<1>2. /\ Len(EncodeFrame(m)) = 5 + n
      /\ \A k \in 1..4 : EncodeFrame(m)[k] = Le32(1 + n)[k]
      /\ EncodeFrame(m)[5] = m.type
      /\ \A k \in 1..n : EncodeFrame(m)[5 + k] = m.payload[k]
    BY FrameIs, Zenon
<1> HIDE DEF n
<1>3. CASE Len(b) < 4
    BY <1>1, <1>2, <1>3 DEF TryDecodeFrame
<1>4. CASE Len(b) >= 4
    <2>1. ReadLe32(b) = 1 + n
        <3>1. \A k \in 1..4 : b[k] = Le32(1 + n)[k]
            BY <1>1, <1>2, <1>4
        <3>2. 1 + n \in Nat /\ 1 + n < Word
            BY <1>1, BaseIsPositive
        <3> QED
            BY <3>1, <3>2, DigitsReadBack
    <2>2. TryDecodeFrame(b) =
             IF 1 + n < 1 \/ 1 + n > Cap THEN Illegal
             ELSE IF Len(b) < 4 + (1 + n) THEN More
             ELSE Peeled(b[5], SubSeq(b, 6, 4 + (1 + n)), 4 + (1 + n))
        BY <1>1, <1>4, <2>1 DEF TryDecodeFrame
    <2>3. CASE 1 + n > Cap
        BY <2>2, <2>3 DEF n
    <2>4. CASE 1 + n <= Cap /\ Len(b) < 5 + n
        BY <1>1, <1>2, <2>2, <2>4, FramingAssumption
    <2>5. CASE 1 + n <= Cap /\ Len(b) >= 5 + n
        <3>1. TryDecodeFrame(b) = Peeled(b[5], SubSeq(b, 6, 5 + n), 5 + n)
            BY <1>1, <2>2, <2>5, FramingAssumption
        <3>2. b[5] = m.type /\ \A k \in 1..n : b[5 + k] = m.payload[k]
            <4>1. 5 \in 1..5 + n /\ 5 <= Len(b)
                BY <1>1, <2>5
            <4>2. b[5] = m.type
                BY <1>2, <4>1, Zenon
            <4>3. ASSUME NEW k \in 1..n PROVE b[5 + k] = m.payload[k]
                <5>1. 5 + k \in 1..5 + n /\ 5 + k <= Len(b)
                    BY <1>1, <2>5
                <5>2. b[5 + k] = EncodeFrame(m)[5 + k]
                    BY <1>2, <5>1, Zenon
                <5> QED
                    BY <1>2, <5>2, Zenon
            <4> QED
                BY <4>2, <4>3
        <3>3. SubSeq(b, 5 + 1, 5 + n) = m.payload
            BY <1>1, <2>5, <3>2, PayloadCutOut DEF n
        <3>4. SubSeq(b, 6, 5 + n) = m.payload
            BY <3>3
        <3> QED
            BY <1>2, <2>5, <3>1, <3>2, <3>4
    <2> QED
        BY <1>1, <2>3, <2>4, <2>5, FramingAssumption
<1> QED
    BY <1>1, <1>3, <1>4

(* peel_one likewise: no length that fits the cap is refused. *)
LEMMA PeelOneReadsFrame ==
    ASSUME NEW m \in Messages, NEW b \in Seq(Bytes),
           \A k \in 1..Len(EncodeRaw(m)) : k <= Len(b) => b[k] = EncodeRaw(m)[k]
    PROVE  \/ PeelOne(b) = More /\ Len(b) < Len(EncodeRaw(m))
           \/ /\ PeelOne(b) = Peeled(m.type, m.payload, Len(EncodeRaw(m)))
              /\ Len(b) >= Len(EncodeRaw(m))
<1> DEFINE n == Len(m.payload)
<1>1. n \in Nat /\ n <= Cap /\ m.payload \in Seq(Bytes) /\ m.type \in {0, 1} /\ Len(b) \in Nat
    BY MessageIs
<1>2. /\ Len(EncodeRaw(m)) = 8 + n
      /\ \A k \in 1..4 : EncodeRaw(m)[k] = Le32(m.type)[k]
      /\ \A k \in 1..4 : EncodeRaw(m)[4 + k] = Le32(n)[k]
      /\ \A k \in 1..n : EncodeRaw(m)[8 + k] = m.payload[k]
    BY RawIs, Zenon
<1> HIDE DEF n
<1>3. CASE Len(b) < 8
    BY <1>1, <1>2, <1>3 DEF PeelOne
<1>4. CASE Len(b) >= 8
    <2> DEFINE half == Word \div 2
    <2>0. half \in Nat /\ n < half /\ m.type < half /\ n < Word /\ m.type < Word
        <3>1. Word \in Nat /\ Word >= 16 /\ Cap + 1 < Word \div 2 /\ Cap + 1 < Word /\ Cap \in Nat
            BY BaseIsPositive
        <3>2. Word \div 2 \in Nat /\ Word \div 2 >= 8
            BY <3>1
        <3> QED
            BY <1>1, <3>1, <3>2
    <2>1. ReadLe32(b) = m.type
        <3>1. \A k \in 1..4 : b[k] = Le32(m.type)[k]
            <4>1. \A k \in 1..4 : k \in 1..8 + n
                BY <1>1
            <4> QED
                BY <1>1, <1>2, <1>4, <4>1
        <3> QED
            BY <1>1, <2>0, <3>1, DigitsReadBack
    <2>2. ReadLe32(SubSeq(b, 5, 8)) = n
        <3>1. \A i \in 5..8 : b[i] \in Bytes
            BY <1>1, <1>4
        <3>2. \A k \in 1..4 : SubSeq(b, 5, 8)[k] = b[5 + k - 1]
            BY <3>1, SubSeqProperties
        <3>3. \A k \in 1..4 : b[4 + k] = Le32(n)[k]
            <4>1. \A k \in 1..4 : 4 + k \in 1..8 + n
                BY <1>1
            <4> QED
                BY <1>1, <1>2, <1>4, <4>1
        <3>4. \A k \in 1..4 : SubSeq(b, 5, 8)[k] = Le32(n)[k]
            BY <3>2, <3>3
        <3> QED
            BY <1>1, <2>0, <3>4, DigitsReadBack
    <2>3. Signed(m.type) = m.type /\ Signed(n) = n
        BY <1>1, <2>0 DEF Signed
    <2>4. PeelOne(b) =
             IF Len(b) < 8 + n THEN More ELSE Peeled(m.type, SubSeq(b, 9, 8 + n), 8 + n)
        BY <1>1, <1>4, <2>1, <2>2, <2>3, FramingAssumption DEF PeelOne
    <2>5. CASE Len(b) < 8 + n
        BY <1>2, <2>4, <2>5
    <2>6. CASE Len(b) >= 8 + n
        <3>1. \A k \in 1..n : b[8 + k] = m.payload[k]
            <4> TAKE k \in 1..n
            <4>1. 8 + k \in 1..8 + n /\ 8 + k <= Len(b)
                BY <1>1, <2>6
            <4>2. b[8 + k] = EncodeRaw(m)[8 + k]
                BY <1>2, <4>1, Zenon
            <4> QED
                BY <1>2, <4>2, Zenon
        <3>2. SubSeq(b, 8 + 1, 8 + n) = m.payload
            BY <1>1, <2>6, <3>1, PayloadCutOut DEF n
        <3>3. SubSeq(b, 9, 8 + n) = m.payload
            BY <3>2
        <3>4. ~(Len(b) < 8 + n)
            BY <1>1, <2>6
        <3>5. PeelOne(b) = Peeled(m.type, m.payload, 8 + n)
            BY <2>4, <3>3, <3>4, Zenon
        <3> QED
            BY <1>2, <2>6, <3>5
    <2> QED
        BY <1>1, <2>5, <2>6
<1> QED
    BY <1>1, <1>3, <1>4

(* Either reader's peeling. *)
LEMMA DecodeReadsFrame ==
    ASSUME NEW m \in Messages, NEW b \in Seq(Bytes),
           \A k \in 1..Len(Encode(m)) : k <= Len(b) => b[k] = Encode(m)[k]
    PROVE  \/ Decode(b) = More /\ Len(b) < Len(Encode(m))
           \/ Decode(b) = Illegal /\ reader # "discord" /\ 1 + Len(m.payload) > Cap
           \/ Decode(b) = Peeled(m.type, m.payload, Len(Encode(m))) /\ Len(b) >= Len(Encode(m))
    BY TryDecodeReadsFrame, PeelOneReadsFrame DEF Decode, Encode

LEMMA NothingToDecode == Decode(<<>>) = More
    BY DEF Decode, TryDecodeFrame, PeelOne

-----------------------------------------------------------------------------
(* Frames one after the other *)

(* e[i] is where the i-th of the frames f ends, counted from the end of    *)
(* the g-th.                                                               *)
Ends(e, g, f) ==
    /\ e \in [g..Len(f) -> Nat] /\ e[g] = 0
    /\ \A i \in g + 1 .. Len(f) : e[i] = e[i - 1] + Len(f[i])
    /\ \A i, j \in g..Len(f) : i <= j => e[i] <= e[j]

(* The bytes s, cut at e, are the frames after the g-th. *)
Cut(e, g, f, s) ==
    /\ Ends(e, g, f) /\ e[Len(f)] = Len(s)
    /\ \A i \in g + 1 .. Len(f) : \A k \in 1..Len(f[i]) : s[e[i - 1] + k] = f[i][k]

Holds(g, f, s) == \E e : Cut(e, g, f, s)

LEMMA EndsAreBounded ==
    ASSUME NEW f \in Seq(Seq(Bytes)), NEW g \in 0..Len(f), NEW e, Ends(e, g, f),
           NEW i \in g..Len(f)
    PROVE  e[i] \in Nat /\ e[Len(f)] \in Nat /\ e[i] <= e[Len(f)]
<1>1. Len(f) \in g..Len(f) /\ i <= Len(f)
    OBVIOUS
<1> QED
    BY <1>1 DEF Ends

LEMMA EndsStep ==
    ASSUME NEW f \in Seq(Seq(Bytes)), NEW g \in 0..Len(f), NEW e, Ends(e, g, f),
           NEW i \in g + 1 .. Len(f)
    PROVE  /\ i \in g..Len(f) /\ i - 1 \in g..Len(f) /\ i \in 1..Len(f)
           /\ f[i] \in Seq(Bytes) /\ Len(f[i]) \in Nat
           /\ e[i] = e[i - 1] + Len(f[i])
<1>1. i \in g..Len(f) /\ i - 1 \in g..Len(f) /\ i \in 1..Len(f)
    OBVIOUS
<1>2. f[i] \in Seq(Bytes)
    BY <1>1
<1>3. Len(f[i]) \in Nat
    BY <1>2
<1>4. e[i] = e[i - 1] + Len(f[i])
    BY Zenon DEF Ends
<1> QED
    BY <1>1, <1>2, <1>3, <1>4

(* Another frame. *)
LEMMA EndsAppend ==
    ASSUME NEW f \in Seq(Seq(Bytes)), NEW g \in 0..Len(f), NEW x \in Seq(Bytes),
           NEW e, Ends(e, g, f)
    PROVE  LET n == Len(f) + 1
               d == [i \in g..n |-> IF i = n THEN e[Len(f)] + Len(x) ELSE e[i]]
           IN  Ends(d, g, Append(f, x)) /\ d[n] = e[Len(f)] + Len(x)
<1> DEFINE n == Len(f) + 1
           h == Append(f, x)
           d == [i \in g..n |-> IF i = n THEN e[Len(f)] + Len(x) ELSE e[i]]
<1>1. Len(f) \in Nat /\ Len(x) \in Nat /\ g \in Nat /\ g <= Len(f)
    OBVIOUS
<1>2. Len(h) = n /\ h[n] = x /\ \A i \in 1..Len(f) : h[i] = f[i]
    BY <1>1
<1>3. \A i \in g..Len(f) : e[i] \in Nat /\ e[i] <= e[Len(f)] /\ d[i] = e[i]
    <2> SUFFICES ASSUME NEW i \in g..Len(f)
                 PROVE  e[i] \in Nat /\ e[i] <= e[Len(f)] /\ d[i] = e[i]
        OBVIOUS
    <2>1. i \in g..n /\ i # n
        BY <1>1
    <2> QED
        BY <2>1, EndsAreBounded
<1>4. d[n] = e[Len(f)] + Len(x)
    BY <1>1
<1>5. d \in [g..n -> Nat]
    <2> SUFFICES ASSUME NEW i \in g..n
                 PROVE  (IF i = n THEN e[Len(f)] + Len(x) ELSE e[i]) \in Nat
        OBVIOUS
    <2>1. i = n \/ i \in g..Len(f)
        BY <1>1
    <2>2. Len(f) \in g..Len(f)
        BY <1>1
    <2>3. e[Len(f)] + Len(x) \in Nat
        <3>1. e[Len(f)] \in Nat
            BY <2>2, EndsAreBounded
        <3> QED
            BY <1>1, <3>1
    <2> QED
        BY <1>3, <2>1, <2>3
<1> HIDE DEF d, h
<1>6. ASSUME NEW i \in g + 1 .. n PROVE d[i] = d[i - 1] + Len(h[i])
    <2>1. CASE i = n
        <3>1. i - 1 \in g..Len(f) /\ i - 1 = Len(f)
            BY <1>1, <2>1
        <3> QED
            BY <1>2, <1>3, <1>4, <2>1, <3>1
    <2>2. CASE i # n
        <3>1. i \in g..Len(f) /\ i - 1 \in g..Len(f) /\ i \in 1..Len(f) /\ i \in g + 1 .. Len(f)
            BY <1>1, <2>2
        <3> QED
            BY <1>2, <1>3, <3>1 DEF Ends
    <2> QED
        BY <2>1, <2>2
<1>7. ASSUME NEW i \in g..n, NEW j \in g..n, i <= j PROVE d[i] <= d[j]
    <2>1. CASE j = n /\ i = n
        BY <1>1, <1>3, <1>4, <2>1
    <2>2. CASE j = n /\ i # n
        <3>1. i \in g..Len(f) /\ Len(f) \in g..Len(f)
            BY <1>1, <2>2
        <3>2. d[i] = e[i] /\ e[i] <= e[Len(f)] /\ e[i] \in Nat /\ e[Len(f)] \in Nat
            BY <1>3, <3>1
        <3> QED
            BY <1>1, <1>4, <2>2, <3>2
    <2>3. CASE j # n
        <3>1. i \in g..Len(f) /\ j \in g..Len(f)
            BY <1>1, <1>7, <2>3
        <3> QED
            BY <1>3, <1>7, <3>1 DEF Ends
    <2> QED
        BY <2>1, <2>2, <2>3
<1>8. g \in g..Len(f) /\ d[g] = 0
    BY <1>1, <1>3 DEF Ends
<1>9. Ends(d, g, h)
    BY <1>2, <1>5, <1>6, <1>7, <1>8 DEF Ends
<1> QED
    BY <1>4, <1>9 DEF d, h

LEMMA LengthGrows ==
    ASSUME NEW f \in Seq(Seq(Bytes)), NEW g \in 0..Len(f), NEW x \in Seq(Bytes), NEW c \in Nat,
           \E e : Ends(e, g, f) /\ e[Len(f)] > c
    PROVE  \E e : Ends(e, g, Append(f, x)) /\ e[Len(f) + 1] > c
<1>1. PICK e : Ends(e, g, f) /\ e[Len(f)] > c
    OBVIOUS
<1> DEFINE n == Len(f) + 1
           h == Append(f, x)
           d == [i \in g..n |-> IF i = n THEN e[Len(f)] + Len(x) ELSE e[i]]
<1>2. Ends(d, g, h) /\ d[n] = e[Len(f)] + Len(x)
    BY <1>1, EndsAppend, Zenon
<1>3. Len(f) \in g..Len(f) /\ Len(x) \in Nat
    OBVIOUS
<1>4. e[Len(f)] \in Nat
    BY <1>1, <1>3, EndsAreBounded
<1> HIDE DEF d, h
<1>5. d[n] > c
    BY <1>1, <1>2, <1>3, <1>4
<1> QED
    BY <1>2, <1>5 DEF h

LEMMA HoldsAppend ==
    ASSUME NEW f \in Seq(Seq(Bytes)), NEW g \in 0..Len(f), NEW s \in Seq(Bytes),
           NEW x \in Seq(Bytes), Holds(g, f, s)
    PROVE  Holds(g, Append(f, x), s \o x)
<1>1. PICK e : Cut(e, g, f, s)
    BY Zenon DEF Holds
<1> DEFINE n == Len(f) + 1
           h == Append(f, x)
           t == s \o x
           d == [i \in g..n |-> IF i = n THEN e[Len(f)] + Len(x) ELSE e[i]]
<1>2. Ends(d, g, h) /\ d[n] = e[Len(f)] + Len(x)
    BY <1>1, EndsAppend, ZenonT(60) DEF Cut
<1>3. Len(f) \in Nat /\ Len(x) \in Nat /\ Len(s) \in Nat /\ g \in Nat /\ g <= Len(f)
    OBVIOUS
<1>4. Len(h) = n /\ h[n] = x /\ \A i \in 1..Len(f) : h[i] = f[i]
    BY <1>3
<1>5. /\ Len(t) = Len(s) + Len(x)
      /\ \A k \in 1..Len(s) : t[k] = s[k]
      /\ \A k \in 1..Len(x) : t[Len(s) + k] = x[k]
    <2>1. /\ Len(t) = Len(s) + Len(x)
          /\ \A k \in 1..Len(s) + Len(x) : t[k] = IF k <= Len(s) THEN s[k] ELSE x[k - Len(s)]
        BY ConcatProperties
    <2> HIDE DEF t
    <2>2. ASSUME NEW k \in 1..Len(x) PROVE t[Len(s) + k] = x[k]
        <3> DEFINE l == Len(s) + k
        <3>1. l \in 1..Len(s) + Len(x) /\ ~(l <= Len(s)) /\ l - Len(s) = k
            BY <1>3
        <3> HIDE DEF l
        <3>2. t[l] = x[k]
            BY <2>1, <3>1
        <3> QED
            BY <3>2 DEF l
    <2> QED
        BY <1>3, <2>1, <2>2
<1>7. e[Len(f)] = Len(s) /\ Ends(e, g, f)
    BY <1>1 DEF Cut
<1>6. \A i \in g..Len(f) : d[i] = e[i] /\ e[i] \in Nat /\ e[i] <= Len(s)
    <2> SUFFICES ASSUME NEW i \in g..Len(f)
                 PROVE  d[i] = e[i] /\ e[i] \in Nat /\ e[i] <= Len(s)
        OBVIOUS
    <2>1. i \in g..n /\ i # n
        BY <1>3
    <2> QED
        BY <1>7, <2>1, EndsAreBounded
<1> HIDE DEF d, h, t
<1>8. ASSUME NEW i \in g + 1 .. n, NEW k \in 1..Len(h[i])
      PROVE  t[d[i - 1] + k] = h[i][k]
    <2>1. CASE i = n
        <3>1. i - 1 \in g..Len(f) /\ i - 1 = Len(f)
            BY <1>3, <2>1
        <3> QED
            BY <1>4, <1>5, <1>6, <1>7, <1>8, <2>1, <3>1, ZenonT(60)
    <2>2. CASE i # n
        <3>1. i \in g..Len(f) /\ i - 1 \in g..Len(f) /\ i \in 1..Len(f) /\ i \in g + 1 .. Len(f)
            BY <1>3, <2>2
        <3>2. h[i] = f[i] /\ d[i - 1] = e[i - 1] /\ e[i] \in Nat /\ e[i] <= Len(s) /\ e[i - 1] \in Nat
            BY <1>4, <1>6, <3>1
        <3>3. e[i] = e[i - 1] + Len(f[i]) /\ Len(f[i]) \in Nat
            BY <1>7, <3>1, EndsStep
        <3>4. s[e[i - 1] + k] = f[i][k]
            BY <1>1, <1>8, <3>1, <3>2 DEF Cut
        <3>5. e[i - 1] + k \in 1..Len(s)
            <4> DEFINE l == Len(f[i])
            <4>1. k \in 1..l /\ l \in Nat /\ e[i] = e[i - 1] + l
                BY <1>8, <3>2, <3>3
            <4> HIDE DEF l
            <4> QED
                BY <1>3, <3>2, <4>1, SMTT(30)
        <3> QED
            BY <1>5, <3>2, <3>4, <3>5
    <2> QED
        BY <2>1, <2>2
<1>9. Cut(d, g, h, t)
    BY <1>2, <1>4, <1>5, <1>7, <1>8 DEF Cut
<1> QED
    BY <1>9 DEF Holds, h, t

(* The next frame is at the front. *)
LEMMA HoldsFirst ==
    ASSUME NEW f \in Seq(Seq(Bytes)), NEW g \in 0..Len(f) - 1, NEW s \in Seq(Bytes),
           Holds(g, f, s)
    PROVE  /\ g + 1 \in 1..Len(f) /\ f[g + 1] \in Seq(Bytes)
           /\ Len(f[g + 1]) <= Len(s)
           /\ \A k \in 1..Len(f[g + 1]) : s[k] = f[g + 1][k]
<1>1. PICK e : Cut(e, g, f, s)
    BY Zenon DEF Holds
<1>2. /\ Len(f) \in Nat /\ g \in Nat /\ g + 1 \in g + 1 .. Len(f) /\ (g + 1) - 1 = g
      /\ g + 1 \in 1..Len(f) /\ g + 1 \in g..Len(f) /\ Len(f) \in g..Len(f) /\ g + 1 <= Len(f)
    OBVIOUS
<1>3. f[g + 1] \in Seq(Bytes) /\ Len(f[g + 1]) \in Nat
    BY <1>2
<1>4. e[g] = 0 /\ e[g + 1] = Len(f[g + 1]) /\ e[g + 1] <= Len(s)
    BY <1>1, <1>2, <1>3 DEF Cut, Ends
<1>5. \A k \in 1..Len(f[g + 1]) : s[e[(g + 1) - 1] + k] = f[g + 1][k]
    BY <1>1, <1>2, Zenon DEF Cut
<1>6. ASSUME NEW k \in 1..Len(f[g + 1]) PROVE s[k] = f[g + 1][k]
    <2>1. s[e[g] + k] = f[g + 1][k]
        BY <1>2, <1>5
    <2>2. e[g] + k = k
        BY <1>3, <1>4
    <2> QED
        BY <2>1, <2>2
<1> QED
    BY <1>2, <1>3, <1>4, <1>6

(* It is taken off. *)
LEMMA HoldsRest ==
    ASSUME NEW f \in Seq(Seq(Bytes)), NEW g \in 0..Len(f) - 1, NEW s \in Seq(Bytes),
           Holds(g, f, s)
    PROVE  Holds(g + 1, f, SubSeq(s, Len(f[g + 1]) + 1, Len(s)))
<1>1. PICK e : Cut(e, g, f, s)
    BY Zenon DEF Holds
<1> DEFINE c == Len(f[g + 1])
           t == SubSeq(s, c + 1, Len(s))
           d == [i \in g + 1 .. Len(f) |-> e[i] - c]
<1>2. /\ Len(f) \in Nat /\ g \in Nat /\ Len(s) \in Nat /\ g + 1 \in g..Len(f)
      /\ g + 1 \in g + 1 .. Len(f) /\ (g + 1) - 1 = g /\ Len(f) \in g + 1 .. Len(f)
    OBVIOUS
<1>3. c \in Nat /\ c <= Len(s) /\ g \in 0..Len(f)
    BY <1>2, HoldsFirst
<1>4. e[g + 1] = c
    BY <1>1, <1>2, <1>3 DEF Cut, Ends
<1>5. ASSUME NEW i \in g + 1 .. Len(f) PROVE e[i] \in Nat /\ c <= e[i] /\ e[i] <= Len(s)
    <2>1. i \in g..Len(f) /\ g + 1 <= i /\ i <= Len(f) /\ Len(f) \in g..Len(f)
        BY <1>2
    <2> QED
        BY <1>1, <1>2, <1>4, <2>1 DEF Cut, Ends
<1>6. \A i \in g + 1 .. Len(f) : d[i] = e[i] - c /\ d[i] \in Nat
    BY <1>3, <1>5
<1>7. d \in [g + 1 .. Len(f) -> Nat]
    BY <1>3, <1>5
<1>8. /\ Len(t) = Len(s) - c
      /\ \A k \in 1..Len(s) - c : t[k] = s[c + k]
    <2> HIDE DEF c
    <2>1. \A i \in c + 1 .. Len(s) : s[i] \in Bytes
        BY <1>3
    <2>2. /\ Len(t) = IF c + 1 <= Len(s) THEN Len(s) - (c + 1) + 1 ELSE 0
          /\ \A k \in 1 .. Len(s) - (c + 1) + 1 : t[k] = s[(c + 1) + k - 1]
        BY <1>2, <1>3, <2>1, SubSeqProperties
    <2> HIDE DEF t
    <2> QED
        BY <1>2, <1>3, <2>2
<1> HIDE DEF c, d, t
<1>9. ASSUME NEW i \in (g + 1) + 1 .. Len(f)
      PROVE  /\ d[i] = d[i - 1] + Len(f[i])
             /\ \A k \in 1..Len(f[i]) : t[d[i - 1] + k] = f[i][k]
    <2> DEFINE l == Len(f[i])
    <2>1. i \in g + 1 .. Len(f) /\ i - 1 \in g + 1 .. Len(f)
        BY <1>2
    <2>2. l \in Nat /\ e[i] = e[i - 1] + l
        BY <1>1, <1>3, <2>1, EndsStep DEF Cut
    <2>3. \A k \in 1..l : s[e[i - 1] + k] = f[i][k]
        BY <1>1, <2>1 DEF Cut
    <2>4. e[i] \in Nat /\ e[i] <= Len(s) /\ e[i - 1] \in Nat /\ c <= e[i - 1]
          /\ d[i] = e[i] - c /\ d[i - 1] = e[i - 1] - c
        BY <1>5, <1>6, <2>1
    <2> HIDE DEF l
    <2>5. ASSUME NEW k \in 1..l PROVE t[d[i - 1] + k] = f[i][k]
        <3>1. d[i - 1] + k \in 1..Len(s) - c /\ c + (d[i - 1] + k) = e[i - 1] + k
            <4> DEFINE x == e[i - 1]
                       y == e[i]
                       z == d[i - 1]
            <4>1. /\ x \in Nat /\ y = x + l /\ z = x - c /\ c <= x /\ y <= Len(s)
                  /\ k \in 1..l /\ l \in Nat /\ c \in Nat /\ Len(s) \in Nat
                BY <1>2, <1>3, <2>2, <2>4
            <4> HIDE DEF x, y, z
            <4>2. z + k \in 1..Len(s) - c /\ c + (z + k) = x + k
                BY <4>1
            <4> QED
                BY <4>2 DEF x, z
        <3> QED
            BY <1>8, <2>3, <3>1
    <2>6. d[i] = d[i - 1] + l
        BY <1>3, <2>2, <2>4
    <2> QED
        BY <2>5, <2>6 DEF l
<1>10. ASSUME NEW i \in g + 1 .. Len(f), NEW j \in g + 1 .. Len(f), i <= j PROVE d[i] <= d[j]
    <2>1. i \in g..Len(f) /\ j \in g..Len(f)
        BY <1>2
    <2>2. e[i] <= e[j]
        BY <1>1, <1>10, <2>1 DEF Cut, Ends
    <2> QED
        BY <1>3, <1>5, <1>6, <2>2
<1>11. d[g + 1] = 0
    BY <1>2, <1>3, <1>4, <1>6
<1>12. d[Len(f)] = Len(t)
    BY <1>1, <1>2, <1>6, <1>8 DEF Cut
<1>13. Cut(d, g + 1, f, t)
    BY <1>7, <1>9, <1>10, <1>11, <1>12 DEF Cut, Ends
<1> QED
    BY <1>13 DEF Holds, t, c

(* All frames are out: nothing is left. *)
LEMMA HoldsNothing ==
    ASSUME NEW f \in Seq(Seq(Bytes)), NEW s \in Seq(Bytes), Holds(Len(f), f, s)
    PROVE  s = <<>>
<1>1. PICK e : Cut(e, Len(f), f, s)
    BY Zenon DEF Holds
<1>2. Len(s) = 0
    BY <1>1 DEF Cut, Ends
<1> QED
    BY <1>2

(* A first frame that is not the last. *)
LEMMA HoldsTwo ==
    ASSUME NEW f \in Seq(Seq(Bytes)), NEW g \in 0..Len(f) - 2, NEW s \in Seq(Bytes),
           Holds(g, f, s)
    PROVE  Len(f[g + 1]) + Len(f[Len(f)]) <= Len(s)
<1>1. PICK e : Cut(e, g, f, s)
    BY Zenon DEF Holds
<1> DEFINE n == Len(f)
<1>2. /\ n \in Nat /\ g \in Nat /\ g \in g..n /\ g + 1 \in g + 1 .. n /\ n \in g + 1 .. n
      /\ g + 1 \in g..n /\ n - 1 \in g..n /\ n \in g..n /\ g + 1 <= n - 1 /\ (g + 1) - 1 = g
      /\ g + 1 \in 1..n /\ n \in 1..n /\ g \in 0..n
    OBVIOUS
<1>3. Ends(e, g, f) /\ e[n] = Len(s)
    BY <1>1 DEF Cut
<1>4. /\ Len(f[g + 1]) \in Nat /\ e[g + 1] = e[(g + 1) - 1] + Len(f[g + 1])
      /\ Len(f[n]) \in Nat /\ e[n] = e[n - 1] + Len(f[n])
    BY <1>2, <1>3, EndsStep
<1>5. e[g] = 0 /\ e[g + 1] <= e[n - 1] /\ e[n - 1] \in Nat
    BY <1>2, <1>3 DEF Ends
<1>6. e[(g + 1) - 1] = 0
    BY <1>2, <1>5
<1> DEFINE a == Len(f[g + 1])
           b == Len(f[n])
           x == e[n - 1]
           y == e[g + 1]
<1>7. a \in Nat /\ b \in Nat /\ y = 0 + a /\ Len(s) = x + b /\ y <= x /\ x \in Nat
    BY <1>3, <1>4, <1>5, <1>6
<1> HIDE DEF a, b, x, y
<1>8. a + b <= Len(s)
    BY <1>7
<1> QED
    BY <1>8 DEF a, b

(* Cutting and moving bytes. *)
LEMMA SplitBytes ==
    ASSUME NEW s \in Seq(Bytes), NEW n \in 0..Len(s)
    PROVE  /\ SubSeq(s, 1, n) \in Seq(Bytes) /\ Len(SubSeq(s, 1, n)) = n
           /\ SubSeq(s, n + 1, Len(s)) \in Seq(Bytes)
           /\ Len(SubSeq(s, n + 1, Len(s))) = Len(s) - n
           /\ SubSeq(s, 1, n) \o SubSeq(s, n + 1, Len(s)) = s
<1>1. Len(s) \in Nat /\ n \in Nat /\ n <= Len(s) /\ 1 \in 1..Len(s) + 1 /\ n \in 0..Len(s)
      /\ n \in 1 - 1 .. Len(s) /\ Len(s) \in n..Len(s)
    OBVIOUS
<1>2. /\ \A i \in 1..n : s[i] \in Bytes
      /\ \A i \in n + 1 .. Len(s) : s[i] \in Bytes
    BY <1>1
<1>3. SubSeq(s, 1, n) \in Seq(Bytes) /\ Len(SubSeq(s, 1, n)) = n
    BY <1>1, <1>2, SubSeqProperties
<1>4. /\ SubSeq(s, n + 1, Len(s)) \in Seq(Bytes)
      /\ Len(SubSeq(s, n + 1, Len(s))) = Len(s) - n
    BY <1>1, <1>2, SubSeqProperties
<1>5. SubSeq(s, 1, n) \o SubSeq(s, n + 1, Len(s)) = SubSeq(s, 1, Len(s))
    BY <1>1, ConcatAdjacentSubSeq
<1>6. SubSeq(s, 1, Len(s)) = s
    BY SubSeqFull
<1> QED
    BY <1>3, <1>4, <1>5, <1>6

LEMMA ConcatBytes ==
    ASSUME NEW a \in Seq(Bytes), NEW b \in Seq(Bytes)
    PROVE  /\ a \o b \in Seq(Bytes) /\ Len(a \o b) = Len(a) + Len(b)
           /\ \A k \in 1..Len(a) + Len(b) :
                 (a \o b)[k] = IF k <= Len(a) THEN a[k] ELSE b[k - Len(a)]
    BY ConcatProperties

LEMMA MoveBytes ==
    ASSUME NEW a \in Seq(Bytes), NEW s \in Seq(Bytes), NEW c \in Seq(Bytes), NEW n \in 0..Len(s)
    PROVE  (a \o SubSeq(s, 1, n)) \o (SubSeq(s, n + 1, Len(s)) \o c) = a \o (s \o c)
<1> DEFINE x == SubSeq(s, 1, n)
           y == SubSeq(s, n + 1, Len(s))
           p == a \o x
           u == y \o c
           w == s \o c
           l == p \o u
           r == a \o w
<1>1. x \in Seq(Bytes) /\ y \in Seq(Bytes) /\ x \o y = s
    BY SplitBytes
<1> HIDE DEF x, y
<1>2. /\ Len(s) = Len(x) + Len(y)
      /\ \A k \in 1..Len(x) + Len(y) : s[k] = IF k <= Len(x) THEN x[k] ELSE y[k - Len(x)]
    <2>1. /\ Len(x \o y) = Len(x) + Len(y)
          /\ \A k \in 1..Len(x) + Len(y) : (x \o y)[k] = IF k <= Len(x) THEN x[k] ELSE y[k - Len(x)]
        BY <1>1, ConcatBytes, Zenon
    <2> QED
        BY <1>1, <2>1, Zenon
<1>3. /\ p \in Seq(Bytes) /\ Len(p) = Len(a) + Len(x)
      /\ \A k \in 1..Len(a) + Len(x) : p[k] = IF k <= Len(a) THEN a[k] ELSE x[k - Len(a)]
    BY <1>1, ConcatBytes, Zenon
<1>4. /\ u \in Seq(Bytes) /\ Len(u) = Len(y) + Len(c)
      /\ \A k \in 1..Len(y) + Len(c) : u[k] = IF k <= Len(y) THEN y[k] ELSE c[k - Len(y)]
    BY <1>1, ConcatBytes, Zenon
<1>5. /\ w \in Seq(Bytes) /\ Len(w) = Len(s) + Len(c)
      /\ \A k \in 1..Len(s) + Len(c) : w[k] = IF k <= Len(s) THEN s[k] ELSE c[k - Len(s)]
    BY ConcatBytes, Zenon
<1> HIDE DEF p, u, w
<1>6. /\ l \in Seq(Bytes) /\ Len(l) = Len(p) + Len(u)
      /\ \A k \in 1..Len(p) + Len(u) : l[k] = IF k <= Len(p) THEN p[k] ELSE u[k - Len(p)]
    BY <1>3, <1>4, ConcatBytes, Zenon
<1>7. /\ r \in Seq(Bytes) /\ Len(r) = Len(a) + Len(w)
      /\ \A k \in 1..Len(a) + Len(w) : r[k] = IF k <= Len(a) THEN a[k] ELSE w[k - Len(a)]
    BY <1>5, ConcatBytes, Zenon
<1> HIDE DEF l, r
<1>8. Len(a) \in Nat /\ Len(x) \in Nat /\ Len(y) \in Nat /\ Len(c) \in Nat
    BY <1>1
<1>9. Len(l) = Len(r) /\ Len(l) = Len(a) + Len(x) + Len(y) + Len(c)
    BY <1>2, <1>3, <1>4, <1>5, <1>6, <1>7, <1>8
<1>10. ASSUME NEW k \in 1..Len(l) PROVE l[k] = r[k]
    <2>1. CASE k <= Len(a)
        <3>1. /\ k \in 1..Len(a) + Len(x) /\ k <= Len(p)
              /\ k \in 1..Len(p) + Len(u) /\ k \in 1..Len(a) + Len(w)
            BY <1>2, <1>3, <1>4, <1>5, <1>6, <1>7, <1>8, <1>9, <2>1
        <3> QED
            BY <1>3, <1>6, <1>7, <2>1, <3>1
    <2>2. CASE ~(k <= Len(a)) /\ k <= Len(p)
        <3> DEFINE i == k - Len(a)
        <3>1. /\ i \in 1..Len(x) /\ i \in 1..Len(s) + Len(c) /\ i \in 1..Len(x) + Len(y)
              /\ i <= Len(s) /\ i <= Len(x) /\ k \in 1..Len(a) + Len(x)
              /\ k \in 1..Len(p) + Len(u) /\ k \in 1..Len(a) + Len(w)
            BY <1>2, <1>3, <1>4, <1>5, <1>6, <1>7, <1>8, <1>9, <2>2, SMTT(30)
        <3>2. r[k] = x[i]
            BY <1>2, <1>5, <1>7, <2>2, <3>1
        <3>3. l[k] = x[i]
            BY <1>3, <1>6, <2>2, <3>1
        <3> QED
            BY <3>2, <3>3
    <2>3. CASE ~(k <= Len(p))
        <3> DEFINE i == k - Len(a)
                   j == k - Len(p)
        <3>1. /\ j \in 1..Len(y) + Len(c) /\ i \in 1..Len(s) + Len(c) /\ i = Len(x) + j
              /\ k \in 1..Len(p) + Len(u) /\ k \in 1..Len(a) + Len(w) /\ ~(k <= Len(a))
            BY <1>2, <1>3, <1>4, <1>5, <1>6, <1>7, <1>8, <1>9, <2>3
        <3>2. l[k] = u[j] /\ r[k] = w[i]
            BY <1>6, <1>7, <2>3, <3>1
        <3> HIDE DEF i, j
        <3>3. CASE j <= Len(y)
            <4>1. i <= Len(s) /\ i \in 1..Len(x) + Len(y) /\ ~(i <= Len(x)) /\ i - Len(x) = j
                BY <1>2, <1>8, <3>1, <3>3
            <4>2. w[i] = y[j]
                BY <1>2, <1>5, <3>1, <4>1
            <4> QED
                BY <1>4, <3>1, <3>2, <3>3, <4>2
        <3>4. CASE ~(j <= Len(y))
            <4>1. ~(i <= Len(s)) /\ i - Len(s) = j - Len(y)
                BY <1>2, <1>8, <3>1, <3>4
            <4>2. w[i] = c[j - Len(y)]
                BY <1>5, <3>1, <4>1
            <4> QED
                BY <1>4, <3>1, <3>2, <3>4, <4>2
        <3> QED
            BY <3>3, <3>4
    <2> QED
        BY <2>1, <2>2, <2>3
<1>11. l = r
    BY <1>6, <1>7, <1>9, <1>10, SeqEqual
<1> QED
    BY <1>11 DEF l, r, p, u, w, x, y

LEMMA DropBytes ==
    ASSUME NEW a \in Seq(Bytes), NEW b \in Seq(Bytes), NEW n \in 0..Len(a)
    PROVE  SubSeq(a, n + 1, Len(a)) \o b = SubSeq(a \o b, n + 1, Len(a \o b))
<1> DEFINE x == SubSeq(a, n + 1, Len(a))
           s == a \o b
           y == SubSeq(s, n + 1, Len(s))
<1>1. Len(a) \in Nat /\ Len(b) \in Nat /\ n \in Nat /\ n <= Len(a)
    OBVIOUS
<1>2. /\ s \in Seq(Bytes) /\ Len(s) = Len(a) + Len(b)
      /\ \A k \in 1..Len(a) + Len(b) : s[k] = IF k <= Len(a) THEN a[k] ELSE b[k - Len(a)]
    BY ConcatProperties
<1> HIDE DEF s
<1>3. /\ x \in Seq(Bytes) /\ Len(x) = Len(a) - n
      /\ \A k \in 1..Len(a) - n : x[k] = a[n + k]
    <2>1. \A i \in n + 1 .. Len(a) : a[i] \in Bytes
        BY <1>1
    <2>2. /\ x \in Seq(Bytes)
          /\ Len(x) = IF n + 1 <= Len(a) THEN Len(a) - (n + 1) + 1 ELSE 0
          /\ \A k \in 1 .. Len(a) - (n + 1) + 1 : x[k] = a[(n + 1) + k - 1]
        BY <1>1, <2>1, SubSeqProperties
    <2> HIDE DEF x
    <2> QED
        BY <1>1, <2>2
<1>4. /\ y \in Seq(Bytes) /\ Len(y) = Len(s) - n
      /\ \A k \in 1..Len(s) - n : y[k] = s[n + k]
    <2>1. \A i \in n + 1 .. Len(s) : s[i] \in Bytes
        BY <1>1, <1>2
    <2>2. /\ y \in Seq(Bytes)
          /\ Len(y) = IF n + 1 <= Len(s) THEN Len(s) - (n + 1) + 1 ELSE 0
          /\ \A k \in 1 .. Len(s) - (n + 1) + 1 : y[k] = s[(n + 1) + k - 1]
        BY <1>1, <1>2, <2>1, SubSeqProperties
    <2> HIDE DEF y
    <2> QED
        BY <1>1, <1>2, <2>2
<1> HIDE DEF x, y
<1>5. /\ x \o b \in Seq(Bytes) /\ Len(x \o b) = Len(x) + Len(b)
      /\ \A k \in 1..Len(x) + Len(b) : (x \o b)[k] = IF k <= Len(x) THEN x[k] ELSE b[k - Len(x)]
    BY <1>3, ConcatProperties
<1>6. ASSUME NEW k \in 1..Len(x \o b) PROVE (x \o b)[k] = y[k]
    <2>1. k \in 1..Len(x) + Len(b) /\ k \in 1..Len(s) - n /\ n + k \in 1..Len(a) + Len(b)
        BY <1>1, <1>2, <1>3, <1>5
    <2>2. CASE k <= Len(x)
        <3>1. n + k <= Len(a) /\ k \in 1..Len(a) - n
            BY <1>1, <1>3, <2>1, <2>2
        <3> QED
            BY <1>2, <1>3, <1>4, <1>5, <2>1, <2>2, <3>1
    <2>3. CASE ~(k <= Len(x))
        <3>1. ~(n + k <= Len(a)) /\ (n + k) - Len(a) = k - Len(x)
            BY <1>1, <1>3, <2>1, <2>3
        <3> QED
            BY <1>2, <1>4, <1>5, <2>1, <2>3, <3>1
    <2> QED
        BY <2>2, <2>3
<1>7. Len(x \o b) = Len(y)
    BY <1>1, <1>2, <1>3, <1>4, <1>5
<1>8. x \o b = y
    BY <1>4, <1>5, <1>6, <1>7, SeqEqual
<1> QED
    BY <1>8 DEF x, y, s

-----------------------------------------------------------------------------
(* The invariant *)

TypeOK ==
    /\ reader \in {"layer", "server", "discord"} /\ closed \in BOOLEAN
    /\ pc \in {"wait", "drain", "eof", "refused"}
    /\ sent \in Seq(Messages) /\ got \in Seq(Messages)
    /\ out \in Seq(Bytes) /\ wire \in Seq(Bytes) /\ buf \in Seq(Bytes)

Frames == [i \in 1..Len(sent) |-> Encode(sent[i])]

(* The bytes on their way. *)
Stream == buf \o (wire \o out)

InOrder == Len(got) <= Len(sent) /\ \A i \in 1..Len(got) : got[i] = sent[i]

(* The writer has nothing left, or the end of the last frame. *)
OneFrameOut == out # <<>> => sent # <<>> /\ Len(out) <= Len(Frames[Len(sent)])

(* What is on its way are the frames that have not come out. *)
AllAccounted == pc \in {"wait", "drain"} => Holds(Len(got), Frames, Stream)

(* FrameReader and StateServer go back to reading only when the buffer     *)
(* does not hold a whole frame.                                            *)
NoFrameLeft ==
    (pc = "wait" /\ reader # "discord" /\ Len(got) < Len(sent))
        => Len(buf) < Len(Frames[Len(got) + 1])

Ended == pc = "eof" => closed /\ EofLosesNothing

TooLong(n) == \E i \in DOMAIN sent : 1 + Len(sent[i].payload) > n

Refused ==
    pc = "refused" =>
        /\ reader = "layer" => TooLong(Cap - 3 - Chunk)
        /\ reader = "server" => TooLong(Cap - 3)
        /\ reader = "discord" =>
              \E e : Ends(e, Len(got), Frames) /\ e[Len(sent)] > Cap

FrameInv ==
    TypeOK /\ InOrder /\ OneFrameOut /\ AllAccounted /\ NoFrameLeft /\ Ended /\ Refused

LEMMA FramesAre ==
    ASSUME TypeOK
    PROVE  /\ Frames \in Seq(Seq(Bytes)) /\ Len(Frames) = Len(sent) /\ Len(sent) \in Nat
           /\ \A i \in 1..Len(sent) : /\ sent[i] \in Messages /\ Frames[i] = Encode(sent[i])
                                      /\ Frames[i] \in Seq(Bytes) /\ Len(Frames[i]) \in Nat \ {0}
<1>1. sent \in Seq(Messages) /\ Len(sent) \in Nat
    BY DEF TypeOK
<1>2. \A i \in 1..Len(sent) : sent[i] \in Messages
    BY <1>1
<1>3. \A i \in 1..Len(sent) : Encode(sent[i]) \in Seq(Bytes) /\ Len(Encode(sent[i])) \in Nat \ {0}
    BY <1>2, EncodeIs
<1>4. \A i \in 1..Len(sent) : Frames[i] = Encode(sent[i])
    BY DEF Frames
<1>5. Frames \in Seq(Seq(Bytes)) /\ Len(Frames) = Len(sent)
    BY <1>1, <1>3 DEF Frames
<1> QED
    BY <1>1, <1>2, <1>3, <1>4, <1>5

LEMMA FramesKept == UNCHANGED <<reader, sent>> => Frames' = Frames
    BY DEF Frames, Encode, EncodeRaw, EncodeFrame

LEMMA FramesSent ==
    ASSUME TypeOK, NEW m \in Messages, reader' = reader, sent' = Append(sent, m)
    PROVE  Frames' = Append(Frames, Encode(m))
<1> DEFINE n == Len(sent) + 1
<1>1. Len(sent) \in Nat /\ Len(sent') = n /\ sent'[n] = m
      /\ \A i \in 1..Len(sent) : sent'[i] = sent[i]
    BY DEF TypeOK
<1>2. Frames' = [i \in 1..n |-> Encode(sent'[i])]
    BY <1>1 DEF Frames, Encode, EncodeRaw, EncodeFrame
<1>3. /\ Frames \in Seq(Seq(Bytes)) /\ Len(Frames) = Len(sent)
      /\ \A i \in 1..Len(sent) : Frames[i] = Encode(sent[i])
    BY FramesAre
<1>4. Encode(m) \in Seq(Bytes)
    BY EncodeIs
<1> DEFINE h == Append(Frames, Encode(m))
<1>5. h = [i \in 1..n |-> IF i = n THEN Encode(m) ELSE Frames[i]]
    <2>1. /\ h \in Seq(Seq(Bytes)) /\ Len(h) = n /\ h[n] = Encode(m)
          /\ \A i \in 1..Len(sent) : h[i] = Frames[i]
        BY <1>1, <1>3, <1>4, AppendProperties
    <2> HIDE DEF h
    <2>2. h \in [1..n -> Seq(Bytes)]
        BY <2>1, LenProperties
    <2>3. \A i \in 1..n : h[i] = IF i = n THEN Encode(m) ELSE Frames[i]
        <3>1. \A i \in 1..n : i = n \/ i \in 1..Len(sent)
            BY <1>1
        <3>2. ~(n \in 1..Len(sent))
            BY <1>1
        <3> QED
            BY <2>1, <3>1, <3>2, Zenon
    <2> QED
        BY <2>2, <2>3
<1>6. \A i \in 1..n : Encode(sent'[i]) = IF i = n THEN Encode(m) ELSE Frames[i]
    BY <1>1, <1>3
<1> QED
    BY <1>2, <1>5, <1>6

LEMMA StreamIs ==
    ASSUME TypeOK
    PROVE  /\ Stream \in Seq(Bytes) /\ Len(Stream) = Len(buf) + Len(wire) + Len(out)
           /\ Len(buf) \in Nat /\ Len(wire) \in Nat /\ Len(out) \in Nat
           /\ \A k \in 1..Len(buf) : Stream[k] = buf[k]
<1>1. buf \in Seq(Bytes) /\ wire \in Seq(Bytes) /\ out \in Seq(Bytes)
    BY DEF TypeOK
<1>2. ASSUME NEW a \in Seq(Bytes), NEW b \in Seq(Bytes)
      PROVE  /\ a \o b \in Seq(Bytes) /\ Len(a \o b) = Len(a) + Len(b)
             /\ \A k \in 1..Len(a) + Len(b) :
                   (a \o b)[k] = IF k <= Len(a) THEN a[k] ELSE b[k - Len(a)]
    BY ConcatProperties
<1> DEFINE t == wire \o out
<1>6. Stream = buf \o t
    BY DEF Stream
<1>7. t \in Seq(Bytes) /\ Len(t) = Len(wire) + Len(out)
    BY <1>1, <1>2, Zenon
<1> HIDE DEF t
<1>3. /\ buf \o t \in Seq(Bytes) /\ Len(buf \o t) = Len(buf) + Len(t)
      /\ \A k \in 1..Len(buf) + Len(t) : (buf \o t)[k] = IF k <= Len(buf) THEN buf[k] ELSE t[k - Len(buf)]
    BY <1>1, <1>2, <1>7, Zenon
<1>4. Len(buf) \in Nat /\ Len(wire) \in Nat /\ Len(out) \in Nat
    BY <1>1
<1>5. \A k \in 1..Len(buf) : (buf \o t)[k] = buf[k]
    BY <1>3, <1>4, <1>7
<1> QED
    BY <1>3, <1>4, <1>5, <1>6, <1>7

(* Nothing is on its way when everything has come out. *)
LEMMA AllOut ==
    ASSUME TypeOK, AllAccounted, pc \in {"wait", "drain"}, Len(got) = Len(sent)
    PROVE  buf = <<>> /\ wire = <<>> /\ out = <<>>
<1>1. Holds(Len(Frames), Frames, Stream)
    BY FramesAre DEF AllAccounted
<1>2. Stream = <<>>
    BY <1>1, FramesAre, StreamIs, HoldsNothing
<1>3. Len(buf) = 0 /\ Len(wire) = 0 /\ Len(out) = 0
    BY <1>2, StreamIs
<1> QED
    BY <1>3 DEF TypeOK

(* What peeling finds. *)
LEMMA Peeling ==
    ASSUME FrameInv, pc = "drain"
    PROVE  LET m == sent[Len(got) + 1]
               f == Frames[Len(got) + 1]
           IN  \/ Decode(buf) = More /\ (Len(got) < Len(sent) => Len(buf) < Len(f))
               \/ /\ Decode(buf) = Illegal /\ Len(got) < Len(sent)
                  /\ reader # "discord" /\ 1 + Len(m.payload) > Cap
               \/ /\ Decode(buf) = Peeled(m.type, m.payload, Len(f)) /\ Len(got) < Len(sent)
                  /\ Len(f) <= Len(buf)
<1> USE DEF FrameInv
<1>1. Len(got) \in Nat /\ Len(sent) \in Nat /\ Len(got) <= Len(sent)
    BY DEF TypeOK, InOrder
<1>2. CASE Len(got) = Len(sent)
    <2>1. buf = <<>>
        BY <1>2, AllOut
    <2> QED
        BY <1>1, <1>2, <2>1, NothingToDecode
<1>3. CASE Len(got) < Len(sent)
    <2> DEFINE n == Len(got) + 1
               m == sent[n]
    <2>1. n \in 1..Len(sent) /\ Len(got) \in 0..Len(sent) - 1
        BY <1>1, <1>3
    <2>2. m \in Messages /\ Frames[n] = Encode(m) /\ Len(Frames[n]) \in Nat
        BY <2>1, FramesAre
    <2>3. Holds(Len(got), Frames, Stream)
        BY DEF AllAccounted
    <2>4. \A k \in 1..Len(Frames[n]) : Stream[k] = Frames[n][k]
        BY <2>1, <2>3, FramesAre, StreamIs, HoldsFirst
    <2>5. \A k \in 1..Len(Encode(m)) : k <= Len(buf) => buf[k] = Encode(m)[k]
        BY <2>2, <2>4, StreamIs
    <2>6. buf \in Seq(Bytes)
        BY DEF TypeOK
    <2>7. \/ Decode(buf) = More /\ Len(buf) < Len(Encode(m))
          \/ Decode(buf) = Illegal /\ reader # "discord" /\ 1 + Len(m.payload) > Cap
          \/ Decode(buf) = Peeled(m.type, m.payload, Len(Encode(m))) /\ Len(buf) >= Len(Encode(m))
        BY <2>2, <2>5, <2>6, DecodeReadsFrame
    <2> HIDE DEF n
    <2>8. Len(buf) >= Len(Encode(m)) => Len(Encode(m)) <= Len(buf)
        BY <2>2, StreamIs
    <2> QED
        BY <1>3, <2>2, <2>7, <2>8 DEF n
<1> QED
    BY <1>1, <1>2, <1>3

-----------------------------------------------------------------------------
(* The writer's steps *)

LEMMA ConcatBytesAssociative ==
    \A a, b, c \in Seq(Bytes) : (a \o b) \o c = a \o (b \o c)
OBVIOUS

LEMMA SendKeeps ==
    ASSUME FrameInv, NEW m \in Messages, Send(m)
    PROVE  FrameInv'
<1> DEFINE x == Encode(m)
<1>1. TypeOK /\ ~closed /\ out = <<>> /\ sent' = Append(sent, m) /\ out' = x
    BY DEF FrameInv, Send
<1>2. UNCHANGED <<reader, closed, wire, buf, pc, got>>
    BY DEF Send
<1>3. x \in Seq(Bytes) /\ Len(x) \in Nat \ {0}
    BY EncodeIs
<1>4. /\ sent \in Seq(Messages) /\ Len(sent) \in Nat /\ sent' \in Seq(Messages)
      /\ Len(sent') = Len(sent) + 1 /\ sent' # <<>>
      /\ \A i \in 1..Len(sent) : sent'[i] = sent[i]
    BY <1>1 DEF TypeOK
<1>5. Frames' = Append(Frames, x)
    BY <1>1, <1>2, FramesSent DEF Send
<1>6. /\ Frames \in Seq(Seq(Bytes)) /\ Len(Frames) = Len(sent)
      /\ Len(Frames') = Len(sent) + 1 /\ Frames'[Len(sent) + 1] = x
      /\ \A i \in 1..Len(sent) : Frames'[i] = Frames[i]
    BY <1>1, <1>3, <1>5, FramesAre, AppendProperties
<1>7. Len(got) \in Nat /\ Len(got) \in 0..Len(sent) /\ Len(got) \in 0..Len(Frames)
    BY <1>4, <1>6 DEF FrameInv, TypeOK, InOrder
<1> HIDE DEF x
<1>8. TypeOK'
    BY <1>1, <1>2, <1>3, <1>4 DEF TypeOK
<1>9. InOrder'
    <2>1. Len(got) <= Len(sent')
        BY <1>4, <1>7
    <2>2. \A i \in 1..Len(got) : i \in 1..Len(sent)
        BY <1>4, <1>7
    <2>3. \A i \in 1..Len(got) : got[i] = sent'[i]
        BY <1>4, <2>2 DEF FrameInv, InOrder
    <2> QED
        BY <1>2, <2>1, <2>3 DEF InOrder
<1>10. OneFrameOut'
    <2>1. Len(Frames'[Len(sent')]) = Len(x)
        BY <1>4, <1>6
    <2>2. Len(out') <= Len(Frames'[Len(sent')])
        BY <1>1, <1>3, <2>1
    <2> QED
        BY <1>4, <2>2 DEF OneFrameOut
<1>11. AllAccounted'
    <2> SUFFICES ASSUME pc \in {"wait", "drain"} PROVE Holds(Len(got), Frames', Stream')
        BY <1>2 DEF AllAccounted
    <2>1. Holds(Len(got), Frames, Stream)
        BY DEF FrameInv, AllAccounted
    <2>2. Stream \in Seq(Bytes)
        BY <1>1, StreamIs
    <2>3. Holds(Len(got), Append(Frames, x), Stream \o x)
        BY <1>3, <1>6, <1>7, <2>1, <2>2, HoldsAppend
    <2>4. Stream' = Stream \o x
        <3>1. buf \in Seq(Bytes) /\ wire \in Seq(Bytes)
            BY <1>1 DEF TypeOK
        <3>2. wire \o out = wire
            BY <1>1, <3>1, ConcatEmptySeq
        <3>3. (buf \o wire) \o x = buf \o (wire \o x)
            BY <1>3, <3>1, ConcatBytesAssociative, Zenon
        <3> QED
            BY <1>1, <1>2, <3>2, <3>3, Zenon DEF Stream
    <2> QED
        BY <1>5, <2>3, <2>4
<1>12. NoFrameLeft'
    <2> SUFFICES ASSUME pc = "wait", reader # "discord"
                 PROVE  Len(buf) < Len(Frames'[Len(got) + 1])
        BY <1>2 DEF NoFrameLeft
    <2>1. CASE Len(got) < Len(sent)
        <3>1. Len(got) + 1 \in 1..Len(sent)
            BY <1>4, <1>7, <2>1
        <3>2. Len(buf) < Len(Frames[Len(got) + 1])
            BY <2>1 DEF FrameInv, NoFrameLeft
        <3> QED
            BY <1>6, <3>1, <3>2
    <2>2. CASE Len(got) = Len(sent)
        <3>1. buf = <<>>
            BY <2>2, AllOut DEF FrameInv
        <3> QED
            BY <1>3, <1>6, <2>2, <3>1
    <2> QED
        BY <1>4, <1>7, <2>1, <2>2
<1>13. Ended'
    BY <1>1, <1>2 DEF FrameInv, Ended
<1>14. Refused'
    <2> SUFFICES ASSUME pc = "refused"
                 PROVE  /\ reader = "layer" => TooLong(Cap - 3 - Chunk)'
                        /\ reader = "server" => TooLong(Cap - 3)'
                        /\ reader = "discord" =>
                              \E e : Ends(e, Len(got), Frames') /\ e[Len(sent')] > Cap
        BY <1>2 DEF Refused
    <2>1. ASSUME NEW n, TooLong(n) PROVE TooLong(n)'
        <3>1. PICK i \in DOMAIN sent : 1 + Len(sent[i].payload) > n
            BY <2>1 DEF TooLong
        <3>2. i \in 1..Len(sent) /\ i \in DOMAIN sent' /\ sent'[i] = sent[i]
            BY <1>4
        <3> QED
            BY <3>1, <3>2 DEF TooLong
    <2>2. ASSUME reader = "discord"
          PROVE  \E e : Ends(e, Len(got), Frames') /\ e[Len(sent')] > Cap
        <3>1. \E e : Ends(e, Len(got), Frames) /\ e[Len(Frames)] > Cap
            BY <1>6, <2>2 DEF FrameInv, Refused
        <3>2. Cap \in Nat
            BY FramingAssumption
        <3>3. \E e : Ends(e, Len(got), Append(Frames, x)) /\ e[Len(Frames) + 1] > Cap
            BY <1>3, <1>6, <1>7, <3>1, <3>2, LengthGrows
        <3> QED
            BY <1>4, <1>5, <1>6, <3>3
    <2>3. reader = "layer" => TooLong(Cap - 3 - Chunk)'
        BY <2>1 DEF FrameInv, Refused
    <2>4. reader = "server" => TooLong(Cap - 3)'
        BY <2>1 DEF FrameInv, Refused
    <2> QED
        BY <2>2, <2>3, <2>4
<1> QED
    BY <1>8, <1>9, <1>10, <1>11, <1>12, <1>13, <1>14 DEF FrameInv

LEMMA WriteKeeps ==
    ASSUME FrameInv, NEW n \in 1..WireMax, Write(n)
    PROVE  FrameInv'
<1>1. /\ TypeOK /\ ~closed /\ UNCHANGED <<reader, sent, closed, buf, pc, got>>
      /\ wire' = wire \o SubSeq(out, 1, n) /\ out' = SubSeq(out, n + 1, Len(out))
      /\ n <= Len(out)
    BY DEF FrameInv, Write
<1>2. buf \in Seq(Bytes) /\ wire \in Seq(Bytes) /\ out \in Seq(Bytes) /\ Len(out) \in Nat
    BY <1>1 DEF TypeOK
<1>3. n \in 0..Len(out) /\ n \in Nat
    BY <1>1, <1>2, FramingAssumption
<1>4. /\ SubSeq(out, 1, n) \in Seq(Bytes) /\ out' \in Seq(Bytes) /\ Len(out') = Len(out) - n
    BY <1>1, <1>2, <1>3, SplitBytes
<1>5. wire' \in Seq(Bytes)
    BY <1>1, <1>2, <1>4, ConcatBytes
<1>6. Frames' = Frames
    BY <1>1, FramesKept
<1>7. Stream' = Stream
    <2> DEFINE x == SubSeq(out, 1, n)
               y == SubSeq(out, n + 1, Len(out))
    <2>1. <<>> \in Seq(Bytes) /\ y \o <<>> = y /\ out \o <<>> = out
        BY <1>1, <1>2, <1>4, EmptySeq, ConcatEmptySeq
    <2>2. (wire \o x) \o (y \o <<>>) = wire \o (out \o <<>>)
        BY <1>2, <1>3, <2>1, MoveBytes
    <2> HIDE DEF x, y
    <2>3. (wire \o x) \o y = wire \o out
        BY <2>1, <2>2, Zenon
    <2>4. wire' = wire \o x /\ out' = y
        BY <1>1, Zenon DEF x, y
    <2> QED
        BY <1>1, <2>3, <2>4, Zenon DEF Stream
<1>8. TypeOK'
    BY <1>1, <1>4, <1>5 DEF TypeOK
<1>9. OneFrameOut'
    <2> SUFFICES ASSUME out' # <<>>
                 PROVE  sent # <<>> /\ Len(out') <= Len(Frames[Len(sent)])
        BY <1>1, <1>6 DEF OneFrameOut
    <2>1. out # <<>>
        BY <1>1, <1>2, <1>3
    <2>2. sent # <<>> /\ Len(out) <= Len(Frames[Len(sent)])
        BY <2>1 DEF FrameInv, OneFrameOut
    <2>3. Len(Frames[Len(sent)]) \in Nat
        <3>1. Len(sent) \in 1..Len(sent)
            BY <1>1, <2>2 DEF TypeOK
        <3> QED
            BY <1>1, <3>1, FramesAre
    <2> QED
        BY <1>2, <1>3, <1>4, <2>2, <2>3
<1>10. InOrder' /\ AllAccounted' /\ NoFrameLeft'
    BY <1>1, <1>6, <1>7 DEF FrameInv, InOrder, AllAccounted, NoFrameLeft
<1>11. Ended'
    BY <1>1 DEF FrameInv, Ended
<1>12. Refused'
    BY <1>1, <1>6 DEF FrameInv, Refused, TooLong
<1> QED
    BY <1>8, <1>9, <1>10, <1>11, <1>12 DEF FrameInv

(* What does not touch the stream. *)
LEMMA StreamKept ==
    UNCHANGED <<reader, sent, out, wire, buf, got>> => Frames' = Frames /\ Stream' = Stream
    BY FramesKept DEF Stream

LEMMA CloseKeeps == FrameInv /\ WriterCloses => FrameInv'
<1> SUFFICES ASSUME FrameInv, WriterCloses PROVE FrameInv'
    OBVIOUS
<1>1. closed' = TRUE /\ UNCHANGED <<reader, sent, out, wire, buf, pc, got>>
    BY DEF WriterCloses
<1>2. Frames' = Frames /\ Stream' = Stream
    BY <1>1, StreamKept
<1>3. TypeOK'
    BY <1>1 DEF FrameInv, TypeOK
<1>4. InOrder' /\ OneFrameOut' /\ AllAccounted' /\ NoFrameLeft'
    BY <1>1, <1>2 DEF FrameInv, InOrder, OneFrameOut, AllAccounted, NoFrameLeft
<1>5. Ended'
    BY <1>1 DEF FrameInv, Ended, EofLosesNothing
<1>6. Refused'
    BY <1>1, <1>2 DEF FrameInv, Refused, TooLong
<1> QED
    BY <1>3, <1>4, <1>5, <1>6 DEF FrameInv

-----------------------------------------------------------------------------
(* The reader's steps *)

LEMMA TakeKeeps ==
    ASSUME TypeOK, NEW n \in 0..Len(wire), Take(n), out' = out
    PROVE  Stream' = Stream /\ buf' \in Seq(Bytes) /\ wire' \in Seq(Bytes)
<1>1. buf \in Seq(Bytes) /\ wire \in Seq(Bytes) /\ out \in Seq(Bytes)
    BY DEF TypeOK
<1>2. buf' = buf \o SubSeq(wire, 1, n) /\ wire' = SubSeq(wire, n + 1, Len(wire))
    BY DEF Take
<1>3. SubSeq(wire, 1, n) \in Seq(Bytes) /\ wire' \in Seq(Bytes)
    BY <1>1, <1>2, SplitBytes
<1>4. buf' \in Seq(Bytes)
    BY <1>1, <1>2, <1>3, ConcatBytes
<1>5. (buf \o SubSeq(wire, 1, n)) \o (SubSeq(wire, n + 1, Len(wire)) \o out) = buf \o (wire \o out)
    BY <1>1, MoveBytes, Zenon
<1>6. Stream' = Stream
    BY <1>2, <1>5, Zenon DEF Stream
<1> QED
    BY <1>3, <1>4, <1>6

(* A step that only looks for the end of what was taken. *)
LEMMA TakenKeeps ==
    ASSUME FrameInv, pc \in {"wait", "drain"}, TypeOK', Stream' = Stream,
           UNCHANGED <<reader, sent, out, closed, got>>,
           pc' = "drain" \/ (pc' = "wait" /\ reader = "discord")
    PROVE  FrameInv'
<1>1. Frames' = Frames
    BY FramesKept
<1>2. InOrder' /\ OneFrameOut' /\ AllAccounted' /\ NoFrameLeft'
    BY <1>1 DEF FrameInv, InOrder, OneFrameOut, AllAccounted, NoFrameLeft
<1>3. Ended' /\ Refused'
    BY DEF Ended, Refused
<1> QED
    BY <1>2, <1>3 DEF FrameInv

(* A connection is turned away. *)
LEMMA RefuseKeeps ==
    ASSUME FrameInv, TypeOK', Refuse, UNCHANGED <<reader, sent, out, closed, got>>,
           reader = "layer" => TooLong(Cap - 3 - Chunk),
           reader = "server" => TooLong(Cap - 3),
           reader = "discord" => \E e : Ends(e, Len(got), Frames) /\ e[Len(sent)] > Cap
    PROVE  FrameInv'
<1>1. Frames' = Frames /\ pc' = "refused"
    BY FramesKept DEF Refuse
<1>2. InOrder' /\ OneFrameOut' /\ AllAccounted' /\ NoFrameLeft' /\ Ended'
    BY <1>1 DEF FrameInv, InOrder, OneFrameOut, AllAccounted, NoFrameLeft, Ended
<1>3. Refused'
    BY <1>1 DEF Refused, TooLong
<1> QED
    BY <1>2, <1>3 DEF FrameInv

LEMMA BytesAvailable ==
    ASSUME TypeOK
    PROVE  /\ Available \in 0..Len(wire) /\ Available \in Nat
           /\ Available <= Chunk /\ Available <= Len(wire)
           /\ SubSeq(wire, Available + 1, Len(wire)) \in Seq(Bytes)
<1>1. wire \in Seq(Bytes) /\ Len(wire) \in Nat
    BY DEF TypeOK
<1>2. Available \in 0..Len(wire) /\ Available \in Nat /\ Available <= Chunk /\ Available <= Len(wire)
    BY <1>1, FramingAssumption DEF Available
<1> QED
    BY <1>1, <1>2, SplitBytes

(* A frame is on its way, and what it is. *)
LEMMA NextOnItsWay ==
    ASSUME FrameInv, Len(got) < Len(sent)
    PROVE  LET m == sent[Len(got) + 1]
           IN  /\ Len(got) + 1 \in DOMAIN sent /\ Len(m.payload) \in Nat
               /\ reader # "discord" =>
                     Len(Frames[Len(got) + 1]) = 5 + Len(m.payload)
<1> DEFINE n == Len(got) + 1
           m == sent[n]
<1>1. n \in 1..Len(sent) /\ DOMAIN sent = 1..Len(sent)
    BY DEF FrameInv, TypeOK
<1>2. m \in Messages /\ Frames[n] = Encode(m)
    BY <1>1, FramesAre DEF FrameInv
<1>3. Len(m.payload) \in Nat
    BY <1>2, MessageIs
<1>4. reader # "discord" => Len(Encode(m)) = 5 + Len(m.payload)
    BY <1>2, EncodeIs
<1> QED
    BY <1>1, <1>2, <1>3, <1>4

LEMMA NotAllOut ==
    ASSUME FrameInv, pc \in {"wait", "drain"}, wire # <<>> \/ buf # <<>>
    PROVE  Len(got) < Len(sent)
<1>1. Len(got) \in Nat /\ Len(sent) \in Nat /\ Len(got) <= Len(sent)
    BY DEF FrameInv, TypeOK, InOrder
<1>2. Len(got) # Len(sent)
    BY AllOut DEF FrameInv
<1> QED
    BY <1>1, <1>2

LEMMA FeedKeeps == FrameInv /\ Feed => FrameInv'
<1> SUFFICES ASSUME FrameInv, Feed PROVE FrameInv'
    OBVIOUS
<1>1. /\ TypeOK /\ reader = "layer" /\ pc = "wait" /\ wire # <<>>
      /\ wire' = SubSeq(wire, Available + 1, Len(wire))
      /\ UNCHANGED <<reader, sent, out, closed, got>>
    BY DEF FrameInv, Feed
<1>2. CASE Len(buf) + Available > Cap /\ Refuse
    <2> DEFINE n == Len(got) + 1
    <2>1. TypeOK'
        BY <1>1, <1>2, BytesAvailable, EmptySeq DEF TypeOK, Refuse
    <2>2. Len(got) < Len(sent)
        BY <1>1, NotAllOut
    <2>3. Len(buf) < Len(Frames[n])
        BY <1>1, <2>2 DEF FrameInv, NoFrameLeft
    <2>4. n \in DOMAIN sent /\ Len(sent[n].payload) \in Nat
          /\ Len(Frames[n]) = 5 + Len(sent[n].payload)
        BY <1>1, <2>2, NextOnItsWay
    <2>5. Len(buf) \in Nat /\ Available \in Nat /\ Available <= Chunk /\ Cap \in Nat /\ Chunk \in Nat
        BY <1>1, BytesAvailable, FramingAssumption DEF TypeOK
    <2> HIDE DEF n
    <2>6. 1 + Len(sent[n].payload) > Cap - 3 - Chunk
        BY <1>2, <2>3, <2>4, <2>5
    <2>7. TooLong(Cap - 3 - Chunk)
        BY <2>4, <2>6 DEF TooLong
    <2> QED
        BY <1>1, <1>2, <2>1, <2>7, RefuseKeeps
<1>3. CASE Take(Available) /\ pc' = "drain"
    <2>1. Stream' = Stream /\ buf' \in Seq(Bytes) /\ wire' \in Seq(Bytes)
        BY <1>1, <1>3, BytesAvailable, TakeKeeps
    <2>2. TypeOK'
        BY <1>1, <1>3, <2>1 DEF TypeOK
    <2> QED
        BY <1>1, <1>3, <2>1, <2>2, TakenKeeps
<1> QED
    BY <1>2, <1>3 DEF Feed

LEMMA OnReadyReadKeeps == FrameInv /\ OnReadyRead => FrameInv'
<1> SUFFICES ASSUME FrameInv, OnReadyRead PROVE FrameInv'
    OBVIOUS
<1>1. /\ TypeOK /\ pc = "wait" /\ Take(Len(wire)) /\ pc' = "drain"
      /\ UNCHANGED <<reader, sent, out, closed, got>>
    BY DEF FrameInv, OnReadyRead
<1>2. Len(wire) \in 0..Len(wire)
    BY <1>1 DEF TypeOK
<1>3. Stream' = Stream /\ buf' \in Seq(Bytes) /\ wire' \in Seq(Bytes)
    BY <1>1, <1>2, TakeKeeps
<1>4. TypeOK'
    BY <1>1, <1>3 DEF TypeOK
<1> QED
    BY <1>1, <1>3, <1>4, TakenKeeps

LEMMA PollReadKeeps == FrameInv /\ PollRead => FrameInv'
<1> SUFFICES ASSUME FrameInv, PollRead PROVE FrameInv'
    OBVIOUS
<1>1. /\ TypeOK /\ reader = "discord" /\ pc = "wait"
      /\ wire' = SubSeq(wire, Available + 1, Len(wire))
      /\ UNCHANGED <<reader, sent, out, closed, got>>
    BY DEF FrameInv, PollRead
<1>2. CASE Len(buf) + Available > Cap /\ Refuse
    <2>1. TypeOK'
        BY <1>1, <1>2, BytesAvailable, EmptySeq DEF TypeOK, Refuse
    <2>2. PICK e : Cut(e, Len(got), Frames, Stream)
        BY <1>1, Zenon DEF FrameInv, AllAccounted, Holds
    <2>3. Ends(e, Len(got), Frames) /\ e[Len(sent)] = Len(Stream)
        BY <1>1, <2>2, FramesAre DEF Cut
    <2>4. Len(Stream) = Len(buf) + Len(wire) + Len(out)
          /\ Len(buf) \in Nat /\ Len(wire) \in Nat /\ Len(out) \in Nat
        BY <1>1, StreamIs
    <2>5. Available \in Nat /\ Available <= Len(wire) /\ Cap \in Nat
        BY <1>1, BytesAvailable, FramingAssumption
    <2>6. e[Len(sent)] > Cap
        BY <1>2, <2>3, <2>4, <2>5
    <2> QED
        BY <1>1, <1>2, <2>1, <2>3, <2>6, RefuseKeeps
<1>3. CASE Take(Available) /\ pc' = IF Available < Chunk THEN "drain" ELSE "wait"
    <2>1. Stream' = Stream /\ buf' \in Seq(Bytes) /\ wire' \in Seq(Bytes)
        BY <1>1, <1>3, BytesAvailable, TakeKeeps
    <2>2. TypeOK'
        BY <1>1, <1>3, <2>1 DEF TypeOK
    <2> QED
        BY <1>1, <1>3, <2>1, <2>2, TakenKeeps
<1> QED
    BY <1>2, <1>3 DEF PollRead

LEMMA PollDrainedKeeps == FrameInv /\ PollDrained => FrameInv'
<1> SUFFICES ASSUME FrameInv, PollDrained PROVE FrameInv'
    OBVIOUS
<1>1. pc = "wait" /\ pc' = "drain" /\ UNCHANGED <<reader, sent, out, closed, wire, buf, got>>
    BY DEF PollDrained
<1>2. Stream' = Stream
    BY <1>1, StreamKept
<1>3. TypeOK'
    BY <1>1 DEF FrameInv, TypeOK
<1> QED
    BY <1>1, <1>2, <1>3, TakenKeeps

(* The last bytes are read: what is missing is the frame the writer did    *)
(* not finish.                                                             *)
LEMMA EofKeeps == FrameInv /\ Eof => FrameInv'
<1> SUFFICES ASSUME FrameInv, Eof PROVE FrameInv'
    OBVIOUS
<1>1. /\ TypeOK /\ pc = "wait" /\ wire = <<>> /\ closed /\ pc' = "eof" /\ buf' = <<>>
      /\ UNCHANGED <<reader, sent, out, closed, wire, got>>
    BY DEF FrameInv, Eof
<1>2. Frames' = Frames
    BY <1>1, FramesKept
<1>3. TypeOK'
    BY <1>1, EmptySeq DEF TypeOK
<1>4. InOrder' /\ OneFrameOut' /\ AllAccounted' /\ NoFrameLeft' /\ Refused'
    BY <1>1, <1>2 DEF FrameInv, InOrder, OneFrameOut, AllAccounted, NoFrameLeft, Refused
<1>5. /\ Len(got) \in Nat /\ Len(sent) \in Nat /\ Len(got) <= Len(sent)
      /\ Frames \in Seq(Seq(Bytes)) /\ Len(Frames) = Len(sent)
    BY <1>1, FramesAre DEF FrameInv, TypeOK, InOrder
<1>6. ASSUME reader # "discord" PROVE Len(got) = Len(sent) - (IF out = <<>> THEN 0 ELSE 1)
    <2>1. CASE Len(got) = Len(sent)
        <3>1. out = <<>>
            BY <1>1, <2>1, AllOut DEF FrameInv
        <3> QED
            BY <1>5, <2>1, <3>1
    <2>2. CASE Len(got) < Len(sent)
        <3> DEFINE n == Len(got) + 1
                   f == Len(Frames[n])
                   z == Len(Frames[Len(sent)])
        <3>1. n \in 1..Len(sent) /\ Len(sent) \in 1..Len(sent) /\ Len(got) \in 0..Len(Frames) - 1
            BY <1>5, <2>2
        <3>2. f \in Nat /\ z \in Nat
            BY <1>1, <3>1, FramesAre
        <3>3. Holds(Len(got), Frames, Stream) /\ Stream \in Seq(Bytes)
            BY <1>1, StreamIs DEF FrameInv, AllAccounted
        <3>4. /\ Len(Stream) = Len(buf) + Len(out)
              /\ Len(buf) \in Nat /\ Len(out) \in Nat
            <4>1. Len(wire) = 0
                BY <1>1
            <4> QED
                BY <1>1, <4>1, StreamIs
        <3>5. Len(buf) < f
            BY <1>1, <1>6, <2>2 DEF FrameInv, NoFrameLeft
        <3>6. f <= Len(Stream)
            BY <1>5, <3>1, <3>3, HoldsFirst
        <3>7. out # <<>> /\ Len(out) <= z
            <4>1. Len(out) > 0
                <5> HIDE DEF f
                <5> QED
                    BY <3>2, <3>4, <3>5, <3>6
            <4>2. out # <<>>
                BY <4>1
            <4> QED
                BY <4>2 DEF FrameInv, OneFrameOut
        <3>8. ~(Len(got) + 1 < Len(sent))
            <4> SUFFICES ASSUME Len(got) + 1 < Len(sent) PROVE FALSE
                OBVIOUS
            <4>1. Len(got) \in 0..Len(Frames) - 2
                BY <1>5
            <4>2. f + z <= Len(Stream)
                BY <1>5, <3>3, <4>1, HoldsTwo
            <4> HIDE DEF f, z
            <4> QED
                BY <3>2, <3>4, <3>5, <3>7, <4>2
        <3>9. Len(got) + 1 = Len(sent)
            BY <1>5, <2>2, <3>8
        <3> QED
            BY <1>5, <3>7, <3>9
    <2> QED
        BY <1>5, <2>1, <2>2
<1>7. Ended'
    BY <1>1, <1>6 DEF Ended, EofLosesNothing
<1> QED
    BY <1>3, <1>4, <1>7 DEF FrameInv

(* What a turn of the peeling loop hands on. *)
LEMMA Handed ==
    ASSUME FrameInv, PeelFrame
    PROVE  LET n == Len(got) + 1
           IN  /\ Len(got) < Len(sent) /\ got' = Append(got, sent[n])
               /\ sent[n] \in Messages
               /\ Len(Frames[n]) \in 0..Len(buf)
               /\ buf' = SubSeq(buf, Len(Frames[n]) + 1, Len(buf))
<1> DEFINE n == Len(got) + 1
           m == sent[n]
           f == Len(Frames[n])
<1>1. /\ TypeOK /\ pc = "drain" /\ Decode(buf).kind = "frame"
      /\ got' = Append(got, Decode(buf).msg)
      /\ buf' = SubSeq(buf, Decode(buf).consumed + 1, Len(buf))
    BY DEF FrameInv, PeelFrame
<1>2. Decode(buf) = Peeled(m.type, m.payload, f) /\ Len(got) < Len(sent) /\ f <= Len(buf)
    BY <1>1, Peeling DEF More, Illegal
<1>3. n \in 1..Len(sent)
    BY <1>1, <1>2 DEF TypeOK
<1>4. m \in Messages /\ f \in Nat
    BY <1>1, <1>3, FramesAre
<1>5. m = [type |-> m.type, payload |-> m.payload]
    BY <1>4, MessageIs
<1> HIDE DEF m, f
<1>6. Decode(buf).msg = m /\ Decode(buf).consumed = f
    BY <1>2, <1>5 DEF Peeled
<1>7. f \in 0..Len(buf)
    BY <1>1, <1>2, <1>4 DEF TypeOK
<1> QED
    BY <1>1, <1>2, <1>4, <1>6, <1>7 DEF m, f

LEMMA PeelFrameKeeps == FrameInv /\ PeelFrame => FrameInv'
<1> SUFFICES ASSUME FrameInv, PeelFrame PROVE FrameInv'
    OBVIOUS
<1> DEFINE n == Len(got) + 1
           f == Len(Frames[n])
<1>1. TypeOK /\ pc = "drain" /\ UNCHANGED <<reader, sent, out, closed, wire, pc>>
    BY DEF FrameInv, PeelFrame
<1>2. /\ Len(got) < Len(sent) /\ got' = Append(got, sent[n]) /\ sent[n] \in Messages
      /\ f \in 0..Len(buf) /\ buf' = SubSeq(buf, f + 1, Len(buf))
    BY Handed
<1>3. /\ got \in Seq(Messages) /\ Len(got) \in Nat /\ Len(sent) \in Nat
      /\ buf \in Seq(Bytes) /\ wire \in Seq(Bytes) /\ out \in Seq(Bytes)
    BY <1>1 DEF TypeOK
<1>4. /\ got' \in Seq(Messages) /\ Len(got') = n /\ got'[n] = sent[n]
      /\ \A i \in 1..Len(got) : got'[i] = got[i]
    BY <1>2, <1>3, AppendProperties
<1>5. Frames' = Frames
    BY <1>1, FramesKept
<1>6. buf' \in Seq(Bytes)
    BY <1>2, <1>3, SplitBytes
<1>7. Stream' = SubSeq(Stream, f + 1, Len(Stream))
    <2> DEFINE t == wire \o out
    <2>1. t \in Seq(Bytes)
        BY <1>3, ConcatBytes
    <2> HIDE DEF t
    <2>2. SubSeq(buf, f + 1, Len(buf)) \o t = SubSeq(buf \o t, f + 1, Len(buf \o t))
        BY <1>2, <1>3, <2>1, DropBytes
    <2>3. Stream = buf \o t /\ Stream' = buf' \o t
        BY <1>1 DEF Stream, t
    <2> QED
        BY <1>2, <2>2, <2>3, Zenon
<1>8. TypeOK'
    BY <1>1, <1>4, <1>6 DEF TypeOK
<1>9. InOrder'
    <2>1. Len(got') <= Len(sent)
        BY <1>2, <1>3, <1>4
    <2>2. ASSUME NEW i \in 1..Len(got') PROVE got'[i] = sent[i]
        <3>1. i = n \/ i \in 1..Len(got)
            BY <1>3, <1>4
        <3> QED
            BY <1>4, <3>1 DEF FrameInv, InOrder
    <2> QED
        BY <1>1, <2>1, <2>2 DEF InOrder
<1>10. AllAccounted'
    <2>1. /\ Frames \in Seq(Seq(Bytes)) /\ Len(got) \in 0..Len(Frames) - 1
          /\ Stream \in Seq(Bytes)
        BY <1>1, <1>2, <1>3, FramesAre, StreamIs
    <2>2. Holds(Len(got), Frames, Stream)
        BY <1>1 DEF FrameInv, AllAccounted
    <2>3. Holds(n, Frames, SubSeq(Stream, f + 1, Len(Stream)))
        BY <2>1, <2>2, HoldsRest
    <2>4. Holds(Len(got'), Frames', Stream')
        BY <1>4, <1>5, <1>7, <2>3, Zenon
    <2> QED
        BY <2>4 DEF AllAccounted
<1>11. OneFrameOut' /\ NoFrameLeft' /\ Ended' /\ Refused'
    BY <1>1, <1>5 DEF FrameInv, OneFrameOut, NoFrameLeft, Ended, Refused
<1> QED
    BY <1>8, <1>9, <1>10, <1>11 DEF FrameInv

LEMMA PeelErrorKeeps == FrameInv /\ PeelError => FrameInv'
<1> SUFFICES ASSUME FrameInv, PeelError PROVE FrameInv'
    OBVIOUS
<1> DEFINE n == Len(got) + 1
           l == Len(sent[n].payload)
<1>1. /\ TypeOK /\ pc = "drain" /\ Decode(buf).kind = "error" /\ Refuse
      /\ UNCHANGED <<reader, sent, out, closed, wire, got>>
    BY DEF FrameInv, PeelError
<1>2. Len(got) < Len(sent) /\ reader # "discord" /\ 1 + l > Cap
    BY <1>1, Peeling DEF More, Illegal, Peeled
<1>3. n \in DOMAIN sent /\ l \in Nat
    BY <1>2, NextOnItsWay
<1>4. 1 + l > Cap - 3 - Chunk /\ 1 + l > Cap - 3
    <2> HIDE DEF l
    <2> QED
        BY <1>2, <1>3, FramingAssumption
<1>5. TooLong(Cap - 3 - Chunk) /\ TooLong(Cap - 3)
    BY <1>3, <1>4 DEF TooLong
<1>6. TypeOK'
    BY <1>1, EmptySeq DEF TypeOK, Refuse
<1> QED
    BY <1>1, <1>2, <1>5, <1>6, RefuseKeeps

LEMMA PeelMoreKeeps == FrameInv /\ PeelMore => FrameInv'
<1> SUFFICES ASSUME FrameInv, PeelMore PROVE FrameInv'
    OBVIOUS
<1> DEFINE n == Len(got) + 1
<1>1. /\ TypeOK /\ pc = "drain" /\ Decode(buf).kind = "more"
      /\ UNCHANGED <<reader, sent, out, closed, wire, got>>
    BY DEF FrameInv, PeelMore
<1>2. Len(got) < Len(sent) => Len(buf) < Len(Frames[n])
    BY <1>1, Peeling DEF Illegal, Peeled
<1>3. CASE reader = "server" /\ Len(buf) > Cap /\ Refuse
    <2>1. Len(buf) \in Nat /\ Cap \in Nat
        BY <1>1, FramingAssumption DEF TypeOK
    <2>2. buf # <<>>
        BY <1>3, <2>1
    <2>3. Len(got) < Len(sent)
        BY <1>1, <2>2, NotAllOut
    <2>4. n \in DOMAIN sent /\ Len(sent[n].payload) \in Nat
          /\ Len(Frames[n]) = 5 + Len(sent[n].payload)
        BY <1>3, <2>3, NextOnItsWay
    <2> HIDE DEF n
    <2>5. 1 + Len(sent[n].payload) > Cap - 3
        BY <1>2, <1>3, <2>1, <2>3, <2>4
    <2>6. TooLong(Cap - 3)
        BY <2>4, <2>5 DEF TooLong
    <2>7. TypeOK'
        BY <1>1, <1>3, EmptySeq DEF TypeOK, Refuse
    <2> QED
        BY <1>1, <1>3, <2>6, <2>7, RefuseKeeps
<1>4. CASE pc' = "wait" /\ buf' = buf
    <2>1. Frames' = Frames /\ Stream' = Stream
        BY <1>1, <1>4, StreamKept
    <2>2. TypeOK'
        BY <1>1, <1>4 DEF TypeOK
    <2>3. InOrder' /\ OneFrameOut' /\ AllAccounted'
        BY <1>1, <2>1 DEF FrameInv, InOrder, OneFrameOut, AllAccounted
    <2>4. NoFrameLeft'
        BY <1>1, <1>2, <1>4, <2>1 DEF NoFrameLeft
    <2>5. Ended' /\ Refused'
        BY <1>4 DEF Ended, Refused
    <2> QED
        BY <2>2, <2>3, <2>4, <2>5 DEF FrameInv
<1> QED
    BY <1>3, <1>4 DEF PeelMore

-----------------------------------------------------------------------------
(* What is proved of the readers *)

LEMMA Starts == Init => FrameInv
<1> SUFFICES ASSUME Init PROVE FrameInv
    OBVIOUS
<1>1. /\ sent = <<>> /\ got = <<>> /\ buf = <<>> /\ wire = <<>> /\ out = <<>>
      /\ pc = "wait" /\ closed = FALSE /\ reader \in {"layer", "server", "discord"}
    BY DEF Init
<1>2. TypeOK
    BY <1>1, EmptySeq DEF TypeOK
<1>3. Len(got) = 0 /\ Len(sent) = 0
    BY <1>1
<1>4. Stream = <<>> /\ Len(Stream) = 0 /\ Len(Frames) = 0
    <2>1. Len(Stream) = 0 + 0 + 0 /\ Stream \in Seq(Bytes)
        BY <1>1, <1>2, StreamIs
    <2> QED
        BY <1>2, <1>3, <2>1, FramesAre
<1>5. Holds(0, Frames, Stream)
    <2> DEFINE e == [i \in 0..0 |-> 0]
    <2>1. Ends(e, 0, Frames)
        BY <1>4 DEF Ends
    <2>2. Cut(e, 0, Frames, Stream)
        BY <1>4, <2>1 DEF Cut
    <2> QED
        BY <2>2, Zenon DEF Holds
<1>6. InOrder /\ OneFrameOut /\ AllAccounted /\ NoFrameLeft
    BY <1>1, <1>3, <1>5 DEF InOrder, OneFrameOut, AllAccounted, NoFrameLeft
<1>7. Ended /\ Refused
    BY <1>1 DEF Ended, Refused
<1> QED
    BY <1>2, <1>6, <1>7 DEF FrameInv

(* Every byte on its way is accounted for: buffer, socket and writer hold  *)
(* the frames that have not come out, in order, and nothing else; and what *)
(* came out is what went in (framing.cpp, ipc_transport.cpp:164-230,       *)
(* state_server.cpp:80-117).                                               *)
THEOREM FrameInvariant == Spec => []FrameInv
<1>1. Init => FrameInv
    BY Starts
<1>2. FrameInv /\ [Next]_vars => FrameInv'
    <2> SUFFICES ASSUME FrameInv, [Next]_vars PROVE FrameInv'
        OBVIOUS
    <2>1. ASSUME NEW m \in Messages, Send(m) PROVE FrameInv'
        BY <2>1, SendKeeps
    <2>2. ASSUME NEW n \in 1..WireMax, Write(n) PROVE FrameInv'
        BY <2>2, WriteKeeps
    <2>3. CASE WriterCloses
        BY <2>3, CloseKeeps
    <2>4. CASE Reads
        BY <2>4, FeedKeeps, OnReadyReadKeeps, PollReadKeeps, PollDrainedKeeps, EofKeeps DEF Reads
    <2>5. CASE Peels
        BY <2>5, PeelFrameKeeps, PeelErrorKeeps, PeelMoreKeeps DEF Peels
    <2>6. CASE UNCHANGED vars
        <3>1. UNCHANGED <<reader, sent, out, closed, wire, buf, pc, got>>
            BY <2>6 DEF vars
        <3>2. Frames' = Frames /\ Stream' = Stream
            BY <3>1, StreamKept
        <3> QED
            BY <3>1, <3>2 DEF FrameInv, TypeOK, InOrder, OneFrameOut, AllAccounted, NoFrameLeft,
               Ended, EofLosesNothing, Refused, TooLong
    <2> QED
        BY <2>1, <2>2, <2>3, <2>4, <2>5, <2>6 DEF Next, Writes
<1> QED
    BY <1>1, <1>2, PTL DEF Spec

(* Every set of numbers that is not empty has a least one: it stands in    *)
(* for induction.                                                          *)
LEMMA LeastNumber ==
    ASSUME NEW T \in SUBSET Nat, T # {}
    PROVE  \E x \in T : \A y \in T : x <= y
<1> DEFINE Less == {p \in Nat \X Nat : p[1] < p[2]}
<1>1. IsWellFoundedOn(Less, Nat)
    BY NatLessThanWellFounded, Zenon DEF OpToRel
<1>2. ASSUME NEW a \in Nat, NEW b \in Nat, a < b
      PROVE  <<a, b>> \in Less
    BY <1>2
<1> HIDE DEF Less
<1>3. PICK x \in T : \A y \in T : ~(<<y, x>> \in Less)
    BY <1>1, WFMin
<1>4. ASSUME NEW y \in T PROVE x <= y
    <2>1. x \in Nat /\ y \in Nat
        OBVIOUS
    <2>2. ~(<<y, x>> \in Less)
        BY <1>3
    <2>3. ~(y < x)
        BY <1>2, <2>1, <2>2
    <2> QED
        BY <2>1, <2>3
<1> QED
    BY <1>4

(* The recursion of BytesUpTo computes where the last frame ends. *)
LEMMA BytesAreCounted ==
    ASSUME TypeOK, Len(got) <= Len(sent), NEW e, Ends(e, Len(got), Frames)
    PROVE  Undelivered = e[Len(sent)]
<1> DEFINE g == Len(got)
           N == Len(sent)
           D == g..N
           Step(b, i) == b[i - 1] + Len(Encode(sent[i]))
           Solves(b) == b = [i \in D |-> IF i = g THEN 0 ELSE Step(b, i)]
<1>1. g \in Nat /\ N \in Nat /\ g <= N /\ Len(Frames) = N
    BY FramesAre DEF TypeOK
<1>2. e \in [D -> Nat] /\ e[g] = 0
    BY <1>1 DEF Ends
<1>3. ASSUME NEW i \in D, i # g PROVE i - 1 \in D /\ i - 1 < i /\ e[i] = Step(e, i)
    <2>1. i \in g + 1 .. N /\ i \in 1..N /\ i - 1 \in D /\ i - 1 < i
        BY <1>1, <1>3
    <2>2. e[i] = e[i - 1] + Len(Frames[i])
        BY <1>1, <2>1 DEF Ends
    <2>3. Frames[i] = Encode(sent[i])
        BY <2>1, FramesAre
    <2> QED
        BY <2>1, <2>2, <2>3
<1> HIDE DEF Step
<1>4. Solves(e)
    <2>1. \A i \in D : e[i] = IF i = g THEN 0 ELSE Step(e, i)
        BY <1>2, <1>3
    <2>2. DOMAIN e = D
        BY <1>2
    <2> HIDE DEF D
    <2> QED
        BY <1>2, <2>1
<1>5. Solves(BytesUpTo)
    <2>1. BytesUpTo = CHOOSE b : Solves(b)
        BY DEF BytesUpTo, Step
    <2> HIDE DEF Solves
    <2> QED
        BY <1>4, <2>1
<1>6. \A i \in D : BytesUpTo[i] = e[i]
    <2> DEFINE Wrong == {i \in D : BytesUpTo[i] # e[i]}
    <2> SUFFICES ASSUME Wrong # {} PROVE FALSE
        OBVIOUS
    <2>1. PICK i \in Wrong : \A k \in Wrong : i <= k
        <3>1. Wrong \in SUBSET Nat
            BY <1>1
        <3> HIDE DEF Wrong
        <3> QED
            BY <3>1, LeastNumber
    <2>2. i \in D /\ BytesUpTo[i] # e[i]
        OBVIOUS
    <2>3. BytesUpTo[i] = IF i = g THEN 0 ELSE Step(BytesUpTo, i)
        <3> HIDE DEF D
        <3> QED
            BY <1>5, <2>2
    <2>4. i # g
        BY <1>2, <2>2, <2>3
    <2>5. i - 1 \in D /\ ~(i <= i - 1) /\ e[i] = Step(e, i)
        BY <1>1, <1>3, <2>2, <2>4
    <2>6. BytesUpTo[i - 1] = e[i - 1]
        BY <2>1, <2>5
    <2> QED
        BY <2>2, <2>3, <2>4, <2>5, <2>6 DEF Step
<1>7. N \in D
    BY <1>1
<1> QED
    BY <1>6, <1>7 DEF Undelivered

(* FrameReader and StateServer turn a connection away only for a frame     *)
(* that is as long as the cap allows, less what bounding the buffer before *)
(* looking into it costs (framing.cpp:37, state_server.cpp:94); the        *)
(* transport to Discord only when more than the cap has not come out       *)
(* (ipc_transport.cpp:185).                                                *)
THEOREM TurnedAwayForLength == Spec => []RefusedForLength
<1>1. FrameInv => RefusedForLength
    <2> SUFFICES ASSUME FrameInv, pc = "refused"
                 PROVE  CASE reader = "layer"   -> TooLong(Cap - 3 - Chunk)
                          [] reader = "server"  -> TooLong(Cap - 3)
                          [] reader = "discord" -> Undelivered > Cap
        BY DEF RefusedForLength, TooLong
    <2>1. reader \in {"layer", "server", "discord"}
        BY DEF FrameInv, TypeOK
    <2>2. CASE reader = "discord"
        <3>1. PICK e : Ends(e, Len(got), Frames) /\ e[Len(sent)] > Cap
            BY <2>2 DEF FrameInv, Refused
        <3>2. Undelivered = e[Len(sent)]
            BY <3>1, BytesAreCounted DEF FrameInv, InOrder
        <3> QED
            BY <2>2, <3>1, <3>2
    <2>3. CASE reader = "layer"
        BY <2>3 DEF FrameInv, Refused
    <2>4. CASE reader = "server"
        BY <2>4 DEF FrameInv, Refused
    <2> QED
        BY <2>1, <2>2, <2>3, <2>4
<1> QED
    BY <1>1, FrameInvariant, PTL

(* A peer that writes its last frames and closes is heard in full by the   *)
(* overlay and by the host (state_client.cpp:201-203, state_server.cpp:86) *)
(* wherever the reads cut its frames.                                      *)
THEOREM HeardInFull == Spec => []EofLosesNothing
<1>1. FrameInv => EofLosesNothing
    BY DEF FrameInv, Ended, EofLosesNothing
<1> QED
    BY <1>1, FrameInvariant, PTL

(* Each of the three readers is a channel of messages: every step of the   *)
(* bytes sends a message, delivers the next one whole, gives the stream up *)
(* or changes nothing of it.  That the next one is delivered at last is    *)
(* left to fairness, and to the runs.                                      *)
THEOREM ReadersAreChannels ==
    Spec => Channel!Init /\ [][Channel!Next]_<<sent, got, pc \notin {"eof", "refused"}>>
<1>1. Init => Channel!Init
    BY DEF Init, Channel!Init
<1>2. FrameInv /\ [Next]_vars
         => [Channel!Next]_<<sent, got, pc \notin {"eof", "refused"}>>
    <2> DEFINE open == pc \notin {"eof", "refused"}
    <2> SUFFICES ASSUME FrameInv, [Next]_vars
                 PROVE  Channel!Next \/ UNCHANGED <<sent, got, open>>
        OBVIOUS
    <2>1. ASSUME NEW m \in Messages, Send(m) PROVE Channel!Next
        <3>1. Channel!Send(m)
            BY <2>1 DEF Send, Channel!Send
        <3> QED
            BY <3>1 DEF Channel!Next
    <2>2. ASSUME NEW n \in 1..WireMax, Write(n) PROVE UNCHANGED <<sent, got, open>>
        BY <2>2 DEF Write
    <2>3. CASE WriterCloses
        BY <2>3 DEF WriterCloses
    <2>4. CASE PeelFrame
        <3>1. Len(got) < Len(sent) /\ got' = Append(got, sent[Len(got) + 1])
            BY <2>4, Handed
        <3>2. open /\ UNCHANGED <<sent, open>>
            BY <2>4 DEF PeelFrame
        <3> QED
            BY <3>1, <3>2 DEF Channel!Next, Channel!Deliver
    <2>5. CASE Reads \/ PeelError \/ PeelMore
        <3>1. UNCHANGED <<sent, got>>
            BY <2>5 DEF Reads, Feed, OnReadyRead, PollRead, PollDrained, Eof, PeelError, PeelMore
        <3>2. open
            BY <2>5 DEF Reads, Feed, OnReadyRead, PollRead, PollDrained, Eof, PeelError, PeelMore
        <3>3. CASE open'
            BY <3>1, <3>2, <3>3
        <3>4. CASE ~open'
            <4>1. Channel!GiveUp
                BY <3>1, <3>4 DEF Channel!GiveUp
            <4> QED
                BY <4>1 DEF Channel!Next
        <3> QED
            BY <3>3, <3>4
    <2>6. CASE UNCHANGED vars
        BY <2>6 DEF vars
    <2> QED
        BY <2>1, <2>2, <2>3, <2>4, <2>5, <2>6 DEF Next, Writes, Peels
<1> QED
    BY <1>1, <1>2, FrameInvariant, PTL DEF Spec
=============================================================================
