------------------------------- MODULE Framing -------------------------------
(***************************************************************************)
(* How messages cross a byte stream.  The writer cuts a frame into partial *)
(* writes; the reader takes what bytes there are, collects them and peels  *)
(* off complete frames.  Three readers in the program do this, each with   *)
(* its own order of reading, bounding the buffer and peeling:              *)
(*   "layer"   FrameReader (src/ipc/framing.cpp) in StateClient::serve     *)
(*   "server"  StateServer::on_ready_read and drain_frames                 *)
(*   "discord" IpcTransport::poll and peel_one                             *)
(*                                                                         *)
(* A byte is a digit below Base (256 in the code) and a length takes four  *)
(* of them, least significant first.                                       *)
(***************************************************************************)
EXTENDS Integers, Sequences

CONSTANTS
    Base,        \* values of a byte
    Cap,         \* kMaxFrameLen, kMaxPayloadLen, kMaxRecvBuffer
    Chunk,       \* bytes one read() asks for
    WireMax,     \* bytes the socket holds
    Lens,        \* the lengths of payload sent
    MaxSent      \* bound on the messages sent

ASSUME FramingAssumption ==
    /\ Base \in Nat /\ Base > 1
    /\ Cap \in Nat \ {0} /\ Cap + 1 < (Base * Base * Base * Base) \div 2
    /\ Chunk \in Nat \ {0} /\ WireMax \in Nat \ {0} /\ MaxSent \in Nat
    /\ Lens \subseteq 0..Cap

VARIABLES
    reader,      \* which of the three readers this is
    sent,        \* the messages handed to the writer
    out,         \* the part of the last frame that is not written
    closed,      \* the writer's end is closed
    wire,        \* bytes written and not yet read
    buf,         \* FrameReader::buf_, Client::rbuf, IpcTransport::rbuf_
    pc,          \* the reader: wait, drain (peeling), eof, refused
    got          \* the messages handed to the code above

vars == <<reader, sent, out, closed, wire, buf, pc, got>>

-----------------------------------------------------------------------------
(* The frames *)

Bytes == 0 .. Base - 1

(* A payload of Cap bytes makes a frame one byte too long: encode_frame    *)
(* refuses it by an assert alone.                                          *)
Messages ==
    {[type |-> t, payload |-> [i \in 1..n |-> (t + i) % Base]] : t \in {0, 1}, n \in Lens}

Le32(n) == <<n % Base, (n \div Base) % Base, (n \div (Base * Base)) % Base,
             (n \div (Base * Base * Base)) % Base>>

ReadLe32(b) == b[1] + (b[2] * Base) + (b[3] * (Base * Base)) + (b[4] * (Base * Base * Base))

(* Four digits hold the numbers below this. *)
Word == Base * Base * Base * Base

(* read_le32 of ipc_transport.cpp reads a signed number. *)
Signed(n) == IF n >= Word \div 2 THEN n - Word ELSE n

(* encode_frame: the length counts the type byte. *)
EncodeFrame(m) == Le32(1 + Len(m.payload)) \o <<m.type>> \o m.payload

(* send_raw: the operation, then the length of the payload alone. *)
EncodeRaw(m) == Le32(m.type) \o Le32(Len(m.payload)) \o m.payload

Encode(m) == IF reader = "discord" THEN EncodeRaw(m) ELSE EncodeFrame(m)

(* What peeling at the front of a buffer yields: a frame and the bytes it  *)
(* took, "more" bytes needed, or an "error".                               *)
More    == [kind |-> "more"]
Illegal == [kind |-> "error"]
Peeled(t, p, n) == [kind |-> "frame", msg |-> [type |-> t, payload |-> p], consumed |-> n]

(* Fault: the payload is taken from the type byte on. *)
TryDecodeFrame_Shifted(b) ==
    IF Len(b) < 4 THEN More
    ELSE LET total == ReadLe32(b)
         IN  IF total < 1 \/ total > Cap THEN Illegal
             ELSE IF Len(b) < 4 + total THEN More
             ELSE Peeled(b[5], SubSeq(b, 5, 3 + total), 4 + total)

(* try_decode_frame *)
TryDecodeFrame(b) ==
    IF Len(b) < 4 THEN More
    ELSE LET total == ReadLe32(b)
         IN  IF total < 1 \/ total > Cap THEN Illegal
             ELSE IF Len(b) < 4 + total THEN More
             ELSE Peeled(b[5], SubSeq(b, 6, 4 + total), 4 + total)

(* peel_one *)
PeelOne(b) ==
    IF Len(b) < 8 THEN More
    ELSE LET len == Signed(ReadLe32(SubSeq(b, 5, 8)))
         IN  IF len < 0 \/ len > Cap THEN Illegal
             ELSE IF Len(b) < 8 + len THEN More
             ELSE Peeled(Signed(ReadLe32(b)), SubSeq(b, 9, 8 + len), 8 + len)

Decode(b) == IF reader = "discord" THEN PeelOne(b) ELSE TryDecodeFrame(b)

-----------------------------------------------------------------------------
Init ==
    /\ reader \in {"layer", "server", "discord"}
    /\ sent = <<>> /\ out = <<>> /\ closed = FALSE /\ wire = <<>>
    /\ buf = <<>> /\ pc = "wait" /\ got = <<>>

(* The writer *)

(* write_frame, send_frame or Discord: the previous frame is out first. *)
Send(m) ==
    /\ ~closed /\ out = <<>> /\ Len(sent) < MaxSent
    /\ sent' = Append(sent, m) /\ out' = Encode(m)
    /\ UNCHANGED <<reader, closed, wire, buf, pc, got>>

(* One write(): as many bytes as there is room for, or fewer. *)
Write(n) ==
    /\ ~closed /\ n <= Len(out) /\ n <= WireMax - Len(wire)
    /\ wire' = wire \o SubSeq(out, 1, n)
    /\ out' = SubSeq(out, n + 1, Len(out))
    /\ UNCHANGED <<reader, sent, closed, buf, pc, got>>

(* The writer closes or dies, in the middle of a frame perhaps. *)
WriterCloses ==
    /\ ~closed
    /\ closed' = TRUE
    /\ UNCHANGED <<reader, sent, out, wire, buf, pc, got>>

-----------------------------------------------------------------------------
(* The reader *)

(* The bytes the next read() returns. *)
Available == IF Len(wire) < Chunk THEN Len(wire) ELSE Chunk

Take(n) ==
    /\ buf' = buf \o SubSeq(wire, 1, n)
    /\ wire' = SubSeq(wire, n + 1, Len(wire))

Refuse == pc' = "refused" /\ buf' = <<>>

(* Fault: the cap itself is one too many. *)
Feed_OffByOne ==
    /\ reader = "layer" /\ pc = "wait" /\ wire # <<>>
    /\ wire' = SubSeq(wire, Available + 1, Len(wire))
    /\ \/ Len(buf) + Available >= Cap /\ Refuse
       \/ Len(buf) + Available < Cap /\ Take(Available) /\ pc' = "drain"
    /\ UNCHANGED <<reader, sent, out, closed, got>>

(* FrameReader::feed: the buffer is bounded before it is looked at. *)
Feed ==
    /\ reader = "layer" /\ pc = "wait" /\ wire # <<>>
    /\ wire' = SubSeq(wire, Available + 1, Len(wire))
    /\ \/ Len(buf) + Available > Cap /\ Refuse
       \/ Len(buf) + Available <= Cap /\ Take(Available) /\ pc' = "drain"
    /\ UNCHANGED <<reader, sent, out, closed, got>>

(* on_ready_read: all there is, and the bound comes after the peeling. *)
OnReadyRead ==
    /\ reader = "server" /\ pc = "wait" /\ wire # <<>>
    /\ Take(Len(wire)) /\ pc' = "drain"
    /\ UNCHANGED <<reader, sent, out, closed, got>>

(* poll(): reads until one comes back short, and only then peels. *)
PollRead ==
    /\ reader = "discord" /\ pc = "wait" /\ wire # <<>>
    /\ wire' = SubSeq(wire, Available + 1, Len(wire))
    /\ \/ Len(buf) + Available > Cap /\ Refuse
       \/ /\ Len(buf) + Available <= Cap /\ Take(Available)
          /\ pc' = IF Available < Chunk THEN "drain" ELSE "wait"
    /\ UNCHANGED <<reader, sent, out, closed, got>>

(* poll(): the read after a full one finds nothing. *)
PollDrained ==
    /\ reader = "discord" /\ pc = "wait" /\ wire = <<>> /\ ~closed /\ buf # <<>>
    /\ pc' = "drain"
    /\ UNCHANGED <<reader, sent, out, closed, wire, buf, got>>

(* read() returns 0, or the socket is disconnected. *)
Eof ==
    /\ pc = "wait" /\ wire = <<>> /\ closed
    /\ pc' = "eof" /\ buf' = <<>>
    /\ UNCHANGED <<reader, sent, out, closed, wire, got>>

(* Fault: one frame is peeled for each time bytes arrive. *)
PeelFrame_Once ==
    /\ pc = "drain" /\ Decode(buf).kind = "frame"
    /\ got' = Append(got, Decode(buf).msg)
    /\ buf' = SubSeq(buf, Decode(buf).consumed + 1, Len(buf))
    /\ pc' = "wait"
    /\ UNCHANGED <<reader, sent, out, closed, wire>>

(* FrameReader::next, drain_frames, poll(): one turn of the peeling loop. *)
PeelFrame ==
    /\ pc = "drain" /\ Decode(buf).kind = "frame"
    /\ got' = Append(got, Decode(buf).msg)
    /\ buf' = SubSeq(buf, Decode(buf).consumed + 1, Len(buf))
    /\ UNCHANGED <<reader, sent, out, closed, wire, pc>>

(* The length makes no sense: the stream is dead. *)
PeelError ==
    /\ pc = "drain" /\ Decode(buf).kind = "error"
    /\ Refuse
    /\ UNCHANGED <<reader, sent, out, closed, wire, got>>

(* No complete frame: back to reading.  StateServer bounds the rest here. *)
PeelMore ==
    /\ pc = "drain" /\ Decode(buf).kind = "more"
    /\ \/ reader = "server" /\ Len(buf) > Cap /\ Refuse
       \/ (reader # "server" \/ Len(buf) <= Cap) /\ pc' = "wait" /\ buf' = buf
    /\ UNCHANGED <<reader, sent, out, closed, wire, got>>

Writes == \E n \in 1..WireMax : Write(n)
Reads  == Feed \/ OnReadyRead \/ PollRead \/ PollDrained \/ Eof
Peels  == PeelFrame \/ PeelError \/ PeelMore

Next ==
    \/ \E m \in Messages : Send(m)
    \/ Writes \/ WriterCloses
    \/ Reads \/ Peels

Spec == Init /\ [][Next]_vars

(* write_frame and Qt keep writing while there is room; the serve loop and *)
(* the host's event loop come back to a socket that is readable.           *)
FairSpec == Spec /\ WF_vars(Writes) /\ WF_vars(Reads) /\ WF_vars(Peels)

-----------------------------------------------------------------------------
(* Each reader, fed in pieces that cut the frames anywhere, is a           *)
(* FrameChannel: no message is cut, doubled, reordered or made up, and     *)
(* none is held back for ever on a stream that lives.                      *)
Channel == INSTANCE FrameChannel WITH open <- pc \notin {"eof", "refused"}

ImplementsChannel == Channel!Spec

(* The bytes of the messages up to the i-th that have not come out yet. *)
BytesUpTo[i \in Len(got)..Len(sent)] ==
    IF i = Len(got) THEN 0 ELSE BytesUpTo[i - 1] + Len(Encode(sent[i]))

Undelivered == BytesUpTo[Len(sent)]

(* A connection is refused only for what it is meant to be refused for.    *)
(* FrameReader bounds its buffer before it looks for a frame in it, so it  *)
(* can turn away a legal frame within a read and a prefix of the cap, but  *)
(* none shorter, however the bytes were cut (framing.cpp:37); StateServer  *)
(* looks first, and needs no room for a read (state_server.cpp:94).        *)
(* IpcTransport peels nothing until a read comes back short, so a burst of *)
(* small messages can fill it too (ipc_transport.cpp:185).                 *)
RefusedForLength ==
    LET TooLong(n) == \E i \in DOMAIN sent : 1 + Len(sent[i].payload) > n
    IN  pc = "refused" =>
            CASE reader = "layer"   -> TooLong(Cap - 3 - Chunk)
              [] reader = "server"  -> TooLong(Cap - 3)
              [] reader = "discord" -> Undelivered > Cap

(* A peer that writes its last frames and closes is heard in full: when    *)
(* the overlay or the host sees the end of the stream, every frame written *)
(* whole has been handled (state_client.cpp:201-203, state_server.cpp:86). *)
(* IpcTransport is left out: it throws away what it has read in the same   *)
(* poll as the end of the stream (ipc_transport.cpp:192).                  *)
EofLosesNothing ==
    (pc = "eof" /\ reader # "discord")
        => Len(got) = Len(sent) - (IF out = <<>> THEN 0 ELSE 1)
=============================================================================
