---------------------------- MODULE SerialFrames ----------------------------
(***************************************************************************)
(* The frames on the car's serial line, and how SerialWorker::parseBuffer  *)
(* finds them in what has been read so far.                                *)
(***************************************************************************)
EXTENDS Naturals, FiniteSets, SequencesExt

PACKET_HEAD1 == 170
PACKET_HEAD2 == 85
PACKET_TAIL == 238
TYPE_WEATHER == 1
TYPE_CAR == 2
TYPE_REQUEST_WEATHER == 4

Byte == 0..255

\* How many of the bytes have the bit of weight p.
BitCount(bytes, p) == Cardinality({k \in DOMAIN bytes : (bytes[k] \div p) % 2 = 1})

\* Exclusive or: a bit is set if an odd number of the bytes have it.
XorAll(bytes) ==
    LET bit(p) == p * (BitCount(bytes, p) % 2)
    IN  bit(1) + bit(2) + bit(4) + bit(8) + bit(16) + bit(32) + bit(64) + bit(128)

calculateChecksum(type, data) == XorAll(<<type, Len(data)>> \o data)

Frame(type, data) ==
    <<PACKET_HEAD1, PACKET_HEAD2, type, Len(data)>> \o data
        \o <<calculateChecksum(type, data), PACKET_TAIL>>

From(bytes, n) == SubSeq(bytes, n, Len(bytes))

Heads(bytes) ==
    {i \in 1..Len(bytes) - 1 : bytes[i] = PACKET_HEAD1 /\ bytes[i + 1] = PACKET_HEAD2}

\* A bug to detect: nothing is kept of bytes without a head.
WithoutHead_Cleared(bytes) == << >>

\* What is kept of bytes without a head: the last may be half of one.
WithoutHead(bytes) == <<bytes[Len(bytes)]>>

\* A packet whose head, length and tail are there.
Packet(bytes) ==
    LET packet == [type |-> bytes[3], data |-> SubSeq(bytes, 5, 4 + bytes[4])]
    IN  IF bytes[bytes[4] + 5] = calculateChecksum(packet.type, packet.data)
        THEN <<packet>> ELSE << >>

\* A turn of the loop of parseBuffer for bytes that begin with a head.
AtHead(bytes) ==
    IF Len(bytes) < 6 \/ Len(bytes) < bytes[4] + 6
    THEN [left |-> bytes, found |-> << >>, more |-> FALSE]
    ELSE IF bytes[bytes[4] + 6] # PACKET_TAIL
    THEN [left |-> From(bytes, 3), found |-> << >>, more |-> TRUE]
    ELSE [left |-> From(bytes, bytes[4] + 7), found |-> Packet(bytes), more |-> TRUE]

\* A turn of the loop: what is left of the buffer, the packet found, and whether
\* another turn follows.
Turn(buffer) ==
    IF Len(buffer) < 6 THEN [left |-> buffer, found |-> << >>, more |-> FALSE]
    ELSE IF Heads(buffer) = {}
    THEN [left |-> WithoutHead(buffer), found |-> << >>, more |-> FALSE]
    ELSE AtHead(From(buffer, Min(Heads(buffer))))

\* The packets that the whole loop finds.
Packets[buffer \in Seq(Byte)] ==
    LET turn == Turn(buffer)
    IN  IF turn.more THEN turn.found \o Packets[turn.left] ELSE << >>
=============================================================================
