-------------------------- MODULE SerialLinkProofs --------------------------
(***************************************************************************)
(* The car's serial link, for any numbers of frames, calls, losses and     *)
(* pages, any car's and weather's data.                                    *)
(***************************************************************************)
EXTENDS SerialLink, Integers, SequenceTheorems, FiniteSetTheorems, WellFoundedInduction, TLAPS

\* Of the numbers in a set that is not empty one is the least.
Below == {p \in Nat \X Nat : p[1] < p[2]}

LEMMA BelowWellFounded == IsWellFoundedOn(Below, Nat)
<1>1. Below = OpToRel(<, Nat)
    BY DEF Below, OpToRel
<1> QED
    BY <1>1, NatLessThanWellFounded

LEMMA Least ==
    ASSUME NEW S, S \subseteq Nat, S # {}
    PROVE  \E m \in S : \A n \in S : m <= n
<1>1. PICK m \in S : \A n \in S : <<n, m>> \notin Below
    BY BelowWellFounded, WFMin
<1>2. ASSUME NEW n \in S PROVE m <= n
    <2>1. m \in Nat /\ n \in Nat
        OBVIOUS
    <2>2. n < m => <<n, m>> \in Below
        BY <2>1 DEF Below
    <2> QED
        BY <1>1, <2>1, <2>2
<1> QED
    BY <1>2

LEMMA MinIsLeast ==
    ASSUME NEW S, S \subseteq Nat, S # {}
    PROVE  Min(S) \in S /\ \A n \in S : Min(S) <= n
BY Least DEF Min

-----------------------------------------------------------------------------
(* Bytes and frames.                                                        *)

Report == [type : Byte, data : Seq(Byte)]

LEMMA FromTyped ==
    ASSUME NEW bytes \in Seq(Byte), NEW n \in 1 .. Len(bytes) + 1
    PROVE  /\ From(bytes, n) \in Seq(Byte)
           /\ Len(From(bytes, n)) = Len(bytes) - n + 1
           /\ \A k \in 1 .. Len(bytes) - n + 1 : From(bytes, n)[k] = bytes[n + k - 1]
<1>1. Len(bytes) \in Nat /\ \A k \in n .. Len(bytes) : bytes[k] \in Byte
    BY LenProperties, ElementOfSeq
<1> QED
    BY <1>1, SubSeqProperties DEF From

\* A checksum is a byte.
LEMMA ChecksumTyped ==
    ASSUME NEW type, NEW data, DOMAIN (<<type, Len(data)>> \o data) \in SUBSET Nat,
           IsFiniteSet(DOMAIN (<<type, Len(data)>> \o data))
    PROVE  calculateChecksum(type, data) \in Byte
<1> DEFINE bytes == <<type, Len(data)>> \o data
<1>1. ASSUME NEW p PROVE BitCount(bytes, p) \in Nat
    <2>1. IsFiniteSet({k \in DOMAIN bytes : (bytes[k] \div p) % 2 = 1})
        BY FS_Subset
    <2> QED
        BY <2>1, FS_CardinalityType DEF BitCount
<1>2. ASSUME NEW p PROVE BitCount(bytes, p) % 2 \in 0 .. 1
    BY <1>1
<1> HIDE DEF bytes
<1>3. XorAll(bytes) \in Byte
    <2> DEFINE odd(p) == BitCount(bytes, p) % 2
    <2>1. XorAll(bytes) = 1 * odd(1) + 2 * odd(2) + 4 * odd(4) + 8 * odd(8) + 16 * odd(16)
                            + 32 * odd(32) + 64 * odd(64) + 128 * odd(128)
        BY DEF XorAll
    <2>2. /\ odd(1) \in 0 .. 1 /\ odd(2) \in 0 .. 1 /\ odd(4) \in 0 .. 1 /\ odd(8) \in 0 .. 1
          /\ odd(16) \in 0 .. 1 /\ odd(32) \in 0 .. 1 /\ odd(64) \in 0 .. 1
          /\ odd(128) \in 0 .. 1
        BY <1>2
    <2> DEFINE bit(p) == p * odd(p)
    <2> HIDE DEF odd
    <2>3. /\ bit(1) \in 0 .. 1 /\ bit(2) \in 0 .. 2 /\ bit(4) \in 0 .. 4 /\ bit(8) \in 0 .. 8
          /\ bit(16) \in 0 .. 16 /\ bit(32) \in 0 .. 32 /\ bit(64) \in 0 .. 64
          /\ bit(128) \in 0 .. 128
        BY <2>2
    <2>4. XorAll(bytes) \in 0 .. 255
        <3>1. XorAll(bytes) = bit(1) + bit(2) + bit(4) + bit(8) + bit(16) + bit(32) + bit(64)
                                + bit(128)
            BY <2>1
        <3> HIDE DEF bit
        <3>2. PICK a \in 0 .. 1, b \in 0 .. 2, c \in 0 .. 4, d \in 0 .. 8, e \in 0 .. 16,
                   f \in 0 .. 32, g \in 0 .. 64, h \in 0 .. 128 :
                       /\ a = bit(1) /\ b = bit(2) /\ c = bit(4) /\ d = bit(8) /\ e = bit(16)
                       /\ f = bit(32) /\ g = bit(64) /\ h = bit(128)
            BY <2>3
        <3>3. XorAll(bytes) = a + b + c + d + e + f + g + h
            BY <3>1, <3>2
        <3> QED
            BY <3>3
    <2> QED
        BY <2>4 DEF Byte
<1> QED
    BY <1>3 DEF calculateChecksum, bytes

LEMMA HeadFound ==
    ASSUME NEW buffer \in Seq(Byte), Heads(buffer) # {}
    PROVE  /\ Min(Heads(buffer)) \in 1 .. Len(buffer) - 1
           /\ buffer[Min(Heads(buffer))] = PACKET_HEAD1
           /\ buffer[Min(Heads(buffer)) + 1] = PACKET_HEAD2
           /\ \A i \in Heads(buffer) : Min(Heads(buffer)) <= i
<1>1. Heads(buffer) \subseteq 1 .. Len(buffer) - 1 /\ Len(buffer) \in Nat
    BY DEF Heads
<1>2. Min(Heads(buffer)) \in Heads(buffer) /\ \A i \in Heads(buffer) : Min(Heads(buffer)) <= i
    BY <1>1, MinIsLeast
<1> QED
    BY <1>1, <1>2 DEF Heads

\* A turn of the loop finds one packet at most, and leaves less bytes if another
\* turn follows.
LEMMA AtHeadTyped ==
    ASSUME NEW bytes \in Seq(Byte)
    PROVE  LET turn == AtHead(bytes)
           IN  /\ turn.left \in Seq(Byte)
               /\ turn.found = << >> \/ \E p \in Report : turn.found = <<p>>
               /\ turn.more \in BOOLEAN
               /\ turn.more => Len(turn.left) < Len(bytes)
               /\ Len(turn.left) <= Len(bytes)
<1>1. CASE Len(bytes) < 6 \/ Len(bytes) < bytes[4] + 6
    BY <1>1 DEF AtHead
<1>2. CASE ~(Len(bytes) < 6 \/ Len(bytes) < bytes[4] + 6)
    <2>0. Len(bytes) \in Nat /\ 6 <= Len(bytes) /\ \A k \in 1 .. Len(bytes) : bytes[k] \in Byte
        BY <1>2, LenProperties, ElementOfSeq
    <2>1. PICK n \in 0 .. 255 : n = bytes[4]
        <3>1. 4 \in 1 .. Len(bytes)
            BY <2>0
        <3> QED
            BY <2>0, <3>1 DEF Byte
    <2>6. n + 6 <= Len(bytes) /\ 3 \in 1 .. Len(bytes) /\ bytes[3] \in Byte
        <3>1. ~(Len(bytes) < n + 6)
            BY <1>2, <2>1
        <3>2. n + 6 <= Len(bytes) /\ 3 \in 1 .. Len(bytes)
            BY <2>0, <3>1
        <3> QED
            BY <2>0, <3>2
    <2>2. From(bytes, 3) \in Seq(Byte) /\ Len(From(bytes, 3)) < Len(bytes)
        BY <2>0, <2>6, FromTyped
    <2>3. From(bytes, n + 7) \in Seq(Byte) /\ Len(From(bytes, n + 7)) < Len(bytes)
        <3>1. n + 7 \in 1 .. Len(bytes) + 1
            BY <2>0, <2>6
        <3>2. PICK m \in 1 .. Len(bytes) + 1 : m = n + 7
            BY <3>1
        <3>3. From(bytes, m) \in Seq(Byte) /\ Len(From(bytes, m)) = Len(bytes) - m + 1
            BY FromTyped
        <3> QED
            BY <2>0, <3>2, <3>3
    <2>4. SubSeq(bytes, 5, 4 + n) \in Seq(Byte)
        <3>1. \A k \in 5 .. 4 + n : bytes[k] \in Byte
            BY <2>0, <2>6
        <3> QED
            BY <3>1, SubSeqProperties
    <2>5. Packet(bytes) = << >> \/ \E p \in Report : Packet(bytes) = <<p>>
        BY <2>1, <2>6, <2>4 DEF Packet, Report
    <2> QED
        BY <1>2, <2>0, <2>1, <2>2, <2>3, <2>5 DEF AtHead
<1> QED
    BY <1>1, <1>2

LEMMA TurnTyped ==
    ASSUME NEW buffer \in Seq(Byte)
    PROVE  LET turn == Turn(buffer)
           IN  /\ turn.left \in Seq(Byte)
               /\ turn.found = << >> \/ \E p \in Report : turn.found = <<p>>
               /\ turn.more \in BOOLEAN
               /\ turn.more => Len(turn.left) < Len(buffer)
               /\ Len(turn.left) <= Len(buffer)
<1>1. CASE Len(buffer) < 6
    BY <1>1 DEF Turn
<1>2. CASE Len(buffer) >= 6 /\ Heads(buffer) = {}
    BY <1>2 DEF Turn, WithoutHead
<1>3. CASE Len(buffer) >= 6 /\ Heads(buffer) # {}
    <2> DEFINE from == From(buffer, Min(Heads(buffer)))
    <2>1. from \in Seq(Byte) /\ Len(from) <= Len(buffer)
        <3>1. Min(Heads(buffer)) \in 1 .. Len(buffer) + 1 /\ Len(buffer) \in Nat
            BY <1>3, HeadFound
        <3> QED
            BY <3>1, FromTyped
    <2>2. Turn(buffer) = AtHead(from)
        BY <1>3 DEF Turn
    <2> HIDE DEF from
    <2>3. Len(from) \in Nat /\ Len(buffer) \in Nat /\ Len(AtHead(from).left) \in Nat
        BY <2>1, AtHeadTyped
    <2> QED
        BY <2>1, <2>2, <2>3, AtHeadTyped
<1> QED
    BY <1>1, <1>2, <1>3

-----------------------------------------------------------------------------
(* Types.                                                                   *)

SerialWorker == [port : {"none", "open", "shut"}, buffer : Seq(Byte), timer : BOOLEAN,
                 weather : BOOLEAN, car : Seq(Byte), reverse : BOOLEAN, parsing : BOOLEAN]

SerialHandler == [connected : BOOLEAN, weather : BOOLEAN, reversing : BOOLEAN, car : Seq(Byte)]

Queued == [signal : {"weatherDataReceived", "carDataReceived"}, value : Seq(Byte)]
            \cup [signal : {"reverseStateChanged"}, value : BOOLEAN]
            \cup {[signal |-> "connected", value |-> TRUE],
                  [signal |-> "disconnected", value |-> FALSE]}

ThreadsOK ==
    /\ worker \in SerialWorker /\ calls \in Seq({"startWork", "stopWork"})
    /\ signals \in Seq(Queued) /\ handler \in SerialHandler
    /\ stack \in Seq({"home", "subPage", "reversePage"}) /\ quit \in {"no", "asked", "done"}

StreamOK ==
    /\ wire \in Seq(Byte) /\ asked \in BOOLEAN /\ stub \in Seq(Byte) /\ read \in Seq(Byte)
    /\ sent \in Seq(Report) /\ ends \in Seq(Nat) /\ got \in Seq(Report) /\ lost \in Nat

LEMMA NoCarTyped == NoCar \in Seq(Byte) /\ Len(NoCar) = CarLen
<1>1. CarLen \in Nat /\ NoCar \in [1 .. CarLen -> Byte]
    BY LinkAssumption DEF NoCar, Byte
<1> QED
    BY <1>1, SeqDef, LenProperties

LEMMA EmitTyped ==
    ASSUME ThreadsOK, NEW emitted \in Seq(Queued), Emit(emitted)
    PROVE  signals' \in Seq(Queued)
BY DEF ThreadsOK, Emit

LEMMA SignalTyped ==
    /\ \A n \in {"weatherDataReceived", "carDataReceived"}, d \in Seq(Byte) :
           Signal(n, d) \in Queued
    /\ \A b \in BOOLEAN : Signal("reverseStateChanged", b) \in Queued
    /\ Signal("connected", TRUE) \in Queued /\ Signal("disconnected", FALSE) \in Queued
BY DEF Signal, Queued

LEMMA OneElement == ASSUME NEW S, NEW x \in S PROVE <<x>> \in Seq(S)
OBVIOUS

LEMMA TwoElements == ASSUME NEW S, NEW x \in S, NEW y \in S PROVE <<x>> \o <<y>> \in Seq(S)
BY OneElement, ConcatProperties

LEMMA StopTyped ==
    ASSUME ThreadsOK
    PROVE  Stopped(worker) \in SerialWorker /\ StopSignals \in Seq(Queued)
<1>1. Signal("disconnected", FALSE) \in Queued
    BY SignalTyped
<1>2. StopSignals \in Seq(Queued)
    <2>1. << >> \in Seq(Queued)
        OBVIOUS
    <2>2. <<Signal("disconnected", FALSE)>> \in Seq(Queued)
        BY <1>1, OneElement
    <2> QED
        BY <2>1, <2>2 DEF StopSignals
<1>3. Stopped(worker) \in SerialWorker
    <2>1. worker \in SerialWorker /\ << >> \in Seq(Byte) /\ FALSE \in BOOLEAN
        BY DEF ThreadsOK
    <2> DEFINE w == [worker EXCEPT !.timer = FALSE, !.port = "none"]
    <2>2. w \in SerialWorker
        BY <2>1 DEF SerialWorker
    <2>3. Stopped(worker) = [w EXCEPT !.buffer = << >>]
        BY DEF Stopped
    <2> HIDE DEF w
    <2> QED
        BY <2>1, <2>2, <2>3 DEF SerialWorker
<1> QED
    BY <1>2, <1>3

LEMMA MainThreads ==
    ASSUME ThreadsOK, OnSignal \/ EnterSubPage \/ GoBack \/ Quit \/ Call("startWork")
                        \/ Call("stopWork")
    PROVE  ThreadsOK'
<1>1. CASE OnSignal
    <2> DEFINE s == Head(signals)
    <2>1. s \in Queued /\ Tail(signals) \in Seq(Queued)
        BY <1>1 DEF OnSignal, ThreadsOK
    <2>2. handler' \in SerialHandler
        <3>1. s.signal = "reverseStateChanged" => s.value \in BOOLEAN
            BY <2>1 DEF Queued
        <3>2. s.signal = "carDataReceived" => s.value \in Seq(Byte)
            BY <2>1 DEF Queued
        <3> QED
            BY <1>1, <3>1, <3>2 DEF OnSignal, ThreadsOK, SerialHandler, onReverseChanged
    <2>3. stack' \in Seq({"home", "subPage", "reversePage"})
        <3>1. Append(stack, "reversePage") \in Seq({"home", "subPage", "reversePage"})
            BY DEF ThreadsOK
        <3>2. stack # << >> => Front(stack) \in Seq({"home", "subPage", "reversePage"})
            <4>1. Len(stack) \in Nat /\ \A k \in 1 .. Len(stack) - 1 : stack[k] \in {"home", "subPage", "reversePage"}
                BY ElementOfSeq, LenProperties DEF ThreadsOK
            <4> QED
                BY <4>1, SubSeqProperties DEF Front
        <3>3. Len(stack) > 1 => stack # << >>
            OBVIOUS
        <3> QED
            BY <1>1, <3>1, <3>2, <3>3 DEF OnSignal, ThreadsOK, onReverseChanged
    <2> QED
        BY <1>1, <2>1, <2>2, <2>3 DEF OnSignal, ThreadsOK
<1>2. CASE EnterSubPage
    BY <1>2 DEF EnterSubPage, ThreadsOK
<1>3. CASE GoBack
    <2>1. Len(stack) \in Nat /\ \A k \in 1 .. Len(stack) - 1 : stack[k] \in {"home", "subPage", "reversePage"}
        BY ElementOfSeq, LenProperties DEF ThreadsOK
    <2>2. Front(stack) \in Seq({"home", "subPage", "reversePage"})
        BY <2>1, SubSeqProperties DEF Front
    <2> QED
        BY <1>3, <2>2 DEF GoBack, ThreadsOK
<1>4. CASE Quit
    BY <1>4 DEF Quit, ThreadsOK
<1>5. CASE Call("startWork") \/ Call("stopWork")
    <2>1. calls' \in Seq({"startWork", "stopWork"})
        BY ZenonT(30), <1>5, AppendProperties DEF Call, ThreadsOK
    <2> QED
        BY <1>5, <2>1 DEF Call, ThreadsOK
<1> QED
    BY <1>1, <1>2, <1>3, <1>4, <1>5

LEMMA SlotThreads ==
    ASSUME ThreadsOK, StreamOK,
           startWork \/ stopWork \/ requestWeatherData \/ Finish
             \/ (\E n \in 1 .. Len(wire) : onReadyRead(n))
    PROVE  ThreadsOK'
<1> USE StopTyped
<1>1. CASE startWork
    <2> DEFINE w == IF worker.port = "none" THEN worker ELSE Stopped(worker)
    <2>1. w \in SerialWorker
        BY DEF ThreadsOK
    <2>2. Started(w) \in SerialWorker /\ [w EXCEPT !.port = "shut"] \in SerialWorker
        <3> HIDE DEF w
        <3> QED
            BY <2>1 DEF Started, SerialWorker
    <2>3. StopSignals \o <<Signal("connected", TRUE)>> \in Seq(Queued)
        <3>1. <<Signal("connected", TRUE)>> \in Seq(Queued)
            BY SignalTyped, OneElement
        <3> QED
            BY <3>1, ConcatProperties
    <2>4. worker' \in SerialWorker /\ signals' \in Seq(Queued)
        BY <1>1, <2>2, <2>3, EmitTyped DEF startWork
    <2> QED
        BY <1>1, <2>4 DEF startWork, ThreadsOK
<1>2. CASE stopWork
    BY <1>2, EmitTyped DEF stopWork, ThreadsOK
<1>3. CASE requestWeatherData
    BY <1>3 DEF requestWeatherData, ThreadsOK, SerialWorker
<1>4. CASE Finish
    BY <1>4, EmitTyped DEF Finish, ThreadsOK
<1>5. ASSUME NEW n \in 1 .. Len(wire), onReadyRead(n) PROVE ThreadsOK'
    <2>1. SubSeq(wire, 1, n) \in Seq(Byte)
        <3>1. \A k \in 1 .. n : wire[k] \in Byte
            BY ElementOfSeq, LenProperties DEF StreamOK
        <3> QED
            BY <3>1, SubSeqProperties
    <2>2. worker' \in SerialWorker
        <3>1. worker.buffer \o SubSeq(wire, 1, n) \in Seq(Byte)
            BY <2>1, ConcatProperties DEF ThreadsOK, SerialWorker
        <3> DEFINE b == worker.buffer \o SubSeq(wire, 1, n)
        <3>2. worker' = [worker EXCEPT !.buffer = b, !.parsing = TRUE]
            BY <1>5 DEF onReadyRead
        <3> HIDE DEF b
        <3> QED
            BY <3>1, <3>2 DEF ThreadsOK, SerialWorker, b
    <2> QED
        BY <1>5, <2>2 DEF onReadyRead, ThreadsOK
<1> QED
    BY <1>1, <1>2, <1>3, <1>4, <1>5

LEMMA CarTyped ==
    ASSUME NEW car \in Seq(Byte), Len(car) = CarLen
    PROVE  Reversing(car) \in BOOLEAN
BY DEF Reversing

LEMMA ParseThreads == ASSUME ThreadsOK, parseBuffer PROVE ThreadsOK'
<1> DEFINE turn == Turn(worker.buffer)
           w == [worker EXCEPT !.buffer = turn.left, !.parsing = turn.more]
<1>1. /\ turn.left \in Seq(Byte) /\ turn.more \in BOOLEAN
      /\ turn.found = << >> \/ \E p \in Report : turn.found = <<p>>
    BY TurnTyped DEF ThreadsOK, SerialWorker
<1>2. /\ \/ turn.found = << >> /\ worker' = w /\ UNCHANGED signals
         \/ turn.found # << >> /\ parsePacket(w, turn.found[1])
      /\ UNCHANGED <<calls, handler, stack, quit>>
    BY DEF parseBuffer
<1> HIDE DEF turn
<1>3. w \in SerialWorker
    BY <1>1 DEF ThreadsOK, SerialWorker
<1> HIDE DEF w
<1>4. CASE turn.found = << >>
    BY <1>2, <1>3, <1>4 DEF ThreadsOK
<1>5. ASSUME NEW p \in Report, turn.found = <<p>> PROVE ThreadsOK'
    <2>1. parsePacket(w, p) /\ p.data \in Seq(Byte)
        BY <1>2, <1>5 DEF Report
    <2>2. CASE worker' = [w EXCEPT !.weather = TRUE] /\ Emit(<<Signal("weatherDataReceived", p.data)>>)
        <3>1. signals' \in Seq(Queued)
            BY <2>1, <2>2, SignalTyped, OneElement, EmitTyped
        <3>2. worker' \in SerialWorker
            BY <1>3, <2>2 DEF SerialWorker
        <3> QED
            BY <1>2, <3>1, <3>2 DEF ThreadsOK
    <2>3. CASE /\ p.type = TYPE_CAR /\ Len(p.data) = CarLen
               /\ worker' = [w EXCEPT !.car = p.data, !.reverse = Reversing(p.data)]
               /\ Emit(<<Signal("carDataReceived", p.data)>>
                       \o IF Reversing(p.data) = worker.reverse THEN << >>
                          ELSE <<Signal("reverseStateChanged", Reversing(p.data))>>)
        <3>1. Reversing(p.data) \in BOOLEAN
            BY <2>1, <2>3, CarTyped
        <3> DEFINE a == <<Signal("carDataReceived", p.data)>>
                   b == <<Signal("reverseStateChanged", Reversing(p.data))>>
        <3>2. a \in Seq(Queued) /\ b \in Seq(Queued) /\ << >> \in Seq(Queued)
            BY <2>1, <3>1, SignalTyped, OneElement
        <3> HIDE DEF a, b
        <3>3. a \o << >> \in Seq(Queued) /\ a \o b \in Seq(Queued)
            BY <3>2, ConcatProperties
        <3>4. signals' \in Seq(Queued)
            BY <2>3, <3>3, EmitTyped DEF a, b
        <3>5. worker' \in SerialWorker
            <4> DEFINE r == Reversing(p.data)
            <4>1. r \in BOOLEAN /\ worker' = [w EXCEPT !.car = p.data, !.reverse = r]
                BY <2>3, <3>1
            <4> HIDE DEF r
            <4> QED
                BY <1>3, <2>1, <4>1 DEF SerialWorker
        <3> QED
            BY <1>2, <3>4, <3>5 DEF ThreadsOK
    <2>4. CASE worker' = w /\ UNCHANGED signals
        BY <1>2, <1>3, <2>4 DEF ThreadsOK
    <2> QED
        BY <2>1, <2>2, <2>3, <2>4 DEF parsePacket
<1> QED
    BY <1>1, <1>4, <1>5

\* The car's and the operating system's steps leave the threads alone.
LEMMA CarThreads == ASSUME ThreadsOK, SendCar \/ Answer PROVE ThreadsOK'
BY DEF SendCar, Answer, Transmit, ThreadsOK

\* A frame of bytes is a sequence of bytes, whichever byte of it is lost.
LEMMA FrameTyped ==
    ASSUME NEW type \in Byte, NEW data \in Seq(Byte), Len(data) \in Byte
    PROVE  /\ Frame(type, data) \in Seq(Byte)
           /\ Len(Frame(type, data)) = Len(data) + 6
           /\ calculateChecksum(type, data) \in Byte
<1> DEFINE head == <<PACKET_HEAD1, PACKET_HEAD2, type, Len(data)>>
           sum == calculateChecksum(type, data)
<1>1. sum \in Byte
    <2> DEFINE bytes == <<type, Len(data)>> \o data
    <2>1. <<type, Len(data)>> \in Seq(Byte)
        OBVIOUS
    <2>2. bytes \in Seq(Byte)
        BY <2>1, ConcatProperties
    <2>3. DOMAIN bytes = 1 .. Len(bytes) /\ Len(bytes) \in Nat
        BY <2>2, LenProperties
    <2>4. IsFiniteSet(DOMAIN bytes) /\ DOMAIN bytes \in SUBSET Nat
        BY <2>3, FS_Interval
    <2> QED
        BY <2>4, ChecksumTyped
<1>2. head \in Seq(Byte) /\ Len(head) = 4
    BY SMTT(20) DEF PACKET_HEAD1, PACKET_HEAD2, Byte
<1>3. <<sum, PACKET_TAIL>> \in Seq(Byte) /\ Len(<<sum, PACKET_TAIL>>) = 2
    BY SMTT(20), <1>1 DEF PACKET_TAIL, Byte
<1> HIDE DEF head
<1>4. head \o data \in Seq(Byte) /\ Len(head \o data) = 4 + Len(data)
    <2>1. head \o data \in Seq(Byte) /\ Len(head \o data) = Len(head) + Len(data)
        BY <1>2, ConcatProperties
    <2> QED
        BY <1>2, <2>1
<1>5. Frame(type, data) = (head \o data) \o <<sum, PACKET_TAIL>>
    BY DEF Frame, head
<1> HIDE DEF sum
<1>6. Frame(type, data) \in Seq(Byte) /\ Len(Frame(type, data)) = (4 + Len(data)) + 2
    BY <1>3, <1>4, <1>5, ConcatProperties
<1> QED
    BY <1>1, <1>6 DEF sum

LEMMA CarDataTyped ==
    /\ \A data \in CarData : [type |-> TYPE_CAR, data |-> data] \in Report /\ Len(data) \in Byte
    /\ [type |-> TYPE_WEATHER, data |-> Weather] \in Report /\ Len(Weather) \in Byte
<1>1. CarLen \in Nat /\ CarLen \in Byte /\ Weather \in Seq(Byte) /\ Len(Weather) \in Byte
    BY SMTT(20), LinkAssumption DEF Byte
<1>2. TYPE_CAR \in Byte /\ TYPE_WEATHER \in Byte
    BY DEF TYPE_CAR, TYPE_WEATHER, Byte
<1>3. ASSUME NEW data \in CarData PROVE data \in Seq(Byte) /\ Len(data) \in Byte
    <2>1. CASE data = << >>
        BY <2>1 DEF Byte
    <2>2. ASSUME NEW r \in {0, 1}, data = [k \in 1 .. CarLen |-> IF k = CarLen THEN r ELSE 0]
          PROVE  data \in Seq(Byte) /\ Len(data) \in Byte
        <3>1. data \in [1 .. CarLen -> Byte]
            BY <2>2 DEF Byte
        <3>2. data \in Seq(Byte)
            BY <1>1, <3>1, SeqDef
        <3>3. Len(data) = CarLen
            BY <1>1, <3>1, <3>2, LenProperties
        <3> QED
            BY <1>1, <3>2, <3>3
    <2> QED
        BY <2>1, <2>2 DEF CarData
<1> QED
    BY <1>1, <1>2, <1>3 DEF Report

\* A frame goes out: bytes are added to the wire, none or all of the frame's but one.
LEMMA TransmitTyped ==
    ASSUME StreamOK, NEW type \in Byte, NEW data \in Seq(Byte), Len(data) \in Byte,
           Transmit(type, data), asked' \in BOOLEAN
    PROVE  StreamOK'
<1> DEFINE frame == Frame(type, data)
<1>1. frame \in Seq(Byte)
    BY FrameTyped
<1> HIDE DEF frame
<1>2. \A k \in DOMAIN frame : RemoveAt(frame, k) \in Seq(Byte)
    <2> SUFFICES ASSUME NEW k \in DOMAIN frame PROVE RemoveAt(frame, k) \in Seq(Byte)
        OBVIOUS
    <2>1. Len(frame) \in Nat /\ k \in 1 .. Len(frame) /\ \A i \in 1 .. Len(frame) : frame[i] \in Byte
        BY <1>1, LenProperties, ElementOfSeq
    <2>2. SubSeq(frame, 1, k - 1) \in Seq(Byte) /\ SubSeq(frame, k + 1, Len(frame)) \in Seq(Byte)
        BY <2>1, SubSeqProperties
    <2> QED
        BY <2>2, ConcatProperties DEF RemoveAt
<1>3. wire' \in Seq(Byte) /\ lost' \in Nat
    <2>1. CASE wire' = wire \o frame /\ UNCHANGED lost
        BY <1>1, <2>1, ConcatProperties DEF StreamOK
    <2>2. ASSUME NEW k \in DOMAIN frame, wire' = wire \o RemoveAt(frame, k), lost' = lost + 1
          PROVE  wire' \in Seq(Byte) /\ lost' \in Nat
        BY <1>2, <2>2, ConcatProperties DEF StreamOK
    <2> QED
        BY <2>1, <2>2 DEF Transmit, frame
<1>4. [type |-> type, data |-> data] \in Report
    BY DEF Report
<1>5. sent' \in Seq(Report)
    BY <1>4, AppendProperties DEF StreamOK, Transmit
<1>6. ends' \in Seq(Nat)
    <2>1. Len(read) + Len(wire') \in Nat
        BY <1>3, LenProperties DEF StreamOK
    <2> QED
        BY <2>1, AppendProperties DEF StreamOK, Transmit
<1> QED
    BY <1>3, <1>5, <1>6 DEF StreamOK, Transmit

LEMMA PieceTyped ==
    ASSUME StreamOK, NEW n \in 1 .. Len(wire)
    PROVE  /\ SubSeq(wire, 1, n) \in Seq(Byte) /\ Len(SubSeq(wire, 1, n)) = n
           /\ From(wire, n + 1) \in Seq(Byte) /\ Len(From(wire, n + 1)) = Len(wire) - n
<1>1. Len(wire) \in Nat /\ n \in Nat /\ \A k \in 1 .. Len(wire) : wire[k] \in Byte
    BY ElementOfSeq, LenProperties DEF StreamOK
<1>2. SubSeq(wire, 1, n) \in Seq(Byte) /\ Len(SubSeq(wire, 1, n)) = n
    BY <1>1, SubSeqProperties
<1>3. PICK m \in 1 .. Len(wire) + 1 : m = n + 1
    BY <1>1
<1>4. From(wire, m) \in Seq(Byte) /\ Len(From(wire, m)) = Len(wire) - m + 1
    BY FromTyped DEF StreamOK
<1> QED
    BY <1>1, <1>2, <1>3, <1>4

LEMMA StubTyped == From(Frame(TYPE_CAR, NoCar), 4 + CarLen) \in Seq(Byte)
<1>1. Frame(TYPE_CAR, NoCar) \in Seq(Byte) /\ Len(Frame(TYPE_CAR, NoCar)) = CarLen + 6
    <2>1. TYPE_CAR \in Byte /\ NoCar \in Seq(Byte) /\ Len(NoCar) = CarLen /\ CarLen \in Byte
        BY SMTT(20), NoCarTyped, LinkAssumption DEF TYPE_CAR, Byte
    <2> QED
        BY <2>1, FrameTyped
<1>2. 4 + CarLen \in 1 .. Len(Frame(TYPE_CAR, NoCar)) + 1
    BY SMTT(20), <1>1, LinkAssumption
<1> QED
    BY <1>1, <1>2, FromTyped

LEMMA NothingTyped == << >> \in Seq(Report) /\ << >> \in Seq(Nat) /\ << >> \in Seq(Byte)
OBVIOUS

Typed == ThreadsOK /\ StreamOK

LEMMA TypedInit == Init => Typed
<1> SUFFICES ASSUME Init PROVE Typed
    OBVIOUS
<1>1. worker \in SerialWorker /\ handler \in SerialHandler
    <2>1. << >> \in Seq(Byte) /\ NoCar \in Seq(Byte)
        BY NoCarTyped
    <2> QED
        BY <2>1 DEF Init, SerialWorker, SerialHandler
<1>2. stack \in Seq({"home", "subPage", "reversePage"})
    BY OneElement DEF Init
<1> QED
    <2>1. ThreadsOK
        BY <1>1, <1>2 DEF Init, ThreadsOK
    <2>2. StreamOK
        BY NothingTyped DEF Init, StreamOK
    <2> QED
        BY <2>1, <2>2 DEF Typed

LEMMA TypedStep == Typed /\ [Next]_vars => Typed'
<1> SUFFICES ASSUME ThreadsOK, StreamOK, [Next]_vars PROVE ThreadsOK' /\ StreamOK'
    BY DEF Typed
<1>1. CASE OnSignal \/ EnterSubPage \/ GoBack \/ Quit \/ Call("startWork") \/ Call("stopWork")
    <2>1. UNCHANGED <<line, history, lost>>
        BY <1>1 DEF OnSignal, EnterSubPage, GoBack, Quit, Call, bounds
    <2> QED
        BY <1>1, <2>1, MainThreads DEF StreamOK, line, history
<1>2. CASE startWork
    <2>0. wire' = stub' /\ stub' \in {<< >>, From(Frame(TYPE_CAR, NoCar), 4 + CarLen)}
        BY <1>2, Zenon DEF startWork
    <2>1. stub' \in Seq(Byte) /\ wire' = stub'
        BY <2>0, StubTyped, NothingTyped
    <2>3. StreamOK'
        BY <1>2, <2>1, NothingTyped DEF startWork, StreamOK
    <2> QED
        BY <1>2, <2>3, SlotThreads
<1>3. CASE stopWork \/ requestWeatherData \/ Finish
    <2>1. wire' \in {wire, << >>} /\ asked' \in {asked, TRUE, FALSE}
        BY <1>3 DEF stopWork, requestWeatherData, Finish
    <2>2. UNCHANGED <<sent, ends, stub, read, got, lost>>
        BY <1>3 DEF stopWork, requestWeatherData, Finish, history, bounds
    <2>3. wire' \in Seq(Byte) /\ asked' \in BOOLEAN
        BY <2>1, NothingTyped DEF StreamOK
    <2>4. StreamOK'
        BY <2>2, <2>3 DEF StreamOK
    <2> QED
        BY <1>3, <2>4, SlotThreads
<1>4. ASSUME NEW n \in 1 .. Len(wire), onReadyRead(n) PROVE ThreadsOK' /\ StreamOK'
    <2>1. read' \in Seq(Byte) /\ wire' \in Seq(Byte)
        BY <1>4, PieceTyped, ConcatProperties DEF onReadyRead, StreamOK
    <2>2. StreamOK'
        BY <1>4, <2>1 DEF onReadyRead, StreamOK, bounds
    <2> QED
        BY <1>4, <2>2, SlotThreads
<1>5. CASE parseBuffer
    <2> DEFINE found == Turn(worker.buffer).found
    <2>1. found \in Seq(Report)
        <3>1. worker.buffer \in Seq(Byte)
            BY DEF ThreadsOK, SerialWorker
        <3>2. found = << >> \/ \E p \in Report : found = <<p>>
            BY <3>1, TurnTyped
        <3>3. << >> \in Seq(Report) /\ \A p \in Report : <<p>> \in Seq(Report)
            BY OneElement
        <3> HIDE DEF found
        <3> QED
            BY <3>2, <3>3
    <2>2. got' = got \o found
        BY <1>5 DEF parseBuffer
    <2> HIDE DEF found
    <2>3. got' \in Seq(Report)
        BY <2>1, <2>2, ConcatProperties DEF StreamOK
    <2>4. StreamOK'
        BY <1>5, <2>3 DEF parseBuffer, StreamOK, line, bounds
    <2> QED
        BY <1>5, <2>4, ParseThreads
<1>6. CASE SendCar
    <2>1. PICK data \in CarData : Transmit(TYPE_CAR, data) /\ asked' = asked
        BY <1>6 DEF SendCar
    <2>2. TYPE_CAR \in Byte /\ data \in Seq(Byte) /\ Len(data) \in Byte
        BY CarDataTyped DEF Report
    <2>3. StreamOK'
        BY <2>1, <2>2, TransmitTyped DEF StreamOK
    <2> QED
        BY <1>6, <2>3, CarThreads
<1>7. CASE Answer
    <2>1. TYPE_WEATHER \in Byte /\ Weather \in Seq(Byte) /\ Len(Weather) \in Byte
        BY CarDataTyped DEF Report
    <2>2. StreamOK'
        BY <1>7, <2>1, TransmitTyped DEF Answer
    <2> QED
        BY <1>7, <2>2, CarThreads
<1>8. CASE UNCHANGED vars
    BY <1>8 DEF ThreadsOK, StreamOK, vars, line, history, bounds
<1> QED
    BY <1>1, <1>2, <1>3, <1>4, <1>5, <1>6, <1>7, <1>8 DEF Next

LEMMA TypedAlways == Spec => []Typed
BY TypedInit, TypedStep, PTL DEF Spec

-----------------------------------------------------------------------------
(* The requests for the weather.                                            *)

\* Whatever is lost on the line and however often the port is opened: while it
\* is open the timer runs or the weather has come (startWork, requestWeatherData).
THEOREM WeatherAskedFor == Spec => []RequestsGoOn
<1>1. Init => RequestsGoOn
    BY DEF Init, RequestsGoOn
<1>2. Typed /\ RequestsGoOn /\ [Next]_vars => RequestsGoOn'
    <2> SUFFICES ASSUME ThreadsOK, RequestsGoOn, [Next]_vars PROVE RequestsGoOn'
        BY DEF Typed
    <2> USE DEF RequestsGoOn
    <2>1. CASE UNCHANGED worker
        BY <2>1
    <2>2. CASE startWork
        <3> DEFINE w == IF worker.port = "none" THEN worker ELSE Stopped(worker)
        <3>1. w \in SerialWorker
            BY StopTyped DEF ThreadsOK
        <3>2. worker' = Started(w) \/ worker' = [w EXCEPT !.port = "shut"]
            BY <2>2 DEF startWork
        <3> HIDE DEF w
        <3> QED
            BY <3>1, <3>2 DEF Started, SerialWorker
    <2>3. CASE stopWork \/ Finish
        BY <2>3 DEF stopWork, Finish, Stopped, ThreadsOK, SerialWorker
    <2>4. CASE requestWeatherData
        BY <2>4 DEF requestWeatherData, ThreadsOK, SerialWorker
    <2>5. ASSUME NEW n \in 1 .. Len(wire), onReadyRead(n) PROVE RequestsGoOn'
        BY <2>5 DEF onReadyRead, ThreadsOK, SerialWorker
    <2>6. CASE parseBuffer
        BY <2>6 DEF parseBuffer, parsePacket, ThreadsOK, SerialWorker
    <2>7. SendCar \/ Answer \/ OnSignal \/ EnterSubPage \/ GoBack \/ Quit \/ Call("startWork")
            \/ Call("stopWork") => UNCHANGED worker
        BY DEF SendCar, Answer, Transmit, OnSignal, EnterSubPage, GoBack, Quit, Call
    <2> QED
        BY <2>1, <2>2, <2>3, <2>4, <2>5, <2>6, <2>7 DEF Next, vars
<1> QED
    BY <1>1, <1>2, TypedAlways, PTL DEF Spec

-----------------------------------------------------------------------------
(* The stack of pages.                                                      *)

\* For any depth of the stack and any signals, whenever they come: the reversing
\* page is on top exactly while the car reverses, and pop() takes away no other
\* page (onReverseChanged, Main.qml).
THEOREM PagesFollow == Spec => []PageFollowsGear
<1> DEFINE Page == {"home", "subPage", "reversePage"}
           Pages == PageFollowsGear /\ stack # << >>
<1>1. Init => Pages
    BY DEF Init, PageFollowsGear, Last
<1>2. Typed /\ Pages /\ [Next]_vars => Pages'
    <2> SUFFICES ASSUME ThreadsOK, Pages, [Next]_vars PROVE Pages'
        BY DEF Typed
    <2>1. CASE UNCHANGED <<handler, stack>>
        BY <2>1 DEF PageFollowsGear
    <2>2. /\ stack \in Seq(Page) /\ Len(stack) \in Nat /\ Len(stack) >= 1
          /\ handler.reversing <=> Last(stack) = "reversePage"
          /\ stack[1] = "home" /\ \A k \in 1 .. Len(stack) - 1 : stack[k] # "reversePage"
        <3>1. stack \in Seq(Page) /\ stack # << >>
            BY DEF ThreadsOK
        <3>2. Len(stack) \in Nat /\ Len(stack) >= 1
            BY <3>1, LenProperties
        <3> QED
            BY <3>1, <3>2 DEF PageFollowsGear
    <2>3. ASSUME NEW page \in Page, stack' = Append(stack, page), Last(stack) # "reversePage",
                 handler'.reversing <=> page = "reversePage"
          PROVE  Pages'
        <3>1. /\ stack' \in Seq(Page) /\ Len(stack') = Len(stack) + 1
              /\ \A k \in 1 .. Len(stack) : stack'[k] = stack[k]
              /\ stack'[Len(stack) + 1] = page
            BY <2>2, <2>3, AppendProperties
        <3>2. stack'[1] = "home" /\ Last(stack') = page /\ stack' # << >>
            BY <2>2, <3>1 DEF Last
        <3>3. ASSUME NEW k \in 1 .. Len(stack') - 1 PROVE stack'[k] # "reversePage"
            <4>1. k \in 1 .. Len(stack) /\ stack'[k] = stack[k]
                BY <2>2, <3>1
            <4>2. CASE k = Len(stack)
                BY <2>3, <4>1, <4>2 DEF Last
            <4>3. CASE k \in 1 .. Len(stack) - 1
                BY <2>2, <4>1, <4>3
            <4> QED
                BY <2>2, <4>1, <4>2, <4>3
        <3> QED
            BY <2>3, <3>2, <3>3 DEF PageFollowsGear
    <2>4. ASSUME Len(stack) > 1, stack' = Front(stack), handler'.reversing = FALSE
          PROVE  Pages'
        <3>1. PICK n \in Nat : n = Len(stack) - 1 /\ n >= 1
            BY <2>2, <2>4
        <3>2. \A k \in 1 .. n : stack[k] \in Page
            BY <2>2, <3>1, ElementOfSeq
        <3>3. /\ stack' \in Seq(Page) /\ Len(stack') = n
              /\ \A k \in 1 .. n : stack'[k] = stack[k]
            <4>1. stack' = SubSeq(stack, 1, n)
                BY <2>4, <3>1 DEF Front
            <4> QED
                BY <3>1, <3>2, <4>1, SubSeqProperties
        <3>4. stack'[1] = "home" /\ stack' # << >> /\ Last(stack') # "reversePage"
            BY <2>2, <3>1, <3>3 DEF Last
        <3>5. ASSUME NEW k \in 1 .. Len(stack') - 1 PROVE stack'[k] # "reversePage"
            <4>1. k \in 1 .. n /\ k \in 1 .. Len(stack) - 1
                BY <3>1, <3>3
            <4> QED
                BY <2>2, <3>3, <4>1
        <3> QED
            BY <2>4, <3>4, <3>5 DEF PageFollowsGear
    <2>5. CASE OnSignal
        <3>1. CASE UNCHANGED stack /\ handler'.reversing = handler.reversing
            BY <3>1 DEF PageFollowsGear
        <3>2. ASSUME NEW r \in BOOLEAN, onReverseChanged(r) PROVE Pages'
            <4>0. handler.reversing \in BOOLEAN /\ handler'.reversing = r
                BY <3>2 DEF onReverseChanged, ThreadsOK, SerialHandler
            <4>1. CASE r = handler.reversing
                BY <3>1, <3>2, <4>0, <4>1 DEF onReverseChanged
            <4>2. CASE r /\ ~handler.reversing
                <5>1. stack' = Append(stack, "reversePage")
                    BY <3>2, <4>2 DEF onReverseChanged
                <5> QED
                    BY <2>2, <2>3, <4>0, <4>2, <5>1
            <4>3. CASE ~r /\ handler.reversing
                <5>1. Last(stack) = "reversePage" /\ Len(stack) > 1
                    BY <2>2, <4>3 DEF Last
                <5>2. stack' = Front(stack)
                    BY <3>2, <4>3, <5>1 DEF onReverseChanged
                <5> QED
                    BY <2>4, <4>0, <4>3, <5>1, <5>2
            <4> QED
                BY <4>0, <4>1, <4>2, <4>3
        <3>3. Head(signals) \in Queued
            BY <2>5 DEF OnSignal, ThreadsOK
        <3>4. \/ UNCHANGED stack /\ handler'.reversing = handler.reversing
              \/ \E r \in BOOLEAN : onReverseChanged(r)
            BY <2>5, <3>3 DEF OnSignal, Queued, ThreadsOK, SerialHandler
        <3> QED
            BY <3>1, <3>2, <3>4
    <2>6. CASE EnterSubPage
        <3>1. stack' = Append(stack, "subPage") /\ Last(stack) = "home" /\ UNCHANGED handler
            BY <2>6 DEF EnterSubPage
        <3> QED
            BY <2>2, <2>3, <3>1
    <2>7. CASE GoBack
        <3>1. stack' = Front(stack) /\ Last(stack) = "subPage" /\ UNCHANGED handler
            BY <2>7 DEF GoBack
        <3>2. Len(stack) > 1 /\ handler.reversing \in BOOLEAN
            BY <2>2, <3>1 DEF Last, ThreadsOK, SerialHandler
        <3> QED
            BY <2>2, <2>4, <3>1, <3>2
    <2>8. startWork \/ stopWork \/ requestWeatherData \/ Finish \/ parseBuffer \/ SendCar \/ Answer
            \/ Quit \/ Call("startWork") \/ Call("stopWork")
            \/ (\E n \in 1 .. Len(wire) : onReadyRead(n)) => UNCHANGED <<handler, stack>>
        BY DEF startWork, stopWork, requestWeatherData, Finish, parseBuffer, SendCar, Answer,
               Transmit, Quit, Call, onReadyRead
    <2> QED
        BY <2>1, <2>5, <2>6, <2>7, <2>8 DEF Next, vars
<1> QED
    BY <1>1, <1>2, TypedAlways, PTL DEF Spec

-----------------------------------------------------------------------------
(* What the main thread will know.                                          *)

\* Once the signals s are handled, what those of these names set, now as given, is v.
Told(s, names, now, v) ==
    \/ now = v /\ \A k \in 1 .. Len(s) : s[k].signal \notin names
    \/ \E k \in 1 .. Len(s) :
        /\ s[k].signal \in names /\ s[k].value = v
        /\ \A j \in k + 1 .. Len(s) : s[j].signal \notin names

LEMMA ToldOne ==
    ASSUME NEW s \in Seq(Queued), NEW x \in Queued, NEW names, NEW now, NEW v,
           IF x.signal \in names THEN x.value = v ELSE Told(s, names, now, v)
    PROVE  Told(s \o <<x>>, names, now, v)
<1> DEFINE t == s \o <<x>>
<1>1. PICK n \in Nat : n = Len(s)
    BY LenProperties
<1>2. Len(t) = n + 1 /\ t[n + 1] = x /\ \A k \in 1 .. n : t[k] = s[k]
    BY <1>1
<1> HIDE DEF t
<1>3. CASE x.signal \in names
    <2>1. n + 1 \in 1 .. Len(t) /\ t[n + 1].signal \in names /\ t[n + 1].value = v
        BY <1>2, <1>3
    <2>2. \A j \in n + 1 + 1 .. Len(t) : t[j].signal \notin names
        BY <1>2
    <2> QED
        BY <2>1, <2>2 DEF Told, t
<1>4. CASE x.signal \notin names
    <2>1. CASE now = v /\ \A k \in 1 .. n : s[k].signal \notin names
        <3>1. \A k \in 1 .. n + 1 : t[k].signal \notin names
            BY <1>2, <1>4, <2>1
        <3> QED
            BY <1>2, <2>1, <3>1 DEF Told, t
    <2>2. ASSUME NEW k \in 1 .. n, s[k].signal \in names, s[k].value = v,
                 \A j \in k + 1 .. n : s[j].signal \notin names
          PROVE  Told(t, names, now, v)
        <3>1. k \in 1 .. n + 1 /\ t[k].signal \in names /\ t[k].value = v
            BY <1>2, <2>2
        <3>2. \A j \in k + 1 .. n + 1 : t[j].signal \notin names
            BY <1>2, <1>4, <2>2
        <3> QED
            BY <1>2, <3>1, <3>2 DEF Told
    <2> QED
        BY <1>1, <1>4, <2>1, <2>2 DEF Told, t
<1> QED
    BY <1>3, <1>4

LEMMA ToldTail ==
    ASSUME NEW s \in Seq(Queued), s # << >>, NEW names, NEW now, NEW v, Told(s, names, now, v)
    PROVE  Told(Tail(s), names, IF Head(s).signal \in names THEN Head(s).value ELSE now, v)
<1> DEFINE t == Tail(s)
           next == IF Head(s).signal \in names THEN Head(s).value ELSE now
<1>1. PICK n \in Nat : n + 1 = Len(s)
    <2>1. Len(s) \in Nat /\ Len(s) # 0
        BY LenProperties
    <2> QED
        BY <2>1
<1>2. Len(t) = n /\ Head(s) = s[1] /\ \A k \in 1 .. n : t[k] = s[k + 1]
    BY <1>1
<1> HIDE DEF t
<1>3. CASE now = v /\ \A k \in 1 .. n + 1 : s[k].signal \notin names
    <2>1. next = v
        BY <1>2, <1>3
    <2>2. \A k \in 1 .. n : t[k].signal \notin names
        BY <1>2, <1>3
    <2> QED
        BY <1>2, <2>1, <2>2 DEF Told, t
<1>4. ASSUME NEW k \in 1 .. n + 1, s[k].signal \in names, s[k].value = v,
             \A j \in k + 1 .. n + 1 : s[j].signal \notin names
      PROVE  Told(t, names, next, v)
    <2>1. CASE k = 1
        <3>1. next = v
            BY <1>2, <1>4, <2>1
        <3>2. \A j \in 1 .. n : t[j].signal \notin names
            BY <1>2, <1>4, <2>1
        <3> QED
            BY <1>2, <3>1, <3>2 DEF Told
    <2>2. CASE k # 1
        <3>1. PICK m \in 1 .. n : k = m + 1
            BY <2>2
        <3>2. t[m].signal \in names /\ t[m].value = v
            BY <1>2, <1>4, <3>1
        <3>3. ASSUME NEW j \in m + 1 .. n PROVE t[j].signal \notin names
            <4>1. j \in 1 .. n /\ j + 1 \in k + 1 .. n + 1
                BY <3>1
            <4> QED
                BY <1>2, <1>4, <4>1
        <3> QED
            BY <1>2, <3>2, <3>3 DEF Told
    <2> QED
        BY <2>1, <2>2
<1> QED
    BY <1>1, <1>3, <1>4 DEF Told, t

GearNames == {"reverseStateChanged"}
PortNames == {"connected", "disconnected"}

CarFollows  == Told(signals, {"carDataReceived"}, handler.car, worker.car)
GearFollows == Told(signals, GearNames, handler.reversing, worker.reverse)
PortFollows == Told(signals, PortNames, handler.connected, worker.port = "open")

Follows == quit = "no" => CarFollows /\ GearFollows /\ PortFollows

LEMMA FollowsIsWillBe == Follows => HandlerFollows
BY DEF Follows, HandlerFollows, WillBe, CarFollows, GearFollows, PortFollows, GearNames, PortNames, Told

\* A signal is handled: the handler then has what it set.
LEMMA HandledFollows ==
    ASSUME ThreadsOK, CarFollows, GearFollows, PortFollows, OnSignal
    PROVE  (CarFollows /\ GearFollows /\ PortFollows)'
<1> DEFINE s == Head(signals)
<1>1. s \in Queued /\ signals \in Seq(Queued) /\ signals # << >> /\ signals' = Tail(signals)
      /\ UNCHANGED worker
    BY DEF OnSignal, ThreadsOK
<1>2. /\ handler'.car = IF s.signal = "carDataReceived" THEN s.value ELSE handler.car
      /\ handler'.reversing = IF s.signal \in GearNames THEN s.value ELSE handler.reversing
      /\ handler'.connected = IF s.signal \in PortNames THEN s.value ELSE handler.connected
    <2> USE DEF ThreadsOK, SerialHandler, GearNames, PortNames
    <2>1. CASE s.signal = "weatherDataReceived"
        BY <2>1 DEF OnSignal
    <2>2. CASE s.signal = "carDataReceived"
        BY <2>2 DEF OnSignal
    <2>3. CASE s.signal = "reverseStateChanged"
        <3>1. handler' = [handler EXCEPT !.reversing = s.value]
            BY <2>3 DEF OnSignal, onReverseChanged
        <3> QED
            BY <2>3, <3>1
    <2>4. CASE s.signal = "connected"
        <3>1. s.value = TRUE /\ handler' = [handler EXCEPT !.connected = TRUE]
            BY <1>1, <2>4 DEF OnSignal, Queued
        <3> QED
            BY <2>4, <3>1
    <2>5. CASE s.signal = "disconnected"
        <3>1. s.value = FALSE /\ handler' = [handler EXCEPT !.connected = FALSE]
            BY <1>1, <2>5 DEF OnSignal, Queued
        <3> QED
            BY <2>5, <3>1
    <2> QED
        BY <1>1, <2>1, <2>2, <2>3, <2>4, <2>5 DEF Queued
<1>3. /\ Told(Tail(signals), {"carDataReceived"},
              IF s.signal \in {"carDataReceived"} THEN s.value ELSE handler.car, worker.car)
      /\ Told(Tail(signals), GearNames,
              IF s.signal \in GearNames THEN s.value ELSE handler.reversing, worker.reverse)
      /\ Told(Tail(signals), PortNames,
              IF s.signal \in PortNames THEN s.value ELSE handler.connected, worker.port = "open")
    BY <1>1, ToldTail DEF CarFollows, GearFollows, PortFollows
<1> QED
    BY <1>1, <1>2, <1>3 DEF CarFollows, GearFollows, PortFollows

\* The port is closed, and the signal tells it.
LEMMA StopFollows ==
    ASSUME ThreadsOK, CarFollows, GearFollows, PortFollows
    PROVE  LET s == signals \o StopSignals
           IN  /\ s \in Seq(Queued)
               /\ Told(s, {"carDataReceived"}, handler.car, worker.car)
               /\ Told(s, GearNames, handler.reversing, worker.reverse)
               /\ Told(s, PortNames, handler.connected, FALSE)
<1> DEFINE d == Signal("disconnected", FALSE)
<1>1. CASE worker.port = "none"
    <2>1. signals \o StopSignals = signals
        BY <1>1 DEF StopSignals, ThreadsOK
    <2>2. (worker.port = "open") = FALSE
        BY <1>1
    <2> QED
        BY <2>1, <2>2 DEF CarFollows, GearFollows, PortFollows, ThreadsOK
<1>2. CASE worker.port # "none"
    <2>1. d \in Queued /\ d.signal = "disconnected" /\ d.value = FALSE
        BY SignalTyped DEF Signal
    <2>2. d.signal \in PortNames /\ d.signal \notin GearNames /\ d.signal # "carDataReceived"
        BY <2>1 DEF PortNames, GearNames
    <2>3. signals \o StopSignals = signals \o <<d>>
        BY <1>2 DEF StopSignals
    <2> HIDE DEF d
    <2>4. signals \in Seq(Queued) /\ signals \o <<d>> \in Seq(Queued)
        BY <2>1, OneElement, ConcatProperties DEF ThreadsOK
    <2>5. Told(signals \o <<d>>, PortNames, handler.connected, FALSE)
        BY <2>1, <2>2, <2>4, ToldOne
    <2>6. /\ Told(signals \o <<d>>, {"carDataReceived"}, handler.car, worker.car)
          /\ Told(signals \o <<d>>, GearNames, handler.reversing, worker.reverse)
        BY <2>1, <2>2, <2>4, ToldOne DEF CarFollows, GearFollows
    <2> QED
        BY <2>3, <2>4, <2>5, <2>6
<1> QED
    BY <1>1, <1>2

LEMMA StartFollows ==
    ASSUME ThreadsOK, CarFollows, GearFollows, PortFollows, startWork, quit = "no"
    PROVE  (CarFollows /\ GearFollows /\ PortFollows)'
<1> DEFINE w == IF worker.port = "none" THEN worker ELSE Stopped(worker)
           t == signals \o StopSignals
           c == Signal("connected", TRUE)
<1>1. /\ t \in Seq(Queued) /\ Told(t, {"carDataReceived"}, handler.car, worker.car)
      /\ Told(t, GearNames, handler.reversing, worker.reverse)
      /\ Told(t, PortNames, handler.connected, FALSE)
    BY StopFollows
<1>2. w \in SerialWorker /\ w.car = worker.car /\ w.reverse = worker.reverse
    BY StopTyped DEF ThreadsOK, Stopped, SerialWorker
<1>3. /\ \/ worker' = Started(w) /\ signals' = signals \o (StopSignals \o <<c>>)
         \/ worker' = [w EXCEPT !.port = "shut"] /\ signals' = t
      /\ UNCHANGED handler
    BY DEF startWork, Emit
<1>4. c \in Queued /\ c.signal = "connected" /\ c.value = TRUE
    BY SignalTyped DEF Signal
<1>5. signals \o (StopSignals \o <<c>>) = t \o <<c>>
    <2>1. signals \in Seq(Queued) /\ StopSignals \in Seq(Queued) /\ <<c>> \in Seq(Queued)
        BY <1>4, StopTyped, OneElement DEF ThreadsOK
    <2> HIDE DEF c
    <2> QED
        BY <2>1, ConcatAssociative
<1> HIDE DEF w, t, c
<1>6. CASE worker' = Started(w) /\ signals' = t \o <<c>>
    <2>1. worker'.car = worker.car /\ worker'.reverse = worker.reverse /\ worker'.port = "open"
        BY <1>2, <1>6 DEF Started, SerialWorker
    <2>2. c.signal \in PortNames /\ c.signal \notin GearNames /\ c.signal # "carDataReceived"
        BY <1>4 DEF PortNames, GearNames
    <2>3. Told(t \o <<c>>, PortNames, handler.connected, TRUE)
        BY <1>1, <1>4, <2>2, ToldOne
    <2>4. /\ Told(t \o <<c>>, {"carDataReceived"}, handler.car, worker.car)
          /\ Told(t \o <<c>>, GearNames, handler.reversing, worker.reverse)
        BY <1>1, <1>4, <2>2, ToldOne
    <2>5. (worker'.port = "open") = TRUE
        BY <2>1
    <2> QED
        BY <1>3, <1>6, <2>1, <2>3, <2>4, <2>5 DEF CarFollows, GearFollows, PortFollows
<1>7. CASE worker' = [w EXCEPT !.port = "shut"] /\ signals' = t
    <2>1. worker'.car = worker.car /\ worker'.reverse = worker.reverse /\ worker'.port = "shut"
        BY <1>2, <1>7 DEF SerialWorker
    <2>2. (worker'.port = "open") = FALSE
        BY <2>1
    <2> QED
        BY <1>1, <1>3, <1>7, <2>1, <2>2 DEF CarFollows, GearFollows, PortFollows
<1> QED
    BY <1>3, <1>5, <1>6, <1>7

\* A packet is parsed: the worker has what the signals tell.
LEMMA ParseFollows ==
    ASSUME ThreadsOK, CarFollows, GearFollows, PortFollows, parseBuffer, quit = "no"
    PROVE  (CarFollows /\ GearFollows /\ PortFollows)'
<1> DEFINE turn == Turn(worker.buffer)
           w == [worker EXCEPT !.buffer = turn.left, !.parsing = turn.more]
<1>1. turn.found = << >> \/ \E p \in Report : turn.found = <<p>>
    BY TurnTyped DEF ThreadsOK, SerialWorker
<1>2. /\ \/ turn.found = << >> /\ worker' = w /\ UNCHANGED signals
         \/ turn.found # << >> /\ parsePacket(w, turn.found[1])
      /\ UNCHANGED handler
    BY DEF parseBuffer
<1>3. w.car = worker.car /\ w.reverse = worker.reverse /\ w.port = worker.port
    BY DEF ThreadsOK, SerialWorker
<1>4. w \in SerialWorker
    <2>1. turn.left \in Seq(Byte) /\ turn.more \in BOOLEAN
        BY TurnTyped DEF ThreadsOK, SerialWorker
    <2> HIDE DEF turn
    <2> QED
        BY <2>1 DEF ThreadsOK, SerialWorker
<1> HIDE DEF w
<1> USE DEF CarFollows, GearFollows, PortFollows
<1>5. CASE worker' = w /\ UNCHANGED signals
    BY <1>2, <1>3, <1>5
<1>6. ASSUME NEW p \in Report, parsePacket(w, p) PROVE (CarFollows /\ GearFollows /\ PortFollows)'
    <2>1. signals \in Seq(Queued) /\ p.data \in Seq(Byte)
        BY DEF ThreadsOK, Report
    <2>2. CASE p.type = TYPE_WEATHER /\ Len(p.data) = Len(Weather)
        <3> DEFINE a == Signal("weatherDataReceived", p.data)
        <3>1. worker' = [w EXCEPT !.weather = TRUE] /\ signals' = signals \o <<a>>
            BY <1>6, <2>2 DEF parsePacket, Emit, TYPE_WEATHER, TYPE_CAR
        <3>2. a \in Queued /\ a.signal = "weatherDataReceived"
            BY <2>1, SignalTyped DEF Signal
        <3>3. a.signal \notin {"carDataReceived"} /\ a.signal \notin GearNames /\ a.signal \notin PortNames
            BY <3>2 DEF GearNames, PortNames
        <3>4. UNCHANGED <<worker.car, worker.reverse, worker.port>>
            BY <1>3, <1>4, <3>1 DEF SerialWorker
        <3> HIDE DEF a
        <3>5. /\ Told(signals \o <<a>>, {"carDataReceived"}, handler.car, worker.car)
              /\ Told(signals \o <<a>>, GearNames, handler.reversing, worker.reverse)
              /\ Told(signals \o <<a>>, PortNames, handler.connected, worker.port = "open")
            BY <2>1, <3>2, <3>3, ToldOne
        <3> QED
            BY <1>2, <3>1, <3>4, <3>5
    <2>3. CASE p.type = TYPE_CAR /\ Len(p.data) = CarLen
        <3> DEFINE a == Signal("carDataReceived", p.data)
                   r == Reversing(p.data)
                   b == Signal("reverseStateChanged", r)
        <3>1. /\ worker' = [w EXCEPT !.car = p.data, !.reverse = r]
              /\ signals' = signals \o (<<a>> \o IF r = worker.reverse THEN << >> ELSE <<b>>)
            BY <1>6, <2>3 DEF parsePacket, Emit, TYPE_WEATHER, TYPE_CAR
        <3>2. r \in BOOLEAN
            BY DEF Reversing
        <3>3. a \in Queued /\ a.signal = "carDataReceived" /\ a.value = p.data
            BY <2>1, SignalTyped DEF Signal
        <3>4. b \in Queued /\ b.signal = "reverseStateChanged" /\ b.value = r
            BY <3>2, SignalTyped DEF Signal
        <3>5. worker'.car = p.data /\ worker'.reverse = r /\ worker'.port = worker.port
            BY <1>3, <1>4, <3>1, <3>2 DEF SerialWorker
        <3> HIDE DEF a, b, r
        <3>6. signals \o <<a>> \in Seq(Queued)
            BY <2>1, <3>3, OneElement, ConcatProperties
        <3>7. /\ Told(signals \o <<a>>, {"carDataReceived"}, handler.car, p.data)
              /\ Told(signals \o <<a>>, GearNames, handler.reversing, worker.reverse)
              /\ Told(signals \o <<a>>, PortNames, handler.connected, worker.port = "open")
            <4>1. a.signal \in {"carDataReceived"} /\ a.signal \notin GearNames /\ a.signal \notin PortNames
                BY <3>3 DEF GearNames, PortNames
            <4> QED
                BY <2>1, <3>3, <4>1, ToldOne
        <3>8. CASE r = worker.reverse
            <4>1. signals' = signals \o <<a>>
                <5>1. <<a>> \o << >> = <<a>>
                    OBVIOUS
                <5> QED
                    BY <3>1, <3>8, <5>1
            <4> QED
                BY <1>2, <3>5, <3>7, <3>8, <4>1
        <3>9. CASE r # worker.reverse
            <4>1. signals' = (signals \o <<a>>) \o <<b>>
                <5>1. <<a>> \in Seq(Queued) /\ <<b>> \in Seq(Queued)
                    BY <3>3, <3>4, OneElement
                <5>2. (signals \o <<a>>) \o <<b>> = signals \o (<<a>> \o <<b>>)
                    BY <2>1, <5>1, ConcatAssociative
                <5> QED
                    BY <3>1, <3>9, <5>2
            <4>2. b.signal \in GearNames /\ b.signal \notin {"carDataReceived"} /\ b.signal \notin PortNames
                BY <3>4 DEF GearNames, PortNames
            <4>3. Told((signals \o <<a>>) \o <<b>>, GearNames, handler.reversing, r)
                BY <3>4, <3>6, <4>2, ToldOne
            <4>4. /\ Told((signals \o <<a>>) \o <<b>>, {"carDataReceived"}, handler.car, p.data)
                  /\ Told((signals \o <<a>>) \o <<b>>, PortNames, handler.connected,
                          worker.port = "open")
                BY <3>4, <3>6, <3>7, <4>2, ToldOne
            <4> QED
                BY <1>2, <3>5, <4>1, <4>3, <4>4
        <3> QED
            BY <3>8, <3>9
    <2> QED
        BY <1>5, <1>6, <2>2, <2>3 DEF parsePacket
<1>7. CASE turn.found # << >> /\ parsePacket(w, turn.found[1])
    <2>1. PICK p \in Report : turn.found = <<p>>
        BY <1>1, <1>7
    <2> QED
        BY <1>6, <1>7, <2>1
<1> QED
    BY <1>2, <1>5, <1>7

\* Whenever the port is closed and opened and the packets come: once the main
\* thread has handled the signals that are queued, it has the last car's data, the
\* gear that the worker has, and shows a connection exactly when the port is open
\* (parseWeatherPacket and parseCarDataPacket, startWork, stopWork, the handler's slots).
THEOREM HandlerKeepsUp == Spec => []HandlerFollows
<1>1. Init => Follows
    <2> SUFFICES ASSUME Init PROVE CarFollows /\ GearFollows /\ PortFollows
        BY DEF Follows
    <2>1. Len(signals) = 0
        BY DEF Init
    <2>2. handler.car = worker.car /\ handler.reversing = worker.reverse
            /\ handler.connected = (worker.port = "open")
        BY DEF Init
    <2> QED
        BY <2>1, <2>2 DEF CarFollows, GearFollows, PortFollows, Told
<1>2. Typed /\ Follows /\ [Next]_vars => Follows'
    <2> SUFFICES ASSUME ThreadsOK, Follows, [Next]_vars, quit' = "no"
                 PROVE  (CarFollows /\ GearFollows /\ PortFollows)'
        BY DEF Follows, Typed
    <2>1. quit = "no"
        BY DEF Next, vars, OnSignal, EnterSubPage, GoBack, Quit, Call, startWork, stopWork,
               requestWeatherData, Finish, onReadyRead, parseBuffer, SendCar, Answer, Transmit
    <2>2. CarFollows /\ GearFollows /\ PortFollows
        BY <2>1 DEF Follows
    <2>3. ASSUME UNCHANGED <<signals, handler>>, worker'.car = worker.car,
                 worker'.reverse = worker.reverse, worker'.port = worker.port
          PROVE  (CarFollows /\ GearFollows /\ PortFollows)'
        BY <2>2, <2>3 DEF CarFollows, GearFollows, PortFollows
    <2>4. CASE OnSignal
        BY <2>2, <2>4, HandledFollows
    <2>5. CASE startWork
        BY <2>1, <2>2, <2>5, StartFollows
    <2>6. CASE stopWork
        <3>1. worker' = Stopped(worker) /\ signals' = signals \o StopSignals /\ UNCHANGED handler
            BY <2>1, <2>6 DEF stopWork, Emit
        <3>2. worker'.car = worker.car /\ worker'.reverse = worker.reverse /\ worker'.port = "none"
            BY <3>1 DEF Stopped, ThreadsOK, SerialWorker
        <3>3. (worker'.port = "open") = FALSE
            BY <3>2
        <3> QED
            BY <2>2, <3>1, <3>2, <3>3, StopFollows DEF CarFollows, GearFollows, PortFollows
    <2>7. CASE parseBuffer
        BY <2>1, <2>2, <2>7, ParseFollows
    <2>8. CASE requestWeatherData \/ (\E n \in 1 .. Len(wire) : onReadyRead(n))
        BY <2>3, <2>8 DEF requestWeatherData, onReadyRead, ThreadsOK, SerialWorker
    <2>9. CASE EnterSubPage \/ GoBack \/ Call("startWork") \/ Call("stopWork") \/ SendCar \/ Answer
                 \/ UNCHANGED vars
        BY <2>3, <2>9 DEF EnterSubPage, GoBack, Call, SendCar, Answer, Transmit, vars
    <2>10. ~Quit /\ ~Finish
        BY DEF Quit, Finish
    <2> QED
        BY <2>4, <2>5, <2>6, <2>7, <2>8, <2>9, <2>10 DEF Next
<1> QED
    BY <1>1, <1>2, TypedAlways, FollowsIsWillBe, PTL DEF Spec

-----------------------------------------------------------------------------
(* The recursive definition of Packets has a value: by length of the bytes, the  *)
(* equation has exactly one solution for the bytes no longer than n.             *)

Short(n) == {b \in Seq(Byte) : Len(b) <= n}

Solves(n, f) ==
    f = [b \in Short(n) |-> IF Turn(b).more THEN Turn(b).found \o f[Turn(b).left] ELSE << >>]

LEMMA SolvesAt ==
    ASSUME NEW n \in Nat, NEW f, Solves(n, f), NEW b \in Seq(Byte), Len(b) <= n
    PROVE  f[b] = IF Turn(b).more THEN Turn(b).found \o f[Turn(b).left] ELSE << >>
<1>1. b \in Short(n)
    BY DEF Short
<1> DEFINE e(c) == IF Turn(c).more THEN Turn(c).found \o f[Turn(c).left] ELSE << >>
<1>2. f = [c \in Short(n) |-> e(c)]
    BY DEF Solves
<1> HIDE DEF e
<1>3. f[b] = e(b)
    BY <1>1, <1>2
<1> QED
    BY <1>3 DEF e

\* A turn that another follows leaves a shorter buffer.
LEMMA TurnShortens ==
    ASSUME NEW b \in Seq(Byte), Turn(b).more
    PROVE  Turn(b).left \in Seq(Byte) /\ Len(Turn(b).left) < Len(b)
           /\ Len(b) \in Nat /\ Len(Turn(b).left) \in Nat
BY TurnTyped

LEMMA OneSolution ==
    ASSUME NEW m \in Nat, NEW n \in Nat, NEW f, NEW g, Solves(m, f), Solves(n, g)
    PROVE  \A b \in Seq(Byte) : Len(b) <= m /\ Len(b) <= n => f[b] = g[b]
<1> DEFINE bad == {l \in Nat : \E b \in Seq(Byte) :
                      Len(b) = l /\ l <= m /\ l <= n /\ f[b] # g[b]}
<1>1. bad = {}
    <2> SUFFICES ASSUME bad # {} PROVE FALSE
        OBVIOUS
    <2>1. PICK l \in bad : \A k \in bad : l <= k
        <3>1. bad \subseteq Nat
            OBVIOUS
        <3> HIDE DEF bad
        <3> QED
            BY <3>1, Least
    <2>2. PICK b \in Seq(Byte) : Len(b) = l /\ l <= m /\ l <= n /\ f[b] # g[b]
        BY <2>1
    <2>3. /\ f[b] = IF Turn(b).more THEN Turn(b).found \o f[Turn(b).left] ELSE << >>
          /\ g[b] = IF Turn(b).more THEN Turn(b).found \o g[Turn(b).left] ELSE << >>
        BY <2>2, SolvesAt
    <2>4. Turn(b).more /\ f[Turn(b).left] # g[Turn(b).left]
        BY <2>2, <2>3
    <2>5. Len(Turn(b).left) \in bad /\ Len(Turn(b).left) < l
        <3>1. /\ Turn(b).left \in Seq(Byte) /\ Len(Turn(b).left) < l
              /\ Len(Turn(b).left) \in Nat
            BY <2>2, <2>4, TurnShortens
        <3>2. Len(Turn(b).left) <= m /\ Len(Turn(b).left) <= n
            BY <2>2, <3>1
        <3> QED
            BY <2>4, <3>1, <3>2
    <2>6. l \in Nat /\ Len(Turn(b).left) \in Nat /\ l <= Len(Turn(b).left)
        BY <2>1, <2>5
    <2> QED
        BY <2>5, <2>6
<1>2. ASSUME NEW b \in Seq(Byte), Len(b) <= m, Len(b) <= n PROVE f[b] = g[b]
    <2>1. Len(b) \in Nat /\ Len(b) \notin bad
        BY <1>1
    <2> QED
        BY <1>2, <2>1
<1> QED
    BY <1>2

LEMMA SolutionExists == \A n \in Nat : \E f : Solves(n, f)
<1> DEFINE bad == {n \in Nat : ~ \E f : Solves(n, f)}
<1> SUFFICES ASSUME bad # {} PROVE FALSE
    OBVIOUS
<1>1. PICK n \in bad : \A k \in bad : n <= k
    <2>1. bad \subseteq Nat
        OBVIOUS
    <2> HIDE DEF bad
    <2> QED
        BY <2>1, Least
<1>2. n \in Nat /\ ~ \E f : Solves(n, f)
    OBVIOUS
<1>3. PICK h : \A b \in Seq(Byte) : Len(b) < n =>
          h[b] = IF Turn(b).more THEN Turn(b).found \o h[Turn(b).left] ELSE << >>
    <2>1. CASE n = 0
        <3>1. \A b \in Seq(Byte) : ~(Len(b) < n)
            BY <2>1
        <3> QED
            BY <3>1
    <2>2. CASE n # 0
        <3>1. n - 1 \in Nat /\ n - 1 \notin bad
            BY <1>1, <1>2, <2>2
        <3>2. PICK f : Solves(n - 1, f)
            BY <3>1
        <3>3. \A b \in Seq(Byte) : Len(b) < n => Len(b) <= n - 1
            BY <1>2
        <3> QED
            BY <3>1, <3>2, <3>3, SolvesAt
    <2> QED
        BY <2>1, <2>2
<1> DEFINE e(f, b) == IF Turn(b).more THEN Turn(b).found \o f[Turn(b).left] ELSE << >>
           f == [b \in Short(n) |-> e(h, b)]
<1>4. ASSUME NEW b \in Short(n) PROVE e(f, b) = e(h, b)
    <2>1. CASE Turn(b).more
        <3>1. /\ b \in Seq(Byte) /\ Len(b) <= n
              /\ Turn(b).left \in Seq(Byte) /\ Len(Turn(b).left) < Len(b)
              /\ Len(Turn(b).left) \in Nat /\ Len(b) \in Nat
            BY <2>1, TurnShortens DEF Short
        <3>2. Turn(b).left \in Short(n) /\ Len(Turn(b).left) < n
            BY <1>2, <3>1 DEF Short
        <3>3. f[Turn(b).left] = e(h, Turn(b).left)
            <4> HIDE DEF e
            <4> QED
                BY <3>2
        <3>4. h[Turn(b).left] = e(h, Turn(b).left)
            BY <1>3, <3>1, <3>2
        <3>5. f[Turn(b).left] = h[Turn(b).left]
            BY <3>3, <3>4
        <3> HIDE DEF f
        <3> QED
            BY <3>5
    <2>2. CASE ~Turn(b).more
        BY <2>2
    <2> QED
        BY <2>1, <2>2
<1>5. f = [b \in Short(n) |-> e(f, b)]
    <2>1. f = [b \in Short(n) |-> e(h, b)]
        OBVIOUS
    <2> HIDE DEF e, f
    <2> QED
        BY <1>4, <2>1
<1> HIDE DEF f
<1>6. Solves(n, f)
    BY <1>5 DEF Solves
<1> QED
    BY <1>2, <1>6

LEMMA PacketsEquation ==
    \A b \in Seq(Byte) :
        Packets[b] = IF Turn(b).more THEN Turn(b).found \o Packets[Turn(b).left] ELSE << >>
<1> DEFINE e(f, b) == IF Turn(b).more THEN Turn(b).found \o f[Turn(b).left] ELSE << >>
           solution(n) == CHOOSE f : Solves(n, f)
           F == [b \in Seq(Byte) |-> solution(Len(b))[b]]
<1>1. \A n \in Nat : Solves(n, solution(n))
    BY SolutionExists
<1> HIDE DEF solution
<1>2. ASSUME NEW b \in Seq(Byte) PROVE F[b] = e(F, b)
    <2>1. Len(b) \in Nat /\ Solves(Len(b), solution(Len(b)))
        BY <1>1
    <2>2. solution(Len(b))[b] = e(solution(Len(b)), b)
        BY <2>1, SolvesAt
    <2>3. CASE Turn(b).more
        <3>1. /\ Turn(b).left \in Seq(Byte) /\ Len(Turn(b).left) < Len(b)
              /\ Len(Turn(b).left) \in Nat
            BY <2>3, TurnShortens
        <3>2. F[Turn(b).left] = solution(Len(Turn(b).left))[Turn(b).left]
            BY <3>1
        <3>3. solution(Len(Turn(b).left))[Turn(b).left] = solution(Len(b))[Turn(b).left]
            <4>1. Solves(Len(Turn(b).left), solution(Len(Turn(b).left)))
                BY <1>1, <3>1
            <4>2. Len(Turn(b).left) <= Len(Turn(b).left) /\ Len(Turn(b).left) <= Len(b)
                BY <2>1, <3>1
            <4> QED
                BY <2>1, <3>1, <4>1, <4>2, OneSolution
        <3>4. F[Turn(b).left] = solution(Len(b))[Turn(b).left]
            BY <3>2, <3>3
        <3>5. F[b] = solution(Len(b))[b]
            OBVIOUS
        <3> HIDE DEF F
        <3> QED
            BY <2>2, <2>3, <3>4, <3>5
    <2>4. CASE ~Turn(b).more
        <3>1. F[b] = solution(Len(b))[b]
            OBVIOUS
        <3> HIDE DEF F
        <3> QED
            BY <2>2, <2>4, <3>1
    <2> QED
        BY <2>3, <2>4
<1>3. F = [b \in Seq(Byte) |-> e(F, b)]
    <2>1. F = [b \in Seq(Byte) |-> F[b]]
        OBVIOUS
    <2> HIDE DEF F, e
    <2> QED
        BY <1>2, <2>1
<1> HIDE DEF F
<1>4. Packets = CHOOSE f : f = [b \in Seq(Byte) |-> e(f, b)]
    BY DEF Packets
<1>5. Packets = [b \in Seq(Byte) |-> e(Packets, b)]
    <2>1. \E f : f = [b \in Seq(Byte) |-> e(f, b)]
        BY <1>3
    <2> QED
        BY <1>4, <2>1
<1>6. ASSUME NEW b \in Seq(Byte) PROVE Packets[b] = e(Packets, b)
    <2> HIDE DEF e
    <2> QED
        BY <1>5
<1> QED
    BY <1>6

LEMMA FoundTyped == ASSUME NEW b \in Seq(Byte) PROVE Turn(b).found \in Seq(Report)
<1>1. Turn(b).found = << >> \/ \E p \in Report : Turn(b).found = <<p>>
    BY TurnTyped
<1>2. << >> \in Seq(Report) /\ \A p \in Report : <<p>> \in Seq(Report)
    BY OneElement, NothingTyped
<1> QED
    BY <1>1, <1>2

LEMMA PacketsTyped == \A b \in Seq(Byte) : Packets[b] \in Seq(Report)
<1> DEFINE bad == {l \in Nat : \E b \in Seq(Byte) : Len(b) = l /\ Packets[b] \notin Seq(Report)}
<1>1. bad = {}
    <2> SUFFICES ASSUME bad # {} PROVE FALSE
        OBVIOUS
    <2>1. PICK l \in bad : \A k \in bad : l <= k
        <3>1. bad \subseteq Nat
            OBVIOUS
        <3> HIDE DEF bad
        <3> QED
            BY <3>1, Least
    <2>2. PICK b \in Seq(Byte) : Len(b) = l /\ Packets[b] \notin Seq(Report)
        BY <2>1
    <2>3. CASE ~Turn(b).more
        BY <2>2, <2>3, PacketsEquation, NothingTyped
    <2>4. CASE Turn(b).more
        <3>1. /\ Turn(b).left \in Seq(Byte) /\ Len(Turn(b).left) < l
              /\ Len(Turn(b).left) \in Nat /\ l \in Nat
            BY <2>2, <2>4, TurnShortens
        <3>2. Packets[Turn(b).left] \in Seq(Report)
            <4>1. Len(Turn(b).left) \notin bad
                BY <2>1, <3>1
            <4> QED
                BY <3>1, <4>1
        <3>3. Packets[b] = Turn(b).found \o Packets[Turn(b).left]
            BY <2>4, PacketsEquation
        <3>4. Packets[b] \in Seq(Report)
            BY <3>2, <3>3, FoundTyped, ConcatProperties
        <3> QED
            BY <2>2, <3>4
    <2> QED
        BY <2>3, <2>4
<1>2. ASSUME NEW b \in Seq(Byte) PROVE Packets[b] \in Seq(Report)
    <2>1. Len(b) \in Nat /\ Len(b) \notin bad
        BY <1>1
    <2> QED
        BY <2>1
<1> QED
    BY <1>2

\* Less than six bytes, and bytes without a head, have no packet.
LEMMA NoPackets ==
    ASSUME NEW b \in Seq(Byte), Len(b) < 6 \/ Heads(b) = {}
    PROVE  Packets[b] = << >>
BY PacketsEquation DEF Turn

\* Bytes before which no head begins may be dropped without a loss.
LEMMA DropBytes ==
    ASSUME NEW x \in Seq(Byte), NEW i \in 1 .. Len(x) + 1, \A j \in Heads(x) : i <= j
    PROVE  Packets[x] = Packets[From(x, i)]
<1> DEFINE y == From(x, i)
<1>1. PICK n \in Nat : n = Len(x)
    BY LenProperties
<1>2. /\ y \in Seq(Byte) /\ Len(y) = n - i + 1 /\ i \in 1 .. n + 1
      /\ \A k \in 1 .. n - i + 1 : y[k] = x[i + k - 1]
    BY <1>1, FromTyped
<1> HIDE DEF y
<1>3. \A j \in Heads(x) : j - i + 1 \in Heads(y)
    <2> SUFFICES ASSUME NEW j \in Heads(x) PROVE j - i + 1 \in Heads(y)
        OBVIOUS
    <2>1. j \in 1 .. n - 1 /\ x[j] = PACKET_HEAD1 /\ x[j + 1] = PACKET_HEAD2 /\ i <= j
        BY <1>1 DEF Heads
    <2>2. PICK k \in 1 .. n - i : k = j - i + 1
        BY <1>2, <2>1
    <2>3. y[k] = x[i + k - 1] /\ y[k + 1] = x[i + (k + 1) - 1]
        <3>1. k \in 1 .. n - i + 1 /\ k + 1 \in 1 .. n - i + 1
            BY <1>2, <2>2
        <3> QED
            BY <1>2, <3>1
    <2>4. i + k - 1 = j /\ i + (k + 1) - 1 = j + 1
        BY <1>2, <2>1, <2>2
    <2>5. k \in 1 .. Len(y) - 1
        BY <1>2, <2>2
    <2> QED
        BY <2>1, <2>2, <2>3, <2>4, <2>5 DEF Heads
<1>4. \A k \in Heads(y) : k + i - 1 \in Heads(x)
    <2> SUFFICES ASSUME NEW k \in Heads(y) PROVE k + i - 1 \in Heads(x)
        OBVIOUS
    <2>1. k \in 1 .. n - i /\ y[k] = PACKET_HEAD1 /\ y[k + 1] = PACKET_HEAD2
        BY <1>2 DEF Heads
    <2>2. y[k] = x[i + k - 1] /\ y[k + 1] = x[i + (k + 1) - 1]
        <3>1. k \in 1 .. n - i + 1 /\ k + 1 \in 1 .. n - i + 1
            BY <1>2, <2>1
        <3> QED
            BY <1>2, <3>1
    <2>3. i + k - 1 = k + i - 1 /\ i + (k + 1) - 1 = k + i - 1 + 1 /\ k + i - 1 \in 1 .. n - 1
        BY <1>2, <2>1
    <2> QED
        BY <1>1, <2>1, <2>2, <2>3 DEF Heads
<1>5. CASE n < 6
    BY <1>1, <1>2, <1>5, NoPackets DEF y
<1>6. CASE Heads(x) = {}
    <2>1. Heads(y) = {}
        BY <1>4, <1>6
    <2> QED
        BY <1>2, <1>6, <2>1, NoPackets DEF y
<1>7. CASE n >= 6 /\ Heads(x) # {}
    <2> DEFINE h == Min(Heads(x))
               g == Min(Heads(y))
    <2>1. h \in Heads(x) /\ h \in 1 .. n - 1 /\ i <= h /\ \A j \in Heads(x) : h <= j
        <3>1. Heads(x) \subseteq Nat
            BY <1>1 DEF Heads
        <3>2. h \in Heads(x) /\ \A j \in Heads(x) : h <= j
            BY <1>7, <3>1, MinIsLeast
        <3> QED
            BY <1>1, <3>2 DEF Heads
    <2>2. Heads(y) # {} /\ Heads(y) \subseteq 1 .. n - i
        <3>1. Len(y) - 1 = n - i
            BY <1>1, <1>2
        <3>2. Heads(y) \subseteq 1 .. Len(y) - 1
            BY DEF Heads
        <3> QED
            BY <1>3, <2>1, <3>1, <3>2
    <2>3. g \in Heads(y) /\ \A k \in Heads(y) : g <= k
        <3>1. Heads(y) \subseteq Nat
            BY <2>2
        <3> QED
            BY <2>2, <3>1, MinIsLeast
    <2> HIDE DEF h, g
    <2>4. g = h - i + 1 /\ g \in 1 .. n - i
        <3>1. g <= h - i + 1
            BY <1>3, <2>1, <2>3
        <3>2. h <= g + i - 1 /\ g \in 1 .. n - i
            BY <1>4, <2>1, <2>2, <2>3
        <3> QED
            BY <1>2, <2>1, <3>1, <3>2
    <2>5. From(y, g) = From(x, h)
        <3>1. /\ From(x, h) \in Seq(Byte) /\ Len(From(x, h)) = n - h + 1
              /\ \A k \in 1 .. n - h + 1 : From(x, h)[k] = x[h + k - 1]
            BY <1>1, <2>1, FromTyped
        <3>2. PICK m \in Nat : m = n - i + 1 /\ m = Len(y)
            BY <1>2
        <3>3. /\ From(y, g) \in Seq(Byte) /\ Len(From(y, g)) = m - g + 1
              /\ \A k \in 1 .. m - g + 1 : From(y, g)[k] = y[g + k - 1]
            <4>1. g \in 1 .. m + 1
                BY <1>1, <1>2, <2>4, <3>2
            <4> QED
                BY SMTT(20), <1>2, <3>2, <4>1, FromTyped
        <3>4. m - g + 1 = n - h + 1
            BY <1>2, <2>1, <2>4, <3>2
        <3>5. ASSUME NEW k \in 1 .. n - h + 1 PROVE From(y, g)[k] = From(x, h)[k]
            <4>1. PICK l \in 1 .. n - i + 1 : l = g + k - 1
                BY SMTT(20), <1>1, <1>2, <2>1, <2>4
            <4>2. y[l] = x[i + l - 1] /\ i + l - 1 = h + k - 1
                BY <1>1, <1>2, <2>1, <2>4, <4>1
            <4> QED
                BY <3>1, <3>3, <3>4, <4>1, <4>2
        <3> QED
            BY <3>1, <3>3, <3>4, <3>5, SeqEqual
    <2>6. Turn(x) = AtHead(From(x, h))
        BY <1>1, <1>7 DEF Turn, h
    <2>7. CASE Len(y) >= 6
        <3>1. Turn(y) = AtHead(From(x, h))
            BY <1>2, <2>2, <2>5, <2>7 DEF Turn, g
        <3> QED
            BY <1>2, <2>6, <3>1, PacketsEquation DEF y
    <2>8. CASE Len(y) < 6
        <3>1. Len(From(x, h)) < 6
            <4>1. Len(From(x, h)) = n - h + 1
                BY <1>1, <2>1, FromTyped
            <4> QED
                BY <1>2, <2>1, <2>8, <4>1
        <3>2. ~Turn(x).more
            BY <2>6, <3>1 DEF AtHead
        <3> QED
            BY <1>2, <2>8, <3>2, PacketsEquation, NoPackets DEF y
    <2> QED
        BY <1>2, <2>7, <2>8
<1> QED
    BY <1>1, <1>5, <1>6, <1>7

LEMMA ConcatBytes ==
    ASSUME NEW b \in Seq(Byte), NEW c \in Seq(Byte)
    PROVE  /\ b \o c \in Seq(Byte) /\ Len(b \o c) = Len(b) + Len(c)
           /\ \A k \in 1 .. Len(b) : (b \o c)[k] = b[k]
           /\ \A k \in 1 .. Len(c) : (b \o c)[Len(b) + k] = c[k]
<1>0. PICK m \in Nat, n \in Nat : m = Len(b) /\ n = Len(c)
    BY LenProperties
<1> DEFINE z == b \o c
<1>1. /\ z \in Seq(Byte) /\ Len(z) = m + n
      /\ \A k \in 1 .. m + n : z[k] = IF k <= m THEN b[k] ELSE c[k - m]
    BY <1>0, ConcatProperties
<1> HIDE DEF z
<1>2. \A k \in 1 .. m : z[k] = b[k]
    BY <1>1
<1>3. ASSUME NEW k \in 1 .. n PROVE z[m + k] = c[k]
    <2>1. PICK j \in 1 .. m + n : j = m + k /\ ~(j <= m) /\ j - m = k
        OBVIOUS
    <2> QED
        BY <1>1, <2>1
<1> QED
    BY <1>0, <1>1, <1>2, <1>3 DEF z

LEMMA FromConcat ==
    ASSUME NEW b \in Seq(Byte), NEW c \in Seq(Byte), NEW i \in 1 .. Len(b) + 1
    PROVE  From(b \o c, i) = From(b, i) \o c
<1>1. PICK m \in Nat, n \in Nat : m = Len(b) /\ n = Len(c)
    BY LenProperties
<1>2. /\ b \o c \in Seq(Byte) /\ Len(b \o c) = m + n
      /\ \A k \in 1 .. m + n : (b \o c)[k] = IF k <= m THEN b[k] ELSE c[k - m]
    BY <1>1, ConcatProperties
<1>3. /\ From(b, i) \in Seq(Byte) /\ Len(From(b, i)) = m - i + 1
      /\ \A k \in 1 .. m - i + 1 : From(b, i)[k] = b[i + k - 1]
    BY <1>1, FromTyped
<1>4. PICK l \in Nat : l = m + n /\ l = Len(b \o c) /\ i \in 1 .. l + 1
    BY <1>1, <1>2
<1>5. /\ From(b \o c, i) \in Seq(Byte) /\ Len(From(b \o c, i)) = l - i + 1
      /\ \A k \in 1 .. l - i + 1 : From(b \o c, i)[k] = (b \o c)[i + k - 1]
    <2> DEFINE z == b \o c
    <2>1. z \in Seq(Byte) /\ l = Len(z) /\ i \in 1 .. Len(z) + 1
        BY <1>2, <1>4
    <2> HIDE DEF z
    <2>2. /\ From(z, i) \in Seq(Byte) /\ Len(From(z, i)) = l - i + 1
          /\ \A k \in 1 .. l - i + 1 : From(z, i)[k] = z[i + k - 1]
        BY <2>1, FromTyped
    <2> QED
        BY <2>2 DEF z
<1>6. PICK r \in Nat : r = m - i + 1 /\ r = Len(From(b, i))
    <2>1. m - i + 1 \in Nat
        BY <1>1
    <2> QED
        BY <1>3, <2>1
<1>7. /\ From(b, i) \o c \in Seq(Byte) /\ Len(From(b, i) \o c) = r + n
      /\ \A k \in 1 .. r + n : (From(b, i) \o c)[k] = IF k <= r THEN From(b, i)[k] ELSE c[k - r]
    <2> DEFINE y == From(b, i)
    <2>1. y \in Seq(Byte) /\ r = Len(y)
        BY <1>3, <1>6
    <2> HIDE DEF y
    <2>2. y \o c \in Seq(Byte) /\ Len(y \o c) = Len(y) + Len(c)
        BY <2>1, ConcatProperties
    <2>3. \A k \in 1 .. Len(y) + Len(c) :
            (y \o c)[k] = IF k <= Len(y) THEN y[k] ELSE c[k - Len(y)]
        BY <2>1, ConcatProperties
    <2>4. /\ y \o c \in Seq(Byte) /\ Len(y \o c) = r + n
          /\ \A k \in 1 .. r + n : (y \o c)[k] = IF k <= r THEN y[k] ELSE c[k - r]
        BY <1>1, <2>1, <2>2, <2>3
    <2> QED
        BY <2>4 DEF y
<1>8. r + n = l - i + 1
    BY <1>1, <1>4, <1>6
<1>9. ASSUME NEW k \in 1 .. r + n PROVE From(b \o c, i)[k] = (From(b, i) \o c)[k]
    <2>1. PICK j \in 1 .. m + n : j = i + k - 1
        <3>1. i \in Nat /\ 1 <= i /\ k \in Nat /\ 1 <= k /\ k <= r + n /\ r = m - i + 1
            BY <1>4, <1>6
        <3>2. i + k - 1 \in 1 .. m + n
            BY <3>1
        <3> QED
            BY <3>2
    <2>2. From(b \o c, i)[k] = IF j <= m THEN b[j] ELSE c[j - m]
        BY <1>2, <1>5, <1>8, <2>1
    <2>3. CASE k <= r
        <3>1. j <= m /\ k \in 1 .. m - i + 1
            BY <1>1, <1>6, <2>1, <2>3
        <3> QED
            BY <1>3, <1>7, <2>1, <2>2, <2>3, <3>1
    <2>4. CASE ~(k <= r)
        <3>1. ~(j <= m) /\ j - m = k - r
            BY <1>1, <1>6, <2>1, <2>4
        <3> QED
            BY <1>7, <2>2, <2>4, <3>1
    <2> QED
        BY <2>3, <2>4
<1> QED
    BY <1>5, <1>7, <1>8, <1>9, SeqEqual

\* Bytes that begin with a head.
BeginsWithHead(x) == Len(x) >= 2 /\ x[1] = PACKET_HEAD1 /\ x[2] = PACKET_HEAD2

LEMMA HeadKept ==
    ASSUME NEW y \in Seq(Byte), NEW c \in Seq(Byte), BeginsWithHead(y)
    PROVE  y \o c \in Seq(Byte) /\ BeginsWithHead(y \o c)
<1>1. PICK m \in Nat, n \in Nat : m = Len(y) /\ n = Len(c)
    BY LenProperties
<1>2. m >= 2
    BY <1>1 DEF BeginsWithHead
<1> DEFINE z == y \o c
<1>3. z \in Seq(Byte) /\ Len(z) = m + n /\ \A k \in 1 .. m : z[k] = y[k]
    BY <1>1, ConcatBytes
<1> HIDE DEF z
<1>4. z[1] = y[1] /\ z[2] = y[2] /\ Len(z) >= 2
    BY <1>1, <1>2, <1>3
<1>5. BeginsWithHead(z)
    BY <1>4 DEF BeginsWithHead
<1> QED
    BY <1>3, <1>5 DEF z

LEMMA TurnAtHead ==
    ASSUME NEW x \in Seq(Byte), BeginsWithHead(x), Len(x) >= 6
    PROVE  Turn(x) = AtHead(x)
<1>1. Len(x) \in Nat
    BY LenProperties
<1>2. 1 \in Heads(x) /\ Heads(x) \subseteq Nat /\ \A j \in Heads(x) : 1 <= j
    BY <1>1 DEF Heads, BeginsWithHead
<1>3. Min(Heads(x)) = 1
    <2>1. Min(Heads(x)) \in Heads(x) /\ \A j \in Heads(x) : Min(Heads(x)) <= j
        BY <1>2, MinIsLeast
    <2>2. Min(Heads(x)) \in Nat /\ Min(Heads(x)) <= 1 /\ 1 <= Min(Heads(x))
        BY <1>2, <2>1
    <2> QED
        BY <2>2
<1>4. From(x, 1) = x
    <2>1. From(x, 1) \in Seq(Byte) /\ Len(From(x, 1)) = Len(x)
          /\ \A k \in 1 .. Len(x) : From(x, 1)[k] = x[k]
        BY <1>1, FromTyped
    <2> QED
        BY <2>1, SeqEqual
<1> QED
    BY <1>2, <1>3, <1>4 DEF Turn

\* A turn for bytes with a whole packet does not depend on what comes after it.
LEMMA AtHeadConcat ==
    ASSUME NEW y \in Seq(Byte), NEW c \in Seq(Byte), AtHead(y).more
    PROVE  /\ AtHead(y \o c).more
           /\ AtHead(y \o c).found = AtHead(y).found
           /\ AtHead(y \o c).left = AtHead(y).left \o c
           /\ Len(y) >= 6 /\ Len(y \o c) >= 6
<1>1. ~(Len(y) < 6 \/ Len(y) < y[4] + 6)
    BY DEF AtHead
<1>2. PICK m \in Nat, l \in Nat : m = Len(y) /\ l = Len(c)
    BY LenProperties
<1> DEFINE z == y \o c
<1>3. /\ z \in Seq(Byte) /\ Len(z) = m + l /\ \A k \in 1 .. m : z[k] = y[k]
      /\ \A k \in 1 .. m : y[k] \in Byte
    BY <1>2, ConcatProperties, ElementOfSeq
<1> HIDE DEF z
<1>4. m >= 6
    BY <1>1, <1>2
<1>5. PICK n \in 0 .. 255 : n = y[4]
    <2>1. 4 \in 1 .. m
        BY <1>4
    <2> QED
        BY <1>3, <2>1 DEF Byte
<1>6. n + 6 <= m
    <2>1. ~(m < n + 6)
        BY <1>1, <1>2, <1>5
    <2> QED
        BY <2>1
<1>7. /\ z[4] = n /\ z[3] = y[3] /\ z[n + 5] = y[n + 5] /\ z[n + 6] = y[n + 6]
    <2>1. 4 \in 1 .. m /\ 3 \in 1 .. m /\ n + 5 \in 1 .. m /\ n + 6 \in 1 .. m
        BY <1>4, <1>6
    <2> QED
        BY <1>3, <1>5, <2>1
<1>8. SubSeq(z, 5, 4 + n) = SubSeq(y, 5, 4 + n)
    <2>1. \A k \in 5 .. 4 + n : z[k] = y[k] /\ y[k] \in Byte
        BY <1>3, <1>6
    <2>2. /\ SubSeq(y, 5, 4 + n) \in Seq(Byte)
          /\ Len(SubSeq(y, 5, 4 + n)) = IF 5 <= 4 + n THEN 4 + n - 5 + 1 ELSE 0
          /\ \A k \in 1 .. 4 + n - 5 + 1 : SubSeq(y, 5, 4 + n)[k] = y[5 + k - 1]
        BY <2>1, SubSeqProperties
    <2>3. /\ SubSeq(z, 5, 4 + n) \in Seq(Byte)
          /\ Len(SubSeq(z, 5, 4 + n)) = IF 5 <= 4 + n THEN 4 + n - 5 + 1 ELSE 0
          /\ \A k \in 1 .. 4 + n - 5 + 1 : SubSeq(z, 5, 4 + n)[k] = z[5 + k - 1]
        BY <2>1, SubSeqProperties
    <2>4. \A k \in 1 .. 4 + n - 5 + 1 : z[5 + k - 1] = y[5 + k - 1]
        BY <2>1
    <2>5. Len(SubSeq(y, 5, 4 + n)) = n /\ 4 + n - 5 + 1 = n
        BY <2>2
    <2> QED
        BY SMTT(20), <2>2, <2>3, <2>4, <2>5, SeqEqual
<1>9. Packet(z) = Packet(y)
    BY <1>5, <1>7, <1>8 DEF Packet
<1>10. From(z, 3) = From(y, 3) \o c /\ From(z, n + 7) = From(y, n + 7) \o c
    <2>1. 3 \in 1 .. m + 1 /\ n + 7 \in 1 .. m + 1
        BY <1>4, <1>6
    <2> QED
        BY <1>2, <2>1, FromConcat DEF z
<1>11. ~(Len(z) < 6) /\ ~(Len(z) < z[4] + 6)
    BY <1>3, <1>4, <1>6, <1>7
<1>12. CASE y[n + 6] # PACKET_TAIL
    <2>1. AtHead(y) = [left |-> From(y, 3), found |-> << >>, more |-> TRUE]
        BY <1>1, <1>5, <1>12 DEF AtHead
    <2>2. AtHead(z) = [left |-> From(z, 3), found |-> << >>, more |-> TRUE]
        BY <1>5, <1>7, <1>11, <1>12 DEF AtHead
    <2> QED
        BY <1>2, <1>3, <1>4, <1>10, <2>1, <2>2 DEF z
<1>13. CASE y[n + 6] = PACKET_TAIL
    <2>1. AtHead(y) = [left |-> From(y, n + 7), found |-> Packet(y), more |-> TRUE]
        BY <1>1, <1>5, <1>13 DEF AtHead
    <2>2. AtHead(z) = [left |-> From(z, n + 7), found |-> Packet(z), more |-> TRUE]
        BY <1>5, <1>7, <1>11, <1>13 DEF AtHead
    <2> QED
        BY <1>2, <1>3, <1>4, <1>9, <1>10, <2>1, <2>2 DEF z
<1> QED
    BY <1>12, <1>13

\* What comes after the bytes of the buffer may be added before a turn or after it.
LEMMA TurnResumes ==
    ASSUME NEW b \in Seq(Byte), NEW c \in Seq(Byte)
    PROVE  Packets[b \o c] = Turn(b).found \o Packets[Turn(b).left \o c]
<1> DEFINE x == b \o c
<1>1. PICK m \in Nat, l \in Nat : m = Len(b) /\ l = Len(c)
    BY LenProperties
<1>2. /\ x \in Seq(Byte) /\ Len(x) = m + l /\ \A k \in 1 .. m : x[k] = b[k]
      /\ Packets[x] \in Seq(Report)
    <2>1. /\ x \in Seq(Byte) /\ Len(x) = m + l /\ \A k \in 1 .. m : x[k] = b[k]
        BY <1>1, ConcatProperties
    <2> HIDE DEF x
    <2> QED
        BY <2>1, PacketsTyped
<1> HIDE DEF x
<1>3. << >> \o Packets[x] = Packets[x]
    BY <1>2
\* A head of x whose second byte is one of b is a head of b.
<1>4. \A j \in Heads(x) : j <= m - 1 => j \in Heads(b)
    <2> SUFFICES ASSUME NEW j \in Heads(x), j <= m - 1 PROVE j \in Heads(b)
        OBVIOUS
    <2>1. j \in 1 .. m - 1 /\ x[j] = PACKET_HEAD1 /\ x[j + 1] = PACKET_HEAD2
        BY <1>1, <1>2 DEF Heads
    <2>2. x[j] = b[j] /\ x[j + 1] = b[j + 1]
        BY <1>1, <1>2, <2>1
    <2> QED
        BY <1>1, <2>1, <2>2 DEF Heads
<1>5. ASSUME NEW i \in 1 .. m, \A j \in Heads(x) : i <= j
      PROVE  Packets[x] = Packets[From(b, i) \o c]
    <2>1. Packets[x] = Packets[From(x, i)]
        <3>1. i \in 1 .. Len(x) + 1
            BY <1>1, <1>2
        <3> QED
            BY <1>2, <1>5, <3>1, DropBytes
    <2>2. From(x, i) = From(b, i) \o c
        <3>1. i \in 1 .. Len(b) + 1
            BY <1>1
        <3> QED
            BY <3>1, FromConcat DEF x
    <2> QED
        BY <2>1, <2>2
<1>6. CASE m < 6
    <2>1. Turn(b).left = b /\ Turn(b).found = << >>
        BY <1>1, <1>6 DEF Turn
    <2> QED
        BY <1>3, <2>1 DEF x
<1>7. CASE m >= 6 /\ Heads(b) = {}
    <2>1. Turn(b).left = <<b[m]>> /\ Turn(b).found = << >>
        BY <1>1, <1>7 DEF Turn, WithoutHead
    <2>2. From(b, m) = <<b[m]>>
        <3>1. /\ From(b, m) \in Seq(Byte) /\ Len(From(b, m)) = m - m + 1
              /\ \A k \in 1 .. m - m + 1 : From(b, m)[k] = b[m + k - 1]
            <4>1. m \in 1 .. Len(b) + 1
                BY <1>1, <1>7
            <4> QED
                BY <1>1, <4>1, FromTyped
        <3>2. Len(From(b, m)) = 1 /\ From(b, m)[1] = b[m]
            BY <3>1
        <3> QED
            BY <3>1, <3>2
    <2>3. \A j \in Heads(x) : m <= j
        <3>1. \A j \in Heads(x) : j \in Nat
            BY <1>1, <1>2 DEF Heads
        <3> QED
            BY <1>1, <1>4, <1>7, <3>1
    <2>4. Packets[x] = Packets[From(b, m) \o c]
        BY <1>1, <1>5, <1>7, <2>3
    <2> QED
        BY <1>2, <1>3, <2>1, <2>2, <2>4 DEF x
<1>8. CASE m >= 6 /\ Heads(b) # {}
    <2> DEFINE h == Min(Heads(b))
               y == From(b, h)
    <2>1. /\ h \in 1 .. m - 1 /\ b[h] = PACKET_HEAD1 /\ b[h + 1] = PACKET_HEAD2
          /\ \A i \in Heads(b) : h <= i
        BY <1>1, <1>8, HeadFound
    <2>2. Turn(b) = AtHead(y)
        BY <1>1, <1>8 DEF Turn
    <2> HIDE DEF h
    <2>3. /\ y \in Seq(Byte) /\ Len(y) = m - h + 1
          /\ \A k \in 1 .. m - h + 1 : y[k] = b[h + k - 1]
        <3>1. h \in 1 .. m + 1
            BY <1>1, <2>1
        <3> QED
            BY <1>1, <3>1, FromTyped
    <2>4. Packets[x] = Packets[y \o c]
        <3>1. \A j \in Heads(x) : h <= j
            <4>1. \A j \in Heads(x) : j \in Nat
                BY <1>1, <1>2 DEF Heads
            <4> QED
                BY <1>1, <1>4, <2>1, <4>1
        <3>2. h \in 1 .. m
            BY <1>1, <2>1
        <3> QED
            BY <1>5, <3>1, <3>2
    <2> HIDE DEF y
    <2>5. CASE ~AtHead(y).more
        <3>1. AtHead(y).left = y /\ AtHead(y).found = << >>
            BY <2>5 DEF AtHead
        <3> QED
            BY <1>2, <1>3, <2>2, <2>4, <3>1 DEF x
    <2>6. CASE AtHead(y).more
        <3> DEFINE z == y \o c
        <3>1. /\ AtHead(z).more /\ AtHead(z).found = AtHead(y).found
              /\ AtHead(z).left = AtHead(y).left \o c /\ Len(z) >= 6
            BY <2>3, <2>6, AtHeadConcat
        <3>2. z \in Seq(Byte) /\ BeginsWithHead(z)
            <4>1. 1 \in 1 .. m - h + 1 /\ 2 \in 1 .. m - h + 1 /\ Len(y) >= 2
                BY <1>1, <2>1, <2>3
            <4>2. y[1] = b[h + 1 - 1] /\ y[2] = b[h + 2 - 1]
                BY <2>3, <4>1
            <4>3. h + 1 - 1 = h /\ h + 2 - 1 = h + 1
                BY <2>1
            <4>4. BeginsWithHead(y)
                BY <2>1, <4>1, <4>2, <4>3 DEF BeginsWithHead
            <4> QED
                BY <2>3, <4>4, HeadKept
        <3>3. Packets[z] = AtHead(z).found \o Packets[AtHead(z).left]
            <4> HIDE DEF z
            <4> QED
                BY <3>1, <3>2, TurnAtHead, PacketsEquation
        <3> QED
            BY <2>2, <2>4, <3>1, <3>3 DEF x
    <2> QED
        BY <2>5, <2>6
<1>9. m < 6 \/ m >= 6
    BY <1>1
<1> QED
    BY <1>6, <1>7, <1>8, <1>9, Zenon

-----------------------------------------------------------------------------
(* Frames are found where they are.                                         *)

LEMMA FrameBytes ==
    ASSUME NEW type \in Byte, NEW data \in Seq(Byte), Len(data) \in Byte
    PROVE  LET f == Frame(type, data)
               n == Len(data)
           IN  /\ f \in Seq(Byte) /\ Len(f) = n + 6
               /\ f[1] = PACKET_HEAD1 /\ f[2] = PACKET_HEAD2 /\ f[3] = type /\ f[4] = n
               /\ \A k \in 1 .. n : f[4 + k] = data[k]
               /\ f[n + 5] = calculateChecksum(type, data) /\ f[n + 6] = PACKET_TAIL
<1> DEFINE head == <<PACKET_HEAD1, PACKET_HEAD2, type, Len(data)>>
           sum == calculateChecksum(type, data)
           tail == <<sum, PACKET_TAIL>>
           f == Frame(type, data)
<1>0. PICK n \in 0 .. 255 : n = Len(data)
    BY DEF Byte
<1>1. sum \in Byte
    BY FrameTyped
<1> HIDE DEF sum
<1>2. head \in Seq(Byte) /\ Len(head) = 4
    <2>1. \A l \in Byte : <<PACKET_HEAD1, PACKET_HEAD2, type, l>> \in Seq(Byte)
                            /\ Len(<<PACKET_HEAD1, PACKET_HEAD2, type, l>>) = 4
        BY DEF PACKET_HEAD1, PACKET_HEAD2, Byte
    <2> QED
        BY <2>1
<1>3. head[1] = PACKET_HEAD1 /\ head[2] = PACKET_HEAD2 /\ head[3] = type /\ head[4] = n
    BY <1>0
<1>4. tail \in Seq(Byte) /\ Len(tail) = 2
    BY <1>1 DEF PACKET_TAIL, Byte
<1>5. tail[1] = sum /\ tail[2] = PACKET_TAIL
    OBVIOUS
<1>6. Frame(type, data) = (head \o data) \o tail
    BY DEF Frame, sum
<1> HIDE DEF head, tail
<1> DEFINE g == head \o data
<1>7. /\ g \in Seq(Byte) /\ Len(g) = 4 + n /\ \A k \in 1 .. 4 : g[k] = head[k]
      /\ \A k \in 1 .. n : g[4 + k] = data[k]
    <2>0. head \in Seq(Byte)
        BY <1>2
    <2>1. PICK h \in Nat : h = 4 /\ h = Len(head)
        BY <1>2
    <2>3. h = Len(head)
        BY <2>1
    <2>2. /\ g \in Seq(Byte) /\ Len(g) = h + n /\ \A k \in 1 .. h : g[k] = head[k]
          /\ \A k \in 1 .. n : g[h + k] = data[k]
        BY <1>0, <2>0, <2>3, ConcatBytes
    <2> QED
        BY <2>1, <2>2
<1> HIDE DEF g
<1> HIDE DEF f
<1>8. PICK m \in Nat : m = 4 + n
    BY SMTT(20), <1>0
<1>9. /\ f \in Seq(Byte) /\ Len(f) = m + 2 /\ \A k \in 1 .. m : f[k] = g[k]
      /\ \A k \in 1 .. 2 : f[m + k] = tail[k]
    <2>0. PICK t \in Nat : t = 2 /\ t = Len(tail)
        BY <1>4
    <2>1. t = 2
        BY <2>0
    <2>4. g \in Seq(Byte) /\ tail \in Seq(Byte) /\ m = Len(g) /\ t = Len(tail)
        BY <1>4, <1>7, <1>8, <2>0
    <2>2. f = g \o tail
        BY <1>6 DEF f, g
    <2>3. /\ g \o tail \in Seq(Byte) /\ Len(g \o tail) = m + t
          /\ \A k \in 1 .. m : (g \o tail)[k] = g[k]
          /\ \A k \in 1 .. t : (g \o tail)[m + k] = tail[k]
        BY <2>4, ConcatBytes
    <2> QED
        BY <2>1, <2>2, <2>3
<1>11. f[1] = head[1] /\ f[2] = head[2] /\ f[3] = head[3] /\ f[4] = head[4]
    <2>1. \A k \in 1 .. 4 : k \in 1 .. m
        BY <1>8
    <2> QED
        BY <1>7, <1>9, <2>1
<1>12. ASSUME NEW k \in 1 .. n PROVE f[4 + k] = data[k]
    <2>1. 4 + k \in 1 .. m
        BY <1>8
    <2> QED
        BY <1>7, <1>9, <2>1
<1>13. f[n + 5] = sum /\ f[n + 6] = PACKET_TAIL /\ Len(f) = n + 6
    <2>1. m + 1 = n + 5 /\ m + 2 = n + 6
        BY <1>8
    <2>2. f[m + 1] = tail[1] /\ f[m + 2] = tail[2]
        BY <1>9
    <2> QED
        BY <1>5, <1>9, <2>1, <2>2
<1> QED
    <2>1. /\ f \in Seq(Byte) /\ Len(f) = n + 6
          /\ f[1] = PACKET_HEAD1 /\ f[2] = PACKET_HEAD2 /\ f[3] = type /\ f[4] = n
          /\ \A k \in 1 .. n : f[4 + k] = data[k]
          /\ f[n + 5] = sum /\ f[n + 6] = PACKET_TAIL
        BY <1>3, <1>9, <1>11, <1>12, <1>13
    <2> QED
        BY <1>0, <2>1 DEF f, sum

\* A whole frame at the beginning of the bytes: its packet is found, and then those
\* of the bytes after it.
LEMMA FrameParsed ==
    ASSUME NEW type \in Byte, NEW data \in Seq(Byte), Len(data) \in Byte, NEW c \in Seq(Byte)
    PROVE  Packets[Frame(type, data) \o c] = <<[type |-> type, data |-> data]>> \o Packets[c]
<1> DEFINE f == Frame(type, data)
           z == f \o c
<1>1. PICK n \in 0 .. 255, l \in Nat : n = Len(data) /\ l = Len(c)
    BY LenProperties DEF Byte
<1>0. f = Frame(type, data) /\ n \in 0 .. 255 /\ n = Len(data)
    BY <1>1
<1> HIDE DEF f
<1>2. /\ f \in Seq(Byte) /\ Len(f) = n + 6
      /\ f[1] = PACKET_HEAD1 /\ f[2] = PACKET_HEAD2 /\ f[3] = type /\ f[4] = n
      /\ \A k \in 1 .. n : f[4 + k] = data[k]
      /\ f[n + 5] = calculateChecksum(type, data) /\ f[n + 6] = PACKET_TAIL
    BY ZenonT(30), <1>0, FrameBytes DEF f
<1>3. PICK m \in Nat : m = n + 6 /\ m = Len(f)
    BY <1>2
<1>4. /\ z \in Seq(Byte) /\ Len(z) = m + l /\ \A k \in 1 .. m : z[k] = f[k]
      /\ \A k \in 1 .. l : z[m + k] = c[k]
    <2>1. f \in Seq(Byte) /\ m = Len(f) /\ l = Len(c)
        BY <1>1, <1>2, <1>3
    <2> QED
        BY <2>1, ConcatBytes
<1> HIDE DEF z
<1>5. /\ z[1] = PACKET_HEAD1 /\ z[2] = PACKET_HEAD2 /\ z[3] = type /\ z[4] = n
      /\ z[n + 5] = calculateChecksum(type, data) /\ z[n + 6] = PACKET_TAIL
      /\ Len(z) >= 6 /\ Len(z) >= n + 6
    <2>1. {1, 2, 3, 4, n + 5, n + 6} \subseteq 1 .. m
        BY <1>3
    <2>2. Len(z) >= 6 /\ Len(z) >= n + 6
        BY SMTT(20), <1>1, <1>3, <1>4
    <2> QED
        BY <1>2, <1>4, <2>1, <2>2
<1>6. SubSeq(z, 5, 4 + n) = data
    <2>1. ASSUME NEW k \in 5 .. 4 + n PROVE z[k] = data[k - 4] /\ z[k] \in Byte
        <3>1. k \in 1 .. m /\ k - 4 \in 1 .. n /\ 4 + (k - 4) = k
            BY <1>3
        <3> QED
            <4>1. z[k] = data[k - 4]
                BY <1>2, <1>4, <3>1
            <4>2. data[k - 4] \in Byte
                BY <1>1, <3>1, ElementOfSeq
            <4> QED
                BY <4>1, <4>2
    <2>2. /\ SubSeq(z, 5, 4 + n) \in Seq(Byte)
          /\ Len(SubSeq(z, 5, 4 + n)) = IF 5 <= 4 + n THEN 4 + n - 5 + 1 ELSE 0
          /\ \A k \in 1 .. 4 + n - 5 + 1 : SubSeq(z, 5, 4 + n)[k] = z[5 + k - 1]
        BY <2>1, SubSeqProperties
    <2>3. Len(SubSeq(z, 5, 4 + n)) = n /\ 4 + n - 5 + 1 = n
        BY <2>2
    <2>4. ASSUME NEW k \in 1 .. n PROVE z[5 + k - 1] = data[k]
        <3>1. PICK j \in 5 .. 4 + n : j = 5 + k - 1 /\ j - 4 = k
            OBVIOUS
        <3> QED
            BY <2>1, <3>1
    <2> QED
        BY ZenonT(30), <1>1, <2>2, <2>3, <2>4, SeqEqual
<1>7. Packet(z) = <<[type |-> type, data |-> data]>>
    BY <1>5, <1>6 DEF Packet
<1>8. From(z, n + 7) = c
    <2>1. PICK j \in 1 .. m + 1 : j = m + 1 /\ j = n + 7
        BY <1>3
    <2>2. From(z, j) = From(f, j) \o c
        BY <1>2, <1>3, <2>1, FromConcat DEF z
    <2>3. From(f, j) = << >>
        <3>1. From(f, j) \in Seq(Byte) /\ Len(From(f, j)) = m - j + 1
            BY SMTT(20), <1>2, <1>3, <2>1, FromTyped
        <3>2. Len(From(f, j)) = 0
            BY <2>1, <3>1
        <3> QED
            BY <3>1, <3>2
    <2>4. << >> \o c = c
        OBVIOUS
    <2> QED
        BY <2>1, <2>2, <2>3, <2>4
<1>9. Turn(z) = AtHead(z)
    BY SMTT(20), <1>4, <1>5, TurnAtHead DEF BeginsWithHead
<1>10. AtHead(z) = [left |-> From(z, n + 7), found |-> Packet(z), more |-> TRUE]
    <2>1. ~(Len(z) < 6) /\ ~(Len(z) < n + 6)
        BY SMTT(20), <1>1, <1>3, <1>4
    <2> QED
        BY <1>5, <2>1 DEF AtHead
<1> QED
    <2>1. Turn(z).more /\ Turn(z).left = c /\ Turn(z).found = <<[type |-> type, data |-> data]>>
        BY <1>7, <1>8, <1>9, <1>10
    <2>2. Packets[z] = <<[type |-> type, data |-> data]>> \o Packets[c]
        BY <1>4, <2>1, PacketsEquation
    <2> QED
        BY <2>2 DEF z, f

\* A frame that is not there in full has no packet.
LEMMA FrameCut ==
    ASSUME NEW type \in Byte, NEW data \in Seq(Byte), Len(data) \in Byte,
           NEW m \in Nat, m < Len(data) + 6
    PROVE  /\ SubSeq(Frame(type, data), 1, m) \in Seq(Byte)
           /\ Packets[SubSeq(Frame(type, data), 1, m)] = << >>
<1> DEFINE f == Frame(type, data)
           x == SubSeq(f, 1, m)
<1>1. PICK n \in 0 .. 255 : n = Len(data)
    BY DEF Byte
<1>0. f = Frame(type, data) /\ n \in 0 .. 255 /\ n = Len(data) /\ m < n + 6
    BY <1>1
<1> HIDE DEF f
<1>2. /\ f \in Seq(Byte) /\ Len(f) = n + 6 /\ m < n + 6
      /\ f[1] = PACKET_HEAD1 /\ f[2] = PACKET_HEAD2 /\ f[4] = n
    BY <1>0, FrameBytes DEF f
<1>3. x \in Seq(Byte) /\ Len(x) = m /\ \A k \in 1 .. m : x[k] = f[k]
    <2>1. \A k \in 1 .. m : f[k] \in Byte
        <3>1. \A k \in 1 .. m : k \in 1 .. Len(f)
            BY <1>2
        <3> QED
            BY <1>2, <3>1, ElementOfSeq
    <2> QED
        BY <2>1, SubSeqProperties
<1> HIDE DEF x
<1>4. CASE m < 6
    BY <1>3, <1>4, NoPackets DEF x, f
<1>5. CASE m >= 6
    <2>1. x[1] = PACKET_HEAD1 /\ x[2] = PACKET_HEAD2 /\ x[4] = n
        BY <1>2, <1>3, <1>5
    <2>2. Turn(x) = AtHead(x)
        BY <1>3, <1>5, <2>1, TurnAtHead DEF BeginsWithHead
    <2>3. ~AtHead(x).more
        BY <1>2, <1>3, <2>1 DEF AtHead
    <2> QED
        BY <1>3, <2>2, <2>3, PacketsEquation DEF x, f
<1> QED
    BY <1>3, <1>4, <1>5 DEF x, f

\* The end of the frame that was under way when the port was opened has no head
\* and hides none.
LEMMA StubDropped ==
    LET x == From(Frame(TYPE_CAR, NoCar), 4 + CarLen)
    IN  x \in Seq(Byte) /\ Len(x) = 3 /\ \A c \in Seq(Byte) : Packets[x \o c] = Packets[c]
<1> DEFINE f == Frame(TYPE_CAR, NoCar)
           x == From(f, 4 + CarLen)
<1>1. /\ TYPE_CAR \in Byte /\ NoCar \in Seq(Byte) /\ Len(NoCar) \in Byte
      /\ Len(NoCar) = CarLen /\ CarLen \in 1 .. 255 /\ NoCar[CarLen] = 0
    <2>1. CarLen \in 1 .. 255 /\ CarLen \in 1 .. CarLen
        BY SMTT(20), LinkAssumption
    <2> QED
        BY <2>1, NoCarTyped DEF TYPE_CAR, Byte, NoCar
<1>2. /\ f \in Seq(Byte) /\ Len(f) = CarLen + 6
      /\ f[4 + CarLen] = NoCar[CarLen]
      /\ f[CarLen + 6] = PACKET_TAIL
    <2>1. \A k \in 1 .. Len(NoCar) : f[4 + k] = NoCar[k]
        BY <1>1, FrameBytes
    <2>2. f \in Seq(Byte) /\ Len(f) = Len(NoCar) + 6 /\ f[Len(NoCar) + 6] = PACKET_TAIL
        BY <1>1, FrameBytes
    <2> QED
        BY <1>1, <2>1, <2>2
<1> HIDE DEF f
<1>3. PICK i \in Nat, m \in Nat : i = 4 + CarLen /\ m = Len(f) /\ m = i + 2
    BY <1>1, <1>2
<1>4. /\ From(f, i) \in Seq(Byte) /\ Len(From(f, i)) = 3
      /\ From(f, i)[1] = 0 /\ From(f, i)[3] = 238
    <2>1. i \in 1 .. Len(f) + 1 /\ Len(f) - i + 1 = 3
        BY <1>1, <1>3
    <2>2. /\ From(f, i) \in Seq(Byte) /\ Len(From(f, i)) = Len(f) - i + 1
          /\ \A k \in 1 .. Len(f) - i + 1 : From(f, i)[k] = f[i + k - 1]
        BY <1>2, <2>1, FromTyped
    <2>3. From(f, i)[1] = f[i + 1 - 1] /\ From(f, i)[3] = f[i + 3 - 1]
        BY <2>1, <2>2
    <2>4. i + 1 - 1 = 4 + CarLen /\ i + 3 - 1 = CarLen + 6
        BY <1>1, <1>3
    <2> QED
        BY <1>1, <1>2, <2>1, <2>2, <2>3, <2>4 DEF PACKET_TAIL
<1>5. x = From(f, i)
    BY <1>3
<1> HIDE DEF x
<1>6. ASSUME NEW c \in Seq(Byte) PROVE Packets[x \o c] = Packets[c]
    <2> DEFINE z == x \o c
    <2>1. PICK r \in Nat, l \in Nat : r = 3 /\ r = Len(x) /\ l = Len(c)
        BY <1>4, <1>5, LenProperties
    <2>2. x \in Seq(Byte) /\ r = Len(x) /\ l = Len(c)
        BY <1>4, <1>5, <2>1
    <2>3. z \in Seq(Byte) /\ Len(z) = r + l /\ \A k \in 1 .. r : z[k] = x[k]
        BY <2>2, ConcatBytes
    <2> HIDE DEF z
    <2>4. z[1] = 0 /\ z[3] = 238 /\ Len(z) = 3 + l
        BY <1>4, <1>5, <2>1, <2>3
    <2>5. ASSUME NEW j \in Heads(z) PROVE 4 <= j
        <3>1. j \in 1 .. 3 + l - 1 /\ z[j] = 170 /\ z[j + 1] = 85
            BY <2>4 DEF Heads, PACKET_HEAD1, PACKET_HEAD2
        <3>2. j # 1 /\ j # 2 /\ j # 3
            BY <2>4, <3>1
        <3> QED
            BY <2>1, <3>1, <3>2
    <2>6. Packets[z] = Packets[From(z, 4)]
        <3>1. 4 \in 1 .. Len(z) + 1
            BY <2>1, <2>4
        <3> QED
            BY <2>3, <2>5, <3>1, DropBytes
    <2>7. From(z, 4) = c
        <3>1. PICK j \in 1 .. r + 1 : j = 4
            BY <2>1
        <3>2. From(z, j) = From(x, j) \o c
            BY <2>2, <3>1, FromConcat DEF z
        <3>3. From(x, j) \in Seq(Byte) /\ Len(From(x, j)) = r - j + 1
            BY <2>2, FromTyped
        <3>4. From(x, j) = << >>
            <4>1. Len(From(x, j)) = 0
                BY <2>1, <3>1, <3>3
            <4> QED
                BY <3>3, <4>1
        <3>5. << >> \o c = c
            OBVIOUS
        <3> QED
            BY <3>1, <3>2, <3>4, <3>5
    <2> QED
        BY <2>6, <2>7 DEF z
<1> QED
    BY <1>4, <1>5, <1>6 DEF x, f

\* The beginning of two sequences one after the other.
LEMMA SubSeqConcat ==
    ASSUME NEW b \in Seq(Byte), NEW c \in Seq(Byte), NEW m \in 0 .. Len(b) + Len(c)
    PROVE  /\ m <= Len(b) => SubSeq(b \o c, 1, m) = SubSeq(b, 1, m)
           /\ m >= Len(b) => SubSeq(b \o c, 1, m) = b \o SubSeq(c, 1, m - Len(b))
<1> DEFINE z == b \o c
<1>1. PICK r \in Nat, l \in Nat : r = Len(b) /\ l = Len(c)
    BY LenProperties
<1>2. /\ z \in Seq(Byte) /\ Len(z) = r + l /\ \A k \in 1 .. r : z[k] = b[k]
      /\ \A k \in 1 .. l : z[r + k] = c[k]
    BY <1>1, ConcatBytes
<1> HIDE DEF z
<1>3. /\ m \in Nat /\ m <= r + l
      /\ SubSeq(z, 1, m) \in Seq(Byte) /\ Len(SubSeq(z, 1, m)) = m
      /\ \A k \in 1 .. m : SubSeq(z, 1, m)[k] = z[k]
    <2>1. m \in Nat /\ m <= r + l
        BY <1>1
    <2>2. \A k \in 1 .. m : z[k] \in Byte
        <3>1. \A k \in 1 .. m : k \in 1 .. Len(z)
            BY <1>2, <2>1
        <3> QED
            BY <1>2, <3>1, ElementOfSeq
    <2> QED
        BY <2>1, <2>2, SubSeqProperties
<1>4. CASE m <= r
    <2>1. /\ SubSeq(b, 1, m) \in Seq(Byte) /\ Len(SubSeq(b, 1, m)) = m
          /\ \A k \in 1 .. m : SubSeq(b, 1, m)[k] = b[k]
        <3>1. \A k \in 1 .. m : b[k] \in Byte
            <4>1. \A k \in 1 .. m : k \in 1 .. Len(b)
                BY <1>1, <1>3, <1>4
            <4> QED
                BY <4>1, ElementOfSeq
        <3> QED
            BY <1>3, <3>1, SubSeqProperties
    <2>2. \A k \in 1 .. m : z[k] = b[k]
        BY <1>1, <1>2, <1>3, <1>4
    <2>3. SubSeq(z, 1, m) = SubSeq(b, 1, m)
        BY <1>3, <2>1, <2>2, SeqEqual
    <2>4. m >= r => m = r
        BY <1>1, <1>3, <1>4
    <2>5. m = r => SubSeq(b, 1, m) = b \o SubSeq(c, 1, m - r)
        <3> SUFFICES ASSUME m = r PROVE SubSeq(b, 1, m) = b \o SubSeq(c, 1, m - r)
            OBVIOUS
        <3>1. SubSeq(b, 1, m) = b
            BY <1>1, <2>1, SeqEqual
        <3>2. SubSeq(c, 1, m - r) = << >>
            <4>1. m - r = 0 /\ SubSeq(c, 1, 0) = << >>
                BY <1>1
            <4> QED
                BY <4>1
        <3>3. b \o << >> = b
            OBVIOUS
        <3> QED
            BY <3>1, <3>2, <3>3
    <2> QED
        BY <1>1, <2>3, <2>4, <2>5 DEF z
<1>5. CASE m > r
    <2> DEFINE d == SubSeq(c, 1, m - r)
    <2>1. PICK q \in Nat : q = m - r /\ q <= l
        BY <1>1, <1>3, <1>5
    <2>2. SubSeq(c, 1, q) \in Seq(Byte) /\ Len(SubSeq(c, 1, q)) = q
          /\ \A k \in 1 .. q : SubSeq(c, 1, q)[k] = c[k]
        <3>1. \A k \in 1 .. q : c[k] \in Byte
            <4>1. \A k \in 1 .. q : k \in 1 .. Len(c)
                BY <1>1, <2>1
            <4> QED
                BY <4>1, ElementOfSeq
        <3> QED
            BY <2>1, <3>1, SubSeqProperties
    <2>3. d \in Seq(Byte) /\ q = Len(d) /\ \A k \in 1 .. q : d[k] = c[k]
        BY <2>1, <2>2
    <2> HIDE DEF d
    <2> DEFINE e == b \o d
    <2>4. /\ e \in Seq(Byte) /\ Len(e) = r + q /\ \A k \in 1 .. r : e[k] = b[k]
          /\ \A k \in 1 .. q : e[r + k] = d[k]
        BY <1>1, <2>1, <2>3, ConcatBytes
    <2> HIDE DEF e
    <2>5. r + q = m
        BY <1>1, <1>3, <2>1
    <2>6. ASSUME NEW k \in 1 .. m PROVE z[k] = e[k]
        <3>1. CASE k <= r
            <4>1. k \in 1 .. r
                BY <1>1, <3>1
            <4> QED
                BY <1>2, <2>4, <4>1
        <3>2. CASE k > r
            <4>1. PICK j \in 1 .. q : k = r + j /\ j \in 1 .. l
                <5>1. k - r \in 1 .. q /\ k - r \in 1 .. l /\ k = r + (k - r)
                    BY <1>1, <1>3, <2>1, <3>2
                <5> QED
                    BY <5>1
            <4> QED
                BY <1>2, <2>3, <2>4, <4>1
        <3> QED
            BY <1>1, <3>1, <3>2
    <2>7. SubSeq(z, 1, m) = e
        BY <1>3, <2>4, <2>5, <2>6, SeqEqual
    <2> QED
        BY <1>1, <1>3, <1>5, <2>7 DEF z, e, d
<1> QED
    BY <1>1, <1>3, <1>4, <1>5

LEMMA WholeKept == ASSUME NEW S, NEW s \in Seq(S) PROVE SubSeq(s, 1, Len(s)) = s
<1>1. PICK n \in Nat : n = Len(s)
    BY LenProperties
<1>2. \A k \in 1 .. n : s[k] \in S
    BY <1>1, ElementOfSeq
<1>3. /\ SubSeq(s, 1, n) \in Seq(S) /\ Len(SubSeq(s, 1, n)) = n
      /\ \A k \in 1 .. n : SubSeq(s, 1, n)[k] = s[k]
    BY <1>2, SubSeqProperties
<1> QED
    BY <1>1, <1>3, SeqEqual

LEMMA PrefixKept ==
    ASSUME NEW S, NEW s \in Seq(S), NEW t \in Seq(S), NEW q \in Nat,
           q <= Len(s), q <= Len(t), \A k \in 1 .. q : s[k] = t[k]
    PROVE  SubSeq(s, 1, q) = SubSeq(t, 1, q)
<1>1. \A k \in 1 .. q : s[k] \in S /\ t[k] \in S
    <2>1. \A k \in 1 .. q : k \in 1 .. Len(s) /\ k \in 1 .. Len(t)
        BY LenProperties
    <2> QED
        BY <2>1, ElementOfSeq
<1>2. /\ SubSeq(s, 1, q) \in Seq(S) /\ Len(SubSeq(s, 1, q)) = q
      /\ \A k \in 1 .. q : SubSeq(s, 1, q)[k] = s[k]
    BY <1>1, SubSeqProperties
<1>3. /\ SubSeq(t, 1, q) \in Seq(S) /\ Len(SubSeq(t, 1, q)) = q
      /\ \A k \in 1 .. q : SubSeq(t, 1, q)[k] = t[k]
    BY <1>1, SubSeqProperties
<1> QED
    BY <1>2, <1>3, SeqEqual

\* How many of the frames that end at en are there in the first m bytes.
Count(en, m) == Cardinality({k \in DOMAIN en : en[k] <= m})

\* The bytes s are those of the packets sn, whose frames end at en, wherever s is cut
\* and whatever comes after it.
Clean(s, sn, en) ==
    /\ Len(en) = Len(sn) /\ \A k \in 1 .. Len(en) : en[k] <= Len(s)
    /\ \A c \in Seq(Byte) : Packets[s \o c] = sn \o Packets[c]
    /\ \A m \in 0 .. Len(s) : Packets[SubSeq(s, 1, m)] = SubSeq(sn, 1, Count(en, m))

LEMMA CountTyped ==
    ASSUME NEW en \in Seq(Nat), NEW m \in Nat
    PROVE  /\ Count(en, m) \in 0 .. Len(en)
           /\ (\A k \in 1 .. Len(en) : en[k] <= m) => Count(en, m) = Len(en)
<1> DEFINE K == {k \in DOMAIN en : en[k] <= m}
<1>1. PICK n \in Nat : n = Len(en) /\ DOMAIN en = 1 .. n
    BY LenProperties
<1>2. IsFiniteSet(1 .. n) /\ Cardinality(1 .. n) = n
    BY FS_Interval
<1>3. K \in SUBSET (1 .. n)
    BY <1>1
<1>4. IsFiniteSet(K) /\ Cardinality(K) <= n
    BY <1>2, <1>3, FS_Subset
<1>5. Cardinality(K) \in Nat
    BY <1>4, FS_CardinalityType
<1>6. (\A k \in 1 .. n : en[k] <= m) => K = 1 .. n
    BY <1>1
<1> HIDE DEF K
<1>7. Count(en, m) = Cardinality(K)
    BY DEF Count, K
<1> QED
    BY <1>1, <1>2, <1>4, <1>5, <1>6, <1>7

\* A frame more.
LEMMA CountAppend ==
    ASSUME NEW en \in Seq(Nat), NEW e \in Nat, NEW m \in Nat
    PROVE  /\ m < e => Count(Append(en, e), m) = Count(en, m)
           /\ m >= e /\ (\A k \in 1 .. Len(en) : en[k] <= m) =>
                  Count(Append(en, e), m) = Len(en) + 1
<1> DEFINE ee == Append(en, e)
<1>1. PICK n \in Nat : n = Len(en) /\ DOMAIN en = 1 .. n
    BY LenProperties
<1>2. /\ ee \in Seq(Nat) /\ Len(ee) = n + 1 /\ DOMAIN ee = 1 .. n + 1
      /\ \A k \in 1 .. n : ee[k] = en[k]
      /\ ee[n + 1] = e
    BY <1>1, AppendProperties, LenProperties
<1> HIDE DEF ee
<1>3. ASSUME m < e PROVE Count(ee, m) = Count(en, m)
    <2>1. ~(ee[n + 1] <= m)
        BY <1>2, <1>3
    <2>2. {k \in DOMAIN ee : ee[k] <= m} = {k \in DOMAIN en : en[k] <= m}
        BY <1>1, <1>2, <2>1
    <2> QED
        BY <2>2 DEF Count
<1>4. ASSUME m >= e, \A k \in 1 .. n : en[k] <= m PROVE Count(ee, m) = n + 1
    <2>1. \A k \in 1 .. n + 1 : ee[k] <= m
        BY <1>2, <1>4
    <2> QED
        BY <1>2, <2>1, CountTyped
<1> QED
    BY <1>1, <1>3, <1>4 DEF ee

\* Before the first frame: a stream that is short and hides no packet.
LEMMA CleanStarts ==
    ASSUME NEW s \in Seq(Byte), Len(s) < 6, \A c \in Seq(Byte) : Packets[s \o c] = Packets[c]
    PROVE  Clean(s, << >>, << >>)
<1>1. \A c \in Seq(Byte) : Packets[s \o c] = << >> \o Packets[c]
    <2>1. \A q \in Seq(Report) : << >> \o q = q
        OBVIOUS
    <2> QED
        BY <2>1, PacketsTyped
<1>2. ASSUME NEW m \in 0 .. Len(s)
      PROVE  Packets[SubSeq(s, 1, m)] = SubSeq(<< >>, 1, Count(<< >>, m))
    <2>1. SubSeq(s, 1, m) \in Seq(Byte) /\ Len(SubSeq(s, 1, m)) = m /\ m < 6 /\ m \in Nat
        <3>1. Len(s) \in Nat
            BY LenProperties
        <3>2. \A k \in 1 .. m : s[k] \in Byte
            <4>1. \A k \in 1 .. m : k \in 1 .. Len(s)
                BY <3>1
            <4> QED
                BY <4>1, ElementOfSeq
        <3> QED
            BY <3>1, <3>2, SubSeqProperties
    <2>2. Packets[SubSeq(s, 1, m)] = << >>
        BY <2>1, NoPackets
    <2>3. Count(<< >>, m) = 0
        <3>1. << >> \in Seq(Nat) /\ Len(<< >>) = 0
            OBVIOUS
        <3>2. Count(<< >>, m) \in 0 .. Len(<< >>)
            BY <2>1, <3>1, CountTyped
        <3> QED
            BY <3>1, <3>2
    <2>4. SubSeq(<< >>, 1, 0) = << >>
        OBVIOUS
    <2> QED
        BY <2>2, <2>3, <2>4
<1>3. Len(<< >>) = 0
    OBVIOUS
<1> QED
    BY <1>1, <1>2, <1>3 DEF Clean

LEMMA BytesAssociative ==
    ASSUME NEW a \in Seq(Byte), NEW b \in Seq(Byte), NEW c \in Seq(Byte)
    PROVE  (a \o b) \o c = a \o (b \o c)
BY ConcatAssociative

LEMMA ReportsAssociative ==
    ASSUME NEW a \in Seq(Report), NEW b \in Seq(Report), NEW c \in Seq(Report)
    PROVE  (a \o b) \o c = a \o (b \o c)
BY ConcatAssociative

LEMMA CleanGrows ==
    ASSUME NEW s \in Seq(Byte), NEW sn \in Seq(Report), NEW en \in Seq(Nat), Clean(s, sn, en),
           NEW type \in Byte, NEW data \in Seq(Byte), Len(data) \in Byte,
           NEW e \in Nat, e = Len(s) + Len(Frame(type, data))
    PROVE  Clean(s \o Frame(type, data), Append(sn, [type |-> type, data |-> data]), Append(en, e))
<1> DEFINE f == Frame(type, data)
           p == [type |-> type, data |-> data]
           z == s \o f
           zn == Append(sn, p)
           ze == Append(en, e)
<1>1. f \in Seq(Byte) /\ Len(f) = Len(data) + 6 /\ Len(data) \in 0 .. 255 /\ p \in Report
    BY ZenonT(30), FrameBytes DEF Report, Byte
<1>2. PICK n \in Nat, l \in Nat, r \in Nat :
          n = Len(s) /\ l = Len(f) /\ r = Len(sn) /\ r = Len(en) /\ e = n + l /\ l >= 6
              /\ l = Len(data) + 6
    BY SMTT(20), <1>1, LenProperties DEF Clean
<1>3. \A c \in Seq(Byte) : Packets[f \o c] = <<p>> \o Packets[c]
    BY FrameParsed
<1>4. ASSUME NEW m \in Nat, m < Len(data) + 6
      PROVE  SubSeq(f, 1, m) \in Seq(Byte) /\ Packets[SubSeq(f, 1, m)] = << >>
    BY <1>4, FrameCut
<1> HIDE DEF f, p
<1>5. z \in Seq(Byte) /\ Len(z) = e
    <2>1. f \in Seq(Byte) /\ n = Len(s) /\ l = Len(f)
        BY <1>1, <1>2
    <2>2. z \in Seq(Byte) /\ Len(z) = n + l
        BY <2>1, ConcatBytes
    <2> QED
        BY <1>2, <2>2
<1>6. /\ zn \in Seq(Report) /\ Len(zn) = r + 1 /\ \A k \in 1 .. r : zn[k] = sn[k]
      /\ zn = sn \o <<p>> /\ zn[r + 1] = p
    <2>1. sn \in Seq(Report) /\ p \in Report /\ r = Len(sn)
        BY <1>1, <1>2
    <2>2. /\ zn \in Seq(Report) /\ Len(zn) = r + 1 /\ \A k \in 1 .. r : zn[k] = sn[k]
          /\ zn[r + 1] = p
        BY <2>1, AppendProperties
    <2>3. zn = sn \o <<p>>
        BY <2>1, AppendIsConcat
    <2> QED
        BY <2>2, <2>3
<1>7. /\ Len(ze) = r + 1 /\ \A k \in 1 .. r + 1 : ze[k] <= e
    <2>1. /\ Len(ze) = r + 1 /\ \A k \in 1 .. r : ze[k] = en[k] /\ en[k] \in Nat
          /\ ze[r + 1] = e
        BY <1>2, AppendProperties, ElementOfSeq
    <2>2. \A k \in 1 .. r : en[k] <= n
        BY <1>2 DEF Clean
    <2> QED
        BY <1>2, <2>1, <2>2
<1>8. ASSUME NEW c \in Seq(Byte) PROVE Packets[z \o c] = zn \o Packets[c]
    <2>1. z \o c = s \o (f \o c) /\ f \o c \in Seq(Byte)
        <3>1. f \in Seq(Byte)
            BY <1>1
        <3> QED
            BY SMTT(20), <3>1, BytesAssociative, ConcatProperties
    <2>2. Packets[s \o (f \o c)] = sn \o (<<p>> \o Packets[c])
        BY <1>3, <2>1 DEF Clean
    <2>3. sn \o (<<p>> \o Packets[c]) = (sn \o <<p>>) \o Packets[c]
        <3>1. <<p>> \in Seq(Report) /\ Packets[c] \in Seq(Report)
            BY <1>1, OneElement, PacketsTyped
        <3> QED
            BY <3>1, ReportsAssociative
    <2> QED
        BY <1>6, <2>1, <2>2, <2>3
<1>9. ASSUME NEW m \in 0 .. e PROVE Packets[SubSeq(z, 1, m)] = SubSeq(zn, 1, Count(ze, m))
    <2>0. m \in Nat /\ m \in 0 .. Len(s) + Len(f)
        BY <1>2
    <2>1. CASE m <= n
        <3>1. SubSeq(z, 1, m) = SubSeq(s, 1, m)
            BY <1>1, <1>2, <2>0, <2>1, SubSeqConcat
        <3>2. Packets[SubSeq(s, 1, m)] = SubSeq(sn, 1, Count(en, m))
            <4>1. m \in 0 .. Len(s)
                BY <1>2, <2>0, <2>1
            <4> QED
                BY <4>1 DEF Clean
        <3>3. Count(ze, m) = Count(en, m)
            <4>1. m < e
                BY <1>2, <2>0, <2>1
            <4> QED
                BY <2>0, <4>1, CountAppend
        <3>4. PICK q \in 0 .. r : q = Count(en, m)
            BY <1>2, <2>0, CountTyped
        <3>5. SubSeq(zn, 1, q) = SubSeq(sn, 1, q)
            BY SMTT(20), <1>2, <1>6, <3>4, PrefixKept
        <3> QED
            BY <3>1, <3>2, <3>3, <3>4, <3>5
    <2>2. CASE n < m /\ m < e
        <3>1. PICK q \in Nat : q = m - n /\ q < Len(data) + 6
            <4>1. m - n \in Nat /\ m - n < l
                BY <1>2, <2>0, <2>2
            <4> QED
                BY <1>2, <4>1
        <3>2. SubSeq(z, 1, m) = s \o SubSeq(f, 1, q)
            <4>1. f \in Seq(Byte) /\ m \in 0 .. Len(s) + Len(f) /\ m >= Len(s)
                BY SMTT(20), <1>1, <1>2, <2>0, <2>2
            <4>2. SubSeq(z, 1, m) = s \o SubSeq(f, 1, m - Len(s))
                BY <4>1, SubSeqConcat
            <4> QED
                BY <1>2, <3>1, <4>2
        <3>3. SubSeq(f, 1, q) \in Seq(Byte) /\ Packets[SubSeq(f, 1, q)] = << >>
            BY <1>4, <3>1
        <3>4. Packets[SubSeq(z, 1, m)] = sn \o << >>
            BY <3>2, <3>3 DEF Clean
        <3>5. sn \o << >> = sn
            OBVIOUS
        <3>6. Count(ze, m) = r
            <4>1. \A k \in 1 .. Len(en) : en[k] <= m
                <5>1. \A k \in 1 .. Len(en) : en[k] <= n /\ en[k] \in Nat
                    BY <1>2, ElementOfSeq DEF Clean
                <5> QED
                    BY <2>0, <2>2, <5>1
            <4>2. Count(ze, m) = Count(en, m)
                BY <2>0, <2>2, CountAppend
            <4>3. Count(en, m) = Len(en)
                BY <2>0, <4>1, CountTyped
            <4> QED
                BY <1>2, <4>2, <4>3
        <3>7. SubSeq(zn, 1, r) = sn
            <4>1. SubSeq(zn, 1, r) = SubSeq(sn, 1, r)
                BY <1>2, <1>6, PrefixKept
            <4>2. SubSeq(sn, 1, Len(sn)) = sn
                BY WholeKept
            <4> QED
                BY <1>2, <4>1, <4>2
        <3> QED
            BY <3>4, <3>5, <3>6, <3>7
    <2>3. CASE m = e
        <3>1. SubSeq(z, 1, m) = z
            BY <1>5, <2>3, WholeKept
        <3>2. Packets[z] = zn
            <4>1. << >> \in Seq(Byte) /\ z \o << >> = z /\ zn \o << >> = zn
                BY <1>5, <1>6
            <4>2. Packets[<< >>] = << >>
                <5>1. Len(<< >>) < 6
                    OBVIOUS
                <5> QED
                    BY <4>1, <5>1, NoPackets
            <4> QED
                BY <1>8, <4>1, <4>2
        <3>3. Count(ze, m) = r + 1
            <4>1. \A k \in 1 .. Len(en) : en[k] <= m
                <5>1. \A k \in 1 .. Len(en) : en[k] <= n /\ en[k] \in Nat
                    BY <1>2, ElementOfSeq DEF Clean
                <5> QED
                    BY SMTT(20), <1>2, <2>3, <5>1
            <4> QED
                <5>1. m >= e
                    BY <2>3
                <5>2. Count(ze, m) = Len(en) + 1
                    BY <2>0, <4>1, <5>1, CountAppend
                <5> QED
                    BY <1>2, <5>2
        <3>4. SubSeq(zn, 1, r + 1) = zn
            BY <1>6, WholeKept
        <3> QED
            BY <3>1, <3>2, <3>3, <3>4
    <2> QED
        <3>1. m <= n \/ (n < m /\ m < e) \/ m = e
            BY <1>2, <2>0
        <3> QED
            BY <2>1, <2>2, <2>3, <3>1, Zenon
<1>10. /\ Len(ze) = Len(zn) /\ \A k \in 1 .. Len(ze) : ze[k] <= Len(z)
    BY <1>5, <1>6, <1>7
<1>11. Clean(z, zn, ze)
    <2> HIDE DEF z, zn, ze
    <2> QED
        BY <1>5, <1>8, <1>9, <1>10 DEF Clean
<1> QED
    BY <1>11 DEF f, p

\* What was read has the packets parsed so far and those still in the buffer.
PiecesOK ==
    /\ worker.port = "open" => \A c \in Seq(Byte) :
           Packets[read \o c] = got \o Packets[worker.buffer \o c]
    /\ worker.port # "open" =>
           got = Packets[read] /\ worker.buffer = << >> /\ ~worker.parsing
    /\ ~worker.parsing => Packets[worker.buffer] = << >>

StreamClean == lost = 0 /\ worker.port = "open" => Clean(read \o wire, sent, ends)

LEMMA NothingParsed == Packets[<< >>] = << >> /\ << >> \in Seq(Byte)
<1>1. << >> \in Seq(Byte) /\ Len(<< >>) < 6
    OBVIOUS
<1> QED
    BY <1>1, NoPackets

LEMMA FoundIsClaimed == Typed /\ PiecesOK /\ StreamClean => FramesFound
<1> SUFFICES ASSUME Typed, PiecesOK, StreamClean, ~worker.parsing
             PROVE  /\ got = Packets[read]
                    /\ lost = 0 /\ worker.port = "open" =>
                           got = SubSeq(sent, 1, Count(ends, Len(read)))
    BY DEF FramesFound, Count
<1>1. read \in Seq(Byte) /\ wire \in Seq(Byte) /\ got \in Seq(Report) /\ worker.buffer \in Seq(Byte)
    BY DEF Typed, ThreadsOK, StreamOK, SerialWorker
<1>2. got = Packets[read]
    <2>1. CASE worker.port # "open"
        BY <2>1 DEF PiecesOK
    <2>2. CASE worker.port = "open"
        <3>1. Packets[read \o << >>] = got \o Packets[worker.buffer \o << >>]
            BY <2>2, NothingParsed DEF PiecesOK
        <3>2. read \o << >> = read /\ worker.buffer \o << >> = worker.buffer /\ got \o << >> = got
            BY <1>1
        <3>3. Packets[worker.buffer] = << >>
            BY DEF PiecesOK
        <3> QED
            BY <3>1, <3>2, <3>3
    <2> QED
        BY <2>1, <2>2
<1>3. ASSUME lost = 0, worker.port = "open" PROVE got = SubSeq(sent, 1, Count(ends, Len(read)))
    <2>1. PICK m \in Nat : m = Len(read)
        BY <1>1, LenProperties
    <2>2. Len(read \o wire) = Len(read) + Len(wire) /\ Len(wire) \in Nat
        BY <1>1, ConcatBytes, LenProperties
    <2>3. m \in 0 .. Len(read \o wire)
        BY <2>1, <2>2
    <2>4. Packets[SubSeq(read \o wire, 1, m)] = SubSeq(sent, 1, Count(ends, m))
        BY <1>3, <2>3 DEF StreamClean, Clean
    <2>5. SubSeq(read \o wire, 1, m) = SubSeq(read, 1, m)
        <3>1. m \in 0 .. Len(read) + Len(wire) /\ m <= Len(read)
            BY <2>1, <2>2
        <3> QED
            BY <1>1, <3>1, SubSeqConcat
    <2>6. SubSeq(read, 1, m) = read
        BY <1>1, <2>1, WholeKept
    <2> QED
        BY <1>2, <2>1, <2>4, <2>5, <2>6
<1> QED
    BY <1>2, <1>3

\* A turn of the loop.
LEMMA ParsePieces == Typed /\ PiecesOK /\ parseBuffer => PiecesOK'
<1> SUFFICES ASSUME Typed, PiecesOK, parseBuffer PROVE PiecesOK'
    OBVIOUS
<1> DEFINE turn == Turn(worker.buffer)
<1>1. /\ worker.port = "open" /\ worker.buffer \in Seq(Byte) /\ got \in Seq(Report)
      /\ read' = read /\ got' = got \o turn.found
    BY DEF parseBuffer, PiecesOK, Typed, ThreadsOK, StreamOK, SerialWorker
<1>2. worker'.port = "open" /\ worker'.buffer = turn.left /\ worker'.parsing = turn.more
    BY ZenonT(30), <1>1 DEF parseBuffer, parsePacket, Typed, ThreadsOK, SerialWorker
<1>3. turn.left \in Seq(Byte) /\ turn.found \in Seq(Report) /\ turn.more \in BOOLEAN
    BY <1>1, TurnTyped, FoundTyped
<1>4. \A c \in Seq(Byte) : Packets[worker.buffer \o c] = turn.found \o Packets[turn.left \o c]
    BY <1>1, TurnResumes
<1>5. ~turn.more => Packets[turn.left] = << >>
    <2> SUFFICES ASSUME ~turn.more PROVE Packets[turn.left] = << >>
        OBVIOUS
    <2>1. Packets[worker.buffer] = << >>
        BY <1>1, PacketsEquation
    <2>2. worker.buffer \o << >> = worker.buffer /\ turn.left \o << >> = turn.left
        BY <1>1, <1>3
    <2>3. << >> = turn.found \o Packets[turn.left]
        BY <1>4, <2>1, <2>2, NothingParsed
    <2> HIDE DEF turn
    <2> DEFINE q == Packets[turn.left]
    <2>4. q \in Seq(Report)
        BY <1>3, PacketsTyped
    <2> HIDE DEF q
    <2>5. Len(turn.found \o q) = Len(turn.found) + Len(q) /\ Len(turn.found \o q) = 0
          /\ Len(turn.found) \in Nat /\ Len(q) \in Nat
        BY <1>3, <2>3, <2>4, ConcatProperties, LenProperties DEF q
    <2>6. Len(q) = 0
        BY <2>5
    <2> QED
        BY <2>4, <2>6 DEF q
<1> HIDE DEF turn
<1>6. ASSUME NEW c \in Seq(Byte)
      PROVE  Packets[read \o c] = (got \o turn.found) \o Packets[turn.left \o c]
    <2>1. Packets[read \o c] = got \o Packets[worker.buffer \o c]
        BY <1>1 DEF PiecesOK
    <2>2. turn.left \o c \in Seq(Byte)
        BY <1>3, ConcatProperties
    <2>3. Packets[turn.left \o c] \in Seq(Report)
        BY <2>2, PacketsTyped
    <2>4. got \o (turn.found \o Packets[turn.left \o c])
              = (got \o turn.found) \o Packets[turn.left \o c]
        BY <1>1, <1>3, <2>3, ReportsAssociative
    <2> QED
        BY <1>4, <2>1, <2>4
<1> QED
    BY <1>1, <1>2, <1>3, <1>5, <1>6 DEF PiecesOK

LEMMA CutJoined ==
    ASSUME NEW s \in Seq(Byte), NEW n \in 1 .. Len(s)
    PROVE  SubSeq(s, 1, n) \o From(s, n + 1) = s
<1> DEFINE a == SubSeq(s, 1, n)
           b == From(s, n + 1)
<1>1. PICK l \in Nat : l = Len(s) /\ n \in Nat /\ n <= l
    BY LenProperties
<1>2. n = Len(a) /\ a \in Seq(Byte) /\ \A k \in 1 .. n : a[k] = s[k]
    <2>1. \A k \in 1 .. n : s[k] \in Byte
        <3>1. \A k \in 1 .. n : k \in 1 .. Len(s)
            BY <1>1
        <3> QED
            BY <3>1, ElementOfSeq
    <2> QED
        BY <1>1, <2>1, SubSeqProperties
<1>3. PICK r \in Nat : r = l - n
    <2>1. l - n \in Nat
        BY <1>1
    <2> QED
        BY <2>1
<1>4. r = Len(b) /\ b \in Seq(Byte) /\ \A k \in 1 .. r : b[k] = s[n + k]
    <2>1. PICK i \in 1 .. Len(s) + 1 : i = n + 1
        BY <1>1
    <2>2. /\ From(s, i) \in Seq(Byte) /\ Len(From(s, i)) = Len(s) - i + 1
          /\ \A k \in 1 .. Len(s) - i + 1 : From(s, i)[k] = s[i + k - 1]
        BY FromTyped
    <2>3. Len(s) - i + 1 = r /\ \A k \in 1 .. r : i + k - 1 = n + k
        BY <1>1, <1>3, <2>1
    <2> QED
        BY <2>1, <2>2, <2>3
<1> HIDE DEF a, b
<1> DEFINE z == a \o b
<1>5. /\ z \in Seq(Byte) /\ Len(z) = n + r /\ \A k \in 1 .. n : z[k] = a[k]
      /\ \A k \in 1 .. r : z[n + k] = b[k]
    <2>1. a \in Seq(Byte) /\ b \in Seq(Byte) /\ n = Len(a) /\ r = Len(b)
        BY <1>2, <1>4
    <2> QED
        BY <1>1, <2>1, ConcatBytes
<1> HIDE DEF z
<1>6. ASSUME NEW k \in 1 .. l PROVE z[k] = s[k]
    <2>1. CASE k <= n
        <3>1. k \in 1 .. n
            BY <1>1, <2>1
        <3> QED
            BY <1>2, <1>5, <3>1
    <2>2. CASE k > n
        <3>1. PICK j \in 1 .. r : k = n + j
            <4>1. k - n \in 1 .. r /\ k = n + (k - n)
                BY <1>1, <1>3, <2>2
            <4> QED
                BY <4>1
        <3> QED
            BY <1>4, <1>5, <3>1
    <2> QED
        BY <1>1, <2>1, <2>2
<1>7. Len(z) = l
    BY <1>1, <1>3, <1>5
<1>8. z = s
    BY <1>1, <1>5, <1>6, <1>7, SeqEqual
<1> QED
    BY <1>8 DEF z, a, b

\* More bytes are read.
LEMMA ReadPieces ==
    ASSUME Typed, PiecesOK, NEW n \in 1 .. Len(wire), onReadyRead(n)
    PROVE  PiecesOK' /\ read' \o wire' = read \o wire
<1> DEFINE piece == SubSeq(wire, 1, n)
<1>1. /\ piece \in Seq(Byte) /\ read \in Seq(Byte) /\ worker.buffer \in Seq(Byte)
      /\ wire \in Seq(Byte) /\ From(wire, n + 1) \in Seq(Byte)
    BY PieceTyped DEF Typed, ThreadsOK, StreamOK, SerialWorker
<1>2. /\ worker.port = "open" /\ worker'.port = "open" /\ worker'.parsing = TRUE
      /\ worker'.buffer = worker.buffer \o piece /\ read' = read \o piece /\ got' = got
      /\ wire' = From(wire, n + 1)
    BY DEF onReadyRead, Typed, ThreadsOK, SerialWorker
<1>3. piece \o From(wire, n + 1) = wire
    BY <1>1, CutJoined
<1> HIDE DEF piece
<1>4. ASSUME NEW c \in Seq(Byte)
      PROVE  Packets[(read \o piece) \o c] = got \o Packets[(worker.buffer \o piece) \o c]
    <2>1. piece \o c \in Seq(Byte)
        BY <1>1, ConcatProperties
    <2>2. Packets[read \o (piece \o c)] = got \o Packets[worker.buffer \o (piece \o c)]
        BY <1>2, <2>1 DEF PiecesOK
    <2>3. (read \o piece) \o c = read \o (piece \o c)
        BY ZenonT(30), <1>1, BytesAssociative
    <2>4. (worker.buffer \o piece) \o c = worker.buffer \o (piece \o c)
        BY ZenonT(30), <1>1, BytesAssociative
    <2> QED
        BY <2>2, <2>3, <2>4
<1>5. (read \o piece) \o From(wire, n + 1) = read \o wire
    <2>1. (read \o piece) \o From(wire, n + 1) = read \o (piece \o From(wire, n + 1))
        BY ZenonT(30), <1>1, BytesAssociative
    <2> QED
        BY <1>3, <2>1
<1> QED
    BY <1>2, <1>4, <1>5 DEF PiecesOK

\* A frame goes out in full.
LEMMA TransmitClean ==
    ASSUME StreamOK, NEW type \in Byte, NEW data \in Seq(Byte), Len(data) \in Byte,
           Transmit(type, data), lost' = 0, Clean(read \o wire, sent, ends)
    PROVE  Clean(read' \o wire', sent', ends')
<1> DEFINE f == Frame(type, data)
<1>1. f \in Seq(Byte) /\ read \in Seq(Byte) /\ wire \in Seq(Byte) /\ lost \in Nat
    BY FrameTyped DEF StreamOK
<1>2. wire' = wire \o f
    BY <1>1 DEF Transmit
<1>3. /\ read' = read /\ sent' = Append(sent, [type |-> type, data |-> data])
      /\ ends' = Append(ends, Len(read) + Len(wire'))
    BY DEF Transmit
<1> HIDE DEF f
<1>4. read \o (wire \o f) = (read \o wire) \o f
    BY ZenonT(30), <1>1, BytesAssociative
<1>5. read \o wire \in Seq(Byte) /\ Len(read \o wire) = Len(read) + Len(wire)
    BY <1>1, ConcatBytes
<1>6. Len(wire \o f) = Len(wire) + Len(f)
    BY <1>1, ConcatBytes
<1>7. PICK e \in Nat : e = Len(read \o wire) + Len(f) /\ e = Len(read) + Len(wire')
    <2>1. PICK a \in Nat, b \in Nat, c \in Nat : a = Len(read) /\ b = Len(wire) /\ c = Len(f)
        BY <1>1, LenProperties
    <2>2. Len(read \o wire) + Len(f) = a + b + c /\ Len(read) + Len(wire') = a + (b + c)
        BY <1>2, <1>5, <1>6, <2>1
    <2>3. a + b + c \in Nat /\ a + (b + c) = a + b + c
        BY <2>1
    <2> QED
        BY <2>2, <2>3
<1>8. Clean((read \o wire) \o Frame(type, data), Append(sent, [type |-> type, data |-> data]),
            Append(ends, e))
    BY <1>5, <1>7, CleanGrows DEF StreamOK, f
<1> QED
    BY <1>2, <1>3, <1>4, <1>7, <1>8 DEF f

\* Whatever the car sends, whenever it is read and in whichever pieces: the packets
\* found are those of all that was read, and when no byte is lost they are the
\* packets sent whose frames were read in full, wherever in a frame the port was
\* opened (onReadyRead and parseBuffer).
THEOREM FramesAllFound == Spec => []FramesFound
<1> DEFINE Inv == PiecesOK /\ StreamClean
<1>1. Init => Inv
    <2> SUFFICES ASSUME Init PROVE PiecesOK /\ StreamClean
        OBVIOUS
    <2> QED
        BY NothingParsed DEF Init, PiecesOK, StreamClean
<1>2. Typed /\ Inv /\ [Next]_vars => Inv'
    <2> SUFFICES ASSUME Typed, PiecesOK, StreamClean, [Next]_vars PROVE PiecesOK' /\ StreamClean'
        OBVIOUS
    <2>1. ASSUME UNCHANGED <<line, history, lost>>, UNCHANGED worker.port,
                 UNCHANGED worker.buffer, UNCHANGED worker.parsing
          PROVE  PiecesOK' /\ StreamClean'
        BY <2>1 DEF PiecesOK, StreamClean, line, history
    <2>2. CASE startWork
        <3> DEFINE w == IF worker.port = "none" THEN worker ELSE Stopped(worker)
        <3>1. w \in SerialWorker /\ w.buffer = << >> /\ ~w.parsing
            <4>1. worker \in SerialWorker /\ ~worker.parsing
                BY <2>2 DEF startWork, Runs, Typed, ThreadsOK
            <4>2. CASE worker.port = "none"
                BY <4>1, <4>2 DEF PiecesOK
            <4>3. CASE worker.port # "none"
                <5>1. w = Stopped(worker)
                    BY <4>3
                <5> QED
                    BY <4>1, <5>1, StopTyped DEF Typed, Stopped, SerialWorker
            <4> QED
                BY <4>2, <4>3
        <3>2. worker' = Started(w) \/ worker' = [w EXCEPT !.port = "shut"]
            BY <2>2 DEF startWork
        <3>3. /\ wire' = stub' /\ stub' \in {<< >>, From(Frame(TYPE_CAR, NoCar), 4 + CarLen)}
              /\ sent' = << >> /\ ends' = << >> /\ read' = << >> /\ got' = << >>
            BY <2>2, Zenon DEF startWork
        <3> HIDE DEF w
        <3>4. worker'.buffer = << >> /\ ~worker'.parsing
            BY <3>1, <3>2 DEF Started, SerialWorker
        <3>5. ASSUME NEW c \in Seq(Byte) PROVE Packets[<< >> \o c] = << >> \o Packets[c]
            <4>1. << >> \o c = c
                OBVIOUS
            <4>2. \A q \in Seq(Report) : << >> \o q = q
                OBVIOUS
            <4> QED
                BY <4>1, <4>2, PacketsTyped
        <3>6. \A c \in Seq(Byte) : Packets[<< >> \o c] = << >> \o Packets[<< >> \o c]
            <4>1. \A c \in Seq(Byte) : << >> \o c = c
                OBVIOUS
            <4> QED
                BY <3>5, <4>1
        <3>7. PiecesOK'
            BY <3>3, <3>4, <3>6, NothingParsed DEF PiecesOK
        <3>8. Clean(stub', << >>, << >>)
            <4>1. CASE stub' = << >>
                <5>1. << >> \in Seq(Byte) /\ Len(<< >>) < 6
                    OBVIOUS
                <5>2. \A c \in Seq(Byte) : Packets[<< >> \o c] = Packets[c]
                    <6>1. \A c \in Seq(Byte) : << >> \o c = c
                        OBVIOUS
                    <6> QED
                        BY <6>1
                <5> QED
                    BY <4>1, <5>1, <5>2, CleanStarts
            <4>2. CASE stub' = From(Frame(TYPE_CAR, NoCar), 4 + CarLen)
                <5> DEFINE x == From(Frame(TYPE_CAR, NoCar), 4 + CarLen)
                <5>1. x \in Seq(Byte) /\ Len(x) = 3 /\ \A c \in Seq(Byte) : Packets[x \o c] = Packets[c]
                    BY StubDropped
                <5> HIDE DEF x
                <5>2. Len(x) < 6
                    BY <5>1
                <5>3. Clean(x, << >>, << >>)
                    BY <5>1, <5>2, CleanStarts
                <5> QED
                    BY <4>2, <5>3 DEF x
            <4> QED
                BY <3>3, <4>1, <4>2
        <3>9. << >> \o stub' = stub'
            <4>1. stub' \in Seq(Byte)
                BY <3>3, StubTyped, NothingTyped
            <4> QED
                BY <4>1
        <3> QED
            BY <3>3, <3>7, <3>8, <3>9 DEF StreamClean
    <2>3. CASE stopWork \/ Finish
        <3>1. ~worker.parsing /\ worker' = Stopped(worker) /\ UNCHANGED <<read, got>>
            BY <2>3 DEF stopWork, Finish, Runs, history
        <3>2. worker'.port = "none" /\ worker'.buffer = << >> /\ ~worker'.parsing
            BY <3>1 DEF Stopped, Typed, ThreadsOK, SerialWorker
        <3>3. got = Packets[read]
            BY <3>1, FoundIsClaimed DEF FramesFound
        <3> QED
            BY <3>1, <3>2, <3>3, NothingParsed DEF PiecesOK, StreamClean
    <2>4. CASE requestWeatherData
        <3>1. UNCHANGED <<wire, history, lost, worker.port, worker.buffer, worker.parsing>>
            BY <2>4 DEF requestWeatherData, Typed, ThreadsOK, SerialWorker, bounds
        <3> QED
            BY <3>1 DEF PiecesOK, StreamClean, history
    <2>5. ASSUME NEW n \in 1 .. Len(wire), onReadyRead(n) PROVE PiecesOK' /\ StreamClean'
        <3>1. PiecesOK' /\ read' \o wire' = read \o wire
            BY <2>5, ReadPieces
        <3>2. UNCHANGED <<sent, ends, lost>> /\ worker.port = "open"
            BY <2>5 DEF onReadyRead, bounds
        <3> QED
            BY <3>1, <3>2 DEF StreamClean
    <2>6. CASE parseBuffer
        <3>1. UNCHANGED <<read, wire, sent, ends, lost>> /\ worker.port = "open"
            BY <2>6 DEF parseBuffer, line, bounds, PiecesOK
        <3> QED
            BY <2>6, <3>1, ParsePieces DEF StreamClean
    <2>7. ASSUME NEW type \in Byte, NEW data \in Seq(Byte), Len(data) \in Byte,
                 Transmit(type, data)
          PROVE  PiecesOK' /\ StreamClean'
        <3>1. UNCHANGED <<worker, read, got>> /\ worker.port = "open" /\ (lost' = 0 => lost = 0)
            BY <2>7 DEF Transmit, Typed, StreamOK
        <3>2. lost' = 0 => Clean(read' \o wire', sent', ends')
            BY <2>7, <3>1, TransmitClean DEF StreamClean, Typed
        <3> QED
            BY <3>1, <3>2 DEF PiecesOK, StreamClean
    <2>8. CASE SendCar
        <3>1. PICK data \in CarData : Transmit(TYPE_CAR, data)
            BY <2>8 DEF SendCar
        <3>2. TYPE_CAR \in Byte /\ data \in Seq(Byte) /\ Len(data) \in Byte
            BY CarDataTyped DEF Report
        <3> QED
            BY <2>7, <3>1, <3>2
    <2>9. CASE Answer
        <3>1. TYPE_WEATHER \in Byte /\ Weather \in Seq(Byte) /\ Len(Weather) \in Byte
            BY CarDataTyped DEF Report
        <3> QED
            BY <2>7, <2>9, <3>1 DEF Answer
    <2>10. CASE OnSignal \/ EnterSubPage \/ GoBack \/ Quit \/ Call("startWork") \/ Call("stopWork")
                  \/ UNCHANGED vars
        BY <2>1, <2>10 DEF OnSignal, EnterSubPage, GoBack, Quit, Call, vars, bounds
    <2> QED
        BY <2>2, <2>3, <2>4, <2>5, <2>6, <2>8, <2>9, <2>10 DEF Next
<1> QED
    BY <1>1, <1>2, TypedAlways, FoundIsClaimed, PTL DEF Spec
=============================================================================
