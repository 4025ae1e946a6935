----------------------------- MODULE SerialLink -----------------------------
(***************************************************************************)
(* The car's serial link: SerialWorker in its own thread, SerialHandler in *)
(* the main thread, joined by queued calls and queued signals, and the     *)
(* stack of pages (Main.qml) that the signal of reversing changes.         *)
(*                                                                         *)
(* Everything in one thread is serial: an action is one slot, or one turn  *)
(* of the loop of parseBuffer, during which the worker's thread does       *)
(* nothing else but the main thread may run.  The port, the operating      *)
(* system and the car are external: the port opens or not, hands over what *)
(* has arrived in pieces of any size, and may lose bytes.  A signal that   *)
(* only writes to the log (errorOccurred) is left out.                     *)
(***************************************************************************)
EXTENDS SerialFrames

CONSTANTS Weather,      \* the data of the one weather report the car has
          CarLen,       \* length of a car's data, whose last byte is reverseState
          MaxFrames,    \* bound: the frames the car sends per connection unasked
          MaxAnswers,   \* bound: the answers it sends per connection
          LossAt,       \* bound: the places in a frame where a byte may be lost
          MaxLost,      \* bound: the bytes lost
          MaxCalls,     \* bound: the calls of connectPort and disconnectPort
          MaxSignals,   \* bound: the signals queued when a slot of the worker runs
          MaxPages      \* bound: the depth of the stack

ASSUME LinkAssumption ==
    /\ Weather \in Seq(Byte) /\ CarLen \in 1..255
    /\ Len(Weather) \in 1..255 /\ LossAt \subseteq Nat
    /\ {MaxFrames, MaxAnswers, MaxLost, MaxCalls, MaxSignals, MaxPages}
            \subseteq Nat

VARIABLES
    worker,     \* SerialWorker: port, buffer, timer, weather, car, reverse, and
                \* whether it is in the loop of parseBuffer
    calls,      \* the calls queued for the worker's thread
    signals,    \* the signals queued for the main thread
    handler,    \* SerialHandler: connected, weather, reversing, car
    stack,      \* mainStack
    quit,       \* the handler's destructor runs; then the worker is gone
    wire,       \* bytes on their way from the car
    asked,      \* a request is on its way to the car
    sent,       \* history: the packets sent since the port was opened
    ends,       \* history: where their frames end in the stream of bytes
    stub,       \* history: the end of a frame that was under way then
    read,       \* history: the bytes read since then
    got,        \* history: the packets parsed since then
    frames, answers, lost, called

history == <<sent, ends, stub, read, got>>
bounds  == <<frames, answers, lost, called>>
line    == <<wire, asked>>
vars    == <<worker, calls, signals, handler, stack, quit, line, history, bounds>>

\* What the car sends unasked: its data, or a report of a length not known.
CarData == {<< >>} \cup {[k \in 1..CarLen |-> IF k = CarLen THEN r ELSE 0] : r \in {0, 1}}
NoCar == [k \in 1..CarLen |-> 0]
Reversing(car) == car[CarLen] # 0

Init ==
    /\ worker = [port |-> "none", buffer |-> << >>, timer |-> FALSE, weather |-> FALSE,
                 car |-> NoCar, reverse |-> FALSE, parsing |-> FALSE]
    /\ calls = << >> /\ signals = << >>
    /\ handler = [connected |-> FALSE, weather |-> FALSE, reversing |-> FALSE, car |-> NoCar]
    /\ stack = <<"home">> /\ quit = "no"
    /\ wire = << >> /\ asked = FALSE
    /\ sent = << >> /\ ends = << >> /\ stub = << >> /\ read = << >> /\ got = << >>
    /\ frames = 0 /\ answers = 0 /\ lost = 0 /\ called = 0

-----------------------------------------------------------------------------
(* The main thread *)

\* connectPort and disconnectPort.
Call(slot) ==
    /\ quit = "no" /\ called < MaxCalls /\ called' = called + 1
    /\ calls' = Append(calls, slot)
    /\ UNCHANGED <<worker, signals, handler, stack, quit, line, history, frames, answers, lost>>

\* A bug to detect: the page is taken off only if there are two below it.
onReverseChanged_Depth(isReverse) ==
    /\ handler' = [handler EXCEPT !.reversing = isReverse]
    /\ stack' = CASE isReverse = handler.reversing -> stack
                  [] isReverse /\ ~handler.reversing -> Append(stack, "reversePage")
                  [] OTHER -> IF Len(stack) > 2 /\ Last(stack) = "reversePage"
                              THEN Front(stack) ELSE stack

\* The handler passes on what is new; Main.qml pushes or pops the page.
onReverseChanged(isReverse) ==
    /\ handler' = [handler EXCEPT !.reversing = isReverse]
    /\ stack' = CASE isReverse = handler.reversing -> stack
                  [] isReverse /\ ~handler.reversing -> Append(stack, "reversePage")
                  [] OTHER -> IF Len(stack) > 1 /\ Last(stack) = "reversePage"
                              THEN Front(stack) ELSE stack

OnSignal ==
    /\ quit = "no" /\ signals # << >> /\ signals' = Tail(signals)
    /\ LET s == Head(signals)
       IN  \/ /\ s.signal = "weatherDataReceived"
              /\ handler' = [handler EXCEPT !.weather = TRUE] /\ UNCHANGED stack
           \/ /\ s.signal = "carDataReceived"
              /\ handler' = [handler EXCEPT !.car = s.value] /\ UNCHANGED stack
           \/ s.signal = "reverseStateChanged" /\ onReverseChanged(s.value)
           \/ /\ s.signal = "connected"
              /\ handler' = [handler EXCEPT !.connected = TRUE] /\ UNCHANGED stack
           \/ /\ s.signal = "disconnected"
              /\ handler' = [handler EXCEPT !.connected = FALSE] /\ UNCHANGED stack
    /\ UNCHANGED <<worker, calls, quit, line, history, bounds>>

\* The user enters a page from the home page, and goes back; he only reaches
\* the page on top.
EnterSubPage ==
    /\ quit = "no" /\ Last(stack) = "home" /\ Len(stack) < MaxPages
    /\ stack' = Append(stack, "subPage")
    /\ UNCHANGED <<worker, calls, signals, handler, quit, line, history, bounds>>

GoBack ==
    /\ quit = "no" /\ Last(stack) = "subPage" /\ stack' = Front(stack)
    /\ UNCHANGED <<worker, calls, signals, handler, quit, line, history, bounds>>

\* ~SerialHandler: the port is to be closed, and the thread is to end.
Quit ==
    /\ quit = "no" /\ quit' = "asked" /\ calls' = Append(calls, "stopWork")
    /\ signals' = << >>
    /\ UNCHANGED <<worker, handler, stack, line, history, bounds>>

-----------------------------------------------------------------------------
(* The worker's thread *)

\* No slot is under way.
Runs == quit # "done" /\ ~worker.parsing /\ Len(signals) <= MaxSignals

\* Signals to a handler that is being destroyed are of no account.
Emit(emitted) == signals' = IF quit = "no" THEN signals \o emitted ELSE << >>

Signal(name, value) == [signal |-> name, value |-> value]

\* The worker after stopWork.
Stopped(w) == [w EXCEPT !.timer = FALSE, !.port = "none", !.buffer = << >>]

StopSignals == IF worker.port = "none" THEN << >> ELSE <<Signal("disconnected", FALSE)>>

stopWork ==
    /\ Runs /\ calls # << >> /\ Head(calls) = "stopWork" /\ calls' = Tail(calls)
    /\ worker' = Stopped(worker) /\ Emit(StopSignals)
    /\ wire' = << >> /\ asked' = FALSE
    /\ UNCHANGED <<handler, stack, quit, history, bounds>>

\* A bug to detect: the state of the gear is forgotten with the connection.
Started_ForgetsReverse(w) ==
    [w EXCEPT !.port = "open", !.weather = FALSE, !.timer = TRUE, !.reverse = FALSE]

\* The worker after its port was opened; m_lastReverseState stays as it was.
Started(w) == [w EXCEPT !.port = "open", !.weather = FALSE, !.timer = TRUE]

\* The port opens, perhaps in the middle of a frame, or does not.
startWork ==
    /\ Runs /\ calls # << >> /\ Head(calls) = "startWork" /\ calls' = Tail(calls)
    /\ LET w == IF worker.port = "none" THEN worker ELSE Stopped(worker)
       IN  \/ /\ worker' = Started(w) /\ Emit(StopSignals \o <<Signal("connected", TRUE)>>)
              /\ stub' \in {<< >>, From(Frame(TYPE_CAR, NoCar), 4 + CarLen)}
           \/ /\ worker' = [w EXCEPT !.port = "shut"] /\ Emit(StopSignals)
              /\ stub' = << >>
    /\ wire' = stub' /\ asked' = FALSE
    /\ sent' = << >> /\ ends' = << >> /\ read' = << >> /\ got' = << >> /\ frames' = 0 /\ answers' = 0
    /\ UNCHANGED <<handler, stack, quit, lost, called>>

\* The next n bytes are there.
onReadyRead(n) ==
    /\ Runs /\ worker.port = "open" /\ n <= Len(wire)
    /\ worker' = [worker EXCEPT !.buffer = @ \o SubSeq(wire, 1, n), !.parsing = TRUE]
    /\ read' = read \o SubSeq(wire, 1, n) /\ wire' = From(wire, n + 1)
    /\ UNCHANGED <<calls, signals, handler, stack, quit, asked, sent, ends, stub, got, bounds>>

\* What a packet changes; w is the worker but for that.
parsePacket(w, p) ==
    \/ /\ p.type = TYPE_WEATHER /\ Len(p.data) = Len(Weather)
       /\ worker' = [w EXCEPT !.weather = TRUE]
       /\ Emit(<<Signal("weatherDataReceived", p.data)>>)
    \/ /\ p.type = TYPE_CAR /\ Len(p.data) = CarLen
       /\ worker' = [w EXCEPT !.car = p.data, !.reverse = Reversing(p.data)]
       /\ Emit(<<Signal("carDataReceived", p.data)>>
               \o IF Reversing(p.data) = worker.reverse THEN << >>
                  ELSE <<Signal("reverseStateChanged", Reversing(p.data))>>)
    \/ /\ ~(p.type = TYPE_WEATHER /\ Len(p.data) = Len(Weather))
       /\ ~(p.type = TYPE_CAR /\ Len(p.data) = CarLen)
       /\ worker' = w /\ UNCHANGED signals

\* A turn of the loop.
parseBuffer ==
    /\ worker.parsing
    /\ \E turn \in {Turn(worker.buffer)} :
        LET w == [worker EXCEPT !.buffer = turn.left, !.parsing = turn.more]
        IN  /\ \/ turn.found = << >> /\ worker' = w /\ UNCHANGED signals
               \/ turn.found # << >> /\ parsePacket(w, turn.found[1])
            /\ got' = got \o turn.found
    /\ UNCHANGED <<calls, handler, stack, quit, line, sent, ends, stub, read, bounds>>

\* A bug to detect: the first tick stops the timer.
requestWeatherData_Once ==
    /\ worker.timer /\ worker.port = "open" /\ ~worker.parsing
    /\ worker' = [worker EXCEPT !.timer = FALSE] /\ asked' = (asked \/ ~worker.weather)
    /\ UNCHANGED <<calls, signals, handler, stack, quit, wire, history, bounds>>

\* A tick of m_requestTimer.
requestWeatherData ==
    /\ worker.timer /\ worker.port = "open" /\ ~worker.parsing
    /\ IF worker.weather
       THEN worker' = [worker EXCEPT !.timer = FALSE] /\ UNCHANGED asked
       ELSE asked' = TRUE /\ UNCHANGED worker
    /\ UNCHANGED <<calls, signals, handler, stack, quit, wire, history, bounds>>

\* The thread's event loop ends, with calls still queued or not, and the worker
\* is destroyed.
Finish ==
    /\ quit = "asked" /\ ~worker.parsing /\ quit' = "done"
    /\ worker' = Stopped(worker) /\ Emit(StopSignals)
    /\ calls' = << >> /\ wire' = << >> /\ asked' = FALSE
    /\ UNCHANGED <<handler, stack, history, bounds>>

-----------------------------------------------------------------------------
(* The car and the line *)

\* A frame goes out; one of its bytes may be lost on the way.
Transmit(type, data) ==
    /\ worker.port = "open"
    /\ \/ wire' = wire \o Frame(type, data) /\ UNCHANGED lost
       \/ /\ lost < MaxLost /\ lost' = lost + 1
          /\ \E k \in LossAt \cap DOMAIN Frame(type, data) :
                wire' = wire \o RemoveAt(Frame(type, data), k)
    /\ sent' = Append(sent, [type |-> type, data |-> data])
    /\ ends' = Append(ends, Len(read) + Len(wire'))
    /\ UNCHANGED <<worker, calls, signals, handler, stack, quit, stub, read, got, called>>

SendCar ==
    /\ frames < MaxFrames /\ frames' = frames + 1 /\ UNCHANGED <<asked, answers>>
    /\ \E data \in CarData : Transmit(TYPE_CAR, data)

Answer ==
    /\ asked /\ asked' = FALSE
    /\ answers < MaxAnswers /\ answers' = answers + 1 /\ UNCHANGED frames
    /\ Transmit(TYPE_WEATHER, Weather)

Next ==
    \/ Call("startWork") \/ Call("stopWork") \/ OnSignal \/ EnterSubPage \/ GoBack \/ Quit
    \/ startWork \/ stopWork \/ requestWeatherData \/ Finish
    \/ \E n \in 1..Len(wire) : onReadyRead(n)
    \/ parseBuffer \/ SendCar \/ Answer

Spec == Init /\ [][Next]_vars

-----------------------------------------------------------------------------
(* Properties *)

\* The packets found do not depend on the pieces the stream is read in: when the
\* worker is not at it, they are those found when all is read at once, lost bytes
\* or not; and when none is lost, they are the packets sent whose frames were read
\* in full, also when the port was opened in the middle of a frame.
FramesFound == ~worker.parsing =>
    /\ got = Packets[read]
    /\ lost = 0 /\ worker.port = "open" =>
        got = SubSeq(sent, 1, Cardinality({k \in DOMAIN ends : ends[k] <= Len(read)}))

\* Once the queued signals are handled, what the signals of these names set, now
\* as given, is v.
WillBe(names, now, v) ==
    \/ /\ now = v
       /\ \A k \in 1..Len(signals) : signals[k].signal \notin names
    \/ \E k \in 1..Len(signals) :
        /\ signals[k].signal \in names /\ signals[k].value = v
        /\ \A j \in k + 1..Len(signals) : signals[j].signal \notin names

\* The main thread never misses a change: once the signals queued are handled, it
\* has the last car's data and the gear that the worker has, also after the port
\* was closed and opened (when the worker keeps the gear it saw last), and it
\* shows a connection exactly when the port is open.
HandlerFollows == quit = "no" =>
    /\ WillBe({"carDataReceived"}, handler.car, worker.car)
    /\ WillBe({"reverseStateChanged"}, handler.reversing, worker.reverse)
    /\ WillBe({"connected", "disconnected"}, handler.connected, worker.port = "open")

\* The reversing page is on top exactly while the car reverses, there is never a
\* second one, and below it is what the user had left: pop() never takes away
\* another page than the one that was pushed.
PageFollowsGear ==
    /\ handler.reversing <=> Last(stack) = "reversePage"
    /\ \A k \in 1..Len(stack) - 1 : stack[k] # "reversePage"
    /\ stack[1] = "home"

\* While the port is open the weather is asked for again and again until it has
\* come, whatever was lost, and however often the port was closed and opened.
RequestsGoOn == worker.port = "open" => worker.timer \/ worker.weather
=============================================================================
